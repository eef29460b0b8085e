------------------------------ MODULE QuotaLedger ------------------------------
(***************************************************************************)
(* What metering promises, whatever caches and workers do                  *)
(* (src/api/middleware/api_key_auth.py, _authenticate_and_meter): a        *)
(* client's counter moves by exactly one per charge, goes back to zero     *)
(* when an activation of that client's plan commits and at no other time   *)
(* (src/api/v1/billing_router.py, _activate_subscription), and a request   *)
(* is admitted as metered only after it has been charged, once.            *)
(* A request may be charged and then never admitted (its worker dies, the  *)
(* commit's acknowledgement is lost); it is never admitted uncharged.      *)
(***************************************************************************)
EXTENDS Naturals

CONSTANTS Clients,   \* the rows of the clients table
          Requests   \* request slots, reused for one request after another

VARIABLES used,      \* used[c]: the committed counter of client c
          paid,      \* the requests charged and not answered yet
          renewing,  \* the clients whose activation is written and not committed
          answer     \* answer[r]: the outcome of the last request in slot r

vars == <<used, paid, renewing, answer>>

\* Outcomes that need no charge: BYOK exemption, 401/403, 429, 500, dropped.
Unpaid == {"exempt", "forbidden", "exhausted", "error", "lost"}

Init == /\ used = [c \in Clients |-> 0]
        /\ paid = {}
        /\ renewing = {}
        /\ answer = [r \in Requests |-> "none"]

Receive(r) == /\ r \notin paid
              /\ answer' = [answer EXCEPT ![r] = "none"]
              /\ UNCHANGED <<used, paid, renewing>>

Charge(r, c) == /\ r \notin paid
                /\ answer[r] = "none"
                /\ used' = [used EXCEPT ![c] = @ + 1]
                /\ paid' = paid \cup {r}
                /\ UNCHANGED <<renewing, answer>>

Admit(r) == /\ r \in paid
            /\ answer' = [answer EXCEPT ![r] = "admitted"]
            /\ paid' = paid \ {r}
            /\ UNCHANGED <<used, renewing>>

Decline(r) == /\ r \notin paid
              /\ \E a \in Unpaid : answer' = [answer EXCEPT ![r] = a]
              /\ UNCHANGED <<used, paid, renewing>>

\* The charge is committed but the caller is told of a failure.
Waste(r, c) == /\ r \notin paid
               /\ used' = [used EXCEPT ![c] = @ + 1]
               /\ answer' = [answer EXCEPT ![r] = "error"]
               /\ UNCHANGED <<paid, renewing>>

\* A worker dies with the requests S: the charges they paid stay.  Activations
\* it had under way are rolled back.
Lose(S) == /\ answer' = [r \in Requests |-> IF r \in S THEN "lost" ELSE answer[r]]
           /\ paid' = paid \ S
           /\ renewing' \in SUBSET renewing
           /\ UNCHANGED used

\* The activation of c's plan: its UPDATE, then its COMMIT or its rollback.
Begin(c) == /\ c \notin renewing
            /\ renewing' = renewing \cup {c}
            /\ UNCHANGED <<used, paid, answer>>

Reset(c) == /\ c \in renewing
            /\ used' = [used EXCEPT ![c] = 0]
            /\ renewing' = renewing \ {c}
            /\ UNCHANGED <<paid, answer>>

Abandon(c) == /\ c \in renewing
              /\ renewing' = renewing \ {c}
              /\ UNCHANGED <<used, paid, answer>>

Next == \/ \E r \in Requests : Receive(r) \/ Admit(r) \/ Decline(r)
        \/ \E r \in Requests, c \in Clients : Charge(r, c) \/ Waste(r, c)
        \/ \E S \in SUBSET Requests : Lose(S)
        \/ \E c \in Clients : Begin(c) \/ Reset(c) \/ Abandon(c)

Spec == Init /\ [][Next]_vars
================================================================================
