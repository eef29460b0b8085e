------------------------------- MODULE LeadPromise ------------------------------
(***************************************************************************)
(* What ingesting a lead promises, whatever provider is asked and however  *)
(* often (leads_router.py, ingest_and_qualify_lead.py): a request gets at  *)
(* most one verdict and inserts at most one lead, with that verdict and    *)
(* the class it belongs to; then it is answered once, and the status tells *)
(* which of this has happened and, for a refusal, whose fault it was: 502  *)
(* the provider's, 400 and 422 the payload's (leads_router.py:36-42).      *)
(* 500, and no answer, tell nothing: the lead may have been stored by the  *)
(* very step that fails.                                                   *)
(***************************************************************************)
EXTENDS Integers

CONSTANTS Requests, Scores, None

VARIABLES open,      \* the requests being served
          flawed,    \* those whose payload the domain will not have
          verdict,   \* the score a provider gave, or None
          lead,      \* the row a request has inserted, or None
          answer     \* the status of the last request of each slot, or None

vars == <<open, flawed, verdict, lead, answer>>

Init == /\ open = {}
        /\ flawed = {}
        /\ verdict = [r \in Requests |-> None]
        /\ lead = [r \in Requests |-> None]
        /\ answer = [r \in Requests |-> None]

Take(r) == /\ r \notin open
           /\ flawed' \in {flawed \cup {r}, flawed \ {r}}
           /\ verdict' = [verdict EXCEPT ![r] = None]
           /\ lead' = [lead EXCEPT ![r] = None]

Open(r) == /\ Take(r)
           /\ open' = open \cup {r}
           /\ answer' = [answer EXCEPT ![r] = None]

\* No provider can be asked.
TurnAway(r) == /\ Take(r)
               /\ \E code \in {"500", "502"} : answer' = [answer EXCEPT ![r] = code]
               /\ UNCHANGED open

Judge(r) == /\ r \in open
            /\ verdict[r] = None
            /\ \E s \in Scores : verdict' = [verdict EXCEPT ![r] = s]
            /\ UNCHANGED <<open, flawed, lead, answer>>

Class(s) == IF s < 40 THEN "DISQUALIFIED" ELSE IF s < 70 THEN "REVIEW_NEEDED" ELSE "QUALIFIED"

Insert(r) == /\ r \in open
             /\ lead[r] = None
             /\ verdict[r] \in 0..100 /\ r \notin flawed
             /\ lead' = [lead EXCEPT ![r] = [score |-> verdict[r], status |-> Class(verdict[r])]]

Store(r) == Insert(r) /\ UNCHANGED <<open, flawed, verdict, answer>>

Close(r, code) == /\ r \in open
                  /\ open' = open \ {r}
                  /\ answer' = [answer EXCEPT ![r] = code]
                  /\ UNCHANGED <<flawed, verdict>>

Created(r) == lead[r] # None /\ Close(r, "201") /\ UNCHANGED lead

\* A request without a verdict is the provider's fault; one with a verdict in
\* the range of a score is refused for its payload only.  For a verdict out of
\* range the promise leaves open who is blamed: leads_router.py:42 says 502 of
\* invalid data, error_handler.py:21 makes it 422.
Refused(r) == /\ lead[r] = None
              /\ \/ verdict[r] = None /\ Close(r, "502")
                 \/ /\ verdict[r] # None /\ verdict[r] \in 0..100 /\ r \in flawed
                    /\ \E code \in {"400", "422"} : Close(r, code)
                 \/ /\ verdict[r] # None /\ verdict[r] \notin 0..100
                    /\ \E code \in {"400", "422", "502"} : Close(r, code)
              /\ UNCHANGED lead

Broken(r) == /\ \E code \in {"500", "lost"} : Close(r, code)
             /\ Insert(r) \/ UNCHANGED lead

Next == \E r \in Requests : \/ Open(r) \/ TurnAway(r) \/ Judge(r) \/ Store(r)
                            \/ Created(r) \/ Refused(r) \/ Broken(r)

Spec == Init /\ [][Next]_vars
================================================================================
