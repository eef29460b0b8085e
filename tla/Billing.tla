--------------------------------- MODULE Billing ---------------------------------
(***************************************************************************)
(* Subscription webhooks (billing_router.py): how an account follows what  *)
(* its payment provider says.                                              *)
(*                                                                         *)
(* A provider, Lemon Squeezy or PayPro, keeps a subscription for an        *)
(* address and reports every change of it as an event.  It sends the       *)
(* events of an address in order, and each of them again until an attempt  *)
(* is answered with 200.  It may give up waiting for an answer: the        *)
(* attempt then goes on in the service, next to the attempts that follow.  *)
(* The service keeps no event ids and no order; it finds the account by    *)
(* its address and writes what the event says.  ApiKeyAuth has the row     *)
(* lock and the caches; here UPDATE and COMMIT are one step.               *)
(***************************************************************************)
EXTENDS Integers, Sequences, FiniteSets

CONSTANTS
  Clients,    \* e-mail addresses, of accounts and of customers
  Attempts,   \* slots for attempts at a delivery
  Limit,      \* the monthly limit of each plan
  Title,      \* the name each paid plan is sold under: the plan words in it
  Products,   \* the plans whose paypro_product_id is configured
  MaxQueue,   \* bound: events that wait for their 200
  MaxFaults,  \* bound: attempts that fail, or that the provider gives up
  MaxUsed,    \* bound: requests counted between two resets
  None

Plans == {"FREE", "PRO", "AGENCY"}
Paid == {"PRO", "AGENCY"}
Statuses == {"ACTIVE", "PAST_DUE", "CANCELED", "INACTIVE"}
Providers == {"Lemon", "PayPro"}

\* _VARIANT_TO_PLAN is looked up with the whole name; of PayPro's names, those
\* with "pro" in them are tried before those with "agency".
PlanOf(provider, title) ==
  CASE provider = "Lemon"  -> IF title = {"pro"} THEN "PRO"
                              ELSE IF title = {"agency"} THEN "AGENCY" ELSE "FREE"
    [] provider = "PayPro" -> IF "pro" \in title THEN "PRO"
                              ELSE IF "agency" \in title THEN "AGENCY" ELSE "FREE"

\* The names in the shops are chosen so that the receivers understand them.
ASSUME ConstantsOK ==
  /\ Limit \in [Plans -> Nat \ {0}]
  /\ Title \in [Paid -> SUBSET {"pro", "agency"}]
  /\ \A p \in Paid, v \in Providers : PlanOf(v, Title[p]) = p
  /\ Products \subseteq Paid
  /\ MaxQueue \in Nat
  /\ MaxFaults \in Nat
  /\ MaxUsed \in Nat
  /\ None \notin Clients

VARIABLES
  account,  \* the row of each address, or None
  sub,      \* what the provider holds of each address
  queue,    \* its events that no attempt has been answered for yet
  at,       \* the attempts the service is working on
  known,    \* auxiliary: the subscription as of the last event answered with 200
  done,     \* auxiliary: whether the first event of the queue is in the row
  astray,   \* auxiliary: see RowFollowsProvider
  faults    \* auxiliary: faults so far

vars == <<account, sub, queue, at, known, done, astray, faults>>

Row == [status : Statuses, plan : Plans, used : 0..MaxUsed]

\* What a provider holds of an address.  One that never bought anything has
\* what register gives an account: ACTIVE, on the free plan.
Subscription == [provider : Providers, status : Statuses, plan : Plans]

LemonNames == {"order_created", "subscription_created", "subscription_updated",
               "subscription_payment_success", "subscription_payment_failed",
               "subscription_cancelled", "subscription_resumed", "subscription_expired"}
PayProNames == {"SUBSCRIPTION_ACTIVATED", "CHARGE_COMPLETED", "CHARGE_FAILED",
                "SUBSCRIPTION_CANCELLED", "SUBSCRIPTION_RESUMED",
                "SUBSCRIPTION_EXPIRED", "CHARGE_REFUNDED"}

\* An event, and the status and plan the subscription has with it.  A receiver
\* sees its name and, through Title, the plan.
Event == [name : LemonNames \cup PayProNames, status : Statuses, plan : Paid]

\* An attempt is awaited by the provider, or given up; its event may since have
\* been answered through another attempt, and a newer event been written.
Attempt == [pc : {"arrived", "found", "answering"}, client : Clients, event : Event,
            standing : {"awaited", "given_up", "answered", "overtaken"}]

ASSUME NoneIsNew == None \notin Row /\ None \notin Attempt

TypeOK ==
  /\ account \in [Clients -> Row \cup {None}]
  /\ sub \in [Clients -> Subscription]
  /\ queue \in [Clients -> Seq(Event)]
  /\ at \in [Attempts -> Attempt \cup {None}]
  /\ known \in [Clients -> [status : Statuses, plan : Plans]]
  /\ done \in [Clients -> BOOLEAN]
  /\ astray \in [Clients -> BOOLEAN]
  /\ faults \in 0..MaxFaults

--------------------------------------------------------------------------------
(* The receivers: what an event of each name does. *)

Activating == {"order_created", "subscription_created",
               "SUBSCRIPTION_ACTIVATED", "CHARGE_COMPLETED"}
Updating == {"subscription_updated"}
Expiring == {"subscription_expired", "SUBSCRIPTION_EXPIRED", "CHARGE_REFUNDED"}
Failing == {"subscription_payment_failed", "CHARGE_FAILED"}
Cancelling == {"subscription_cancelled", "SUBSCRIPTION_CANCELLED"}
Resuming == {"subscription_resumed", "SUBSCRIPTION_RESUMED"}
\* Bug: the cases of a resumed subscription are missing.
HandledButResumed == Activating \cup Updating \cup Expiring \cup Failing \cup Cancelling

Handled == Activating \cup Updating \cup Expiring \cup Failing \cup Cancelling \cup Resuming

Provider(name) == IF name \in LemonNames THEN "Lemon" ELSE "PayPro"
PlanIn(e) == PlanOf(Provider(e.name), Title[e.plan])

\* Bug: the provider's word for it is written to the row.
AppliedInItsWords(e, row) ==
  CASE e.name \in Activating -> [status |-> "ACTIVE", plan |-> PlanIn(e), used |-> 0]
    [] e.name \in Updating   -> [row EXCEPT !.plan = PlanIn(e)]
    [] e.name \in Expiring   -> [row EXCEPT !.status = "INACTIVE"]
    [] e.name \in Failing    -> [row EXCEPT !.status = "PAST_DUE"]
    [] e.name \in Cancelling -> [row EXCEPT !.status = "CANCELLED"]
    [] e.name \in Resuming   -> [row EXCEPT !.status = "ACTIVE"]

\* Bug: an activation leaves the status to subscription_resumed.
AppliedWithoutStatus(e, row) ==
  CASE e.name \in Activating -> [row EXCEPT !.plan = PlanIn(e), !.used = 0]
    [] e.name \in Updating   -> [row EXCEPT !.plan = PlanIn(e)]
    [] e.name \in Expiring   -> [row EXCEPT !.status = "INACTIVE"]
    [] e.name \in Failing    -> [row EXCEPT !.status = "PAST_DUE"]
    [] e.name \in Cancelling -> [row EXCEPT !.status = "CANCELED"]
    [] e.name \in Resuming   -> [row EXCEPT !.status = "ACTIVE"]

\* Bug: an activation leaves the counter to a job at the end of the month.
AppliedWithoutQuota(e, row) ==
  CASE e.name \in Activating -> [row EXCEPT !.status = "ACTIVE", !.plan = PlanIn(e)]
    [] e.name \in Updating   -> [row EXCEPT !.plan = PlanIn(e)]
    [] e.name \in Expiring   -> [row EXCEPT !.status = "INACTIVE"]
    [] e.name \in Failing    -> [row EXCEPT !.status = "PAST_DUE"]
    [] e.name \in Cancelling -> [row EXCEPT !.status = "CANCELED"]
    [] e.name \in Resuming   -> [row EXCEPT !.status = "ACTIVE"]

\* _activate_subscription, _update_plan, _set_status and _reactivate.
Applied(e, row) ==
  CASE e.name \in Activating -> [status |-> "ACTIVE", plan |-> PlanIn(e), used |-> 0]
    [] e.name \in Updating   -> [row EXCEPT !.plan = PlanIn(e)]
    [] e.name \in Expiring   -> [row EXCEPT !.status = "INACTIVE"]
    [] e.name \in Failing    -> [row EXCEPT !.status = "PAST_DUE"]
    [] e.name \in Cancelling -> [row EXCEPT !.status = "CANCELED"]
    [] e.name \in Resuming   -> [row EXCEPT !.status = "ACTIVE"]

--------------------------------------------------------------------------------
(* The provider *)

\* The subscription of c is now s, and the provider has events of these names to send.
Report(c, s, names) ==
  /\ Len(queue[c]) + Len(names) <= MaxQueue
  /\ sub' = [sub EXCEPT ![c] = s]
  /\ queue' = [queue EXCEPT ![c] = @ \o
                 [i \in DOMAIN names |-> [name |-> names[i], status |-> s.status,
                                          plan |-> s.plan]]]
  /\ UNCHANGED <<account, at, known, done, astray, faults>>

\* create_checkout sends people to PayPro for a plan that is configured.
Checkout(p) == p \in Products

\* One subscription at a time; the purchase is reported as an order and as a
\* subscription.
Buy(c, p) ==
  /\ sub[c].plan = "FREE" \/ sub[c].status = "INACTIVE"
  /\ \/ /\ sub[c].provider = "Lemon"
        /\ Report(c, [sub[c] EXCEPT !.status = "ACTIVE", !.plan = p],
                  <<"order_created", "subscription_created">>)
     \/ /\ sub[c].provider = "PayPro"
        /\ Checkout(p)
        /\ Report(c, [sub[c] EXCEPT !.status = "ACTIVE", !.plan = p],
                  <<"SUBSCRIPTION_ACTIVATED", "CHARGE_COMPLETED">>)

\* The month is over and the charge succeeds.
Renew(c) ==
  /\ sub[c].plan # "FREE" /\ sub[c].status = "ACTIVE"
  /\ Report(c, sub[c], IF sub[c].provider = "Lemon" THEN <<"subscription_payment_success">>
                                                    ELSE <<"CHARGE_COMPLETED">>)

ChargeFails(c) ==
  /\ sub[c].plan # "FREE" /\ sub[c].status = "ACTIVE"
  /\ Report(c, [sub[c] EXCEPT !.status = "PAST_DUE"],
            IF sub[c].provider = "Lemon" THEN <<"subscription_payment_failed">>
                                         ELSE <<"CHARGE_FAILED">>)

\* A PayPro charge that is tried again after it failed.
ChargeRecovers(c) ==
  /\ sub[c].status = "PAST_DUE" /\ sub[c].provider = "PayPro"
  /\ Report(c, [sub[c] EXCEPT !.status = "ACTIVE"], <<"CHARGE_COMPLETED">>)

ChangePlan(c, p) ==
  /\ sub[c].plan # "FREE" /\ sub[c].status = "ACTIVE" /\ sub[c].provider = "Lemon"
  /\ Report(c, [sub[c] EXCEPT !.plan = p], <<"subscription_updated">>)

Cancel(c) ==
  /\ sub[c].plan # "FREE" /\ sub[c].status \in {"ACTIVE", "PAST_DUE"}
  /\ Report(c, [sub[c] EXCEPT !.status = "CANCELED"],
            IF sub[c].provider = "Lemon" THEN <<"subscription_cancelled">>
                                         ELSE <<"SUBSCRIPTION_CANCELLED">>)

\* The event the receivers take a subscription back by.
Resumes(c) ==
  /\ sub[c].status \in {"CANCELED", "PAST_DUE"}
  /\ Report(c, [sub[c] EXCEPT !.status = "ACTIVE"],
            IF sub[c].provider = "Lemon" THEN <<"subscription_resumed">>
                                         ELSE <<"SUBSCRIPTION_RESUMED">>)

\* It runs out, or PayPro gives the money back.
Ends(c) ==
  /\ sub[c].status \in {"CANCELED", "PAST_DUE"}
  /\ Report(c, [sub[c] EXCEPT !.status = "INACTIVE"],
            IF sub[c].provider = "Lemon" THEN <<"subscription_expired">>
                                         ELSE <<"SUBSCRIPTION_EXPIRED">>)

Refunded(c) ==
  /\ sub[c].plan # "FREE" /\ sub[c].status # "INACTIVE" /\ sub[c].provider = "PayPro"
  /\ Report(c, [sub[c] EXCEPT !.status = "INACTIVE"], <<"CHARGE_REFUNDED">>)

--------------------------------------------------------------------------------
(* Deliveries *)

Awaited(c) == {d \in Attempts : at[d] # None /\ at[d].client = c
                                /\ at[d].standing = "awaited"}

\* The attempts at events of c, those of standing s now of standing t.
Restand(c, s, t) ==
  [d \in Attempts |-> IF at[d] # None /\ at[d].client = c /\ at[d].standing = s
                        THEN [at[d] EXCEPT !.standing = t] ELSE at[d]]

\* Attempt d is done: it answers the provider if that still waits.
Concluded(f, d) ==
  [f EXCEPT ![d] = IF @.standing = "awaited" THEN [@ EXCEPT !.pc = "answering"] ELSE None]

Send(d, c) ==
  /\ at[d] = None
  /\ queue[c] # <<>> /\ Awaited(c) = {}
  /\ at' = [at EXCEPT ![d] = [pc |-> "arrived", client |-> c, event |-> Head(queue[c]),
                              standing |-> "awaited"]]
  /\ UNCHANGED <<account, sub, queue, known, done, astray, faults>>

\* (An attempt that only has to answer is given up by Breaks.)
GiveUp(d) ==
  /\ faults < MaxFaults
  /\ at[d] # None /\ at[d].standing = "awaited" /\ at[d].pc # "answering"
  /\ faults' = faults + 1
  /\ at' = [at EXCEPT ![d].standing = "given_up"]
  /\ UNCHANGED <<account, sub, queue, known, done, astray>>

\* The SELECT by address finds the account.
Found(d) ==
  /\ at[d] # None /\ at[d].pc = "arrived"
  /\ at[d].event.name \in Handled
  /\ account[at[d].client] # None
  /\ at' = [at EXCEPT ![d].pc = "found"]
  /\ UNCHANGED <<account, sub, queue, known, done, astray, faults>>

\* It finds none: a warning in the log, and 200 all the same.
NotFound(d) ==
  /\ at[d] # None /\ at[d].pc = "arrived"
  /\ at[d].event.name \in Handled
  /\ account[at[d].client] = None
  /\ at' = Concluded(at, d)
  /\ astray' = [astray EXCEPT ![at[d].client] = TRUE]
  /\ UNCHANGED <<account, sub, queue, known, done, faults>>

\* A name no case matches.
Unhandled(d) ==
  /\ at[d] # None /\ at[d].pc = "arrived"
  /\ at[d].event.name \notin Handled
  /\ at' = Concluded(at, d)
  /\ UNCHANGED <<account, sub, queue, known, done, astray, faults>>

\* The UPDATE and the commit.  The first write of an event that is still in the
\* queue overtakes the attempts at older ones.
Commit(d) ==
  /\ at[d] # None /\ at[d].pc = "found"
  /\ LET c == at[d].client
         e == at[d].event
         current == at[d].standing \in {"awaited", "given_up"}
     IN /\ account' = [account EXCEPT ![c] = Applied(e, @)]
        /\ at' = Concluded(IF current THEN Restand(c, "answered", "overtaken") ELSE at, d)
        /\ done' = IF current THEN [done EXCEPT ![c] = TRUE] ELSE done
        /\ astray' = [astray EXCEPT ![c] =
                        \/ @ /\ ~(current /\ e.name \in Activating)
                        \/ at[d].standing = "overtaken"]
  /\ UNCHANGED <<sub, queue, known, faults>>

\* Bug: an exception is logged and answered with 200.
BreaksQuietly(d) ==
  /\ faults < MaxFaults
  /\ at[d] # None
  /\ faults' = faults + 1
  /\ at' = Concluded(at, d)
  /\ UNCHANGED <<account, sub, queue, known, done, astray>>

\* The transaction raises, or the worker dies, before or after the commit: the
\* provider gets a 500, or no answer.
Breaks(d) ==
  /\ faults < MaxFaults
  /\ at[d] # None
  /\ faults' = faults + 1
  /\ at' = [at EXCEPT ![d] = None]
  /\ UNCHANGED <<account, sub, queue, known, done, astray>>

\* 200: the event is settled, for the attempts the provider gave up as well.
Answer(d) ==
  /\ at[d] # None /\ at[d].pc = "answering"
  /\ LET c == at[d].client
         e == Head(queue[c])
     IN /\ queue' = [queue EXCEPT ![c] = Tail(@)]
        /\ known' = [known EXCEPT ![c] = [status |-> e.status, plan |-> e.plan]]
        /\ done' = [done EXCEPT ![c] = FALSE]
        /\ at' = [Restand(c, "given_up", "answered") EXCEPT ![d] = None]
  /\ UNCHANGED <<account, sub, astray, faults>>

--------------------------------------------------------------------------------
(* Elsewhere in the service: an account is registered, and a request metered. *)

Register(c) ==
  /\ account[c] = None
  /\ account' = [account EXCEPT ![c] = [status |-> "ACTIVE", plan |-> "FREE", used |-> 0]]
  /\ UNCHANGED <<sub, queue, at, known, done, astray, faults>>

Exhausted(c) == account[c] # None /\ account[c].used >= Limit[account[c].plan]

\* The UPDATE that counts a request adds one to whatever is in the row: status
\* and quota were looked at in the copy a worker has cached (ApiKeyAuth), so the
\* counter may pass the limit.
Meter(c) ==
  /\ account[c] # None /\ account[c].used < MaxUsed
  /\ account' = [account EXCEPT ![c].used = @ + 1]
  /\ UNCHANGED <<sub, queue, at, known, done, astray, faults>>

--------------------------------------------------------------------------------

Nothing == [status |-> "ACTIVE", plan |-> "FREE"]

Init ==
  /\ account = [c \in Clients |-> None]
  /\ sub \in [Clients -> {s \in Subscription : s.status = "ACTIVE" /\ s.plan = "FREE"}]
  /\ queue = [c \in Clients |-> <<>>]
  /\ at = [d \in Attempts |-> None]
  /\ known = [c \in Clients |-> Nothing]
  /\ done = [c \in Clients |-> FALSE]
  /\ astray = [c \in Clients |-> FALSE]
  /\ faults = 0

ProviderStep(c) ==
  \/ \E p \in Paid : Buy(c, p) \/ ChangePlan(c, p)
  \/ Renew(c) \/ ChargeFails(c) \/ ChargeRecovers(c)
  \/ Cancel(c) \/ Resumes(c) \/ Ends(c) \/ Refunded(c)

AttemptStep(d) == \/ Found(d) \/ NotFound(d) \/ Unhandled(d) \/ Commit(d) \/ Answer(d)

Next == \/ \E c \in Clients : ProviderStep(c) \/ Register(c) \/ Meter(c)
        \/ \E d \in Attempts : \/ \E c \in Clients : Send(d, c)
                               \/ AttemptStep(d) \/ GiveUp(d) \/ Breaks(d)

Spec == Init /\ [][Next]_vars

--------------------------------------------------------------------------------
(* Safety *)

Follows(row, s) == row.status = s.status /\ row.plan = s.plan

\* The row of an account has the status and plan of its subscription as of the
\* last event that was answered, or, once an attempt at the next one has
\* written it, as of that one: however often an attempt failed, died after its
\* commit, was given up or was made twice.  What leads a row astray is an event
\* that came before its account was registered, which is answered and gone
\* (billing_router.py:184), or an attempt the provider gave up that writes
\* after a newer event; and the next activation puts the row right.
RowFollowsProvider ==
  \A c \in Clients :
    account[c] # None /\ ~astray[c] =>
      Follows(account[c], IF done[c] THEN Head(queue[c]) ELSE known[c])

\* When every event of an address has been answered, its row is what the
\* provider holds, however many events there were and however they were
\* delivered: no change of a subscription is lost on the way, again but for a
\* row that is astray (billing_router.py:81-134 and 187-297).
QuietRowCurrent ==
  \A c \in Clients :
    queue[c] = <<>> /\ account[c] # None /\ ~astray[c] => Follows(account[c], sub[c])

--------------------------------------------------------------------------------
(* Liveness.  The event loop runs the attempts, the provider sends what is not
   answered again, and months go by.  No purchase, fault or registration has
   to happen. *)

Fairness ==
  /\ \A c \in Clients : WF_vars(Renew(c)) /\ WF_vars(\E d \in Attempts : Send(d, c))
  /\ \A d \in Attempts : WF_vars(AttemptStep(d))

FairSpec == Spec /\ Fairness

\* Who keeps paying through PayPro is in the end served on the plan that is
\* paid for, even after events that were lost or overtook each other: the
\* charge of the next month activates the account.
PaidAccountOpens ==
  \A c \in Clients, p \in Paid :
    <>[](account[c] # None /\ sub[c] = [provider |-> "PayPro", status |-> "ACTIVE", plan |-> p])
      => <>[](account[c] # None /\ Follows(account[c], [status |-> "ACTIVE", plan |-> p]))

\* A quota that was used up comes back, as long as PayPro collects the monthly
\* charges.  No other event gives a month's quota back.
PaidQuotaReturns ==
  \A c \in Clients :
    Exhausted(c) /\ sub[c].provider = "PayPro" /\ sub[c].plan # "FREE" ~>
      ~Exhausted(c) \/ sub[c].status # "ACTIVE"
================================================================================
