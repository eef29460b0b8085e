------------------------------ MODULE UsageAlerts ------------------------------
(***************************************************************************)
(* The 80% and 95% usage alerts (usage_alert_service.py).                  *)
(*                                                                         *)
(* A metered request that has been charged starts a task on its worker's   *)
(* event loop and does not wait for it.  The task reads the same cached    *)
(* ClientModel object the request used, sends an e-mail, and then marks    *)
(* the alert as sent in the client's row.  Tasks therefore race with later *)
(* requests on the object, with each other, with an activation that starts *)
(* a new period on the row and clears the marks, and with a change of plan *)
(* that moves the limit within the period.                                 *)
(*                                                                         *)
(* One account is modelled, since alerts of two accounts share nothing.    *)
(* Of authentication and the cache the model has what the tasks see: the   *)
(* object a request hits or loads, the quota check and the charge.  Status *)
(* and BYOK are left out, so a request may end after it has its object     *)
(* (ApiKeyAuth.tla has them in full).                                      *)
(***************************************************************************)
EXTENDS Integers, FiniteSets

CONSTANTS
  Workers,       \* worker processes
  Requests,      \* slots for concurrent metered requests
  Tasks,         \* bound: alert tasks alive at a time
  Objs,          \* identities of ClientModel objects
  Limits,        \* monthly limits of the plans
  MaxUsed,       \* bound: committed charges in one period
  Events,        \* the subscription events that write the columns below
  Faults,        \* whether e-mail or database calls raise and workers die
  None

ASSUME ConstantsOK ==
  /\ IsFiniteSet(Requests)
  /\ Limits \subseteq Nat /\ Limits # {}
  /\ MaxUsed \in Nat
  /\ Events \subseteq {"activate", "update_plan"}
  /\ Faults \in BOOLEAN
  /\ None \notin Objs \cup Workers

VARIABLES
  row,         \* the client's committed columns
  event,       \* the subscription event that holds the row lock, or None
  cached,      \* the object each worker's cache serves, or None
  heap,        \* the columns of each object in memory
  req,         \* the metered requests in flight
  task,        \* the alert tasks
  current,     \* auxiliary: the objects loaded since the period began
  posted       \* auxiliary: levels the e-mail adapter has returned for, in
               \* this period or for a mark that was pending when it began

vars == <<row, event, cached, heap, req, task, current, posted>>

Levels == {80, 95}

\* The columns a task reads, in the row and in an object: the counter, the
\* limit, and the levels whose alert_NN_sent_at is not NULL.
Columns == [used : Nat, limit : Limits, sent : SUBSET Levels]

ASSUME NoneIsNew == None \notin Levels /\ None \notin Columns

Request == [pc : {"idle", "selecting", "loaded", "charging", "charged"},
            worker : Workers \cup {None}, obj : Objs \cup {None}]

Task == [pc : {"none", "queued", "sending", "marking"}, worker : Workers \cup {None},
         obj : Objs \cup {None}, level : Levels \cup {None}]

Event == [type : {"activate", "update_plan"}, worker : Workers, limit : Limits]

TypeOK ==
  /\ row \in Columns
  /\ event \in Event \cup {None}
  /\ cached \in [Workers -> Objs \cup {None}]
  /\ heap \in [Objs -> Columns \cup {None}]
  /\ req \in [Requests -> Request]
  /\ task \in [Tasks -> Task]
  /\ current \subseteq {o \in Objs : heap[o] # None}
  /\ posted \subseteq Levels

NoRequest == [pc |-> "idle", worker |-> None, obj |-> None]
NoTask == [pc |-> "none", worker |-> None, obj |-> None, level |-> None]

--------------------------------------------------------------------------------
(* Worker memory *)

\* An object lives while the cache, a request or a task refers to it.
Alive(cc, rr, tt, o) ==
  \/ \E w \in Workers : cc[w] = o
  \/ \E r \in Requests : rr[r].obj = o
  \/ \E t \in Tasks : tt[t].obj = o

Remember(cc, rr, tt, h, cur) ==
  /\ cached' = cc
  /\ req' = rr
  /\ task' = tt
  /\ heap' = [o \in Objs |-> IF Alive(cc, rr, tt, o) THEN h[o] ELSE None]
  /\ current' = {o \in cur : Alive(cc, rr, tt, o)}

\* The entry's 30 seconds are over.
Expire(w) ==
  /\ cached[w] # None
  /\ Remember([cached EXCEPT ![w] = None], req, task, heap, current)
  /\ UNCHANGED <<row, event, posted>>

--------------------------------------------------------------------------------
(* Metered requests *)

WithinQuota(o) == heap[o].used < heap[o].limit

\* A hit whose quota check passes.
ArriveHit(r, w) ==
  /\ req[r].pc = "idle"
  /\ cached[w] # None
  /\ WithinQuota(cached[w])
  /\ req' = [req EXCEPT ![r] = [pc |-> "charging", worker |-> w, obj |-> cached[w]]]
  /\ UNCHANGED <<row, event, cached, heap, task, current, posted>>

\* A miss: the SELECT is awaited.
ArriveMiss(r, w) ==
  /\ req[r].pc = "idle"
  /\ cached[w] = None
  /\ req' = [req EXCEPT ![r] = [pc |-> "selecting", worker |-> w, obj |-> None]]
  /\ UNCHANGED <<row, event, cached, heap, task, current, posted>>

\* The SELECT copies the committed row into a new object.
Select(r) ==
  /\ req[r].pc = "selecting"
  /\ \E o \in {x \in Objs : ~Alive(cached, req, task, x)} :
       Remember(cached, [req EXCEPT ![r].pc = "loaded", ![r].obj = o], task,
                [heap EXCEPT ![o] = row], current \cup {o})
  /\ UNCHANGED <<row, event, posted>>

\* The object is cached, over whatever the entry holds by now; the request is
\* charged if it is within the quota, or ends: exhausted, inactive, BYOK.
Resume(r) ==
  /\ req[r].pc = "loaded"
  /\ LET o  == req[r].obj
         cc == [cached EXCEPT ![req[r].worker] = o]
     IN \/ /\ WithinQuota(o)
           /\ Remember(cc, [req EXCEPT ![r].pc = "charging"], task, heap, current)
        \/ Remember(cc, [req EXCEPT ![r] = NoRequest], task, heap, current)
  /\ UNCHANGED <<row, event, posted>>

\* The committed charge; it waits for an event that holds the row.
Charge(r) ==
  /\ req[r].pc = "charging"
  /\ event = None
  /\ row.used < MaxUsed
  /\ row' = [row EXCEPT !.used = @ + 1]
  /\ req' = [req EXCEPT ![r].pc = "charged"]
  /\ UNCHANGED <<event, cached, heap, task, current, posted>>

\* Back on the event loop: the object's counter, then create_task.
Settle(r) ==
  /\ req[r].pc = "charged"
  /\ \E t \in Tasks :
       /\ task[t] = NoTask
       /\ Remember(cached, [req EXCEPT ![r] = NoRequest],
                   [task EXCEPT ![t] = [pc |-> "queued", worker |-> req[r].worker,
                                        obj |-> req[r].obj, level |-> None]],
                   [heap EXCEPT ![req[r].obj].used = @ + 1], current)
  /\ UNCHANGED <<row, event, posted>>

\* A database call of the request raises before it had an effect.
RequestFails(r) ==
  /\ Faults
  /\ req[r].pc \in {"selecting", "charging"}
  /\ Remember(cached, [req EXCEPT ![r] = NoRequest], task, heap, current)
  /\ UNCHANGED <<row, event, posted>>

\* The charge commits but its acknowledgement is lost: no task is created.
ChargeUnacked(r) ==
  /\ Faults
  /\ req[r].pc = "charging"
  /\ event = None
  /\ row.used < MaxUsed
  /\ row' = [row EXCEPT !.used = @ + 1]
  /\ Remember(cached, [req EXCEPT ![r] = NoRequest], task, heap, current)
  /\ UNCHANGED <<event, posted>>

--------------------------------------------------------------------------------
(* Alert tasks *)

Reached(c, l) == c.limit > 0 /\ 100 * c.used >= l * c.limit

\* Bug: the request that is being served is counted once more.
EagerLevel(c) ==
  LET d == [c EXCEPT !.used = @ + 1]
  IN IF Reached(d, 95) /\ 95 \notin c.sent THEN 95
     ELSE IF Reached(d, 80) /\ 80 \notin c.sent THEN 80
     ELSE None

\* Bug: the lower threshold is tested first.
LowLevelFirst(c) ==
  IF Reached(c, 80) /\ 80 \notin c.sent THEN 80
  ELSE IF Reached(c, 95) /\ 95 \notin c.sent THEN 95
  ELSE None

\* The alert that columns c call for.
Level(c) ==
  IF Reached(c, 95) /\ 95 \notin c.sent THEN 95
  ELSE IF Reached(c, 80) /\ 80 \notin c.sent THEN 80
  ELSE None

\* Bug: the early return is missing.
StartAnyway(t) ==
  /\ task[t].pc = "queued"
  /\ Remember(cached, req,
              [task EXCEPT ![t].pc = "sending", ![t].level = Level(heap[task[t].obj])],
              heap, current)
  /\ UNCHANGED <<row, event, posted>>

\* The event loop runs the task up to the e-mail: it reads the object as it is
\* now, requests that were settled in the meantime included.
Start(t) ==
  /\ task[t].pc = "queued"
  /\ LET l == Level(heap[task[t].obj])
     IN Remember(cached, req,
                 [task EXCEPT ![t] = IF l = None THEN NoTask
                                     ELSE [@ EXCEPT !.pc = "sending", !.level = l]],
                 heap, current)
  /\ UNCHANGED <<row, event, posted>>

\* send_email returns: accepted, or refused by Resend with a 4xx or 5xx, which
\* the adapter logs and does not raise.
MailReturns(t) ==
  /\ task[t].pc = "sending"
  /\ task' = [task EXCEPT ![t].pc = "marking"]
  /\ posted' = posted \cup {task[t].level}
  /\ UNCHANGED <<row, event, cached, heap, req, current>>

\* Bug: the mark is written whether or not the mail went out.
MailRaisesMarks(t) ==
  /\ Faults
  /\ task[t].pc = "sending"
  /\ task' = [task EXCEPT ![t].pc = "marking"]
  /\ UNCHANGED <<row, event, cached, heap, req, current, posted>>

\* send_email or the UPDATE raises: logged, and the task ends without a mark.
MailRaises(t) ==
  /\ Faults
  /\ task[t].pc = "sending"
  /\ Remember(cached, req, [task EXCEPT ![t] = NoTask], heap, current)
  /\ UNCHANGED <<row, event, posted>>

MarkRaises(t) ==
  /\ Faults
  /\ task[t].pc = "marking"
  /\ Remember(cached, req, [task EXCEPT ![t] = NoTask], heap, current)
  /\ UNCHANGED <<row, event, posted>>

\* The row gets its mark; the object the task read does not.
Mark(t) ==
  /\ task[t].pc = "marking"
  /\ event = None
  /\ row' = [row EXCEPT !.sent = @ \cup {task[t].level}]
  /\ Remember(cached, req, [task EXCEPT ![t] = NoTask], heap, current)
  /\ UNCHANGED <<event, posted>>

--------------------------------------------------------------------------------
(* Subscription events.  One that changes the status only is here a change *)
(* of plan to the limit the row has.                                       *)

\* The UPDATE locks the row; then the receiving worker drops its entry.
EventUpdate(w, type, l) ==
  /\ type \in Events
  /\ event = None
  /\ event' = [type |-> type, worker |-> w, limit |-> l]
  /\ Remember([cached EXCEPT ![w] = None], req, task, heap, current)
  /\ UNCHANGED <<row, posted>>

\* An activation starts a period.
ActivateCommit ==
  /\ event # None /\ event.type = "activate"
  /\ row' = [used |-> 0, limit |-> event.limit, sent |-> {}]
  /\ posted' = {task[t].level : t \in {u \in Tasks : task[u].pc = "marking"}}
  /\ event' = None
  /\ current' = {}
  /\ UNCHANGED <<cached, heap, req, task>>

\* A change of plan moves the limit and leaves the counter and the marks.
PlanCommit ==
  /\ event # None /\ event.type = "update_plan"
  /\ row' = [row EXCEPT !.limit = event.limit]
  /\ event' = None
  /\ UNCHANGED <<cached, heap, req, task, current, posted>>

EventAbort ==
  /\ Faults
  /\ event # None
  /\ event' = None
  /\ UNCHANGED <<row, cached, heap, req, task, current, posted>>

--------------------------------------------------------------------------------

\* A worker is killed; tasks are kept nowhere but in its memory.
Crash(w) ==
  /\ Faults
  /\ Remember([cached EXCEPT ![w] = None],
              [r \in Requests |-> IF req[r].worker = w THEN NoRequest ELSE req[r]],
              [t \in Tasks |-> IF task[t].worker = w THEN NoTask ELSE task[t]], heap, current)
  /\ event' = IF event # None /\ event.worker = w THEN None ELSE event
  /\ UNCHANGED <<row, posted>>

Init ==
  /\ \E l \in Limits : row = [used |-> 0, limit |-> l, sent |-> {}]
  /\ event = None
  /\ cached = [w \in Workers |-> None]
  /\ heap = [o \in Objs |-> None]
  /\ req = [r \in Requests |-> NoRequest]
  /\ task = [t \in Tasks |-> NoTask]
  /\ current = {}
  /\ posted = {}

RequestStep(r) == \/ \E w \in Workers : ArriveHit(r, w) \/ ArriveMiss(r, w)
                  \/ Select(r) \/ Resume(r) \/ Charge(r) \/ Settle(r)
                  \/ RequestFails(r) \/ ChargeUnacked(r)

TaskStep(t) == Start(t) \/ MailReturns(t) \/ MailRaises(t) \/ Mark(t) \/ MarkRaises(t)

EventStep ==
  \/ \E w \in Workers, type \in Events, l \in Limits : EventUpdate(w, type, l)
  \/ ActivateCommit \/ PlanCommit \/ EventAbort

Next == \/ \E w \in Workers : Expire(w) \/ Crash(w)
        \/ \E r \in Requests : RequestStep(r)
        \/ \E t \in Tasks : TaskStep(t)
        \/ EventStep

Spec == Init /\ [][Next]_vars

--------------------------------------------------------------------------------
(* Properties *)

\* An alert is marked as sent in the row only if the adapter was called and
\* returned: a mail that raised, or a task that died with its worker, leaves
\* the alert to be sent again (usage_alert_service.py:46-57).  A mark that was
\* pending when a new period began still lands in it.
MarkedAfterMail == row.sent \subseteq posted

\* No account is warned too early: unless the period changed after the object
\* was loaded, the committed usage has reached the level of every alert that is
\* on its way, of the limit the object was loaded with (the row may have got
\* another since: billing_router.py:200-208 reaches no object in use, nor the
\* cache of another worker).  The row is charged before the object
\* (api_key_auth.py:136-145), so what a task reads, later than it was created
\* and with the increments of other requests, is never ahead of the row.
NoEarlyAlert ==
  \A t \in Tasks :
    task[t].level # None /\ task[t].obj \in current
      => Reached([row EXCEPT !.limit = heap[task[t].obj].limit], task[t].level)

\* "test_no_duplicate_80_alert" and "..._95_alert" (test_usage_alerts.py:76-101):
\* once the alert of a level is marked in the client's row, no second mail of
\* that level is sent.
NoDuplicateAlert ==
  [][\A t \in Tasks :
       task[t].pc = "queued" /\ task'[t].pc = "sending"
         => task'[t].level \notin row.sent]_vars

\* The event loop runs tasks and requests, the adapter returns (it does not
\* fail in the runs that assume fairness), and the row lock is released.
Fairness ==
  /\ \A r \in Requests : /\ WF_vars(Select(r)) /\ WF_vars(Resume(r))
                         /\ SF_vars(Charge(r)) /\ WF_vars(Settle(r))
  /\ \A t \in Tasks : WF_vars(Start(t)) /\ WF_vars(MailReturns(t)) /\ SF_vars(Mark(t))
  /\ WF_vars(ActivateCommit) /\ WF_vars(PlanCommit)

FairSpec == Spec /\ Fairness

\* A charge that brings the account to 95% leads to a 95% mail, although the
\* 80% branch is open for the same object and its marks are never refreshed
\* (usage_alert_service.py:28-31), whatever other tasks do.
UrgentAlertGoesOut ==
  \A t \in Tasks :
    task[t].pc = "queued" /\ Reached(heap[task[t].obj], 95) /\ 95 \notin heap[task[t].obj].sent
      ~> 95 \in posted
================================================================================
