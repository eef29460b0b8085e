--------------------------- MODULE UsageAlerts_proofs --------------------------
(***************************************************************************)
(* Theorems about UsageAlerts, for every number of workers, concurrent     *)
(* requests, tasks and objects, and every set of limits.                   *)
(***************************************************************************)
EXTENDS UsageAlerts, FiniteSetTheorems, TLAPS

--------------------------------------------------------------------------------
(* Worker memory *)

\* The requests and tasks are well formed: one that is under way has a worker
\* and an object, and a task knows its level exactly once it has read the object.
Formed(rr, tt) ==
  /\ rr \in [Requests -> Request]
  /\ tt \in [Tasks -> Task]
  /\ \A r \in Requests : rr[r].pc \notin {"idle", "selecting"} => rr[r].obj \in Objs
  /\ \A t \in Tasks : /\ tt[t].pc # "none" => tt[t].obj \in Objs
                      /\ tt[t].level # None => tt[t].pc \in {"sending", "marking"}
                      /\ tt[t].pc \in {"sending", "marking"} => tt[t].level \in Levels

\* What is referred to exists.
Refs(cc, rr, tt, h) ==
  \A o \in Objs : Alive(cc, rr, tt, o) => h[o] \in Columns

\* The inductive invariant behind the type invariant.
TypeInv == TypeOK /\ Formed(req, task) /\ Refs(cached, req, task, heap)

\* Remember keeps the memory well formed.
LEMMA RememberOK ==
  ASSUME NEW cc \in [Workers -> Objs \cup {None}], NEW rr, NEW tt,
         NEW h \in [Objs -> Columns \cup {None}], NEW cur, cur \subseteq Objs,
         Formed(rr, tt), Refs(cc, rr, tt, h), Remember(cc, rr, tt, h, cur),
         row' \in Columns, posted' \subseteq Levels,
         event' \in Event \cup {None}
  PROVE  TypeInv'
  <1>1. /\ cached' = cc /\ req' = rr /\ task' = tt
        /\ heap' = [o \in Objs |-> IF Alive(cc, rr, tt, o) THEN h[o] ELSE None]
        /\ current' = {o \in cur : Alive(cc, rr, tt, o)}
    BY DEF Remember
  <1>2. heap' \in [Objs -> Columns \cup {None}]
    BY <1>1
  <1>3. \A o \in Objs : Alive(cc, rr, tt, o) => heap'[o] \in Columns
    BY <1>1 DEF Refs
  <1>4. current' \subseteq {o \in Objs : heap'[o] # None}
    BY <1>1, <1>3, NoneIsNew
  <1>5. Refs(cached, req, task, heap)'
    BY <1>1, <1>3 DEF Refs, Alive
  <1>6. Formed(req, task)'
    BY <1>1 DEF Formed
  <1>7. TypeOK'
    BY <1>1, <1>2, <1>4, <1>6 DEF TypeOK, Formed
  <1> QED
    BY <1>5, <1>6, <1>7 DEF TypeInv

\* The parts of the invariant a step starts from.
LEMMA Parts ==
  ASSUME TypeInv
  PROVE  /\ cached \in [Workers -> Objs \cup {None}]
         /\ heap \in [Objs -> Columns \cup {None}]
         /\ current \subseteq Objs
         /\ row \in Columns /\ posted \subseteq Levels
         /\ event \in Event \cup {None}
         /\ Formed(req, task) /\ Refs(cached, req, task, heap)
         /\ req \in [Requests -> Request] /\ task \in [Tasks -> Task]
  BY DEF TypeInv, TypeOK, Formed

\* A request or a task that ends, and one that changes its phase only, leave
\* the others well formed and refer to nothing new.
LEMMA EndOK ==
  ASSUME TypeInv
  PROVE  /\ \A r \in Requests : /\ Formed([req EXCEPT ![r] = NoRequest], task)
                                /\ Refs(cached, [req EXCEPT ![r] = NoRequest], task, heap)
         /\ \A t \in Tasks : /\ Formed(req, [task EXCEPT ![t] = NoTask])
                             /\ Refs(cached, req, [task EXCEPT ![t] = NoTask], heap)
  <1>1. NoRequest \in Request /\ NoRequest.pc = "idle" /\ NoRequest.obj = None
    BY DEF NoRequest, Request
  <1>2. NoTask \in Task /\ NoTask.pc = "none" /\ NoTask.obj = None /\ NoTask.level = None
    BY DEF NoTask, Task
  <1> HIDE DEF NoRequest, NoTask
  <1>3. ASSUME NEW r \in Requests
        PROVE  /\ Formed([req EXCEPT ![r] = NoRequest], task)
               /\ Refs(cached, [req EXCEPT ![r] = NoRequest], task, heap)
    <2> DEFINE rr == [req EXCEPT ![r] = NoRequest]
    <2>1. rr \in [Requests -> Request] /\ rr[r] = NoRequest
          /\ \A x \in Requests \ {r} : rr[x] = req[x]
      BY <1>1, Parts
    <2> HIDE DEF rr
    <2>2. Formed(rr, task)
      BY <1>1, <2>1, Parts DEF Formed
    <2>3. \A o \in Objs : Alive(cached, rr, task, o) => Alive(cached, req, task, o)
      BY <1>1, <2>1, ConstantsOK DEF Alive
    <2>4. Refs(cached, rr, task, heap)
      BY <2>3, Parts DEF Refs
    <2> QED
      BY <2>2, <2>4 DEF rr
  <1>4. ASSUME NEW t \in Tasks
        PROVE  /\ Formed(req, [task EXCEPT ![t] = NoTask])
               /\ Refs(cached, req, [task EXCEPT ![t] = NoTask], heap)
    <2> DEFINE tt == [task EXCEPT ![t] = NoTask]
    <2>1. tt \in [Tasks -> Task] /\ tt[t] = NoTask
          /\ \A x \in Tasks \ {t} : tt[x] = task[x]
      BY <1>2, Parts
    <2> HIDE DEF tt
    <2>2. Formed(req, tt)
      BY <1>2, <2>1, Parts DEF Formed
    <2>3. \A o \in Objs : Alive(cached, req, tt, o) => Alive(cached, req, task, o)
      BY <1>2, <2>1, ConstantsOK DEF Alive
    <2>4. Refs(cached, req, tt, heap)
      BY <2>3, Parts DEF Refs
    <2> QED
      BY <2>2, <2>4 DEF tt
  <1> QED
    BY <1>3, <1>4

--------------------------------------------------------------------------------
(* Type correctness *)

\* At first nothing is cached and nobody is served.
LEMMA TypeInit == Init => TypeInv
  <1> SUFFICES ASSUME Init PROVE TypeInv
    OBVIOUS
  <1>1. NoRequest \in Request /\ NoTask \in Task
    BY DEF NoRequest, NoTask, Request, Task
  <1>2. row \in Columns /\ posted \subseteq Levels
    BY ConstantsOK DEF Init, Columns
  <1>3. TypeOK
    BY <1>1, <1>2 DEF Init, TypeOK
  <1>4. Formed(req, task)
    BY <1>1, NoneIsNew DEF Init, Formed, NoRequest, NoTask
  <1>5. Refs(cached, req, task, heap)
    BY ConstantsOK DEF Init, Refs, Alive, NoRequest, NoTask
  <1> QED
    BY <1>3, <1>4, <1>5 DEF TypeInv

\* The end of an entry (api_key_auth.py:36-49).
LEMMA TypeExpire ==
  ASSUME TypeInv, NEW w \in Workers, Expire(w) PROVE TypeInv'
  <1> DEFINE cc == [cached EXCEPT ![w] = None]
  <1>1. cc \in [Workers -> Objs \cup {None}]
    BY Parts
  <1>2. Refs(cc, req, task, heap)
    BY Parts, ConstantsOK DEF Refs, Alive
  <1>3. Remember(cc, req, task, heap, current)
        /\ row' = row /\ posted' = posted /\ event' = event
    BY DEF Expire
  <1> HIDE DEF cc
  <1> QED
    BY <1>1, <1>2, <1>3, Parts, RememberOK

\* A new object: the SELECT of a miss (api_key_auth.py:88-95).
LEMMA TypeSelect ==
  ASSUME TypeInv, NEW r \in Requests, Select(r) PROVE TypeInv'
  <1>1. PICK o \in Objs :
          /\ ~Alive(cached, req, task, o)
          /\ Remember(cached, [req EXCEPT ![r].pc = "loaded", ![r].obj = o], task,
                      [heap EXCEPT ![o] = row], current \cup {o})
    BY DEF Select
  <1> DEFINE q == [req[r] EXCEPT !.pc = "loaded", !.obj = o]
             rr == [req EXCEPT ![r] = q]
             h == [heap EXCEPT ![o] = row]
  <1>2. q \in Request /\ q.pc = "loaded" /\ q.obj = o
    BY Parts DEF Request
  <1>3. rr = [req EXCEPT ![r].pc = "loaded", ![r].obj = o]
    BY Parts
  <1> HIDE DEF q
  <1>4. rr \in [Requests -> Request] /\ rr[r] = q /\ \A x \in Requests \ {r} : rr[x] = req[x]
    BY <1>2, Parts
  <1>5. h \in [Objs -> Columns \cup {None}] /\ h[o] = row /\ \A x \in Objs \ {o} : h[x] = heap[x]
    BY Parts
  <1>6. Remember(cached, rr, task, h, current \cup {o})
    BY <1>1, <1>3
  <1> HIDE DEF rr, h
  <1>7. Formed(rr, task)
    BY <1>2, <1>4, Parts DEF Formed
  <1>8. \A x \in Objs \ {o} : Alive(cached, rr, task, x) => Alive(cached, req, task, x)
    BY <1>2, <1>4 DEF Alive
  <1>9. Refs(cached, rr, task, h)
    BY <1>5, <1>8, Parts DEF Refs
  <1>10. row' = row /\ posted' = posted /\ event' = event
    BY DEF Select
  <1> QED
    BY <1>5, <1>6, <1>7, <1>9, <1>10, Parts, RememberOK

\* The object is cached and used, or only cached (api_key_auth.py:104-134).
LEMMA TypeResume ==
  ASSUME TypeInv, NEW r \in Requests, Resume(r) PROVE TypeInv'
  <1> DEFINE o == req[r].obj
             w == req[r].worker
             cc == [cached EXCEPT ![w] = o]
  <1>1. req[r].pc = "loaded" /\ o \in Objs /\ req[r] \in Request
    BY Parts DEF Resume, Formed
  <1>2. cc \in [Workers -> Objs \cup {None}]
        /\ \A x \in Workers : cc[x] = o \/ cc[x] = cached[x]
    BY <1>1, Parts
  <1>3. row' = row /\ posted' = posted /\ event' = event
    BY DEF Resume
  <1>4. PICK rr : /\ rr \in {[req EXCEPT ![r].pc = "charging"], [req EXCEPT ![r] = NoRequest]}
                  /\ Remember(cc, rr, task, heap, current)
    BY DEF Resume
  <1> HIDE DEF cc
  <1>5. Alive(cached, req, task, o)
    BY DEF Alive
  <1>6. Formed(rr, task) /\ \A x \in Requests : rr[x].obj = req[x].obj \/ rr[x].obj = None
    <2>1. CASE rr = [req EXCEPT ![r].pc = "charging"]
      <3>1. rr \in [Requests -> Request] /\ \A x \in Requests : rr[x].obj = req[x].obj
            /\ \A q \in Requests \ {r} : rr[q] = req[q]
        BY <1>1, <2>1, Parts DEF Request
      <3> QED
        BY <1>1, <3>1, Parts DEF Formed
    <2>2. CASE rr = [req EXCEPT ![r] = NoRequest]
      BY <2>2, EndOK, Parts DEF NoRequest
    <2> QED
      BY <1>4, <2>1, <2>2
  <1>7. \A x \in Objs : Alive(cc, rr, task, x) => Alive(cached, req, task, x)
    BY <1>2, <1>5, <1>6, ConstantsOK DEF Alive
  <1>8. Refs(cc, rr, task, heap)
    BY <1>7, Parts DEF Refs
  <1> QED
    BY <1>2, <1>3, <1>4, <1>6, <1>8, Parts, RememberOK

\* Steps that only move a request to its next phase.
LEMMA TypeMove ==
  ASSUME TypeInv, NEW r \in Requests,
         \/ \E w \in Workers : ArriveHit(r, w) \/ ArriveMiss(r, w)
         \/ Charge(r)
  PROVE  TypeInv'
  <1>1. CASE \E w \in Workers : ArriveHit(r, w) \/ ArriveMiss(r, w)
    <2> PICK w \in Workers : ArriveHit(r, w) \/ ArriveMiss(r, w)
      BY <1>1
    <2>1. PICK q : /\ req' = [req EXCEPT ![r] = q]
                   /\ q \in Request /\ q.pc # "idle"
                   /\ q.obj \in Objs \/ (q.pc = "selecting" /\ q.obj = None)
                   /\ q.obj # None => q.obj = cached[w]
      <3>1. CASE ArriveHit(r, w)
        <4>1. cached[w] \in Objs
          BY <3>1, Parts DEF ArriveHit
        <4> DEFINE q1 == [pc |-> "charging", worker |-> w, obj |-> cached[w]]
        <4>2. q1 \in Request /\ q1.pc # "idle" /\ q1.obj = cached[w] /\ q1.obj \in Objs
          BY <4>1 DEF Request
        <4>3. req' = [req EXCEPT ![r] = q1]
          BY <3>1 DEF ArriveHit
        <4> HIDE DEF q1
        <4> QED
          BY <4>2, <4>3
      <3>2. CASE ArriveMiss(r, w)
        <4> DEFINE q2 == [pc |-> "selecting", worker |-> w, obj |-> None]
        <4>1. q2 \in Request /\ q2.pc = "selecting" /\ q2.obj = None
          BY DEF Request
        <4>2. req' = [req EXCEPT ![r] = q2]
          BY <3>2 DEF ArriveMiss
        <4> HIDE DEF q2
        <4> QED
          BY <4>1, <4>2
      <3> QED
        BY <3>1, <3>2
    <2>2. req' \in [Requests -> Request] /\ req'[r] = q
          /\ \A x \in Requests \ {r} : req'[x] = req[x]
      BY <2>1, Parts
    <2>3. UNCHANGED <<row, event, cached, heap, task, current, posted>>
      BY DEF ArriveHit, ArriveMiss
    <2>4. Formed(req', task)
      BY <2>1, <2>2, Parts DEF Formed
    <2>5. Refs(cached, req', task, heap)
      BY <2>1, <2>2, Parts, ConstantsOK DEF Refs, Alive
    <2>6. TypeOK'
      BY <2>2, <2>3 DEF TypeInv, TypeOK
    <2> QED
      BY <2>3, <2>4, <2>5, <2>6 DEF TypeInv, Formed, Refs, Alive
  <1>2. CASE Charge(r)
    <2>1. row' \in Columns
      BY <1>2, Parts DEF Charge, Columns
    <2>2. /\ req' \in [Requests -> Request]
          /\ \A x \in Requests : req'[x].obj = req[x].obj
          /\ req[r].pc = "charging" /\ \A x \in Requests \ {r} : req'[x] = req[x]
      BY <1>2, Parts DEF Charge, Request
    <2>3. UNCHANGED <<event, cached, heap, task, current, posted>>
      BY <1>2 DEF Charge
    <2>4. Formed(req', task)
      BY <2>2, Parts DEF Formed
    <2>5. Refs(cached, req', task, heap)
      BY <2>2, Parts DEF Refs, Alive
    <2>6. TypeOK'
      BY <2>1, <2>2, <2>3 DEF TypeInv, TypeOK
    <2> QED
      BY <2>3, <2>4, <2>5, <2>6 DEF TypeInv, Formed, Refs, Alive
  <1> QED
    BY <1>1, <1>2

\* A request ends, with its task or without (api_key_auth.py:136-165).
LEMMA TypeEnd ==
  ASSUME TypeInv, NEW r \in Requests, Settle(r) \/ RequestFails(r) \/ ChargeUnacked(r)
  PROVE  TypeInv'
  <1>1. CASE RequestFails(r)
    BY <1>1, Parts, EndOK, RememberOK DEF RequestFails
  <1>3. CASE ChargeUnacked(r)
    <2>1. row' \in Columns
      BY <1>3, Parts DEF ChargeUnacked, Columns
    <2> QED
      BY <1>3, <2>1, Parts, EndOK, RememberOK DEF ChargeUnacked
  <1>2. CASE Settle(r)
    <2> DEFINE o == req[r].obj
               q == [pc |-> "queued", worker |-> req[r].worker, obj |-> o, level |-> None]
               rr == [req EXCEPT ![r] = NoRequest]
               h == [heap EXCEPT ![o].used = @ + 1]
    <2>1. PICK t \in Tasks : Remember(cached, rr, [task EXCEPT ![t] = q], h, current)
      BY <1>2 DEF Settle
    <2> DEFINE tt == [task EXCEPT ![t] = q]
    <2>2. o \in Objs /\ Alive(cached, req, task, o) /\ req[r].worker \in Workers \cup {None}
      BY <1>2, Parts DEF Settle, Formed, Alive, Request
    <2>3. heap[o] \in Columns
      BY <2>2, Parts DEF Refs
    <2>4. [heap[o] EXCEPT !.used = @ + 1] \in Columns
      BY <2>3 DEF Columns
    <2>5. h = [heap EXCEPT ![o] = [heap[o] EXCEPT !.used = @ + 1]]
      OBVIOUS
    <2>6. h \in [Objs -> Columns \cup {None}]
          /\ \A x \in Objs : heap[x] \in Columns => h[x] \in Columns
      BY <2>2, <2>4, <2>5, Parts
    <2>7. q \in Task
      BY <2>2 DEF Task
    <2>8. tt \in [Tasks -> Task] /\ tt[t] = q /\ \A x \in Tasks \ {t} : tt[x] = task[x]
      BY <2>7, Parts
    <2>9. Formed(rr, task) /\ rr \in [Requests -> Request]
          /\ \A x \in Requests : rr[x].obj = None \/ rr[x].obj = req[x].obj
      BY EndOK, Parts DEF Formed, NoRequest
    <2> HIDE DEF rr, tt, h
    <2>10. Formed(rr, tt)
      BY <2>2, <2>8, <2>9 DEF Formed
    <2>11. \A x \in Objs : Alive(cached, rr, tt, x) => Alive(cached, req, task, x)
      BY <2>2, <2>8, <2>9, ConstantsOK DEF Alive
    <2>12. Refs(cached, rr, tt, h)
      BY <2>6, <2>11, Parts DEF Refs
    <2>13. row' = row /\ posted' = posted /\ event' = event
      BY <1>2 DEF Settle
    <2>14. Remember(cached, rr, tt, h, current)
      BY <2>1 DEF rr, tt, h
    <2> QED
      BY <2>6, <2>10, <2>12, <2>13, <2>14, Parts, RememberOK
  <1> QED
    BY <1>1, <1>2, <1>3

\* The tasks (usage_alert_service.py:17-72).
LEMMA TypeTask ==
  ASSUME TypeInv, NEW t \in Tasks, TaskStep(t) PROVE TypeInv'
  <1>1. CASE Start(t)
    <2> DEFINE l == Level(heap[task[t].obj])
               q == [task[t] EXCEPT !.pc = "sending", !.level = l]
    <2>1. l \in Levels \cup {None}
      BY DEF Level, Levels
    <2> HIDE DEF l
    <2>2. task[t] \in Task /\ task[t].pc = "queued" /\ task[t].obj \in Objs
      BY <1>1, Parts DEF Start, Formed
    <2>3. row' = row /\ posted' = posted /\ event' = event
      BY <1>1 DEF Start
    <2>4. CASE l = None
      <3>1. Remember(cached, req, [task EXCEPT ![t] = NoTask], heap, current)
        BY <1>1, <2>4 DEF Start, l
      <3> QED
        BY <2>3, <3>1, Parts, EndOK, RememberOK
    <2>5. CASE l # None
      <3> DEFINE tt == [task EXCEPT ![t] = q]
      <3>1. Remember(cached, req, tt, heap, current)
        BY <1>1, <2>5 DEF Start, l
      <3>2. q \in Task /\ q.obj = task[t].obj /\ q.pc = "sending" /\ q.level = l
        BY <2>1, <2>2 DEF Task
      <3> HIDE DEF q
      <3>3. tt \in [Tasks -> Task] /\ tt[t] = q /\ \A x \in Tasks \ {t} : tt[x] = task[x]
        BY <3>2, Parts
      <3> HIDE DEF tt
      <3>4. Formed(req, tt)
        BY <2>1, <2>2, <2>5, <3>2, <3>3, Parts DEF Formed
      <3>5. Refs(cached, req, tt, heap)
        BY <3>2, <3>3, Parts DEF Refs, Alive
      <3> QED
        BY <2>3, <3>1, <3>4, <3>5, Parts, RememberOK
    <2> QED
      BY <2>4, <2>5
  <1>2. CASE MailReturns(t)
    <2>1. task[t].pc = "sending" /\ task[t].level \in Levels
      BY <1>2, Parts DEF MailReturns, Formed
    <2>2. UNCHANGED <<row, event, cached, heap, req, current>>
          /\ posted' \subseteq Levels
      BY <1>2, <2>1, Parts DEF MailReturns
    <2>3. /\ task' \in [Tasks -> Task]
          /\ \A x \in Tasks : task'[x].obj = task[x].obj /\ task'[x].level = task[x].level
          /\ task'[t].pc = "marking"
          /\ \A x \in Tasks \ {t} : task'[x].pc = task[x].pc
      BY <1>2, Parts DEF MailReturns, Task
    <2>4. Formed(req, task')
      BY <2>1, <2>3, Parts DEF Formed
    <2>5. Refs(cached, req, task', heap)
      BY <2>3, Parts DEF Refs, Alive
    <2>6. TypeOK'
      BY <2>2, <2>3 DEF TypeInv, TypeOK
    <2> QED
      BY <2>2, <2>4, <2>5, <2>6 DEF TypeInv, Formed, Refs, Alive
  <1>3. CASE MailRaises(t) \/ MarkRaises(t)
    BY <1>3, Parts, EndOK, RememberOK DEF MailRaises, MarkRaises
  <1>4. CASE Mark(t)
    <2>1. task[t].level \in Levels
      BY <1>4, Parts DEF Mark, Formed
    <2>2. row' \in Columns
      BY <1>4, <2>1, Parts DEF Mark, Columns
    <2>3. posted' = posted /\ event' = event
          /\ Remember(cached, req, [task EXCEPT ![t] = NoTask], heap, current)
      BY <1>4 DEF Mark
    <2> QED
      BY <2>2, <2>3, Parts, EndOK, RememberOK
  <1> QED
    BY <1>1, <1>2, <1>3, <1>4 DEF TaskStep

\* The subscription events (billing_router.py:139-216).
LEMMA TypeEvent ==
  ASSUME TypeInv, EventStep PROVE TypeInv'
  <1>1. CASE \E w \in Workers, type \in Events, l \in Limits : EventUpdate(w, type, l)
    <2> PICK w \in Workers, type \in Events, l \in Limits : EventUpdate(w, type, l)
      BY <1>1
    <2> DEFINE cc == [cached EXCEPT ![w] = None]
    <2>1. cc \in [Workers -> Objs \cup {None}]
      BY Parts
    <2>2. Refs(cc, req, task, heap)
      BY Parts, ConstantsOK DEF Refs, Alive
    <2>3. Remember(cc, req, task, heap, current)
          /\ row' = row /\ posted' = posted
          /\ event' = [type |-> type, worker |-> w, limit |-> l]
      BY DEF EventUpdate
    <2>4. event' \in Event
      BY <2>3, ConstantsOK DEF Event
    <2> HIDE DEF cc
    <2> QED
      BY <2>1, <2>2, <2>3, <2>4, Parts, RememberOK
  <1>2. CASE ActivateCommit \/ PlanCommit
    <2>1. event \in Event /\ row \in Columns
      BY <1>2, Parts DEF ActivateCommit, PlanCommit
    <2>2. row' \in Columns /\ event' = None /\ current' \subseteq current
      BY <1>2, <2>1 DEF ActivateCommit, PlanCommit, Columns, Event
    <2>3. posted' \subseteq Levels
      BY <1>2, Parts DEF ActivateCommit, PlanCommit, Formed
    <2>4. UNCHANGED <<cached, heap, req, task>>
      BY <1>2 DEF ActivateCommit, PlanCommit
    <2>5. TypeOK'
      BY <2>2, <2>3, <2>4 DEF TypeInv, TypeOK
    <2> QED
      BY <2>4, <2>5 DEF TypeInv, Formed, Refs, Alive
  <1>3. CASE EventAbort
    BY <1>3 DEF EventAbort, TypeInv, TypeOK, Formed, Refs, Alive
  <1> QED
    BY <1>1, <1>2, <1>3 DEF EventStep

\* A worker dies: its requests and tasks are gone.
LEMMA TypeCrash ==
  ASSUME TypeInv, NEW w \in Workers, Crash(w) PROVE TypeInv'
  <1> DEFINE cc == [cached EXCEPT ![w] = None]
             rr == [r \in Requests |-> IF req[r].worker = w THEN NoRequest ELSE req[r]]
             tt == [t \in Tasks |-> IF task[t].worker = w THEN NoTask ELSE task[t]]
  <1>1. /\ NoRequest \in Request /\ NoRequest.pc = "idle" /\ NoRequest.obj = None
        /\ NoTask \in Task /\ NoTask.pc = "none" /\ NoTask.obj = None
        /\ NoTask.level = None
    BY DEF NoRequest, Request, NoTask, Task
  <1>2. cc \in [Workers -> Objs \cup {None}]
    BY Parts
  <1>3. rr \in [Requests -> Request] /\ tt \in [Tasks -> Task]
    BY <1>1, Parts
  <1>4. /\ \A r \in Requests : rr[r] = NoRequest \/ rr[r] = req[r]
        /\ \A t \in Tasks : tt[t] = NoTask \/ tt[t] = task[t]
        /\ \A x \in Workers : cc[x] = None \/ cc[x] = cached[x]
    BY Parts
  <1>5. Remember(cc, rr, tt, heap, current) /\ row' = row /\ posted' = posted
        /\ (event' = None \/ event' = event)
    BY DEF Crash
  <1> HIDE DEF cc, rr, tt, NoRequest, NoTask
  <1>6. Formed(rr, tt)
    BY <1>1, <1>3, <1>4, Parts DEF Formed
  <1>7. \A o \in Objs : Alive(cc, rr, tt, o) => Alive(cached, req, task, o)
    BY <1>1, <1>4, ConstantsOK DEF Alive
  <1>8. Refs(cc, rr, tt, heap)
    BY <1>7, Parts DEF Refs
  <1> QED
    BY <1>2, <1>5, <1>6, <1>8, Parts, RememberOK

\* Every step keeps every reference of requests and tasks good.
LEMMA TypeNext == TypeInv /\ [Next]_vars => TypeInv'
  <1> SUFFICES ASSUME TypeInv, [Next]_vars PROVE TypeInv'
    OBVIOUS
  <1>1. CASE UNCHANGED vars
    BY <1>1 DEF vars, TypeInv, TypeOK, Formed, Refs, Alive
  <1> QED
    BY <1>1, TypeExpire, TypeSelect, TypeResume, TypeMove, TypeEnd, TypeTask, TypeEvent,
       TypeCrash
       DEF Next, RequestStep

\* The type invariant with what makes it inductive.
LEMMA TypeCorrect == Spec => []TypeInv
  BY TypeInit, TypeNext, PTL DEF Spec

\* Every reachable state is well typed.
THEOREM TypeSafe == Spec => []TypeOK
  BY TypeCorrect, PTL DEF TypeInv

--------------------------------------------------------------------------------
(* Marks *)

\* The inductive form of MarkedAfterMail: a mark that waits to be written has
\* its mail behind it too.
MarkInv ==
  /\ MarkedAfterMail
  /\ \A t \in Tasks : task[t].pc = "marking" => task[t].level \in posted

\* Steps that write no mark and bring no task to its mark.
LEMMA MarksKept ==
  ASSUME MarkInv, row'.sent = row.sent, posted \subseteq posted',
         \A t \in Tasks : task'[t].pc = "marking"
                            => task[t].pc = "marking" /\ task'[t].level = task[t].level
  PROVE  MarkInv'
  BY DEF MarkInv, MarkedAfterMail

\* A mark and the wait for it follow a mail (usage_alert_service.py:46-57).
LEMMA MarkNext == TypeInv /\ MarkInv /\ [Next]_vars => MarkInv'
  <1> SUFFICES ASSUME TypeInv, MarkInv, [Next]_vars PROVE MarkInv'
    OBVIOUS
  <1> USE DEF Remember
  <1>1. ASSUME NEW w \in Workers, Expire(w) PROVE MarkInv'
    BY <1>1, MarksKept DEF Expire
  <1>2. ASSUME NEW r \in Requests, NEW w \in Workers, ArriveHit(r, w) \/ ArriveMiss(r, w)
        PROVE  MarkInv'
    BY <1>2, MarksKept DEF ArriveHit, ArriveMiss
  <1>14. ASSUME NEW r \in Requests, Select(r) \/ Resume(r) PROVE MarkInv'
    BY <1>14, MarksKept DEF Select, Resume
  <1>3. ASSUME NEW r \in Requests, Charge(r) PROVE MarkInv'
    BY <1>3, MarksKept, Parts DEF Charge, Columns
  <1>4. ASSUME NEW r \in Requests, RequestFails(r) \/ ChargeUnacked(r) PROVE MarkInv'
    BY <1>4, MarksKept, Parts DEF RequestFails, ChargeUnacked, Columns
  <1>5. ASSUME NEW r \in Requests, Settle(r) PROVE MarkInv'
    BY <1>5, MarksKept, Parts DEF Settle
  <1>6. ASSUME NEW t \in Tasks, Start(t) PROVE MarkInv'
    <2>1. \A x \in Tasks : task'[x].pc = "marking" => task'[x] = task[x]
      BY <1>6, Parts DEF Start, NoTask, Task
    <2> QED
      BY <1>6, <2>1, MarksKept DEF Start
  <1>7. ASSUME NEW t \in Tasks, MailReturns(t) PROVE MarkInv'
    <2>1. row' = row /\ posted' = posted \cup {task[t].level}
      BY <1>7 DEF MailReturns
    <2>2. /\ task'[t].level = task[t].level
          /\ \A x \in Tasks \ {t} : task'[x] = task[x]
      BY <1>7, Parts DEF MailReturns, Task
    <2> QED
      BY <2>1, <2>2 DEF MarkInv, MarkedAfterMail
  <1>8. ASSUME NEW t \in Tasks, MailRaises(t) \/ MarkRaises(t) \/ Mark(t) PROVE MarkInv'
    <2>1. posted' = posted
      BY <1>8 DEF MailRaises, MarkRaises, Mark
    <2>2. \A x \in Tasks : task'[x].pc = "marking" => task'[x] = task[x]
      BY <1>8, Parts DEF MailRaises, MarkRaises, Mark, NoTask
    <2>3. \/ row' = row
          \/ task[t].pc = "marking" /\ row'.sent = row.sent \cup {task[t].level}
      BY <1>8, Parts DEF MailRaises, MarkRaises, Mark, Columns
    <2> QED
      BY <2>1, <2>2, <2>3 DEF MarkInv, MarkedAfterMail
  <1>9. ASSUME NEW w \in Workers, NEW type \in Events, NEW l \in Limits,
               EventUpdate(w, type, l)
        PROVE  MarkInv'
    BY <1>9, MarksKept DEF EventUpdate
  <1>10. CASE ActivateCommit
    BY <1>10 DEF ActivateCommit, MarkInv, MarkedAfterMail
  <1>11. CASE PlanCommit \/ EventAbort
    BY <1>11, MarksKept, Parts DEF PlanCommit, EventAbort, Columns
  <1>12. ASSUME NEW w \in Workers, Crash(w) PROVE MarkInv'
    BY <1>12, MarksKept DEF Crash, NoTask
  <1>13. CASE UNCHANGED vars
    BY <1>13, MarksKept DEF vars
  <1> QED
    BY <1>1, <1>2, <1>3, <1>4, <1>5, <1>6, <1>7, <1>8, <1>9, <1>10, <1>11, <1>12, <1>13,
       <1>14 DEF Next, RequestStep, TaskStep, EventStep

\* No mark without a mail that went to the adapter and came back, with any
\* number of tasks, failures, crashes and new periods
\* (usage_alert_service.py:46-57).
THEOREM MarksFollowMails == Spec => []MarkedAfterMail
  <1>1. Init => MarkInv
    BY DEF Init, MarkInv, MarkedAfterMail, NoTask
  <1>2. Spec => []MarkInv
    BY <1>1, MarkNext, TypeCorrect, PTL DEF Spec
  <1>3. MarkInv => MarkedAfterMail
    BY DEF MarkInv
  <1> QED
    BY <1>2, <1>3, PTL
--------------------------------------------------------------------------------
(* No early alert *)

\* The requests on object o whose charge is committed and not yet in o.
Charged(o) == {r \in Requests : req[r].pc = "charged" /\ req[r].obj = o}

\* A current object is not ahead of the row, with what it is still to be told.
NotAhead(o) == heap[o].used + Cardinality(Charged(o)) <= row.used

\* The inductive invariant behind NoEarlyAlert.
EarlyInv == NoEarlyAlert /\ \A o \in current : NotAhead(o)

\* The requests in waiting can be counted.
LEMMA ChargedFinite ==
  \A o : IsFiniteSet(Charged(o)) /\ Cardinality(Charged(o)) \in Nat
  BY ConstantsOK, FS_Subset, FS_CardinalityType DEF Charged

\* A current object has columns.
LEMMA CurrentTyped ==
  TypeInv => \A o \in current : o \in Objs /\ heap[o] \in Columns
  BY DEF TypeInv, TypeOK

\* Usage that reached a level of a limit stays there while the period lasts.
LEMMA ReachedMonotone ==
  ASSUME NEW c \in Columns, NEW d \in Columns, c.used <= d.used, NEW n \in Limits,
         NEW l \in Levels, Reached([c EXCEPT !.limit = n], l)
  PROVE  Reached([d EXCEPT !.limit = n], l)
  <1>1. c.used \in Nat /\ d.used \in Nat /\ n \in Nat /\ l \in Nat
    BY ConstantsOK DEF Columns, Levels
  <1>2. n > 0 /\ 100 * c.used >= l * n
    BY DEF Reached, Columns
  <1>3. 100 * c.used <= 100 * d.used
    BY <1>1
  <1>4. l * n \in Nat
    BY <1>1
  <1>5. 100 * d.used >= l * n
    BY <1>1, <1>2, <1>3, <1>4
  <1> QED
    BY <1>2, <1>5 DEF Reached, Columns

\* Steps within a period that make no object current, charge no request and
\* leave the objects alone: what they may do is drop objects and requests, raise
\* the row's counter and move its limit.
LEMMA EarlyKept ==
  ASSUME TypeInv, TypeInv', EarlyInv, current' \subseteq current, row.used <= row'.used,
         \A o \in current' : heap'[o] = heap[o] /\ Charged(o)' \subseteq Charged(o),
         \A t \in Tasks : task'[t].level # None
            => task[t].level = task'[t].level /\ task[t].obj = task'[t].obj
  PROVE  EarlyInv'
  <1>1. row \in Columns /\ row' \in Columns
    BY Parts DEF TypeInv, TypeOK
  <1>2. NoEarlyAlert'
    <2> SUFFICES ASSUME NEW t \in Tasks, task'[t].level # None, task'[t].obj \in current'
                 PROVE  Reached([row' EXCEPT !.limit = heap'[task'[t].obj].limit],
                                task'[t].level)
      BY DEF NoEarlyAlert, Reached
    <2> PICK o, l : o = task'[t].obj /\ l = task'[t].level
      OBVIOUS
    <2>1. task[t].level = l /\ task[t].obj = o /\ l # None /\ o \in current
          /\ heap'[o] = heap[o]
      OBVIOUS
    <2>2. Reached([row EXCEPT !.limit = heap[o].limit], l)
      BY <2>1 DEF EarlyInv, NoEarlyAlert
    <2>3. l \in Levels
      BY <2>1, Parts DEF Formed
    <2>4. heap[o].limit \in Limits
      BY <2>1, CurrentTyped DEF Columns
    <2> QED
      BY <1>1, <2>1, <2>2, <2>3, <2>4, ReachedMonotone
  <1>3. ASSUME NEW o \in current' PROVE NotAhead(o)'
    <2>1. NotAhead(o) /\ heap[o] \in Columns
      BY CurrentTyped DEF EarlyInv
    <2>2. /\ Cardinality(Charged(o)') <= Cardinality(Charged(o))
          /\ Cardinality(Charged(o)') \in Nat /\ Cardinality(Charged(o)) \in Nat
      BY ChargedFinite, FS_Subset, FS_CardinalityType
    <2>3. heap'[o] = heap[o] /\ heap[o].used \in Nat /\ row.used \in Nat /\ row'.used \in Nat
      BY <1>1, <2>1 DEF Columns
    <2> QED
      BY <2>1, <2>2, <2>3 DEF NotAhead
  <1> QED
    BY <1>2, <1>3 DEF EarlyInv

\* What Remember leaves in memory is what was put there.
LEMMA RememberSame ==
  ASSUME NEW cc, NEW rr, NEW tt, NEW h, NEW cur, cur \subseteq Objs,
         Remember(cc, rr, tt, h, cur)
  PROVE  /\ current' \subseteq cur
         /\ \A o \in current' : heap'[o] = h[o]
         /\ req' = rr /\ task' = tt
  BY DEF Remember

\* A new object is a copy of the row, and nobody had it before.
LEMMA EarlySelect ==
  ASSUME TypeInv, TypeInv', EarlyInv, NEW r \in Requests, Select(r) PROVE EarlyInv'
  <1>1. PICK n \in Objs :
          /\ ~Alive(cached, req, task, n)
          /\ Remember(cached, [req EXCEPT ![r].pc = "loaded", ![r].obj = n], task,
                      [heap EXCEPT ![n] = row], current \cup {n})
    BY DEF Select
  <1> DEFINE rr == [req EXCEPT ![r].pc = "loaded", ![r].obj = n]
             h == [heap EXCEPT ![n] = row]
             cur == current \cup {n}
  <1>2. rr[r].pc = "loaded" /\ \A x \in Requests \ {r} : rr[x] = req[x]
    BY Parts DEF Request
  <1>3. cur \subseteq Objs /\ Remember(cached, rr, task, h, cur)
    BY <1>1, Parts
  <1>4. h[n] = row /\ \A o \in Objs \ {n} : h[o] = heap[o]
    BY Parts
  <1> HIDE DEF rr, h, cur
  <1>5. /\ current' \subseteq cur /\ \A o \in current' : heap'[o] = h[o]
        /\ req' = rr /\ task' = task /\ row' = row
    BY <1>3, RememberSame DEF Select
  <1>6. \A o \in current' \ {n} : o \in current /\ heap'[o] = heap[o]
    BY <1>3, <1>4, <1>5 DEF cur
  <1>7. Charged(n) = {} /\ \A t \in Tasks : task[t].obj # n
    BY <1>1 DEF Alive, Charged
  <1>8. \A o : Charged(o)' \subseteq Charged(o)
    BY <1>2, <1>5 DEF Charged
  <1>9. NoEarlyAlert'
    <2> SUFFICES ASSUME NEW t \in Tasks, task[t].level # None, task[t].obj \in current'
                 PROVE  Reached([row EXCEPT !.limit = heap'[task[t].obj].limit],
                                task[t].level)
      BY <1>5 DEF NoEarlyAlert, Reached
    <2>1. task[t].obj \in current /\ heap'[task[t].obj] = heap[task[t].obj]
      BY <1>6, <1>7
    <2> QED
      BY <2>1 DEF EarlyInv, NoEarlyAlert
  <1>10. ASSUME NEW o \in current' PROVE NotAhead(o)'
    <2>1. CASE o = n
      <3>1. Cardinality(Charged(n)') = 0
        BY <1>7, <1>8, FS_EmptySet
      <3>2. heap'[n] = row /\ row.used \in Nat
        BY <1>4, <1>5, <2>1, Parts DEF Columns
      <3> QED
        BY <1>5, <2>1, <3>1, <3>2 DEF NotAhead
    <2>2. CASE o # n
      <3>1. NotAhead(o) /\ heap'[o] = heap[o] /\ heap[o] \in Columns /\ row \in Columns
        BY <1>6, <2>2, CurrentTyped, Parts DEF EarlyInv
      <3>2. /\ Cardinality(Charged(o)') <= Cardinality(Charged(o))
            /\ Cardinality(Charged(o)') \in Nat /\ Cardinality(Charged(o)) \in Nat
        BY <1>8, ChargedFinite, FS_Subset, FS_CardinalityType
      <3>3. heap[o].used \in Nat /\ row.used \in Nat
        BY <3>1 DEF Columns
      <3> QED
        BY <1>5, <3>1, <3>2, <3>3 DEF NotAhead
    <2> QED
      BY <2>1, <2>2
  <1> QED
    BY <1>9, <1>10 DEF EarlyInv

\* The charge: the row is raised, and one request more waits to tell its object.
LEMMA EarlyCharge ==
  ASSUME TypeInv, TypeInv', EarlyInv, NEW r \in Requests, Charge(r) PROVE EarlyInv'
  <1> PICK n : n = req[r].obj
    OBVIOUS
  <1>1. /\ row'.used = row.used + 1
        /\ row \in Columns /\ row' \in Columns
        /\ UNCHANGED <<heap, task, current>>
    BY Parts DEF Charge, Columns, TypeInv, TypeOK
  <1>2. /\ req[r].pc = "charging" /\ req'[r].pc = "charged" /\ req'[r].obj = n
        /\ \A x \in Requests \ {r} : req'[x] = req[x]
    BY Parts DEF Charge, Request
  <1>3. /\ Charged(n)' = Charged(n) \cup {r} /\ r \notin Charged(n)
        /\ \A o : o # n => Charged(o)' = Charged(o)
    BY <1>2 DEF Charged
  <1>4. NoEarlyAlert'
    <2> SUFFICES ASSUME NEW t \in Tasks, task[t].level # None, task[t].obj \in current
                 PROVE  Reached([row' EXCEPT !.limit = heap[task[t].obj].limit],
                                task[t].level)
      BY <1>1 DEF NoEarlyAlert, Reached
    <2>1. /\ Reached([row EXCEPT !.limit = heap[task[t].obj].limit], task[t].level)
          /\ task[t].level \in Levels
      BY Parts DEF EarlyInv, NoEarlyAlert, Formed
    <2>2. row.used <= row'.used
      BY <1>1 DEF Columns
    <2>3. heap[task[t].obj].limit \in Limits
      BY CurrentTyped DEF Columns
    <2> QED
      BY <1>1, <2>1, <2>2, <2>3, ReachedMonotone
  <1>5. ASSUME NEW o \in current PROVE NotAhead(o)'
    <2>1. NotAhead(o) /\ heap[o].used \in Nat /\ row.used \in Nat
      BY <1>1, CurrentTyped DEF EarlyInv, Columns
    <2>2. CASE o = n
      <3>1. Cardinality(Charged(n)') = Cardinality(Charged(n)) + 1
        BY <1>3, ChargedFinite, FS_AddElement
      <3>2. Cardinality(Charged(n)) \in Nat
        BY ChargedFinite
      <3>3. heap[n].used + Cardinality(Charged(n)) <= row.used
        BY <2>1, <2>2 DEF NotAhead
      <3>4. heap[n].used + (Cardinality(Charged(n)) + 1) <= row.used + 1
        BY <2>1, <2>2, <3>2, <3>3
      <3>5. heap'[n].used + Cardinality(Charged(n)') <= row'.used
        BY <1>1, <3>1, <3>3, <3>4
      <3> QED
        BY <2>2, <3>5 DEF NotAhead
    <2>3. CASE o # n
      BY <1>1, <1>3, <2>1, <2>3, ChargedFinite DEF NotAhead
    <2> QED
      BY <2>2, <2>3
  <1> QED
    BY <1>1, <1>4, <1>5 DEF EarlyInv

\* Settling: what waited is now in the object.
LEMMA EarlySettle ==
  ASSUME TypeInv, TypeInv', EarlyInv, NEW r \in Requests, Settle(r) PROVE EarlyInv'
  <1> PICK n : n = req[r].obj
    OBVIOUS
  <1> DEFINE q == [pc |-> "queued", worker |-> req[r].worker, obj |-> n, level |-> None]
             h == [heap EXCEPT ![n].used = @ + 1]
  <1>1. PICK t \in Tasks :
          Remember(cached, [req EXCEPT ![r] = NoRequest], [task EXCEPT ![t] = q], h, current)
    BY DEF Settle
  <1>2. row' = row /\ req[r].pc = "charged"
    BY DEF Settle
  <1> DEFINE rr == [req EXCEPT ![r] = NoRequest]
             tt == [task EXCEPT ![t] = q]
  <1>3. current \subseteq Objs /\ Remember(cached, rr, tt, h, current)
    BY <1>1, Parts
  <1> HIDE DEF rr, tt, h
  <1>4. /\ current' \subseteq current /\ \A o \in current' : heap'[o] = h[o]
        /\ req' = rr /\ task' = tt
    BY <1>3, RememberSame
  <1> USE DEF rr, tt, h
  <1>5. /\ current' \subseteq current /\ \A o \in current' : heap'[o] = h[o]
        /\ req' = [req EXCEPT ![r] = NoRequest] /\ task' = [task EXCEPT ![t] = q]
    BY <1>4
  <1>6. req'[r].pc = "idle" /\ \A x \in Requests \ {r} : req'[x] = req[x]
    BY <1>5, Parts DEF NoRequest
  <1>7. /\ Charged(n)' = Charged(n) \ {r} /\ r \in Charged(n)
        /\ \A o : o # n => Charged(o)' = Charged(o)
    BY <1>2, <1>6 DEF Charged
  <1>8. /\ task'[t].level = None
        /\ \A x \in Tasks \ {t} : task'[x] = task[x]
    BY <1>5, Parts
  <1>9. NoEarlyAlert'
    <2>1. \A o \in current' : heap'[o].limit = heap[o].limit
      BY <1>5, CurrentTyped, Parts DEF Columns
    <2> SUFFICES ASSUME NEW x \in Tasks, task'[x].level # None, task'[x].obj \in current'
                 PROVE  Reached([row EXCEPT !.limit = heap'[task'[x].obj].limit],
                                task'[x].level)
      BY <1>2 DEF NoEarlyAlert, Reached
    <2>2. task'[x] = task[x] /\ task[x].obj \in current
      BY <1>5, <1>8
    <2> QED
      BY <2>1, <2>2 DEF EarlyInv, NoEarlyAlert
  <1>10. ASSUME NEW o \in current' PROVE NotAhead(o)'
    <2>1. NotAhead(o) /\ heap[o] \in Columns /\ row \in Columns /\ o \in Objs
      BY <1>5, CurrentTyped, Parts DEF EarlyInv
    <2>2. heap[o].used \in Nat /\ row.used \in Nat
      BY <2>1 DEF Columns
    <2>3. CASE o = n
      <3>1. Cardinality(Charged(n)') = Cardinality(Charged(n)) - 1
        BY <1>7, ChargedFinite, FS_RemoveElement, ZenonT(40)
      <3>2. heap'[o].used = heap[o].used + 1
        BY <1>5, <2>1, <2>3, Parts DEF Columns
      <3>3. Cardinality(Charged(n)) \in Nat
        BY ChargedFinite
      <3>4. heap[n].used + Cardinality(Charged(n)) <= row.used
        BY <2>1, <2>3 DEF NotAhead
      <3>5. (heap[n].used + 1) + (Cardinality(Charged(n)) - 1) <= row.used
        BY <2>2, <2>3, <3>3, <3>4
      <3>6. heap'[n].used + Cardinality(Charged(n)') <= row'.used
        BY <1>2, <2>3, <3>1, <3>2, <3>4, <3>5
      <3> QED
        BY <2>3, <3>6 DEF NotAhead
    <2>4. CASE o # n
      <3>1. heap'[o] = heap[o]
        BY <1>5, <2>1, <2>4, Parts
      <3> QED
        BY <1>2, <1>7, <2>1, <2>4, <3>1 DEF NotAhead
    <2> QED
      BY <2>3, <2>4
  <1> QED
    BY <1>9, <1>10 DEF EarlyInv
\* A task reads the object and takes the level the object calls for.
LEMMA EarlyStart ==
  ASSUME TypeInv, TypeInv', EarlyInv, NEW t \in Tasks, Start(t) PROVE EarlyInv'
  <1> PICK o, l : o = task[t].obj /\ l = Level(heap[o])
    OBVIOUS
  <1> PICK tt : tt = [task EXCEPT ![t] = IF l = None THEN NoTask
                                         ELSE [@ EXCEPT !.pc = "sending", !.level = l]]
    OBVIOUS
  <1>1. /\ Remember(cached, req, tt, heap, current) /\ row' = row
        /\ current \subseteq Objs
    BY Parts DEF Start
  <1>2. /\ current' \subseteq current /\ \A x \in current' : heap'[x] = heap[x]
        /\ req' = req /\ task' = tt
    BY <1>1 DEF Remember
  <1>3. /\ \A x \in Tasks \ {t} : task'[x] = task[x]
        /\ task'[t].level # None => task'[t].level = l /\ task'[t].obj = o
    BY <1>2, Parts DEF NoTask, Task
  <1>4. ASSUME NEW x \in current' PROVE NotAhead(x)'
    BY <1>1, <1>2 DEF EarlyInv, NotAhead, Charged
  <1>5. ASSUME l # None, o \in current
        PROVE  Reached([row EXCEPT !.limit = heap[o].limit], l)
    <2>1. l \in Levels /\ Reached(heap[o], l)
      BY <1>5 DEF Level, Levels
    <2>2. NotAhead(o) /\ heap[o] \in Columns /\ row \in Columns
      BY <1>5, CurrentTyped, Parts DEF EarlyInv
    <2>3. heap[o].used \in Nat /\ row.used \in Nat /\ Cardinality(Charged(o)) \in Nat
      BY <2>2, ChargedFinite DEF Columns
    <2>4. heap[o].used <= row.used
      BY <2>2, <2>3 DEF NotAhead
    <2>5. Reached([heap[o] EXCEPT !.limit = heap[o].limit], l) /\ heap[o].limit \in Limits
      BY <2>1, <2>2 DEF Reached, Columns
    <2> QED
      BY <2>1, <2>2, <2>4, <2>5, ReachedMonotone
  <1>6. NoEarlyAlert'
    <2> SUFFICES ASSUME NEW x \in Tasks, task'[x].level # None, task'[x].obj \in current'
                 PROVE  Reached([row EXCEPT !.limit = heap[task'[x].obj].limit],
                                task'[x].level)
      BY <1>1, <1>2 DEF NoEarlyAlert, Reached
    <2>1. CASE x = t
      BY <1>2, <1>3, <1>5, <2>1
    <2>2. CASE x # t
      BY <1>2, <1>3, <2>2 DEF EarlyInv, NoEarlyAlert
    <2> QED
      BY <2>1, <2>2
  <1> QED
    BY <1>4, <1>6 DEF EarlyInv

\* The steps that only drop or pass on: EarlyKept speaks of them.
LEMMA EarlyOther ==
  ASSUME TypeInv, TypeInv', EarlyInv,
         \/ \E w \in Workers : Expire(w) \/ Crash(w)
         \/ \E r \in Requests : \/ \E w \in Workers : ArriveHit(r, w) \/ ArriveMiss(r, w)
                              \/ Resume(r) \/ RequestFails(r) \/ ChargeUnacked(r)
         \/ \E t \in Tasks : MailReturns(t) \/ MailRaises(t) \/ MarkRaises(t) \/ Mark(t)
         \/ \E w \in Workers, type \in Events, l \in Limits : EventUpdate(w, type, l)
         \/ PlanCommit \/ EventAbort
         \/ UNCHANGED vars
  PROVE  EarlyInv'
  <1>1. current \subseteq Objs /\ row \in Columns
    BY Parts
  <1>2. row.used <= row.used
    BY <1>1 DEF Columns
  <1>3. ASSUME NEW w \in Workers, Expire(w) \/ Crash(w) PROVE EarlyInv'
    <2>1. /\ row' = row /\ current' \subseteq current
          /\ \A o \in current' : heap'[o] = heap[o]
      BY <1>1, <1>3 DEF Expire, Crash, Remember
    <2>2. \A r \in Requests : req'[r] = req[r] \/ req'[r] = NoRequest
      BY <1>3 DEF Expire, Crash, Remember
    <2>3. \A t \in Tasks : task'[t] = task[t] \/ task'[t] = NoTask
      BY <1>3 DEF Expire, Crash, Remember
    <2>4. \A o : Charged(o)' \subseteq Charged(o)
      BY <2>2 DEF Charged, NoRequest
    <2>5. \A t \in Tasks : task'[t].level # None => task'[t] = task[t]
      BY <2>3 DEF NoTask
    <2> QED
      BY <1>2, <2>1, <2>4, <2>5, EarlyKept
  <1>4. ASSUME NEW r \in Requests, NEW w \in Workers, ArriveHit(r, w) \/ ArriveMiss(r, w)
        PROVE  EarlyInv'
    <2>1. /\ row' = row /\ current' = current /\ heap' = heap /\ task' = task
          /\ req'[r].pc # "charged" /\ \A x \in Requests \ {r} : req'[x] = req[x]
      BY <1>4, Parts DEF ArriveHit, ArriveMiss
    <2>2. \A o : Charged(o)' \subseteq Charged(o)
      BY <2>1 DEF Charged
    <2> QED
      BY <1>2, <2>1, <2>2, EarlyKept
  <1>5. ASSUME NEW r \in Requests, Resume(r) \/ RequestFails(r) \/ ChargeUnacked(r)
        PROVE  EarlyInv'
    <2>1. /\ current' \subseteq current /\ task' = task
          /\ \A o \in current' : heap'[o] = heap[o]
      BY <1>1, <1>5, Parts DEF Resume, RequestFails, ChargeUnacked, Remember
    <2>2. row.used <= row'.used
      BY <1>1, <1>5 DEF Resume, RequestFails, ChargeUnacked, Columns
    <2>3. \/ req' = [req EXCEPT ![r].pc = "charging"]
          \/ req' = [req EXCEPT ![r] = NoRequest]
      BY <1>5 DEF Resume, RequestFails, ChargeUnacked, Remember
    <2>4. req'[r].pc # "charged" /\ \A x \in Requests \ {r} : req'[x] = req[x]
      BY <2>3, Parts DEF Request, NoRequest
    <2>5. \A o : Charged(o)' \subseteq Charged(o)
      BY <2>4 DEF Charged
    <2> QED
      BY <2>1, <2>2, <2>5, EarlyKept
  <1>6. ASSUME NEW t \in Tasks, MailReturns(t) PROVE EarlyInv'
    <2>1. /\ row' = row /\ current' = current /\ heap' = heap /\ req' = req
          /\ \A x \in Tasks : task'[x].obj = task[x].obj /\ task'[x].level = task[x].level
      BY <1>6, Parts DEF MailReturns, Task
    <2>2. \A o : Charged(o)' \subseteq Charged(o)
      BY <2>1 DEF Charged
    <2> QED
      BY <1>2, <2>1, <2>2, EarlyKept
  <1>7. ASSUME NEW t \in Tasks, MailRaises(t) \/ MarkRaises(t) \/ Mark(t) PROVE EarlyInv'
    <2>1. /\ current' \subseteq current /\ req' = req
          /\ \A o \in current' : heap'[o] = heap[o]
          /\ \A x \in Tasks : task'[x] = task[x] \/ task'[x] = NoTask
      BY <1>1, <1>7, Parts DEF MailRaises, MarkRaises, Mark, Remember
    <2>2. row'.used = row.used
      BY <1>1, <1>7 DEF MailRaises, MarkRaises, Mark, Columns
    <2>3. \A o : Charged(o)' \subseteq Charged(o)
      BY <2>1 DEF Charged
    <2>4. \A x \in Tasks : task'[x].level # None => task'[x] = task[x]
      BY <2>1 DEF NoTask
    <2> QED
      BY <1>2, <2>1, <2>2, <2>3, <2>4, EarlyKept
  <1>8. ASSUME NEW w \in Workers, NEW type \in Events, NEW l \in Limits,
               EventUpdate(w, type, l)
        PROVE  EarlyInv'
    <2>1. /\ row' = row /\ current' \subseteq current /\ req' = req /\ task' = task
          /\ \A o \in current' : heap'[o] = heap[o]
      BY <1>1, <1>8 DEF EventUpdate, Remember
    <2>2. \A o : Charged(o)' \subseteq Charged(o)
      BY <2>1 DEF Charged
    <2> QED
      BY <1>2, <2>1, <2>2, EarlyKept
  <1>9. CASE PlanCommit \/ EventAbort \/ UNCHANGED vars
    <2>1. /\ row'.used = row.used /\ current' = current /\ req' = req /\ task' = task
          /\ heap' = heap
      BY <1>1, <1>9 DEF PlanCommit, EventAbort, vars, Columns
    <2>2. \A o : Charged(o)' \subseteq Charged(o)
      BY <2>1 DEF Charged
    <2> QED
      BY <1>2, <2>1, <2>2, EarlyKept
  <1> QED
    BY <1>3, <1>4, <1>5, <1>6, <1>7, <1>8, <1>9

\* Every step keeps the objects of the period behind the row.
LEMMA EarlyNext == TypeInv /\ TypeInv' /\ EarlyInv /\ [Next]_vars => EarlyInv'
  <1> SUFFICES ASSUME TypeInv, TypeInv', EarlyInv, [Next]_vars PROVE EarlyInv'
    OBVIOUS
  <1>1. CASE ActivateCommit
    BY <1>1 DEF ActivateCommit, EarlyInv, NoEarlyAlert
  <1>2. CASE UNCHANGED vars
    BY <1>2, EarlyOther
  <1>3. CASE \E w \in Workers : Expire(w) \/ Crash(w)
    BY <1>3, EarlyOther
  <1>4. CASE \E r \in Requests : RequestStep(r)
    BY <1>4, EarlySelect, EarlyCharge, EarlySettle, EarlyOther DEF RequestStep
  <1>5. CASE \E t \in Tasks : TaskStep(t)
    BY <1>5, EarlyStart, EarlyOther DEF TaskStep
  <1>6. CASE EventStep
    BY <1>1, <1>6, EarlyOther DEF EventStep
  <1> QED
    BY <1>1, <1>2, <1>3, <1>4, <1>5, <1>6 DEF Next

\* No alert of the period goes out before the committed usage has reached its
\* level of the limit its object was loaded with, although tasks read objects
\* that other requests raise in the meantime, and plans change
\* (api_key_auth.py:88-165, usage_alert_service.py:24-31, billing_router.py:187-216).
THEOREM NoneTooEarly == Spec => []NoEarlyAlert
  <1>1. Init => EarlyInv
    BY DEF Init, EarlyInv, NoEarlyAlert, NoTask
  <1>2. Spec => []EarlyInv
    BY <1>1, EarlyNext, TypeCorrect, PTL DEF Spec
  <1>3. EarlyInv => NoEarlyAlert
    BY DEF EarlyInv
  <1> QED
    BY <1>2, <1>3, PTL
================================================================================
