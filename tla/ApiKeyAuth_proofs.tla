--------------------------- MODULE ApiKeyAuth_proofs ---------------------------
(***************************************************************************)
(* Theorems about ApiKeyAuth, for every number of workers, clients,        *)
(* concurrent requests and calls, every set of plans and every TTL.        *)
(***************************************************************************)
EXTENDS ApiKeyAuth, FiniteSetTheorems, TLAPS

--------------------------------------------------------------------------------
(* Worker memory *)

\* The part of TypeOK about caches, requests and objects, for any values of
\* the three, so that Remember can be reasoned about once.
CachesOK(cc) ==
  /\ DOMAIN cc = Workers
  /\ \A w \in Workers : /\ DOMAIN cc[w] \subseteq Keys
                        /\ \A k \in DOMAIN cc[w] : cc[w][k] \in Entry

RequestsOK(rr) ==
  /\ DOMAIN rr \subseteq Requests
  /\ \A r \in DOMAIN rr : rr[r] \in Request

HeapOK(h) == DOMAIN h \subseteq Objs /\ \A o \in DOMAIN h : h[o] \in View

\* Every reference leads to an object of the heap h, and a request past its
\* SELECT has one.
RefsOK(cc, rr, h) ==
  /\ Referenced(cc, rr) = DOMAIN h
  /\ \A r \in DOMAIN rr : rr[r].obj = None <=> rr[r].pc = "selecting"

\* The inductive invariant behind the type invariant.
TypeInv == TypeOK /\ RefsOK(cache, req, heap)

\* Remember keeps the memory well formed, given well-formed new caches and
\* requests whose references lead into h (Worker memory, api_key_auth.py:33).
LEMMA RememberOK ==
  ASSUME NEW cc, NEW rr, NEW h, NEW cur,
         CachesOK(cc), RequestsOK(rr), HeapOK(h),
         Referenced(cc, rr) \subseteq DOMAIN h,
         \A r \in DOMAIN rr : rr[r].obj = None <=> rr[r].pc = "selecting",
         cur \subseteq DOMAIN h,
         Remember(cc, rr, h, cur)
  PROVE  /\ CachesOK(cache') /\ RequestsOK(req') /\ HeapOK(heap')
         /\ RefsOK(cache', req', heap')
         /\ current' \subseteq DOMAIN heap'
  <1>1. /\ cache' = cc
        /\ req' = rr
        /\ DOMAIN heap' = Referenced(cc, rr)
        /\ \A o \in Referenced(cc, rr) : heap'[o] = h[o]
        /\ current' = cur \cap Referenced(cc, rr)
    BY DEF Remember, Restrict
  <1>2. Referenced(cc, rr) \subseteq Objs
    BY DEF Referenced
  <1> QED
    BY <1>1, <1>2 DEF HeapOK, RefsOK

\* What a dict operation and Referenced do to references.
LEMMA DropRefs ==
  ASSUME NEW cc, NEW rr, NEW S
  PROVE  Referenced(cc, Drop(rr, S)) \subseteq Referenced(cc, rr)
  BY DEF Referenced, Drop, Restrict

\* A request that ends leaves the others well formed.
LEMMA DropOK ==
  ASSUME NEW rr, NEW S, RequestsOK(rr),
         \A r \in DOMAIN rr : rr[r].obj = None <=> rr[r].pc = "selecting"
  PROVE  /\ RequestsOK(Drop(rr, S))
         /\ \A r \in DOMAIN Drop(rr, S) :
              Drop(rr, S)[r].obj = None <=> Drop(rr, S)[r].pc = "selecting"
  BY DEF RequestsOK, Drop, Restrict

\* An invalidation (api_key_auth.py:52-56) keeps the caches well formed and
\* refers to no new object.
LEMMA InvalidatedOK ==
  ASSUME NEW w \in Workers, NEW k, CachesOK(cache)
  PROVE  /\ CachesOK(Invalidated(w, k))
         /\ \A rr : Referenced(Invalidated(w, k), rr) \subseteq Referenced(cache, rr)
  BY DEF CachesOK, Invalidated, Drop, Restrict, Referenced

\* Ending a request keeps the memory well formed.
LEMMA FinishOK ==
  ASSUME NEW r \in Requests, NEW cc, NEW a \in Answers,
         CachesOK(cc), TypeInv, Referenced(cc, req) \subseteq DOMAIN heap,
         Finish(r, cc, a)
  PROVE  /\ CachesOK(cache') /\ RequestsOK(req') /\ HeapOK(heap')
         /\ RefsOK(cache', req', heap')
         /\ current' \subseteq DOMAIN heap'
         /\ answer' \in [Requests -> Answers]
  <1> DEFINE rr == Drop(req, {r})
  <1>1. RequestsOK(req) /\ HeapOK(heap) /\ RefsOK(cache, req, heap)
    BY DEF TypeInv, TypeOK, RequestsOK, HeapOK
  <1>2. /\ RequestsOK(rr)
        /\ \A q \in DOMAIN rr : rr[q].obj = None <=> rr[q].pc = "selecting"
    BY <1>1, DropOK DEF RefsOK
  <1>3. Referenced(cc, rr) \subseteq DOMAIN heap
    BY DropRefs
  <1>4. Remember(cc, rr, heap, current) /\ current \subseteq DOMAIN heap
    BY DEF Finish, TypeInv, TypeOK
  <1>5. answer' \in [Requests -> Answers]
    BY DEF Finish, TypeInv, TypeOK
  <1> HIDE DEF rr
  <1> QED
    BY <1>1, <1>2, <1>3, <1>4, <1>5, RememberOK

\* The checks and their outcome keep the memory well formed.
LEMMA DecideOK ==
  ASSUME NEW r \in Requests, NEW w \in Workers, NEW k \in Keys, NEW m \in BOOLEAN,
         NEW o \in DOMAIN heap, NEW cc,
         CachesOK(cc), TypeInv, Referenced(cc, req) \subseteq DOMAIN heap,
         Decide(r, w, k, m, o, cc)
  PROVE  /\ CachesOK(cache') /\ RequestsOK(req') /\ HeapOK(heap')
         /\ RefsOK(cache', req', heap')
         /\ current' \subseteq DOMAIN heap'
         /\ answer' \in [Requests -> Answers]
  <1> DEFINE q == [pc |-> "charging", worker |-> w, key |-> k, metered |-> TRUE, obj |-> o]
             rr == Put(req, r, q)
             v == Verdict(heap[o], m)
  <1>1. v \in {"forbidden", "exempt", "exhausted", "charge"}
    BY DEF Verdict
  <1>2. CASE v # "charge"
    <2>1. v \in Answers
      BY <1>1, <1>2 DEF Answers
    <2>2. Finish(r, cc, v)
      BY <1>2 DEF Decide
    <2> QED
      BY <2>1, <2>2, FinishOK
  <1>3. CASE v = "charge"
    <2>1. RequestsOK(req) /\ HeapOK(heap) /\ RefsOK(cache, req, heap)
      BY DEF TypeInv, TypeOK, RequestsOK, HeapOK
    <2>2. q \in Request /\ o # None
      BY <2>1, ConstantsOK DEF Request, Phases, HeapOK
    <2>3. /\ RequestsOK(rr)
          /\ \A x \in DOMAIN rr : rr[x].obj = None <=> rr[x].pc = "selecting"
      BY <2>1, <2>2 DEF RequestsOK, RefsOK, Put
    <2>4. Referenced(cc, rr) \subseteq DOMAIN heap
      BY DEF Referenced, Put
    <2>5. Remember(cc, rr, heap, current) /\ current \subseteq DOMAIN heap
      BY <1>3 DEF Decide, TypeInv, TypeOK
    <2>6. answer' \in [Requests -> Answers]
      BY <1>3 DEF Decide, TypeInv, TypeOK, Answers
    <2> HIDE DEF rr
    <2> QED
      BY <2>1, <2>3, <2>4, <2>5, <2>6, RememberOK
  <1> QED
    BY <1>2, <1>3

--------------------------------------------------------------------------------
(* Type correctness *)

\* The initial state: accounts registered, nothing cached, nobody calling.
LEMMA TypeInit == Init => TypeInv
  <1> SUFFICES ASSUME Init PROVE TypeInv
    OBVIOUS
  <1>1. /\ db \in [Clients -> Row]
        /\ issued \subseteq Keys
    BY ConstantsOK DEF Init, Row
  <1>2. TypeOK
    BY <1>1, ConstantsOK DEF Init, TypeOK, Answers
  <1>3. RefsOK(cache, req, heap)
    BY DEF Init, RefsOK, Referenced
  <1> QED
    BY <1>2, <1>3 DEF TypeInv

\* TypeInv from its parts, when memory goes through Remember.
LEMMA TypeParts ==
  ASSUME (/\ CachesOK(cache) /\ RequestsOK(req) /\ HeapOK(heap)
          /\ RefsOK(cache, req, heap)
          /\ current \subseteq DOMAIN heap
          /\ answer \in [Requests -> Answers])',
         (/\ db \in [Clients -> Row]
          /\ lock \in [Clients -> Calls \cup {None}]
          /\ issued \subseteq Keys
          /\ DOMAIN call \subseteq Calls
          /\ \A p \in DOMAIN call : call[p] \in Call
          /\ unacked \in 0..MaxUnacked)'
  PROVE  TypeInv'
  BY DEF TypeInv, TypeOK, CachesOK, RequestsOK, HeapOK

\* The requests' steps.
LEMMA TypeArrive ==
  ASSUME TypeInv, NEW r \in Requests, Arrive(r)
  PROVE  TypeInv'
  <1> PICK w \in Workers, k \in issued, m \in BOOLEAN :
             ArriveHit(r, w, k, m) \/ ArriveMiss(r, w, k, m)
    BY DEF Arrive
  <1>1. /\ CachesOK(cache) /\ RequestsOK(req) /\ HeapOK(heap)
        /\ RefsOK(cache, req, heap) /\ k \in Keys
        /\ current \subseteq DOMAIN heap
    BY DEF TypeInv, TypeOK, CachesOK, RequestsOK, HeapOK
  <1>2. CASE ArriveHit(r, w, k, m)
    <2> DEFINE o == cache[w][k].obj
    <2>1. o \in DOMAIN heap
      BY <1>1, <1>2 DEF ArriveHit, Live, RefsOK, Referenced, CachesOK, Entry
    <2>2. Decide(r, w, k, m, o, cache) /\ Referenced(cache, req) \subseteq DOMAIN heap
      BY <1>1, <1>2 DEF ArriveHit, RefsOK
    <2> HIDE DEF o
    <2>3. (/\ CachesOK(cache) /\ RequestsOK(req) /\ HeapOK(heap)
           /\ RefsOK(cache, req, heap)
           /\ current \subseteq DOMAIN heap
           /\ answer \in [Requests -> Answers])'
      BY <1>1, <2>1, <2>2, DecideOK
    <2> QED
      BY <1>2, <2>3, TypeParts DEF ArriveHit, TypeInv, TypeOK
  <1>3. CASE ArriveMiss(r, w, k, m)
    <2> DEFINE cc == Invalidated(w, k)
               q  == [pc |-> "selecting", worker |-> w, key |-> k, metered |-> m, obj |-> None]
               rr == Put(req, r, q)
    <2>1. CachesOK(cc) /\ Referenced(cc, req) \subseteq DOMAIN heap
      BY <1>1, InvalidatedOK DEF RefsOK
    <2>2. q \in Request
      BY <1>1 DEF Request, Phases
    <2>3. /\ RequestsOK(rr)
          /\ \A x \in DOMAIN rr : rr[x].obj = None <=> rr[x].pc = "selecting"
      BY <1>1, <2>2 DEF RequestsOK, RefsOK, Put
    <2>4. Referenced(cc, rr) \subseteq DOMAIN heap
      BY <2>1, ConstantsOK DEF Referenced, Put
    <2>5. Remember(cc, rr, heap, current)
      BY <1>3 DEF ArriveMiss
    <2>6. answer' \in [Requests -> Answers]
      BY <1>3 DEF ArriveMiss, TypeInv, TypeOK, Answers
    <2> HIDE DEF cc, rr
    <2>7. (/\ CachesOK(cache) /\ RequestsOK(req) /\ HeapOK(heap)
           /\ RefsOK(cache, req, heap)
           /\ current \subseteq DOMAIN heap)'
      BY <1>1, <2>1, <2>3, <2>4, <2>5, RememberOK
    <2> QED
      BY <1>3, <2>6, <2>7, TypeParts DEF ArriveMiss, TypeInv, TypeOK
  <1> QED
    BY <1>2, <1>3

\* The SELECT that finds a row loads a fresh, well-formed object.
LEMMA TypeSelectFound ==
  ASSUME TypeInv, NEW r \in Requests, SelectFound(r)
  PROVE  TypeInv'
  <1> PICK c \in Clients, o \in Objs \ DOMAIN heap :
             Remember(cache,
                      [req EXCEPT ![r].pc = "loaded", ![r].obj = o],
                      Put(heap, o, [client |-> c, status |-> db[c].status,
                                    limit |-> db[c].limit, used |-> db[c].used,
                                    byok |-> db[c].byok]),
                      current \cup {o})
    BY DEF SelectFound
  <1> DEFINE view == [client |-> c, status |-> db[c].status, limit |-> db[c].limit,
                      used |-> db[c].used, byok |-> db[c].byok]
             h    == Put(heap, o, view)
             rr   == [req EXCEPT ![r].pc = "loaded", ![r].obj = o]
  <1>1. /\ CachesOK(cache) /\ RequestsOK(req) /\ HeapOK(heap)
        /\ RefsOK(cache, req, heap)
        /\ current \subseteq DOMAIN heap /\ db \in [Clients -> Row]
    BY DEF TypeInv, TypeOK, CachesOK, RequestsOK, HeapOK
  <1>2. HeapOK(h) /\ DOMAIN h = DOMAIN heap \cup {o}
    <2>1. view \in View
      BY <1>1 DEF View, Row
    <2> HIDE DEF view
    <2> QED
      BY <1>1, <2>1 DEF HeapOK, Put
  <1>3. /\ RequestsOK(rr)
        /\ \A x \in DOMAIN rr : rr[x].obj = None <=> rr[x].pc = "selecting"
    BY <1>1, ConstantsOK DEF RequestsOK, RefsOK, Request, Phases, SelectFound
  <1>4. Referenced(cache, rr) \subseteq DOMAIN h
    <2>1. Referenced(cache, rr) \subseteq Referenced(cache, req) \cup {o}
      BY DEF Referenced
    <2> QED
      BY <1>1, <1>2, <2>1 DEF RefsOK
  <1>5. Remember(cache, rr, h, current \cup {o}) /\ current \cup {o} \subseteq DOMAIN h
    BY <1>1, <1>2
  <1> HIDE DEF rr, h
  <1>6. (/\ CachesOK(cache) /\ RequestsOK(req) /\ HeapOK(heap)
         /\ RefsOK(cache, req, heap)
         /\ current \subseteq DOMAIN heap)'
    BY <1>1, <1>2, <1>3, <1>4, <1>5, RememberOK
  <1> QED
    BY <1>6, TypeParts DEF SelectFound, TypeInv, TypeOK

\* What a step that only ends a request keeps.
LEMMA TypeFinish ==
  ASSUME TypeInv, NEW r \in Requests, NEW a \in Answers, Finish(r, cache, a)
  PROVE  (/\ CachesOK(cache) /\ RequestsOK(req) /\ HeapOK(heap)
          /\ RefsOK(cache, req, heap)
          /\ current \subseteq DOMAIN heap
          /\ answer \in [Requests -> Answers])'
  BY FinishOK DEF TypeInv, TypeOK, CachesOK, RefsOK

\* Filling the cache after the SELECT keeps the types, and the entry refers to
\* the object the request holds.
LEMMA TypeResume ==
  ASSUME TypeInv, NEW r \in Requests, Resume(r)
  PROVE  TypeInv'
  <1> DEFINE q  == req[r]
             cc == [cache EXCEPT ![q.worker] = Put(@, q.key, [obj |-> q.obj, ttl |-> TTL])]
  <1>1. /\ CachesOK(cache) /\ RequestsOK(req) /\ RefsOK(cache, req, heap) /\ HeapOK(heap)
    BY DEF TypeInv, TypeOK, CachesOK, RequestsOK, HeapOK
  <1>2. /\ q \in Request /\ q.obj \in DOMAIN heap /\ q.obj \in Objs
        /\ q.worker \in Workers /\ q.key \in Keys /\ q.metered \in BOOLEAN
    BY <1>1 DEF Resume, RefsOK, RequestsOK, Referenced, Request, HeapOK
  <1>3. [obj |-> q.obj, ttl |-> TTL] \in Entry
    BY <1>2, ConstantsOK DEF Entry
  <1>4. CachesOK(cc)
    BY <1>1, <1>2, <1>3 DEF CachesOK, Put
  <1>5. Referenced(cc, req) \subseteq DOMAIN heap
    <2>1. Referenced(cc, req) \subseteq Referenced(cache, req) \cup {q.obj}
      BY <1>1, <1>2 DEF Referenced, Put, CachesOK
    <2> QED
      BY <1>1, <1>2, <2>1 DEF RefsOK
  <1>6. Decide(r, q.worker, q.key, q.metered, q.obj, cc)
    BY DEF Resume
  <1> HIDE DEF q, cc
  <1>7. (/\ CachesOK(cache) /\ RequestsOK(req) /\ HeapOK(heap)
         /\ RefsOK(cache, req, heap)
         /\ current \subseteq DOMAIN heap
         /\ answer \in [Requests -> Answers])'
    BY <1>2, <1>4, <1>5, <1>6, DecideOK
  <1> QED
    BY <1>7, TypeParts DEF Resume, TypeInv, TypeOK

\* The client a request that holds an object acts for.
LEMMA ClientOK ==
  ASSUME TypeInv, NEW r \in DOMAIN req, req[r].pc # "selecting"
  PROVE  req[r].obj \in DOMAIN heap /\ Client(r) \in Clients
  BY DEF TypeInv, TypeOK, RefsOK, Referenced, Client, Request, View

\* What one more unit does to the rows.
LEMMA ChargedRow ==
  ASSUME NEW c \in Clients, db \in [Clients -> Row],
         db' = [db EXCEPT ![c].used = @ + 1]
  PROVE  /\ db' \in [Clients -> Row]
         /\ db'[c].used = db[c].used + 1
         /\ \A d \in Clients \ {c} : db'[d] = db[d]
         /\ \A d \in Clients : /\ db'[d].limit = db[d].limit
                               /\ db'[d].key = db[d].key
  BY DEF Row

\* The committed charge, acknowledged or not, keeps the types.
LEMMA TypeCharge ==
  ASSUME TypeInv, NEW r \in Requests, Charge(r)
  PROVE  TypeInv'
  <1>1. /\ CachesOK(cache) /\ RequestsOK(req) /\ HeapOK(heap)
        /\ RefsOK(cache, req, heap) /\ db \in [Clients -> Row]
    BY DEF TypeInv, TypeOK, CachesOK, RequestsOK, HeapOK
  <1>2. Client(r) \in Clients
    BY ClientOK DEF Charge
  <1>3. db' \in [Clients -> Row]
    BY <1>1, <1>2, ChargedRow DEF Charge
  <1>4. RequestsOK(req') /\ RefsOK(cache', req', heap')
    <2>1. /\ DOMAIN req' = DOMAIN req
          /\ \A x \in DOMAIN req : req'[x].obj = req[x].obj /\ req'[x] \in Request
          /\ \A x \in DOMAIN req \ {r} : req'[x] = req[x]
          /\ req[r].pc # "selecting" /\ req'[r].pc # "selecting"
      BY <1>1 DEF Charge, RequestsOK, Request, Phases
    <2>2. Referenced(cache', req') = Referenced(cache, req)
      BY <2>1 DEF Referenced, Charge
    <2>3. \A x \in DOMAIN req' : req'[x].obj = None <=> req'[x].pc = "selecting"
      <3>1. \A x \in DOMAIN req : req[x].obj = None <=> req[x].pc = "selecting"
        BY <1>1 DEF RefsOK
      <3>2. \A x \in DOMAIN req \ {r} : req'[x] = req[x]
        BY <2>1
      <3>3. r \in DOMAIN req
        BY DEF Charge
      <3> QED
        BY <2>1, <3>1, <3>2, <3>3
    <2>4. RequestsOK(req')
      BY <1>1, <2>1 DEF RequestsOK
    <2>5. Referenced(cache', req') = DOMAIN heap'
      BY <1>1, <2>2 DEF RefsOK, Charge
    <2> QED
      BY <2>3, <2>4, <2>5 DEF RefsOK
  <1> QED
    BY <1>1, <1>3, <1>4, TypeParts DEF Charge, TypeInv, TypeOK, CachesOK, HeapOK

\* The increment of the cached object keeps the types.
LEMMA TypeSettle ==
  ASSUME TypeInv, NEW r \in Requests, Settle(r)
  PROVE  TypeInv'
  <1> DEFINE h  == [heap EXCEPT ![req[r].obj].used = @ + 1]
             rr == Drop(req, {r})
  <1>1. /\ CachesOK(cache) /\ RequestsOK(req) /\ HeapOK(heap)
        /\ RefsOK(cache, req, heap) /\ current \subseteq DOMAIN heap
    BY DEF TypeInv, TypeOK, CachesOK, RequestsOK, HeapOK
  <1>2. HeapOK(h) /\ DOMAIN h = DOMAIN heap
    BY <1>1 DEF HeapOK, View
  <1>3. /\ RequestsOK(rr)
        /\ \A x \in DOMAIN rr : rr[x].obj = None <=> rr[x].pc = "selecting"
    BY <1>1, DropOK DEF RefsOK
  <1>4. Referenced(cache, rr) \subseteq DOMAIN h
    BY <1>1, <1>2, DropRefs DEF RefsOK
  <1>5. Remember(cache, rr, h, current)
    BY DEF Settle
  <1> HIDE DEF h, rr
  <1>6. (/\ CachesOK(cache) /\ RequestsOK(req) /\ HeapOK(heap)
         /\ RefsOK(cache, req, heap)
         /\ current \subseteq DOMAIN heap)'
    BY <1>1, <1>2, <1>3, <1>4, <1>5, RememberOK
  <1> QED
    BY <1>6, TypeParts DEF Settle, TypeInv, TypeOK, Answers

\* Every step of a request keeps the types.
LEMMA TypeRequestStep ==
  ASSUME TypeInv, NEW r \in Requests, RequestStep(r)
  PROVE  TypeInv'
  <1>1. CASE SelectNone(r)
    <2>1. Finish(r, cache, "forbidden") /\ "forbidden" \in Answers
      BY <1>1 DEF SelectNone, Answers
    <2> QED
      BY <1>1, <2>1, TypeFinish, TypeParts DEF SelectNone, TypeInv, TypeOK
  <1>2. CASE DbError(r)
    <2>1. Finish(r, cache, "error") /\ "error" \in Answers
      BY <1>2 DEF DbError, Answers
    <2> QED
      BY <1>2, <2>1, TypeFinish, TypeParts DEF DbError, TypeInv, TypeOK
  <1>3. CASE ChargeUnacked(r)
    <2>1. Finish(r, cache, "error") /\ "error" \in Answers
      BY <1>3 DEF ChargeUnacked, Answers
    <2>2. Client(r) \in Clients
      BY <1>3, ClientOK DEF ChargeUnacked
    <2>3. db' \in [Clients -> Row]
      BY <1>3, <2>2, ChargedRow DEF ChargeUnacked, TypeInv, TypeOK
    <2>4. unacked' \in 0..MaxUnacked
      BY <1>3, ConstantsOK DEF ChargeUnacked, TypeInv, TypeOK
    <2> QED
      BY <1>3, <2>1, <2>3, <2>4, TypeFinish, TypeParts DEF ChargeUnacked, TypeInv, TypeOK
  <1> QED
    BY <1>1, <1>2, <1>3, TypeSelectFound, TypeResume, TypeCharge, TypeSettle
       DEF RequestStep

\* The calls' steps.  Only EventUpdate and RegenerateInvalidate touch memory.
LEMMA MemoryKept ==
  ASSUME TypeInv, UNCHANGED <<cache, heap, req, answer>>, current' \subseteq current
  PROVE  (/\ CachesOK(cache) /\ RequestsOK(req) /\ HeapOK(heap)
          /\ RefsOK(cache, req, heap)
          /\ current \subseteq DOMAIN heap
          /\ answer \in [Requests -> Answers])'
  BY DEF TypeInv, TypeOK, CachesOK, RequestsOK, HeapOK, RefsOK, Referenced

\* What a step that only invalidates a cache entry keeps.
LEMMA MemoryInvalidated ==
  ASSUME TypeInv, NEW w \in Workers, NEW k,
         Remember(Invalidated(w, k), req, heap, current), UNCHANGED answer
  PROVE  (/\ CachesOK(cache) /\ RequestsOK(req) /\ HeapOK(heap)
          /\ RefsOK(cache, req, heap)
          /\ current \subseteq DOMAIN heap
          /\ answer \in [Requests -> Answers])'
  <1>1. /\ CachesOK(cache) /\ RequestsOK(req) /\ HeapOK(heap)
        /\ RefsOK(cache, req, heap) /\ current \subseteq DOMAIN heap
        /\ answer' \in [Requests -> Answers]
    BY DEF TypeInv, TypeOK, CachesOK, RequestsOK, HeapOK
  <1> DEFINE cc == Invalidated(w, k)
  <1>2. CachesOK(cc) /\ Referenced(cc, req) \subseteq DOMAIN heap
    BY <1>1, InvalidatedOK DEF RefsOK
  <1> HIDE DEF cc
  <1>3. Remember(cc, req, heap, current)
    BY DEF cc
  <1> QED
    BY <1>1, <1>2, <1>3, RememberOK DEF RefsOK

\* The row after an event is a row.
LEMMA AppliedOK ==
  ASSUME NEW e \in Events, NEW row \in Row
  PROVE  /\ Applied(e, row) \in Row
         /\ Applied(e, row).key = row.key
         /\ e.type \notin {"activate", "update_plan"}
              => /\ Applied(e, row).limit = row.limit
                 /\ Applied(e, row).used = row.used
  BY ConstantsOK DEF Applied, Row, EventType

\* The SELECT of a webhook or dashboard call keeps the types.
LEMMA TypeCallStart ==
  ASSUME TypeInv, NEW p \in Calls, CallStart(p)
  PROVE  TypeInv'
  <1> PICK w \in Workers, c \in Clients :
             (\E e \in Events : EventSelect(p, w, c, e)) \/ RegenerateRead(p, w, c)
    BY DEF CallStart
  <1>1. db[c].key \in Keys
    BY DEF TypeInv, TypeOK, Row
  <1>2. CASE \E e \in Events : EventSelect(p, w, c, e)
    <2> PICK e \in Events : EventSelect(p, w, c, e)
      BY <1>2
    <2>1. [pc |-> "selected", worker |-> w, client |-> c, key |-> db[c].key,
           event |-> e] \in Call
      BY <1>1 DEF Call
    <2>2. DOMAIN call' \subseteq Calls /\ \A x \in DOMAIN call' : call'[x] \in Call
      BY <2>1 DEF EventSelect, Put, TypeInv, TypeOK
    <2> QED
      BY <2>2, MemoryKept, TypeParts DEF EventSelect, TypeInv, TypeOK
  <1>3. CASE RegenerateRead(p, w, c)
    <2>1. [pc |-> "read", worker |-> w, client |-> c, key |-> db[c].key] \in Call
      BY <1>1 DEF Call
    <2>2. DOMAIN call' \subseteq Calls /\ \A x \in DOMAIN call' : call'[x] \in Call
      BY <1>3, <2>1 DEF RegenerateRead, Put, TypeInv, TypeOK
    <2> QED
      BY <1>3, <2>2, MemoryKept, TypeParts DEF RegenerateRead, TypeInv, TypeOK
  <1> QED
    BY <1>2, <1>3

\* What a call in flight holds.
LEMMA CallFields ==
  ASSUME TypeInv, NEW p \in DOMAIN call
  PROVE  /\ call[p].worker \in Workers /\ call[p].client \in Clients
         /\ call[p].key \in Keys
         /\ call[p].pc \in {"selected", "updated"} =>
              call[p] \in [pc : {"selected", "updated"}, worker : Workers,
                           client : Clients, key : Keys, event : Events]
         /\ call[p].pc \in {"read", "committed"} =>
              call[p] \in [pc : {"read", "committed"}, worker : Workers,
                           client : Clients, key : Keys]
  BY DEF TypeInv, TypeOK, Call

\* Ending a call.
LEMMA CallsDropped ==
  ASSUME TypeInv, NEW S
  PROVE  /\ DOMAIN Drop(call, S) \subseteq Calls
         /\ \A p \in DOMAIN Drop(call, S) : Drop(call, S)[p] \in Call
  BY DEF TypeInv, TypeOK, Drop, Restrict

\* Every later step of a webhook or dashboard call keeps the types: a lock is
\* held by a call, a new key is unused.
LEMMA TypeCallStep ==
  ASSUME TypeInv, NEW p \in Calls, CallStep(p)
  PROVE  TypeInv'
  <1>1. CASE EventUpdate(p)
    <2>1. call'[p] \in Call /\ call' = [call EXCEPT ![p].pc = "updated"]
      BY <1>1, CallFields DEF EventUpdate, Call, TypeInv, TypeOK
    <2>2. DOMAIN call' \subseteq Calls /\ \A x \in DOMAIN call' : call'[x] \in Call
      BY <1>1, <2>1 DEF EventUpdate, TypeInv, TypeOK
    <2>3. lock' \in [Clients -> Calls \cup {None}]
      BY <1>1 DEF EventUpdate, TypeInv, TypeOK
    <2>4. call[p].worker \in Workers
      BY <1>1, CallFields DEF EventUpdate
    <2> QED
      BY <1>1, <2>2, <2>3, <2>4, MemoryInvalidated, TypeParts
         DEF EventUpdate, TypeInv, TypeOK
  <1>2. CASE EventCommit(p)
    <2> DEFINE c == call[p].client
               e == call[p].event
    <2>1. c \in Clients /\ e \in Events
      BY <1>2, CallFields DEF EventCommit
    <2>2. db' \in [Clients -> Row]
      <3>1. Applied(e, db[c]) \in Row
        BY <2>1, AppliedOK DEF TypeInv, TypeOK
      <3>2. db' = [db EXCEPT ![c] = Applied(e, db[c])]
        BY <1>2 DEF EventCommit
      <3> QED
        BY <3>1, <3>2 DEF TypeInv, TypeOK
    <2>3. lock' \in [Clients -> Calls \cup {None}] /\ current' \subseteq current
      BY <1>2 DEF EventCommit, TypeInv, TypeOK
    <2> QED
      BY <1>2, <2>2, <2>3, CallsDropped, MemoryKept, TypeParts
         DEF EventCommit, TypeInv, TypeOK
  <1>3. CASE EventAbort(p)
    <2>1. lock' \in [Clients -> Calls \cup {None}]
      BY <1>3 DEF EventAbort, TypeInv, TypeOK
    <2> QED
      BY <1>3, <2>1, CallsDropped, MemoryKept, TypeParts DEF EventAbort, TypeInv, TypeOK
  <1>4. CASE RegenerateCommit(p)
    <2> PICK k \in Keys \ issued : /\ issued' = issued \cup {k}
                                   /\ db' = [db EXCEPT ![call[p].client].key = k]
      BY <1>4 DEF RegenerateCommit
    <2>1. db' \in [Clients -> Row] /\ issued' \subseteq Keys
      BY DEF TypeInv, TypeOK, Row
    <2>2. call'[p] \in Call /\ call' = [call EXCEPT ![p].pc = "committed"]
      BY <1>4, CallFields DEF RegenerateCommit, Call, TypeInv, TypeOK
    <2>3. DOMAIN call' \subseteq Calls /\ \A x \in DOMAIN call' : call'[x] \in Call
      BY <1>4, <2>2 DEF RegenerateCommit, TypeInv, TypeOK
    <2> QED
      BY <1>4, <2>1, <2>3, MemoryKept, TypeParts DEF RegenerateCommit, TypeInv, TypeOK
  <1>5. CASE RegenerateInvalidate(p)
    <2>1. call[p].worker \in Workers
      BY <1>5, CallFields DEF RegenerateInvalidate
    <2> QED
      BY <1>5, <2>1, CallsDropped, MemoryInvalidated, TypeParts
         DEF RegenerateInvalidate, TypeInv, TypeOK
  <1>6. CASE RegenerateError(p)
    BY <1>6, CallsDropped, MemoryKept, TypeParts DEF RegenerateError, TypeInv, TypeOK
  <1>7. CASE RegenerateUnacked(p)
    <2> PICK k \in Keys \ issued : /\ issued' = issued \cup {k}
                                   /\ db' = [db EXCEPT ![call[p].client].key = k]
      BY <1>7 DEF RegenerateUnacked
    <2>1. db' \in [Clients -> Row] /\ issued' \subseteq Keys
      BY DEF TypeInv, TypeOK, Row
    <2> QED
      BY <1>7, <2>1, CallsDropped, MemoryKept, TypeParts
         DEF RegenerateUnacked, TypeInv, TypeOK
  <1> QED
    BY <1>1, <1>2, <1>3, <1>4, <1>5, <1>6, <1>7 DEF CallStep

\* The clock keeps the entries' time within 0..TTL.
LEMMA TypeTick ==
  ASSUME TypeInv, Tick
  PROVE  TypeInv'
  <1>1. /\ CachesOK(cache) /\ RequestsOK(req) /\ HeapOK(heap)
        /\ RefsOK(cache, req, heap) /\ current \subseteq DOMAIN heap
    BY DEF TypeInv, TypeOK, CachesOK, RequestsOK, HeapOK
  <1>2. /\ DOMAIN cache' = Workers
        /\ \A w \in Workers :
             /\ DOMAIN cache'[w] = DOMAIN cache[w]
             /\ \A k \in DOMAIN cache[w] :
                  cache'[w][k] = [cache[w][k] EXCEPT !.ttl = IF @ = 0 THEN 0 ELSE @ - 1]
    BY DEF Tick
  <1>3. \A w \in Workers : \A k \in DOMAIN cache[w] :
          cache'[w][k] \in Entry /\ cache'[w][k].obj = cache[w][k].obj
    <2> SUFFICES ASSUME NEW w \in Workers, NEW k \in DOMAIN cache[w]
                 PROVE  cache'[w][k] \in Entry /\ cache'[w][k].obj = cache[w][k].obj
      OBVIOUS
    <2> DEFINE e == cache[w][k]
               t == IF e.ttl = 0 THEN 0 ELSE e.ttl - 1
    <2>1. e \in Entry
      BY <1>1 DEF CachesOK
    <2>2. t \in 0..TTL
      BY <2>1, ConstantsOK DEF Entry
    <2>3. cache'[w][k] = [e EXCEPT !.ttl = t]
      BY <1>2
    <2> HIDE DEF e, t
    <2>4. cache'[w][k] \in Entry /\ cache'[w][k].obj = e.obj
      BY <2>1, <2>2, <2>3 DEF Entry
    <2> QED
      BY <2>4 DEF e
  <1>4. CachesOK(cache')
    BY <1>1, <1>2, <1>3 DEF CachesOK
  <1>5. Referenced(cache', req') = Referenced(cache, req)
    <2>1. \A o : (\E w \in Workers : \E k \in DOMAIN cache'[w] : cache'[w][k].obj = o)
             <=> (\E w \in Workers : \E k \in DOMAIN cache[w] : cache[w][k].obj = o)
      BY <1>2, <1>3
    <2>2. req' = req
      BY DEF Tick
    <2> QED
      BY <2>1, <2>2 DEF Referenced
  <1> QED
    BY <1>1, <1>4, <1>5, TypeParts DEF Tick, TypeInv, TypeOK, RequestsOK, HeapOK, RefsOK

\* A worker that dies leaves well-formed memory to the others.
LEMMA TypeCrash ==
  ASSUME TypeInv, NEW w \in Workers, Crash(w)
  PROVE  TypeInv'
  <1> DEFINE lost == {r \in DOMAIN req : req[r].worker = w}
             dead == {p \in DOMAIN call : call[p].worker = w}
             cc == [cache EXCEPT ![w] = Restrict(@, {})]
             rr == Drop(req, lost)
  <1>1. /\ CachesOK(cache) /\ RequestsOK(req) /\ HeapOK(heap)
        /\ RefsOK(cache, req, heap) /\ current \subseteq DOMAIN heap
    BY DEF TypeInv, TypeOK, CachesOK, RequestsOK, HeapOK
  <1>2. CachesOK(cc) /\ Referenced(cc, req) \subseteq Referenced(cache, req)
    BY <1>1 DEF CachesOK, Restrict, Referenced
  <1>3. /\ RequestsOK(rr)
        /\ \A x \in DOMAIN rr : rr[x].obj = None <=> rr[x].pc = "selecting"
    BY <1>1, DropOK DEF RefsOK
  <1>4. Referenced(cc, rr) \subseteq DOMAIN heap
    BY <1>1, <1>2, DropRefs DEF RefsOK
  <1>5. Remember(cc, rr, heap, current)
    BY DEF Crash
  <1>6. answer' \in [Requests -> Answers]
    BY DEF Crash, TypeInv, TypeOK, Answers
  <1>7. lock' \in [Clients -> Calls \cup {None}]
    BY DEF Crash, TypeInv, TypeOK
  <1>8. call' = Drop(call, dead)
    BY DEF Crash
  <1> HIDE DEF cc, rr, dead
  <1>9. (/\ CachesOK(cache) /\ RequestsOK(req) /\ HeapOK(heap)
         /\ RefsOK(cache, req, heap)
         /\ current \subseteq DOMAIN heap)'
    BY <1>1, <1>2, <1>3, <1>4, <1>5, RememberOK
  <1> QED
    BY <1>6, <1>7, <1>8, <1>9, CallsDropped, TypeParts DEF Crash, TypeInv, TypeOK

\* set_byok and remove_byok keep the types.
LEMMA TypePutByok ==
  ASSUME TypeInv, NEW c \in Clients, NEW b \in BOOLEAN, PutByok(c, b)
  PROVE  TypeInv'
  <1>1. db' \in [Clients -> Row]
    BY DEF PutByok, TypeInv, TypeOK, Row
  <1> QED
    BY <1>1, MemoryKept, TypeParts DEF PutByok, TypeInv, TypeOK

\* Every step keeps the type invariant.
LEMMA TypeNext == TypeInv /\ [Next]_vars => TypeInv'
  <1> SUFFICES ASSUME TypeInv, [Next]_vars PROVE TypeInv'
    OBVIOUS
  <1>1. CASE \E r \in Requests : Arrive(r) \/ RequestStep(r)
    BY <1>1, TypeArrive, TypeRequestStep
  <1>2. CASE \E p \in Calls : CallStart(p) \/ CallStep(p)
    BY <1>2, TypeCallStart, TypeCallStep
  <1>3. CASE \E c \in Clients, b \in BOOLEAN : PutByok(c, b)
    BY <1>3, TypePutByok
  <1>4. CASE Tick
    BY <1>4, TypeTick
  <1>5. CASE \E w \in Workers : Crash(w)
    BY <1>5, TypeCrash
  <1>6. CASE UNCHANGED vars
    BY <1>6, MemoryKept, TypeParts DEF vars, TypeInv, TypeOK
  <1> QED
    BY <1>1, <1>2, <1>3, <1>4, <1>5, <1>6 DEF Next

\* Every variable keeps its type, every reference in a cache or a request
\* leads to a live object, and a request holds one exactly when its SELECT is
\* done: no handler ever runs on a missing client (api_key_auth.py:88-117).
THEOREM TypeCorrect == Spec => []TypeInv
  BY TypeInit, TypeNext, PTL DEF Spec

\* In particular the type invariant the runs check.
THEOREM TypeSafe == Spec => []TypeOK
  <1>1. TypeInv => TypeOK
    BY DEF TypeInv
  <1> QED
    BY <1>1, TypeCorrect, PTL

--------------------------------------------------------------------------------
(* A current object never runs ahead of the database. *)

\* Finitely many requests wait to add their charge to an object.
LEMMA ChargedFinite ==
  TypeInv => \A o : IsFiniteSet(Charged(o)) /\ Cardinality(Charged(o)) \in Nat
  <1> HAVE TypeInv
  <1> TAKE o
  <1>1. Charged(o) \subseteq Requests
    BY DEF Charged, TypeInv, TypeOK
  <1> HIDE DEF Charged
  <1> QED
    BY <1>1, ConstantsOK, FS_Subset, FS_CardinalityType

\* What the types say of a current object and its row.
LEMMA CurrentTyped ==
  ASSUME TypeInv, NEW o \in current
  PROVE  /\ o \in DOMAIN heap /\ heap[o] \in View
         /\ heap[o].client \in Clients
         /\ heap[o].used \in Nat
         /\ db[heap[o].client].used \in Nat
  BY DEF TypeInv, TypeOK, View, Row

\* Steps that add no object, no charge in flight and take nothing from a
\* counter keep the invariant.
LEMMA NotAheadMonotone ==
  ASSUME TypeInv, TypeInv', CurrentNotAhead,
         \A o \in current' :
           /\ o \in current
           /\ heap'[o] = heap[o]
           /\ db'[heap[o].client].limit = db[heap[o].client].limit
           /\ db'[heap[o].client].used >= db[heap[o].client].used
           /\ Charged(o)' \subseteq Charged(o)
  PROVE  CurrentNotAhead'
  <1> SUFFICES ASSUME NEW o \in current'
               PROVE  (/\ heap[o].limit = db[heap[o].client].limit
                       /\ heap[o].used + Cardinality(Charged(o)) <= db[heap[o].client].used)'
    BY DEF CurrentNotAhead
  <1>1. /\ o \in current
        /\ heap[o].limit = db[heap[o].client].limit
        /\ heap[o].used + Cardinality(Charged(o)) <= db[heap[o].client].used
    BY DEF CurrentNotAhead
  <1>2. IsFiniteSet(Charged(o)) /\ Charged(o)' \subseteq Charged(o)
    BY ChargedFinite
  <1>3. /\ Cardinality(Charged(o)') <= Cardinality(Charged(o))
        /\ Cardinality(Charged(o)') \in Nat /\ Cardinality(Charged(o)) \in Nat
    BY <1>2, FS_Subset, FS_CardinalityType
  <1>4. heap[o].used \in Nat /\ db[heap[o].client].used \in Nat
    BY <1>1, CurrentTyped
  <1>5. db'[heap'[o].client].used \in Nat
    BY DEF TypeInv, TypeOK, View, Row
  <1> QED
    BY <1>1, <1>2, <1>3, <1>4, <1>5

\* A current object after a step was current in what the step remembered, with
\* the same columns.
LEMMA RememberSame ==
  ASSUME NEW cc, NEW rr, NEW h, NEW cur, Remember(cc, rr, h, cur)
  PROVE  \A o \in current' : o \in cur /\ heap'[o] = h[o]
  BY DEF Remember, Restrict

\* Ending a request takes charges away from an object and adds none.
LEMMA FinishCharged ==
  ASSUME NEW r, NEW cc, NEW a, Finish(r, cc, a)
  PROVE  \A o : Charged(o)' \subseteq Charged(o)
  BY DEF Finish, Remember, Charged, Drop, Restrict

\* Ending a request changes no current object.
LEMMA FinishSame ==
  ASSUME NEW r, NEW cc, NEW a, Finish(r, cc, a)
  PROVE  \A o \in current' : o \in current /\ heap'[o] = heap[o]
  BY RememberSame DEF Finish

\* The checks before the charge change no current object and add no charge.
LEMMA DecideSame ==
  ASSUME NEW r, NEW w, NEW k, NEW m, NEW o, NEW cc, Decide(r, w, k, m, o, cc)
  PROVE  /\ \A x \in current' : x \in current /\ heap'[x] = heap[x]
         /\ \A x : Charged(x)' \subseteq Charged(x)
  <1> DEFINE v == Verdict(heap[o], m)
             rr == Put(req, r, [pc |-> "charging", worker |-> w, key |-> k,
                                metered |-> TRUE, obj |-> o])
  <1>1. CASE v # "charge"
    BY <1>1, FinishSame, FinishCharged DEF Decide
  <1>2. CASE v = "charge"
    <2>1. Remember(cc, rr, heap, current)
      BY <1>2 DEF Decide
    <2>2. \A x : Charged(x)' \subseteq Charged(x)
      BY <2>1 DEF Remember, Charged, Put
    <2> QED
      BY <2>1, <2>2, RememberSame
  <1> QED
    BY <1>1, <1>2

\* The rows that current objects were loaded from, when db does not change.
LEMMA RowsKept ==
  ASSUME TypeInv, db' = db
  PROVE  \A o \in current : /\ db'[heap[o].client].limit = db[heap[o].client].limit
                            /\ db'[heap[o].client].used >= db[heap[o].client].used
  BY CurrentTyped

\* The steps that touch a counter or load an object, one lemma each.

\* An object that has just been loaded is not ahead: it equals its row and no
\* charge waits for it.
LEMMA NotAheadSelect ==
  ASSUME TypeInv, TypeInv', CurrentNotAhead, NEW r \in Requests, SelectFound(r)
  PROVE  CurrentNotAhead'
  <1> PICK c \in Clients, n \in Objs \ DOMAIN heap :
             Remember(cache,
                      [req EXCEPT ![r].pc = "loaded", ![r].obj = n],
                      Put(heap, n, [client |-> c, status |-> db[c].status,
                                    limit |-> db[c].limit, used |-> db[c].used,
                                    byok |-> db[c].byok]),
                      current \cup {n})
    BY DEF SelectFound
  <1> DEFINE view == [client |-> c, status |-> db[c].status, limit |-> db[c].limit,
                      used |-> db[c].used, byok |-> db[c].byok]
  <1>1. \A o \in current' :
          /\ o \in current \cup {n}
          /\ heap'[o] = IF o = n THEN view ELSE heap[o]
    <2>1. \A o \in current' : o \in current \cup {n} /\ heap'[o] = Put(heap, n, view)[o]
      BY RememberSame
    <2> HIDE DEF view
    <2>2. \A o \in current \cup {n} :
             Put(heap, n, view)[o] = IF o = n THEN view ELSE heap[o]
      BY CurrentTyped DEF Put
    <2> QED
      BY <2>1, <2>2
  <1>2. \A o : Charged(o)' \subseteq Charged(o)
    BY DEF Charged, SelectFound, Remember
  <1>3. Charged(n) = {}
    BY DEF Charged, TypeInv, RefsOK, Referenced
  <1>4. db' = db
    BY DEF SelectFound
  <1> SUFFICES ASSUME NEW o \in current'
               PROVE  /\ heap'[o].limit = db[heap'[o].client].limit
                      /\ heap'[o].used + Cardinality(Charged(o)') <= db[heap'[o].client].used
    BY <1>4 DEF CurrentNotAhead
  <1>5. CASE o = n
    <2>1. Cardinality(Charged(o)') = 0
      BY <1>2, <1>3, <1>5, FS_EmptySet
    <2>2. db[c].used \in Nat
      BY DEF TypeInv, TypeOK, Row
    <2> QED
      BY <1>1, <1>5, <2>1, <2>2
  <1>6. CASE o # n
    <2>1. o \in current /\ heap'[o] = heap[o]
      BY <1>1, <1>6
    <2>2. /\ heap[o].limit = db[heap[o].client].limit
          /\ heap[o].used + Cardinality(Charged(o)) <= db[heap[o].client].used
      BY <2>1 DEF CurrentNotAhead
    <2>3. /\ Cardinality(Charged(o)') <= Cardinality(Charged(o))
          /\ Cardinality(Charged(o)') \in Nat /\ Cardinality(Charged(o)) \in Nat
      BY <1>2, ChargedFinite, FS_Subset, FS_CardinalityType
    <2> QED
      BY <2>1, <2>2, <2>3, CurrentTyped
  <1> QED
    BY <1>5, <1>6

\* A charge changes the phase of its request and nothing else of req.
LEMMA ChargeReq ==
  ASSUME TypeInv, NEW r \in Requests, Charge(r)
  PROVE  /\ r \in DOMAIN req /\ DOMAIN req' = DOMAIN req
         /\ req[r].pc = "charging" /\ req'[r].pc = "charged"
         /\ \A x \in DOMAIN req : req'[x].obj = req[x].obj
         /\ \A x \in DOMAIN req \ {r} : req'[x] = req[x]
  BY DEF Charge, TypeInv, TypeOK, Request

\* A charge raises the row and the charges that wait by one each.
LEMMA NotAheadCharge ==
  ASSUME TypeInv, TypeInv', CurrentNotAhead, NEW r \in Requests, Charge(r)
  PROVE  CurrentNotAhead'
  <1> PICK n : n = req[r].obj
    OBVIOUS
  <1> PICK c : c = Client(r)
    OBVIOUS
  <1>1. /\ c \in Clients /\ c = heap[n].client
        /\ db \in [Clients -> Row]
        /\ db' = [db EXCEPT ![c].used = @ + 1]
        /\ heap' = heap /\ current' = current
    BY ClientOK DEF Charge, Client, TypeInv, TypeOK
  <1>2. /\ db'[c].used = db[c].used + 1
        /\ \A d \in Clients \ {c} : db'[d] = db[d]
        /\ \A d \in Clients : db'[d].limit = db[d].limit
    BY <1>1, ChargedRow
  <1>3. Charged(n)' = Charged(n) \cup {r} /\ r \notin Charged(n)
    BY ChargeReq DEF Charge, Charged
  <1>4. \A o : o # n => Charged(o)' = Charged(o)
    BY ChargeReq DEF Charge, Charged
  <1> SUFFICES ASSUME NEW o \in current
               PROVE  /\ heap[o].limit = db'[heap[o].client].limit
                      /\ heap[o].used + Cardinality(Charged(o)') <= db'[heap[o].client].used
    BY <1>1 DEF CurrentNotAhead
  <1>5. /\ heap[o].limit = db[heap[o].client].limit
        /\ heap[o].used + Cardinality(Charged(o)) <= db[heap[o].client].used
        /\ heap[o].client \in Clients /\ heap[o].used \in Nat
        /\ db[heap[o].client].used \in Nat
        /\ Cardinality(Charged(o)) \in Nat
    BY CurrentTyped, ChargedFinite DEF CurrentNotAhead
  <1>6. CASE o = n
    <2>1. Cardinality(Charged(o)') = Cardinality(Charged(o)) + 1
      BY <1>3, <1>6, ChargedFinite, FS_AddElement
    <2>2. heap[o].client = c
      BY <1>1, <1>6
    <2>3. db'[c].limit = db[c].limit /\ db'[c].used = db[c].used + 1
      BY <1>1, <1>2
    <2> QED
      BY <1>5, <2>1, <2>2, <2>3
  <1>7. CASE o # n
    <2>1. db'[heap[o].client].used >= db[heap[o].client].used
      BY <1>2, <1>5
    <2>2. Charged(o)' = Charged(o)
      BY <1>4, <1>7
    <2>3. db'[heap[o].client].used \in Nat
      BY <1>2, <1>5
    <2> QED
      BY <1>2, <1>5, <2>1, <2>2, <2>3
  <1> QED
    BY <1>6, <1>7

\* The increment of the object takes one charge off those that wait for it.
LEMMA NotAheadSettle ==
  ASSUME TypeInv, TypeInv', CurrentNotAhead, NEW r \in Requests, Settle(r)
  PROVE  CurrentNotAhead'
  <1> PICK n : n = req[r].obj
    OBVIOUS
  <1>1. \A o \in current' : /\ o \in current
                            /\ heap'[o] = [heap EXCEPT ![n].used = @ + 1][o]
    <2>1. Remember(cache, Drop(req, {r}), [heap EXCEPT ![n].used = @ + 1], current)
      BY DEF Settle
    <2> QED
      BY <2>1, RememberSame, ZenonT(40)
  <1>2. db' = db /\ r \in DOMAIN req /\ req[r].pc = "charged"
    BY DEF Settle
  <1>3. Charged(n)' = Charged(n) \ {r} /\ r \in Charged(n)
    BY DEF Settle, Charged, Remember, Drop, Restrict
  <1>4. \A o : o # n => Charged(o)' = Charged(o)
    BY DEF Settle, Charged, Remember, Drop, Restrict
  <1> SUFFICES ASSUME NEW o \in current'
               PROVE  /\ heap'[o].limit = db[heap'[o].client].limit
                      /\ heap'[o].used + Cardinality(Charged(o)') <= db[heap'[o].client].used
    BY <1>2 DEF CurrentNotAhead
  <1>5. /\ o \in current /\ o \in DOMAIN heap /\ heap[o] \in View
        /\ heap[o].limit = db[heap[o].client].limit
        /\ heap[o].used + Cardinality(Charged(o)) <= db[heap[o].client].used
        /\ heap[o].used \in Nat
        /\ db[heap[o].client].used \in Nat
        /\ Cardinality(Charged(o)) \in Nat
    BY <1>1, CurrentTyped, ChargedFinite DEF CurrentNotAhead
  <1>6. CASE o = n
    <2>1. Cardinality(Charged(o)') = Cardinality(Charged(o)) - 1
      BY <1>3, <1>6, ChargedFinite, FS_RemoveElement
    <2>2. heap'[o] = [heap[o] EXCEPT !.used = @ + 1]
      BY <1>1, <1>5, <1>6
    <2>3. /\ heap'[o].limit = heap[o].limit /\ heap'[o].client = heap[o].client
          /\ heap'[o].used = heap[o].used + 1
      BY <1>5, <2>2 DEF View
    <2> QED
      BY <1>5, <2>1, <2>3
  <1>7. CASE o # n
    <2>1. heap'[o] = heap[o] /\ Charged(o)' = Charged(o)
      BY <1>1, <1>4, <1>5, <1>7
    <2> QED
      BY <1>5, <2>1
  <1> QED
    BY <1>6, <1>7

\* No step of a request puts an object ahead of its row.
LEMMA NotAheadRequestStep ==
  ASSUME TypeInv, TypeInv', CurrentNotAhead, NEW r \in Requests,
         Arrive(r) \/ RequestStep(r)
  PROVE  CurrentNotAhead'
  <1>1. CASE Arrive(r)
    <2> PICK w \in Workers, k \in issued, m \in BOOLEAN :
               ArriveHit(r, w, k, m) \/ ArriveMiss(r, w, k, m)
      BY <1>1 DEF Arrive
    <2>1. db' = db
      BY DEF ArriveHit, ArriveMiss
    <2>2. CASE ArriveHit(r, w, k, m)
      <3>1. Decide(r, w, k, m, cache[w][k].obj, cache)
        BY <2>2 DEF ArriveHit
      <3> QED
        BY <2>1, <3>1, DecideSame, RowsKept, NotAheadMonotone
    <2>3. CASE ArriveMiss(r, w, k, m)
      <3>1. \A o \in current' : o \in current /\ heap'[o] = heap[o]
        BY <2>3, RememberSame DEF ArriveMiss
      <3>2. \A o : Charged(o)' \subseteq Charged(o)
        BY <2>3 DEF ArriveMiss, Remember, Charged, Put
      <3> QED
        BY <2>1, <3>1, <3>2, RowsKept, NotAheadMonotone
    <2> QED
      BY <2>2, <2>3
  <1>2. CASE SelectNone(r) \/ DbError(r)
    <2>1. (\E a : Finish(r, cache, a)) /\ db' = db
      BY <1>2 DEF SelectNone, DbError
    <2> QED
      BY <2>1, FinishSame, FinishCharged, RowsKept, NotAheadMonotone
  <1>3. CASE ChargeUnacked(r)
    <2>1. Finish(r, cache, "error")
      BY <1>3 DEF ChargeUnacked
    <2>2. PICK c \in Clients : db' = [db EXCEPT ![c].used = @ + 1]
      BY <1>3, ClientOK DEF ChargeUnacked
    <2>3. \A d \in Clients : /\ db'[d].limit = db[d].limit
                             /\ db'[d].used >= db[d].used
      BY <2>2, ChargedRow DEF TypeInv, TypeOK, Row
    <2> QED
      BY <2>1, <2>3, CurrentTyped, FinishSame, FinishCharged, NotAheadMonotone
  <1>4. CASE Resume(r)
    <2>1. PICK w, k, m, o, cc : Decide(r, w, k, m, o, cc)
      BY <1>4 DEF Resume
    <2>2. db' = db
      BY <1>4 DEF Resume
    <2> QED
      BY <2>1, <2>2, DecideSame, RowsKept, NotAheadMonotone
  <1> QED
    BY <1>1, <1>2, <1>3, <1>4, NotAheadSelect, NotAheadCharge, NotAheadSettle
       DEF RequestStep

\* Steps after which the requests and the remaining objects are as before.
LEMMA ChargedKept ==
  ASSUME req' = req
  PROVE  \A o : Charged(o)' = Charged(o)
  BY DEF Charged

\* The commit of an event: objects of a new period or plan are no longer
\* current, and the other events leave counter and limit alone.
LEMMA NotAheadCommit ==
  ASSUME TypeInv, TypeInv', CurrentNotAhead, NEW p \in Calls, EventCommit(p)
  PROVE  CurrentNotAhead'
  <1> PICK c, e : c = call[p].client /\ e = call[p].event
    OBVIOUS
  <1>1. /\ c \in Clients /\ e \in Events
        /\ db' = [db EXCEPT ![c] = Applied(e, @)]
        /\ UNCHANGED <<heap, req>>
        /\ current' = IF e.type \in {"activate", "update_plan"}
                        THEN {o \in current : heap[o].client # c} ELSE current
    BY CallFields DEF EventCommit
  <1>2. \A o \in current' :
          /\ o \in current
          /\ db'[heap[o].client].limit = db[heap[o].client].limit
          /\ db'[heap[o].client].used >= db[heap[o].client].used
    <2> TAKE o \in current'
    <2>1. o \in current
      BY <1>1
    <2>2. heap[o].client \in Clients /\ db \in [Clients -> Row]
      BY <2>1, CurrentTyped DEF TypeInv, TypeOK
    <2>3. CASE heap[o].client = c
      <3>1. e.type \notin {"activate", "update_plan"}
        BY <1>1, <2>3
      <3>2. db'[c] = Applied(e, db[c]) /\ db[c] \in Row
        BY <1>1, <2>2
      <3>3. db'[c].limit = db[c].limit /\ db'[c].used = db[c].used /\ db[c].used \in Nat
        BY <1>1, <3>1, <3>2, AppliedOK DEF Row
      <3> QED
        BY <2>1, <2>3, <3>3
    <2>4. CASE heap[o].client # c
      <3>1. db'[heap[o].client] = db[heap[o].client] /\ db[heap[o].client] \in Row
        BY <1>1, <2>2, <2>4
      <3> QED
        BY <2>1, <3>1 DEF Row
    <2> QED
      BY <2>3, <2>4
  <1> QED
    BY <1>1, <1>2, ChargedKept, NotAheadMonotone

\* No step of a webhook or dashboard call puts an object ahead of its row.
LEMMA NotAheadCall ==
  ASSUME TypeInv, TypeInv', CurrentNotAhead, NEW p \in Calls,
         CallStart(p) \/ CallStep(p)
  PROVE  CurrentNotAhead'
  <1>1. CASE EventUpdate(p) \/ RegenerateInvalidate(p)
    <2>1. /\ \E cc : Remember(cc, req, heap, current)
          /\ db' = db
      BY <1>1 DEF EventUpdate, RegenerateInvalidate
    <2>2. req' = req
      BY <2>1 DEF Remember
    <2> QED
      BY <2>1, <2>2, RememberSame, ChargedKept, RowsKept, NotAheadMonotone
  <1>2. CASE RegenerateCommit(p) \/ RegenerateUnacked(p)
    <2> PICK k : db' = [db EXCEPT ![call[p].client].key = k]
      BY <1>2 DEF RegenerateCommit, RegenerateUnacked
    <2>1. \A d \in Clients : /\ db'[d].limit = db[d].limit
                             /\ db'[d].used >= db[d].used
      BY DEF TypeInv, TypeOK, Row
    <2>2. UNCHANGED <<heap, req, current>>
      BY <1>2 DEF RegenerateCommit, RegenerateUnacked
    <2> QED
      BY <2>1, <2>2, CurrentTyped, ChargedKept, NotAheadMonotone
  <1>3. CASE CallStart(p) \/ EventAbort(p) \/ RegenerateError(p)
    <2>1. UNCHANGED <<db, heap, req, current>>
      BY <1>3 DEF CallStart, EventSelect, RegenerateRead, EventAbort, RegenerateError
    <2> QED
      BY <2>1, ChargedKept, RowsKept, NotAheadMonotone
  <1> QED
    BY <1>1, <1>2, <1>3, NotAheadCommit DEF CallStep

\* No step puts a current object ahead of its row.
LEMMA NotAheadNext == TypeInv /\ TypeInv' /\ CurrentNotAhead /\ [Next]_vars => CurrentNotAhead'
  <1> SUFFICES ASSUME TypeInv, TypeInv', CurrentNotAhead, [Next]_vars
               PROVE  CurrentNotAhead'
    OBVIOUS
  <1>1. CASE \E c \in Clients, b \in BOOLEAN : PutByok(c, b)
    <2> PICK c \in Clients, b \in BOOLEAN : PutByok(c, b)
      BY <1>1
    <2>1. \A d \in Clients : /\ db'[d].limit = db[d].limit
                             /\ db'[d].used >= db[d].used
      BY DEF PutByok, TypeInv, TypeOK, Row
    <2>2. UNCHANGED <<heap, req, current>>
      BY DEF PutByok
    <2> QED
      BY <2>1, <2>2, CurrentTyped, ChargedKept, NotAheadMonotone
  <1>2. CASE Tick \/ UNCHANGED vars
    <2>1. UNCHANGED <<db, heap, req, current>>
      BY <1>2 DEF Tick, vars
    <2> QED
      BY <2>1, ChargedKept, RowsKept, NotAheadMonotone
  <1>3. CASE \E w \in Workers : Crash(w)
    <2> PICK w \in Workers : Crash(w)
      BY <1>3
    <2>1. (\E cc, S : Remember(cc, Drop(req, S), heap, current)) /\ db' = db
      BY DEF Crash
    <2>2. \A o : Charged(o)' \subseteq Charged(o)
      BY <2>1 DEF Remember, Charged, Drop, Restrict
    <2> QED
      BY <2>1, <2>2, RememberSame, RowsKept, NotAheadMonotone
  <1> QED
    BY <1>1, <1>2, <1>3, NotAheadRequestStep, NotAheadCall DEF Next

\* No client is told 429 by an up-to-date cached object while the committed
\* counter leaves quota (api_key_auth.py:119-145): whatever requests race, fail
\* or die, the shared counter stays at or behind the row.
THEOREM NeverAhead == Spec => []CurrentNotAhead
  <1>1. Init => CurrentNotAhead
    BY DEF Init, CurrentNotAhead
  <1> QED
    BY <1>1, NotAheadNext, TypeCorrect, PTL DEF Spec

--------------------------------------------------------------------------------
(* Row locks *)

\* The steps of webhooks and dashboard calls keep every lock with its owner.
LEMMA LocksCallStep ==
  ASSUME TypeInv, NoOrphanLock, NEW p \in Calls, CallStart(p) \/ CallStep(p)
  PROVE  NoOrphanLock'
  <1> SUFFICES ASSUME NEW c \in Clients, lock'[c] # None
               PROVE  /\ lock'[c] \in DOMAIN call'
                      /\ call'[lock'[c]].pc = "updated"
                      /\ call'[lock'[c]].client = c
    BY DEF NoOrphanLock
  <1>1. lock[c] # None => /\ lock[c] \in DOMAIN call
                          /\ call[lock[c]].pc = "updated"
                          /\ call[lock[c]].client = c
    BY DEF NoOrphanLock
  <1>2. lock \in [Clients -> Calls \cup {None}]
    BY DEF TypeInv, TypeOK
  <1>3. CASE CallStart(p)
    <2>1. /\ p \notin DOMAIN call /\ lock' = lock
          /\ DOMAIN call' = DOMAIN call \cup {p}
          /\ \A x \in DOMAIN call : call'[x] = call[x]
      BY <1>3 DEF CallStart, EventSelect, RegenerateRead, Put
    <2> QED
      BY <1>1, <2>1
  <1>4. CASE EventUpdate(p)
    <2>1. /\ p \in DOMAIN call /\ call[p].pc = "selected"
          /\ lock' = [lock EXCEPT ![call[p].client] = p]
          /\ DOMAIN call' = DOMAIN call
          /\ \A x \in DOMAIN call \ {p} : call'[x] = call[x]
      BY <1>4 DEF EventUpdate
    <2>2. call'[p].pc = "updated" /\ call'[p].client = call[p].client
      BY <1>4, <2>1, CallFields DEF EventUpdate
    <2>3. CASE c = call[p].client
      BY <1>2, <2>1, <2>2, <2>3
    <2>4. CASE c # call[p].client
      BY <1>1, <1>2, <2>1, <2>4
    <2> QED
      BY <2>3, <2>4
  <1>5. CASE EventCommit(p)
    <2>1. /\ p \in DOMAIN call
          /\ lock' = [lock EXCEPT ![call[p].client] = None]
          /\ DOMAIN call' = DOMAIN call \ {p}
          /\ \A x \in DOMAIN call' : call'[x] = call[x]
      BY <1>5 DEF EventCommit, Drop, Restrict
    <2>2. c # call[p].client /\ lock'[c] = lock[c]
      BY <1>2, <2>1
    <2> QED
      BY <1>1, <2>1, <2>2
  <1>6. CASE EventAbort(p)
    <2>1. /\ lock'[c] = IF lock[c] = p THEN None ELSE lock[c]
          /\ DOMAIN call' = DOMAIN call \ {p}
          /\ \A x \in DOMAIN call' : call'[x] = call[x]
      BY <1>6 DEF EventAbort, Drop, Restrict
    <2> QED
      BY <1>1, <2>1
  <1>7. CASE RegenerateCommit(p)
    <2>1. /\ call[p].pc = "read" /\ lock' = lock
          /\ DOMAIN call' = DOMAIN call
          /\ \A x \in DOMAIN call \ {p} : call'[x] = call[x]
      BY <1>7 DEF RegenerateCommit
    <2> QED
      BY <1>1, <2>1
  <1>8. CASE RegenerateInvalidate(p) \/ RegenerateError(p) \/ RegenerateUnacked(p)
    <2>1. /\ call[p].pc # "updated" /\ lock' = lock
          /\ DOMAIN call' = DOMAIN call \ {p}
          /\ \A x \in DOMAIN call' : call'[x] = call[x]
      BY <1>8 DEF RegenerateInvalidate, RegenerateError, RegenerateUnacked, Drop, Restrict
    <2> QED
      BY <1>1, <2>1
  <1> QED
    BY <1>3, <1>4, <1>5, <1>6, <1>7, <1>8 DEF CallStep

\* A worker that dies takes the calls and their locks with it.
LEMMA LocksCrash ==
  ASSUME TypeInv, NoOrphanLock, NEW w \in Workers, Crash(w)
  PROVE  NoOrphanLock'
  <1> DEFINE dead == {p \in DOMAIN call : call[p].worker = w}
  <1>1. /\ lock' = [c \in Clients |-> IF lock[c] \in dead THEN None ELSE lock[c]]
        /\ DOMAIN call' = DOMAIN call \ dead
        /\ \A x \in DOMAIN call' : call'[x] = call[x]
    BY DEF Crash, Drop, Restrict
  <1> HIDE DEF dead
  <1> QED
    BY <1>1 DEF NoOrphanLock

\* Every step keeps every lock with its owner.
LEMMA LocksNext == TypeInv /\ NoOrphanLock /\ [Next]_vars => NoOrphanLock'
  <1> SUFFICES ASSUME TypeInv, NoOrphanLock, [Next]_vars PROVE NoOrphanLock'
    OBVIOUS
  <1>1. CASE \E p \in Calls : CallStart(p) \/ CallStep(p)
    BY <1>1, LocksCallStep
  <1>2. CASE \E w \in Workers : Crash(w)
    BY <1>2, LocksCrash
  <1>3. CASE UNCHANGED <<lock, call>>
    BY <1>3 DEF NoOrphanLock
  <1>4. ASSUME NEW r \in Requests, Arrive(r) \/ RequestStep(r)
        PROVE  UNCHANGED <<lock, call>>
    BY <1>4 DEF Arrive, ArriveHit, ArriveMiss, RequestStep, SelectFound, SelectNone,
                Resume, Charge, Settle, DbError, ChargeUnacked
  <1>5. ASSUME NEW c \in Clients, NEW b \in BOOLEAN, PutByok(c, b)
        PROVE  UNCHANGED <<lock, call>>
    BY <1>5 DEF PutByok
  <1>6. Tick \/ UNCHANGED vars => UNCHANGED <<lock, call>>
    BY DEF Tick, vars
  <1> QED
    BY <1>1, <1>2, <1>3, <1>4, <1>5, <1>6 DEF Next

\* A row lock never outlives its transaction: whoever fails or dies, a charge
\* waits only for a call that is about to commit (the
\* "async with session.begin()" of billing_router.py:147-148 and its like, rolled
\* back by an exception and with its process).
THEOREM LocksHaveOwners == Spec => []NoOrphanLock
  <1>1. Init => NoOrphanLock
    BY DEF Init, NoOrphanLock
  <1> QED
    BY <1>1, LocksNext, TypeCorrect, PTL DEF Spec

--------------------------------------------------------------------------------
(* The other half: who has updated a row holds its lock until it ends. *)

Holding == \A p \in DOMAIN call : call[p].pc = "updated" => lock[call[p].client] = p

\* A step of a webhook or of a dashboard call takes no lock from another call.
LEMMA HoldingCallStep ==
  ASSUME TypeInv, Holding, NEW p \in Calls, CallStart(p) \/ CallStep(p)
  PROVE  Holding'
  <1> SUFFICES ASSUME NEW q \in DOMAIN call', call'[q].pc = "updated"
               PROVE  lock'[call'[q].client] = q
    BY DEF Holding
  <1>1. /\ lock \in [Clients -> Calls \cup {None}]
        /\ None \notin Calls
        /\ \A x \in DOMAIN call : call[x].client \in Clients
        /\ \A x \in DOMAIN call : call[x].pc = "updated" => lock[call[x].client] = x
    BY CallFields, ConstantsOK DEF TypeInv, TypeOK, Holding
  <1>2. CASE q # p
    <2>1. q \in DOMAIN call /\ call'[q] = call[q]
      BY <1>2 DEF CallStart, EventSelect, RegenerateRead, CallStep, EventUpdate,
         EventCommit, EventAbort, RegenerateCommit, RegenerateInvalidate,
         RegenerateError, RegenerateUnacked, Put, Drop, Restrict
    <2>2. lock[call[q].client] = q /\ call[q].client \in Clients
      BY <1>1, <2>1
    <2>3. CASE EventUpdate(p)
      <3>1. lock[call[p].client] = None /\ lock' = [lock EXCEPT ![call[p].client] = p]
            /\ q \in Calls
        BY <2>3, <2>1 DEF EventUpdate, TypeInv, TypeOK
      <3>2. call[q].client # call[p].client
        BY <3>1, <2>2, <1>1
      <3> QED
        BY <1>1, <2>1, <2>2, <3>1, <3>2
    <2>4. CASE EventCommit(p)
      <3>1. /\ p \in DOMAIN call /\ call[p].pc = "updated"
            /\ lock' = [lock EXCEPT ![call[p].client] = None]
        BY <2>4 DEF EventCommit
      <3>2. lock[call[p].client] = p
        BY <1>1, <3>1
      <3>3. call[q].client # call[p].client
        BY <1>2, <2>2, <3>2
      <3> QED
        BY <1>1, <2>1, <2>2, <3>1, <3>3
    <2>5. CASE EventAbort(p)
      <3>1. lock' = [c \in Clients |-> IF lock[c] = p THEN None ELSE lock[c]]
        BY <2>5 DEF EventAbort
      <3> QED
        BY <1>2, <2>1, <2>2, <3>1
    <2>6. CASE lock' = lock
      BY <2>1, <2>2, <2>6
    <2> QED
      BY <2>3, <2>4, <2>5, <2>6 DEF CallStart, EventSelect, RegenerateRead, CallStep,
         RegenerateCommit, RegenerateInvalidate, RegenerateError, RegenerateUnacked
  <1>3. CASE q = p
    <2>1. CASE EventUpdate(p)
      <3>1. /\ p \in DOMAIN call /\ call'[p].client = call[p].client
            /\ lock' = [lock EXCEPT ![call[p].client] = p]
        BY <2>1, CallFields DEF EventUpdate
      <3> QED
        BY <1>1, <1>3, <3>1
    <2>2. CASE CallStart(p)
      <3>1. call'[p].pc # "updated"
        BY <2>2 DEF CallStart, EventSelect, RegenerateRead, Put
      <3> QED
        BY <1>3, <3>1
    <2>3. CASE RegenerateCommit(p)
      <3>1. call'[p].pc # "updated"
        BY <2>3, CallFields DEF RegenerateCommit
      <3> QED
        BY <1>3, <3>1
    <2>4. CASE \/ EventCommit(p) \/ EventAbort(p) \/ RegenerateInvalidate(p)
               \/ RegenerateError(p) \/ RegenerateUnacked(p)
      <3>1. p \notin DOMAIN call'
        BY <2>4 DEF EventCommit, EventAbort, RegenerateInvalidate, RegenerateError,
                    RegenerateUnacked, Drop, Restrict
      <3> QED
        BY <1>3, <3>1
    <2> QED
      BY <2>1, <2>2, <2>3, <2>4 DEF CallStep
  <1> QED
    BY <1>2, <1>3

\* Every step leaves the locks with those who have updated.
LEMMA HoldingNext == TypeInv /\ Holding /\ [Next]_vars => Holding'
  <1> SUFFICES ASSUME TypeInv, Holding, [Next]_vars PROVE Holding'
    OBVIOUS
  <1>1. CASE \E p \in Calls : CallStart(p) \/ CallStep(p)
    BY <1>1, HoldingCallStep
  <1>2. ASSUME NEW w \in Workers, Crash(w)
        PROVE  Holding'
    <2> DEFINE dead == {p \in DOMAIN call : call[p].worker = w}
    <2>1. /\ lock' = [c \in Clients |-> IF lock[c] \in dead THEN None ELSE lock[c]]
          /\ DOMAIN call' = DOMAIN call \ dead
          /\ \A x \in DOMAIN call' : call'[x] = call[x]
      BY <1>2 DEF Crash, Drop, Restrict
    <2>2. \A x \in DOMAIN call : call[x].client \in Clients
      BY CallFields
    <2> HIDE DEF dead
    <2> QED
      BY <2>1, <2>2 DEF Holding
  <1>3. CASE UNCHANGED <<lock, call>>
    BY <1>3 DEF Holding
  <1>4. ASSUME NEW r \in Requests, Arrive(r) \/ RequestStep(r)
        PROVE  UNCHANGED <<lock, call>>
    BY <1>4 DEF Arrive, ArriveHit, ArriveMiss, RequestStep, SelectFound, SelectNone,
                Resume, Charge, Settle, DbError, ChargeUnacked
  <1>5. ASSUME NEW c \in Clients, NEW b \in BOOLEAN, PutByok(c, b)
        PROVE  UNCHANGED <<lock, call>>
    BY <1>5 DEF PutByok
  <1>6. Tick \/ UNCHANGED vars => UNCHANGED <<lock, call>>
    BY DEF Tick, vars
  <1> QED
    BY <1>1, <1>2, <1>3, <1>4, <1>5, <1>6 DEF Next

--------------------------------------------------------------------------------
(* Metering refines the ledger. *)

\* A request in flight has not been answered.
Unanswered == \A r \in DOMAIN req : answer[r] = "none"

\* No step gives a request an answer while it is still being served.
LEMMA UnansweredNext == TypeInv /\ Unanswered /\ [Next]_vars => Unanswered'
  <1> SUFFICES ASSUME TypeInv, Unanswered, [Next]_vars PROVE Unanswered'
    OBVIOUS
  <1>1. answer \in [Requests -> Answers] /\ DOMAIN req \subseteq Requests
    BY DEF TypeInv, TypeOK
  <1>2. ASSUME NEW r \in Requests, NEW cc, NEW a, Finish(r, cc, a)
        PROVE  Unanswered'
    BY <1>1, <1>2 DEF Finish, Remember, Drop, Restrict, Unanswered
  <1>3. ASSUME NEW r \in Requests, NEW w, NEW k, NEW m, NEW o, NEW cc,
               Decide(r, w, k, m, o, cc)
        PROVE  Unanswered'
    <2>1. CASE Verdict(heap[o], m) # "charge"
      BY <1>2, <1>3, <2>1 DEF Decide
    <2>2. CASE Verdict(heap[o], m) = "charge"
      BY <1>1, <1>3, <2>2 DEF Decide, Remember, Put, Unanswered
    <2> QED
      BY <2>1, <2>2
  <1>4. CASE DOMAIN req' \subseteq DOMAIN req /\ answer' = answer
    BY <1>4 DEF Unanswered
  <1>5. ASSUME NEW r \in Requests, Arrive(r) \/ RequestStep(r)
        PROVE  Unanswered'
    <2>1. CASE \E w \in Workers, k \in issued, m \in BOOLEAN : ArriveHit(r, w, k, m)
      BY <2>1, <1>3 DEF ArriveHit
    <2>2. CASE \E w \in Workers, k \in issued, m \in BOOLEAN : ArriveMiss(r, w, k, m)
      BY <2>2, <1>1 DEF ArriveMiss, Remember, Put, Unanswered
    <2>3. CASE SelectFound(r)
      <3>1. DOMAIN req' = DOMAIN req /\ answer' = answer
        BY <2>3 DEF SelectFound, Remember
      <3> QED
        BY <3>1, <1>4
    <2>4. CASE SelectNone(r) \/ DbError(r) \/ ChargeUnacked(r)
      BY <2>4, <1>2 DEF SelectNone, DbError, ChargeUnacked
    <2>5. CASE Resume(r)
      BY <2>5, <1>3 DEF Resume
    <2>6. CASE Charge(r)
      <3>1. DOMAIN req' = DOMAIN req /\ answer' = answer
        BY <2>6 DEF Charge
      <3> QED
        BY <3>1, <1>4
    <2>7. CASE Settle(r)
      BY <2>7, <1>1 DEF Settle, Remember, Drop, Restrict, Unanswered
    <2> QED
      BY <1>5, <2>1, <2>2, <2>3, <2>4, <2>5, <2>6, <2>7 DEF Arrive, RequestStep
  <1>6. ASSUME NEW p \in Calls, CallStart(p) \/ CallStep(p)
        PROVE  Unanswered'
    <2>1. req' = req /\ answer' = answer
      BY <1>6 DEF CallStart, EventSelect, RegenerateRead, CallStep, EventUpdate,
                  EventCommit, EventAbort, RegenerateCommit, RegenerateInvalidate,
                  RegenerateError, RegenerateUnacked, Remember
    <2> QED
      BY <2>1, <1>4
  <1>7. ASSUME NEW w \in Workers, Crash(w)
        PROVE  Unanswered'
    BY <1>1, <1>7 DEF Crash, Remember, Drop, Restrict, Unanswered
  <1>8. CASE (\E c \in Clients, b \in BOOLEAN : PutByok(c, b)) \/ Tick \/ UNCHANGED vars
    <2>1. req' = req /\ answer' = answer
      BY <1>8 DEF PutByok, Tick, vars
    <2> QED
      BY <2>1, <1>4
  <1> QED
    BY <1>5, <1>6, <1>7, <1>8 DEF Next

\* The initial state maps to the ledger's.
LEMMA LedgerInit == Init => Ledger!Init
  <1> SUFFICES ASSUME Init PROVE Ledger!Init
    OBVIOUS
  <1>1. LedgerUsed = [c \in Clients |-> 0]
    BY DEF Init, LedgerUsed
  <1>2. LedgerPaid = {} /\ LedgerRenewing = {}
    BY DEF Init, LedgerPaid, LedgerRenewing
  <1> QED
    BY <1>1, <1>2 DEF Init, Ledger!Init

\* While the locks and those who hold them stay, so do the activations under way.
LEMMA RenewingKept ==
  ASSUME NoOrphanLock, lock' = lock,
         \A x \in DOMAIN call : call[x].pc = "updated" => call'[x] = call[x]
  PROVE  LedgerRenewing' = LedgerRenewing
  BY DEF NoOrphanLock, LedgerRenewing

\* A refusal, an exemption or a failure declines a request that did not pay.
LEMMA LedgerFinish ==
  ASSUME TypeInv, NEW r \in Requests, NEW cc, NEW a \in Ledger!Unpaid,
         Finish(r, cc, a), db' = db, lock' = lock, call' = call, r \notin LedgerPaid
  PROVE  Ledger!Decline(r)
  <1>1. LedgerPaid' = LedgerPaid
    BY DEF LedgerPaid, Finish, Remember, Drop, Restrict
  <1>2. LedgerUsed' = LedgerUsed
    BY DEF LedgerUsed
  <1>3. answer' = [answer EXCEPT ![r] = a]
    BY DEF Finish
  <1>4. LedgerRenewing' = LedgerRenewing
    BY DEF LedgerRenewing
  <1> QED
    BY <1>1, <1>2, <1>3, <1>4 DEF Ledger!Decline

\* The verdict on a request that has not paid: it is declined, or goes on.
LEMMA LedgerDecide ==
  ASSUME TypeInv, NEW r \in Requests, NEW w, NEW k, NEW m \in BOOLEAN, NEW o, NEW cc,
         Decide(r, w, k, m, o, cc), db' = db, lock' = lock, call' = call,
         r \notin LedgerPaid
  PROVE  Ledger!Decline(r) \/ Ledger!Receive(r)
  <1> PICK v : v = Verdict(heap[o], m)
    OBVIOUS
  <1>1. CASE v # "charge"
    <2>1. v \in Ledger!Unpaid
      BY <1>1 DEF Verdict, Ledger!Unpaid
    <2> QED
      BY <1>1, <2>1, LedgerFinish DEF Decide
  <1>2. CASE v = "charge"
    <2>1. LedgerPaid' = LedgerPaid
      BY <1>2 DEF LedgerPaid, Decide, Remember, Put
    <2>2. LedgerUsed' = LedgerUsed
      BY DEF LedgerUsed
    <2>3. answer' = [answer EXCEPT ![r] = "none"]
      BY <1>2 DEF Decide
    <2>4. LedgerRenewing' = LedgerRenewing
      BY DEF LedgerRenewing
    <2> QED
      BY <2>1, <2>2, <2>3, <2>4 DEF Ledger!Receive
  <1> QED
    BY <1>1, <1>2

\* One more unit on a row is one more unit in the ledger.
LEMMA LedgerUnit ==
  ASSUME TypeInv, NEW c \in Clients, db' = [db EXCEPT ![c].used = @ + 1]
  PROVE  LedgerUsed' = [LedgerUsed EXCEPT ![c] = @ + 1]
  BY ChargedRow DEF LedgerUsed, TypeInv, TypeOK

\* Every step of a request is a step of the ledger or changes nothing in it.
LEMMA LedgerRequestStep ==
  ASSUME TypeInv, Unanswered, NEW r \in Requests, Arrive(r) \/ RequestStep(r)
  PROVE  Ledger!Next \/ UNCHANGED Ledger!vars
  <1>0. lock' = lock /\ call' = call
    BY DEF Arrive, ArriveHit, ArriveMiss, RequestStep, SelectFound, SelectNone,
           Resume, Charge, Settle, DbError, ChargeUnacked
  <1>9. LedgerRenewing' = LedgerRenewing
    BY <1>0 DEF LedgerRenewing
  <1>1. CASE \E w \in Workers, k \in issued, m \in BOOLEAN : ArriveHit(r, w, k, m)
    <2>1. r \notin LedgerPaid /\ db' = db
      BY <1>1 DEF ArriveHit, LedgerPaid
    <2>2. Ledger!Decline(r) \/ Ledger!Receive(r)
      BY <1>1, <2>1, LedgerDecide, <1>0 DEF ArriveHit
    <2> QED
      BY <2>2 DEF Ledger!Next
  <1>2. CASE \E w \in Workers, k \in issued, m \in BOOLEAN : ArriveMiss(r, w, k, m)
    <2>1. LedgerPaid' = LedgerPaid /\ r \notin LedgerPaid
      BY <1>2 DEF ArriveMiss, Remember, Put, LedgerPaid
    <2>2. LedgerUsed' = LedgerUsed /\ answer' = [answer EXCEPT ![r] = "none"]
      BY <1>2 DEF ArriveMiss, LedgerUsed
    <2>3. Ledger!Receive(r)
      BY <2>1, <2>2, <1>9 DEF Ledger!Receive
    <2> QED
      BY <2>3 DEF Ledger!Next
  <1>3. CASE SelectFound(r)
    <2>1. LedgerPaid' = LedgerPaid
      BY <1>3 DEF SelectFound, Remember, LedgerPaid
    <2>2. LedgerUsed' = LedgerUsed /\ answer' = answer
      BY <1>3 DEF SelectFound, LedgerUsed
    <2> QED
      BY <2>1, <2>2, <1>9 DEF Ledger!vars
  <1>4. CASE SelectNone(r) \/ DbError(r)
    <2>1. r \notin LedgerPaid /\ db' = db
      BY <1>4 DEF SelectNone, DbError, LedgerPaid
    <2>2. \E a \in Ledger!Unpaid : Finish(r, cache, a)
      BY <1>4 DEF SelectNone, DbError, Ledger!Unpaid
    <2>3. Ledger!Decline(r)
      BY <2>1, <2>2, LedgerFinish, <1>0
    <2> QED
      BY <2>3 DEF Ledger!Next
  <1>5. CASE Resume(r)
    <2>1. r \notin LedgerPaid /\ db' = db /\ req[r].metered \in BOOLEAN
      BY <1>5 DEF Resume, LedgerPaid, TypeInv, TypeOK, Request
    <2>2. \E w, k, o, cc : Decide(r, w, k, req[r].metered, o, cc)
      BY <1>5 DEF Resume
    <2>3. Ledger!Decline(r) \/ Ledger!Receive(r)
      BY <2>1, <2>2, LedgerDecide, <1>0
    <2> QED
      BY <2>3 DEF Ledger!Next
  <1>6. CASE Charge(r)
    <2> PICK c : c = Client(r)
      OBVIOUS
    <2>1. c \in Clients /\ db' = [db EXCEPT ![c].used = @ + 1]
      BY <1>6, ClientOK DEF Charge
    <2>2. LedgerUsed' = [LedgerUsed EXCEPT ![c] = @ + 1]
      BY <2>1, LedgerUnit
    <2>3. LedgerPaid' = LedgerPaid \cup {r} /\ r \notin LedgerPaid
      BY <1>6, ChargeReq DEF LedgerPaid
    <2>4. answer' = answer /\ answer[r] = "none"
      BY <1>6 DEF Charge, Unanswered
    <2>5. Ledger!Charge(r, c)
      BY <2>2, <2>3, <2>4, <1>9 DEF Ledger!Charge
    <2> QED
      BY <2>1, <2>5 DEF Ledger!Next
  <1>7. CASE Settle(r)
    <2>1. LedgerPaid' = LedgerPaid \ {r} /\ r \in LedgerPaid
      BY <1>7 DEF Settle, Remember, Drop, Restrict, LedgerPaid
    <2>2. LedgerUsed' = LedgerUsed /\ answer' = [answer EXCEPT ![r] = "admitted"]
      BY <1>7 DEF Settle, LedgerUsed
    <2>3. Ledger!Admit(r)
      BY <2>1, <2>2, <1>9 DEF Ledger!Admit
    <2> QED
      BY <2>3 DEF Ledger!Next
  <1>8. CASE ChargeUnacked(r)
    <2> PICK c : c = Client(r)
      OBVIOUS
    <2>1. c \in Clients /\ db' = [db EXCEPT ![c].used = @ + 1]
      BY <1>8, ClientOK DEF ChargeUnacked
    <2>2. LedgerUsed' = [LedgerUsed EXCEPT ![c] = @ + 1]
      BY <2>1, LedgerUnit
    <2>3. LedgerPaid' = LedgerPaid /\ r \notin LedgerPaid
      BY <1>8 DEF ChargeUnacked, Finish, Remember, Drop, Restrict, LedgerPaid
    <2>4. answer' = [answer EXCEPT ![r] = "error"]
      BY <1>8 DEF ChargeUnacked, Finish
    <2>5. Ledger!Waste(r, c)
      BY <2>2, <2>3, <2>4, <1>9 DEF Ledger!Waste
    <2> QED
      BY <2>1, <2>5 DEF Ledger!Next
  <1> QED
    BY <1>1, <1>2, <1>3, <1>4, <1>5, <1>6, <1>7, <1>8 DEF Arrive, RequestStep

\* The commit of an activation is a reset of the ledger, its UPDATE and its
\* rollback begin and abandon one; the other webhooks and the dashboard calls
\* change nothing in it.
LEMMA LedgerCallStep ==
  ASSUME TypeInv, NoOrphanLock, Holding, NEW p \in Calls, CallStart(p) \/ CallStep(p)
  PROVE  Ledger!Next \/ UNCHANGED Ledger!vars
  <1>1. req' = req /\ answer' = answer
    BY DEF CallStart, EventSelect, RegenerateRead, CallStep, EventUpdate,
           EventCommit, EventAbort, RegenerateCommit, RegenerateInvalidate,
           RegenerateError, RegenerateUnacked, Remember
  <1>2. LedgerPaid' = LedgerPaid
    BY <1>1 DEF LedgerPaid
  <1>3. /\ lock \in [Clients -> Calls \cup {None}] /\ None \notin Calls
        /\ \A c \in Clients : lock[c] # None => /\ lock[c] \in DOMAIN call
                                                /\ call[lock[c]].pc = "updated"
                                                /\ call[lock[c]].client = c
    BY ConstantsOK DEF TypeInv, TypeOK, NoOrphanLock
  <1>4. CASE EventCommit(p)
    <2> PICK c, e : c = call[p].client /\ e = call[p].event
      OBVIOUS
    <2>1. /\ c \in Clients /\ e \in Events /\ db[c] \in Row
          /\ db \in [Clients -> Row]
          /\ db' = [db EXCEPT ![c] = Applied(e, db[c])]
      BY <1>4, CallFields DEF EventCommit, TypeInv, TypeOK
    <2>2. lock[c] = p /\ lock' = [lock EXCEPT ![c] = None]
      BY <1>4 DEF EventCommit, Holding
    <2>3. \A x \in DOMAIN call \ {p} : call'[x] = call[x]
      BY <1>4 DEF EventCommit, Drop, Restrict
    <2>4. LedgerRenewing' = LedgerRenewing \ {c}
      <3>1. \A d \in Clients \ {c} : d \in LedgerRenewing' <=> d \in LedgerRenewing
        BY <1>3, <2>2, <2>3 DEF LedgerRenewing
      <3>2. c \notin LedgerRenewing'
        BY <1>3, <2>1, <2>2 DEF LedgerRenewing
      <3> QED
        BY <3>1, <3>2 DEF LedgerRenewing
    <2>5. CASE e.type = "activate"
      <3>1. Applied(e, db[c]).used = 0
        BY <2>1, <2>5 DEF Applied, Row
      <3>2. LedgerUsed' = [LedgerUsed EXCEPT ![c] = 0]
        BY <2>1, <3>1 DEF LedgerUsed
      <3>3. c \in LedgerRenewing
        BY <1>3, <2>1, <2>2, <2>5 DEF LedgerRenewing
      <3>4. Ledger!Reset(c)
        BY <1>1, <1>2, <2>4, <3>2, <3>3 DEF Ledger!Reset
      <3> QED
        BY <2>1, <3>4 DEF Ledger!Next
    <2>6. CASE e.type # "activate"
      <3>1. Applied(e, db[c]).used = db[c].used
        BY <2>1, <2>6, ConstantsOK DEF Applied, Row, EventType
      <3>2. LedgerUsed' = LedgerUsed
        BY <2>1, <3>1 DEF LedgerUsed
      <3>3. LedgerRenewing' = LedgerRenewing
        BY <2>2, <2>4, <2>6 DEF LedgerRenewing
      <3> QED
        BY <1>1, <1>2, <3>2, <3>3 DEF Ledger!vars
    <2> QED
      BY <2>5, <2>6
  <1>5. CASE db' = db /\ lock' = lock
             /\ (\A x \in DOMAIN call : call[x].pc = "updated" => call'[x] = call[x])
    <2>1. LedgerUsed' = LedgerUsed
      BY <1>5 DEF LedgerUsed
    <2> QED
      BY <1>1, <1>2, <1>5, <2>1, RenewingKept DEF Ledger!vars
  <1>6. CASE RegenerateCommit(p) \/ RegenerateUnacked(p)
    <2> PICK k : db' = [db EXCEPT ![call[p].client].key = k]
      BY <1>6 DEF RegenerateCommit, RegenerateUnacked
    <2>1. \A c \in Clients : db'[c].used = db[c].used
      BY DEF TypeInv, TypeOK, Row
    <2>2. LedgerUsed' = LedgerUsed
      BY <2>1 DEF LedgerUsed
    <2>3. /\ lock' = lock
          /\ \A x \in DOMAIN call : call[x].pc = "updated" => call'[x] = call[x]
      BY <1>6 DEF RegenerateCommit, RegenerateUnacked, Drop, Restrict
    <2> QED
      BY <1>1, <1>2, <2>2, <2>3, RenewingKept DEF Ledger!vars
  <1>7. CASE EventUpdate(p)
    <2> PICK c, e : c = call[p].client /\ e = call[p].event
      OBVIOUS
    <2>1. /\ p \in DOMAIN call /\ c \in Clients /\ lock[c] = None
          /\ call[p].pc = "selected"
          /\ lock' = [lock EXCEPT ![c] = p] /\ db' = db
          /\ \A x \in DOMAIN call \ {p} : call'[x] = call[x]
      BY <1>7, CallFields DEF EventUpdate
    <2>2. call'[p].event = e
      BY <1>7, CallFields DEF EventUpdate
    <2>3. LedgerUsed' = LedgerUsed
      BY <2>1 DEF LedgerUsed
    <2>4. c \notin LedgerRenewing
      BY <2>1 DEF LedgerRenewing
    <2>5. \A d \in Clients \ {c} : d \in LedgerRenewing' <=> d \in LedgerRenewing
      BY <1>3, <2>1 DEF LedgerRenewing
    <2>6. c \in LedgerRenewing' <=> e.type = "activate"
      BY <1>3, <2>1, <2>2 DEF LedgerRenewing
    <2>7. CASE e.type = "activate"
      <3>1. LedgerRenewing' = LedgerRenewing \cup {c}
        BY <2>1, <2>5, <2>6, <2>7 DEF LedgerRenewing
      <3>2. Ledger!Begin(c)
        BY <1>1, <1>2, <2>3, <2>4, <3>1 DEF Ledger!Begin
      <3> QED
        BY <2>1, <3>2 DEF Ledger!Next
    <2>8. CASE e.type # "activate"
      <3>1. LedgerRenewing' = LedgerRenewing
        BY <2>4, <2>5, <2>6, <2>8 DEF LedgerRenewing
      <3> QED
        BY <1>1, <1>2, <2>3, <3>1 DEF Ledger!vars
    <2> QED
      BY <2>7, <2>8
  <1>8. CASE EventAbort(p)
    <2> PICK c : c = call[p].client
      OBVIOUS
    <2>1. /\ p \in DOMAIN call /\ c \in Clients /\ db' = db
          /\ lock' = [d \in Clients |-> IF lock[d] = p THEN None ELSE lock[d]]
          /\ \A x \in DOMAIN call \ {p} : call'[x] = call[x]
      BY <1>8, CallFields DEF EventAbort, Drop, Restrict
    <2>2. LedgerUsed' = LedgerUsed
      BY <2>1 DEF LedgerUsed
    <2>3. \A d \in Clients \ {c} : d \in LedgerRenewing' <=> d \in LedgerRenewing
      BY <1>3, <2>1 DEF LedgerRenewing
    <2>4. c \in LedgerRenewing' => c \in LedgerRenewing
      BY <1>3, <2>1 DEF LedgerRenewing
    <2>5. \/ LedgerRenewing' = LedgerRenewing
          \/ c \in LedgerRenewing /\ LedgerRenewing' = LedgerRenewing \ {c}
      BY <2>3, <2>4 DEF LedgerRenewing
    <2>6. LedgerRenewing' = LedgerRenewing \/ Ledger!Abandon(c)
      BY <1>1, <1>2, <2>2, <2>5 DEF Ledger!Abandon
    <2> QED
      BY <1>1, <1>2, <2>1, <2>2, <2>6 DEF Ledger!Next, Ledger!vars
  <1>9. CASE CallStart(p) \/ RegenerateInvalidate(p) \/ RegenerateError(p)
    <2>1. /\ db' = db /\ lock' = lock
          /\ \A x \in DOMAIN call : call[x].pc = "updated" => call'[x] = call[x]
      BY <1>9 DEF CallStart, EventSelect, RegenerateRead, RegenerateInvalidate,
                  RegenerateError, Put, Drop, Restrict
    <2> QED
      BY <2>1, <1>5
  <1> QED
    BY <1>4, <1>6, <1>7, <1>8, <1>9 DEF CallStep

\* Every step is a step of the ledger or changes nothing in it.
LEMMA LedgerNext ==
  TypeInv /\ Unanswered /\ NoOrphanLock /\ Holding /\ [Next]_vars
    => [Ledger!Next]_(Ledger!vars)
  <1> SUFFICES ASSUME TypeInv, Unanswered, NoOrphanLock, Holding, [Next]_vars
               PROVE  Ledger!Next \/ UNCHANGED Ledger!vars
    OBVIOUS
  <1>1. CASE \E c \in Clients, b \in BOOLEAN : PutByok(c, b)
    <2> PICK c \in Clients, b \in BOOLEAN : PutByok(c, b)
      BY <1>1
    <2>1. \A d \in Clients : db'[d].used = db[d].used
      BY DEF PutByok, TypeInv, TypeOK, Row
    <2>2. LedgerUsed' = LedgerUsed
      BY <2>1 DEF LedgerUsed
    <2>3. LedgerPaid' = LedgerPaid /\ answer' = answer /\ LedgerRenewing' = LedgerRenewing
      BY DEF PutByok, LedgerPaid, LedgerRenewing
    <2> QED
      BY <2>2, <2>3 DEF Ledger!vars
  <1>2. CASE Tick \/ UNCHANGED vars
    <2>1. /\ LedgerUsed' = LedgerUsed /\ LedgerPaid' = LedgerPaid /\ answer' = answer
          /\ LedgerRenewing' = LedgerRenewing
      BY <1>2 DEF Tick, vars, LedgerUsed, LedgerPaid, LedgerRenewing
    <2> QED
      BY <2>1 DEF Ledger!vars
  <1>3. ASSUME NEW w \in Workers, Crash(w)
        PROVE  Ledger!Next
    <2> PICK S : S = {r \in DOMAIN req : req[r].worker = w}
      OBVIOUS
    <2>1. S \subseteq Requests
      BY DEF TypeInv, TypeOK
    <2>2. answer' = [r \in Requests |-> IF r \in S THEN "lost" ELSE answer[r]]
      BY <1>3 DEF Crash
    <2>3. LedgerPaid' = LedgerPaid \ S
      BY <1>3 DEF Crash, Remember, Drop, Restrict, LedgerPaid
    <2>4. LedgerUsed' = LedgerUsed
      BY <1>3 DEF Crash, LedgerUsed
    <2>6. LedgerRenewing' \in SUBSET LedgerRenewing
      <3> DEFINE dead == {p \in DOMAIN call : call[p].worker = w}
      <3>1. /\ lock' = [c \in Clients |-> IF lock[c] \in dead THEN None ELSE lock[c]]
            /\ \A x \in DOMAIN call \ dead : call'[x] = call[x]
        BY <1>3 DEF Crash, Drop, Restrict
      <3>2. \A c \in Clients : lock[c] # None => lock[c] \in DOMAIN call
        BY DEF NoOrphanLock
      <3> HIDE DEF dead
      <3> QED
        BY <3>1, <3>2 DEF LedgerRenewing
    <2>5. Ledger!Lose(S)
      BY <2>2, <2>3, <2>4, <2>6 DEF Ledger!Lose
    <2> QED
      BY <2>1, <2>5 DEF Ledger!Next
  <1> QED
    BY <1>1, <1>2, <1>3, LedgerRequestStep, LedgerCallStep DEF Next

\* Metering implements the ledger for any number of workers, stale caches and
\* failures: a request is admitted as metered after exactly one committed
\* charge of one unit, and units are taken back by the commit of an activation
\* of that client's plan and by nothing else
\* (api_key_auth.py:136-165, billing_router.py:154-261).
THEOREM Metering == Spec => LedgerSpec
  <1>1. Init => Unanswered
    BY DEF Init, Unanswered
  <1>2. Spec => []Unanswered
    BY <1>1, UnansweredNext, TypeCorrect, PTL DEF Spec
  <1>3. Init => Holding
    BY DEF Init, Holding
  <1>4. Spec => []Holding
    BY <1>3, HoldingNext, TypeCorrect, PTL DEF Spec
  <1>5. Spec => Ledger!Init /\ [][Ledger!Next]_(Ledger!vars)
    BY <1>2, <1>4, LocksHaveOwners, LedgerInit, LedgerNext, TypeCorrect, PTL DEF Spec
  <1> QED
    BY <1>5 DEF LedgerSpec, Ledger!Spec
================================================================================
