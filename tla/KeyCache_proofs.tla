----------------------------- MODULE KeyCache_proofs ---------------------------
(***************************************************************************)
(* What the key caches of ApiKeyAuth promise, for every number of workers, *)
(* clients, requests and calls and every TTL: what a cache says wrong      *)
(* about a row only ages, the safety half of the liveness properties of    *)
(* the run auth_live; a key opens no account but the one it was issued     *)
(* for; and the quota is exact where one worker serves one request at a    *)
(* time.                                                                   *)
(***************************************************************************)
EXTENDS Overdraft_proofs

--------------------------------------------------------------------------------
(* Views that are out of date *)

\* The columns of an object that is still there do not change.
SameView == \A o \in DOMAIN heap \cap DOMAIN heap' :
              /\ heap'[o].client = heap[o].client
              /\ heap'[o].status = heap[o].status
              /\ heap'[o].limit = heap[o].limit
              /\ heap'[o].byok = heap[o].byok

\* An entry of a cache was there and has no more time left, or a request that
\* had loaded its object has just made it.
EntryAged(w, k) ==
  /\ k \in DOMAIN cache[w]
  /\ cache'[w][k].obj = cache[w][k].obj
  /\ cache'[w][k].ttl <= cache[w][k].ttl
EntryMade(w, k) ==
  \E r \in DOMAIN req :
    /\ req[r].pc = "loaded" /\ req[r].worker = w /\ req[r].key = k
    /\ cache'[w][k].obj = req[r].obj
    /\ ~(r \in DOMAIN req' /\ req'[r].pc = "loaded")

\* A request that holds a loaded object held it before.
LoadKept(r) ==
  /\ r \in DOMAIN req /\ req[r].pc = "loaded"
  /\ req'[r].obj = req[r].obj /\ req'[r].key = req[r].key

\* What StaleViewsFade says of client c in this step.
Fades(c) ==
  /\ StaleLoads(c)' \subseteq StaleLoads(c)
  /\ \A e \in StaleEntries(c)' :
       \/ /\ e \in StaleEntries(c)
          /\ cache'[e[1]][e[2]].ttl <= cache[e[1]][e[2]].ttl
       \/ \E r \in StaleLoads(c) \ StaleLoads(c)' :
            e = <<req[r].worker, req[r].key>>

\* Objects that a cache entry or a request refers to are in the heap.
LEMMA InHeap ==
  ASSUME TypeInv
  PROVE  /\ \A w \in Workers : \A k \in DOMAIN cache[w] : cache[w][k].obj \in DOMAIN heap
         /\ \A r \in DOMAIN req : req[r].pc # "selecting" => req[r].obj \in DOMAIN heap
  BY DEF TypeInv, TypeOK, RefsOK, Referenced, Entry, Request

\* The same after a step.
LEMMA InHeapNext ==
  ASSUME TypeInv'
  PROVE  /\ \A w \in Workers : \A k \in DOMAIN cache'[w] : cache'[w][k].obj \in DOMAIN heap'
         /\ \A r \in DOMAIN req' : req'[r].pc # "selecting" => req'[r].obj \in DOMAIN heap'
  BY DEF TypeInv, TypeOK, RefsOK, Referenced, Entry, Request

\* Objects keep their columns, entries age or are made from a load, loads are
\* kept or are up to date: then what is out of date fades.
LEMMA Fading ==
  ASSUME TypeInv, TypeInv', NEW c \in Clients, Columns(c)' = Columns(c), SameView,
         \A w \in Workers : \A k \in DOMAIN cache'[w] : EntryAged(w, k) \/ EntryMade(w, k),
         \A r \in DOMAIN req' :
           req'[r].pc = "loaded" => LoadKept(r) \/ ~Stale(req[r].obj, req[r].key)'
  PROVE  Fades(c)
  <1> DEFINE row == <<db'[c].key, db'[c].status, db'[c].limit, db'[c].byok>>
  <1>0. row = Columns(c)
    BY DEF Columns
  <1>1. ASSUME NEW o \in DOMAIN heap \cap DOMAIN heap', NEW k, heap'[o].client = c,
               row # <<k, heap'[o].status, heap'[o].limit, heap'[o].byok>>
        PROVE  heap[o].client = c /\ Stale(o, k)
    <2>1. /\ heap[o].client = c
          /\ heap'[o].status = heap[o].status
          /\ heap'[o].limit = heap[o].limit
          /\ heap'[o].byok = heap[o].byok
      BY <1>1 DEF SameView
    <2> QED
      BY <1>0, <1>1, <2>1 DEF Stale
  <1>2. ASSUME NEW r \in StaleLoads(c)'
        PROVE  r \in StaleLoads(c)
    <2> DEFINE o == req'[r].obj
    <2>1. /\ r \in DOMAIN req' /\ req'[r].pc = "loaded" /\ heap'[o].client = c
          /\ row # <<req'[r].key, heap'[o].status, heap'[o].limit, heap'[o].byok>>
      BY <1>2 DEF StaleLoads, Stale, Columns
    <2>2. LoadKept(r)
      BY <2>1 DEF Stale, Columns
    <2>3. o = req[r].obj /\ o \in DOMAIN heap /\ o \in DOMAIN heap'
      BY <2>1, <2>2, InHeap, InHeapNext DEF LoadKept
    <2> HIDE DEF o, row
    <2>4. heap[o].client = c /\ Stale(o, req'[r].key)
      BY <1>1, <2>1, <2>3
    <2> QED
      BY <2>2, <2>3, <2>4 DEF LoadKept, StaleLoads
  <1>3. ASSUME NEW e \in StaleEntries(c)'
        PROVE  \/ /\ e \in StaleEntries(c)
                  /\ cache'[e[1]][e[2]].ttl <= cache[e[1]][e[2]].ttl
               \/ \E r \in StaleLoads(c) \ StaleLoads(c)' :
                    e = <<req[r].worker, req[r].key>>
    <2> PICK w \in Workers, k \in Keys : e = <<w, k>>
      BY <1>3 DEF StaleEntries
    <2> DEFINE o == cache'[w][k].obj
    <2>1. /\ k \in DOMAIN cache'[w] /\ heap'[o].client = c
          /\ row # <<k, heap'[o].status, heap'[o].limit, heap'[o].byok>>
      BY <1>3 DEF StaleEntries, Stale, Columns
    <2>2. o \in DOMAIN heap'
      BY <2>1, InHeapNext
    <2> HIDE DEF row
    <2>3. CASE EntryAged(w, k)
      <3>1. o = cache[w][k].obj /\ k \in DOMAIN cache[w] /\ o \in DOMAIN heap
        BY <2>3, InHeap DEF EntryAged
      <3> HIDE DEF o
      <3>2. heap[o].client = c /\ Stale(o, k)
        BY <1>1, <2>1, <2>2, <3>1
      <3>3. e \in StaleEntries(c)
        BY <3>1, <3>2 DEF StaleEntries
      <3> QED
        BY <2>3, <3>3 DEF EntryAged
    <2>4. CASE EntryMade(w, k)
      <3> PICK r \in DOMAIN req :
                 /\ req[r].pc = "loaded" /\ req[r].worker = w /\ req[r].key = k
                 /\ o = req[r].obj
                 /\ ~(r \in DOMAIN req' /\ req'[r].pc = "loaded")
        BY <2>4 DEF EntryMade
      <3>1. o \in DOMAIN heap
        BY InHeap
      <3> HIDE DEF o
      <3>2. heap[o].client = c /\ Stale(o, k)
        BY <1>1, <2>1, <2>2, <3>1
      <3>3. r \in StaleLoads(c)
        BY <3>2 DEF StaleLoads
      <3>4. r \notin StaleLoads(c)'
        BY DEF StaleLoads
      <3> QED
        BY <3>3, <3>4
    <2> QED
      BY <2>1, <2>3, <2>4
  <1> QED
    BY <1>2, <1>3 DEF Fades

\* Nothing but a load that has just been cached makes an entry.
Ages == \A w \in Workers : \A k \in DOMAIN cache'[w] : EntryAged(w, k)
Loads == \A r \in DOMAIN req' : req'[r].pc = "loaded" => LoadKept(r)

\* Objects that are only forgotten keep their columns.
LEMMA RememberView ==
  ASSUME NEW cc, NEW rr, NEW cur, Remember(cc, rr, heap, cur)
  PROVE  SameView /\ cache' = cc /\ req' = rr
  BY DEF Remember, Restrict, SameView

\* The entries that are left after an invalidation are the old ones.
LEMMA InvalidatedAges ==
  ASSUME TypeInv, NEW w \in Workers, NEW k, cache' = Invalidated(w, k)
  PROVE  Ages
  <1>1. \A v \in Workers : \A x \in DOMAIN cache'[v] :
          x \in DOMAIN cache[v] /\ cache'[v][x] = cache[v][x]
    BY DEF TypeInv, TypeOK, Invalidated, Drop, Restrict
  <1>2. \A v \in Workers : \A x \in DOMAIN cache[v] : cache[v][x].ttl \in Nat
    BY ConstantsOK DEF TypeInv, TypeOK, Entry
  <1> QED
    BY <1>1, <1>2 DEF Ages, EntryAged

\* Caches that stay as they are age too.
LEMMA SameAges ==
  ASSUME TypeInv, cache' = cache
  PROVE  Ages
  <1>1. \A v \in Workers : \A x \in DOMAIN cache[v] : cache[v][x].ttl \in Nat
    BY ConstantsOK DEF TypeInv, TypeOK, Entry
  <1> QED
    BY <1>1 DEF Ages, EntryAged

\* Ending a request touches no object and loads none.
LEMMA FinishQuiet ==
  ASSUME NEW r, NEW cc, NEW a, Finish(r, cc, a)
  PROVE  /\ SameView /\ cache' = cc /\ Loads
         /\ ~(r \in DOMAIN req' /\ req'[r].pc = "loaded")
  <1>1. Remember(cc, Drop(req, {r}), heap, current)
    BY DEF Finish
  <1>2. SameView /\ cache' = cc /\ req' = Drop(req, {r})
    BY <1>1, RememberView
  <1> QED
    BY <1>2 DEF Drop, Restrict, Loads, LoadKept

\* The checks touch no object and load none.
LEMMA DecideQuiet ==
  ASSUME NEW r, NEW w, NEW k, NEW m, NEW o, NEW cc, Decide(r, w, k, m, o, cc)
  PROVE  /\ SameView /\ cache' = cc /\ Loads
         /\ ~(r \in DOMAIN req' /\ req'[r].pc = "loaded")
  <1> DEFINE v == Verdict(heap[o], m)
             q == [pc |-> "charging", worker |-> w, key |-> k, metered |-> TRUE, obj |-> o]
  <1>1. CASE v # "charge"
    BY <1>1, FinishQuiet DEF Decide
  <1>2. CASE v = "charge"
    <2>1. Remember(cc, Put(req, r, q), heap, current)
      BY <1>2 DEF Decide
    <2>2. SameView /\ cache' = cc /\ req' = Put(req, r, q)
      BY <2>1, RememberView
    <2> QED
      BY <2>2 DEF Put, Loads, LoadKept
  <1> QED
    BY <1>1, <1>2

\* The requests' steps.
LEMMA FadesArrive ==
  ASSUME TypeInv, TypeInv', NEW r \in Requests, Arrive(r)
  PROVE  SameView /\ Ages /\ Loads
  <1> PICK w \in Workers, k \in issued, m \in BOOLEAN :
             ArriveHit(r, w, k, m) \/ ArriveMiss(r, w, k, m)
    BY DEF Arrive
  <1>1. CASE ArriveHit(r, w, k, m)
    <2>1. Decide(r, w, k, m, cache[w][k].obj, cache)
      BY <1>1 DEF ArriveHit
    <2> QED
      BY <2>1, DecideQuiet, SameAges
  <1>2. CASE ArriveMiss(r, w, k, m)
    <2> DEFINE q == [pc |-> "selecting", worker |-> w, key |-> k, metered |-> m, obj |-> None]
    <2>1. Remember(Invalidated(w, k), Put(req, r, q), heap, current)
      BY <1>2 DEF ArriveMiss
    <2>2. SameView /\ cache' = Invalidated(w, k) /\ req' = Put(req, r, q)
      BY <2>1, RememberView
    <2>3. Loads
      BY <2>2 DEF Put, Loads, LoadKept
    <2> QED
      BY <2>2, <2>3, InvalidatedAges
  <1> QED
    BY <1>1, <1>2

\* The SELECT brings an object that says what the row says.
LEMMA FadesSelect ==
  ASSUME TypeInv, TypeInv', NEW c \in Clients, Columns(c)' = Columns(c),
         NEW r \in Requests, SelectFound(r)
  PROVE  Fades(c)
  <1> PICK d \in Clients, o \in Objs \ DOMAIN heap :
             /\ db[d].key = req[r].key
             /\ Remember(cache,
                      [req EXCEPT ![r].pc = "loaded", ![r].obj = o],
                      Put(heap, o, [client |-> d, status |-> db[d].status,
                                    limit |-> db[d].limit, used |-> db[d].used,
                                    byok |-> db[d].byok]),
                      current \cup {o})
    BY DEF SelectFound
  <1> DEFINE view == [client |-> d, status |-> db[d].status, limit |-> db[d].limit,
                      used |-> db[d].used, byok |-> db[d].byok]
  <1>1. /\ cache' = cache /\ db' = db /\ r \in DOMAIN req
        /\ req' = [req EXCEPT ![r].pc = "loaded", ![r].obj = o]
        /\ \A x \in DOMAIN heap' : heap'[x] = Put(heap, o, view)[x]
    BY DEF SelectFound, Remember, Restrict
  <1> HIDE DEF view
  <1>2. \A x \in DOMAIN heap' \cap DOMAIN heap : heap'[x] = heap[x]
    BY <1>1 DEF Put
  <1>3. SameView
    BY <1>2 DEF SameView
  <1>4. \A x \in DOMAIN req \ {r} : req'[x] = req[x]
    BY <1>1
  <1>5. req'[r].obj = o /\ req'[r].key = db[d].key /\ req'[r].pc = "loaded"
    BY <1>1, ZenonT(60) DEF TypeInv, TypeOK, Request
  <1>6. o \in DOMAIN heap' /\ heap'[o] = view
    BY <1>1, <1>5, InHeapNext DEF Put
  <1>7. ~Stale(req[r].obj, req[r].key)'
    BY <1>1, <1>5, <1>6 DEF view, Stale, Columns
  <1>8. \A x \in DOMAIN req' : req'[x].pc = "loaded" => LoadKept(x) \/ ~Stale(req[x].obj, req[x].key)'
    BY <1>1, <1>4, <1>7 DEF LoadKept
  <1>9. Ages
    BY <1>1, SameAges
  <1> QED
    BY <1>3, <1>8, <1>9, Fading DEF Ages

\* The cache is filled with the object that the request had loaded.
LEMMA ResumeMakes ==
  ASSUME TypeInv, NEW r \in Requests, Resume(r)
  PROVE  /\ SameView /\ Loads
         /\ \A w \in Workers : \A k \in DOMAIN cache'[w] : EntryAged(w, k) \/ EntryMade(w, k)
  <1> DEFINE q  == req[r]
             cc == [cache EXCEPT ![q.worker] = Put(@, q.key, [obj |-> q.obj, ttl |-> TTL])]
  <1>1. r \in DOMAIN req /\ q.pc = "loaded" /\ Decide(r, q.worker, q.key, q.metered, q.obj, cc)
    BY DEF Resume
  <1> HIDE DEF cc
  <1>2. /\ SameView /\ cache' = cc /\ Loads
        /\ ~(r \in DOMAIN req' /\ req'[r].pc = "loaded")
    BY <1>1, DecideQuiet
  <1>3. \A w \in Workers : \A k \in DOMAIN cache'[w] : EntryAged(w, k) \/ EntryMade(w, k)
    <2> SUFFICES ASSUME NEW w \in Workers, NEW k \in DOMAIN cache'[w]
                 PROVE  EntryAged(w, k) \/ EntryMade(w, k)
      OBVIOUS
    <2>1. CASE w = q.worker /\ k = q.key
      <3>1. cache'[w][k] = [obj |-> q.obj, ttl |-> TTL]
        BY <1>2, <2>1 DEF cc, Put, TypeInv, TypeOK
      <3> QED
        BY <1>1, <1>2, <2>1, <3>1 DEF EntryMade
    <2>2. CASE ~(w = q.worker /\ k = q.key)
      <3>1. k \in DOMAIN cache[w] /\ cache'[w][k] = cache[w][k]
        BY <1>2, <2>2 DEF cc, Put, TypeInv, TypeOK
      <3>2. cache[w][k].ttl \in Nat
        BY <3>1, ConstantsOK DEF TypeInv, TypeOK, Entry
      <3> QED
        BY <3>1, <3>2 DEF EntryAged
    <2> QED
      BY <2>1, <2>2
  <1> QED
    BY <1>2, <1>3

\* A charge, its failure and its end touch no column that the checks read but
\* the counter.
LEMMA FadesOther ==
  ASSUME TypeInv, TypeInv', NEW r \in Requests,
         SelectNone(r) \/ Charge(r) \/ Settle(r) \/ DbError(r) \/ ChargeUnacked(r)
  PROVE  SameView /\ Ages /\ Loads
  <1>1. CASE SelectNone(r) \/ DbError(r) \/ ChargeUnacked(r)
    <2>1. PICK a : Finish(r, cache, a)
      BY <1>1 DEF SelectNone, DbError, ChargeUnacked
    <2> QED
      BY <2>1, FinishQuiet, SameAges
  <1>2. CASE Charge(r)
    <2>1. /\ cache' = cache /\ heap' = heap
          /\ \A x \in DOMAIN req' : req'[x].pc = "loaded" => x \in DOMAIN req /\ req'[x] = req[x]
      BY <1>2, ChargeReq DEF Charge
    <2> QED
      BY <2>1, SameAges DEF SameView, Loads, LoadKept
  <1>3. CASE Settle(r)
    <2> PICK n : n = req[r].obj
      OBVIOUS
    <2>1. /\ cache' = cache /\ req' = Drop(req, {r})
          /\ \A o \in DOMAIN heap' : heap'[o] = [heap EXCEPT ![n].used = @ + 1][o]
      BY <1>3 DEF Settle, Remember, Restrict
    <2>2. SameView
      <3> SUFFICES ASSUME NEW o \in DOMAIN heap \cap DOMAIN heap'
                   PROVE  /\ heap'[o].client = heap[o].client
                          /\ heap'[o].status = heap[o].status
                          /\ heap'[o].limit = heap[o].limit
                          /\ heap'[o].byok = heap[o].byok
        BY DEF SameView
      <3>1. heap[o] \in View
        BY DEF TypeInv, TypeOK
      <3>2. heap'[o] = IF o = n THEN [heap[o] EXCEPT !.used = @ + 1] ELSE heap[o]
        BY <2>1
      <3> QED
        BY <3>1, <3>2 DEF View
    <2>3. Loads
      BY <2>1 DEF Drop, Restrict, Loads, LoadKept
    <2> QED
      BY <2>1, <2>2, <2>3, SameAges
  <1> QED
    BY <1>1, <1>2, <1>3

\* Webhooks, dashboard calls and BYOK touch no object; at most an entry goes.
LEMMA FadesCall ==
  ASSUME TypeInv, TypeInv', NEW p \in Calls, CallStart(p) \/ CallStep(p)
  PROVE  SameView /\ Ages /\ Loads
  <1>1. CASE UNCHANGED <<cache, heap, req>>
    BY <1>1, SameAges DEF SameView, Loads, LoadKept
  <1>2. ASSUME NEW w \in Workers, NEW k, Remember(Invalidated(w, k), req, heap, current)
        PROVE  SameView /\ Ages /\ Loads
    BY <1>2, RememberView, InvalidatedAges DEF Loads, LoadKept
  <1>3. CASE EventUpdate(p)
    <2>1. call[p].worker \in Workers
      BY <1>3, CallFields DEF EventUpdate
    <2> QED
      BY <1>2, <1>3, <2>1 DEF EventUpdate
  <1>4. CASE RegenerateInvalidate(p)
    <2>1. call[p].worker \in Workers
      BY <1>4, CallFields DEF RegenerateInvalidate
    <2> QED
      BY <1>2, <1>4, <2>1 DEF RegenerateInvalidate
  <1>5. CASE CallStart(p)
    BY <1>1, <1>5 DEF CallStart, EventSelect, RegenerateRead
  <1>6. CASE \/ EventCommit(p) \/ EventAbort(p) \/ RegenerateCommit(p)
             \/ RegenerateError(p) \/ RegenerateUnacked(p)
    BY <1>1, <1>6 DEF EventCommit, EventAbort, RegenerateCommit, RegenerateError,
                      RegenerateUnacked
  <1> QED
    BY <1>3, <1>4, <1>5, <1>6 DEF CallStep

\* The clock takes time from every entry.
LEMMA FadesTick ==
  ASSUME TypeInv, Tick
  PROVE  SameView /\ Ages /\ Loads
  <1>1. UNCHANGED <<heap, req>>
    BY DEF Tick
  <1>2. Ages
    <2> SUFFICES ASSUME NEW w \in Workers, NEW k \in DOMAIN cache'[w] PROVE EntryAged(w, k)
      BY DEF Ages
    <2>1. k \in DOMAIN cache[w] /\ cache[w][k] \in Entry
      BY DEF Tick, TypeInv, TypeOK
    <2> DEFINE t == IF cache[w][k].ttl = 0 THEN 0 ELSE cache[w][k].ttl - 1
    <2>2. cache'[w][k] = [cache[w][k] EXCEPT !.ttl = t]
      BY <2>1 DEF Tick
    <2>3. t <= cache[w][k].ttl
      BY <2>1, ConstantsOK DEF Entry
    <2> HIDE DEF t
    <2>4. cache'[w][k].obj = cache[w][k].obj /\ cache'[w][k].ttl = t
      BY <2>1, <2>2 DEF Entry
    <2> QED
      BY <2>1, <2>3, <2>4 DEF EntryAged
  <1> QED
    BY <1>1, <1>2 DEF SameView, Loads, LoadKept

\* A worker that dies leaves the others' entries alone.
LEMMA FadesCrash ==
  ASSUME TypeInv, NEW w \in Workers, Crash(w)
  PROVE  SameView /\ Ages /\ Loads
  <1> DEFINE lost == {r \in DOMAIN req : req[r].worker = w}
             cc == [cache EXCEPT ![w] = Restrict(@, {})]
  <1>1. Remember(cc, Drop(req, lost), heap, current)
    BY DEF Crash
  <1> HIDE DEF cc, lost
  <1>2. SameView /\ cache' = cc /\ req' = Drop(req, lost)
    BY <1>1, RememberView
  <1>3. Loads
    BY <1>2 DEF Drop, Restrict, Loads, LoadKept
  <1>4. \A v \in Workers : \A x \in DOMAIN cache'[v] :
          x \in DOMAIN cache[v] /\ cache'[v][x] = cache[v][x]
    BY <1>2 DEF cc, TypeInv, TypeOK, Restrict
  <1>5. \A v \in Workers : \A x \in DOMAIN cache[v] : cache[v][x].ttl \in Nat
    BY ConstantsOK DEF TypeInv, TypeOK, Entry
  <1> QED
    BY <1>2, <1>3, <1>4, <1>5 DEF Ages, EntryAged

\* In every step, what is out of date with a row that stays as it is fades.
LEMMA FadesNext ==
  ASSUME TypeInv, TypeInv', [Next]_vars, NEW c \in Clients, Columns(c)' = Columns(c)
  PROVE  Fades(c)
  <1>1. SameView /\ Ages /\ Loads => Fades(c)
    BY Fading DEF Ages, Loads
  <1>2. ASSUME NEW r \in Requests, Arrive(r) \/ RequestStep(r)
        PROVE  Fades(c)
    BY <1>1, <1>2, FadesArrive, FadesSelect, ResumeMakes, Fading, FadesOther DEF RequestStep, Loads
  <1>3. ASSUME NEW p \in Calls, CallStart(p) \/ CallStep(p)
        PROVE  Fades(c)
    BY <1>1, <1>3, FadesCall
  <1>4. CASE UNCHANGED <<cache, heap, req>>
    BY <1>1, <1>4, SameAges DEF SameView, Loads, LoadKept
  <1>5. ASSUME NEW d \in Clients, NEW b \in BOOLEAN, PutByok(d, b)
        PROVE  Fades(c)
    BY <1>4, <1>5 DEF PutByok
  <1>6. CASE Tick
    BY <1>1, <1>6, FadesTick
  <1>7. ASSUME NEW w \in Workers, Crash(w)
        PROVE  Fades(c)
    BY <1>1, <1>7, FadesCrash
  <1>8. CASE UNCHANGED vars
    BY <1>4, <1>8 DEF vars
  <1> QED
    BY <1>2, <1>3, <1>5, <1>6, <1>7, <1>8 DEF Next

\* A change of a row is the last thing its caches learn late once: nothing that
\* is out of date is renewed, by hits, by other loads or by other accounts'
\* traffic, so a stale entry lives for at most one TTL, and one more only if a
\* load was under way (_get_cached and _set_cached, api_key_auth.py:33-49).
THEOREM CachesFade == Spec => StaleViewsFade
  <1>1. TypeInv /\ TypeInv' /\ [Next]_vars =>
          [\A c \in Clients :
             Columns(c)' = Columns(c) =>
               /\ StaleLoads(c)' \subseteq StaleLoads(c)
               /\ \A e \in StaleEntries(c)' :
                    \/ /\ e \in StaleEntries(c)
                       /\ cache'[e[1]][e[2]].ttl <= cache[e[1]][e[2]].ttl
                    \/ \E r \in StaleLoads(c) \ StaleLoads(c)' :
                         e = <<req[r].worker, req[r].key>>]_vars
    BY FadesNext DEF Fades
  <1> QED
    BY <1>1, TypeCorrect, PTL DEF Spec, StaleViewsFade

--------------------------------------------------------------------------------
(* Whose account a key opens *)

\* The objects found under key k, in the caches cc and the requests rr.
Found(cc, rr, k) ==
  {o \in Objs : \/ \E w \in Workers : k \in DOMAIN cc[w] /\ cc[w][k].obj = o
                \/ \E r \in DOMAIN rr : rr[r].key = k /\ rr[r].obj = o}
Opened(k) == Found(cache, req, k)

\* A key that a client has opens that client's row and no other's; a key that
\* has been replaced goes on opening the account it was issued for, as long as
\* it opens anything.
KeyOpensOwnAccount ==
  \A k \in Keys : \A o \in Opened(k) :
    /\ \A c \in Clients : db[c].key = k => heap[o].client = c
    /\ \A p \in Opened(k) : heap[p].client = heap[o].client

\* Behind it: no two rows share a key, and a key in use was issued, so that it
\* is never issued again.
KeysDistinct == /\ \A c, d \in Clients : db[c].key = db[d].key => c = d
                /\ \A c \in Clients : db[c].key \in issued
                /\ \A k \in Keys : Opened(k) # {} => k \in issued
KeysInv == KeysDistinct /\ KeyOpensOwnAccount

\* What is found under a key is in the heap.
LEMMA OpenedInHeap ==
  ASSUME TypeInv, NEW k
  PROVE  Opened(k) \subseteq DOMAIN heap
  BY DEF TypeInv, RefsOK, Referenced, Opened, Found, TypeOK

\* The same after a step.
LEMMA OpenedInHeapNext ==
  ASSUME TypeInv', NEW k
  PROVE  Opened(k)' \subseteq DOMAIN heap'
  BY DEF TypeInv, RefsOK, Referenced, Opened, Found, TypeOK

\* What is in the heap is found under some key.
LEMMA HeapOpenedNext ==
  ASSUME TypeInv', NEW o \in DOMAIN heap'
  PROVE  \E k \in Keys : o \in Opened(k)'
  <1>1. o \in Objs /\ o # None /\ o \in Referenced(cache', req')
    BY ConstantsOK DEF TypeInv, TypeOK, RefsOK
  <1> QED
    BY <1>1 DEF Referenced, Opened, Found, TypeInv, TypeOK, Request

\* Steps that find no new object and leave keys and owners alone.
LEMMA KeysKept ==
  ASSUME TypeInv, TypeInv', KeysInv,
         \A k \in Keys : Opened(k)' \subseteq Opened(k),
         \A c \in Clients : db'[c].key = db[c].key,
         issued' = issued, SameView
  PROVE  KeysInv'
  <1>1. KeysDistinct'
    BY DEF KeysInv, KeysDistinct
  <1>2. ASSUME NEW k \in Keys, NEW o \in Opened(k)'
        PROVE  /\ o \in Opened(k) /\ heap'[o].client = heap[o].client
    <2>1. o \in Opened(k) /\ o \in DOMAIN heap /\ o \in DOMAIN heap'
      BY <1>2, OpenedInHeap, OpenedInHeapNext
    <2> QED
      BY <2>1 DEF SameView
  <1>3. KeyOpensOwnAccount'
    BY <1>2 DEF KeysInv, KeyOpensOwnAccount
  <1> QED
    BY <1>1, <1>3 DEF KeysInv

\* Every request has an object that was found under its key before the step.
RequestsKnown ==
  \A r \in DOMAIN req' : req'[r].obj = None \/ req'[r].obj \in Opened(req'[r].key)

\* Steps that only let entries and requests go, or hand an object on.
LEMMA FoundFewer ==
  ASSUME TypeInv, TypeInv', RequestsKnown,
         \A w \in Workers : \A k \in DOMAIN cache'[w] : EntryAged(w, k) \/ EntryMade(w, k)
  PROVE  \A k \in Keys : Opened(k)' \subseteq Opened(k)
  <1> SUFFICES ASSUME NEW k \in Keys, NEW o \in Opened(k)' PROVE o \in Opened(k)
    OBVIOUS
  <1>1. o \in Objs /\ o # None
    BY ConstantsOK DEF Opened, Found
  <1>2. ASSUME NEW w \in Workers, k \in DOMAIN cache'[w], cache'[w][k].obj = o
        PROVE  o \in Opened(k)
    <2>1. EntryAged(w, k) \/ EntryMade(w, k)
      BY <1>2
    <2> QED
      BY <1>1, <1>2, <2>1 DEF EntryAged, EntryMade, Opened, Found
  <1>3. ASSUME NEW r \in DOMAIN req', req'[r].key = k, req'[r].obj = o
        PROVE  o \in Opened(k)
    BY <1>1, <1>3 DEF RequestsKnown
  <1> QED
    BY <1>2, <1>3 DEF Opened, Found

\* A request that is there with its key and object is known.
LEMMA Known ==
  ASSUME TypeInv,
         \A r \in DOMAIN req' : r \in DOMAIN req /\ req'[r].obj = req[r].obj /\ req'[r].key = req[r].key
  PROVE  RequestsKnown
  <1>1. \A r \in DOMAIN req : req[r].obj = None \/ req[r].obj \in Opened(req[r].key)
    BY DEF TypeInv, TypeOK, Request, Opened, Found
  <1> QED
    BY <1>1 DEF RequestsKnown

\* Requests that end leave known requests.
LEMMA DropKnown ==
  ASSUME TypeInv, NEW S, req' = Drop(req, S)
  PROVE  RequestsKnown
  BY Known DEF Drop, Restrict

\* The checks hand on the object they were made on.
LEMMA DecideKnown ==
  ASSUME TypeInv, NEW r, NEW w, NEW k, NEW m, NEW o \in Opened(k), NEW cc,
         Decide(r, w, k, m, o, cc)
  PROVE  RequestsKnown
  <1> DEFINE v == Verdict(heap[o], m)
             q == [pc |-> "charging", worker |-> w, key |-> k, metered |-> TRUE, obj |-> o]
  <1>1. CASE v # "charge"
    <2>1. req' = Drop(req, {r})
      BY <1>1 DEF Decide, Finish, Remember
    <2> QED
      BY <2>1, DropKnown
  <1>2. CASE v = "charge"
    <2>1. req' = Put(req, r, q)
      BY <1>2 DEF Decide, Remember
    <2>2. \A x \in DOMAIN req : req[x].obj = None \/ req[x].obj \in Opened(req[x].key)
      BY DEF TypeInv, TypeOK, Request, Opened, Found
    <2> QED
      BY <2>1, <2>2 DEF RequestsKnown, Put
  <1> QED
    BY <1>1, <1>2

\* The SELECT finds the row that has the key, and nothing else is found under
\* a key that a client has.
LEMMA KeysSelect ==
  ASSUME TypeInv, TypeInv', KeysInv, NEW r \in Requests, SelectFound(r)
  PROVE  KeysInv'
  <1> PICK d \in Clients, n \in Objs \ DOMAIN heap :
             /\ db[d].key = req[r].key
             /\ Remember(cache,
                      [req EXCEPT ![r].pc = "loaded", ![r].obj = n],
                      Put(heap, n, [client |-> d, status |-> db[d].status,
                                    limit |-> db[d].limit, used |-> db[d].used,
                                    byok |-> db[d].byok]),
                      current \cup {n})
    BY DEF SelectFound
  <1> DEFINE view == [client |-> d, status |-> db[d].status, limit |-> db[d].limit,
                      used |-> db[d].used, byok |-> db[d].byok]
  <1>1. /\ cache' = cache /\ db' = db /\ issued' = issued /\ r \in DOMAIN req
        /\ req' = [req EXCEPT ![r].pc = "loaded", ![r].obj = n]
        /\ \A x \in DOMAIN heap' : heap'[x] = Put(heap, n, view)[x]
    BY DEF SelectFound, Remember, Restrict
  <1>2. /\ DOMAIN req' = DOMAIN req
        /\ \A x \in DOMAIN req \ {r} : req'[x] = req[x]
        /\ req'[r].key = db[d].key /\ req'[r].obj = n
    BY <1>1, ZenonT(60) DEF TypeInv, TypeOK, Request
  <1>3. \A x \in DOMAIN heap' : heap'[x].client = IF x = n THEN d ELSE heap[x].client
    <2> HIDE DEF view
    <2>1. DOMAIN heap' \subseteq DOMAIN heap \cup {n}
      BY <1>1, <1>2 DEF TypeInv, RefsOK, Referenced
    <2>2. \A x \in DOMAIN heap' : heap'[x] = IF x = n THEN view ELSE heap[x]
      BY <1>1, <2>1 DEF Put
    <2>3. view.client = d
      BY DEF view
    <2> QED
      BY <2>2, <2>3
  <1>4. \A k \in Keys : Opened(k)' \subseteq Opened(k) \cup (IF k = db[d].key THEN {n} ELSE {})
    BY <1>1, <1>2 DEF Opened, Found
  <1>5. KeysDistinct'
    BY <1>1, <1>4 DEF KeysInv, KeysDistinct
  <1>6. ASSUME NEW k \in Keys, NEW o \in Opened(k)'
        PROVE  /\ \A c \in Clients : db[c].key = k => heap'[o].client = c
               /\ \A p \in Opened(k)' : heap'[p].client = heap'[o].client
    <2>1. Opened(k)' \subseteq DOMAIN heap'
      BY OpenedInHeapNext
    <2>2. CASE k = db[d].key
      <3>1. \A p \in Opened(k)' : heap'[p].client = d
        BY <1>3, <1>4, <2>1, <2>2 DEF KeysInv, KeyOpensOwnAccount
      <3> QED
        BY <1>6, <2>2, <3>1 DEF KeysInv, KeysDistinct
    <2>3. CASE k # db[d].key
      <3>1. Opened(k)' \subseteq Opened(k) /\ n \notin Opened(k)
        BY <1>4, <2>3, OpenedInHeap
      <3>2. \A p \in Opened(k)' : heap'[p].client = heap[p].client
        BY <1>3, <2>1, <3>1
      <3> QED
        BY <1>6, <3>1, <3>2 DEF KeysInv, KeyOpensOwnAccount
    <2> QED
      BY <2>2, <2>3
  <1> QED
    BY <1>1, <1>5, <1>6 DEF KeysInv, KeyOpensOwnAccount

\* The key of a client is replaced.
NewKey(p) == RegenerateCommit(p) \/ RegenerateUnacked(p)

\* A new key opens nothing yet, and the replaced one opens what it opened.
LEMMA KeysRegenerate ==
  ASSUME TypeInv, TypeInv', KeysInv, NEW p \in Calls, NewKey(p)
  PROVE  KeysInv'
  <1> DEFINE c == call[p].client
  <1> PICK k \in Keys \ issued : /\ issued' = issued \cup {k}
                                 /\ db' = [db EXCEPT ![c].key = k]
    BY DEF NewKey, RegenerateCommit, RegenerateUnacked
  <1>1. UNCHANGED <<cache, heap, req>> /\ c \in Clients
    BY CallFields DEF NewKey, RegenerateCommit, RegenerateUnacked
  <1>2. \A x : Opened(x)' = Opened(x)
    BY <1>1 DEF Opened
  <1>3. \A d \in Clients : db'[d].key = IF d = c THEN k ELSE db[d].key
    BY <1>1 DEF TypeInv, TypeOK, Row
  <1>4. KeysDistinct'
    BY <1>2, <1>3 DEF KeysInv, KeysDistinct
  <1>5. Opened(k) = {}
    BY DEF KeysInv, KeysDistinct
  <1>6. KeyOpensOwnAccount'
    BY <1>1, <1>2, <1>3, <1>5 DEF KeysInv, KeyOpensOwnAccount
  <1> QED
    BY <1>4, <1>6 DEF KeysInv

\* Only a SELECT that finds a row finds a new object under a key.
FindsFewer == SameView /\ \A k \in Keys : Opened(k)' \subseteq Opened(k)

\* Steps of requests.
LEMMA FewerRequest ==
  ASSUME TypeInv, TypeInv', NEW r \in Requests, Arrive(r) \/ RequestStep(r), ~SelectFound(r)
  PROVE  FindsFewer
  <1>1. CASE Arrive(r)
    <2>1. SameView /\ Ages
      BY <1>1, FadesArrive
    <2>2. RequestsKnown
      <3> PICK w \in Workers, k \in issued, m \in BOOLEAN :
                 ArriveHit(r, w, k, m) \/ ArriveMiss(r, w, k, m)
        BY <1>1 DEF Arrive
      <3>1. CASE ArriveHit(r, w, k, m)
        <4>1. cache[w][k].obj \in Opened(k)
          BY <3>1 DEF ArriveHit, Live, Opened, Found, TypeInv, TypeOK, Entry
        <4> QED
          BY <3>1, <4>1, DecideKnown DEF ArriveHit
      <3>2. CASE ArriveMiss(r, w, k, m)
        <4> DEFINE q == [pc |-> "selecting", worker |-> w, key |-> k, metered |-> m,
                         obj |-> None]
        <4>1. req' = Put(req, r, q)
          BY <3>2 DEF ArriveMiss, Remember
        <4>2. \A x \in DOMAIN req : req[x].obj = None \/ req[x].obj \in Opened(req[x].key)
          BY DEF TypeInv, TypeOK, Request, Opened, Found
        <4> QED
          BY <4>1, <4>2 DEF RequestsKnown, Put
      <3> QED
        BY <3>1, <3>2
    <2> QED
      BY <2>1, <2>2, FoundFewer DEF Ages, FindsFewer
  <1>2. CASE Resume(r)
    <2> DEFINE q  == req[r]
               cc == [cache EXCEPT ![q.worker] = Put(@, q.key, [obj |-> q.obj, ttl |-> TTL])]
    <2>1. r \in DOMAIN req /\ q.pc = "loaded" /\ Decide(r, q.worker, q.key, q.metered, q.obj, cc)
      BY <1>2 DEF Resume
    <2>2. q.obj \in Opened(q.key)
      BY <2>1 DEF TypeInv, TypeOK, RefsOK, Request, Opened, Found
    <2>3. RequestsKnown
      BY <2>1, <2>2, DecideKnown
    <2>4. SameView /\ \A w \in Workers : \A k \in DOMAIN cache'[w] : EntryAged(w, k) \/ EntryMade(w, k)
      BY <1>2, ResumeMakes
    <2> QED
      BY <2>3, <2>4, FoundFewer DEF FindsFewer
  <1>3. CASE SelectNone(r) \/ Charge(r) \/ Settle(r) \/ DbError(r) \/ ChargeUnacked(r)
    <2>1. SameView /\ Ages
      BY <1>3, FadesOther
    <2>2. RequestsKnown
      <3>1. CASE Charge(r)
        <4>1. \A x \in DOMAIN req' : /\ x \in DOMAIN req
                                     /\ req'[x].obj = req[x].obj /\ req'[x].key = req[x].key
          BY <3>1 DEF Charge, TypeInv, TypeOK, Request
        <4> QED
          BY <4>1, Known
      <3>2. CASE SelectNone(r) \/ Settle(r) \/ DbError(r) \/ ChargeUnacked(r)
        BY <3>2, DropKnown DEF SelectNone, Settle, DbError, ChargeUnacked, Finish, Remember
      <3> QED
        BY <1>3, <3>1, <3>2
    <2> QED
      BY <2>1, <2>2, FoundFewer DEF Ages, FindsFewer
  <1> QED
    BY <1>1, <1>2, <1>3 DEF RequestStep

\* All other steps.
LEMMA FewerNext ==
  ASSUME TypeInv, TypeInv', [Next]_vars, ~\E r \in Requests : SelectFound(r)
  PROVE  FindsFewer
  <1>1. ASSUME SameView, Ages, \A r \in DOMAIN req' : r \in DOMAIN req /\ req'[r] = req[r]
        PROVE  FindsFewer
    BY <1>1, Known, FoundFewer DEF Ages, FindsFewer
  <1>2. ASSUME NEW p \in Calls, CallStart(p) \/ CallStep(p)
        PROVE  FindsFewer
    <2>1. req' = req
      BY <1>2 DEF CallStart, EventSelect, RegenerateRead, CallStep, EventUpdate, EventCommit,
                  EventAbort, RegenerateCommit, RegenerateInvalidate, RegenerateError,
                  RegenerateUnacked, Remember
    <2> QED
      BY <1>1, <1>2, <2>1, FadesCall
  <1>3. CASE UNCHANGED <<cache, heap, req>>
    BY <1>1, <1>3, SameAges DEF SameView
  <1>4. ASSUME NEW c \in Clients, NEW b \in BOOLEAN, PutByok(c, b)
        PROVE  FindsFewer
    BY <1>3, <1>4 DEF PutByok
  <1>5. CASE Tick
    BY <1>1, <1>5, FadesTick DEF Tick
  <1>6. ASSUME NEW w \in Workers, Crash(w)
        PROVE  FindsFewer
    <2>1. \A r \in DOMAIN req' : r \in DOMAIN req /\ req'[r] = req[r]
      BY <1>6 DEF Crash, Remember, Drop, Restrict
    <2> QED
      BY <1>1, <1>6, <2>1, FadesCrash
  <1>7. CASE UNCHANGED vars
    BY <1>3, <1>7 DEF vars
  <1> QED
    BY <1>2, <1>4, <1>5, <1>6, <1>7, FewerRequest DEF Next

\* Only a regeneration changes who has which key.
LEMMA RowKeys ==
  ASSUME TypeInv, [Next]_vars, ~\E p \in Calls : NewKey(p)
  PROVE  issued' = issued /\ \A c \in Clients : db'[c].key = db[c].key
  <1>1. ASSUME NEW p \in Calls, CallStart(p) \/ CallStep(p)
        PROVE  issued' = issued /\ \A c \in Clients : db'[c].key = db[c].key
    <2>1. CASE EventCommit(p)
      <3> DEFINE c == call[p].client
                 e == call[p].event
      <3>1. c \in Clients /\ e \in Events
        BY <2>1, CallFields DEF EventCommit
      <3>2. Applied(e, db[c]).key = db[c].key
        BY <3>1, AppliedOK DEF TypeInv, TypeOK
      <3>3. db' = [db EXCEPT ![c] = Applied(e, db[c])]
        BY <2>1 DEF EventCommit
      <3>4. \A d \in Clients : db'[d].key = db[d].key
        BY <3>1, <3>2, <3>3 DEF TypeInv, TypeOK
      <3> QED
        BY <2>1, <3>4 DEF EventCommit
    <2>2. CASE ~EventCommit(p)
      BY <1>1, <2>2 DEF CallStart, EventSelect, RegenerateRead, CallStep, EventUpdate,
                        EventAbort, RegenerateInvalidate, RegenerateError, NewKey
    <2> QED
      BY <2>1, <2>2
  <1>2. ASSUME NEW r \in Requests, Arrive(r) \/ RequestStep(r)
        PROVE  issued' = issued /\ \A c \in Clients : db'[c].key = db[c].key
    <2>1. CASE Charge(r) \/ ChargeUnacked(r)
      <3>1. Client(r) \in Clients
        BY <2>1, ClientOK DEF Charge, ChargeUnacked
      <3> QED
        BY <2>1, <3>1, ChargedRow DEF Charge, ChargeUnacked, TypeInv, TypeOK
    <2>2. CASE ~(Charge(r) \/ ChargeUnacked(r))
      BY <1>2, <2>2 DEF Arrive, ArriveHit, ArriveMiss, RequestStep, SelectFound,
                        SelectNone, Resume, Settle, DbError
    <2> QED
      BY <2>1, <2>2
  <1>3. ASSUME NEW c \in Clients, NEW b \in BOOLEAN, PutByok(c, b)
        PROVE  issued' = issued /\ \A d \in Clients : db'[d].key = db[d].key
    BY <1>3 DEF PutByok, TypeInv, TypeOK, Row
  <1>4. CASE Tick \/ (\E w \in Workers : Crash(w)) \/ UNCHANGED vars
    BY <1>4 DEF Tick, Crash, vars
  <1> QED
    BY <1>1, <1>2, <1>3, <1>4 DEF Next

\* Every step keeps KeysInv.
LEMMA KeysNext == TypeInv /\ TypeInv' /\ KeysInv /\ [Next]_vars => KeysInv'
  <1> SUFFICES ASSUME TypeInv, TypeInv', KeysInv, [Next]_vars PROVE KeysInv'
    OBVIOUS
  <1>1. CASE \E p \in Calls : NewKey(p)
    BY <1>1, KeysRegenerate
  <1>2. CASE \E r \in Requests : SelectFound(r)
    BY <1>2, KeysSelect
  <1>3. CASE /\ ~\E p \in Calls : NewKey(p)
             /\ ~\E r \in Requests : SelectFound(r)
    BY <1>3, FewerNext, RowKeys, KeysKept DEF FindsFewer
  <1> QED
    BY <1>1, <1>2, <1>3

\* No interleaving of loads, invalidations, regenerations and dying workers
\* lets a key open, or charge, another client's account: not in a cache, not in
\* a request under way, not for a key that was replaced (the SELECT by hash
\* and the cache by hash, api_key_auth.py:33-49 and 88-96).
THEOREM KeysOpenOwnAccount == Spec => []KeyOpensOwnAccount
  <1>1. Init => KeysInv
    BY DEF Init, KeysInv, KeysDistinct, KeyOpensOwnAccount, Opened, Found
  <1>2. KeysInv => KeyOpensOwnAccount
    BY DEF KeysInv
  <1> QED
    BY <1>1, <1>2, KeysNext, TypeCorrect, PTL DEF Spec

--------------------------------------------------------------------------------
(* One request at a time *)

\* One worker that handles one request at a time, and no key is regenerated.
OneAtATime ==
  /\ \E w \in Workers : Workers = {w}
  /\ \E r \in Requests : Requests = {r}
  /\ ~KeyRotation

\* Then a client has at most one object, because what is found under a key is
\* of the client that has it, and a request that is at its SELECT has emptied
\* the cache under its key.
Alone ==
  /\ \A p \in DOMAIN call : call[p].pc \in {"selected", "updated"}
  /\ \A k \in Keys : \A o \in Opened(k) : db[heap[o].client].key = k
  /\ \A r \in DOMAIN req :
       req[r].pc = "selecting" => req[r].key \notin DOMAIN cache[req[r].worker]
  /\ \A o, p \in DOMAIN heap : heap[o].client = heap[p].client => o = p

\* The row never passes what its object knows of, but for lost acknowledgements.
Told ==
  /\ \A o \in DOMAIN heap : db[heap[o].client].used <= Spent(o) + unacked
  /\ \A c \in Clients : db[c].used <= Top + unacked

\* Calls that regenerate no key are webhook deliveries.
LEMMA AloneCalls ==
  ASSUME TypeInv, ~KeyRotation, [Next]_vars,
         \A p \in DOMAIN call : call[p].pc \in {"selected", "updated"}
  PROVE  /\ \A p \in DOMAIN call' : call'[p].pc \in {"selected", "updated"}
         /\ ~\E p \in Calls : NewKey(p)
  <1>1. ASSUME NEW p \in Calls, CallStart(p) \/ CallStep(p)
        PROVE  \A q \in DOMAIN call' : call'[q].pc \in {"selected", "updated"}
    <2>1. CASE CallStart(p)
      BY <2>1 DEF CallStart, EventSelect, RegenerateRead, Put
    <2>2. CASE EventUpdate(p)
      <3>1. call'[p].pc = "updated" /\ \A q \in DOMAIN call \ {p} : call'[q] = call[q]
        BY <2>2, CallFields DEF EventUpdate
      <3> QED
        BY <2>2, <3>1 DEF EventUpdate
    <2>3. CASE EventCommit(p) \/ EventAbort(p)
      BY <2>3 DEF EventCommit, EventAbort, Drop, Restrict
    <2> QED
      BY <1>1, <2>1, <2>2, <2>3
         DEF CallStep, RegenerateCommit, RegenerateInvalidate, RegenerateError,
             RegenerateUnacked
  <1>2. ASSUME NEW r \in Requests, Arrive(r) \/ RequestStep(r)
        PROVE  call' = call
    BY <1>2 DEF Arrive, ArriveHit, ArriveMiss, RequestStep, SelectFound, SelectNone,
                Resume, Charge, Settle, DbError, ChargeUnacked
  <1>3. ASSUME NEW c \in Clients, NEW b \in BOOLEAN, PutByok(c, b)
        PROVE  call' = call
    BY <1>3 DEF PutByok
  <1>4. Tick \/ UNCHANGED vars => call' = call
    BY DEF Tick, vars
  <1>5. ASSUME NEW w \in Workers, Crash(w)
        PROVE  \A p \in DOMAIN call' : p \in DOMAIN call /\ call'[p] = call[p]
    BY <1>5 DEF Crash, Drop, Restrict
  <1>6. ~\E p \in Calls : NewKey(p)
    BY DEF NewKey, RegenerateCommit, RegenerateUnacked
  <1> QED
    BY <1>1, <1>2, <1>3, <1>4, <1>5, <1>6 DEF Next

\* What a request that goes to its SELECT leaves in the caches.
LEMMA AloneSelecting ==
  ASSUME TypeInv, TypeInv', OneAtATime, Alone, [Next]_vars,
         NEW r \in DOMAIN req', req'[r].pc = "selecting"
  PROVE  req'[r].key \notin DOMAIN cache'[req'[r].worker]
  <1>1. PICK w : Workers = {w}
    BY DEF OneAtATime
  <1>2. Requests = {r} /\ r \in Requests
    BY DEF OneAtATime, TypeInv, TypeOK
  <1>3. ASSUME NEW k, ArriveMiss(r, w, k, req'[r].metered)
        PROVE  req'[r].key \notin DOMAIN cache'[req'[r].worker]
    <2>1. cache' = Invalidated(w, k) /\ req'[r].key = k /\ req'[r].worker = w
      BY <1>3 DEF ArriveMiss, Remember, Put
    <2> QED
      BY <1>1, <2>1 DEF Invalidated, Drop, Restrict, TypeInv, TypeOK
  <1>4. CASE r \in DOMAIN req /\ req'[r] = req[r] /\ Ages
    <2>1. req[r].key \notin DOMAIN cache[req[r].worker]
      BY <1>4 DEF Alone
    <2>2. req'[r].worker \in Workers
      BY DEF TypeInv, TypeOK, Request
    <2> QED
      BY <1>4, <2>1, <2>2 DEF Ages, EntryAged
  <1>5. CASE Arrive(r) \/ RequestStep(r)
    <2>1. CASE Arrive(r)
      <3> PICK k \in issued, m \in BOOLEAN : ArriveHit(r, w, k, m) \/ ArriveMiss(r, w, k, m)
        BY <1>1, <2>1 DEF Arrive
      <3>1. ~ArriveHit(r, w, k, m)
        BY DEF ArriveHit, Decide, Finish, Remember, Put, Drop, Restrict
      <3>2. ArriveMiss(r, w, k, m) /\ req'[r].metered = m
        BY <3>1 DEF ArriveMiss, Remember, Put
      <3> QED
        BY <1>3, <3>2
    <2>2. CASE RequestStep(r)
      <3>1. CASE SelectFound(r) \/ Charge(r)
        <4>1. CASE SelectFound(r)
          <5>1. PICK o : req' = [req EXCEPT ![r].pc = "loaded", ![r].obj = o]
            BY <4>1 DEF SelectFound, Remember
          <5>2. req'[r].pc = "loaded"
            BY <4>1, <5>1 DEF SelectFound, TypeInv, TypeOK, Request
          <5> QED
            BY <5>2
        <4> QED
          BY <1>2, <3>1, <4>1, ChargeReq
      <3>2. CASE Resume(r)
        BY <3>2, SMTT(90) DEF Resume, Decide, Finish, Remember, Put, Drop, Restrict
      <3>3. CASE SelectNone(r) \/ Settle(r) \/ DbError(r) \/ ChargeUnacked(r)
        BY <3>3 DEF SelectNone, Settle, DbError, ChargeUnacked, Finish, Remember, Drop, Restrict
      <3> QED
        BY <2>2, <3>1, <3>2, <3>3 DEF RequestStep
    <2> QED
      BY <1>5, <2>1, <2>2
  <1>6. CASE ~(Arrive(r) \/ RequestStep(r))
    <2>1. Ages
      BY <1>2, <1>6, FadesCall, FadesTick, FadesCrash, SameAges DEF Next, PutByok, vars
    <2>2. r \in DOMAIN req /\ req'[r] = req[r]
      <3>1. ASSUME NEW v \in Workers, Crash(v)
            PROVE  r \in DOMAIN req /\ req'[r] = req[r]
        BY <3>1 DEF Crash, Remember, Drop, Restrict
      <3>2. ASSUME NEW p \in Calls, CallStart(p) \/ CallStep(p)
            PROVE  req' = req
        BY <3>2 DEF CallStart, EventSelect, RegenerateRead, CallStep, EventUpdate, EventCommit,
                    EventAbort, RegenerateCommit, RegenerateInvalidate, RegenerateError,
                  RegenerateUnacked, Remember
      <3> QED
        BY <1>2, <1>6, <3>1, <3>2 DEF Next, PutByok, Tick, vars
    <2> QED
      BY <1>4, <2>1, <2>2
  <1> QED
    BY <1>5, <1>6

\* A client has at most one object after a SELECT too: before it the client had none.
LEMMA AloneSelect ==
  ASSUME TypeInv, TypeInv', OneAtATime, Alone, NEW r \in Requests, SelectFound(r)
  PROVE  /\ \A k \in Keys : \A o \in Opened(k)' : db'[heap'[o].client].key = k
         /\ \A o, p \in DOMAIN heap' : heap'[o].client = heap'[p].client => o = p
  <1>1. PICK d \in Clients, n \in Objs \ DOMAIN heap :
          /\ db[d].key = req[r].key
          /\ n \in DOMAIN heap' /\ DOMAIN heap' \subseteq DOMAIN heap \cup {n}
          /\ \A o \in DOMAIN heap' :
               /\ o = n => heap'[o].client = d
               /\ o # n => o \in DOMAIN heap /\ heap'[o] = heap[o]
          /\ db' = db
    BY SelectLoads
  <1>2. Requests = {r} /\ r \in DOMAIN req /\ req[r].pc = "selecting" /\ cache' = cache
    BY DEF OneAtATime, SelectFound, Remember
  <1>3. \A o \in DOMAIN heap : heap[o].client # d
    <2> SUFFICES ASSUME NEW o \in DOMAIN heap, heap[o].client = d PROVE FALSE
      OBVIOUS
    <2>1. o \in Objs /\ o # None /\ o \in Referenced(cache, req)
      BY ConstantsOK DEF TypeInv, TypeOK, RefsOK
    <2>2. \A x \in DOMAIN req : req[x].obj = None
      BY <1>2 DEF TypeInv, TypeOK, RefsOK
    <2> PICK w \in Workers : \E x \in DOMAIN cache[w] : cache[w][x].obj = o
      BY <2>1, <2>2 DEF Referenced
    <2>3. PICK k \in DOMAIN cache[w] : cache[w][k].obj = o
      OBVIOUS
    <2>4. k \in Keys /\ o \in Opened(k)
      BY <2>1, <2>3 DEF Opened, Found, TypeInv, TypeOK
    <2>5. k = req[r].key
      BY <1>1, <2>4 DEF Alone
    <2>6. w = req[r].worker
      BY <1>2 DEF OneAtATime, TypeInv, TypeOK, Request
    <2> QED
      BY <1>2, <2>3, <2>5, <2>6 DEF Alone
  <1>4. ASSUME NEW k \in Keys, NEW o \in Opened(k)'
        PROVE  db'[heap'[o].client].key = k
    <2>1. o \in DOMAIN heap'
      BY OpenedInHeapNext
    <2>2. CASE o = n
      <3>1. \A w \in Workers : k \in DOMAIN cache[w] => cache[w][k].obj # n
        BY InHeap
      <3>2. req'[r].key = k
        BY <1>2, <2>2, <3>1 DEF Opened, Found, TypeInv, TypeOK
      <3>3. req'[r].key = req[r].key
        <4>1. PICK x : req' = [req EXCEPT ![r].pc = "loaded", ![r].obj = x]
          BY DEF SelectFound, Remember
        <4> QED
          BY <1>2, <4>1 DEF TypeInv, TypeOK, Request
      <3> QED
        BY <1>1, <2>1, <2>2, <3>2, <3>3
    <2>3. CASE o # n
      <3>1. o \in Opened(k)
        <4>1. \A x \in DOMAIN req' : x = r
          BY <1>2 DEF TypeInv, TypeOK
        <4>2. req'[r].obj = n
          <5>1. PICK x \in Objs \ DOMAIN heap : req' = [req EXCEPT ![r].pc = "loaded", ![r].obj = x]
            BY DEF SelectFound, Remember
          <5>2. req'[r].obj = x /\ r \in DOMAIN req' /\ req'[r].pc = "loaded"
            BY <1>2, <5>1 DEF TypeInv, TypeOK, Request
          <5> QED
            BY <1>1, <5>2, InHeapNext
        <4> QED
          BY <1>2, <2>3, <4>1, <4>2 DEF Opened, Found
      <3> QED
        BY <1>1, <2>1, <2>3, <3>1 DEF Alone
    <2> QED
      BY <2>2, <2>3
  <1>5. \A o, p \in DOMAIN heap' : heap'[o].client = heap'[p].client => o = p
    BY <1>1, <1>3 DEF Alone
  <1> QED
    BY <1>4, <1>5

\* Every step keeps it.
LEMMA AloneNext ==
  ASSUME TypeInv, TypeInv', OneAtATime, Alone, [Next]_vars
  PROVE  Alone'
  <1>1. /\ \A p \in DOMAIN call' : call'[p].pc \in {"selected", "updated"}
        /\ \A c \in Clients : db'[c].key = db[c].key
    BY AloneCalls, RowKeys DEF OneAtATime, Alone
  <1>2. \A r \in DOMAIN req' :
          req'[r].pc = "selecting" => req'[r].key \notin DOMAIN cache'[req'[r].worker]
    BY AloneSelecting
  <1>3. /\ \A k \in Keys : \A o \in Opened(k)' : db'[heap'[o].client].key = k
        /\ \A o, p \in DOMAIN heap' : heap'[o].client = heap'[p].client => o = p
    <2>1. CASE \E r \in Requests : SelectFound(r)
      BY <2>1, AloneSelect
    <2>2. CASE ~\E r \in Requests : SelectFound(r)
      <3>1. SameView /\ \A k \in Keys : Opened(k)' \subseteq Opened(k)
        BY <2>2, FewerNext DEF FindsFewer
      <3>2. DOMAIN heap' \subseteq DOMAIN heap
        <4> SUFFICES ASSUME NEW o \in DOMAIN heap' PROVE o \in DOMAIN heap
          OBVIOUS
        <4>1. PICK k \in Keys : o \in Opened(k)'
          BY HeapOpenedNext
        <4> QED
          BY <3>1, <4>1, OpenedInHeap
      <3>3. \A o \in DOMAIN heap' : heap'[o].client = heap[o].client /\ heap[o].client \in Clients
        BY <3>1, <3>2, MemoryTyped DEF SameView
      <3>4. \A k \in Keys : Opened(k)' \subseteq DOMAIN heap'
        BY OpenedInHeapNext
      <3> QED
        BY <1>1, <3>1, <3>2, <3>3, <3>4 DEF Alone
    <2> QED
      BY <2>1, <2>2
  <1> QED
    BY <1>1, <1>2, <1>3 DEF Alone

\* Every step keeps the row within what its object knows of.  A charge goes
\* through the only object of its client, which had quota left.
LEMMA ToldNext ==
  ASSUME TypeInv, TypeInv', OneAtATime, SpendInv, Alone, Told, [Next]_vars
  PROVE  Told'
  <1>1. CASE \E r \in Requests : SelectFound(r)
    <2> PICK r \in Requests : SelectFound(r)
      BY <1>1
    <2>1. PICK d \in Clients, n \in Objs \ DOMAIN heap :
            /\ \A o \in DOMAIN heap' :
                 /\ o = n => heap'[o].client = d
                 /\ o # n => o \in DOMAIN heap /\ heap'[o] = heap[o] /\ Spent(o)' = Spent(o)
            /\ Spent(n)' = db[d].used
            /\ db' = db /\ unacked' = unacked
      BY SelectLoads
    <2>2. \A o \in DOMAIN heap' : db'[heap'[o].client].used <= Spent(o)' + unacked'
      BY <2>1, MemoryTyped DEF Told
    <2> QED
      BY <2>1, <2>2 DEF Told, Top
  <1>2. CASE \E r \in Requests : Charge(r)
    <2> PICK r \in Requests : Charge(r)
      BY <1>2
    <2> PICK n : n = req[r].obj
      OBVIOUS
    <2> PICK c : c = heap[n].client
      OBVIOUS
    <2>1. /\ n \in DOMAIN heap /\ c \in Clients
          /\ db' = [db EXCEPT ![c].used = @ + 1]
          /\ heap' = heap /\ unacked' = unacked
          /\ \A o \in DOMAIN heap : /\ Spent(o) \in Nat
                                    /\ Spent(o)' = IF o = n THEN Spent(o) + 1 ELSE Spent(o)
          /\ Spent(n) \in 0..Reach - 1
      BY ChargeSpends DEF SpendInv
    <2>2. /\ db'[c].used = db[c].used + 1 /\ db[c].used \in Nat /\ unacked \in Nat
          /\ \A d \in Clients \ {c} : db'[d] = db[d]
      BY <2>1, ChargedRow, MemoryTyped
    <2>3. Reach = Top /\ Top \in Nat
      <3>1. Cardinality(Requests) = 1
        BY FS_Singleton DEF OneAtATime
      <3> QED
        BY <3>1, TopOK DEF Reach
    <2>4. db[c].used <= Spent(n) + unacked
      BY <2>1 DEF Told
    <2>5. \A o \in DOMAIN heap : db'[heap[o].client].used <= Spent(o)' + unacked
      <3> SUFFICES ASSUME NEW o \in DOMAIN heap
                   PROVE  db'[heap[o].client].used <= Spent(o)' + unacked
        OBVIOUS
      <3>1. CASE o = n
        BY <2>1, <2>2, <2>4, <3>1, SMTT(30)
      <3>2. CASE o # n
        <4>1. heap[o].client \in Clients \ {c}
          BY <2>1, <3>2, MemoryTyped DEF Alone
        <4> QED
          BY <2>1, <2>2, <3>2, <4>1 DEF Told
      <3> QED
        BY <3>1, <3>2
    <2>6. \A d \in Clients : db'[d].used <= Top + unacked
      <3> SUFFICES ASSUME NEW d \in Clients PROVE db'[d].used <= Top + unacked
        OBVIOUS
      <3>1. CASE d = c
        BY <2>1, <2>2, <2>3, <2>4, <3>1, SMTT(30)
      <3>2. CASE d # c
        BY <2>2, <3>2 DEF Told
      <3> QED
        BY <3>1, <3>2
    <2> QED
      BY <2>1, <2>5, <2>6 DEF Told, Top
  <1>3. CASE \E r \in Requests : Settle(r)
    <2> PICK r \in Requests : Settle(r)
      BY <1>3
    <2>1. /\ \A o \in DOMAIN heap' :
               o \in DOMAIN heap /\ heap'[o].client = heap[o].client /\ Spent(o)' = Spent(o)
          /\ db' = db /\ unacked' = unacked
      BY SettleSpends
    <2> QED
      BY <2>1 DEF Told, Top
  <1>4. CASE ~\E r \in Requests : SelectFound(r) \/ Charge(r) \/ Settle(r)
    <2>1. Mild /\ Thrifty
      BY <1>4, MildNext DEF SpendInv
    <2>2. DOMAIN heap' \subseteq DOMAIN heap
      BY <2>1, SameObjects DEF Mild
    <2>3. \A o \in DOMAIN heap' : /\ heap'[o] = heap[o] /\ heap[o].client \in Clients
                                  /\ Spent(o)' = Spent(o) /\ Spent(o) \in Nat
      <3> TAKE o \in DOMAIN heap'
      <3>1. heap'[o] = heap[o] /\ Charged(o)' = Charged(o)
        BY <2>1 DEF Mild
      <3> QED
        BY <2>2, <3>1, MemoryTyped, UnderWayFinite DEF Spent
    <2>4. \A c \in Clients :
            /\ db'[c].used + unacked <= db[c].used + unacked'
            /\ db[c].used \in Nat /\ db'[c].used \in Nat
      BY <2>1, MemoryTyped, MemoryTypedNext DEF Thrifty
    <2>5. unacked \in Nat /\ unacked' \in Nat /\ Top \in Nat
      BY MemoryTyped, MemoryTypedNext, TopOK
    <2>6. \A o \in DOMAIN heap' : db'[heap'[o].client].used <= Spent(o)' + unacked'
      <3> SUFFICES ASSUME NEW o \in DOMAIN heap'
                   PROVE  db'[heap'[o].client].used <= Spent(o)' + unacked'
        OBVIOUS
      <3>1. db[heap[o].client].used <= Spent(o) + unacked
        BY <2>2 DEF Told
      <3> QED
        BY <2>3, <2>4, <2>5, <3>1
    <2>7. \A c \in Clients : db'[c].used <= Top + unacked'
      <3> SUFFICES ASSUME NEW c \in Clients PROVE db'[c].used <= Top + unacked'
        OBVIOUS
      <3>1. db[c].used <= Top + unacked
        BY DEF Told
      <3> QED
        BY <2>4, <2>5, <3>1
    <2> QED
      BY <2>6, <2>7 DEF Told, Top
  <1> QED
    BY <1>1, <1>2, <1>3, <1>4

\* When one worker serves one request at a time and keys stay, the counter of a
\* row passes the greatest limit by no more than the acknowledgements that were
\* lost: the overdraft of the check on a cached counter (api_key_auth.py:120)
\* comes from requests that run at the same time, from other workers' caches and
\* from replaced keys, and from nothing else.
THEOREM SequentialBound ==
  ASSUME OneAtATime
  PROVE  Spec => [](\A c \in Clients : db[c].used <= Top + unacked)
  <1>1. Init => SpendInv /\ Alone /\ Told
    <2> SUFFICES ASSUME Init PROVE Alone /\ Told
      BY SpendInit
    <2>1. /\ DOMAIN heap = {} /\ DOMAIN req = {} /\ DOMAIN call = {} /\ unacked = 0
          /\ \A w \in Workers : DOMAIN cache[w] = {}
          /\ \A c \in Clients : db[c].used = 0
      BY DEF Init
    <2> QED
      BY <2>1, TopOK DEF Alone, Told, Opened, Found
  <1>2. /\ TypeInv /\ TypeInv' /\ SpendInv /\ Alone /\ Told /\ [Next]_vars
        => (SpendInv /\ Alone /\ Told)'
    BY SpendNext, AloneNext, ToldNext
  <1>3. Told => \A c \in Clients : db[c].used <= Top + unacked
    BY DEF Told
  <1> QED
    BY <1>1, <1>2, <1>3, TypeCorrect, PTL DEF Spec

\* So on a single plan, with nothing lost, the check then enforces the quota: the
\* run auth_overdraft needs its second worker.
THEOREM SequentialExact ==
  ASSUME OneAtATime, Limits = {FreeLimit}, MaxUnacked = 0
  PROVE  Spec => []QuotaEnforced
  <1>1. /\ TypeInv /\ (\A c \in Clients : db[c].used <= Top + unacked)
        => QuotaEnforced
    BY TopOK, ConstantsOK, SMTT(30) DEF TypeInv, TypeOK, Row, QuotaEnforced, Top
  <1> QED
    BY <1>1, SequentialBound, TypeCorrect, PTL
================================================================================
