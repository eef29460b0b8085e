---------------------------- MODULE Overdraft_proofs ---------------------------
(***************************************************************************)
(* The bound on the overdraft of ApiKeyAuth, for every number of workers,  *)
(* keys and concurrent requests, every set of plans and every TTL.         *)
(*                                                                         *)
(* What the objects in memory can still spend is counted as a set of       *)
(* units, one pair <<object, counter value>> for each value its counter    *)
(* has yet to pass.  A charge takes a unit away, a load brings at most the *)
(* units the row has not seen yet, and there are never more objects than   *)
(* cache entries and requests.                                             *)
(***************************************************************************)
EXTENDS ApiKeyAuth_proofs

\* The objects that can be in memory at a time.
Capacity == Cardinality(Workers) * Cardinality(Keys) + Cardinality(Requests)

\* The value an object's counter can reach: R - 1 requests may have passed the
\* check when the last unit of the greatest limit is added.
Reach == Top + Cardinality(Requests) - 1

\* The requests that have passed the check of object o and are not yet counted in it.
UnderWay(o) ==
  {r \in DOMAIN req : req[r].obj = o /\ req[r].pc \in {"charging", "charged"}}

\* The units charged through object o, with those it is still to be told of.
Spent(o) == heap[o].used + Cardinality(Charged(o))

\* What the objects of client c can still spend.
Left(c) == {t \in (DOMAIN heap) \X (0..Reach - 1) :
              heap[t[1]].client = c /\ Spent(t[1]) <= t[2]}

\* Worker w refers to object o, with caches cc and requests rr.
Refers(cc, rr, w, o) ==
  \/ \E k \in DOMAIN cc[w] : cc[w][k].obj = o
  \/ \E r \in DOMAIN rr : rr[r].worker = w /\ rr[r].obj = o

\* An object is in the memory of one worker.
OneHome == \A o \in Objs : \A w, v \in Workers :
             Refers(cache, req, w, o) /\ Refers(cache, req, v, o) => w = v

\* No object is taken past Reach by the requests that have passed its check.
InTurn == \A o \in DOMAIN heap :
            UnderWay(o) # {} => heap[o].used + Cardinality(UnderWay(o)) <= Reach

\* What is charged and what can still be charged is covered by the bound.
Covered == \A c \in Clients :
             db[c].used + Cardinality(Left(c)) <= Capacity * Reach + unacked

\* The inductive invariant, next to TypeInv.
SpendInv == OneHome /\ InTurn /\ Covered

--------------------------------------------------------------------------------
(* Numbers and sizes *)

\* The greatest limit.
LEMMA TopOK == Top \in Nat /\ \A l \in Limits : l <= Top
  BY ConstantsOK DEF Top

\* Products of naturals, and that they grow with a factor.
LEMMA Products ==
  /\ \A a, b \in Nat : a * b \in Nat
  /\ \A a, b, m \in Nat : a <= b => a * m <= b * m
  /\ \A a \in Nat \ {0}, m \in Nat : (a - 1) * m + m = a * m
  OBVIOUS

\* The bounds are numbers.
LEMMA Sizes ==
  /\ Cardinality(Workers) \in Nat /\ Cardinality(Keys) \in Nat
  /\ Cardinality(Requests) \in Nat \ {0}
  /\ Capacity \in Nat \ {0} /\ Reach \in Nat
  <1>1. /\ Cardinality(Workers) \in Nat /\ Cardinality(Keys) \in Nat
        /\ Cardinality(Requests) \in Nat \ {0}
    BY ConstantsOK, FS_CardinalityType, FS_EmptySet
  <1>2. Cardinality(Workers) * Cardinality(Keys) \in Nat
    BY <1>1, Products
  <1> QED
    BY <1>1, <1>2, TopOK DEF Capacity, Reach

\* What one object has yet to spend is as large as the interval of its units.
LEMMA Column ==
  ASSUME NEW n, NEW T, IsFiniteSet(T)
  PROVE  IsFiniteSet({n} \X T) /\ Cardinality({n} \X T) = Cardinality(T)
  <1>1. IsFiniteSet({n}) /\ Cardinality({n}) = 1
    BY FS_Singleton
  <1>2. /\ IsFiniteSet({n} \X T)
        /\ Cardinality({n} \X T) = Cardinality({n}) * Cardinality(T)
    BY <1>1, FS_Product
  <1>3. Cardinality(T) \in Nat
    BY FS_CardinalityType
  <1> QED
    BY <1>1, <1>2, <1>3

\* The size of an interval below a bound.
LEMMA Intervals ==
  ASSUME NEW a \in Nat, NEW m \in Nat, a <= m
  PROVE  IsFiniteSet(a..m - 1) /\ Cardinality(a..m - 1) = m - a
  <1>1. PICK b \in Int : b = m - 1
    OBVIOUS
  <1>2. IsFiniteSet(a..b) /\ Cardinality(a..b) = IF a > b THEN 0 ELSE b - a + 1
    BY <1>1, FS_Interval
  <1>3. (IF a > b THEN 0 ELSE b - a + 1) = m - a
    BY <1>1
  <1> QED
    BY <1>1, <1>2, <1>3

\* A set that has an injection into a finite set is no greater.
LEMMA Slots ==
  ASSUME NEW S, NEW T, IsFiniteSet(T), NEW f, f \in [S -> T],
         \A x, y \in S : f[x] = f[y] => x = y
  PROVE  IsFiniteSet(S) /\ Cardinality(S) <= Cardinality(T)
  <1>1. f \in Injection(S, T)
    BY DEF Injection, IsInjective
  <1> QED
    BY <1>1, FS_Injection

\* There are at most Capacity objects that caches and requests refer to.
LEMMA FewObjects ==
  ASSUME NEW cc, NEW rr, CachesOK(cc), RequestsOK(rr)
  PROVE  /\ IsFiniteSet(Referenced(cc, rr))
         /\ Cardinality(Referenced(cc, rr)) <= Capacity
  <1> PICK A : A = {o \in Objs : \E w \in Workers : \E k \in DOMAIN cc[w] : cc[w][k].obj = o}
    OBVIOUS
  <1> PICK B : B = {o \in Objs : \E r \in DOMAIN rr : rr[r].obj = o}
    OBVIOUS
  <1>1. Referenced(cc, rr) = A \cup B
    BY DEF Referenced
  <1>2. IsFiniteSet(A) /\ Cardinality(A) <= Cardinality(Workers) * Cardinality(Keys)
    <2>1. PICK f : f = [o \in A |-> CHOOSE s \in Workers \X Keys :
                        s[2] \in DOMAIN cc[s[1]] /\ cc[s[1]][s[2]].obj = o]
      OBVIOUS
    <2>2. \A o \in A : f[o] \in Workers \X Keys /\ cc[f[o][1]][f[o][2]].obj = o
      <3> TAKE o \in A
      <3> PICK w \in Workers : \E k \in DOMAIN cc[w] : cc[w][k].obj = o
        OBVIOUS
      <3>1. PICK k \in DOMAIN cc[w] : cc[w][k].obj = o
        OBVIOUS
      <3>2. /\ <<w, k>> \in Workers \X Keys
            /\ <<w, k>>[2] \in DOMAIN cc[<<w, k>>[1]]
            /\ cc[<<w, k>>[1]][<<w, k>>[2]].obj = o
        BY <3>1 DEF CachesOK
      <3>3. \E s \in Workers \X Keys : s[2] \in DOMAIN cc[s[1]] /\ cc[s[1]][s[2]].obj = o
        BY <3>2
      <3> QED
        BY <2>1, <3>3
    <2>3. PICK P : P = Workers \X Keys
      OBVIOUS
    <2>4. f \in [A -> P]
      BY <2>1, <2>2, <2>3
    <2>5. \A x, y \in A : f[x] = f[y] => x = y
      <3> SUFFICES ASSUME NEW x \in A, NEW y \in A, f[x] = f[y] PROVE x = y
        OBVIOUS
      <3> QED
        BY <2>2
    <2>6. IsFiniteSet(P) /\ Cardinality(P) = Cardinality(Workers) * Cardinality(Keys)
      BY <2>3, ConstantsOK, FS_Product
    <2>7. IsFiniteSet(A) /\ Cardinality(A) <= Cardinality(P)
      BY <2>4, <2>5, <2>6, Slots
    <2> QED
      BY <2>6, <2>7
  <1>3. IsFiniteSet(B) /\ Cardinality(B) <= Cardinality(Requests)
    <2> PICK f : f = [o \in B |-> CHOOSE r \in DOMAIN rr : rr[r].obj = o]
      OBVIOUS
    <2>1. \A o \in B : f[o] \in DOMAIN rr /\ rr[f[o]].obj = o
      OBVIOUS
    <2>2. f \in [B -> Requests] /\ \A x, y \in B : f[x] = f[y] => x = y
      BY <2>1 DEF RequestsOK
    <2> QED
      BY <2>2, ConstantsOK, Slots
  <1>4. /\ IsFiniteSet(A \cup B)
        /\ Cardinality(A \cup B) = Cardinality(A) + Cardinality(B) - Cardinality(A \cap B)
    BY <1>2, <1>3, FS_Union
  <1>5. Cardinality(A \cap B) \in Nat /\ Cardinality(A) \in Nat /\ Cardinality(B) \in Nat
    BY <1>2, <1>3, FS_Subset, FS_CardinalityType
  <1>6. Cardinality(Workers) * Cardinality(Keys) \in Nat
    BY Sizes, Products
  <1> QED
    BY <1>1, <1>2, <1>3, <1>4, <1>5, <1>6, Sizes DEF Capacity

\* Memory and its parts, now and after a step.
LEMMA MemoryTyped ==
  ASSUME TypeInv
  PROVE  /\ CachesOK(cache) /\ RequestsOK(req) /\ HeapOK(heap)
         /\ DOMAIN heap = Referenced(cache, req)
         /\ db \in [Clients -> Row] /\ unacked \in Nat
         /\ \A o \in DOMAIN heap :
              /\ heap[o] \in View /\ heap[o].client \in Clients
              /\ heap[o].used \in Nat /\ heap[o].limit \in Nat /\ heap[o].limit <= Top
         /\ \A c \in Clients : db[c].used \in Nat
  <1>1. /\ CachesOK(cache) /\ RequestsOK(req) /\ HeapOK(heap)
        /\ DOMAIN heap = Referenced(cache, req)
        /\ db \in [Clients -> Row]
    BY DEF TypeInv, TypeOK, CachesOK, RequestsOK, HeapOK, RefsOK
  <1>2. unacked \in Nat
    BY ConstantsOK DEF TypeInv, TypeOK
  <1>3. \A o \in DOMAIN heap :
          /\ heap[o] \in View /\ heap[o].client \in Clients
          /\ heap[o].used \in Nat /\ heap[o].limit \in Limits
    BY <1>1 DEF HeapOK, View
  <1>4. \A c \in Clients : db[c].used \in Nat
    BY <1>1 DEF Row
  <1> QED
    BY <1>1, <1>2, <1>3, <1>4, TopOK, ConstantsOK

LEMMA MemoryTypedNext ==
  ASSUME TypeInv'
  PROVE  /\ CachesOK(cache') /\ RequestsOK(req') /\ HeapOK(heap')
         /\ DOMAIN heap' = Referenced(cache', req')
         /\ db' \in [Clients -> Row] /\ unacked' \in Nat
         /\ \A o \in DOMAIN heap' :
              /\ heap'[o] \in View /\ heap'[o].client \in Clients
              /\ heap'[o].used \in Nat
         /\ \A c \in Clients : db'[c].used \in Nat
  <1>1. /\ CachesOK(cache') /\ RequestsOK(req') /\ HeapOK(heap')
        /\ DOMAIN heap' = Referenced(cache', req')
        /\ db' \in [Clients -> Row]
    BY DEF TypeInv, TypeOK, CachesOK, RequestsOK, HeapOK, RefsOK
  <1>2. unacked' \in Nat
    BY ConstantsOK DEF TypeInv, TypeOK
  <1> QED
    BY <1>1, <1>2 DEF HeapOK, View, Row

\* The requests of an object are finitely many.
LEMMA UnderWayFinite ==
  ASSUME TypeInv, NEW o
  PROVE  /\ IsFiniteSet(UnderWay(o)) /\ Cardinality(UnderWay(o)) \in Nat
         /\ Charged(o) \subseteq UnderWay(o)
         /\ IsFiniteSet(Charged(o)) /\ Cardinality(Charged(o)) \in Nat
  <1>1. UnderWay(o) \subseteq Requests /\ Charged(o) \subseteq UnderWay(o)
    BY DEF UnderWay, Charged, TypeInv, TypeOK
  <1> HIDE DEF UnderWay, Charged
  <1>2. IsFiniteSet(UnderWay(o))
    BY <1>1, ConstantsOK, FS_Subset
  <1>3. IsFiniteSet(Charged(o))
    BY <1>1, <1>2, FS_Subset
  <1> QED
    BY <1>1, <1>2, <1>3, FS_CardinalityType

LEMMA UnderWayFiniteNext ==
  ASSUME TypeInv', NEW o
  PROVE  /\ IsFiniteSet(UnderWay(o)') /\ Cardinality(UnderWay(o)') \in Nat
         /\ Cardinality(UnderWay(o)') <= Cardinality(Requests)
         /\ IsFiniteSet(Charged(o)') /\ Cardinality(Charged(o)') \in Nat
  <1>1. UnderWay(o)' \subseteq Requests /\ Charged(o)' \subseteq Requests
    BY DEF UnderWay, Charged, TypeInv, TypeOK
  <1> HIDE DEF UnderWay, Charged
  <1> QED
    BY <1>1, ConstantsOK, FS_Subset, FS_CardinalityType

\* What can still be spent is finite.
LEMMA LeftFinite ==
  ASSUME TypeInv, NEW c
  PROVE  IsFiniteSet(Left(c)) /\ Cardinality(Left(c)) \in Nat
  <1>1. IsFiniteSet(DOMAIN heap)
    BY MemoryTyped, FewObjects
  <1>2. IsFiniteSet(0..Reach - 1)
    BY Sizes, FS_Interval
  <1>3. IsFiniteSet((DOMAIN heap) \X (0..Reach - 1))
    BY <1>1, <1>2, FS_Product
  <1>4. Left(c) \subseteq (DOMAIN heap) \X (0..Reach - 1)
    BY DEF Left
  <1> QED
    BY <1>3, <1>4, FS_Subset, FS_CardinalityType

--------------------------------------------------------------------------------
(* What steps keep *)

\* After the step no worker refers to an object it did not refer to before.
NoNewReference ==
  \A w \in Workers, o \in Objs : Refers(cache', req', w, o) => Refers(cache, req, w, o)

\* A step that changes no object that stays in memory and neither adds nor
\* takes a charge that waits to be added to one.  A request may pass the check
\* of an object whose counter is below its limit.
Mild ==
  /\ NoNewReference
  /\ \A o \in DOMAIN heap' :
       /\ heap'[o] = heap[o]
       /\ Charged(o)' = Charged(o)
       /\ UnderWay(o)' \subseteq UnderWay(o) \/ heap[o].used < heap[o].limit

\* A step that charges nothing but what is lost.
Thrifty == \A c \in Clients : db'[c].used + unacked <= db[c].used + unacked'

\* What is referred to is referred to by a worker.
LEMMA ReferredBy ==
  ASSUME NEW cc, NEW rr, RequestsOK(rr), NEW o \in Objs
  PROVE  o \in Referenced(cc, rr) <=> \E w \in Workers : Refers(cc, rr, w, o)
  <1>1. \A r \in DOMAIN rr : rr[r].worker \in Workers
    BY DEF RequestsOK, Request
  <1> QED
    BY <1>1 DEF Referenced, Refers

\* Without a new reference no object comes into memory.
LEMMA SameObjects ==
  ASSUME TypeInv, TypeInv', NoNewReference
  PROVE  DOMAIN heap' \subseteq DOMAIN heap
  <1> SUFFICES ASSUME NEW o \in DOMAIN heap' PROVE o \in DOMAIN heap
    OBVIOUS
  <1>1. o \in Objs /\ o \in Referenced(cache', req')
    BY MemoryTypedNext DEF HeapOK
  <1>2. PICK w \in Workers : Refers(cache', req', w, o)
    BY <1>1, MemoryTypedNext, ReferredBy
  <1>3. Refers(cache, req, w, o)
    BY <1>1, <1>2 DEF NoNewReference
  <1> QED
    BY <1>1, <1>3, MemoryTyped, ReferredBy

LEMMA HomeKept == OneHome /\ NoNewReference => OneHome'
  BY DEF OneHome, NoNewReference

\* An object keeps its turn if its counter stands still and no request passes
\* its check, or one does below the limit.
LEMMA TurnKept ==
  ASSUME TypeInv, TypeInv', InTurn, NoNewReference, NEW o \in DOMAIN heap',
         heap'[o].used = heap[o].used,
         UnderWay(o)' \subseteq UnderWay(o) \/ heap[o].used < heap[o].limit,
         UnderWay(o)' # {}
  PROVE  heap'[o].used + Cardinality(UnderWay(o)') <= Reach
  <1>1. /\ o \in DOMAIN heap
        /\ heap[o].used \in Nat /\ heap[o].limit \in Nat /\ heap[o].limit <= Top
    BY SameObjects, MemoryTyped
  <1>2. /\ Cardinality(UnderWay(o)') \in Nat
        /\ Cardinality(UnderWay(o)') <= Cardinality(Requests)
    BY UnderWayFiniteNext
  <1>3. CASE UnderWay(o)' \subseteq UnderWay(o)
    <2>1. heap[o].used + Cardinality(UnderWay(o)) <= Reach
      BY <1>1, <1>3 DEF InTurn
    <2>2. /\ Cardinality(UnderWay(o)') <= Cardinality(UnderWay(o))
          /\ Cardinality(UnderWay(o)) \in Nat
      BY <1>3, UnderWayFinite, FS_Subset
    <2> QED
      BY <1>1, <1>2, <2>1, <2>2, Sizes
  <1>4. CASE heap[o].used < heap[o].limit
    BY <1>1, <1>2, <1>4, TopOK, Sizes DEF Reach
  <1> QED
    BY <1>3, <1>4

\* Nothing more can be spent if no object comes in and none spends less.
LEMMA LeftShrinks ==
  ASSUME TypeInv, TypeInv', NEW c,
         \A o \in DOMAIN heap' : heap'[o].client = c =>
           /\ o \in DOMAIN heap /\ heap[o].client = c
           /\ Spent(o)' >= Spent(o)
  PROVE  Left(c)' \subseteq Left(c)
  <1> SUFFICES ASSUME NEW t \in Left(c)' PROVE t \in Left(c)
    OBVIOUS
  <1>1. /\ t \in (DOMAIN heap') \X (0..Reach - 1)
        /\ heap'[t[1]].client = c
        /\ \A o : o = t[1] => Spent(o)' <= t[2]
    BY DEF Left
  <1>2. PICK o, n : t = <<o, n>> /\ o \in DOMAIN heap' /\ n \in 0..Reach - 1
    BY <1>1
  <1>3. heap'[o].client = c /\ Spent(o)' <= n
    BY <1>1, <1>2
  <1>4. o \in DOMAIN heap /\ heap[o].client = c /\ Spent(o)' >= Spent(o)
    BY <1>2, <1>3
  <1>5. Spent(o) \in Nat /\ Spent(o)' \in Nat /\ n \in Int
    BY <1>2, <1>4, MemoryTyped, MemoryTypedNext, UnderWayFinite, UnderWayFiniteNext, Sizes
       DEF Spent
  <1>6. Spent(o) <= n
    BY <1>3, <1>4, <1>5
  <1> QED
    BY <1>2, <1>4, <1>6 DEF Left

\* The bound still covers a client whose counter has grown by no more than the
\* lost acknowledgements.
LEMMA CoverKept ==
  ASSUME TypeInv, TypeInv', Covered, NEW c \in Clients,
         Left(c)' \subseteq Left(c),
         db'[c].used + unacked <= db[c].used + unacked'
  PROVE  db'[c].used + Cardinality(Left(c)') <= Capacity * Reach + unacked'
  <1>1. db[c].used + Cardinality(Left(c)) <= Capacity * Reach + unacked
    BY DEF Covered
  <1>2. /\ Cardinality(Left(c)') <= Cardinality(Left(c))
        /\ Cardinality(Left(c)) \in Nat /\ Cardinality(Left(c)') \in Nat
    BY LeftFinite, FS_Subset, FS_CardinalityType
  <1>3. /\ db[c].used \in Nat /\ db'[c].used \in Nat
        /\ unacked \in Nat /\ unacked' \in Nat
    BY MemoryTyped, MemoryTypedNext
  <1>4. Capacity * Reach \in Nat
    BY Sizes, Products
  <1> QED
    BY <1>1, <1>2, <1>3, <1>4

\* Mild steps that charge nothing but what is lost keep the invariant.
LEMMA MildKept ==
  ASSUME TypeInv, TypeInv', SpendInv, Mild, Thrifty
  PROVE  SpendInv'
  <1>1. NoNewReference
    BY DEF Mild
  <1>2. OneHome'
    BY <1>1, HomeKept DEF SpendInv
  <1>3. InTurn'
    <2>1. \A o \in DOMAIN heap' : UnderWay(o)' # {} =>
            heap'[o].used + Cardinality(UnderWay(o)') <= Reach
      BY <1>1, TurnKept DEF SpendInv, Mild
    <2> QED
      BY <2>1 DEF InTurn
  <1>4. Covered'
    <2> SUFFICES ASSUME NEW c \in Clients
                 PROVE  db'[c].used + Cardinality(Left(c)') <= Capacity * Reach + unacked'
      BY DEF Covered, Capacity, Reach
    <2>1. \A o \in DOMAIN heap' : o \in DOMAIN heap /\ Spent(o)' = Spent(o) /\ Spent(o) \in Nat
      <3> TAKE o \in DOMAIN heap'
      <3>1. o \in DOMAIN heap
        BY <1>1, SameObjects
      <3>2. Spent(o)' = Spent(o)
        BY DEF Mild, Spent
      <3>3. Spent(o) \in Nat
        BY <3>1, MemoryTyped, UnderWayFinite DEF Spent
      <3> QED
        BY <3>1, <3>2, <3>3
    <2>2. \A o \in DOMAIN heap' : heap'[o] = heap[o]
      BY DEF Mild
    <2>3. Left(c)' \subseteq Left(c)
      BY <2>1, <2>2, LeftShrinks
    <2> QED
      BY <2>3, CoverKept DEF SpendInv, Thrifty
  <1> QED
    BY <1>2, <1>3, <1>4 DEF SpendInv

--------------------------------------------------------------------------------
(* The mild steps *)

\* An object that stays in memory is what was remembered.
LEMMA RememberHeap ==
  ASSUME NEW cc, NEW rr, NEW h, NEW cur, Remember(cc, rr, h, cur)
  PROVE  /\ cache' = cc /\ req' = rr
         /\ \A o \in DOMAIN heap' : heap'[o] = h[o]
  BY DEF Remember, Restrict

\* Ending a request that is not charged is mild.
LEMMA FinishMild ==
  ASSUME NEW r, NEW cc, NEW a, Finish(r, cc, a),
         r \in DOMAIN req => req[r].pc # "charged",
         \A w \in Workers, o \in Objs : Refers(cc, req, w, o) => Refers(cache, req, w, o)
  PROVE  Mild
  <1>1. /\ cache' = cc /\ req' = Drop(req, {r})
        /\ \A o \in DOMAIN heap' : heap'[o] = heap[o]
    BY RememberHeap DEF Finish
  <1>2. /\ DOMAIN req' = DOMAIN req \ {r}
        /\ \A q \in DOMAIN req' : req'[q] = req[q]
    BY <1>1 DEF Drop, Restrict
  <1>3. \A o : Charged(o)' = Charged(o) /\ UnderWay(o)' \subseteq UnderWay(o)
    BY <1>2 DEF Charged, UnderWay
  <1>4. NoNewReference
    <2> SUFFICES ASSUME NEW v \in Workers, NEW o \in Objs, Refers(cache', req', v, o)
                 PROVE  Refers(cache, req, v, o)
      BY DEF NoNewReference
    <2>1. CASE \E y \in DOMAIN cc[v] : cc[v][y].obj = o
      BY <2>1 DEF Refers
    <2>2. CASE \E y \in DOMAIN req' : req'[y].worker = v /\ req'[y].obj = o
      BY <1>2, <2>2 DEF Refers
    <2> QED
      BY <1>1, <2>1, <2>2 DEF Refers
  <1> QED
    BY <1>1, <1>3, <1>4 DEF Mild

\* The checks are mild: whoever passes them finds the counter below the limit.
LEMMA DecideMild ==
  ASSUME NEW r, NEW w, NEW k, NEW m, NEW x, NEW cc,
         Decide(r, w, k, m, x, cc),
         TypeInv, x \in DOMAIN heap,
         r \in DOMAIN req => req[r].pc # "charged",
         \A v \in Workers, o \in Objs : Refers(cc, req, v, o) => Refers(cache, req, v, o),
         Refers(cache, req, w, x)
  PROVE  Mild
  <1>1. CASE Verdict(heap[x], m) # "charge"
    BY <1>1, FinishMild DEF Decide
  <1>2. CASE Verdict(heap[x], m) = "charge"
    <2> PICK q : q = [pc |-> "charging", worker |-> w, key |-> k, metered |-> TRUE, obj |-> x]
      OBVIOUS
    <2>1. /\ cache' = cc /\ req' = Put(req, r, q)
          /\ \A o \in DOMAIN heap' : heap'[o] = heap[o]
      BY <1>2, RememberHeap DEF Decide
    <2>2. /\ DOMAIN req' = DOMAIN req \cup {r} /\ req'[r] = q
          /\ \A y \in DOMAIN req \ {r} : req'[y] = req[y]
      BY <2>1 DEF Put
    <2>3. q.pc = "charging" /\ q.worker = w /\ q.obj = x
      OBVIOUS
    <2>4. \A o : Charged(o)' = Charged(o)
      BY <2>2, <2>3 DEF Charged
    <2>5. \A o : o # x => UnderWay(o)' \subseteq UnderWay(o)
      BY <2>2, <2>3 DEF UnderWay
    <2>6. heap[x].used < heap[x].limit
      <3>1. heap[x].used \in Nat /\ heap[x].limit \in Nat
        BY MemoryTyped
      <3>2. ~(heap[x].used >= heap[x].limit)
        BY <1>2 DEF Verdict
      <3> QED
        BY <3>1, <3>2
    <2>7. NoNewReference
      <3> SUFFICES ASSUME NEW v \in Workers, NEW o \in Objs, Refers(cache', req', v, o)
                   PROVE  Refers(cache, req, v, o)
        BY DEF NoNewReference
      <3>1. CASE \E y \in DOMAIN cc[v] : cc[v][y].obj = o
        BY <3>1 DEF Refers
      <3>2. CASE \E y \in DOMAIN req' : req'[y].worker = v /\ req'[y].obj = o
        BY <2>2, <2>3, <3>2 DEF Refers
      <3> QED
        BY <2>1, <3>1, <3>2 DEF Refers
    <2> QED
      BY <2>1, <2>4, <2>5, <2>6, <2>7 DEF Mild
  <1> QED
    BY <1>1, <1>2

\* A step that leaves the requests alone and puts nothing into a cache is mild.
LEMMA QuietMild ==
  ASSUME req' = req,
         \A o \in DOMAIN heap' : heap'[o] = heap[o],
         \A w \in Workers, o \in Objs :
           (\E k \in DOMAIN cache'[w] : cache'[w][k].obj = o)
             => (\E k \in DOMAIN cache[w] : cache[w][k].obj = o)
  PROVE  Mild
  <1>1. \A o : Charged(o)' = Charged(o) /\ UnderWay(o)' = UnderWay(o)
    BY DEF Charged, UnderWay
  <1>2. NoNewReference
    BY DEF NoNewReference, Refers
  <1> QED
    BY <1>1, <1>2 DEF Mild

\* An invalidation leaves what it does not remove.
LEMMA InvalidatedLess ==
  ASSUME NEW w \in Workers, NEW k, CachesOK(cache), NEW v \in Workers
  PROVE  /\ DOMAIN Invalidated(w, k)[v] \subseteq DOMAIN cache[v]
         /\ \A x \in DOMAIN Invalidated(w, k)[v] : Invalidated(w, k)[v][x] = cache[v][x]
  BY DEF Invalidated, Drop, Restrict, CachesOK

\* An arriving request is mild.
LEMMA ArriveMild ==
  ASSUME TypeInv, NEW r \in Requests, Arrive(r)
  PROVE  Mild
  <1> PICK w \in Workers, k \in issued, m \in BOOLEAN :
             ArriveHit(r, w, k, m) \/ ArriveMiss(r, w, k, m)
    BY DEF Arrive
  <1>1. CASE ArriveHit(r, w, k, m)
    <2> PICK x : x = cache[w][k].obj
      OBVIOUS
    <2>1. Decide(r, w, k, m, x, cache) /\ r \notin DOMAIN req /\ k \in DOMAIN cache[w]
      BY <1>1 DEF ArriveHit, Live
    <2>2. Refers(cache, req, w, x)
      BY <2>1 DEF Refers
    <2>3. x \in DOMAIN heap
      <3>1. x \in Objs
        BY <2>1, MemoryTyped DEF CachesOK, Entry
      <3> QED
        BY <2>2, <3>1, MemoryTyped, ReferredBy
    <2> QED
      BY <2>1, <2>2, <2>3, DecideMild
  <1>2. CASE ArriveMiss(r, w, k, m)
    <2> PICK q : q = [pc |-> "selecting", worker |-> w, key |-> k, metered |-> m, obj |-> None]
      OBVIOUS
    <2>1. /\ cache' = Invalidated(w, k) /\ req' = Put(req, r, q) /\ r \notin DOMAIN req
          /\ \A o \in DOMAIN heap' : heap'[o] = heap[o]
      BY <1>2, RememberHeap DEF ArriveMiss
    <2>2. /\ DOMAIN req' = DOMAIN req \cup {r} /\ req'[r] = q
          /\ \A y \in DOMAIN req : req'[y] = req[y]
      BY <2>1 DEF Put
    <2>3. q.pc = "selecting" /\ q.obj = None /\ None \notin Objs
      BY ConstantsOK
    <2>4. \A o : Charged(o)' = Charged(o) /\ UnderWay(o)' = UnderWay(o)
      BY <2>1, <2>2, <2>3 DEF Charged, UnderWay
    <2>5. NoNewReference
      <3> SUFFICES ASSUME NEW v \in Workers, NEW o \in Objs, Refers(cache', req', v, o)
                   PROVE  Refers(cache, req, v, o)
        BY DEF NoNewReference
      <3>1. CASE \E y \in DOMAIN cache'[v] : cache'[v][y].obj = o
        BY <2>1, <3>1, MemoryTyped, InvalidatedLess DEF Refers
      <3>2. CASE \E y \in DOMAIN req' : req'[y].worker = v /\ req'[y].obj = o
        BY <2>2, <2>3, <3>2 DEF Refers
      <3> QED
        BY <3>1, <3>2 DEF Refers
    <2> QED
      BY <2>1, <2>4, <2>5 DEF Mild
  <1> QED
    BY <1>1, <1>2

\* Filling the cache after the SELECT is mild: the request holds the object.
LEMMA ResumeMild ==
  ASSUME TypeInv, NEW r \in Requests, Resume(r)
  PROVE  Mild
  <1> PICK q : q = req[r]
    OBVIOUS
  <1> PICK cc : cc = [cache EXCEPT ![q.worker] = Put(@, q.key, [obj |-> q.obj, ttl |-> TTL])]
    OBVIOUS
  <1>1. /\ r \in DOMAIN req /\ q.pc = "loaded"
        /\ Decide(r, q.worker, q.key, q.metered, q.obj, cc)
    BY DEF Resume
  <1>2. Refers(cache, req, q.worker, q.obj)
    BY <1>1 DEF Refers
  <1>3. q \in Request /\ q.worker \in Workers
    BY <1>1, MemoryTyped DEF RequestsOK, Request
  <1>4. q.obj \in Objs
    BY <1>1, <1>3 DEF TypeInv, RefsOK, Request
  <1>5. q.obj \in DOMAIN heap
    BY <1>2, <1>3, <1>4, MemoryTyped, ReferredBy
  <1>6. \A v \in Workers, o \in Objs : Refers(cc, req, v, o) => Refers(cache, req, v, o)
    <2> SUFFICES ASSUME NEW v \in Workers, NEW o \in Objs, Refers(cc, req, v, o)
                 PROVE  Refers(cache, req, v, o)
      OBVIOUS
    <2>1. CASE v # q.worker
      <3>1. cc[v] = cache[v]
        BY <1>3, <2>1, MemoryTyped DEF CachesOK
      <3> QED
        BY <3>1 DEF Refers
    <2>2. CASE v = q.worker
      <3>1. cc[v] = Put(cache[v], q.key, [obj |-> q.obj, ttl |-> TTL])
        BY <1>3, <2>2, MemoryTyped DEF CachesOK
      <3>2. \A y \in DOMAIN cc[v] : cc[v][y].obj = q.obj \/ (y \in DOMAIN cache[v] /\ cc[v][y] = cache[v][y])
        BY <3>1 DEF Put
      <3>3. CASE \E y \in DOMAIN cc[v] : cc[v][y].obj = o
        BY <1>2, <2>2, <3>2, <3>3 DEF Refers
      <3>4. CASE \E y \in DOMAIN req : req[y].worker = v /\ req[y].obj = o
        BY <3>4 DEF Refers
      <3> QED
        BY <3>3, <3>4 DEF Refers
    <2> QED
      BY <2>1, <2>2
  <1> QED
    BY <1>1, <1>2, <1>5, <1>6, DecideMild, ZenonT(60)

\* A worker that dies takes its objects with it: none of those that stay had a
\* request on it.
LEMMA CrashMild ==
  ASSUME TypeInv, TypeInv', OneHome, NEW w \in Workers, Crash(w)
  PROVE  Mild
  <1> PICK lost : lost = {r \in DOMAIN req : req[r].worker = w}
    OBVIOUS
  <1>1. /\ cache' = [cache EXCEPT ![w] = Restrict(@, {})] /\ req' = Drop(req, lost)
        /\ \A o \in DOMAIN heap' : heap'[o] = heap[o]
    BY RememberHeap DEF Crash
  <1>2. /\ DOMAIN req' = DOMAIN req \ lost
        /\ \A q \in DOMAIN req' : req'[q] = req[q]
    BY <1>1 DEF Drop, Restrict
  <1>3. /\ DOMAIN cache'[w] = {}
        /\ \A v \in Workers : v # w => cache'[v] = cache[v]
    BY <1>1, MemoryTyped DEF CachesOK, Restrict
  <1>4. NoNewReference
    BY <1>2, <1>3 DEF NoNewReference, Refers
  <1>5. \A o \in DOMAIN heap' : Charged(o)' = Charged(o) /\ UnderWay(o)' = UnderWay(o)
    <2> SUFFICES ASSUME NEW o \in DOMAIN heap', NEW r \in DOMAIN req, req[r].obj = o
                 PROVE  r \notin lost
      BY <1>2 DEF Charged, UnderWay
    <2> SUFFICES ASSUME req[r].worker = w PROVE FALSE
      OBVIOUS
    <2>1. o \in Objs /\ o \in Referenced(cache', req')
      BY MemoryTypedNext DEF HeapOK
    <2>2. PICK v \in Workers : Refers(cache', req', v, o)
      BY <2>1, MemoryTypedNext, ReferredBy
    <2>3. v # w
      BY <1>2, <1>3, <2>2 DEF Refers
    <2>4. Refers(cache, req, v, o)
      BY <1>4, <2>1, <2>2 DEF NoNewReference
    <2>5. Refers(cache, req, w, o)
      BY DEF Refers
    <2> QED
      BY <2>1, <2>3, <2>4, <2>5 DEF OneHome
  <1> QED
    BY <1>1, <1>4, <1>5 DEF Mild

--------------------------------------------------------------------------------
(* The charge, the increment and the load *)

\* A charge takes a unit from what its object can still spend.
LEMMA ChargeSpends ==
  ASSUME TypeInv, InTurn, NEW r \in Requests, Charge(r),
         NEW n, n = req[r].obj, NEW c, c = heap[n].client
  PROVE  /\ n \in DOMAIN heap /\ c \in Clients
         /\ db' = [db EXCEPT ![c].used = @ + 1]
         /\ heap' = heap /\ cache' = cache /\ unacked' = unacked
         /\ NoNewReference
         /\ \A o : UnderWay(o)' = UnderWay(o)
         /\ \A o \in DOMAIN heap : /\ Spent(o) \in Nat
                                   /\ Spent(o)' = IF o = n THEN Spent(o) + 1 ELSE Spent(o)
         /\ Spent(n) \in 0..Reach - 1
  <1>1. /\ r \in DOMAIN req /\ DOMAIN req' = DOMAIN req
        /\ req[r].pc = "charging" /\ req'[r].pc = "charged"
        /\ \A x \in DOMAIN req : req'[x].obj = req[x].obj /\ req'[x].worker = req[x].worker
        /\ \A x \in DOMAIN req \ {r} : req'[x] = req[x]
    BY DEF Charge, TypeInv, TypeOK, Request
  <1>2. /\ n \in DOMAIN heap /\ c \in Clients
        /\ db' = [db EXCEPT ![c].used = @ + 1]
        /\ heap' = heap /\ cache' = cache /\ unacked' = unacked
    BY <1>1, ClientOK DEF Charge, Client
  <1>3. /\ Charged(n)' = Charged(n) \cup {r} /\ r \notin Charged(n)
        /\ \A o : o # n => Charged(o)' = Charged(o)
        /\ \A o : UnderWay(o)' = UnderWay(o)
        /\ r \in UnderWay(n)
    BY <1>1 DEF Charged, UnderWay
  <1>4. NoNewReference
    BY <1>1, <1>2 DEF NoNewReference, Refers
  <1>5. \A o \in DOMAIN heap : Spent(o) \in Nat /\ Spent(o)' = IF o = n THEN Spent(o) + 1 ELSE Spent(o)
    <2> TAKE o \in DOMAIN heap
    <2>1. /\ heap[o].used \in Nat /\ Cardinality(Charged(o)) \in Nat
          /\ IsFiniteSet(Charged(o))
      BY MemoryTyped, UnderWayFinite
    <2>2. Cardinality(Charged(o)') = IF o = n THEN Cardinality(Charged(o)) + 1
                                              ELSE Cardinality(Charged(o))
      BY <1>3, <2>1, FS_AddElement
    <2> QED
      BY <1>2, <2>1, <2>2 DEF Spent
  <1>6. Spent(n) \in 0..Reach - 1
    <2>1. heap[n].used + Cardinality(UnderWay(n)) <= Reach
      BY <1>2, <1>3 DEF InTurn
    <2>2. /\ IsFiniteSet(UnderWay(n)) /\ Cardinality(UnderWay(n)) \in Nat
          /\ IsFiniteSet(Charged(n)) /\ Cardinality(Charged(n)) \in Nat
          /\ Charged(n) \cup {r} \subseteq UnderWay(n)
      BY <1>3, UnderWayFinite
    <2>3. Cardinality(Charged(n) \cup {r}) = Cardinality(Charged(n)) + 1
      BY <1>3, <2>2, FS_AddElement
    <2>4. Cardinality(Charged(n) \cup {r}) <= Cardinality(UnderWay(n))
      BY <2>2, FS_Subset
    <2>5. heap[n].used \in Nat
      BY <1>2, MemoryTyped
    <2> QED
      BY <2>1, <2>2, <2>3, <2>4, <2>5, Sizes DEF Spent
  <1> QED
    BY <1>2, <1>3, <1>4, <1>5, <1>6

\* A charge keeps the invariant: it takes the unit it charges from what its
\* object can still spend.
LEMMA SpendCharge ==
  ASSUME TypeInv, TypeInv', SpendInv, NEW r \in Requests, Charge(r)
  PROVE  SpendInv'
  <1> PICK n : n = req[r].obj
    OBVIOUS
  <1> PICK c : c = heap[n].client
    OBVIOUS
  <1>1. /\ n \in DOMAIN heap /\ c \in Clients
        /\ db' = [db EXCEPT ![c].used = @ + 1]
        /\ heap' = heap /\ cache' = cache /\ unacked' = unacked
        /\ NoNewReference
        /\ \A o : UnderWay(o)' = UnderWay(o)
        /\ \A o \in DOMAIN heap : /\ Spent(o) \in Nat
                                  /\ Spent(o)' = IF o = n THEN Spent(o) + 1 ELSE Spent(o)
        /\ Spent(n) \in 0..Reach - 1
    BY ChargeSpends DEF SpendInv
  <1>2. OneHome'
    BY <1>1, HomeKept DEF SpendInv
  <1>3. InTurn'
    BY <1>1 DEF SpendInv, InTurn, Reach
  <1>4. \A d \in Clients : Left(d)' \subseteq Left(d)
    <2>1. \A o \in DOMAIN heap : Spent(o)' >= Spent(o)
      BY <1>1
    <2> QED
      BY <1>1, <2>1, LeftShrinks
  <1>5. /\ db'[c].used = db[c].used + 1
        /\ \A d \in Clients \ {c} : db'[d] = db[d]
    BY <1>1, ChargedRow, MemoryTyped
  <1>6. ASSUME NEW d \in Clients
        PROVE  db'[d].used + Cardinality(Left(d)') <= Capacity * Reach + unacked'
    <2>1. CASE d # c
      <3>1. db'[d].used + unacked <= db[d].used + unacked'
        BY <1>1, <1>5, <2>1, MemoryTyped, SMTT(30)
      <3> QED
        BY <1>4, <3>1, CoverKept DEF SpendInv
    <2>2. CASE d = c
      <3>1. <<n, Spent(n)>> \in Left(c)
        BY <1>1 DEF Left
      <3>2. <<n, Spent(n)>> \notin Left(c)'
        <4>1. PICK i : i = Spent(n)
          OBVIOUS
        <4>2. ~(Spent(n)' <= i)
          BY <1>1, <4>1
        <4>3. <<n, i>> \notin Left(c)'
          BY <4>2 DEF Left
        <4> QED
          BY <4>1, <4>3
      <3>3. /\ IsFiniteSet(Left(c) \ {<<n, Spent(n)>>})
            /\ Cardinality(Left(c) \ {<<n, Spent(n)>>}) = Cardinality(Left(c)) - 1
        BY <3>1, LeftFinite, FS_RemoveElement
      <3>4. Left(c)' \subseteq Left(c) \ {<<n, Spent(n)>>}
        BY <1>1, <1>4, <3>2
      <3>5. Cardinality(Left(c)') <= Cardinality(Left(c)) - 1 /\ Cardinality(Left(c)') \in Nat
        BY <3>3, <3>4, FS_Subset, FS_CardinalityType
      <3>6. db[c].used + Cardinality(Left(c)) <= Capacity * Reach + unacked
        BY <1>1 DEF SpendInv, Covered
      <3>7. /\ db[c].used \in Nat /\ unacked \in Nat /\ Cardinality(Left(c)) \in Nat
            /\ Capacity * Reach \in Nat
        BY <1>1, MemoryTyped, LeftFinite, Sizes, Products
      <3> QED
        BY <1>1, <1>5, <2>2, <3>5, <3>6, <3>7, SMTT(90)
    <2> QED
      BY <2>1, <2>2
  <1>7. Covered'
    BY <1>6 DEF Covered, Capacity, Reach
  <1> QED
    BY <1>2, <1>3, <1>7 DEF SpendInv

\* The increment moves a unit from those in waiting to the counter.
LEMMA SettleSpends ==
  ASSUME TypeInv, TypeInv', NEW r \in Requests, Settle(r),
         NEW n, n = req[r].obj
  PROVE  /\ NoNewReference
         /\ \A o \in DOMAIN heap' :
              /\ o \in DOMAIN heap /\ heap[o].used \in Nat
              /\ heap'[o].client = heap[o].client
              /\ heap'[o].used = IF o = n THEN heap[o].used + 1 ELSE heap[o].used
              /\ Spent(o)' = Spent(o) /\ Spent(o) \in Nat
         /\ UnderWay(n)' = UnderWay(n) \ {r} /\ r \in UnderWay(n)
         /\ \A o : o # n => UnderWay(o)' = UnderWay(o)
         /\ db' = db /\ unacked' = unacked
  <1>1. /\ cache' = cache /\ req' = Drop(req, {r})
        /\ \A o \in DOMAIN heap' : heap'[o] = [heap EXCEPT ![n].used = @ + 1][o]
        /\ r \in DOMAIN req /\ req[r].pc = "charged"
        /\ db' = db /\ unacked' = unacked
    BY RememberHeap DEF Settle
  <1>2. /\ DOMAIN req' = DOMAIN req \ {r}
        /\ \A q \in DOMAIN req' : req'[q] = req[q]
    BY <1>1 DEF Drop, Restrict
  <1>3. NoNewReference
    BY <1>1, <1>2 DEF NoNewReference, Refers
  <1>4. \A o \in DOMAIN heap' :
          /\ o \in DOMAIN heap /\ heap[o].used \in Nat
          /\ heap'[o].client = heap[o].client
          /\ heap'[o].used = IF o = n THEN heap[o].used + 1 ELSE heap[o].used
    <2> TAKE o \in DOMAIN heap'
    <2>1. o \in DOMAIN heap
      BY <1>3, SameObjects
    <2>2. heap[o] \in View /\ heap[o].used \in Nat
      BY <2>1, MemoryTyped
    <2>3. CASE o = n
      <3>1. heap'[o] = [heap[o] EXCEPT !.used = @ + 1]
        BY <1>1, <2>1, <2>3
      <3> QED
        BY <2>1, <2>2, <2>3, <3>1 DEF View
    <2>4. CASE o # n
      BY <1>1, <2>1, <2>2, <2>4
    <2> QED
      BY <2>3, <2>4
  <1>5. /\ Charged(n)' = Charged(n) \ {r} /\ r \in Charged(n)
        /\ UnderWay(n)' = UnderWay(n) \ {r} /\ r \in UnderWay(n)
        /\ \A o : o # n => Charged(o)' = Charged(o) /\ UnderWay(o)' = UnderWay(o)
    BY <1>1, <1>2, SMTT(30) DEF Charged, UnderWay
  <1>6. \A o \in DOMAIN heap' : Spent(o)' = Spent(o) /\ Spent(o) \in Nat
    <2> TAKE o \in DOMAIN heap'
    <2>1. IsFiniteSet(Charged(o)) /\ Cardinality(Charged(o)) \in Nat
      BY UnderWayFinite
    <2>2. Cardinality(Charged(o)') = IF o = n THEN Cardinality(Charged(o)) - 1
                                              ELSE Cardinality(Charged(o))
      BY <1>5, <2>1, FS_RemoveElement
    <2> QED
      BY <1>4, <2>1, <2>2 DEF Spent
  <1> QED
    BY <1>1, <1>3, <1>4, <1>5, <1>6

\* It changes nothing in what is and can be charged.
LEMMA SpendSettle ==
  ASSUME TypeInv, TypeInv', SpendInv, NEW r \in Requests, Settle(r)
  PROVE  SpendInv'
  <1> PICK n : n = req[r].obj
    OBVIOUS
  <1>1. /\ NoNewReference
        /\ \A o \in DOMAIN heap' :
             /\ o \in DOMAIN heap /\ heap[o].used \in Nat
             /\ heap'[o].client = heap[o].client
             /\ heap'[o].used = IF o = n THEN heap[o].used + 1 ELSE heap[o].used
             /\ Spent(o)' = Spent(o) /\ Spent(o) \in Nat
        /\ UnderWay(n)' = UnderWay(n) \ {r} /\ r \in UnderWay(n)
        /\ \A o : o # n => UnderWay(o)' = UnderWay(o)
        /\ db' = db /\ unacked' = unacked
    BY SettleSpends
  <1>2. OneHome'
    BY <1>1, HomeKept DEF SpendInv
  <1>3. InTurn'
    <2> SUFFICES ASSUME NEW o \in DOMAIN heap', UnderWay(o)' # {}
                 PROVE  heap'[o].used + Cardinality(UnderWay(o)') <= Reach
      BY DEF InTurn, Reach
    <2>1. UnderWay(o) # {}
      BY <1>1
    <2>2. heap[o].used + Cardinality(UnderWay(o)) <= Reach
      BY <1>1, <2>1 DEF SpendInv, InTurn
    <2>3. IsFiniteSet(UnderWay(o)) /\ Cardinality(UnderWay(o)) \in Nat
      BY UnderWayFinite
    <2>4. CASE o = n
      <3>1. Cardinality(UnderWay(o)') = Cardinality(UnderWay(o)) - 1
        BY <1>1, <2>3, <2>4, FS_RemoveElement
      <3> QED
        BY <1>1, <2>2, <2>3, <2>4, <3>1, Sizes
    <2>5. CASE o # n
      BY <1>1, <2>2, <2>5
    <2> QED
      BY <2>4, <2>5
  <1>4. Covered'
    <2> SUFFICES ASSUME NEW c \in Clients
                 PROVE  db'[c].used + Cardinality(Left(c)') <= Capacity * Reach + unacked'
      BY DEF Covered, Capacity, Reach
    <2>1. Left(c)' \subseteq Left(c)
      BY <1>1, LeftShrinks
    <2>2. db'[c].used + unacked <= db[c].used + unacked'
      BY <1>1, MemoryTyped
    <2> QED
      BY <2>1, <2>2, CoverKept DEF SpendInv
  <1> QED
    BY <1>2, <1>3, <1>4 DEF SpendInv

\* A load brings one object, which says what its row says and which nothing
\* has been charged through yet.
LEMMA SelectLoads ==
  ASSUME TypeInv, TypeInv', NEW r \in Requests, SelectFound(r)
  PROVE  \E c \in Clients, n \in Objs \ DOMAIN heap :
           /\ db[c].key = req[r].key
           /\ \A w \in Workers, o \in Objs :
                Refers(cache', req', w, o) => Refers(cache, req, w, o) \/ (o = n /\ w = req[r].worker)
           /\ \A w \in Workers : ~Refers(cache, req, w, n)
           /\ n \in DOMAIN heap' /\ DOMAIN heap' \subseteq DOMAIN heap \cup {n}
           /\ \A o \in DOMAIN heap' :
                /\ o = n => heap'[o].client = c /\ heap'[o].used = db[c].used
                /\ o # n => /\ o \in DOMAIN heap /\ heap'[o] = heap[o]
                            /\ Spent(o)' = Spent(o) /\ Spent(o) \in Nat
           /\ \A o : o # n => Charged(o)' = Charged(o) /\ UnderWay(o)' = UnderWay(o)
           /\ UnderWay(n)' = {} /\ Spent(n)' = db[c].used
           /\ db' = db /\ unacked' = unacked /\ db[c].used \in Nat
  <1>0. PICK c \in Clients, n \in Objs \ DOMAIN heap :
             /\ db[c].key = req[r].key
             /\ Remember(cache,
                      [req EXCEPT ![r].pc = "loaded", ![r].obj = n],
                      Put(heap, n, [client |-> c, status |-> db[c].status,
                                    limit |-> db[c].limit, used |-> db[c].used,
                                    byok |-> db[c].byok]),
                      current \cup {n})
    BY DEF SelectFound
  <1>1. PICK view : view = [client |-> c, status |-> db[c].status, limit |-> db[c].limit,
                            used |-> db[c].used, byok |-> db[c].byok]
    OBVIOUS
  <1>2. view.client = c /\ view.used = db[c].used /\ db[c].used \in Nat
    BY <1>1, MemoryTyped
  <1>3. /\ cache' = cache
        /\ req' = [req EXCEPT ![r].pc = "loaded", ![r].obj = n]
        /\ \A o \in DOMAIN heap' : heap'[o] = Put(heap, n, view)[o]
    BY <1>0, <1>1, RememberHeap
  <1>4. /\ r \in DOMAIN req /\ DOMAIN req' = DOMAIN req
        /\ req'[r].obj = n /\ req'[r].worker = req[r].worker /\ req'[r].pc = "loaded"
        /\ req[r].pc = "selecting"
        /\ \A x \in DOMAIN req \ {r} : req'[x] = req[x]
    BY <1>3, MemoryTyped DEF SelectFound, RequestsOK, Request
  <1>5. db' = db /\ unacked' = unacked
    BY DEF SelectFound
  <1>6. \A w \in Workers, o \in Objs :
          Refers(cache', req', w, o) => Refers(cache, req, w, o) \/ (o = n /\ w = req[r].worker)
    BY <1>3, <1>4 DEF Refers
  <1>7. \A w \in Workers : ~Refers(cache, req, w, n)
    BY MemoryTyped, ReferredBy
  <1>8. n \in DOMAIN heap' /\ DOMAIN heap' \subseteq DOMAIN heap \cup {n}
    <2>1. Refers(cache', req', req[r].worker, n) /\ req[r].worker \in Workers
      BY <1>4, MemoryTyped DEF Refers, RequestsOK, Request
    <2>2. n \in DOMAIN heap'
      BY <2>1, MemoryTypedNext, ReferredBy
    <2>3. ASSUME NEW o \in DOMAIN heap', o # n PROVE o \in DOMAIN heap
      <3>1. o \in Objs
        BY MemoryTypedNext DEF HeapOK
      <3>2. PICK w \in Workers : Refers(cache', req', w, o)
        BY <3>1, MemoryTypedNext, ReferredBy
      <3>3. Refers(cache, req, w, o)
        BY <1>6, <2>3, <3>1, <3>2
      <3> QED
        BY <3>1, <3>3, MemoryTyped, ReferredBy
    <2> QED
      BY <2>2, <2>3
  <1>9. \A o \in DOMAIN heap' :
          /\ o = n => heap'[o].client = c /\ heap'[o].used = db[c].used
          /\ o # n => o \in DOMAIN heap /\ heap'[o] = heap[o]
    <2>1. \A o \in DOMAIN heap \cup {n} :
            Put(heap, n, view)[o] = IF o = n THEN view ELSE heap[o]
      BY DEF Put
    <2> QED
      BY <1>2, <1>3, <1>8, <2>1
  <1>10. /\ \A o : o # n => Charged(o)' = Charged(o) /\ UnderWay(o)' = UnderWay(o)
         /\ Charged(n)' = {} /\ UnderWay(n)' = {}
    <2>1. \A x \in DOMAIN req : req[x].obj # n
      BY MemoryTyped DEF Referenced
    <2> QED
      BY <1>4, <2>1 DEF Charged, UnderWay
  <1>11. \A o \in DOMAIN heap' : o # n => Spent(o)' = Spent(o) /\ Spent(o) \in Nat
    BY <1>9, <1>10, MemoryTyped, UnderWayFinite DEF Spent
  <1>12. Spent(n)' = db[c].used
    BY <1>2, <1>8, <1>9, <1>10, FS_EmptySet DEF Spent
  <1> QED
    BY <1>0, <1>2, <1>5, <1>6, <1>7, <1>8, <1>9, <1>10, <1>11, <1>12

\* A load brings the units the row has not seen yet, and takes the place of an
\* object: with it there are no more than Capacity.
LEMMA SpendSelect ==
  ASSUME TypeInv, TypeInv', SpendInv, NEW r \in Requests, SelectFound(r)
  PROVE  SpendInv'
  <1>1. PICK c \in Clients, n \in Objs \ DOMAIN heap :
             /\ \A w \in Workers, o \in Objs :
                  Refers(cache', req', w, o) => Refers(cache, req, w, o) \/ (o = n /\ w = req[r].worker)
             /\ \A w \in Workers : ~Refers(cache, req, w, n)
             /\ n \in DOMAIN heap' /\ DOMAIN heap' \subseteq DOMAIN heap \cup {n}
             /\ \A o \in DOMAIN heap' :
                  /\ o = n => heap'[o].client = c /\ heap'[o].used = db[c].used
                  /\ o # n => /\ o \in DOMAIN heap /\ heap'[o] = heap[o]
                              /\ Spent(o)' = Spent(o) /\ Spent(o) \in Nat
             /\ \A o : o # n => Charged(o)' = Charged(o) /\ UnderWay(o)' = UnderWay(o)
             /\ UnderWay(n)' = {} /\ Spent(n)' = db[c].used
             /\ db' = db /\ unacked' = unacked /\ db[c].used \in Nat
    BY SelectLoads
  <1>2. OneHome'
    <2> SUFFICES ASSUME NEW o \in Objs, NEW w \in Workers, NEW v \in Workers,
                        Refers(cache', req', w, o), Refers(cache', req', v, o)
                 PROVE  w = v
      BY DEF OneHome
    <2> QED
      BY <1>1 DEF SpendInv, OneHome
  <1>3. InTurn'
    <2> SUFFICES ASSUME NEW o \in DOMAIN heap', UnderWay(o)' # {}
                 PROVE  heap'[o].used + Cardinality(UnderWay(o)') <= Reach
      BY DEF InTurn, Reach
    <2>1. o # n
      BY <1>1
    <2>2. o \in DOMAIN heap /\ heap'[o] = heap[o] /\ UnderWay(o)' = UnderWay(o)
      BY <1>1, <2>1
    <2> QED
      BY <2>2 DEF SpendInv, InTurn
  <1>4. ASSUME NEW d \in Clients
         PROVE  db'[d].used + Cardinality(Left(d)') <= Capacity * Reach + unacked'
    <2>1. CASE d # c \/ db[c].used >= Reach
      <3>1. Left(d)' \subseteq Left(d)
        <4>1. CASE d # c
          BY <1>1, <4>1, LeftShrinks
        <4>2. CASE db[c].used >= Reach
          <5> SUFFICES ASSUME NEW t \in Left(d)' PROVE t \in Left(d)
            OBVIOUS
          <5>1. /\ t \in (DOMAIN heap') \X (0..Reach - 1)
                /\ heap'[t[1]].client = d
                /\ \A o : o = t[1] => Spent(o)' <= t[2]
            BY DEF Left
          <5>2. PICK o, i : t = <<o, i>> /\ o \in DOMAIN heap' /\ i \in 0..Reach - 1
            BY <5>1
          <5>3. heap'[o].client = d /\ Spent(o)' <= i
            BY <5>1, <5>2
          <5>4. o # n
            BY <1>1, <4>2, <5>2, <5>3, Sizes
          <5> QED
            BY <1>1, <5>2, <5>3, <5>4 DEF Left
        <4> QED
          BY <2>1, <4>1, <4>2
      <3> QED
        BY <1>1, <3>1, CoverKept, MemoryTyped DEF SpendInv
    <2>2. CASE d = c /\ db[c].used < Reach
      <3>1. PICK A : A = (DOMAIN heap' \ {n}) \X (0..Reach - 1)
        OBVIOUS
      <3>2. PICK B : B = {n} \X (db[c].used..Reach - 1)
        OBVIOUS
      <3>3. Left(c)' \subseteq A \cup B
        <4> SUFFICES ASSUME NEW t \in Left(c)' PROVE t \in A \cup B
          OBVIOUS
        <4>1. /\ t \in (DOMAIN heap') \X (0..Reach - 1)
              /\ \A o : o = t[1] => Spent(o)' <= t[2]
          BY DEF Left
        <4>2. PICK o, i : t = <<o, i>> /\ o \in DOMAIN heap' /\ i \in 0..Reach - 1
          BY <4>1
        <4>3. Spent(o)' <= i
          BY <4>1, <4>2
        <4>4. CASE o = n
          <5>1. i \in db[c].used..Reach - 1
            BY <1>1, <4>2, <4>3, <4>4, Sizes
          <5> QED
            BY <3>2, <4>2, <4>4, <5>1
        <4>5. CASE o # n
          BY <3>1, <4>2, <4>5
        <4> QED
          BY <4>4, <4>5
      <3>4. PICK m : m = Cardinality(DOMAIN heap' \ {n})
        OBVIOUS
      <3>5. IsFiniteSet(DOMAIN heap' \ {n}) /\ m \in Nat /\ m <= Capacity - 1
        <4>1. IsFiniteSet(DOMAIN heap') /\ Cardinality(DOMAIN heap') <= Capacity
          BY MemoryTypedNext, FewObjects
        <4>2. /\ IsFiniteSet(DOMAIN heap' \ {n})
              /\ m = Cardinality(DOMAIN heap') - 1
          BY <1>1, <3>4, <4>1, FS_RemoveElement
        <4>3. m \in Nat /\ Cardinality(DOMAIN heap') \in Nat
          BY <3>4, <4>1, <4>2, FS_CardinalityType
        <4> QED
          BY <4>1, <4>2, <4>3, Sizes
      <3>6. IsFiniteSet(A) /\ Cardinality(A) = m * Reach
        <4>1. IsFiniteSet(0..Reach - 1) /\ Cardinality(0..Reach - 1) = Reach
          BY Sizes, Intervals
        <4> QED
          BY <3>1, <3>4, <3>5, <4>1, FS_Product
      <3>7. IsFiniteSet(B) /\ Cardinality(B) = Reach - db[c].used
        <4>1. /\ IsFiniteSet(db[c].used..Reach - 1)
              /\ Cardinality(db[c].used..Reach - 1) = Reach - db[c].used
          BY <1>1, <2>2, Sizes, Intervals, SMTT(90)
        <4> QED
          BY <3>2, <4>1, Column
      <3>8. /\ IsFiniteSet(A \cup B)
            /\ Cardinality(A \cup B) <= Cardinality(A) + Cardinality(B)
        <4>1. /\ IsFiniteSet(A \cup B)
              /\ Cardinality(A \cup B) = Cardinality(A) + Cardinality(B) - Cardinality(A \cap B)
          BY <3>6, <3>7, FS_Union
        <4>2. Cardinality(A \cap B) \in Nat /\ Cardinality(A) \in Nat /\ Cardinality(B) \in Nat
          BY <3>6, <3>7, FS_Subset, FS_CardinalityType
        <4> QED
          BY <4>1, <4>2
      <3>9. Cardinality(Left(c)') <= m * Reach + (Reach - db[c].used) /\ Cardinality(Left(c)') \in Nat
        <4>1. /\ Cardinality(Left(c)') <= Cardinality(A \cup B)
              /\ Cardinality(Left(c)') \in Nat /\ Cardinality(A \cup B) \in Nat
          BY <3>3, <3>8, FS_Subset, FS_CardinalityType
        <4>2. m * Reach \in Nat
          BY <3>5, Sizes, Products
        <4> QED
          BY <1>1, <3>6, <3>7, <3>8, <4>1, <4>2, Sizes
      <3>10. m * Reach + Reach <= Capacity * Reach
        <4>1. /\ m * Reach \in Nat /\ (Capacity - 1) * Reach \in Nat /\ Capacity * Reach \in Nat
              /\ m * Reach <= (Capacity - 1) * Reach
              /\ (Capacity - 1) * Reach + Reach = Capacity * Reach
          <5>1. Capacity - 1 \in Nat
            BY Sizes
          <5> QED
            BY <3>5, <5>1, Sizes, Products
        <4> QED
          BY <4>1, Sizes
      <3>11. /\ unacked \in Nat /\ m * Reach \in Nat /\ Capacity * Reach \in Nat
        BY <3>5, MemoryTyped, Sizes, Products
      <3> QED
        BY <1>1, <2>2, <3>9, <3>10, <3>11, Sizes
    <2> QED
      BY <1>1, <2>1, <2>2, Sizes
  <1>5. Covered'
    BY <1>4 DEF Covered, Capacity, Reach
  <1> QED
    BY <1>2, <1>3, <1>5 DEF SpendInv

--------------------------------------------------------------------------------
(* The bound *)

\* No event raises a counter.
LEMMA AppliedLess ==
  ASSUME NEW e \in Events, NEW row \in Row
  PROVE  Applied(e, row).used <= row.used
  BY ConstantsOK DEF Applied, Row, EventType

\* A lost acknowledgement pays for its unit.
LEMMA MildUnacked ==
  ASSUME TypeInv, TypeInv', NEW r \in Requests, ChargeUnacked(r)
  PROVE  Mild /\ Thrifty
  <1>1. Finish(r, cache, "error") /\ req[r].pc # "charged" /\ unacked' = unacked + 1
    BY DEF ChargeUnacked
  <1>2. Mild
    BY <1>1, FinishMild
  <1>3. PICK c \in Clients : db' = [db EXCEPT ![c].used = @ + 1]
    BY ClientOK DEF ChargeUnacked
  <1>4. \A d \in Clients : db'[d].used <= db[d].used + 1
    BY <1>3, ChargedRow, MemoryTyped
  <1>5. \A d \in Clients : db'[d].used + unacked <= db[d].used + unacked'
    BY <1>1, <1>4, MemoryTyped, MemoryTypedNext
  <1> QED
    BY <1>2, <1>5 DEF Thrifty

\* Steps of requests that neither load, charge nor increment are mild and thrifty.
LEMMA MildRequest ==
  ASSUME TypeInv, TypeInv', NEW r \in Requests, Arrive(r) \/ RequestStep(r),
         ~SelectFound(r), ~Charge(r), ~Settle(r)
  PROVE  Mild /\ Thrifty
  <1>1. CASE Arrive(r) \/ Resume(r) \/ SelectNone(r) \/ DbError(r)
    <2>1. Mild
      <3>1. CASE SelectNone(r) \/ DbError(r)
        BY <3>1, FinishMild DEF SelectNone, DbError
      <3> QED
        BY <1>1, <3>1, ArriveMild, ResumeMild
    <2>2. UNCHANGED <<db, unacked>>
      BY <1>1 DEF Arrive, ArriveHit, ArriveMiss, Resume, SelectNone, DbError
    <2>3. \A c \in Clients : db'[c].used + unacked <= db[c].used + unacked'
      BY <2>2, MemoryTyped
    <2> QED
      BY <2>1, <2>3 DEF Thrifty
  <1> QED
    BY <1>1, MildUnacked DEF RequestStep

\* So is every step of a call.
LEMMA MildCall ==
  ASSUME TypeInv, TypeInv', NEW p \in Calls, CallStart(p) \/ CallStep(p)
  PROVE  Mild /\ Thrifty
  <1>1. CASE EventUpdate(p) \/ RegenerateInvalidate(p)
    <2>1. PICK w, k : w = call[p].worker /\ k = call[p].key
      OBVIOUS
    <2>2. w \in Workers
      BY <1>1, <2>1, CallFields DEF EventUpdate, RegenerateInvalidate
    <2>3. Remember(Invalidated(w, k), req, heap, current) /\ UNCHANGED <<db, unacked>>
      BY <1>1, <2>1 DEF EventUpdate, RegenerateInvalidate
    <2>4. /\ cache' = Invalidated(w, k) /\ req' = req
          /\ \A o \in DOMAIN heap' : heap'[o] = heap[o]
      BY <2>3, RememberHeap
    <2>5. Mild
      <3>1. \A v \in Workers : /\ DOMAIN cache'[v] \subseteq DOMAIN cache[v]
                               /\ \A x \in DOMAIN cache'[v] : cache'[v][x] = cache[v][x]
        BY <2>2, <2>4, MemoryTyped, InvalidatedLess
      <3> QED
        BY <2>4, <3>1, QuietMild
    <2>6. \A c \in Clients : db'[c].used + unacked <= db[c].used + unacked'
      BY <2>3, MemoryTyped
    <2> QED
      BY <2>5, <2>6 DEF Thrifty
  <1>2. CASE ~(EventUpdate(p) \/ RegenerateInvalidate(p))
    <2>1. UNCHANGED <<cache, heap, req, unacked>>
      BY <1>2 DEF CallStart, EventSelect, RegenerateRead, CallStep, EventCommit, EventAbort,
                  RegenerateCommit, RegenerateError, RegenerateUnacked
    <2>2. Mild
      BY <2>1, QuietMild
    <2>3. \A c \in Clients : db'[c].used <= db[c].used
      <3>1. CASE EventCommit(p)
        <4>1. PICK c, e : c = call[p].client /\ e = call[p].event
          OBVIOUS
        <4>2. c \in Clients /\ e \in Events /\ db' = [db EXCEPT ![c] = Applied(e, @)]
          BY <3>1, <4>1, CallFields DEF EventCommit
        <4>3. db'[c] = Applied(e, db[c]) /\ \A d \in Clients \ {c} : db'[d] = db[d]
          BY <4>2, MemoryTyped
        <4>4. db'[c].used <= db[c].used
          BY <4>2, <4>3, MemoryTyped, AppliedLess
        <4> QED
          BY <4>3, <4>4, MemoryTyped
      <3>2. CASE RegenerateCommit(p) \/ RegenerateUnacked(p)
        <4>1. PICK k : db' = [db EXCEPT ![call[p].client].key = k]
          BY <3>2 DEF RegenerateCommit, RegenerateUnacked
        <4>2. \A c \in Clients : db'[c].used = db[c].used
          BY <4>1, MemoryTyped DEF Row
        <4> QED
          BY <4>2, MemoryTyped
      <3>3. CASE CallStart(p) \/ EventAbort(p) \/ RegenerateError(p)
        <4>1. db' = db
          BY <3>3 DEF CallStart, EventSelect, RegenerateRead, EventAbort, RegenerateError
        <4> QED
          BY <4>1, MemoryTyped
      <3> QED
        BY <1>2, <3>1, <3>2, <3>3 DEF CallStep
    <2>4. \A c \in Clients : db'[c].used + unacked <= db[c].used + unacked'
      BY <2>1, <2>3, MemoryTyped, MemoryTypedNext
    <2> QED
      BY <2>2, <2>4 DEF Thrifty
  <1> QED
    BY <1>1, <1>2

\* All steps but loads, charges and increments are mild and thrifty.
LEMMA MildNext ==
  ASSUME TypeInv, TypeInv', OneHome, [Next]_vars,
         ~\E r \in Requests : SelectFound(r) \/ Charge(r) \/ Settle(r)
  PROVE  Mild /\ Thrifty
  <1>1. CASE \E c \in Clients, b \in BOOLEAN : PutByok(c, b)
    <2>1. PICK c \in Clients, b \in BOOLEAN : PutByok(c, b)
      BY <1>1
    <2>2. Mild
      BY <2>1, QuietMild DEF PutByok
    <2>3. \A d \in Clients : db'[d].used = db[d].used
      BY <2>1, MemoryTyped DEF PutByok, Row
    <2>4. unacked' = unacked
      BY <2>1 DEF PutByok
    <2>5. \A d \in Clients : db'[d].used + unacked <= db[d].used + unacked'
      BY <2>3, <2>4, MemoryTyped
    <2> QED
      BY <2>2, <2>5 DEF Thrifty
  <1>2. CASE Tick
    <2>1. UNCHANGED <<db, heap, req, unacked>>
      BY <1>2 DEF Tick
    <2>2. \A w \in Workers : /\ DOMAIN cache'[w] = DOMAIN cache[w]
                             /\ \A k \in DOMAIN cache[w] : cache'[w][k].obj = cache[w][k].obj
      <3> SUFFICES ASSUME NEW w \in Workers
                   PROVE  /\ DOMAIN cache'[w] = DOMAIN cache[w]
                          /\ \A k \in DOMAIN cache[w] : cache'[w][k].obj = cache[w][k].obj
        OBVIOUS
      <3>1. /\ DOMAIN cache'[w] = DOMAIN cache[w]
            /\ \A k \in DOMAIN cache[w] : cache'[w][k] = [cache[w][k] EXCEPT !.ttl = IF @ = 0 THEN 0 ELSE @ - 1]
        BY <1>2 DEF Tick
      <3>2. \A k \in DOMAIN cache[w] : cache[w][k] \in Entry
        BY MemoryTyped DEF CachesOK
      <3> QED
        BY <3>1, <3>2 DEF Entry
    <2>3. Mild
      BY <2>1, <2>2, QuietMild
    <2>4. \A c \in Clients : db'[c].used + unacked <= db[c].used + unacked'
      BY <2>1, MemoryTyped
    <2> QED
      BY <2>3, <2>4 DEF Thrifty
  <1>3. CASE \E w \in Workers : Crash(w)
    <2>1. PICK w \in Workers : Crash(w)
      BY <1>3
    <2>2. Mild
      BY <2>1, CrashMild
    <2>3. UNCHANGED <<db, unacked>>
      BY <2>1 DEF Crash
    <2>4. \A c \in Clients : db'[c].used + unacked <= db[c].used + unacked'
      BY <2>3, MemoryTyped
    <2> QED
      BY <2>2, <2>4 DEF Thrifty
  <1>4. CASE UNCHANGED vars
    <2>1. UNCHANGED <<db, cache, heap, req, unacked>>
      BY <1>4 DEF vars
    <2>2. Mild
      BY <2>1, QuietMild
    <2>3. \A c \in Clients : db'[c].used + unacked <= db[c].used + unacked'
      BY <2>1, MemoryTyped
    <2> QED
      BY <2>2, <2>3 DEF Thrifty
  <1> QED
    BY <1>1, <1>2, <1>3, <1>4, MildRequest, MildCall DEF Next

\* Every step keeps the invariant.
LEMMA SpendNext == TypeInv /\ TypeInv' /\ SpendInv /\ [Next]_vars => SpendInv'
  <1> SUFFICES ASSUME TypeInv, TypeInv', SpendInv, [Next]_vars PROVE SpendInv'
    OBVIOUS
  <1>1. CASE \E r \in Requests : SelectFound(r) \/ Charge(r) \/ Settle(r)
    BY <1>1, SpendSelect, SpendCharge, SpendSettle
  <1>2. CASE ~\E r \in Requests : SelectFound(r) \/ Charge(r) \/ Settle(r)
    BY <1>2, MildNext, MildKept DEF SpendInv
  <1> QED
    BY <1>1, <1>2

\* At the start nothing is charged and nothing is in memory.
LEMMA SpendInit == Init => SpendInv
  <1> SUFFICES ASSUME Init PROVE SpendInv
    OBVIOUS
  <1>1. TypeInv
    BY TypeInit
  <1>2. /\ DOMAIN heap = {} /\ DOMAIN req = {} /\ unacked = 0
        /\ \A w \in Workers : DOMAIN cache[w] = {}
    BY DEF Init
  <1>3. \A c \in Clients : db[c].used = 0
    BY DEF Init
  <1>4. OneHome
    BY <1>2 DEF OneHome, Refers
  <1>5. InTurn
    BY <1>2 DEF InTurn
  <1>6. Covered
    <2>1. \A c : Left(c) = {}
      BY <1>2 DEF Left
    <2>2. Capacity * Reach \in Nat
      BY Sizes, Products
    <2>3. \A c : Cardinality(Left(c)) = 0
      BY <2>1, FS_EmptySet
    <2> QED
      BY <1>2, <1>3, <2>2, <2>3 DEF Covered
  <1> QED
    BY <1>4, <1>5, <1>6 DEF SpendInv

\* The invariant gives the bound: what can still be spent is not negative.
LEMMA SpendBounds == TypeInv /\ SpendInv => OverdraftBounded
  <1> SUFFICES ASSUME TypeInv, SpendInv, NEW c \in Clients
               PROVE  db[c].used <= Capacity * Reach + unacked
    BY DEF OverdraftBounded, Capacity, Reach
  <1>1. db[c].used + Cardinality(Left(c)) <= Capacity * Reach + unacked
    BY DEF SpendInv, Covered
  <1>2. /\ db[c].used \in Nat /\ unacked \in Nat /\ Cardinality(Left(c)) \in Nat
        /\ Capacity * Reach \in Nat
    BY MemoryTyped, LeftFinite, Sizes, Products
  <1> QED
    BY <1>1, <1>2

\* The overdraft is bounded, whatever the number of workers, keys, requests and
\* events: the cached counters of api_key_auth.py:120 let an account pass its
\* quota, but only as far as the objects in memory reach.
THEOREM Overdraft == Spec => []OverdraftBounded
  <1>1. Spec => []TypeInv
    BY TypeCorrect
  <1>2. TypeInv /\ TypeInv' /\ SpendInv /\ [Next]_vars => SpendInv'
    BY SpendNext
  <1> QED
    BY <1>1, <1>2, SpendInit, SpendBounds, PTL DEF Spec
================================================================================
