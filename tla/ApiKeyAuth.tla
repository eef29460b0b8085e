------------------------------ MODULE ApiKeyAuth -------------------------------
(***************************************************************************)
(* API-key authentication and quota metering.                              *)
(*                                                                         *)
(* gunicorn runs several worker processes over one PostgreSQL database.    *)
(* Each worker keeps a 30-second cache from key hash to a loaded           *)
(* ClientModel OBJECT; requests on a worker that hit the cache share the   *)
(* object and its counter.  Handlers are coroutines: a step of the model   *)
(* is what a coroutine does between two awaits, so steps of requests,      *)
(* webhooks and dashboard calls interleave on a worker and across workers. *)
(*                                                                         *)
(* The model joins _authenticate_and_meter (api_key_auth.py) with the code *)
(* that writes the columns it reads: the subscription webhooks             *)
(* (billing_router.py), key regeneration and BYOK (auth_router.py).        *)
(***************************************************************************)
EXTENDS Integers, FiniteSets, Functions

CONSTANTS
  Workers,     \* worker processes
  Clients,     \* rows of the clients table
  Keys,        \* API key hashes that may ever be issued
  Requests,    \* slots for concurrent API requests, each reused
  Calls,       \* slots for concurrent webhook deliveries and dashboard calls
  Objs,        \* identities of ClientModel objects in worker memory
  TTL,         \* _CACHE_TTL_SECONDS, in ticks of the clock
  Limits,      \* monthly limits of the plans
  FreeLimit,   \* the limit a new account gets
  Statuses,    \* subscription statuses
  Events,      \* the webhook events that are delivered
  KeyRotation, \* whether dashboard users regenerate keys
  KeyUnacked,  \* whether the commit of a new key may lose its acknowledgement
  MaxUnacked,  \* bound: charges whose acknowledgement may be lost
  Byok,        \* whether dashboard users set and remove BYOK
  None

\* The events the two webhook receivers dispatch, after the mapping of
\* product and variant names to a plan.
EventType == [type : {"activate", "update_plan"}, limit : Limits]
        \cup [type : {"set_status"}, status : Statuses]
        \cup [type : {"reactivate"}]

ASSUME ConstantsOK ==
  /\ IsFiniteSet(Requests) /\ Requests # {}
  /\ IsFiniteSet(Workers) /\ IsFiniteSet(Keys)
  /\ TTL \in Nat \ {0}
  /\ Limits \subseteq Nat
  /\ \E top \in Limits : \A l \in Limits : l <= top
  /\ FreeLimit \in Limits
  /\ "ACTIVE" \in Statuses
  /\ Events \subseteq EventType
  /\ KeyRotation \in BOOLEAN
  /\ KeyUnacked \in BOOLEAN
  /\ Byok \in BOOLEAN
  /\ MaxUnacked \in Nat
  /\ None \notin Objs \cup Calls

VARIABLES
  db,       \* the committed rows
  lock,     \* the call that holds a row's lock, or None
  issued,   \* every key hash issued so far
  cache,    \* _client_cache of each worker: key hash -> object, ttl left
  heap,     \* the objects some cache entry or request refers to
  req,      \* the requests in flight
  answer,   \* the outcome of the last request of each slot
  call,     \* the webhook deliveries and dashboard calls in flight
  current,  \* auxiliary: objects loaded since the last reset or plan change
  unacked   \* auxiliary: charges whose acknowledgement was lost so far

vars == <<db, lock, issued, cache, heap, req, answer, call, current, unacked>>

Row == [key : Keys, status : Statuses, limit : Limits, used : Nat, byok : BOOLEAN]

\* The columns of a loaded object that the handler reads.
View == [client : Clients, status : Statuses, limit : Limits, used : Nat, byok : BOOLEAN]

Entry == [obj : Objs, ttl : 0..TTL]

Phases == {"selecting", "loaded", "charging", "charged"}

Request == [pc : Phases, worker : Workers, key : Keys, metered : BOOLEAN,
            obj : Objs \cup {None}]

Call == [pc : {"selected", "updated"}, worker : Workers, client : Clients,
         key : Keys, event : Events]
   \cup [pc : {"read", "committed"}, worker : Workers, client : Clients, key : Keys]

Answers == {"none", "admitted", "exempt", "forbidden", "exhausted", "error", "lost"}

TypeOK ==
  /\ db \in [Clients -> Row]
  /\ lock \in [Clients -> Calls \cup {None}]
  /\ issued \subseteq Keys
  /\ DOMAIN cache = Workers
  /\ \A w \in Workers : /\ DOMAIN cache[w] \subseteq Keys
                        /\ \A k \in DOMAIN cache[w] : cache[w][k] \in Entry
  /\ DOMAIN heap \subseteq Objs
  /\ \A o \in DOMAIN heap : heap[o] \in View
  /\ DOMAIN req \subseteq Requests
  /\ \A r \in DOMAIN req : req[r] \in Request
  /\ answer \in [Requests -> Answers]
  /\ DOMAIN call \subseteq Calls
  /\ \A p \in DOMAIN call : call[p] \in Call
  /\ current \subseteq DOMAIN heap
  /\ unacked \in 0..MaxUnacked

--------------------------------------------------------------------------------
(* Finite maps: a Python dict is a function on the keys it holds. *)

Put(f, x, v) == [y \in DOMAIN f \cup {x} |-> IF y = x THEN v ELSE f[y]]
Drop(f, S) == Restrict(f, DOMAIN f \ S)

(* Worker memory.  An object lives while a cache entry or a request refers
   to it (reference counting); the others leave the heap. *)

Referenced(cc, rr) ==
  {o \in Objs : \/ \E w \in Workers : \E k \in DOMAIN cc[w] : cc[w][k].obj = o
                \/ \E r \in DOMAIN rr : rr[r].obj = o}

\* The next caches and requests, over the objects h of which cur are current.
Remember(cc, rr, h, cur) ==
  /\ cache' = cc
  /\ req' = rr
  /\ heap' = Restrict(h, Referenced(cc, rr))
  /\ current' = cur \cap Referenced(cc, rr)

\* Bug: an entry is served for as long as it is there.
LiveForever(w, k) == k \in DOMAIN cache[w]

Live(w, k) == k \in DOMAIN cache[w] /\ cache[w][k].ttl > 0

\* invalidate_cache(key_hash) in the process of worker w, and only there.
Invalidated(w, k) == [cache EXCEPT ![w] = Drop(@, {k})]

--------------------------------------------------------------------------------
(* Requests *)

\* The checks between having the object and the charge, in their order.
Verdict(view, metered) ==
  CASE view.status # "ACTIVE"                -> "forbidden"
    [] view.status = "ACTIVE" /\ ~metered /\ view.byok -> "exempt"
    [] OTHER -> IF view.used >= view.limit THEN "exhausted" ELSE "charge"

Finish(r, cc, a) ==
  /\ answer' = [answer EXCEPT ![r] = a]
  /\ Remember(cc, Drop(req, {r}), heap, current)

\* Request r on worker w has object o, in caches cc: refuse, exempt or charge.
Decide(r, w, k, m, o, cc) ==
  LET v == Verdict(heap[o], m)
  IN \/ v # "charge" /\ Finish(r, cc, v)
     \/ /\ v = "charge"
        /\ answer' = [answer EXCEPT ![r] = "none"]
        /\ Remember(cc, Put(req, r, [pc |-> "charging", worker |-> w, key |-> k,
                                     metered |-> TRUE, obj |-> o]), heap, current)

\* A hit: no await between the lookup and the charge.
ArriveHit(r, w, k, m) ==
  /\ r \notin DOMAIN req
  /\ Live(w, k)
  /\ Decide(r, w, k, m, cache[w][k].obj, cache)
  /\ UNCHANGED <<db, lock, issued, call, unacked>>

\* A miss: an expired entry is deleted, the SELECT is awaited.  Where no client
\* has BYOK the two kinds of endpoint do the same, and one is enough.
ArriveMiss(r, w, k, m) ==
  /\ r \notin DOMAIN req
  /\ m \/ Byok
  /\ ~Live(w, k)
  /\ answer' = [answer EXCEPT ![r] = "none"]
  /\ Remember(Invalidated(w, k),
              Put(req, r, [pc |-> "selecting", worker |-> w, key |-> k,
                           metered |-> m, obj |-> None]), heap, current)
  /\ UNCHANGED <<db, lock, issued, call, unacked>>

\* The SELECT reads the committed row that has the key, if there is one.
SelectFound(r) ==
  /\ r \in DOMAIN req /\ req[r].pc = "selecting"
  /\ \E c \in Clients, o \in Objs \ DOMAIN heap :
       /\ db[c].key = req[r].key
       /\ Remember(cache,
                   [req EXCEPT ![r].pc = "loaded", ![r].obj = o],
                   Put(heap, o, [client |-> c, status |-> db[c].status,
                                 limit |-> db[c].limit, used |-> db[c].used,
                                 byok |-> db[c].byok]),
                   current \cup {o})
  /\ UNCHANGED <<db, lock, issued, answer, call, unacked>>

\* Bug: what the SELECT returned is cached before the check for None.
SelectNoneCached(r) ==
  /\ r \in DOMAIN req /\ req[r].pc = "selecting"
  /\ \A c \in Clients : db[c].key # req[r].key
  /\ Finish(r, [cache EXCEPT ![req[r].worker] =
                  Put(@, req[r].key, [obj |-> None, ttl |-> TTL])], "forbidden")
  /\ UNCHANGED <<db, lock, issued, call, unacked>>

SelectNone(r) ==
  /\ r \in DOMAIN req /\ req[r].pc = "selecting"
  /\ \A c \in Clients : db[c].key # req[r].key
  /\ Finish(r, cache, "forbidden")
  /\ UNCHANGED <<db, lock, issued, call, unacked>>

\* The session is closed: _set_cached overwrites whatever entry is there now.
Resume(r) ==
  /\ r \in DOMAIN req /\ req[r].pc = "loaded"
  /\ LET q == req[r]
         cc == [cache EXCEPT ![q.worker] = Put(@, q.key, [obj |-> q.obj, ttl |-> TTL])]
     IN Decide(r, q.worker, q.key, q.metered, q.obj, cc)
  /\ UNCHANGED <<db, lock, issued, call, unacked>>

Client(r) == heap[req[r].obj].client

\* UPDATE ... SET used = used + 1, in a transaction of its own.  It waits for
\* the row lock, and adds to the committed value whatever the object says.
Charge(r) ==
  /\ r \in DOMAIN req /\ req[r].pc = "charging"
  /\ lock[Client(r)] = None
  /\ db' = [db EXCEPT ![Client(r)].used = @ + 1]
  /\ req' = [req EXCEPT ![r].pc = "charged"]
  /\ UNCHANGED <<lock, issued, cache, heap, answer, call, current, unacked>>

\* Bug: the cached object is not brought up to date.
SettleInDbOnly(r) ==
  /\ r \in DOMAIN req /\ req[r].pc = "charged"
  /\ Finish(r, cache, "admitted")
  /\ UNCHANGED <<db, lock, issued, call, unacked>>

\* Bug: the request puts the object it has updated back into the cache.
SettleRemembers(r) ==
  /\ r \in DOMAIN req /\ req[r].pc = "charged"
  /\ answer' = [answer EXCEPT ![r] = "admitted"]
  /\ Remember([cache EXCEPT ![req[r].worker] =
                 Put(@, req[r].key, [obj |-> req[r].obj, ttl |-> TTL])],
              Drop(req, {r}), [heap EXCEPT ![req[r].obj].used = @ + 1], current)
  /\ UNCHANGED <<db, lock, issued, call, unacked>>

\* The coroutine resumes after the commit: the shared object catches up.
Settle(r) ==
  /\ r \in DOMAIN req /\ req[r].pc = "charged"
  /\ answer' = [answer EXCEPT ![r] = "admitted"]
  /\ Remember(cache, Drop(req, {r}),
              [heap EXCEPT ![req[r].obj].used = @ + 1], current)
  /\ UNCHANGED <<db, lock, issued, call, unacked>>

\* Bug: a charge that failed is counted in the cached object.
DbErrorCounts(r) ==
  /\ r \in DOMAIN req /\ req[r].pc \in {"selecting", "charging"}
  /\ answer' = [answer EXCEPT ![r] = "error"]
  /\ Remember(cache, Drop(req, {r}),
              [o \in DOMAIN heap |-> IF o = req[r].obj
                                       THEN [heap[o] EXCEPT !.used = @ + 1]
                                       ELSE heap[o]], current)
  /\ UNCHANGED <<db, lock, issued, call, unacked>>

\* The database call raises before it had an effect: the caller gets a 500.
DbError(r) ==
  /\ r \in DOMAIN req /\ req[r].pc \in {"selecting", "charging"}
  /\ Finish(r, cache, "error")
  /\ UNCHANGED <<db, lock, issued, call, unacked>>

\* The charge commits but its acknowledgement is lost.
ChargeUnacked(r) ==
  /\ r \in DOMAIN req /\ req[r].pc = "charging"
  /\ lock[Client(r)] = None
  /\ db' = [db EXCEPT ![Client(r)].used = @ + 1]
  /\ unacked < MaxUnacked
  /\ unacked' = unacked + 1
  /\ Finish(r, cache, "error")
  /\ UNCHANGED <<lock, issued, call>>

--------------------------------------------------------------------------------
(* Subscription webhooks: one transaction each, SELECT, UPDATE, COMMIT. *)

\* Bug: every event gives the client a new month.
AppliedAnew(e, row) ==
  CASE e.type = "activate"    -> [row EXCEPT !.status = "ACTIVE",
                                             !.limit = e.limit, !.used = 0]
    [] e.type = "update_plan" -> [row EXCEPT !.limit = e.limit]
    [] e.type = "set_status"  -> [row EXCEPT !.status = e.status]
    [] e.type = "reactivate"  -> [row EXCEPT !.status = "ACTIVE", !.used = 0]

\* The row after an event.
Applied(e, row) ==
  CASE e.type = "activate"    -> [row EXCEPT !.status = "ACTIVE",
                                             !.limit = e.limit, !.used = 0]
    [] e.type = "update_plan" -> [row EXCEPT !.limit = e.limit]
    [] e.type = "set_status"  -> [row EXCEPT !.status = e.status]
    [] e.type = "reactivate"  -> [row EXCEPT !.status = "ACTIVE"]

EventSelect(p, w, c, e) ==
  /\ p \notin DOMAIN call
  /\ call' = Put(call, p, [pc |-> "selected", worker |-> w, client |-> c,
                           key |-> db[c].key, event |-> e])
  /\ UNCHANGED <<db, lock, issued, cache, heap, req, answer, current, unacked>>

\* The UPDATE takes the row lock; the cache entry goes BEFORE the commit.
EventUpdate(p) ==
  /\ p \in DOMAIN call /\ call[p].pc = "selected"
  /\ lock[call[p].client] = None
  /\ lock' = [lock EXCEPT ![call[p].client] = p]
  /\ call' = [call EXCEPT ![p].pc = "updated"]
  /\ Remember(Invalidated(call[p].worker, call[p].key), req, heap, current)
  /\ UNCHANGED <<db, issued, answer, unacked>>

\* The commit, after the activation e-mail where there is one.
EventCommit(p) ==
  /\ p \in DOMAIN call /\ call[p].pc = "updated"
  /\ LET c == call[p].client
         e == call[p].event
     IN /\ db' = [db EXCEPT ![c] = Applied(e, @)]
        /\ lock' = [lock EXCEPT ![c] = None]
        /\ current' = IF e.type \in {"activate", "update_plan"}
                        THEN {o \in current : heap[o].client # c} ELSE current
  /\ call' = Drop(call, {p})
  /\ UNCHANGED <<issued, cache, heap, req, answer, unacked>>

\* Bug: the transaction ends without giving the lock back.
EventAbortLocked(p) ==
  /\ p \in DOMAIN call /\ call[p].pc \in {"selected", "updated"}
  /\ call' = Drop(call, {p})
  /\ UNCHANGED <<db, lock, issued, cache, heap, req, answer, current, unacked>>

\* An exception in the transaction rolls it back and frees the lock.
EventAbort(p) ==
  /\ p \in DOMAIN call /\ call[p].pc \in {"selected", "updated"}
  /\ lock' = [c \in Clients |-> IF lock[c] = p THEN None ELSE lock[c]]
  /\ call' = Drop(call, {p})
  /\ UNCHANGED <<db, issued, cache, heap, req, answer, current, unacked>>

--------------------------------------------------------------------------------
(* Dashboard calls of the account's owner. *)

\* regenerate_key: read the row, overwrite the hash in another session, then
\* invalidate the hash that was read.
RegenerateRead(p, w, c) ==
  /\ KeyRotation
  /\ p \notin DOMAIN call
  /\ call' = Put(call, p, [pc |-> "read", worker |-> w, client |-> c,
                           key |-> db[c].key])
  /\ UNCHANGED <<db, lock, issued, cache, heap, req, answer, current, unacked>>

RegenerateCommit(p) ==
  /\ p \in DOMAIN call /\ call[p].pc = "read"
  /\ lock[call[p].client] = None
  /\ \E k \in Keys \ issued :
       /\ issued' = issued \cup {k}
       /\ db' = [db EXCEPT ![call[p].client].key = k]
  /\ call' = [call EXCEPT ![p].pc = "committed"]
  /\ UNCHANGED <<lock, cache, heap, req, answer, current, unacked>>

RegenerateInvalidate(p) ==
  /\ p \in DOMAIN call /\ call[p].pc = "committed"
  /\ Remember(Invalidated(call[p].worker, call[p].key), req, heap, current)
  /\ call' = Drop(call, {p})
  /\ UNCHANGED <<db, lock, issued, answer, unacked>>

\* The commit went through and its acknowledgement is lost: the key is replaced,
\* the exception skips the invalidation, and the owner gets a 500 and no key.
RegenerateUnacked(p) ==
  /\ p \in DOMAIN call /\ call[p].pc = "read"
  /\ lock[call[p].client] = None
  /\ KeyUnacked
  /\ \E k \in Keys \ issued :
       /\ issued' = issued \cup {k}
       /\ db' = [db EXCEPT ![call[p].client].key = k]
  /\ call' = Drop(call, {p})
  /\ UNCHANGED <<lock, cache, heap, req, answer, current, unacked>>

\* The database call raises before it had an effect.
RegenerateError(p) ==
  /\ p \in DOMAIN call /\ call[p].pc = "read"
  /\ call' = Drop(call, {p})
  /\ UNCHANGED <<db, lock, issued, cache, heap, req, answer, current, unacked>>

\* set_byok and remove_byok write two columns and leave every cache alone.
PutByok(c, b) ==
  /\ Byok
  /\ lock[c] = None
  /\ db' = [db EXCEPT ![c].byok = b]
  /\ UNCHANGED <<lock, issued, cache, heap, req, answer, call, current, unacked>>

--------------------------------------------------------------------------------
(* The clock and the processes *)

\* Every entry's time left shrinks; at 0 the entry is dead but still there.
Tick ==
  /\ \E w \in Workers : \E k \in DOMAIN cache[w] : cache[w][k].ttl > 0
  /\ cache' = [w \in Workers |-> [k \in DOMAIN cache[w] |->
                [cache[w][k] EXCEPT !.ttl = IF @ = 0 THEN 0 ELSE @ - 1]]]
  /\ UNCHANGED <<db, lock, issued, heap, req, answer, call, current, unacked>>

\* The arbiter kills a worker and starts it again: its memory is gone, the
\* transactions it had open are rolled back.
Crash(w) ==
  LET lost == {r \in DOMAIN req : req[r].worker = w}
      dead == {p \in DOMAIN call : call[p].worker = w}
  IN /\ Remember([cache EXCEPT ![w] = Restrict(@, {})], Drop(req, lost), heap, current)
     /\ answer' = [r \in Requests |-> IF r \in lost THEN "lost" ELSE answer[r]]
     /\ call' = Drop(call, dead)
     /\ lock' = [c \in Clients |-> IF lock[c] \in dead THEN None ELSE lock[c]]
     /\ UNCHANGED <<db, issued, unacked>>

--------------------------------------------------------------------------------

\* register leaves an ACTIVE account on the free plan with a key of its own.
Init ==
  /\ \E k \in [Clients -> Keys] :
       /\ \A c, d \in Clients : k[c] = k[d] => c = d
       /\ db = [c \in Clients |-> [key |-> k[c], status |-> "ACTIVE",
                                   limit |-> FreeLimit, used |-> 0, byok |-> FALSE]]
       /\ issued = {k[c] : c \in Clients}
  /\ lock = [c \in Clients |-> None]
  /\ cache = [w \in Workers |-> [k \in {} |-> None]]
  /\ heap = [o \in {} |-> None]
  /\ req = [r \in {} |-> None]
  /\ answer = [r \in Requests |-> "none"]
  /\ call = [p \in {} |-> None]
  /\ current = {}
  /\ unacked = 0

Arrive(r) == \E w \in Workers, k \in issued, m \in BOOLEAN :
               ArriveHit(r, w, k, m) \/ ArriveMiss(r, w, k, m)

RequestStep(r) == \/ SelectFound(r) \/ SelectNone(r) \/ Resume(r) \/ Charge(r)
                  \/ Settle(r) \/ DbError(r) \/ ChargeUnacked(r)

CallStart(p) == \E w \in Workers, c \in Clients :
                  \/ \E e \in Events : EventSelect(p, w, c, e)
                  \/ RegenerateRead(p, w, c)

CallStep(p) == \/ EventUpdate(p) \/ EventCommit(p) \/ EventAbort(p)
               \/ RegenerateCommit(p) \/ RegenerateInvalidate(p)
               \/ RegenerateError(p) \/ RegenerateUnacked(p)

Next == \/ \E r \in Requests : Arrive(r) \/ RequestStep(r)
        \/ \E p \in Calls : CallStart(p) \/ CallStep(p)
        \/ \E c \in Clients, b \in BOOLEAN : PutByok(c, b)
        \/ Tick
        \/ \E w \in Workers : Crash(w)

Spec == Init /\ [][Next]_vars

--------------------------------------------------------------------------------
(* Safety *)

Charged(o) == {r \in DOMAIN req : req[r].pc = "charged" /\ req[r].obj = o}

\* A current object never runs ahead of the database: its counter, with the
\* charges that wait to be added to it, is at most the committed counter, and
\* its limit is the committed one.  (The increment of the cached object comes
\* after the commit, api_key_auth.py:136-145; the other order, or a failed
\* charge, would refuse requests while quota is left.)
CurrentNotAhead ==
  \A o \in current :
    LET row == db[heap[o].client]
    IN /\ heap[o].limit = row.limit
       /\ heap[o].used + Cardinality(Charged(o)) <= row.used

\* The limit of the greatest plan.
Top == CHOOSE top \in Limits : \A l \in Limits : l <= top

\* However long the service runs, whatever plans an account is moved to and
\* whatever fails, the overdraft is bounded.  An object loaded while quota was
\* left can spend the greatest limit once more, and R - 1 concurrent requests
\* can pass its check before the last unit is added to it; at any time there is
\* at most one such object per entry of a worker's cache and per request.
OverdraftBounded ==
  LET W == Cardinality(Workers)
      K == Cardinality(Keys)
      R == Cardinality(Requests)
  IN \A c \in Clients :
       db[c].used <= (W * K + R) * (Top + R - 1) + unacked

\* "monthly quotas enforced per-request" (app.py:83): the committed counter
\* never passes the limit.
QuotaEnforced == \A c \in Clients : db[c].used <= db[c].limit

\* A row lock is held by a transaction on that row that is still open, whatever
\* calls fail or workers die in between: no charge waits for a lock that nobody
\* will release ("async with session.begin()", billing_router.py:147-148, 197-198,
\* 226-227 and 251-252).
NoOrphanLock ==
  \A c \in Clients :
    lock[c] # None => /\ lock[c] \in DOMAIN call
                      /\ call[lock[c]].pc = "updated"
                      /\ call[lock[c]].client = c

--------------------------------------------------------------------------------
(* Action properties *)

\* What an object that was found under key k should say: its client's row.
Columns(c) == <<db[c].key, db[c].status, db[c].limit, db[c].byok>>
Stale(o, k) ==
  Columns(heap[o].client) # <<k, heap[o].status, heap[o].limit, heap[o].byok>>

\* The cache entries, by worker and key, that are out of date with the row of
\* client c, and the requests whose SELECT returned before the row changed.
StaleEntries(c) ==
  {e \in Workers \X Keys :
     /\ e[2] \in DOMAIN cache[e[1]]
     /\ LET o == cache[e[1]][e[2]].obj IN heap[o].client = c /\ Stale(o, e[2])}
StaleLoads(c) ==
  {r \in DOMAIN req : /\ req[r].pc = "loaded"
                      /\ heap[req[r].obj].client = c /\ Stale(req[r].obj, req[r].key)}

\* What a cache says wrong about a row only ages: while the row stays as it is,
\* no load is out of date that was not so before, no hit renews a stale entry,
\* and a new one comes only from a request that had loaded it before the change
\* and caches it now, which it does once (_get_cached and _set_cached,
\* api_key_auth.py:33-49).
StaleViewsFade ==
  [][\A c \in Clients :
       Columns(c)' = Columns(c) =>
         /\ StaleLoads(c)' \subseteq StaleLoads(c)
         /\ \A e \in StaleEntries(c)' :
              \/ /\ e \in StaleEntries(c)
                 /\ cache'[e[1]][e[2]].ttl <= cache[e[1]][e[2]].ttl
              \/ \E r \in StaleLoads(c) \ StaleLoads(c)' :
                   e = <<req[r].worker, req[r].key>>]_vars


\* Request r of this step passed every check.
LetThrough(r) == req'[r].pc = "charging"
Arrives(r) == r \notin DOMAIN req /\ r \in DOMAIN req'
Owner(r) == heap'[req'[r].obj].client
Idle(c) == \A p \in DOMAIN call : call[p].client # c

\* "The old key stops working immediately" (auth_router.py:330): once
\* regenerate_key has returned, no request that arrives with the old key is
\* let through.
OldKeyDiesAtOnce ==
  [][\A r \in Requests :
       Arrives(r) /\ LetThrough(r) /\ Idle(Owner(r))
         => db[Owner(r)].key = req'[r].key]_vars

--------------------------------------------------------------------------------
(* Metering refines the ledger. *)

LedgerUsed == [c \in Clients |-> db[c].used]
LedgerPaid == {r \in DOMAIN req : req[r].pc = "charged"}

\* The clients whose row is held by the transaction of an activation.
LedgerRenewing ==
  {c \in Clients : /\ lock[c] # None
                   /\ call[lock[c]].event.type = "activate"}

Ledger == INSTANCE QuotaLedger
            WITH used <- LedgerUsed, paid <- LedgerPaid, renewing <- LedgerRenewing

\* A metered request is admitted after exactly one committed charge of one, and
\* nothing moves a counter but a charge and the commit of an activation of that
\* client's plan: no plan change, suspension or reactivation does, and no failure
\* (api_key_auth.py:136-143, billing_router.py:154-261).
LedgerSpec == Ledger!Spec

--------------------------------------------------------------------------------
(* Liveness.  Coroutines that can run do run (the event loop), statements
   that wait for a row lock get it in turn (PostgreSQL queues the waiters, so
   a lock that keeps being released reaches them), the e-mail inside the
   activation returns (a 15-second timeout, resend_adapter.py), and time
   passes.  Nothing makes requests, events or dashboard calls arrive. *)

Fairness ==
  /\ \A r \in Requests : /\ WF_vars(SelectFound(r) \/ SelectNone(r))
                         /\ WF_vars(Resume(r))
                         /\ SF_vars(Charge(r))
                         /\ WF_vars(Settle(r))
  /\ \A p \in Calls : /\ SF_vars(EventUpdate(p))
                      /\ WF_vars(EventCommit(p))
                      /\ SF_vars(RegenerateCommit(p))
                      /\ WF_vars(RegenerateInvalidate(p))
  /\ WF_vars(Tick)

FairSpec == Spec /\ Fairness

\* No request waits for ever, whichever rows are locked and whichever calls
\* fail or die half-way.
EveryRequestAnswered ==
  \A r \in Requests : r \in DOMAIN req ~> r \notin DOMAIN req

\* Worker w serves requests with key k from an object of client c that satisfies P.
Serves(w, k, c, P(_)) ==
  Live(w, k) /\ LET o == heap[cache[w][k].obj] IN o.client = c /\ P(o)

\* A client that stays suspended is in the end refused by every worker: no
\* cache entry serves its old status for ever, a hit does not extend it, and
\* no load from before the suspension keeps coming back.
SuspensionTakesHold ==
  \A c \in Clients :
    <>[](db[c].status # "ACTIVE")
      => <>[](\A w \in Workers, k \in Keys :
                ~Serves(w, k, c, LAMBDA o : o.status = "ACTIVE"))

\* set_byok and remove_byok tell no cache.  A setting that lasts is all the
\* same what every worker in the end exempts or charges by.
ByokTakesHold ==
  \A c \in Clients, b \in BOOLEAN :
    <>[](db[c].byok = b)
      => <>[](\A w \in Workers, k \in Keys :
                ~Serves(w, k, c, LAMBDA o : o.byok # b))

\* A key that has been replaced in the end opens nothing on any worker.
OldKeyDies ==
  \A k \in Keys :
    <>[](k \in issued /\ \A c \in Clients : db[c].key # k)
      => <>[](\A w \in Workers : ~Live(w, k))
================================================================================
