-------------------------- MODULE LeadPipeline_proofs --------------------------
(***************************************************************************)
(* Theorems about LeadPipeline, for every number of requests and retries,  *)
(* every timeout and delay, and every set of providers and scores.         *)
(***************************************************************************)
EXTENDS LeadPipeline, TLAPS

--------------------------------------------------------------------------------
(* The shape of the handlers' states *)

\* Everything TypeOK says but the bounds of the clock, which follow from
\* PowersOfTwo in the last section.
Handler ==
  [pc : {"idle", "calling", "sleeping", "analysed", "saving", "saved", "done"},
   analyzer : Analyzers \cup {None}, payload : Payloads \cup {None},
   attempt : 0..MaxRetries, elapsed : Int,
   last : Outcomes \cup {None},
   score : Scores \cup {None}, answer : Codes \cup {"lost", None}]

\* The inductive invariant: a handler writes its row between "saving" and
\* "saved" and has no answer before it is done; while it calls the platform it
\* is at one of the allowed attempts, and sleeps only if another one is left.
RowOK(r) ==
  LET q == req[r]
  IN /\ q.pc \in {"idle", "calling", "sleeping", "analysed", "saving"} => row[r] = None
     /\ q.pc = "analysed" => q.score \in Scores
     /\ q.pc = "saving" => q.score \in 0..100 /\ ~Flawed(q.payload)
     /\ q.pc = "saved" => row[r] # None
     /\ q.pc = "done" /\ q.answer = "201" => row[r] # None
     /\ q.pc = "done" /\ q.answer \in {"400", "422", "502"} => row[r] = None

AttemptOK(r) ==
  LET q == req[r]
  IN /\ q.pc \in {"idle", "calling", "sleeping", "analysed", "saving", "saved"}
          => q.answer = None
     /\ q.pc = "calling" => q.attempt \in 1..MaxRetries
     /\ q.pc = "sleeping" => q.attempt \in 1..(MaxRetries - 1)
     /\ q.pc = "done" /\ q.analyzer = "platform" /\ q.answer = "502" /\ q.last = "transient"
          => q.attempt = MaxRetries

Inv == /\ req \in [Requests -> Handler]
       /\ row = [r \in Requests |-> row[r]]
       /\ \A r \in Requests : RowOK(r) /\ AttemptOK(r)

--------------------------------------------------------------------------------

\* Nothing has happened yet.
LEMMA InvInit == Init => Inv
  BY ConstantsOK, NoneIsNew DEF Init, Idle, Inv, Handler, RowOK, AttemptOK, Analyzers, Codes

\* The clock of a request counts in whole ticks.
LEMMA LaterInt == ASSUME NEW e \in Int, NEW d \in Int PROVE Later(e, d) \in Int
  <1>1. 2^(MaxRetries - 1) \in Int
    BY ConstantsOK
  <1>2. Deadline \in Int
    BY <1>1, ConstantsOK DEF Deadline
  <1> QED
    BY <1>2, ConstantsOK DEF Later, MaxElapsed

\* A call takes a whole number of ticks.
LEMMA LongestInt == \A a : \A d \in 0..Longest(a) : d \in Int
  BY ConstantsOK DEF Longest

\* A step of one handler (leads_router.py:45-90) changes its own state and row
\* only, so the invariant has to be shown again for that request alone.
LEMMA OneRequest ==
  ASSUME Inv, NEW r \in Requests, NEW q \in Handler,
         req' = [req EXCEPT ![r] = q],
         \/ row' = row
         \/ \E x : row' = [row EXCEPT ![r] = x],
         RowOK(r)', AttemptOK(r)'
  PROVE  Inv'
  <1>1. req' \in [Requests -> Handler] /\ row' = [x \in Requests |-> row'[x]]
    BY DEF Inv
  <1>2. \A x \in Requests \ {r} : req'[x] = req[x] /\ row'[x] = row[x]
    BY DEF Inv
  <1>3. ASSUME NEW x \in Requests PROVE RowOK(x)' /\ AttemptOK(x)'
    <2>1. CASE x = r
      BY <2>1
    <2>2. CASE x # r
      <3>1. RowOK(x) /\ AttemptOK(x)
        BY DEF Inv
      <3> QED
        BY <1>2, <2>2, <3>1 DEF RowOK, AttemptOK
    <2> QED
      BY <2>1, <2>2
  <1> QED
    BY <1>1, <1>3 DEF Inv

\* Choosing an analyzer (dependencies.py, llm_factory.py).
LEMMA ArriveOK == ASSUME Inv, NEW r \in Requests, Arrive(r) PROVE Inv'
  <1>1. row' = [row EXCEPT ![r] = None] /\ row'[r] = None
    BY DEF Arrive, Inv
  <1>2. \A p \in Payloads : [Idle EXCEPT !.payload = p] \in Handler
    BY ConstantsOK DEF Handler, Idle
  <1>3. \A p \in Payloads : [Idle EXCEPT !.payload = p].answer = None
    BY DEF Idle
  <1>4. \A p \in Payloads : [Idle EXCEPT !.payload = p].analyzer = None
    BY DEF Idle
  <1>5. ASSUME NEW n \in Handler, req' = [req EXCEPT ![r] = n],
               \/ n.pc = "calling" /\ n.answer = None /\ n.attempt = 1
               \/ n.pc = "done" /\ n.answer # "201" /\ n.analyzer = None
        PROVE  Inv'
    <2>1. req'[r] = n
      BY <1>5 DEF Inv
    <2>2. RowOK(r)' /\ AttemptOK(r)'
      BY <1>1, <1>5, <2>1, ConstantsOK, NoneIsNew DEF RowOK, AttemptOK, Analyzers
    <2> QED
      BY <1>1, <1>5, <2>2, OneRequest
  <1>6. ASSUME NEW p \in Payloads, NEW a \in Analyzers,
               req' = [req EXCEPT ![r] = [[Idle EXCEPT !.payload = p]
                         EXCEPT !.pc = "calling", !.analyzer = a, !.attempt = 1]]
        PROVE  Inv'
    <2> DEFINE i == [Idle EXCEPT !.payload = p]
               n == [i EXCEPT !.pc = "calling", !.analyzer = a, !.attempt = 1]
    <2>1. i \in Handler /\ i.answer = None /\ i.analyzer = None
      BY <1>2, <1>3, <1>4
    <2>2. req' = [req EXCEPT ![r] = n]
      BY <1>6
    <2> HIDE DEF i
    <2>3. 1 \in 0..MaxRetries
      BY ConstantsOK
    <2>4. n \in Handler /\ n.pc = "calling" /\ n.answer = None /\ n.attempt = 1
      BY <2>1, <2>3 DEF Handler
    <2> HIDE DEF n
    <2> QED
      BY <1>5, <2>2, <2>4
  <1>7. ASSUME NEW p \in Payloads, NEW c \in {"500", "502"},
               req' = [req EXCEPT ![r] = [[Idle EXCEPT !.payload = p]
                                            EXCEPT !.pc = "done", !.answer = c]]
        PROVE  Inv'
    <2> DEFINE i == [Idle EXCEPT !.payload = p]
               n == [i EXCEPT !.pc = "done", !.answer = c]
    <2>1. i \in Handler /\ i.answer = None /\ i.analyzer = None
      BY <1>2, <1>3, <1>4
    <2>2. req' = [req EXCEPT ![r] = n]
      BY <1>7
    <2> HIDE DEF i
    <2>3. n \in Handler /\ n.pc = "done" /\ n.answer # "201" /\ n.analyzer = None
      BY <2>1 DEF Handler, Codes
    <2> HIDE DEF n
    <2> QED
      BY <1>5, <2>2, <2>3
  <1> QED
    BY <1>6, <1>7 DEF Arrive

\* The end of a provider call, and the backoff (gemini_analyzer.py:81-138).
LEMMA CallOK == ASSUME Inv, NEW r \in Requests, Call(r) \/ Wake(r) PROVE Inv'
  <1> DEFINE q == req[r]
  <1>1. q \in Handler /\ RowOK(r) /\ AttemptOK(r)
    BY DEF Inv
  <1>2. row' = row
    BY DEF Call, Transient, Fatal, Unusable, Usable, Wake
  <1>3. \A d \in 0..Longest(q.analyzer) : Later(q.elapsed, d) \in Int
    BY <1>1, LongestInt, LaterInt DEF Handler
  <1>4. CASE Transient(r)
    <2>1. PICK d \in 0..Longest(q.analyzer) :
            req' = [req EXCEPT ![r] =
                      LET p == [q EXCEPT !.elapsed = Later(@, d), !.last = "transient"]
                      IN IF RetryLeft(p) THEN [p EXCEPT !.pc = "sleeping"]
                         ELSE [p EXCEPT !.pc = "done", !.answer = "502"]]
      BY <1>4 DEF Transient
    <2> DEFINE p == [q EXCEPT !.elapsed = Later(@, d), !.last = "transient"]
               n == IF RetryLeft(p) THEN [p EXCEPT !.pc = "sleeping"]
                    ELSE [p EXCEPT !.pc = "done", !.answer = "502"]
    <2>2. p \in Handler /\ p.analyzer = q.analyzer /\ p.attempt = q.attempt
      BY <1>1, <1>3 DEF Handler, Outcomes
    <2>3. q.pc = "calling"
      BY <1>4 DEF Transient
    <2>4. n \in Handler
      BY <2>2 DEF Handler, Codes
    <2>5. req' = [req EXCEPT ![r] = n]
      BY <2>1
    <2>6. req'[r] = n
      BY <2>5 DEF Inv
    <2>7. /\ n.attempt = q.attempt /\ n.analyzer = q.analyzer
          /\ \/ n.pc = "sleeping" /\ n.answer = q.answer /\ RetryLeft(q)
             \/ n.pc = "done" /\ n.answer = "502" /\ ~RetryLeft(q)
      BY <1>1, <2>2 DEF Handler, RetryLeft
    <2> HIDE DEF n, p
    <2>8. RowOK(r)' /\ AttemptOK(r)'
      BY <1>1, <1>2, <2>3, <2>6, <2>7, ConstantsOK DEF RowOK, AttemptOK, RetryLeft
    <2> QED
      BY <1>2, <2>4, <2>5, <2>8, OneRequest
  <1>5. CASE Fatal(r) \/ Unusable(r)
    <2>1. PICK d \in 0..Longest(q.analyzer), l \in {"fatal", "unusable"} :
            req' = [req EXCEPT ![r].pc = "done", ![r].answer = "502", ![r].last = l,
                               ![r].elapsed = Later(@, d)]
      BY <1>5 DEF Fatal, Unusable
    <2> DEFINE n == [q EXCEPT !.pc = "done", !.answer = "502", !.last = l,
                              !.elapsed = Later(@, d)]
    <2>2. q.pc = "calling"
      BY <1>5 DEF Fatal, Unusable
    <2>3. n \in Handler /\ n.pc = "done" /\ n.answer = "502" /\ n.last = l
      BY <1>1, <1>3 DEF Handler, Outcomes, Codes
    <2>4. req' = [req EXCEPT ![r] = n]
      BY <1>1, <2>1 DEF Inv, Handler
    <2>5. req'[r] = n
      BY <2>4 DEF Inv
    <2> HIDE DEF n
    <2>6. RowOK(r)' /\ AttemptOK(r)'
      BY <1>1, <1>2, <2>2, <2>3, <2>5 DEF RowOK, AttemptOK
    <2> QED
      BY <1>2, <2>3, <2>4, <2>6, OneRequest
  <1>6. CASE Usable(r)
    <2>1. PICK d \in 0..Longest(q.analyzer), s \in Scores :
            req' = [req EXCEPT ![r].pc = "analysed", ![r].last = "usable", ![r].score = s,
                               ![r].elapsed = Later(@, d)]
      BY <1>6 DEF Usable
    <2> DEFINE n == [q EXCEPT !.pc = "analysed", !.last = "usable", !.score = s,
                              !.elapsed = Later(@, d)]
    <2>2. q.pc = "calling"
      BY <1>6 DEF Usable
    <2>3. n \in Handler /\ n.pc = "analysed" /\ n.answer = q.answer /\ n.score = s
      BY <1>1, <1>3 DEF Handler, Outcomes
    <2>4. req' = [req EXCEPT ![r] = n]
      BY <1>1, <2>1 DEF Inv, Handler
    <2>5. req'[r] = n
      BY <2>4 DEF Inv
    <2> HIDE DEF n
    <2>6. RowOK(r)' /\ AttemptOK(r)'
      BY <1>1, <1>2, <2>2, <2>3, <2>5 DEF RowOK, AttemptOK
    <2> QED
      BY <1>2, <2>3, <2>4, <2>6, OneRequest
  <1>7. CASE Wake(r)
    <2> DEFINE d == BaseDelay * 2^(q.attempt - 1)
               n == [q EXCEPT !.pc = "calling", !.attempt = @ + 1,
                              !.elapsed = Later(@, d)]
    <2>1. q.pc = "sleeping" /\ q.attempt \in 1..(MaxRetries - 1)
      BY <1>1, <1>7 DEF Wake, AttemptOK
    <2>2. 2^(q.attempt - 1) \in Int
      BY <2>1, ConstantsOK
    <2>3. d \in Int
      BY <2>2, ConstantsOK
    <2>4. req' = [req EXCEPT ![r] = n]
      BY <1>1, <1>7 DEF Wake, Inv, Handler
    <2> HIDE DEF d
    <2>5. Later(q.elapsed, d) \in Int
      BY <1>1, <2>3, LaterInt DEF Handler
    <2>6. q.attempt + 1 \in 0..MaxRetries
      BY <2>1, ConstantsOK
    <2>7. n \in Handler /\ n.pc = "calling" /\ n.answer = q.answer
          /\ n.attempt = q.attempt + 1
      BY <1>1, <2>5, <2>6 DEF Handler
    <2>8. req'[r] = n
      BY <2>4 DEF Inv
    <2> HIDE DEF n
    <2>9. RowOK(r)' /\ AttemptOK(r)'
      BY <1>1, <1>2, <2>1, <2>7, <2>8, ConstantsOK DEF RowOK, AttemptOK
    <2> QED
      BY <1>2, <2>4, <2>7, <2>9, OneRequest
  <1> QED
    BY <1>4, <1>5, <1>6, <1>7 DEF Call

\* A lead that is written is a record (lead_repository.py:20-35).
LEMMA RowIsNoNone ==
  ASSUME NEW s \in (0..100)
  PROVE  [score |-> s, status |-> DetermineStatus(s)] # None
  <1>1. DetermineStatus(s) \in QualificationStatus
    BY DEF DetermineStatus, QualificationStatus
  <1> QED
    BY <1>1, NoneIsNew DEF Lead

\* A handler that ends keeps its attempt and its score.
LEMMA AnswerOK ==
  ASSUME Inv, NEW r \in Requests, NEW c \in Codes \cup {"lost"}, Answer(r, c)
  PROVE  \E n \in Handler :
           /\ req' = [req EXCEPT ![r] = n] /\ req'[r] = n
           /\ n.pc = "done" /\ n.answer = c
           /\ n.analyzer = req[r].analyzer /\ n.last = req[r].last
           /\ n.attempt = req[r].attempt
  <1> DEFINE n == [req[r] EXCEPT !.pc = "done", !.answer = c]
  <1>1. req[r] \in Handler
    BY DEF Inv
  <1>2. n \in Handler /\ n.pc = "done" /\ n.answer = c
        /\ n.analyzer = req[r].analyzer /\ n.last = req[r].last
        /\ n.attempt = req[r].attempt
    BY <1>1 DEF Handler
  <1>3. req' = [req EXCEPT ![r] = n]
    BY <1>1 DEF Answer, Inv, Handler
  <1>4. req'[r] = n
    BY <1>3 DEF Inv
  <1> HIDE DEF n
  <1> QED
    BY <1>2, <1>3, <1>4

\* Building the lead, storing it, answering
\* (ingest_and_qualify_lead.py, error_handler.py).
LEMMA StoreOK ==
  ASSUME Inv, NEW r \in Requests, Build(r) \/ Store(r) \/ Respond(r) \/ Crash(r)
  PROVE  Inv'
  <1> DEFINE q == req[r]
  <1>1. q \in Handler /\ RowOK(r) /\ AttemptOK(r)
    BY DEF Inv
  <1>2. ASSUME NEW p \in {"saving", "saved"},
               req' = [req EXCEPT ![r].pc = p],
               \/ /\ p = "saving" /\ q.pc = "analysed" /\ row' = row
                  /\ q.score \in 0..100 /\ ~Flawed(q.payload)
               \/ p = "saved" /\ q.pc = "saving" /\ row'[r] # None
                    /\ \E x : row' = [row EXCEPT ![r] = x]
        PROVE  Inv'
    <2> DEFINE n == [q EXCEPT !.pc = p]
    <2>1. /\ n \in Handler /\ n.pc = p /\ n.answer = q.answer /\ n.score = q.score
          /\ n.payload = q.payload
      BY <1>1 DEF Handler
    <2>2. req' = [req EXCEPT ![r] = n]
      BY <1>2
    <2>3. req'[r] = n
      BY <2>2 DEF Inv
    <2> HIDE DEF n
    <2>4. RowOK(r)' /\ AttemptOK(r)'
      BY <1>1, <1>2, <2>1, <2>3 DEF RowOK, AttemptOK
    <2> QED
      BY <1>2, <2>1, <2>2, <2>4, OneRequest
  <1>3. ASSUME NEW c \in Codes \cup {"lost"}, Answer(r, c),
               c = "502" => FALSE,
               c \in {"400", "422"} => row'[r] = None,
               c = "201" => row'[r] # None,
               row' = row \/ \E x : row' = [row EXCEPT ![r] = x]
        PROVE  Inv'
    <2>1. PICK n \in Handler : /\ req' = [req EXCEPT ![r] = n] /\ req'[r] = n
                               /\ n.pc = "done" /\ n.answer = c
      BY <1>3, AnswerOK
    <2>2. RowOK(r)' /\ AttemptOK(r)'
      BY <1>3, <2>1 DEF RowOK, AttemptOK
    <2> QED
      BY <1>3, <2>1, <2>2, OneRequest
  <1>4. CASE Build(r)
    <2>1. row' = row /\ q.pc = "analysed" /\ row[r] = None
      BY <1>1, <1>4 DEF Build, RowOK
    <2>2. CASE Answer(r, "422") \/ Answer(r, "400")
      BY <1>3, <2>1, <2>2 DEF Codes
    <2>3. CASE /\ ValidScore(q.score) /\ ~Flawed(q.payload)
               /\ req' = [req EXCEPT ![r].pc = "saving"]
      BY <1>2, <2>1, <2>3 DEF ValidScore
    <2> QED
      BY <1>4, <2>2, <2>3 DEF Build, Flawed
  <1>5. CASE Store(r)
    <2> DEFINE x == [score |-> q.score, status |-> DetermineStatus(q.score)]
    <2>1. q.pc = "saving" /\ q.score \in 0..100
      BY <1>1, <1>5 DEF Store, Save, SaveFails, SaveUnacked, RowOK
    <2>2. x # None
      BY <2>1, RowIsNoNone
    <2> HIDE DEF x
    <2>3. row' = [row EXCEPT ![r] = x] => row'[r] # None
      BY <2>2 DEF Inv
    <2>4. CASE row' = [row EXCEPT ![r] = x] /\ req' = [req EXCEPT ![r].pc = "saved"]
      BY <1>2, <2>1, <2>3, <2>4
    <2>5. CASE (row' = row \/ row' = [row EXCEPT ![r] = x]) /\ Answer(r, "500")
      BY <1>3, <2>5 DEF Codes
    <2> QED
      BY <1>5, <2>4, <2>5 DEF Store, Save, SaveFails, SaveUnacked, x
  <1>6. CASE Respond(r)
    <2>1. row' = row /\ row[r] # None /\ Answer(r, "201")
      BY <1>1, <1>6 DEF Respond, RowOK
    <2> QED
      BY <1>3, <2>1 DEF Codes
  <1>7. CASE Crash(r)
    BY <1>3, <1>7 DEF Crash
  <1> QED
    BY <1>4, <1>5, <1>6, <1>7

\* Every step of every handler preserves the invariant.
LEMMA InvNext == Inv /\ [Next]_vars => Inv'
  <1> SUFFICES ASSUME Inv, [Next]_vars PROVE Inv'
    OBVIOUS
  <1>1. CASE UNCHANGED vars
    BY <1>1 DEF vars, Inv, RowOK, AttemptOK
  <1> QED
    BY <1>1, ArriveOK, CallOK, StoreOK DEF Next

\* The invariant of all handlers.
LEMMA Invariant == Spec => []Inv
  BY InvInit, InvNext, PTL DEF Spec

\* The HTTP status tells what happened to the lead, whichever step of whichever
\* request failed (lead_repository.py:20-35, error_handler.py).
THEOREM StatusTellsTable == Spec => []AnswerMatchesTable
  <1>1. Inv => AnswerMatchesTable
    BY DEF Inv, RowOK, AnswerMatchesTable
  <1> QED
    BY <1>1, Invariant, PTL

\* The platform's analyzer answers 502 for a transient failure only after
\* llm_max_retries calls, whatever that number is (gemini_analyzer.py:81-138).
THEOREM RetriesUsedUp == Spec => []GivesUpAfterAllRetries
  <1>1. Inv => GivesUpAfterAllRetries
    BY NoneIsNew DEF Inv, Handler, AttemptOK, GivesUpAfterAllRetries, Codes
  <1> QED
    BY <1>1, Invariant, PTL

--------------------------------------------------------------------------------
(* Time *)

\* The platform's handler at its k-th call: what the calls and delays before it
\* have taken at most.
Before(k) == (k - 1) * Timeout + BaseDelay * (2^(k - 1) - 1)

\* The clock of a handler q.
ClockOK(q) ==
  /\ q.elapsed \in 0..MaxElapsed
  /\ q.pc = "sleeping" => q.analyzer = "platform"
  /\ q.analyzer = "platform" =>
       /\ q.pc = "calling" => q.elapsed <= Before(q.attempt)
       /\ q.pc = "sleeping" => q.elapsed <= Before(q.attempt) + Timeout
       /\ q.pc \notin {"calling", "sleeping"} => q.elapsed <= Deadline
  /\ q.analyzer = "gemini" =>
       /\ q.pc = "calling" => q.elapsed = 0
       /\ q.pc # "calling" => q.elapsed <= Deadline

Timed == \A r \in Requests : ClockOK(req[r]) /\ row[r] \in Lead \cup {None}

\* Products of naturals.
LEMMA Products ==
  /\ \A a, b \in Nat : a * b \in Nat
  /\ \A a, b, m \in Nat : a <= b => a * m <= b * m /\ m * a <= m * b
  /\ \A a \in Nat, p \in Nat \ {0} : a * (p - 1) + a * p = a * (2 * p - 1)
  /\ \A k, m \in Nat : (k + 1) * m = k * m + m
  OBVIOUS

\* A delay is twice the one before it, so the calls and delays add up.
LEMMA Budget ==
  /\ Before(1) = 0
  /\ \A k \in 1..MaxRetries : Before(k) \in Nat /\ Before(k) + Timeout <= Deadline
  /\ \A k \in 1..(MaxRetries - 1) :
       /\ BaseDelay * 2^(k - 1) \in Nat
       /\ Before(k + 1) = Before(k) + Timeout + BaseDelay * 2^(k - 1)
  /\ Deadline \in Nat /\ MaxElapsed \in Nat /\ Deadline < MaxElapsed /\ Slow < MaxElapsed
  <1>1. /\ MaxRetries \in Nat \ {0} /\ Timeout \in Nat \ {0} /\ BaseDelay \in Nat
        /\ Slow \in Nat
    BY ConstantsOK
  <1>2. \A k \in 1..MaxRetries :
          /\ Before(k) \in Nat
          /\ Before(k) + Timeout = k * Timeout + BaseDelay * (2^(k - 1) - 1)
          /\ k * Timeout \in Nat /\ BaseDelay * (2^(k - 1) - 1) \in Nat
    <2> TAKE k \in 1..MaxRetries
    <2>1. PICK j : j = k - 1
      OBVIOUS
    <2>2. j \in Nat /\ j \in 0..MaxRetries /\ k = j + 1
      BY <1>1, <2>1
    <2>3. PICK p : p = 2^j
      OBVIOUS
    <2>4. p \in Nat \ {0} /\ p - 1 \in Nat
      BY <2>2, <2>3, PowersOfTwo
    <2>5. j * Timeout \in Nat /\ BaseDelay * (p - 1) \in Nat /\ k * Timeout = j * Timeout + Timeout
      BY <1>1, <2>2, <2>4, Products
    <2>6. Before(k) = j * Timeout + BaseDelay * (p - 1)
      BY <2>1, <2>3 DEF Before
    <2> QED
      BY <1>1, <2>1, <2>3, <2>5, <2>6
  <1>3. Deadline = MaxRetries * Timeout + BaseDelay * (2^(MaxRetries - 1) - 1)
    BY DEF Deadline
  <1>4. \A k \in 1..MaxRetries : Before(k) + Timeout <= Deadline
    <2> TAKE k \in 1..MaxRetries
    <2>1. k * Timeout <= MaxRetries * Timeout /\ MaxRetries * Timeout \in Nat
      BY <1>1, Products
    <2>2. PICK p : p = 2^(k - 1)
      OBVIOUS
    <2>3. PICK t : t = 2^(MaxRetries - 1)
      OBVIOUS
    <2>4. p \in Nat \ {0} /\ t \in Nat \ {0} /\ p <= t
      <3>1. k - 1 \in 0..MaxRetries /\ MaxRetries - 1 \in 0..MaxRetries /\ k - 1 <= MaxRetries - 1
        BY <1>1
      <3> QED
        BY <2>2, <2>3, <3>1, PowersOfTwo
    <2>5. p - 1 \in Nat /\ t - 1 \in Nat /\ p - 1 <= t - 1
      BY <2>4
    <2>6. /\ BaseDelay * (p - 1) <= BaseDelay * (t - 1)
          /\ BaseDelay * (p - 1) \in Nat /\ BaseDelay * (t - 1) \in Nat
      BY <1>1, <2>5, Products
    <2>7. Before(k) + Timeout = k * Timeout + BaseDelay * (p - 1) /\ k * Timeout \in Nat
      BY <1>2, <2>2
    <2>8. Deadline = MaxRetries * Timeout + BaseDelay * (t - 1)
      BY <1>3, <2>3
    <2> QED
      BY <2>1, <2>6, <2>7, <2>8
  <1>5. ASSUME NEW k \in 1..(MaxRetries - 1)
        PROVE  /\ BaseDelay * 2^(k - 1) \in Nat
               /\ Before(k + 1) = Before(k) + Timeout + BaseDelay * 2^(k - 1)
    <2>1. PICK j : j = k - 1
      OBVIOUS
    <2>2. j \in Nat /\ j \in 0..MaxRetries /\ k = j + 1 /\ k \in Nat /\ k \in 1..MaxRetries
      BY <1>1, <2>1
    <2>3. PICK p : p = 2^j
      OBVIOUS
    <2>4. p \in Nat \ {0} /\ 2^k = 2 * p
      BY <2>2, <2>3, PowersOfTwo
    <2>5. BaseDelay * p \in Nat /\ BaseDelay * (p - 1) + BaseDelay * p = BaseDelay * (2 * p - 1)
      BY <1>1, <2>4, Products
    <2>6. Before(k) + Timeout = k * Timeout + BaseDelay * (p - 1)
      BY <1>2, <2>1, <2>2, <2>3
    <2>7. Before(k + 1) = k * Timeout + BaseDelay * (2 * p - 1)
      <3>1. PICK i : i = k + 1
        OBVIOUS
      <3>2. i - 1 = k
        BY <2>2, <3>1
      <3>3. Before(i) = k * Timeout + BaseDelay * (2^k - 1)
        BY <3>2 DEF Before
      <3> QED
        BY <2>4, <3>1, <3>3
    <2>8. k * Timeout \in Nat /\ BaseDelay * (p - 1) \in Nat
      BY <1>1, <2>2, <2>4, Products
    <2> QED
      BY <2>1, <2>3, <2>5, <2>6, <2>7, <2>8
  <1>6. Before(1) = 0
    <2>1. 1 - 1 = 0 /\ 0 \in 0..MaxRetries
      BY <1>1
    <2>2. 2^0 = 1
      OBVIOUS
    <2>3. Before(1) = 0 * Timeout + BaseDelay * (1 - 1)
      BY <2>1, <2>2 DEF Before
    <2> QED
      BY <1>1, <2>3
  <1>7. Deadline \in Nat
    BY <1>1, <1>2, <1>3
  <1>8. MaxElapsed \in Nat /\ Deadline < MaxElapsed /\ Slow < MaxElapsed
    BY <1>1, <1>7 DEF MaxElapsed
  <1> QED
    BY <1>2, <1>4, <1>5, <1>6, <1>7, <1>8

\* The clock stops at its bound and runs no faster than time.
LEMMA LaterOK ==
  ASSUME NEW e \in 0..MaxElapsed, NEW d \in Nat
  PROVE  Later(e, d) \in 0..MaxElapsed /\ Later(e, d) <= e + d
  BY Budget DEF Later

\* The clock at the end of a provider call of q that took d.
LEMMA CallTime ==
  ASSUME NEW q, ClockOK(q), q.pc = "calling",
         q.analyzer \in Analyzers, q.attempt \in 1..MaxRetries,
         NEW d \in 0..Longest(q.analyzer), NEW e, e = Later(q.elapsed, d)
  PROVE  /\ e \in 0..MaxElapsed
         /\ q.analyzer = "platform" => e <= Before(q.attempt) + Timeout /\ e <= Deadline
         /\ q.analyzer = "gemini" => e <= Deadline
  <1>1. /\ Timeout \in Nat \ {0} /\ Slow \in Nat /\ 1 \in 1..MaxRetries
        /\ d \in Nat /\ (q.analyzer \in WaitFor => d <= Timeout)
    BY ConstantsOK DEF Longest
  <1>2. q.elapsed \in 0..MaxElapsed
    BY DEF ClockOK
  <1>3. e \in 0..MaxElapsed /\ e <= q.elapsed + d
    BY <1>1, <1>2, LaterOK
  <1>4. CASE q.analyzer = "platform"
    <2>1. q.elapsed <= Before(q.attempt) /\ d <= Timeout
      BY <1>1, <1>4 DEF ClockOK, WaitFor
    <2>2. Before(q.attempt) \in Nat /\ Before(q.attempt) + Timeout <= Deadline /\ Deadline \in Nat
      BY Budget
    <2> QED
      BY <1>1, <1>2, <1>3, <1>4, <2>1, <2>2, Budget
  <1>5. CASE q.analyzer = "gemini"
    <2>1. q.elapsed = 0 /\ d <= Timeout
      BY <1>1, <1>5 DEF ClockOK, WaitFor
    <2>2. Before(1) = 0 /\ Before(1) + Timeout <= Deadline
      BY <1>1, Budget
    <2> QED
      BY <1>1, <1>3, <1>5, <2>1, <2>2, Budget
  <1> QED
    BY <1>3, <1>4, <1>5

\* A step of one handler leaves the clocks and rows of the others alone.
LEMMA OneClock ==
  ASSUME Timed, NEW r \in Requests, NEW n, NEW x,
         req' = [req EXCEPT ![r] = n], row' = [row EXCEPT ![r] = x],
         DOMAIN req = Requests, DOMAIN row = Requests,
         ClockOK(n), x \in Lead \cup {None}
  PROVE  Timed'
  <1>1. \A y \in Requests :
          /\ req'[y] = IF y = r THEN n ELSE req[y]
          /\ row'[y] = IF y = r THEN x ELSE row[y]
    OBVIOUS
  <1>2. ASSUME NEW y \in Requests PROVE ClockOK(req[y])' /\ row'[y] \in Lead \cup {None}
    <2>1. ClockOK(req[y]) /\ row[y] \in Lead \cup {None}
      BY DEF Timed
    <2>2. \A q : q = req'[y] => ClockOK(q)
      BY <1>1, <2>1
    <2> QED
      BY <1>1, <2>1, <2>2 DEF ClockOK, Before, Deadline, MaxElapsed
  <1> QED
    BY <1>2 DEF Timed

\* Nothing has happened yet.
LEMMA TimedInit == Init => Timed
  <1> SUFFICES ASSUME Init, NEW r \in Requests PROVE ClockOK(req[r]) /\ row[r] \in Lead \cup {None}
    BY DEF Timed
  <1>1. req[r] = Idle /\ row[r] = None
    BY DEF Init
  <1>2. Idle.pc = "idle" /\ Idle.analyzer = None /\ Idle.elapsed = 0
    BY DEF Idle
  <1>3. None # "platform" /\ None # "gemini"
    BY NoneIsNew DEF Analyzers
  <1> QED
    BY <1>1, <1>2, <1>3, Budget DEF ClockOK

\* A handler starts its clock with its first call.
LEMMA TimedArrive == ASSUME Inv, Timed, NEW r \in Requests, Arrive(r) PROVE Timed'
  <1>1. row' = [row EXCEPT ![r] = None] /\ DOMAIN req = Requests /\ DOMAIN row = Requests
    BY DEF Arrive, Inv
  <1>2. None # "platform" /\ None # "gemini"
    BY NoneIsNew DEF Analyzers
  <1>3. \E n : req' = [req EXCEPT ![r] = n] /\ ClockOK(n)
    <2>1. PICK p \in Payloads :
            \/ \E a \in Analyzers : req' = [req EXCEPT ![r] = [[Idle EXCEPT !.payload = p] EXCEPT
                                      !.pc = "calling", !.analyzer = a, !.attempt = 1]]
            \/ \E c : req' = [req EXCEPT ![r] = [[Idle EXCEPT !.payload = p] EXCEPT
                                      !.pc = "done", !.answer = c]]
      BY DEF Arrive
    <2>2. PICK i : i = [Idle EXCEPT !.payload = p]
      OBVIOUS
    <2>3. /\ i = [pc |-> "idle", analyzer |-> None, payload |-> p, attempt |-> 0,
                  elapsed |-> 0, last |-> None, score |-> None, answer |-> None]
      BY <2>2 DEF Idle
    <2>4. CASE \E a \in Analyzers : req' = [req EXCEPT ![r] = [i EXCEPT
                                      !.pc = "calling", !.analyzer = a, !.attempt = 1]]
      <3>1. PICK a \in Analyzers : req' = [req EXCEPT ![r] = [i EXCEPT
                                      !.pc = "calling", !.analyzer = a, !.attempt = 1]]
        BY <2>4
      <3>2. PICK n : n = [i EXCEPT !.pc = "calling", !.analyzer = a, !.attempt = 1]
        OBVIOUS
      <3>3. n.pc = "calling" /\ n.attempt = 1 /\ n.elapsed = 0
        BY <2>3, <3>2
      <3>4. ClockOK(n)
        BY <3>3, Budget DEF ClockOK
      <3> QED
        BY <3>1, <3>2, <3>4
    <2>5. CASE \E c : req' = [req EXCEPT ![r] = [i EXCEPT !.pc = "done", !.answer = c]]
      <3>1. PICK c : req' = [req EXCEPT ![r] = [i EXCEPT !.pc = "done", !.answer = c]]
        BY <2>5
      <3>2. PICK n : n = [i EXCEPT !.pc = "done", !.answer = c]
        OBVIOUS
      <3>3. n.pc = "done" /\ n.analyzer = None /\ n.elapsed = 0
        BY <2>3, <3>2
      <3>4. ClockOK(n)
        BY <1>2, <3>3, Budget DEF ClockOK
      <3> QED
        BY <3>1, <3>2, <3>4
    <2> QED
      BY <2>1, <2>2, <2>4, <2>5
  <1> QED
    BY <1>1, <1>3, OneClock

\* A provider call takes at most its timeout, a delay what the budget has for it.
LEMMA TimedCall == ASSUME Inv, Timed, NEW r \in Requests, Call(r) \/ Wake(r) PROVE Timed'
  <1>1. PICK q : q = req[r]
    OBVIOUS
  <1>2. /\ q \in Handler /\ RowOK(r) /\ AttemptOK(r) /\ ClockOK(q)
        /\ DOMAIN req = Requests /\ DOMAIN row = Requests
        /\ row' = [row EXCEPT ![r] = row[r]] /\ row[r] \in Lead \cup {None}
    <2>1. row' = row /\ DOMAIN row = Requests
      BY DEF Inv, Call, Transient, Fatal, Unusable, Usable, Wake
    <2> QED
      BY <1>1, <2>1 DEF Inv, Timed
  <1>3. SUFFICES \E n : req' = [req EXCEPT ![r] = n] /\ ClockOK(n)
    BY <1>2, OneClock
  <1>4. CASE Wake(r)
    <2>1. PICK d : d = BaseDelay * 2^(q.attempt - 1)
      OBVIOUS
    <2>2. PICK n : n = [q EXCEPT !.pc = "calling", !.attempt = @ + 1, !.elapsed = Later(@, d)]
      OBVIOUS
    <2>3. /\ q.pc = "sleeping" /\ q.attempt \in 1..(MaxRetries - 1)
          /\ req' = [req EXCEPT ![r] = n]
      BY <1>1, <1>2, <1>4, <2>1, <2>2 DEF Wake, Inv, Handler, AttemptOK
    <2>4. /\ n.pc = "calling" /\ n.analyzer = q.analyzer /\ n.attempt = q.attempt + 1
          /\ n.elapsed = Later(q.elapsed, d)
      BY <1>2, <2>2 DEF Handler
    <2>5. /\ q.analyzer = "platform" /\ q.elapsed \in 0..MaxElapsed
          /\ q.elapsed <= Before(q.attempt) + Timeout
      BY <1>2, <2>3 DEF ClockOK
    <2>6. d \in Nat /\ Before(n.attempt) = Before(q.attempt) + Timeout + d
      BY <2>1, <2>3, <2>4, Budget
    <2>7. n.elapsed \in 0..MaxElapsed /\ n.elapsed <= q.elapsed + d
      BY <2>4, <2>5, <2>6, LaterOK
    <2>8. Before(q.attempt) \in Nat /\ Timeout \in Nat
      BY <2>3, Budget, ConstantsOK
    <2>9. n.elapsed <= Before(n.attempt)
      BY <2>5, <2>6, <2>7, <2>8, Budget
    <2>10. ClockOK(n)
      BY <2>4, <2>5, <2>7, <2>9 DEF ClockOK
    <2> QED
      BY <2>3, <2>10
  <1>5. CASE Call(r)
    <2>1. q.pc = "calling" /\ q.attempt \in 1..MaxRetries
      BY <1>1, <1>2, <1>5 DEF Call, Transient, Fatal, Unusable, Usable, AttemptOK
    <2>2. q.analyzer \in Analyzers \cup {None}
      BY <1>2 DEF Handler
    <2>3. PICK d \in 0..Longest(q.analyzer) : \E n :
            /\ req' = [req EXCEPT ![r] = n]
            /\ n.analyzer = q.analyzer /\ n.attempt = q.attempt
            /\ n.elapsed = Later(q.elapsed, d)
            /\ n.pc \in {"done", "analysed"} \/ (n.pc = "sleeping" /\ q.analyzer = "platform")
      <3>1. CASE Transient(r)
        <4>1. PICK d \in 0..Longest(q.analyzer) :
                req' = [req EXCEPT ![r] =
                          LET p == [q EXCEPT !.elapsed = Later(@, d), !.last = "transient"]
                          IN IF RetryLeft(p) THEN [p EXCEPT !.pc = "sleeping"]
                             ELSE [p EXCEPT !.pc = "done", !.answer = "502"]]
          BY <1>1, <3>1 DEF Transient
        <4>2. PICK p : p = [q EXCEPT !.elapsed = Later(@, d), !.last = "transient"]
          OBVIOUS
        <4>3. PICK n : n = IF RetryLeft(p) THEN [p EXCEPT !.pc = "sleeping"]
                           ELSE [p EXCEPT !.pc = "done", !.answer = "502"]
          OBVIOUS
        <4>4. Later(q.elapsed, d) \in Int
          BY <1>2, LongestInt, LaterInt DEF Handler
        <4>5. /\ p \in Handler /\ p.analyzer = q.analyzer /\ p.attempt = q.attempt
              /\ p.elapsed = Later(q.elapsed, d)
          BY <1>2, <4>2, <4>4 DEF Handler, Outcomes
        <4>6. /\ n.analyzer = q.analyzer /\ n.attempt = q.attempt
              /\ n.elapsed = Later(q.elapsed, d)
              /\ n.pc = "done" \/ (n.pc = "sleeping" /\ q.analyzer = "platform")
          BY <4>3, <4>5 DEF Handler, RetryLeft
        <4>7. req' = [req EXCEPT ![r] = n]
          BY <4>1, <4>2, <4>3
        <4> QED
          BY <4>6, <4>7
      <3>2. CASE Fatal(r) \/ Unusable(r)
        <4>1. PICK d \in 0..Longest(q.analyzer), l \in {"fatal", "unusable"} :
                req' = [req EXCEPT ![r].pc = "done", ![r].answer = "502", ![r].last = l,
                                   ![r].elapsed = Later(@, d)]
          BY <1>1, <3>2 DEF Fatal, Unusable
        <4>2. PICK n : n = [q EXCEPT !.pc = "done", !.answer = "502", !.last = l,
                                     !.elapsed = Later(@, d)]
          OBVIOUS
        <4>3. req' = [req EXCEPT ![r] = n]
          BY <1>1, <1>2, <4>1, <4>2 DEF Inv, Handler
        <4>4. /\ n.analyzer = q.analyzer /\ n.attempt = q.attempt /\ n.pc = "done"
              /\ n.elapsed = Later(q.elapsed, d)
          BY <1>2, <4>2 DEF Handler
        <4> QED
          BY <4>3, <4>4
      <3>3. CASE Usable(r)
        <4>1. PICK d \in 0..Longest(q.analyzer), s \in Scores :
                req' = [req EXCEPT ![r].pc = "analysed", ![r].last = "usable", ![r].score = s,
                                   ![r].elapsed = Later(@, d)]
          BY <1>1, <3>3 DEF Usable
        <4>2. PICK n : n = [q EXCEPT !.pc = "analysed", !.last = "usable", !.score = s,
                                     !.elapsed = Later(@, d)]
          OBVIOUS
        <4>3. req' = [req EXCEPT ![r] = n]
          BY <1>1, <1>2, <4>1, <4>2 DEF Inv, Handler
        <4>4. /\ n.analyzer = q.analyzer /\ n.attempt = q.attempt /\ n.pc = "analysed"
              /\ n.elapsed = Later(q.elapsed, d)
          BY <1>2, <4>2 DEF Handler
        <4> QED
          BY <4>3, <4>4
      <3> QED
        BY <1>5, <3>1, <3>2, <3>3 DEF Call
    <2>4. PICK n :
            /\ req' = [req EXCEPT ![r] = n]
            /\ n.analyzer = q.analyzer /\ n.attempt = q.attempt
            /\ n.elapsed = Later(q.elapsed, d)
            /\ n.pc \in {"done", "analysed"} \/ (n.pc = "sleeping" /\ q.analyzer = "platform")
      BY <2>3
    <2>5. CASE q.analyzer \in Analyzers
      <3>1. /\ n.elapsed \in 0..MaxElapsed
            /\ q.analyzer = "platform"
                 => n.elapsed <= Before(q.attempt) + Timeout /\ n.elapsed <= Deadline
            /\ q.analyzer = "gemini" => n.elapsed <= Deadline
        BY <1>2, <2>1, <2>3, <2>4, <2>5, CallTime
      <3>2. ClockOK(n)
        BY <2>4, <3>1 DEF ClockOK
      <3> QED
        BY <2>4, <3>2
    <2>6. CASE q.analyzer = None
      <3>1. None # "platform" /\ None # "gemini"
        BY NoneIsNew DEF Analyzers
      <3>2. d \in Nat
        BY ConstantsOK DEF Longest
      <3>3. n.elapsed \in 0..MaxElapsed
        BY <1>2, <2>4, <3>2, LaterOK DEF ClockOK
      <3>4. ClockOK(n)
        BY <2>4, <2>6, <3>1, <3>3 DEF ClockOK
      <3> QED
        BY <2>4, <3>4
    <2> QED
      BY <2>2, <2>5, <2>6
  <1> QED
    BY <1>4, <1>5

\* After the last call the clock stands still.
LEMMA StandStill ==
  ASSUME NEW q, ClockOK(q), q.pc = "calling" \/ q.pc = "sleeping" => q.attempt \in 1..MaxRetries,
         NEW n, n.analyzer = q.analyzer, n.elapsed = q.elapsed,
         n.pc \notin {"calling", "sleeping"}
  PROVE  ClockOK(n)
  <1>1. Timeout \in Nat /\ Deadline \in Nat /\ Deadline < MaxElapsed /\ MaxElapsed \in Nat
    BY ConstantsOK, Budget
  <1>2. q.elapsed \in 0..MaxElapsed
    BY DEF ClockOK
  <1>3. q.analyzer = "platform" => q.elapsed <= Deadline
    <2>1. q.attempt \in 1..MaxRetries
            => Before(q.attempt) \in Nat /\ Before(q.attempt) + Timeout <= Deadline
      BY Budget
    <2> QED
      BY <1>1, <1>2, <2>1 DEF ClockOK
  <1>4. q.analyzer = "gemini" => q.elapsed <= Deadline
    BY <1>1, <1>2 DEF ClockOK
  <1> QED
    BY <1>2, <1>3, <1>4 DEF ClockOK

LEMMA TimedStore ==
  ASSUME Inv, Timed, NEW r \in Requests, Build(r) \/ Store(r) \/ Respond(r) \/ Crash(r)
  PROVE  Timed'
  <1>1. PICK q : q = req[r]
    OBVIOUS
  <1>2. /\ q \in Handler /\ RowOK(r) /\ AttemptOK(r) /\ ClockOK(q)
        /\ DOMAIN req = Requests /\ DOMAIN row = Requests
        /\ row[r] \in Lead \cup {None}
    <2>1. DOMAIN row = Requests
      BY DEF Inv
    <2> QED
      BY <1>1, <2>1 DEF Inv, Timed
  <1>3. q.pc = "calling" \/ q.pc = "sleeping" => q.attempt \in 1..MaxRetries
    BY <1>1, <1>2, ConstantsOK DEF AttemptOK
  <1>4. \E n : /\ req' = [req EXCEPT ![r] = n]
               /\ n.analyzer = q.analyzer /\ n.elapsed = q.elapsed
               /\ n.pc \notin {"calling", "sleeping"}
    <2>1. PICK n : /\ req' = [req EXCEPT ![r] = n]
                   /\ \E p \in {"done", "saving", "saved"}, a \in Codes \cup {"lost", None} :
                        n = [q EXCEPT !.pc = p, !.answer = a]
      <3>1. CASE \E c \in Codes \cup {"lost"} : Answer(r, c)
        <4>1. PICK c \in Codes \cup {"lost"} : Answer(r, c)
          BY <3>1
        <4>2. PICK n : n = [q EXCEPT !.pc = "done", !.answer = c]
          OBVIOUS
        <4>3. req' = [req EXCEPT ![r] = n]
          BY <1>1, <1>2, <4>1, <4>2 DEF Answer, Inv, Handler
        <4> QED
          BY <4>2, <4>3
      <3>2. CASE \E s \in {"saving", "saved"} : req' = [req EXCEPT ![r].pc = s]
        <4>1. PICK s \in {"saving", "saved"} : req' = [req EXCEPT ![r].pc = s]
          BY <3>2
        <4>2. PICK n : n = [q EXCEPT !.pc = s]
          OBVIOUS
        <4>3. req' = [req EXCEPT ![r] = n]
          BY <1>1, <1>2, <4>1, <4>2 DEF Inv, Handler
        <4>4. n = [q EXCEPT !.pc = s, !.answer = q.answer] /\ q.answer \in Codes \cup {"lost", None}
          BY <1>2, <4>2 DEF Handler
        <4> QED
          BY <4>1, <4>3, <4>4
      <3> QED
        BY <3>1, <3>2 DEF Build, Store, Save, SaveFails, SaveUnacked, Respond, Crash, Codes
    <2>2. /\ n.pc \in {"done", "saving", "saved"}
          /\ n.analyzer = q.analyzer /\ n.elapsed = q.elapsed
      BY <1>2, <2>1 DEF Handler
    <2> QED
      BY <2>1, <2>2
  <1>5. \E x \in Lead \cup {None} : row' = [row EXCEPT ![r] = x]
    <2>1. CASE row' = row
      <3>1. row' = [row EXCEPT ![r] = row[r]]
        BY <2>1 DEF Inv
      <3> QED
        BY <1>2, <3>1
    <2>2. CASE Save(r) \/ SaveUnacked(r)
      <3>1. PICK x : x = [score |-> q.score, status |-> DetermineStatus(q.score)]
        OBVIOUS
      <3>2. q.score \in 0..100
        BY <1>1, <1>2, <2>2 DEF Save, SaveUnacked, RowOK
      <3>3. x \in Lead
        BY <3>1, <3>2 DEF Lead, DetermineStatus, QualificationStatus
      <3>4. row' = [row EXCEPT ![r] = x]
        BY <1>1, <2>2, <3>1 DEF Save, SaveUnacked
      <3> QED
        BY <3>3, <3>4
    <2> QED
      BY <2>1, <2>2 DEF Build, Store, SaveFails, Respond, Crash
  <1>6. PICK n : /\ req' = [req EXCEPT ![r] = n]
                 /\ n.analyzer = q.analyzer /\ n.elapsed = q.elapsed
                 /\ n.pc \notin {"calling", "sleeping"}
    BY <1>4
  <1>7. ClockOK(n)
    BY <1>2, <1>3, <1>6, StandStill
  <1> QED
    BY <1>2, <1>5, <1>6, <1>7, OneClock

\* Every step of every handler stays within the budget.
LEMMA TimedNext == Inv /\ Timed /\ [Next]_vars => Timed'
  <1> SUFFICES ASSUME Inv, Timed, [Next]_vars PROVE Timed'
    OBVIOUS
  <1>1. CASE UNCHANGED vars
    BY <1>1 DEF vars, Timed, ClockOK, Before, Deadline, MaxElapsed
  <1> QED
    BY <1>1, TimedArrive, TimedCall, TimedStore DEF Next

LEMMA TimedAlways == Spec => []Timed
  BY TimedInit, TimedNext, Invariant, PTL DEF Spec

\* The types, with the clock's bounds.
THEOREM TypeSafe == Spec => []TypeOK
  <1>1. Inv /\ Timed => TypeOK
    <2> SUFFICES ASSUME Inv, Timed PROVE TypeOK
      OBVIOUS
    <2>1. ASSUME NEW r \in Requests PROVE req[r] \in Request /\ row[r] \in Lead \cup {None}
      <3>1. req[r] \in Handler /\ req[r].elapsed \in 0..MaxElapsed /\ row[r] \in Lead \cup {None}
        BY DEF Inv, Timed, ClockOK
      <3> QED
        BY <3>1 DEF Handler, Request
    <2>2. req \in [Requests -> Request]
      BY <2>1 DEF Inv
    <2>3. row \in [Requests -> Lead \cup {None}]
      BY <2>1 DEF Inv
    <2> QED
      BY <2>2, <2>3 DEF TypeOK
  <1> QED
    BY <1>1, Invariant, TimedAlways, PTL

\* Whatever the numbers of retries and the sizes of timeout and delay, a request
\* served by an analyzer that wraps its calls in wait_for, the platform's or a
\* caller's own Gemini, is over within their sum (gemini_analyzer.py:81-138).
\* Of the OpenAI and Anthropic analyzers, whose timeout bounds each read only,
\* it says nothing.
THEOREM OnTime == Spec => []WithinDeadline
  <1>1. Inv /\ Timed => WithinDeadline
    <2> SUFFICES ASSUME Inv, Timed, NEW r \in Requests, req[r].analyzer \in WaitFor
                 PROVE  req[r].elapsed <= Deadline
      BY DEF WithinDeadline
    <2>1. PICK q : q = req[r]
      OBVIOUS
    <2>2. /\ ClockOK(q) /\ q.elapsed \in 0..MaxElapsed
          /\ q.pc = "calling" \/ q.pc = "sleeping" => q.attempt \in 1..MaxRetries
      BY <2>1, ConstantsOK DEF Inv, Timed, AttemptOK, ClockOK
    <2>3. PICK n : n = [pc |-> "done", analyzer |-> q.analyzer, elapsed |-> q.elapsed]
      OBVIOUS
    <2>4. ClockOK(n) /\ n.elapsed = q.elapsed /\ n.analyzer = q.analyzer /\ n.pc = "done"
      BY <2>2, <2>3, StandStill
    <2> QED
      BY <2>1, <2>4 DEF ClockOK, WaitFor
  <1> QED
    BY <1>1, Invariant, TimedAlways, PTL

--------------------------------------------------------------------------------
(* The promise *)

\* The score of a request is set by its verdict and by nothing else.
Unjudged(r) == req[r].pc \in {"calling", "sleeping"} => req[r].score = None

Fresh == \A r \in Requests : Unjudged(r)

\* The mapped state.
Served == {r \in Requests : req[r].pc \notin {"idle", "done"}}
Flaws == {r \in Requests : Flawed(req[r].payload)}
Verdicts == [r \in Requests |-> req[r].score]
Answers == [r \in Requests |-> req[r].answer]

\* What a step of request r makes of the state of its handler, n, and of its
\* row.  Left out is what the promise does not speak of.
Touches(r, n) == /\ n \in Handler
                 /\ req' = [req EXCEPT ![r] = n]

LEMMA TouchesOne ==
  ASSUME Inv, Inv', NEW r \in Requests, \A x \in Requests \ {r} : req'[x] = req[x]
  PROVE  Touches(r, req'[r])
  BY DEF Inv, Touches

\* get_use_case: a request comes to its provider, or is turned away.
LEMMA ArriveDoes ==
  ASSUME Inv, Inv', NEW r \in Requests, Arrive(r)
  PROVE  /\ Touches(r, req'[r]) /\ r \notin Served
         /\ row' = [row EXCEPT ![r] = None] /\ req'[r].score = None
         /\ \/ req'[r].pc = "calling" /\ req'[r].answer = None
            \/ req'[r].pc = "done" /\ req'[r].answer \in {"500", "502"}
  <1>1. PICK p \in Payloads, a \in Analyzers, c \in {"500", "502"}, b \in BOOLEAN :
          req' = [req EXCEPT ![r] =
                    IF b THEN [[Idle EXCEPT !.payload = p]
                                 EXCEPT !.pc = "calling", !.analyzer = a, !.attempt = 1]
                    ELSE [[Idle EXCEPT !.payload = p] EXCEPT !.pc = "done", !.answer = c]]
    BY DEF Arrive, Analyzers
  <1>2. \A x \in Requests \ {r} : req'[x] = req[x]
    BY <1>1
  <1>3. Touches(r, req'[r])
    BY <1>2, TouchesOne
  <1>4. /\ req'[r].score = None
        /\ \/ req'[r].pc = "calling" /\ req'[r].answer = None
           \/ req'[r].pc = "done" /\ req'[r].answer \in {"500", "502"}
    BY <1>1 DEF Inv, Idle
  <1> QED
    BY <1>3, <1>4 DEF Arrive, Served

\* The provider call: another attempt, a verdict, or a 502.
LEMMA CallDoes ==
  ASSUME Inv, Inv', NEW r \in Requests, Call(r) \/ Wake(r)
  PROVE  /\ Touches(r, req'[r]) /\ row' = row
         /\ req[r].pc \in {"calling", "sleeping"} /\ req'[r].payload = req[r].payload
         /\ \/ /\ req'[r].pc \in {"calling", "sleeping"}
               /\ req'[r].score = req[r].score /\ req'[r].answer = req[r].answer
            \/ /\ req'[r].pc = "done" /\ req'[r].answer = "502"
               /\ req'[r].score = req[r].score
            \/ /\ req'[r].pc = "analysed" /\ req'[r].score \in Scores
               /\ req'[r].answer = req[r].answer
  <1>1. req[r] \in Handler /\ req \in [Requests -> Handler]
    BY DEF Inv
  <1>2. \A x \in Requests \ {r} : req'[x] = req[x]
    BY <1>1 DEF Call, Transient, Fatal, Unusable, Usable, Wake
  <1>3. Touches(r, req'[r])
    BY <1>2, TouchesOne
  <1>4. row' = row /\ req[r].pc \in {"calling", "sleeping"}
    BY DEF Call, Transient, Fatal, Unusable, Usable, Wake
  <1>5. CASE Transient(r)
    <2>1. PICK d \in 0..Longest(req[r].analyzer) :
            req' = [req EXCEPT ![r] =
                      LET p == [req[r] EXCEPT !.elapsed = Later(@, d), !.last = "transient"]
                      IN IF RetryLeft(p) THEN [p EXCEPT !.pc = "sleeping"]
                         ELSE [p EXCEPT !.pc = "done", !.answer = "502"]]
      BY <1>5 DEF Transient
    <2>2. PICK p : p = [req[r] EXCEPT !.elapsed = Later(@, d), !.last = "transient"]
      OBVIOUS
    <2>3. /\ req'[r] = [p EXCEPT !.pc = "sleeping"]
             \/ req'[r] = [p EXCEPT !.pc = "done", !.answer = "502"]
      BY <1>1, <2>1, <2>2
    <2>4. p.score = req[r].score /\ p.answer = req[r].answer /\ p.payload = req[r].payload
      BY <1>1, <2>2 DEF Handler
    <2>5. DOMAIN p = DOMAIN req[r]
      BY <1>1, <2>2 DEF Handler
    <2> QED
      BY <1>1, <1>3, <1>4, <2>2, <2>3, <2>4, <2>5 DEF Handler
  <1>6. CASE Fatal(r) \/ Unusable(r)
    BY <1>1, <1>3, <1>4, <1>6 DEF Fatal, Unusable, Handler
  <1>7. CASE Usable(r)
    BY <1>1, <1>3, <1>4, <1>7 DEF Usable, Handler
  <1>8. CASE Wake(r)
    BY <1>1, <1>3, <1>4, <1>8 DEF Wake, Handler
  <1> QED
    BY <1>5, <1>6, <1>7, <1>8 DEF Call

\* From the verdict to the answer; a lead is inserted by save only.
LEMMA StoreDoes ==
  ASSUME Inv, Inv', NEW r \in Requests, Build(r) \/ Store(r) \/ Respond(r) \/ Crash(r)
  PROVE  LET Inserted == row' = [row EXCEPT ![r] =
                                   [score |-> req[r].score, status |-> DetermineStatus(req[r].score)]]
             n == req'[r]
         IN /\ Touches(r, n)
            /\ n.score = req[r].score /\ n.payload = req[r].payload
            /\ r \in Served
            /\ \/ /\ req[r].pc = "analysed" /\ n.pc = "saving" /\ row' = row
                  /\ n.answer = req[r].answer
               \/ /\ req[r].pc = "analysed" /\ n.pc = "done" /\ row' = row
                  /\ n.answer \in {"400", "422"}
                  /\ req[r].score \in 0..100 => Flawed(req[r].payload)
               \/ /\ req[r].pc = "saving" /\ n.pc = "saved" /\ Inserted
                  /\ n.answer = req[r].answer
               \/ /\ req[r].pc = "saving" /\ n.pc = "done" /\ Inserted /\ n.answer = "500"
               \/ /\ req[r].pc = "saved" /\ n.pc = "done" /\ row' = row /\ n.answer = "201"
               \/ /\ n.pc = "done" /\ row' = row /\ n.answer \in {"500", "lost"}
  <1>1. req[r] \in Handler /\ req \in [Requests -> Handler]
    BY DEF Inv
  <1>2. \A x \in Requests \ {r} : req'[x] = req[x]
    BY <1>1 DEF Build, Store, Save, SaveFails, SaveUnacked, Respond, Crash, Answer
  <1>3. Touches(r, req'[r])
    BY <1>2, TouchesOne
  <1>4. \A c : Answer(r, c) => /\ req'[r].pc = "done" /\ req'[r].answer = c
                               /\ req'[r].score = req[r].score
                               /\ req'[r].payload = req[r].payload
    BY <1>1 DEF Answer, Handler
  <1>5. \A p : req' = [req EXCEPT ![r].pc = p] =>
          /\ req'[r].pc = p /\ req'[r].answer = req[r].answer /\ req'[r].score = req[r].score
          /\ req'[r].payload = req[r].payload
    BY <1>1 DEF Handler
  <1>6. CASE Build(r)
    BY <1>3, <1>4, <1>5, <1>6 DEF Build, Served, ValidScore, Flawed
  <1>7. CASE Store(r)
    BY <1>3, <1>4, <1>5, <1>7 DEF Store, Save, SaveFails, SaveUnacked, Served
  <1>8. CASE Respond(r) \/ Crash(r)
    BY <1>3, <1>4, <1>8 DEF Respond, Crash, Served
  <1> QED
    BY <1>6, <1>7, <1>8

LEMMA FreshNext == ASSUME Inv, Inv', Fresh, [Next]_vars PROVE Fresh'
  <1> SUFFICES ASSUME NEW x \in Requests PROVE Unjudged(x)'
    BY DEF Fresh
  <1>1. Unjudged(x)
    BY DEF Fresh
  <1>2. ASSUME NEW r \in Requests, Touches(r, req'[r]), x # r PROVE Unjudged(x)'
    BY <1>1, <1>2 DEF Touches, Unjudged, Inv
  <1>3. ASSUME NEW r \in Requests, Arrive(r) PROVE Unjudged(x)'
    BY <1>2, <1>3, ArriveDoes DEF Unjudged
  <1>4. ASSUME NEW r \in Requests, Call(r) \/ Wake(r) PROVE Unjudged(x)'
    BY <1>1, <1>2, <1>4, CallDoes DEF Unjudged
  <1>5. ASSUME NEW r \in Requests, Build(r) \/ Store(r) \/ Respond(r) \/ Crash(r)
        PROVE  Unjudged(x)'
    BY <1>2, <1>5, StoreDoes DEF Unjudged
  <1>6. CASE UNCHANGED vars
    BY <1>1, <1>6 DEF vars, Unjudged
  <1> QED
    BY <1>3, <1>4, <1>5, <1>6 DEF Next

\* A step of one handler, seen through the mapping.
LEMMA Mapped ==
  ASSUME Inv, NEW r \in Requests, NEW n, Touches(r, n)
  PROVE  /\ Verdicts' = [Verdicts EXCEPT ![r] = n.score]
         /\ n.score = req[r].score => Verdicts' = Verdicts
         /\ Answers' = [Answers EXCEPT ![r] = n.answer]
         /\ n.answer = req[r].answer => Answers' = Answers
         /\ n.pc \notin {"idle", "done"} => Served' = Served \cup {r}
         /\ n.pc \notin {"idle", "done"} /\ r \in Served => Served' = Served
         /\ n.pc = "done" => Served' = Served \ {r}
         /\ n.pc = "done" /\ r \notin Served => Served' = Served
         /\ Flaws' \in {Flaws \cup {r}, Flaws \ {r}}
         /\ n.payload = req[r].payload => Flaws' = Flaws
  <1>1. \A x \in Requests : req'[x] = IF x = r THEN n ELSE req[x]
    BY DEF Inv, Touches
  <1>2. /\ Verdicts' = [Verdicts EXCEPT ![r] = n.score]
        /\ n.score = req[r].score => Verdicts' = Verdicts
    BY <1>1 DEF Verdicts
  <1>3. /\ Answers' = [Answers EXCEPT ![r] = n.answer]
        /\ n.answer = req[r].answer => Answers' = Answers
    BY <1>1 DEF Answers
  <1>4. /\ n.pc \notin {"idle", "done"} => Served' = Served \cup {r}
        /\ n.pc \notin {"idle", "done"} /\ r \in Served => Served' = Served
    BY <1>1 DEF Served
  <1>5. /\ n.pc = "done" => Served' = Served \ {r}
        /\ n.pc = "done" /\ r \notin Served => Served' = Served
    BY <1>1 DEF Served
  <1>6. /\ Flaws' \in {Flaws \cup {r}, Flaws \ {r}}
        /\ n.payload = req[r].payload => Flaws' = Flaws
    <2>1. CASE Flawed(n.payload)
      BY <1>1, <2>1 DEF Flaws
    <2>2. CASE ~Flawed(n.payload)
      BY <1>1, <2>2 DEF Flaws
    <2> QED
      BY <2>1, <2>2
  <1> QED
    BY <1>2, <1>3, <1>4, <1>5, <1>6

\* The class of a score, said in two ways (lead.py:35-41).
LEMMA SameClass == \A s \in Int : DetermineStatus(s) = Promise!Class(s)
  BY DEF DetermineStatus, Promise!Class

LEMMA PromiseStep ==
  ASSUME Inv, Inv', Fresh, [Next]_vars
  PROVE  [Promise!Next]_(Promise!vars)
  <1>1. CASE UNCHANGED vars
    BY <1>1 DEF vars, Promise!vars
  <1>2. ASSUME NEW r \in Requests, Arrive(r) PROVE Promise!Next
    <2>1. PICK n : n = req'[r]
      OBVIOUS
    <2>2. /\ Touches(r, n) /\ r \notin Served /\ n.score = None
          /\ row' = [row EXCEPT ![r] = None]
          /\ \/ n.pc = "calling" /\ n.answer = None
             \/ n.pc = "done" /\ n.answer \in {"500", "502"}
      BY <1>2, <2>1, ArriveDoes
    <2>3. Verdicts' = [Verdicts EXCEPT ![r] = None] /\ Answers' = [Answers EXCEPT ![r] = n.answer]
      BY <2>2, Mapped
    <2>4. Promise!Take(r)
      <3>1. Flaws' \in {Flaws \cup {r}, Flaws \ {r}}
        BY <2>2, Mapped
      <3> QED
        BY <2>2, <2>3, <3>1 DEF Promise!Take, Served, Verdicts, Flaws
    <2>5. CASE n.pc = "calling" /\ n.answer = None
      <3>1. Served' = Served \cup {r}
        BY <2>2, <2>5, Mapped
      <3>2. Promise!Open(r)
        BY <2>3, <2>4, <2>5, <3>1 DEF Promise!Open, Served, Answers
      <3> QED
        BY <3>2 DEF Promise!Next
    <2>6. CASE n.pc = "done" /\ n.answer \in {"500", "502"}
      <3>1. Served' = Served
        BY <2>2, <2>6, Mapped
      <3>2. Promise!TurnAway(r)
        BY <2>3, <2>4, <2>6, <3>1 DEF Promise!TurnAway, Served, Answers
      <3> QED
        BY <3>2 DEF Promise!Next
    <2> QED
      BY <2>2, <2>5, <2>6
  <1>3. ASSUME NEW r \in Requests, Call(r) \/ Wake(r)
        PROVE  Promise!Next \/ UNCHANGED Promise!vars
    <2>1. PICK n : n = req'[r]
      OBVIOUS
    <2>2. /\ Touches(r, n) /\ row' = row /\ r \in Served /\ n.payload = req[r].payload
          /\ \/ n.pc \in {"calling", "sleeping"} /\ n.score = req[r].score /\ n.answer = req[r].answer
             \/ n.pc = "done" /\ n.answer = "502" /\ n.score = req[r].score
             \/ n.pc = "analysed" /\ n.score \in Scores /\ n.answer = req[r].answer
      BY <1>3, <2>1, CallDoes DEF Served
    <2>3. req[r].score = None /\ row[r] = None
      BY <1>3, CallDoes DEF Fresh, Unjudged, Inv, RowOK
    <2>6. Flaws' = Flaws
      BY <2>2, Mapped
    <2>4. CASE n.pc # "done" /\ n.answer = req[r].answer
      <3>1. Served' = Served /\ Answers' = Answers
        BY <2>2, <2>4, Mapped
      <3>2. CASE n.score = req[r].score
        <4>1. Verdicts' = Verdicts
          BY <2>2, <3>2, Mapped
        <4> QED
          BY <2>2, <2>6, <3>1, <4>1 DEF Promise!vars, Served, Verdicts, Answers, Flaws
      <3>3. CASE n.score \in Scores
        <4>1. Verdicts' = [Verdicts EXCEPT ![r] = n.score]
          BY <2>2, Mapped
        <4>2. Promise!Judge(r)
          BY <2>2, <2>3, <2>6, <3>1, <3>3, <4>1
             DEF Promise!Judge, Served, Verdicts, Answers, Flaws
        <4> QED
          BY <4>2 DEF Promise!Next
      <3> QED
        BY <2>2, <2>4, <3>2, <3>3
    <2>5. CASE n.pc = "done" /\ n.answer = "502" /\ n.score = req[r].score
      <3>1. Verdicts' = Verdicts /\ Served' = Served \ {r} /\ Answers' = [Answers EXCEPT ![r] = "502"]
        BY <2>2, <2>5, Mapped
      <3>2. Promise!Close(r, "502")
        BY <2>2, <2>6, <3>1 DEF Promise!Close, Served, Verdicts, Answers, Flaws
      <3>3. Promise!Refused(r)
        BY <2>2, <2>3, <3>2 DEF Promise!Refused
      <3> QED
        BY <3>3 DEF Promise!Next
    <2> QED
      BY <2>2, <2>4, <2>5
  <1>4. ASSUME NEW r \in Requests, Build(r) \/ Store(r) \/ Respond(r) \/ Crash(r)
        PROVE  Promise!Next \/ UNCHANGED Promise!vars
    <2>1. PICK n : n = req'[r]
      OBVIOUS
    <2>2. PICK x : x = [score |-> req[r].score, status |-> DetermineStatus(req[r].score)]
      OBVIOUS
    <2>3. /\ Touches(r, n) /\ n.score = req[r].score /\ r \in Served
          /\ n.payload = req[r].payload
          /\ \/ /\ req[r].pc = "analysed" /\ n.pc = "saving" /\ row' = row
                /\ n.answer = req[r].answer
             \/ /\ req[r].pc = "analysed" /\ n.pc = "done" /\ row' = row
                /\ n.answer \in {"400", "422"}
                /\ req[r].score \in 0..100 => Flawed(req[r].payload)
             \/ /\ req[r].pc = "saving" /\ n.pc = "saved" /\ row' = [row EXCEPT ![r] = x]
                /\ n.answer = req[r].answer
             \/ /\ req[r].pc = "saving" /\ n.pc = "done" /\ row' = [row EXCEPT ![r] = x]
                /\ n.answer = "500"
             \/ /\ req[r].pc = "saved" /\ n.pc = "done" /\ row' = row /\ n.answer = "201"
             \/ /\ n.pc = "done" /\ row' = row /\ n.answer \in {"500", "lost"}
      BY <1>4, <2>1, <2>2, StoreDoes
    <2>4. Verdicts' = Verdicts /\ Flaws' = Flaws
      BY <2>3, Mapped
    <2>5. n.pc \notin {"idle", "done"} /\ n.answer = req[r].answer => Served' = Served /\ Answers' = Answers
      BY <2>3, Mapped
    <2>6. ASSUME NEW c, n.pc = "done", n.answer = c PROVE Promise!Close(r, c)
      <3>1. Served' = Served \ {r} /\ Answers' = [Answers EXCEPT ![r] = c]
        BY <2>3, <2>6, Mapped
      <3> QED
        BY <2>3, <2>4, <3>1 DEF Promise!Close, Served, Verdicts, Answers, Flaws
    <2>7. req[r].pc = "saving" /\ row' = [row EXCEPT ![r] = x] => Promise!Insert(r)
      <3> SUFFICES ASSUME req[r].pc = "saving", row' = [row EXCEPT ![r] = x]
                   PROVE  Promise!Insert(r)
        OBVIOUS
      <3>1. row[r] = None /\ req[r].score \in 0..100 /\ r \notin Flaws
        BY DEF Inv, RowOK, Flaws
      <3>2. DetermineStatus(req[r].score) = Promise!Class(req[r].score)
        BY <3>1, SameClass
      <3> QED
        BY <2>2, <2>3, <3>1, <3>2 DEF Promise!Insert, Served, Flaws
    <2>8. CASE n.pc = "saving" /\ row' = row /\ n.answer = req[r].answer
      BY <2>4, <2>5, <2>8 DEF Promise!vars, Served, Verdicts, Answers, Flaws
    <2>9. CASE /\ req[r].pc = "analysed" /\ n.pc = "done" /\ row' = row
               /\ n.answer \in {"400", "422"}
               /\ req[r].score \in 0..100 => Flawed(req[r].payload)
      <3>1. row[r] = None /\ req[r].score \in Scores /\ req[r].score # None
        BY <2>9, NoneIsNew DEF Inv, RowOK
      <3>2. req[r].score \in 0..100 => r \in Flaws
        BY <2>9 DEF Flaws
      <3>3. Promise!Close(r, n.answer)
        BY <2>6, <2>9
      <3>4. Promise!Refused(r)
        BY <2>9, <3>1, <3>2, <3>3 DEF Promise!Refused, Flaws
      <3> QED
        BY <3>4 DEF Promise!Next
    <2>10. CASE /\ req[r].pc = "saving" /\ n.pc = "saved" /\ row' = [row EXCEPT ![r] = x]
                /\ n.answer = req[r].answer
      <3>1. Promise!Store(r)
        BY <2>4, <2>5, <2>7, <2>10 DEF Promise!Store, Served, Verdicts, Answers, Flaws
      <3> QED
        BY <3>1 DEF Promise!Next
    <2>11. CASE /\ n.pc = "done" /\ n.answer \in {"500", "lost"}
                /\ \/ row' = row
                   \/ req[r].pc = "saving" /\ row' = [row EXCEPT ![r] = x]
      <3>1. Promise!Broken(r)
        BY <2>6, <2>7, <2>11 DEF Promise!Broken
      <3> QED
        BY <3>1 DEF Promise!Next
    <2>12. CASE req[r].pc = "saved" /\ n.pc = "done" /\ row' = row /\ n.answer = "201"
      <3>1. row[r] # None
        BY <2>12 DEF Inv, RowOK
      <3>2. Promise!Created(r)
        BY <2>6, <2>12, <3>1 DEF Promise!Created
      <3> QED
        BY <3>2 DEF Promise!Next
    <2> QED
      BY <2>3, <2>8, <2>9, <2>10, <2>11, <2>12
  <1> QED
    BY <1>1, <1>2, <1>3, <1>4 DEF Next

\* However many attempts, delays and failures a request goes through, whatever
\* the providers and the timeouts, it gets one verdict, inserts at most one
\* lead, which has that verdict and its class, and the status agrees with it
\* (ingest_and_qualify_lead.py:45-86): the pipeline implements LeadPromise.
THEOREM PromiseKept == Spec => KeepsPromise
  <1>1. Init => Fresh
    BY DEF Init, Idle, Fresh, Unjudged
  <1>2. Inv /\ Inv' /\ Fresh /\ [Next]_vars => Fresh'
    BY FreshNext
  <1>3. Init => Promise!Init
    BY NoneIsNew DEF Init, Idle, Promise!Init, Flawed, ValidEmail, ValidFields, Payloads
  <1>4. Inv /\ Inv' /\ Fresh /\ [Next]_vars => [Promise!Next]_(Promise!vars)
    BY PromiseStep
  <1> QED
    BY <1>1, <1>2, <1>3, <1>4, Invariant, PTL DEF Spec, KeepsPromise, Promise!Spec
================================================================================
