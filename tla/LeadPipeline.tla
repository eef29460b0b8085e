------------------------------ MODULE LeadPipeline -----------------------------
(***************************************************************************)
(* POST /api/v1/leads/ingest after the caller has been authenticated and   *)
(* charged: choice of the analyzer, the provider call with its timeout,    *)
(* retries and backoff, validation of the answer, construction of the      *)
(* Lead, the INSERT, and the HTTP status the caller gets                   *)
(* (leads_router.py, dependencies.py, llm_factory.py, gemini_analyzer.py,  *)
(* ingest_and_qualify_lead.py, lead_repository.py, error_handler.py).      *)
(*                                                                         *)
(* Requests share nothing here but the leads table; time is counted per    *)
(* request, in ticks.                                                      *)
(***************************************************************************)
EXTENDS Integers

CONSTANTS
  Requests,     \* requests that run side by side; a finished slot is reused
  MaxRetries,   \* llm_max_retries
  Timeout,      \* llm_timeout_seconds, in ticks
  BaseDelay,    \* llm_retry_base_delay, in ticks
  Slow,         \* bound: ticks an httpx call lasts while its chunks keep coming
  Stored,       \* BYOK providers accounts have saved (None: no BYOK)
  FernetKeys,   \* the state of a process's Fernet key
  Scores,       \* scores that providers return
  Faults,       \* whether the INSERT fails and workers die
  None

ASSUME ConstantsOK ==
  /\ MaxRetries \in Nat \ {0}
  /\ Timeout \in Nat \ {0}
  /\ BaseDelay \in Nat
  /\ Slow \in Nat /\ Slow >= Timeout
  /\ Stored \subseteq {"gemini", "openai", "anthropic", "deepseek", "mistral", None}
  /\ FernetKeys \subseteq {"current", "changed", "unset"}
  /\ Scores \subseteq Int
  /\ Faults \in BOOLEAN

\* What the proofs need to know of powers of two: they are positive, they double
\* and they grow.  (Arithmetic, not a property of the code.)
ASSUME PowersOfTwo ==
  \A m, n \in 0..MaxRetries :
    /\ 2^n \in Nat \ {0} /\ 2^(n + 1) = 2 * 2^n
    /\ m <= n => 2^m <= 2^n

VARIABLES
  req,   \* the handler of each request
  row    \* the leads row each request has inserted, or None

vars == <<req, row>>

Analyzers == {"platform", "gemini", "openai", "anthropic"}
Payloads == {"good", "odd_email", "blank"}
QualificationStatus == {"QUALIFIED", "REVIEW_NEEDED", "DISQUALIFIED"}
Outcomes == {"transient", "fatal", "unusable", "usable"}
Codes == {"201", "400", "422", "500", "502"}
Lead == [score : 0..100, status : QualificationStatus]

ASSUME NoneIsNew ==
  /\ None \notin Analyzers \cup Payloads \cup Outcomes \cup Codes
  /\ None \notin Lead \cup Scores

\* asyncio.wait_for bounds the whole call; the timeout of httpx bounds each
\* read, so an answer that keeps trickling in is waited for.
WaitFor == {"platform", "gemini"}
Longest(a) == IF a \in WaitFor THEN Timeout ELSE Slow

\* Every attempt may take the whole timeout, and each but the last is followed
\* by its delay: BaseDelay * (1 + 2 + 4 + ...).
Deadline == MaxRetries * Timeout + BaseDelay * (2^(MaxRetries - 1) - 1)

\* The longest request that is followed; only broken variants get there.
MaxElapsed == (IF Slow > Deadline THEN Slow ELSE Deadline) + 1
Later(e, d) == IF e + d > MaxElapsed THEN MaxElapsed ELSE e + d

Idle == [pc |-> "idle", analyzer |-> None, payload |-> None, attempt |-> 0,
         elapsed |-> 0, last |-> None, score |-> None, answer |-> None]

Request == [pc : {"idle", "calling", "sleeping", "analysed", "saving", "saved", "done"},
            analyzer : Analyzers \cup {None}, payload : Payloads \cup {None},
            attempt : 0..MaxRetries, elapsed : 0..MaxElapsed,
            last : Outcomes \cup {None},
            score : Scores \cup {None}, answer : Codes \cup {"lost", None}]

TypeOK ==
  /\ req \in [Requests -> Request]
  /\ row \in [Requests -> Lead \cup {None}]

--------------------------------------------------------------------------------
(* Getting an analyzer *)

\* get_use_case and create_analyzer: a saved provider counts only with a key
\* that could be decrypted; without a Fernet key the platform's own is used.
Resolve(stored, fernet) ==
  CASE stored = None \/ fernet = "unset" -> "platform"
    [] stored # None /\ fernet = "changed" -> "undecryptable"
    [] stored # None /\ fernet = "current" ->
         IF stored \in Analyzers THEN stored ELSE "unsupported"

\* The handler ends with an HTTP status.
Answer(r, code) ==
  req' = [req EXCEPT ![r].pc = "done", ![r].answer = code]

Arrive(r) ==
  /\ req[r].pc \in {"idle", "done"}
  /\ row' = [row EXCEPT ![r] = None]
  /\ \E stored \in Stored, fernet \in FernetKeys, p \in Payloads :
       LET a == Resolve(stored, fernet)
           new == [Idle EXCEPT !.payload = p]
       IN \/ /\ a \in Analyzers
             /\ req' = [req EXCEPT ![r] = [new EXCEPT !.pc = "calling", !.analyzer = a,
                                                      !.attempt = 1]]
          \/ /\ a = "unsupported"
             /\ req' = [req EXCEPT ![r] = [new EXCEPT !.pc = "done", !.answer = "502"]]
          \/ /\ a = "undecryptable"
             /\ req' = [req EXCEPT ![r] = [new EXCEPT !.pc = "done", !.answer = "500"]]

--------------------------------------------------------------------------------
(* The provider call.  It ends after d ticks in one of four ways. *)

\* Bug: the last attempt but one is taken for the last.
RetryLeftEarly(q) == q.analyzer = "platform" /\ q.attempt + 1 < MaxRetries

\* Bug: the attempts are counted from zero.
OneRetryTooMany(q) == q.analyzer = "platform" /\ q.attempt <= MaxRetries

\* Only the platform's analyzer retries.
RetryLeft(q) == q.analyzer = "platform" /\ q.attempt < MaxRetries

\* A TimeoutError or ConnectionError.
Transient(r) ==
  /\ req[r].pc = "calling"
  /\ \E d \in 0..Longest(req[r].analyzer) :
       LET q == [req[r] EXCEPT !.elapsed = Later(@, d), !.last = "transient"]
       IN req' = [req EXCEPT ![r] =
                    IF RetryLeft(q) THEN [q EXCEPT !.pc = "sleeping"]
                    ELSE [q EXCEPT !.pc = "done", !.answer = "502"]]
  /\ UNCHANGED row

\* An empty answer, or any other exception (an HTTP error of the provider).
Fatal(r) ==
  /\ req[r].pc = "calling"
  /\ \E d \in 0..Longest(req[r].analyzer) :
       req' = [req EXCEPT ![r].pc = "done", ![r].answer = "502", ![r].last = "fatal",
                          ![r].elapsed = Later(@, d)]
  /\ UNCHANGED row

\* What the parser lets through: the platform's schema bounds the score,
\* _parse_json_response does not.
Parses(a, score) == a = "platform" => score \in 0..100

\* An answer that is no JSON, lacks a field or has one out of range.
Unusable(r) ==
  /\ req[r].pc = "calling"
  /\ \E d \in 0..Longest(req[r].analyzer) :
       req' = [req EXCEPT ![r].pc = "done", ![r].answer = "502", ![r].last = "unusable",
                          ![r].elapsed = Later(@, d)]
  /\ UNCHANGED row

Usable(r) ==
  /\ req[r].pc = "calling"
  /\ \E d \in 0..Longest(req[r].analyzer), s \in Scores :
       /\ Parses(req[r].analyzer, s)
       /\ req' = [req EXCEPT ![r].pc = "analysed", ![r].last = "usable", ![r].score = s,
                             ![r].elapsed = Later(@, d)]
  /\ UNCHANGED row

\* Bug: the exponent is the number of the attempt.
WakeLate(r) ==
  /\ req[r].pc = "sleeping"
  /\ req' = [req EXCEPT ![r].pc = "calling", ![r].attempt = @ + 1,
                        ![r].elapsed = Later(@, BaseDelay * 2^(req[r].attempt))]
  /\ UNCHANGED row

\* Bug: the attempt is not counted.
WakeUncounted(r) ==
  /\ req[r].pc = "sleeping"
  /\ req' = [req EXCEPT ![r].pc = "calling",
                        ![r].elapsed = Later(@, BaseDelay * 2^(req[r].attempt - 1))]
  /\ UNCHANGED row

\* The backoff is over.
Wake(r) ==
  /\ req[r].pc = "sleeping"
  /\ req' = [req EXCEPT ![r].pc = "calling", ![r].attempt = @ + 1,
                        ![r].elapsed = Later(@, BaseDelay * 2^(req[r].attempt - 1))]
  /\ UNCHANGED row

--------------------------------------------------------------------------------
(* The lead *)

\* Bug: the threshold itself is left out of the class above it.
DetermineStatusStrictly(score) ==
  CASE score > 70                  -> "QUALIFIED"
    [] score > 40 /\ score <= 70   -> "REVIEW_NEEDED"
    [] score <= 40                 -> "DISQUALIFIED"

DetermineStatus(score) ==
  CASE score >= 70                 -> "QUALIFIED"
    [] score >= 40 /\ score < 70   -> "REVIEW_NEEDED"
    [] score < 40                  -> "DISQUALIFIED"

\* The constructors: EmailStr lets addresses through that the domain's pattern
\* does not, and a field of blanks has a length.
ValidEmail(p) == p # "odd_email"
ValidScore(s) == s \in 0..100
ValidFields(p) == p # "blank"
Flawed(p) == ~ValidEmail(p) \/ ~ValidFields(p)

\* Email, then LeadScore, then the fields of Lead: the first that is not valid
\* raises.
Build(r) ==
  LET p == req[r].payload
      valid == ValidEmail(p) /\ ValidScore(req[r].score)
  IN /\ req[r].pc = "analysed"
     /\ \/ ~valid /\ Answer(r, "422")
        \/ valid /\ ~ValidFields(p) /\ Answer(r, "400")
        \/ valid /\ ValidFields(p) /\ req' = [req EXCEPT ![r].pc = "saving"]
     /\ UNCHANGED row

\* The transaction of save commits.
Save(r) ==
  /\ req[r].pc = "saving"
  /\ row' = [row EXCEPT ![r] = [score |-> req[r].score,
                                status |-> DetermineStatus(req[r].score)]]
  /\ req' = [req EXCEPT ![r].pc = "saved"]

\* Bug: a failed INSERT is swallowed.
SaveSwallowed(r) ==
  /\ Faults
  /\ req[r].pc = "saving"
  /\ Answer(r, "201")
  /\ UNCHANGED row

\* It raises and is rolled back.
SaveFails(r) ==
  /\ Faults
  /\ req[r].pc = "saving"
  /\ Answer(r, "500")
  /\ UNCHANGED row

\* It commits, but the acknowledgement is lost: an exception all the same.
SaveUnacked(r) ==
  /\ Faults
  /\ req[r].pc = "saving"
  /\ row' = [row EXCEPT ![r] = [score |-> req[r].score,
                                status |-> DetermineStatus(req[r].score)]]
  /\ Answer(r, "500")

Respond(r) ==
  /\ req[r].pc = "saved"
  /\ Answer(r, "201")
  /\ UNCHANGED row

\* The worker dies at any await of the handler; the caller gets no answer.
Crash(r) ==
  /\ Faults
  /\ req[r].pc \notin {"idle", "done"}
  /\ Answer(r, "lost")
  /\ UNCHANGED row

--------------------------------------------------------------------------------

Init ==
  /\ req = [r \in Requests |-> Idle]
  /\ row = [r \in Requests |-> None]

Call(r) == Transient(r) \/ Fatal(r) \/ Unusable(r) \/ Usable(r)
Store(r) == Save(r) \/ SaveFails(r) \/ SaveUnacked(r)

Next == \E r \in Requests :
          \/ Arrive(r) \/ Call(r) \/ Wake(r) \/ Build(r) \/ Store(r) \/ Respond(r)
          \/ Crash(r)

Spec == Init /\ [][Next]_vars

\* The event loop runs handlers whose await is over; calls end (wait_for, and
\* for httpx a provider that stops sending), sleeps end, the database answers.
Fairness ==
  \A r \in Requests : WF_vars(Call(r) \/ Wake(r) \/ Build(r) \/ Store(r) \/ Respond(r))

FairSpec == Spec /\ Fairness

--------------------------------------------------------------------------------
(* Properties *)

Promise == INSTANCE LeadPromise WITH
             open <- {r \in Requests : req[r].pc \notin {"idle", "done"}},
             flawed <- {r \in Requests : Flawed(req[r].payload)},
             verdict <- [r \in Requests |-> req[r].score],
             lead <- row,
             answer <- [r \in Requests |-> req[r].answer]

\* However many attempts and failures a request goes through, it gets one
\* verdict and inserts at most one lead, which has that verdict and its class
\* and is not touched again; the one answer agrees with it, and blames the
\* payload or the provider as they deserve, but for a score that is out of
\* range (ingest_and_qualify_lead.py:45-86, lead.py:35-41).
KeepsPromise == Promise!Spec

\* The status tells what happened to the lead, whichever step failed: 201 only
\* for a lead that is in the table, 400, 422 and 502 only for one that is not,
\* and 500 or no answer leave it open (lead_repository.py:20-35 commits before
\* the handler answers).
AnswerMatchesTable ==
  \A r \in Requests : req[r].pc = "done" =>
    /\ req[r].answer = "201" => row[r] # None
    /\ req[r].answer \in {"400", "422", "502"} => row[r] = None

\* The event loop is given back within the sum of all timeouts and delays
\* (gemini_analyzer.py:81-138) by every call that wait_for bounds.
WithinDeadline ==
  \A r \in Requests : req[r].analyzer \in WaitFor => req[r].elapsed <= Deadline

\* "All N retry attempts exhausted" (gemini_analyzer.py:136-138): the platform's
\* analyzer gives up on a transient failure after exactly llm_max_retries calls.
GivesUpAfterAllRetries ==
  \A r \in Requests :
    req[r].analyzer = "platform" /\ req[r].answer = "502" /\ req[r].last = "transient"
      => req[r].attempt = MaxRetries

\* Every request is answered, whatever the provider and the database do.
EveryLeadAnswered ==
  \A r \in Requests : req[r].pc # "idle" ~> req[r].pc = "done"
================================================================================
