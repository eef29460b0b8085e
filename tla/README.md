# Verification of the AI Context Engine backend

TLA+ models, TLC runs and TLAPS proofs about the FastAPI service in this
repository: API-key authentication with monthly quotas, subscription webhooks
and their delivery, accounts and password resets, usage alerts, the lead
qualification pipeline and the streams of generated code up to the dashboard.

Paths below are relative to the repository root; `api/`, `application/`,
`domain/` and `infrastructure/` are below `src/`.

## 1. The system

`gunicorn` runs four uvicorn workers (`Dockerfile:37`), each an asyncio event
loop with memory of its own, over one PostgreSQL database. Everything that is
shared is a row of `clients` or `leads`. Handlers are coroutines: between two
awaits nothing else runs on the worker; at an await anything may.

| Component | State | Operations | Module |
|---|---|---|---|
| Authentication and metering (`api/middleware/api_key_auth.py`) | per worker `_client_cache`: key hash → ClientModel object, 30 s; the row's `monthly_requests_used` | look up or SELECT, check status and quota, charge, count in the object, start the alert task | `ApiKeyAuth` |
| Subscription webhooks (`api/v1/billing_router.py`) | the row's status, plan, limit, counter, marks | activate, update plan, set status, reactivate; invalidate one worker's cache | `ApiKeyAuth` (the transactions against the caches), `Billing` (what the events mean and how they arrive) |
| Checkout (`api/v1/billing_router.py`) | none | the plans that can be bought | `Billing` (a guard of `Buy`) |
| Dashboard keys and BYOK (`api/v1/auth_router.py:324-411`) | the row's key hash, provider, encrypted key | regenerate, set, remove | `ApiKeyAuth` (against the caches); regeneration also in `Accounts` |
| Usage alerts (`application/services/usage_alert_service.py`) | `alert_80_sent_at`, `alert_95_sent_at`; background tasks | check, send, mark | `UsageAlerts` |
| Lead pipeline (`leads_router`, `dependencies`, `llm_factory`, `gemini_analyzer`, use case, `Lead`, `lead_repository`, `error_handler`) | one handler per request; the `leads` table | choose the analyzer, call, back off, validate, insert, answer | `LeadPipeline` |
| Accounts (`api/v1/auth_router.py:106-352`) | the row's key and password hash, reset token and expiry; reset mails under way | register, log in, profile, regenerate the key, forgot, reset | `Accounts` |
| Code generation streams (`generate_router`, `streaming_factory`) | a generator per response | provider events to SSE frames | `CodeStream` |
| Dashboard page (`static/dashboard.html`) | text area, status tag, button, mode; buffer per request; history in localStorage | start, read, complete, fail; switch mode, open an entry, reload | `CodeStream` (login, profile, stars: not modelled) |
| The payment provider (external) | subscriptions, events that wait for their 200 | buy, renew, fail, change, cancel, resume, end, refund; send again, give up | `Billing` (environment) |
| Rate limiter | a counter per worker and address | hit | not modelled (library) |
| Project context, prompt assembler | none | validation, string assembly | not modelled |
| E-mail adapters | none | `send_email` | its outcomes, in `UsageAlerts` |
| Settings, encryption, health, migrations | none | — | parameters, or not modelled |

How they interact. A metered endpoint depends on authentication, which reads
what webhooks and dashboard calls write, through a cache that only the writing
worker invalidates. A charge starts an alert task that shares the cached object
with later requests. An activation clears the marks the alert tasks set, and
holds the row lock during an e-mail, so charges wait for it. A lead request has
been charged before its pipeline starts. A generation request has been charged
before its stream opens; its frames go to a page whose requests share one text
area. Registration makes the row and the key that authentication looks up, and
an event of the provider finds the row by the address it was registered with:
an event that comes earlier finds nothing.

What is hard here: interleavings at awaits and across workers, state that is
read before an await and used after it, a cache that outlives the commit it
should have seen, a row lock held across an e-mail, charges that commit without
being acknowledged, killed workers, retries with timeouts, deliveries that
overlap because the provider has given one up. `PROJECT.json`
lists each hazard at its line with the property that covers it.

What makes the parts correct:

* metering: one committed charge per admitted metered request, none for the
  others, no request refused while quota is left in the row of a current
  object, a bounded overdraft, every request answered;
* webhooks and keys: a change in the row reaches every cache in the end; the row
  follows the last event however often and however overlapped its delivery was;
  who pays is served in the end, and a paid quota returns;
* accounts: a key that was handed out opens its account until a regeneration
  replaces it, a used reset link is dead, the newest one works, nothing but a
  mailed link in time changes a password, every call ends, the sessions of an
  old password end;
* alerts: no mark without a mail, no alert before its time, the urgent one is
  not shadowed by the early one;
* leads: the HTTP status tells whether the lead was stored, the time is bounded
  by the configured timeouts, all configured attempts are made, every request
  ends;
* streams: what the page saves is what the provider sent, up to the length an
  entry keeps, nothing is shown twice, every way a stream can end ends the
  request and hands back the button.

## 2. The modules

| Module | What it is |
|---|---|
| `QuotaLedger` | what metering promises: a counter per client that only an activation resets, at most one paid unit per request, an answer per request |
| `ApiKeyAuth` | the core: authentication, metering, webhook transactions, key regeneration and BYOK on several workers |
| `ApiKeyAuth_proofs` | its types, the cached counters, row locks, the refinement |
| `Overdraft_proofs` | the bound on the overdraft, on top of these |
| `KeyCache_proofs` | stale cache entries, whose account a key opens, and when the quota is exact |
| `MCApiKeyAuth` | event sets and symmetry for TLC |
| `UsageAlerts`, `UsageAlerts_proofs`, `MCUsageAlerts` | the alert tasks of one account |
| `LeadPromise` | what ingesting a lead promises: one verdict, at most one row with that verdict and its class, one answer that agrees |
| `LeadPipeline`, `LeadPipeline_proofs`, `MCLeadPipeline` | one lead request from the analyzer to the status; implements `LeadPromise` |
| `CodeStream`, `CodeStream_proofs`, `MCCodeStream` | the requests of one dashboard page, from the provider's events to the history |
| `Accounts`, `Accounts_proofs`, `MCAccounts` | registration, login, profile, new API keys and password reset |
| `Billing`, `Billing_proofs`, `MCBilling` | subscriptions at a provider, their events and the attempts to deliver them |

Each `..._proofs` module extends the module it is about, `KeyCache_proofs` by way of
`Overdraft_proofs`; nothing else uses it.

Operators whose comment starts with `Bug:` are variants of the operator below
them, each with a plausible mistake; no specification uses them. They show that
the properties tell the code from its neighbours: with the variant in place of
the original, TLC reports the property violated.

### ApiKeyAuth

Variables and what they are in the code: `db` the committed `clients` rows (key
hash, status, limit, counter, whether BYOK is configured); `lock` the
transaction that has UPDATEd a row and not committed; `issued` the key hashes
handed out so far; `cache` the `_client_cache` of each worker, with the ticks an
entry has left; `heap` the ClientModel objects, kept while a cache entry or a
request refers to them; `req` the requests between two awaits; `answer` their
outcomes; `call` the webhook deliveries and dashboard calls between two awaits.
`current` and `unacked` are auxiliary: the objects loaded since the client's
last activation or plan change, and how many acknowledgements were lost.

A request is `ArriveHit` (no await before the charge: one step) or `ArriveMiss`,
`SelectFound`/`SelectNone`, `Resume`; then `Charge` (UPDATE and COMMIT, which
wait for the row lock) and `Settle` (the increment of the object). `DbError`
raises before an effect, `ChargeUnacked` after it. A webhook is `EventSelect`,
`EventUpdate` (the row lock; the invalidation precedes the commit, as in the
code), `EventCommit` or `EventAbort`. `regenerate_key` reads, commits in another
session, then invalidates the hash it read; `RegenerateUnacked` commits, and the
lost acknowledgement skips the invalidation and keeps the key from its owner.

`LedgerSpec` is `QuotaLedger` with the charged requests as `paid` and the
activations that hold a row lock as `renewing`: `Reset` is possible only between
the `Begin` of an activation and its end, so that no other event, and no request,
may clear a counter.

Reductions. The UPDATE and the COMMIT of a charge are one step: nothing else
the model observes happens between them but waiting, which the lock of the next
statement covers. UPDATE and `invalidate_cache` of a webhook are one step: no
await separates them. Events for unknown e-mails change nothing and are left
out, as is a request without a key (401). Requests arrive with issued keys; a
key that has been replaced takes the unknown-key path. Without BYOK (`Byok`)
metered and unmetered endpoints charge alike, so requests that miss the cache
arrive at metered ones only. The alert task is in `UsageAlerts`.

### UsageAlerts

One account, because alerts of two accounts share nothing. A task is created by
`Settle`, runs later (`Start` reads the object as it is then), awaits the mail
(`MailReturns`: accepted, or refused by Resend with a status the adapter only
logs; `MailRaises`), awaits the UPDATE (`Mark`). The object is never told of the
mark.

The requests are those of `ApiKeyAuth` as far as the tasks see them: a hit
(`ArriveHit`), or a miss whose SELECT is awaited and whose object is then cached
(`ArriveMiss`, `Select`, `Resume`), so an object is loaded by a request and by
nothing else; the quota check on the object; `Charge`, `Settle`; failures before
an effect and a charge whose acknowledgement is lost. Status and BYOK appear as a
request that ends after it has its object. `EventUpdate` takes the row lock and
drops the receiving worker's entry; `ActivateCommit` starts a period with a limit,
`PlanCommit` moves the limit within one, and reaches no object in use. An event
that changes the status only is a change of plan to the limit the row has. The
SELECT of an event changes nothing here and is left out.

`NoEarlyAlert` measures an alert by the limit its object was loaded with. By the
limit of the row it would be false: after a raise, an object cached on another
worker, or in use, mails about the old limit (`PROJECT.json`, hazard at
`billing_router.py:208`).

### LeadPipeline

Starts when the caller has been charged. `Arrive` is `get_use_case` and
`create_analyzer`; `Transient`, `Fatal`, `Unusable`, `Usable` end the provider
call after any time the timeout allows; `Wake` ends the backoff; `Build`
constructs `Email`, `LeadScore` and `Lead` in the order of the code; `Save`
inserts, `Respond` answers. Time is counted per request in ticks. `wait_for`
bounds a whole call; the timeout of httpx bounds each read, so OpenAI and
Anthropic calls may last longer (`Slow`, a bound of the model). Prompts, JSON
and summaries are abstracted to whether the answer parses, and its score.

`KeepsPromise` is `LeadPromise` with the handlers that have not ended as the open
requests, the score the use case goes on with as the verdict and the table as the
leads. The calls, retries and delays are stutters; a commit whose acknowledgement
is lost inserts and ends the request in one step (`Broken`). A refusal says whose
fault it was: without a verdict 502, with a score in range 400 or 422 and only
for a payload the domain will not have (`flawed`). For a score out of range the
promise leaves open who is blamed, because the documents (`leads_router.py:42`,
502) and the code (`error_handler.py:21`, 422) disagree; it is listed in
section 4.

`WithinDeadline` speaks of the calls under `wait_for`: the platform's provider
and a client's own Gemini. Nothing bounds an OpenAI or Anthropic request.

### CodeStream

Variables: `gen` the generator behind each response, `said` how many pieces its
provider has sent, `wire` the frames the page has not read to their end,
`reader` each call of `streamRequest` (phase, whether `buffer` holds the
beginning of a frame, the label and the mode it started with), `page` what the
calls share, `hist` the history. `quiet` and `mixed` are auxiliary: whether the
user interfered with a request, and with the label of the button.

`Parse` is the table of the three parsers over the events of a provider;
`ProviderEvent` is the step of `event_stream` for one of them. `Read` takes any
number of whole frames and perhaps the beginning of the next one, because a read
returns bytes and not frames; multi-byte characters, which the decoder keeps in
the same way, are covered by the same cut. Of what was read, `Visible` is what
`Shown` appends: a `done` frame has nothing to show and is the last of its
response. `Complete`, `ReadRejects` and `Refuse`
are the ways a call ends. `SetMode`, `OpenEntry`, `Forget`, `Reload` and a second
`Start` (Ctrl+Enter is not blocked while a request runs) are what a user can do
in between.

The response's headers and the start of the generator are one step, since the
page does nothing between them. Pieces of text are numbers. Of the text an entry
keeps the first `SaveLimit` pieces, as the page keeps the first 5000 characters
(`dashboard.html:847`), and `setItem` may fail, which the page swallows
(`:843`). `HistoryAsSent` compares with what was sent, cut in the same way; what
was sent need not be a complete answer, since a failure reported within a compat
or Anthropic stream is skipped like a frame without text
(`streaming_factory.py:148`). Stars, statistics and highlighting are left out.
The prompts and the charge that precede the stream are not part of the module.

### Accounts

Variables: `account` the row of each address (its key, the password, the reset
token and the time it has left); `call` what each caller is waiting for, one
coroutine between two awaits; `held` the API keys that were handed out, with
their addresses; `minted` how many keys have been generated; `jwt` the time left of
the last access token each password got; `outbox` and `inbox` the reset mails.
Auxiliary: `newest` the last link stored for an address, `made` what each link
was made for and its age, `used` the links a reset was committed with, `crossed`
the links stored while a reset of their account was under way, `replaced` the
keys a committed regeneration has overwritten. Keys and links are numbered,
because each is fresh.

`RegisterSelect` and `RegisterInsert` or `RegisterDuplicate` are two sessions
(`auth_router.py:109`, `:124`), which is why the unique constraint matters.
`LoginSelect` and `LoginAnswer` are login, `GetMe` is the profile (one step: it
reads a row and changes nothing, whenever it answers), `RegenerateSelect`, `RegenerateCommit` and `RegenerateAnswer` the
regeneration of the key (`auth_router.py:334-352`), which needs a token and
overwrites the key of the row it has read by id. `ForgotSelect` has made the
token before it looks; then `ForgotCommit` and `ForgotAnswer`, or `ForgotRaises`
(with `Autobegin` always, without it only under `Faults`). `ResetSelect` reads
the row by token, `ResetInTime` or `ResetExpired` compares what was read with
the clock, `ResetCommit` writes by id, and the answer changes nothing.
`MailGoes` and `MailLost` are the reset mail, a task nobody awaits. `CallBreaks`
is a database call that raises or a worker that dies, `Tick` the clock.

`Autobegin` is the session of `forgot_password`: TRUE is SQLAlchemy's, whose
SELECT leaves a transaction behind so that `session.begin()` raises (finding 4);
FALSE is the session the handler was written for and the tests mock. The
theorems hold for both. TLC checks the properties with FALSE, since only then do
links exist, and `ForgotServesAccounts` with TRUE.

Reductions. A call whose first SELECT refuses it (409, 401, 400) changes nothing
and is no step. No handler accepts a refresh token, so there are none. The
welcome mail is awaited and its failure swallowed: the outcome changes nothing.
People present the links they were mailed; tokens are too long to guess.
Workers do not appear, because these handlers keep nothing in memory; what a
regeneration does to the caches is the subject of `ApiKeyAuth`.

### Billing

Variables: `account` status, plan and counter of each address's row; `sub` what
the provider holds of the address; `queue` the events that wait for a 200; `at`
the attempts the service works on. Auxiliary: `known` the subscription as of the
last event that was answered, `done` whether the first event of the queue is in
the row, `astray` whether an event came before the account, or an overtaken
attempt wrote last; `faults` counts faults.

`Applied` is `_activate_subscription`, `_update_plan`, `_set_status` and
`_reactivate`, chosen by the event names of `lemonsqueezy_webhook` and
`paypro_webhook`; `PlanOf` is the mapping of names to plans, in the order the
code tries them. An attempt is `Send`, then `Found`, `NotFound` or `Unhandled`,
then `Commit`, then `Answer`; `Breaks` is the 500 or the dead worker, before or
after the commit, and `GiveUp` a provider that waits no longer while the handler
goes on. The standing of an attempt says who still counts on it: `awaited`,
`given_up`, `answered` (its event has had its 200 through another attempt) or
`overtaken` (a newer event has been written since).

The provider is the environment: it reports the changes of a subscription in
order and sends each event again until it is answered with 200. `Register` and
`Meter` are the rest of the service as far as the row is concerned. `Meter` adds
to whatever is in the row: the check that precedes it looks at a cached copy, so
the counter may pass the limit (finding 1). Reductions:
UPDATE and COMMIT are one step, since the row lock and the caches are the
subject of `ApiKeyAuth`; signatures and JSON are left out; an address has one
subscription at a time.

## 3. The runs

| Run | Checks | Shows |
|---|---|---|
| `auth_events` | `CurrentNotAhead`, `OverdraftBounded`, `LedgerSpec` | activation, plan change, suspension, reactivation, a crash and a lost acknowledgement against two requests. The overdraft is bounded by used ≤ (W·K+R)·(top+R−1)+unacked, for W workers, K keys, R requests: that many objects can each spend the greatest limit. A counter is reset by an activation under way and by nothing else |
| `auth_live` | `TypeOK`, `NoOrphanLock`, `StaleViewsFade`, `EveryRequestAnswered`, `SuspensionTakesHold`, `ByokTakesHold`, `OldKeyDies` | suspension, regeneration (also one that is committed and not acknowledged), BYOK changes, failures, crashes, under fairness |
| `alerts_safety` | `TypeOK`, `MarkedAfterMail`, `NoEarlyAlert` | two tasks on objects of different periods and limits, failing mails, dying workers, activations, changes of plan, aborted events |
| `alerts_live` | `NoEarlyAlert`, `UrgentAlertGoesOut` | limit 5, where 80% is 4 and 95% is 5; no faults; fairness |
| `leads_pipeline` | `TypeOK`, `AnswerMatchesTable`, `WithinDeadline`, `GivesUpAfterAllRetries`, `EveryLeadAnswered`, `KeepsPromise` | every provider, payload and failure; the refinement of `LeadPromise` |
| `stream_page` | `TypeOK`, `HistoryAsSent`, `NoPieceTwice`, `ButtonComesBack`, `EveryStreamEnds` | two requests at once or in turn, reads that cut frames, every end of a stream, and a user who interferes |
| `accounts` | `TypeOK`, `HeldKeyOpens`, `UsedLinkIsDead`, `NewestLinkWorks`, `OnlyTheMailedLink`, `EveryCallEnds`, `OldSessionsDie` | two callers of one address: registrations, logins, regenerations, links and resets in any order, with lost mails, failing calls and expiry |
| `billing` | `TypeOK`, `RowFollowsProvider`, `QuietRowCurrent`, `PaidAccountOpens`, `PaidQuotaReturns` | the life of a subscription at either provider, with attempts that fail, overlap and are made again, before and after the account exists |
| `auth_overdraft` | `QuotaEnforced` (violated) | finding 1 |
| `auth_oldkey` | `OldKeyDiesAtOnce` (violated) | finding 2 |
| `alerts_duplicate` | `NoDuplicateAlert` (violated) | finding 3 |
| `accounts_forgot` | `ForgotServesAccounts` (violated) | finding 4 |

Bounds. Two workers are enough for one to miss what the other did, two requests
to share an object, one call to hold a lock against them; `TTL = 1` makes an
entry live or dead, which is all a lookup asks. Limits of 1 and 2 put the
boundary of the quota within reach; there are as many objects as references
(`EnoughObjs`). `MaxUnacked` bounds lost acknowledgements, because each adds one
to the counter; `MaxUsed` the charges in a period (in `billing` one more than
the largest limit); `Tasks` the alert tasks alive
at a time (in the code they are unbounded); `MaxElapsed` time beyond the
deadline. The counter of `ApiKeyAuth` needs no bound: the limit of the objects
bounds it. Lead requests share nothing, so one slot, reused, is enough.

Two pieces are enough to lose, repeat or swap one, a third to mix
with them (`MaxTexts`); two requests, each used once, to overlap; `HistLimit = 1`
makes the cap of the history bite, `SaveLimit = 2` the one of an entry. One of the
two is answered by Gemini, the other by a provider under a timeout.

`HistoryAsSent` and `ButtonComesBack` speak of requests the user let alone.
Without that condition both fail in the code: two requests started with
Ctrl+Enter write into one text area and save the mixture; the second saves
"Working..." as the label to restore; a mode switch in mid-stream files the entry
under the new mode. Nothing in the repository promises otherwise, so they are
listed as hazards and not as findings.

Accounts of two addresses share nothing but the reset tokens, which are looked
up alone and are unique, so one address is enough; two callers race for it, and
two links (`MaxLinks`) are an old one and a new one, two keys (`MaxKeys`) one
that was handed out and one that replaces it, or two registrations. `LinkLife =
TokenLife = 1` makes a link or a token live or dead. In `billing`, two attempts
are enough for one to be given up and another made, a queue of two for an event
to overtake one (`MaxQueue`), one fault (`MaxFaults`) for each way astray; with
limits of 1, 1 and 2 a quota is used up at once.

The bound `OverdraftBounded` is checked in `auth_events`, which has one worker for
the sake of every kind of event, and proved for every number of workers.
`auth_overdraft`, which exhibits an overdraft, has two workers, because one worker
that serves one request at a time makes none (`SequentialExact`).

Symmetry is used in the safety runs only, over requests, objects, workers and
tasks, which no specification orders.

Fairness. Weak fairness for what the event loop runs as soon as its await is
over; strong fairness for statements that wait for a row lock, because
PostgreSQL queues the waiters and the lock is released again and again; weak
fairness for `EventCommit`, because the e-mail before it has a 15-second timeout
(`resend_adapter.py:19`) — with the SMTP adapter, which has none, this would not
be justified; the clock moves. In `CodeStream` a fetch is answered, and a
stream of httpx ends or is cut off by the 120-second read timeout
(`streaming_factory.py:14`). Gemini's call names no timeout (`:166-176`), so no
fairness makes its stream end, and `EveryStreamEnds` speaks of a Gemini request
only once its response has ended or broken. That a provider under a timeout does
not keep sending for ever is an assumption about the provider. In
`Accounts` the event loop resumes calls and time passes; no call, mail or failure
has to happen. In `Billing` the event loop runs the attempts, the provider sends
what is not answered, and months go by, which is what makes PayPro charge again;
faults are bounded, so a delivery does not fail for ever. Nothing
else is assumed of the environment: no
request, event, failure or success of a provider has to happen. `alerts_live`
excludes faults: a mail that raises is retried only by the next metered request,
which need not come.

## 4. Findings

1. `app.py:83` says quotas are enforced per request; `api_key_auth.py:120`
   checks a per-worker cached counter. With two workers and one request at a
   time the committed counter passes the limit. `OverdraftBounded` says how far.
2. `auth_router.py:330` says the old key stops working immediately. A request
   whose SELECT ran before the regeneration fills the cache after the
   invalidation, on the same worker, and the key works until the entry expires.
3. `tests/unit/test_usage_alerts.py:76` expects no second alert once one is
   marked. The check reads the mark of the cached object, which is never
   updated: every metered request from 80% on mails again while the object is
   cached. With a limit of 10 the 8th and the 9th charge of one object, one after
   the other, both mail the 80% alert.
4. `auth_router.py:228` says that a reset link has been sent if the address has
   an account, and `tests/unit/test_auth.py:187` expects 200. The handler's
   SELECT (`:210`) has already begun the transaction of the session, as the
   sessions of `database.py:35` do, so `session.begin()` at `:216` raises and every
   such call ends in a 500 without a link. The tests pass because they mock
   the session. `register` and `reset_password` write in a second session and are
   not affected.

Noticed on the way and left without a run:

* a BYOK provider's score is converted with `int()` only (`llm_factory.py:68`); one
  out of range is refused by the domain and answered with 422 as the caller's
  mistake, while `leads_router.py:42` lists 502 for a failing provider;
* a cancellation takes effect at once, since only ACTIVE accounts are served;
  `static/terms.html:66` and `static/refunds.html:47` speak of the end of the period;
* the counter of a free account never returns to 0: only an activation resets
  it (`app.py:85`), and nothing resets it at Lemon Squeezy's monthly
  `subscription_payment_success`, which no case handles;
* an activation that is delivered twice resets the counter twice;
* events are matched by e-mail alone, so of two subscriptions of one address the
  end of either closes the account;
* `doLogout` keeps `api_key_raw` in the browser (`dashboard.html:572`).

## 5. What is proved

`ApiKeyAuth_proofs`, for every number of workers, clients, keys, requests,
calls and objects, every TTL and every set of events, from `ConstantsOK` alone:

* `TypeCorrect`, `TypeSafe`: `Spec => []TypeInv`, `[]TypeOK`. `TypeOK` is not
  inductive: that a reference of the cache or of a request is an object in the
  heap, that a request has an object exactly after its SELECT, and that a call
  in a phase has the fields of that phase, must be carried along. `TypeInv` adds
  them.
* `NeverAhead`: `Spec => []CurrentNotAhead`. With the charges that are committed
  and not yet added (`Charged`), a current object counts at most what the row
  counts. The cardinality in the invariant is what makes it inductive: `Charge`
  raises the row and the charges in waiting, `Settle` moves one of these to
  the object. Loading starts at equality; an activation or plan change takes
  the client's objects out of `current`.
* `LocksHaveOwners`: `Spec => []NoOrphanLock`. A lock belongs to an open transaction
  on that row. Inductive together with the types; it is the reason why
  `EveryRequestAnswered` can be expected at all.
* `Metering`: `Spec => LedgerSpec`, the refinement of `QuotaLedger`. Needs the
  types, that a request in flight has no answer yet (`Unanswered`), and that a
  call which has updated a row holds its lock (`Holding`, and its converse
  `NoOrphanLock`): a row has one writer, so an activation that commits is the
  one that has begun. Every step of a request is `Receive`, `Charge`, `Admit`,
  `Decline`, `Waste` or a stutter; a crash is `Lose`; an activation is `Begin`,
  then `Reset` or `Abandon`; every other event is a stutter.

`UsageAlerts_proofs`, for every number of workers, requests, tasks and objects
and every set of limits, from `ConstantsOK` and `NoneIsNew`:

* `TypeSafe`: `TypeInv` adds to `TypeOK` that whatever a cache, a request or a
  task refers to is in memory (`Refs`), and that a task knows its level exactly
  from the reading of its object on (`Formed`).
* `MarksFollowMails`: `Spec => []MarkedAfterMail`. `MarkInv` adds that a task
  that is about to mark has its mail behind it.
* `NoneTooEarly`: `Spec => []NoEarlyAlert`. The argument of `NeverAhead`, with
  the objects loaded in the period: `EarlyInv` carries along that an object with
  the charges it is still to be told of is not ahead of the row, whatever changes
  of plan do to the limit. What a task
  reads has then been reached by the row (`ReachedMonotone`).

`LeadPipeline_proofs`, for every number of requests and retries, every timeout
and delay, every set of providers and scores:

* `StatusTellsTable`: `Spec => []AnswerMatchesTable`. `RowOK` says for each phase
  whether the row is there.
* `RetriesUsedUp`: `Spec => []GivesUpAfterAllRetries`. `AttemptOK` bounds the
  attempt in each phase, and a handler sleeps only if one is left.

* `PromiseKept`: `Spec => KeepsPromise`. `Fresh` says that a request has no
  verdict while its provider is asked or waited for; `RowOK` that it has no row
  before that. `Mapped` gives the values the refinement mapping takes in each
  phase; then every action is one of `LeadPromise`, or leaves all four variables
  as they were. `SameClass` says that the thresholds of `lead.py:35` are the
  promised ones.
* `TypeSafe`: with the bounds of the clock, and `OnTime`: `Spec =>
  []WithinDeadline`. `Budget` says for each phase how much of the deadline the
  attempts so far can have used; a backoff doubles, so the delays up to an
  attempt sum to less than the next one. That a power of two is positive, doubles
  and grows is the assumption `PowersOfTwo`: arithmetic that would need an
  induction, and which TLC evaluates in the run.

`Overdraft_proofs`, for every number of workers, keys, requests and limits, from
`ConstantsOK`:

* `Overdraft`: `Spec => []OverdraftBounded`. The bound is not inductive, because an
  object in memory can still spend what is left of its limit. `Left(c)` is the set
  of units <<object, counter value>> the client's objects have yet to spend;
  `Covered` bounds the committed counter together with the size of that set. A
  charge adds to one and takes from the other; an object that is loaded brings
  units only while quota was left, and there are at most W·K+R objects. `InTurn`
  says that the requests under way at an object fit below its greatest
  value, and `OneHome` that an object is in one worker's memory, so that a crash
  cannot leave it in two.

`KeyCache_proofs`, on top of it and for every number of everything:

* `CachesFade`: `Spec => StaleViewsFade`. While a row stays as it is, what caches
  say wrong about it only ages. `SuspensionTakesHold`, `ByokTakesHold` and `OldKeyDies`
  rest on it: entries that only age are gone after one TTL.
* `KeysOpenOwnAccount`: `Spec => []KeyOpensOwnAccount`. A key opens one account
  only, also after it was replaced and while old objects are still cached under it.
  `KeysDistinct` carries along that rows have different keys and that a key in use
  was issued, so that it is never issued to somebody else.
* `SequentialBound` and `SequentialExact`, under `OneAtATime`: one worker, one
  request at a time, keys that stay. The committed counter then passes the greatest
  limit by at most the acknowledgements that were lost; with one plan and none
  lost, `QuotaEnforced` holds. `Alone` says that an account has one object in
  memory, `Told` that this object knows of every acknowledged charge. These are not
  the deployment's assumptions (`Dockerfile:37` starts four workers): they locate
  finding 1. `auth_overdraft` is the same system with a second worker, and there
  the property is violated.

`Accounts_proofs`, for any callers, addresses, keys, links and lifetimes, with
and without faults, from `ConstantsOK` and `NoneIsNew`:

* `TypeSafe`, `KeysOpen`, `UsedLinksDead`, `NewestLink`: `[]TypeOK` and the
  three invariants. `RowInv` says what a link in a row is (made for this
  address, unused, no longer alive than its age allows), `CallInv` what a call
  knows at each await, `Apart` that two calls never store one link, `Opens` that
  a key handed out, or about to be, is in the row or was replaced, `JwtInv` that
  only accounts have tokens, `MailInv` that mailed links have been made and used
  ones mailed, `NewestInv` and `UnderWayInv` that a reset under way with an
  older link means that the newest was used or has crossed it.
* `OnlyMailed`: `Spec => OnlyTheMailedLink`, from the same invariant.
* `NobodyGetsALink` and `PasswordsAreForGood`, under `Autobegin`, which is the session
  the code is deployed with: no link is ever stored or mailed (`Linkless`), no
  reset passes its SELECT, so a password once set is never changed. This is what
  finding 4 amounts to, for any number of callers. The theorems above hold with and
  without `Autobegin`; those about links say something when it is FALSE.

`Billing_proofs`, for any number of customers, attempts and faults and any queue,
from `ConstantsOK` and `NoneIsNew`:

* `TypeSafe` and `RowFollows`: `Spec => []RowFollowsProvider`. `ChainInv` says that
  the waiting events lead from what is known, one change after another, to what
  the provider holds; `AttemptInv` that an attempt behind the queue writes what is
  there already, until a newer event has been written, when it becomes
  `overtaken`; `Single` that one attempt at a time is awaited.
* `QuietRows`: `Spec => []QuietRowCurrent`, from the same invariant: with an empty queue
  the chain has no links left, so what is known is what the provider holds.
* `NoFaultNoDrift`: if `MaxFaults = 0`, no step leads an existing account astray. So
  the exception `RowFollowsProvider` makes for overtaken attempts is used only after a
  fault, and the one for early events only before the registration. `Patient` says
  that without faults every attempt is awaited until it is done.

`CodeStream_proofs`, for every number of requests, pieces and entries:

* `TypeSafe`, and `NeverTwice`: `Spec => []NoPieceTwice`. Pieces are in order on the
  wire, in the text area and in every entry of the history (`OrderInv`), because
  an entry that is opened puts its text back into the area that running requests
  append to.
* `ButtonBack`: `Spec => []ButtonComesBack`. `Button` says who holds the label.
* `SavedAsSent`: `Spec => []HistoryAsSent`. `Alone` says that what a request the
  user let alone has shown and what it has yet to read make up what the provider
  said; `Stored` that nothing is said after an entry is made.

There is one lemma per group of actions; the temporal steps use PTL.

Every safety invariant, action property and refinement of the passing runs is
proved. Only model-checked are the liveness properties (`EveryRequestAnswered`,
`SuspensionTakesHold`, `ByokTakesHold`, `OldKeyDies`, `UrgentAlertGoesOut`,
`EveryLeadAnswered`, `EveryCallEnds`, `OldSessionsDie`, `PaidAccountOpens`,
`PaidQuotaReturns`, `EveryStreamEnds`), because the prover cannot reason about fairness.
`KeyOpensOwnAccount`, `SequentialBound`, `NobodyGetsALink`, `PasswordsAreForGood` and
`NoFaultNoDrift` are proved and in no run: their hypotheses or their subjects
(several accounts) differ from those of the runs.

## 6. Not modelled

* Rate limiter: slowapi keeps a window per worker and address in a library's
  memory; the one fact about it, that it runs after the charge, is a hazard in
  `PROJECT.json` about which no document says anything.
* Project context and prompt assembler: membership in fixed tables and string
  assembly, without state.
* Application assembly, health, migrations: wiring, a probe, and scripts that run
  once before the service starts.
* Dashboard page: login, profile, templates, stars and the theme. They keep
  strings in localStorage and call the handlers modelled elsewhere.
* E-mail texts and the protocols of the adapters; password hashing and JWT
  encoding; webhook signatures; the Fernet cipher; the connection pool. They are
  text, cryptography or I/O; the models have their outcomes.
* Two subscriptions of one address (`billing_router.py:227`): what should happen is
  written nowhere. `paypro_webhook` takes the address from the order and no other field.
* `find_by_id` of the lead repository is called by nothing.

## 7. Plan

All steps of the plan are done: `QuotaLedger`, `ApiKeyAuth`, `UsageAlerts`,
`LeadPipeline`, `CodeStream`, `Accounts` and `Billing`, each with its theorems, the
bound on the overdraft under every event, the caches, and the refinement of
`LeadPromise`. What could follow: an abstract specification of the reset links, of
the alerts or of a stream, with its refinement; one composition of `Billing` with
the caches of `ApiKeyAuth`; liveness by hand where a prover cannot follow.
