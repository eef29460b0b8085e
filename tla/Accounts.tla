-------------------------------- MODULE Accounts --------------------------------
(***************************************************************************)
(* Accounts of the dashboard (auth_router.py): registration, login, the    *)
(* password reset by a mailed link, and behind a JWT the profile and a new *)
(* API key.                                                                *)
(*                                                                         *)
(* A caller (a browser, or a script) makes one call at a time, and whoever *)
(* is handed an API key keeps it.  A call is a coroutine over its own      *)
(* database sessions; a step of the model is what it does between two      *)
(* awaits.  A call that the first SELECT refuses (409, 401, 400) has no    *)
(* effect and is no step.  Of what a worker keeps in memory only the cache *)
(* of keys has to do with accounts, and ApiKeyAuth has it: workers do not  *)
(* appear, a key opens an account when the row has its hash, and a worker  *)
(* that dies takes the calls it was serving and the mails it had not sent. *)
(* The service keeps no JWTs: whoever has one may use it, and of the       *)
(* tokens that one password got, the last lives longest.                   *)
(* Refresh tokens are left out, because no handler accepts one.            *)
(*                                                                         *)
(* The reset mail is a task that nothing refers to and nobody awaits: it   *)
(* goes out, raises unseen, or disappears.  The welcome mail is awaited,   *)
(* and its failure swallowed: its outcome changes nothing.                 *)
(***************************************************************************)
EXTENDS Integers, FiniteSets

CONSTANTS
  Callers,     \* browsers and scripts
  Addresses,   \* e-mail addresses
  Passwords,   \* passwords people choose
  MaxLinks,    \* bound: the reset tokens ever generated
  MaxKeys,     \* bound: the API keys ever generated
  LinkLife,    \* the hour of a reset token, in ticks of the clock
  TokenLife,   \* jwt_access_token_expire_minutes, in ticks
  Autobegin,   \* whether a SELECT leaves the session in a transaction, so that
               \* session.begin() after it raises: TRUE for SQLAlchemy, FALSE for
               \* the session the handler is written for and the tests mock
  Faults,      \* whether database calls raise, workers die and mails are lost
  None

\* A token is fresh whenever it is made: links and keys are numbered.
Links == 1..MaxLinks
Keys == 1..MaxKeys

ASSUME ConstantsOK ==
  /\ MaxLinks \in Nat
  /\ MaxKeys \in Nat
  /\ LinkLife \in Nat \ {0}
  /\ TokenLife \in Nat \ {0}
  /\ Autobegin \in BOOLEAN
  /\ Faults \in BOOLEAN
  /\ None \notin Callers \cup Addresses \cup Passwords \cup Links \cup Keys

VARIABLES
  account,  \* the committed row of each address, or None
  call,     \* the call each caller is waiting for
  held,     \* the API keys callers were handed, each with its address
  jwt,      \* the time left of the last access token each password got an address
  outbox,   \* reset mails on their way
  inbox,    \* reset links that have reached their address
  newest,   \* auxiliary: the link of the last forgot_password of each address
  made,     \* auxiliary: the address each link was made for, and its age
  used,     \* auxiliary: the links a reset was committed with
  crossed,  \* auxiliary: links stored while a reset of their account was under way
  minted,   \* how many API keys have been generated
  replaced  \* auxiliary: the keys that a committed regeneration has overwritten

vars == <<account, call, held, jwt, outbox, inbox, newest, made, used, crossed, minted, replaced>>

\* Accounts from before migration 003 have no password, and a key made in
\* another way.
Account == [key : Keys \cup {None}, password : Passwords \cup {None},
            link : Links \cup {None}, left : 0..LinkLife]

Phases == {"idle", "joining", "welcoming", "accepted", "renewing", "renewed",
           "linking", "linked", "found", "resetting"}

Call == [pc : Phases, email : Addresses \cup {None}, password : Passwords \cup {None},
         key : Keys \cup {None}, link : Links \cup {None}, left : 0..LinkLife]

Calling(pc, e, pw, l, left) ==
  [pc |-> pc, email |-> e, password |-> pw, key |-> None, link |-> l, left |-> left]

\* A call that has made a key.
Keyed(pc, e, pw, k) ==
  [pc |-> pc, email |-> e, password |-> pw, key |-> k, link |-> None, left |-> 0]

NoCall == Calling("idle", None, None, None, 0)

Held == [email : Addresses, key : Keys]

Made == [email : Addresses, age : 0..LinkLife]

ASSUME NoneIsNew == None \notin Account \cup Made

TypeOK ==
  /\ account \in [Addresses -> Account \cup {None}]
  /\ call \in [Callers -> Call]
  /\ held \subseteq Held
  /\ jwt \in [Addresses -> [Passwords -> 0..TokenLife]]
  /\ outbox \subseteq Links
  /\ inbox \subseteq Links
  /\ newest \in [Addresses -> Links \cup {None}]
  /\ made \in [Links -> Made \cup {None}]
  /\ used \subseteq Links
  /\ crossed \subseteq Links
  /\ minted \in 0..MaxKeys
  /\ replaced \subseteq Keys \cup {None}

--------------------------------------------------------------------------------
(* Calls *)

Begin(a, c) ==
  /\ call[a].pc = "idle"
  /\ call' = [call EXCEPT ![a] = c]

\* A call keeps what its later steps need.
Advance(a, from, c) ==
  /\ call[a].pc = from
  /\ call' = [call EXCEPT ![a] = c]

End(a, from) == Advance(a, from, NoCall)

\* secrets.token_urlsafe
NewKey(k) == k = minted + 1 /\ minted' = k

\* The answer shows the key, and the page saves it.
HandOut(a) == held' = held \cup {[email |-> call[a].email, key |-> call[a].key]}

--------------------------------------------------------------------------------
(* register *)

\* The SELECT finds no account; the key is made after it.
RegisterSelect(a, e, pw) ==
  /\ account[e] = None
  /\ \E k \in Keys : NewKey(k) /\ Begin(a, Keyed("joining", e, pw, k))
  /\ UNCHANGED <<account, held, jwt, outbox, inbox, newest, made, used, crossed, replaced>>

NewAccount(a) == [key |-> call[a].key, password |-> call[a].password, link |-> None, left |-> 0]

\* Bug: the row is written over whatever is there.
RegisterUpsert(a) ==
  /\ Advance(a, "joining", Keyed("welcoming", call[a].email, None, call[a].key))
  /\ account' = [account EXCEPT ![call[a].email] = NewAccount(a)]
  /\ UNCHANGED <<held, jwt, outbox, inbox, newest, made, used, crossed, minted, replaced>>

\* The INSERT, in a session of its own.
RegisterInsert(a) ==
  /\ Advance(a, "joining", Keyed("welcoming", call[a].email, None, call[a].key))
  /\ account[call[a].email] = None
  /\ account' = [account EXCEPT ![call[a].email] = NewAccount(a)]
  /\ UNCHANGED <<held, jwt, outbox, inbox, newest, made, used, crossed, minted, replaced>>

\* Bug: a refused INSERT is tried again.
RegisterRetries(a) ==
  /\ call[a].pc = "joining"
  /\ account[call[a].email] # None
  /\ UNCHANGED vars

\* uq_clients_owner_email: the address was taken since the SELECT.
RegisterDuplicate(a) ==
  /\ End(a, "joining")
  /\ account[call[a].email] # None
  /\ UNCHANGED <<account, held, jwt, outbox, inbox, newest, made, used, crossed, minted, replaced>>

\* The mail was tried; 201.
RegisterAnswer(a) ==
  /\ End(a, "welcoming")
  /\ HandOut(a)
  /\ UNCHANGED <<account, jwt, outbox, inbox, newest, made, used, crossed, minted, replaced>>

--------------------------------------------------------------------------------
(* login and get_me *)

Matches(e, pw) == account[e] # None /\ account[e].password = pw

\* The SELECT, and bcrypt on what it read.
LoginSelect(a, e, pw) ==
  /\ Matches(e, pw)
  /\ Begin(a, Calling("accepted", e, pw, None, 0))
  /\ UNCHANGED <<account, held, jwt, outbox, inbox, newest, made, used, crossed, minted, replaced>>

LoginAnswer(a) ==
  /\ End(a, "accepted")
  /\ jwt' = [jwt EXCEPT ![call[a].email][call[a].password] = TokenLife]
  /\ UNCHANGED <<account, held, outbox, inbox, newest, made, used, crossed, minted, replaced>>

\* jwt.decode, of a token that was got with a password.
Valid(e, pw) == jwt[e][pw] > 0

\* Bug: reading the profile renews the token it came with.
GetMeRenews(a, e, pw) ==
  /\ Valid(e, pw)
  /\ Begin(a, Calling("accepted", e, pw, None, 0))
  /\ UNCHANGED <<account, held, jwt, outbox, inbox, newest, made, used, crossed, minted, replaced>>

\* The SELECT finds the account, because rows are never deleted.  Whenever the
\* answer comes, the call has changed nothing.
GetMe(a, e, pw) ==
  /\ call[a].pc = "idle"
  /\ Valid(e, pw)
  /\ UNCHANGED vars

--------------------------------------------------------------------------------
(* regenerate_key *)

\* jwt.decode, and the SELECT by address: rows are never deleted.
RegenerateSelect(a, e, pw) ==
  /\ Valid(e, pw)
  /\ \E k \in Keys : NewKey(k) /\ Begin(a, Keyed("renewing", e, None, k))
  /\ UNCHANGED <<account, held, jwt, outbox, inbox, newest, made, used, crossed, replaced>>

\* UPDATE ... WHERE id, in a session of its own, and the commit.
RegenerateCommit(a) ==
  /\ Advance(a, "renewing", Keyed("renewed", call[a].email, None, call[a].key))
  /\ replaced' = replaced \cup {account[call[a].email].key}
  /\ account' = [account EXCEPT ![call[a].email].key = call[a].key]
  /\ UNCHANGED <<held, jwt, outbox, inbox, newest, made, used, crossed, minted>>

RegenerateAnswer(a) ==
  /\ End(a, "renewed")
  /\ HandOut(a)
  /\ UNCHANGED <<account, jwt, outbox, inbox, newest, made, used, crossed, minted, replaced>>

--------------------------------------------------------------------------------
(* forgot_password *)

NewLink(l) == made[l] = None /\ \A k \in 1..(l - 1) : made[k] # None

\* Bug: the link outlives its hour.
ForgotGenerous(a, e, l) ==
  /\ account[e] # None
  /\ NewLink(l)
  /\ made' = [made EXCEPT ![l] = [email |-> e, age |-> 0]]
  /\ Begin(a, Calling("linking", e, None, l, LinkLife + 1))
  /\ UNCHANGED <<account, held, jwt, outbox, inbox, newest, used, crossed, minted, replaced>>

\* The token and its expiry are made first, then the SELECT finds the account.
ForgotSelect(a, e, l) ==
  /\ account[e] # None
  /\ NewLink(l)
  /\ made' = [made EXCEPT ![l] = [email |-> e, age |-> 0]]
  /\ Begin(a, Calling("linking", e, None, l, LinkLife))
  /\ UNCHANGED <<account, held, jwt, outbox, inbox, newest, used, crossed, minted, replaced>>

\* session.begin() finds the transaction of the SELECT: InvalidRequestError, 500.
\* In a session without one, BEGIN raises only with the database.
ForgotRaises(a) ==
  /\ Autobegin \/ Faults
  /\ End(a, "linking")
  /\ UNCHANGED <<account, held, jwt, outbox, inbox, newest, made, used, crossed, minted, replaced>>

ResetUnderWay(e) ==
  \E b \in Callers : call[b].pc \in {"found", "resetting"} /\ call[b].email = e

\* Bug: a link that is already there stays.
ForgotKeepsOld(a) ==
  /\ ~Autobegin
  /\ LET c == call[a]
     IN /\ Advance(a, "linking", Calling("linked", None, None, c.link, 0))
        /\ account' = [account EXCEPT ![c.email] =
                         IF @.link = None THEN [@ EXCEPT !.link = c.link, !.left = c.left]
                                          ELSE @]
        /\ newest' = [newest EXCEPT ![c.email] = c.link]
        /\ crossed' = IF ResetUnderWay(c.email) THEN crossed \cup {c.link} ELSE crossed
  /\ UNCHANGED <<held, jwt, outbox, inbox, made, used, minted, replaced>>

\* UPDATE ... WHERE id, and the commit.
ForgotCommit(a) ==
  /\ ~Autobegin
  /\ LET c == call[a]
     IN /\ Advance(a, "linking", Calling("linked", None, None, c.link, 0))
        /\ account' = [account EXCEPT ![c.email] = [@ EXCEPT !.link = c.link, !.left = c.left]]
        /\ newest' = [newest EXCEPT ![c.email] = c.link]
        /\ crossed' = IF ResetUnderWay(c.email) THEN crossed \cup {c.link} ELSE crossed
  /\ UNCHANGED <<held, jwt, outbox, inbox, made, used, minted, replaced>>

\* create_task for the mail, and the answer.
ForgotAnswer(a) ==
  /\ End(a, "linked")
  /\ outbox' = outbox \cup {call[a].link}
  /\ UNCHANGED <<account, held, jwt, inbox, newest, made, used, crossed, minted, replaced>>

MailGoes(l) ==
  /\ l \in outbox
  /\ outbox' = outbox \ {l}
  /\ inbox' = inbox \cup {l}
  /\ UNCHANGED <<account, call, held, jwt, newest, made, used, crossed, minted, replaced>>

\* The task raises, is collected, or dies with its worker.
MailLost(l) ==
  /\ Faults
  /\ l \in outbox
  /\ outbox' = outbox \ {l}
  /\ UNCHANGED <<account, call, held, jwt, inbox, newest, made, used, crossed, minted, replaced>>

--------------------------------------------------------------------------------
(* reset_password *)

HasLink(e, l) == account[e] # None /\ account[e].link = l

\* The SELECT by token; people present the links they were mailed.
ResetSelect(a, l, pw) ==
  /\ l \in inbox
  /\ \E e \in Addresses :
       /\ HasLink(e, l)
       /\ Begin(a, Calling("found", e, pw, l, account[e].left))
  /\ UNCHANGED <<account, held, jwt, outbox, inbox, newest, made, used, crossed, minted, replaced>>

\* Bug: the expiry is not looked at.
ResetAnyTime(a) ==
  /\ Advance(a, "found", Calling("resetting", call[a].email, call[a].password, call[a].link, 0))
  /\ UNCHANGED <<account, held, jwt, outbox, inbox, newest, made, used, crossed, minted, replaced>>

\* The expiry that was read, against the clock; then bcrypt.
ResetInTime(a) ==
  /\ call[a].left > 0
  /\ Advance(a, "found", Calling("resetting", call[a].email, call[a].password, call[a].link, 0))
  /\ UNCHANGED <<account, held, jwt, outbox, inbox, newest, made, used, crossed, minted, replaced>>

ResetExpired(a) ==
  /\ call[a].left = 0
  /\ End(a, "found")
  /\ UNCHANGED <<account, held, jwt, outbox, inbox, newest, made, used, crossed, minted, replaced>>

\* Bug: the token stays in the row.
ResetKeepsLink(a) ==
  /\ End(a, "resetting")
  /\ account' = [account EXCEPT ![call[a].email].password = call[a].password]
  /\ used' = used \cup {call[a].link}
  /\ UNCHANGED <<held, jwt, outbox, inbox, newest, made, crossed, minted, replaced>>

\* UPDATE ... WHERE id: whatever link is in the row by now is cleared.  The
\* answer changes nothing.
ResetCommit(a) ==
  /\ End(a, "resetting")
  /\ account' = [account EXCEPT ![call[a].email] =
                   [key |-> @.key, password |-> call[a].password, link |-> None, left |-> 0]]
  /\ used' = used \cup {call[a].link}
  /\ UNCHANGED <<held, jwt, outbox, inbox, newest, made, crossed, minted, replaced>>

--------------------------------------------------------------------------------
(* Failures and the clock *)

\* A database call raises, before or after it had its effect, or the worker
\* dies: the caller gets a 500 or nothing.
CallBreaks(a) ==
  /\ Faults
  /\ call[a].pc # "idle"
  /\ End(a, call[a].pc)
  /\ UNCHANGED <<account, held, jwt, outbox, inbox, newest, made, used, crossed, minted, replaced>>

Down(n) == IF n = 0 THEN 0 ELSE n - 1
Up(n, most) == IF n = most THEN most ELSE n + 1

\* Expiry dates come nearer and tokens age; beyond the expiry nothing changes.
Tick ==
  /\ account' = [e \in Addresses |-> IF account[e] = None THEN None
                                     ELSE [account[e] EXCEPT !.left = Down(@)]]
  /\ call' = [a \in Callers |-> [call[a] EXCEPT !.left = Down(@)]]
  /\ jwt' = [e \in Addresses |-> [pw \in Passwords |-> Down(jwt[e][pw])]]
  /\ made' = [l \in Links |-> IF made[l] = None THEN None
                              ELSE [made[l] EXCEPT !.age = Up(@, LinkLife)]]
  /\ UNCHANGED <<held, outbox, inbox, newest, used, crossed, minted, replaced>>

--------------------------------------------------------------------------------

\* An empty table, or accounts that an older release left without a password.
Init ==
  /\ account \in [Addresses -> {None, [key |-> None, password |-> None,
                                      link |-> None, left |-> 0]}]
  /\ call = [a \in Callers |-> NoCall]
  /\ held = {}
  /\ jwt = [e \in Addresses |-> [pw \in Passwords |-> 0]]
  /\ outbox = {} /\ inbox = {} /\ used = {} /\ crossed = {}
  /\ minted = 0 /\ replaced = {}
  /\ newest = [e \in Addresses |-> None]
  /\ made = [l \in Links |-> None]

CallStart(a) ==
  \/ \E e \in Addresses, pw \in Passwords :
       \/ RegisterSelect(a, e, pw) \/ LoginSelect(a, e, pw)
       \/ GetMe(a, e, pw) \/ RegenerateSelect(a, e, pw)
  \/ \E e \in Addresses, l \in Links : ForgotSelect(a, e, l)
  \/ \E l \in Links, pw \in Passwords : ResetSelect(a, l, pw)

CallStep(a) == \/ RegisterInsert(a) \/ RegisterDuplicate(a) \/ RegisterAnswer(a)
               \/ LoginAnswer(a)
               \/ RegenerateCommit(a) \/ RegenerateAnswer(a)
               \/ ForgotRaises(a) \/ ForgotCommit(a) \/ ForgotAnswer(a)
               \/ ResetInTime(a) \/ ResetExpired(a) \/ ResetCommit(a)

Next == \/ \E a \in Callers : CallStart(a) \/ CallStep(a) \/ CallBreaks(a)
        \/ \E l \in Links : MailGoes(l) \/ MailLost(l)
        \/ Tick

Spec == Init /\ [][Next]_vars

--------------------------------------------------------------------------------
(* Safety *)

\* The key a caller was handed, by a registration or by a regeneration, opens
\* the account it was handed for, unless a regeneration of that account was
\* committed after the key was: by then the key is meant to be dead, even if its
\* answer came later (auth_router.py:341-352).  Nothing else may replace a key:
\* the SELECT and the INSERT of a registration are two sessions
\* (auth_router.py:109-136), and only the constraint on owner_email keeps a
\* second registration from replacing the first one's key and password.
HeldKeyOpens ==
  \A h \in held :
    LET row == account[h.email]
    IN row # None /\ (row.key = h.key \/ h.key \in replaced)

\* A link that has changed a password is in no row: a reset that comes with it
\* later is refused, whatever else was going on in the meantime.
UsedLinkIsDead ==
  \A e \in Addresses : account[e] # None => account[e].link \notin used

\* The last link made for an account is the one its row accepts, unless it has
\* been used, or was stored while a reset with an older link was under way:
\* that reset writes by id and clears the link it has never seen
\* (auth_router.py:259-269).  Requests for links may overlap in any order.
NewestLinkWorks ==
  \A e \in Addresses :
    newest[e] # None =>
      account[e].link = newest[e] \/ newest[e] \in used \cup crossed

\* The password of an account is changed only by a reset that came with a link
\* mailed to the account's own address, and that link was not older than
\* LinkLife when the expiry was checked, counted from when it was made.
OnlyTheMailedLink ==
  [][/\ \A e \in Addresses :
          account[e] # None /\ account'[e].password # account[e].password =>
            \E a \in Callers : /\ call[a].pc = "resetting" /\ call[a].link \in inbox
                               /\ made[call[a].link].email = e
                               /\ account'[e].password = call[a].password
     /\ \A a \in Callers :
          call[a].pc = "found" /\ call'[a].pc = "resetting" =>
            made[call[a].link].age < LinkLife]_vars

\* "If that email exists, a reset link has been sent." (auth_router.py:228,
\* and test_forgot_password_returns_message): a call for an address that has an
\* account does not end without a link in its row.  For runs without faults.
ForgotServesAccounts ==
  [][\A a \in Callers :
       call[a].pc = "linking" /\ call'[a].pc # "linking" =>
         account'[call[a].email].link = call[a].link]_vars

--------------------------------------------------------------------------------
(* Liveness.  The event loop resumes what the database has answered, and time
   passes.  No call, no mail and no failure has to happen. *)

Fairness == /\ \A a \in Callers : WF_vars(CallStep(a))
            /\ WF_vars(Tick)

FairSpec == Spec /\ Fairness

\* Every call ends, the loser of two registrations included.
EveryCallEnds == \A a \in Callers : []<>(call[a].pc = "idle")

\* A reset does not revoke the tokens of earlier logins.  All the same, a
\* password that an account no longer has in the end gives access to no
\* profile: an access token runs out, and nothing renews it.
OldSessionsDie ==
  \A e \in Addresses, pw \in Passwords :
    <>[](account[e] # None /\ account[e].password # pw) => <>[]~Valid(e, pw)
================================================================================
