---------------------------- MODULE Accounts_proofs ----------------------------
(***************************************************************************)
(* Theorems about Accounts, for any number of callers, addresses and       *)
(* links, any lifetime of links and tokens, with and without faults.       *)
(***************************************************************************)
EXTENDS Accounts, TLAPS

--------------------------------------------------------------------------------
(* The inductive invariant *)

Linking == {"linking", "linked"}
Resetting == {"found", "resetting"}

\* A link in a row was made for that row's address, has not been used, and the
\* time the row gives it does not outlast the link's own hour.
RowInv(e) ==
  account[e] # None /\ account[e].link # None =>
    /\ made[account[e].link] # None
    /\ made[account[e].link].email = e
    /\ made[account[e].link].age + account[e].left <= LinkLife
    /\ account[e].link \notin used

\* The account of an address is there, and a key opens it or has been replaced
\* by a regeneration.
Opens(e, k) == /\ account[e] # None
               /\ account[e].key = k \/ k \in replaced

\* What a call knows at each of its awaits.  The link of a call that is still
\* to store it has been seen by nobody.
CallInv(a) ==
  LET c == call[a]
  IN /\ c.pc \notin {"idle", "linked"} => c.email \in Addresses
     /\ c.pc \in {"joining", "accepted"} \cup Resetting => c.password \in Passwords
     /\ c.pc \in {"accepted", "renewing", "linking"} \cup Resetting => account[c.email] # None
     /\ c.pc \in {"joining", "welcoming", "renewing", "renewed"} => c.key \in Keys
     /\ c.pc \in {"welcoming", "renewed"} => Opens(c.email, c.key)
     /\ c.pc \in Linking \cup Resetting => c.link \in Links /\ made[c.link] # None
     /\ c.pc \in {"linking"} \cup Resetting => made[c.link].email = c.email
     /\ c.pc \in {"linking", "found"} => made[c.link].age + c.left <= LinkLife
     /\ c.pc = "linking" => c.link \notin inbox \cup outbox
     /\ c.pc \in Resetting => c.link \in inbox

HeldInv == \A h \in held : Opens(h.email, h.key)

\* Nobody has a token of an account that does not exist.
JwtInv(e) == \A pw \in Passwords : Valid(e, pw) => account[e] # None

\* No two calls are about to store the same link.
Apart(a, b) ==
  a # b /\ call[a].pc \in Linking /\ call[b].pc \in Linking => call[a].link # call[b].link

MailInv == /\ \A l \in inbox \cup outbox : made[l] # None
           /\ used \subseteq inbox

\* A reset under way came with the newest link, or that link has been used, or
\* was stored while a reset was under way.
NewestInv(e) ==
  newest[e] # None =>
    /\ account[e] # None
    /\ account[e].link = newest[e] \/ newest[e] \in used \cup crossed

UnderWayInv(a) ==
  call[a].pc \in Resetting /\ newest[call[a].email] # None =>
    \/ call[a].link = newest[call[a].email]
    \/ newest[call[a].email] \in used \cup crossed

Inv == /\ TypeOK
       /\ \A e \in Addresses : RowInv(e) /\ NewestInv(e) /\ JwtInv(e)
       /\ \A a \in Callers : CallInv(a) /\ UnderWayInv(a)
       /\ \A a, b \in Callers : Apart(a, b)
       /\ MailInv
       /\ HeldInv

--------------------------------------------------------------------------------

\* Nothing has happened yet.
LEMMA InvInit == Init => Inv
  <1> SUFFICES ASSUME Init PROVE Inv
    OBVIOUS
  <1>1. NoCall \in Call
    BY ConstantsOK DEF NoCall, Calling, Call, Phases
  <1>2. TypeOK
    BY <1>1, ConstantsOK DEF Init, TypeOK, Account, Made
  <1>3. \A e \in Addresses : RowInv(e) /\ NewestInv(e) /\ JwtInv(e)
    BY ConstantsOK DEF Init, RowInv, NewestInv, JwtInv, Valid
  <1>4. \A a \in Callers : call[a].pc = "idle"
    BY DEF Init, NoCall, Calling
  <1>5. \A a \in Callers : CallInv(a) /\ UnderWayInv(a)
    BY <1>4 DEF CallInv, UnderWayInv, Linking, Resetting
  <1>6. \A a, b \in Callers : Apart(a, b)
    BY <1>4 DEF Apart, Linking
  <1>7. MailInv /\ HeldInv
    BY DEF Init, MailInv, HeldInv
  <1> QED
    BY <1>2, <1>3, <1>5, <1>6, <1>7 DEF Inv

\* A step that changes nothing but one call keeps the invariant if that call
\* still knows what it must (auth_router.py: what lies between two awaits of a
\* handler that writes nothing).
LEMMA OneCall ==
  ASSUME Inv, NEW a \in Callers, NEW q \in Call,
         call' = [call EXCEPT ![a] = q], minted' \in 0..MaxKeys,
         UNCHANGED <<account, held, jwt, outbox, inbox, newest, made, used, crossed, replaced>>,
         CallInv(a)', UnderWayInv(a)', \A b \in Callers : Apart(a, b)'
  PROVE  Inv'
  <1>1. TypeOK'
    BY DEF Inv, TypeOK
  <1>2. \A b \in Callers \ {a} : call'[b] = call[b]
    BY DEF Inv, TypeOK
  <1>3. \A e \in Addresses : RowInv(e)' /\ NewestInv(e)' /\ JwtInv(e)'
    BY DEF Inv, RowInv, NewestInv, JwtInv, Valid
  <1>4. \A b \in Callers : CallInv(b)' /\ UnderWayInv(b)'
    <2> TAKE b \in Callers
    <2>1. CASE b = a
      BY <2>1
    <2>2. CASE b # a
      BY <2>2, <1>2 DEF Inv, CallInv, UnderWayInv, Opens
    <2> QED
      BY <2>1, <2>2
  <1>5. \A b, d \in Callers : Apart(b, d)'
    <2> TAKE b, d \in Callers
    <2>1. CASE b = a
      BY <2>1
    <2>2. CASE d = a
      <3>1. Apart(a, b)'
        OBVIOUS
      <3> QED
        BY <3>1, <2>2 DEF Apart
    <2>3. CASE b # a /\ d # a
      BY <2>3, <1>2 DEF Inv, Apart
    <2> QED
      BY <2>1, <2>2, <2>3
  <1>6. MailInv' /\ HeldInv'
    BY DEF Inv, MailInv, HeldInv, Opens
  <1> QED
    BY <1>1, <1>3, <1>4, <1>5, <1>6 DEF Inv

\* A call that ends knows nothing any more.
LEMMA Ending ==
  ASSUME Inv, NEW a \in Callers, call' = [call EXCEPT ![a] = NoCall]
  PROVE  /\ NoCall \in Call
         /\ CallInv(a)' /\ UnderWayInv(a)' /\ \A b \in Callers : Apart(a, b)'
  <1>1. NoCall \in Call
    BY ConstantsOK DEF NoCall, Calling, Call, Phases
  <1>2. call'[a].pc = "idle"
    BY DEF Inv, TypeOK, NoCall, Calling
  <1> QED
    BY <1>1, <1>2 DEF CallInv, UnderWayInv, Apart, Linking, Resetting

\* Rows stay, and a key that a row loses has been replaced.
RowsKept ==
  /\ replaced \subseteq replaced'
  /\ \A f \in Addresses : account[f] # None =>
       /\ account'[f] # None
       /\ account'[f].key = account[f].key \/ account[f].key \in replaced'

LEMMA OpensKept ==
  ASSUME RowsKept, NEW e \in Addresses, NEW k, Opens(e, k)
  PROVE  Opens(e, k)'
  BY DEF RowsKept, Opens

\* What a call knows of its account does not depend on the rest of the row.
LEMMA CallKept ==
  ASSUME NEW b \in Callers, CallInv(b), call'[b] = call[b],
         made' = made, inbox' = inbox, outbox' = outbox, RowsKept
  PROVE  CallInv(b)'
  <1>1. PICK c : c = call[b]
    OBVIOUS
  <1>2. c.pc \in {"accepted", "renewing", "linking", "found", "resetting"} =>
              account'[c.email] # None
    BY <1>1 DEF CallInv, Linking, Resetting, RowsKept
  <1>3. c.pc \in {"welcoming", "renewed"} => Opens(c.email, c.key)'
    BY <1>1, OpensKept DEF CallInv
  <1> QED
    BY <1>1, <1>2, <1>3 DEF CallInv, Linking, Resetting

LEMMA HeldKept ==
  ASSUME Inv, held' = held, RowsKept
  PROVE  HeldInv'
  <1>1. \A h \in held : h.email \in Addresses
    BY DEF Inv, TypeOK, Held
  <1> QED
    BY <1>1, OpensKept DEF Inv, HeldInv

LEMMA JwtKept ==
  ASSUME Inv, NEW e \in Addresses, jwt' = jwt, RowsKept
  PROVE  JwtInv(e)'
  BY DEF Inv, JwtInv, Valid, RowsKept

--------------------------------------------------------------------------------
(* The steps *)

LEMMA RegisterSelectInv ==
  ASSUME Inv, NEW a \in Callers, NEW e \in Addresses, NEW pw \in Passwords,
         RegisterSelect(a, e, pw)
  PROVE  Inv'
  <1>1. PICK k \in Keys : NewKey(k) /\ Begin(a, Keyed("joining", e, pw, k))
    BY DEF RegisterSelect
  <1> DEFINE q == Keyed("joining", e, pw, k)
  <1>2. q \in Call
    BY ConstantsOK DEF Keyed, Call, Phases
  <1>3. call' = [call EXCEPT ![a] = q] /\ call'[a] = q /\ minted' \in 0..MaxKeys
    BY <1>1 DEF NewKey, Keys, Begin, Inv, TypeOK
  <1>4. q.pc = "joining" /\ q.email = e /\ q.password = pw /\ q.key = k
    BY DEF Keyed
  <1>5. CallInv(a)' /\ UnderWayInv(a)' /\ \A b \in Callers : Apart(a, b)'
    BY <1>3, <1>4 DEF CallInv, UnderWayInv, Apart, Linking, Resetting
  <1> QED
    BY <1>2, <1>3, <1>5, OneCall DEF RegisterSelect

\* A token is somebody's, so the account is there.
LEMMA RegenerateSelectInv ==
  ASSUME Inv, NEW a \in Callers, NEW e \in Addresses, NEW pw \in Passwords,
         RegenerateSelect(a, e, pw)
  PROVE  Inv'
  <1>1. PICK k \in Keys : NewKey(k) /\ Begin(a, Keyed("renewing", e, None, k))
    BY DEF RegenerateSelect
  <1> DEFINE q == Keyed("renewing", e, None, k)
  <1>2. q \in Call
    BY ConstantsOK DEF Keyed, Call, Phases
  <1>3. call' = [call EXCEPT ![a] = q] /\ call'[a] = q /\ minted' \in 0..MaxKeys
    BY <1>1 DEF NewKey, Keys, Begin, Inv, TypeOK
  <1>4. q.pc = "renewing" /\ q.email = e /\ q.key = k
    BY DEF Keyed
  <1>5. account[e] # None /\ account' = account
    BY DEF RegenerateSelect, Inv, JwtInv
  <1>6. CallInv(a)' /\ UnderWayInv(a)' /\ \A b \in Callers : Apart(a, b)'
    BY <1>3, <1>4, <1>5 DEF CallInv, UnderWayInv, Apart, Linking, Resetting
  <1> QED
    BY <1>2, <1>3, <1>6, OneCall DEF RegenerateSelect

LEMMA LoginSelectInv ==
  ASSUME Inv, NEW a \in Callers, NEW e \in Addresses, NEW pw \in Passwords,
         LoginSelect(a, e, pw)
  PROVE  Inv'
  <1> DEFINE q == Calling("accepted", e, pw, None, 0)
  <1>1. q \in Call
    BY ConstantsOK DEF Calling, Call, Phases
  <1>2. call'[a] = q
    BY DEF LoginSelect, Begin, Inv, TypeOK
  <1>3. q.pc = "accepted" /\ q.email = e /\ q.password = pw
    BY DEF Calling
  <1>4. account[e] # None /\ account' = account
    BY DEF LoginSelect, Matches
  <1>5. CallInv(a)' /\ UnderWayInv(a)' /\ \A b \in Callers : Apart(a, b)'
    BY <1>2, <1>3, <1>4 DEF CallInv, UnderWayInv, Apart, Linking, Resetting
  <1>6. minted' \in 0..MaxKeys
    BY DEF LoginSelect, Inv, TypeOK
  <1> QED
    BY <1>1, <1>5, <1>6, OneCall DEF LoginSelect, Begin

\* The calls that end without a write.
LEMMA EndInv ==
  ASSUME Inv, NEW a \in Callers,
         RegisterDuplicate(a) \/ ForgotRaises(a) \/ ResetExpired(a)
           \/ CallBreaks(a)
  PROVE  Inv'
  <1>1. call' = [call EXCEPT ![a] = NoCall]
    BY DEF RegisterDuplicate, ForgotRaises, ResetExpired, CallBreaks, End, Advance
  <1>2. UNCHANGED <<account, held, jwt, outbox, inbox,
                    newest, made, used, crossed, minted, replaced>>
    BY DEF RegisterDuplicate, ForgotRaises, ResetExpired, CallBreaks
  <1>3. minted' \in 0..MaxKeys
    BY <1>2 DEF Inv, TypeOK
  <1> QED
    BY <1>1, <1>2, <1>3, Ending, OneCall

\* The expiry that was read lies ahead, and the link is the same as before.
LEMMA ResetInTimeInv ==
  ASSUME Inv, NEW a \in Callers, ResetInTime(a)
  PROVE  Inv'
  <1> DEFINE q == Calling("resetting", call[a].email, call[a].password, call[a].link, 0)
  <1>1. call[a] \in Call /\ call[a].pc = "found"
    BY DEF ResetInTime, Advance, Inv, TypeOK
  <1>2. q \in Call
    BY <1>1, ConstantsOK DEF Call, Phases, Calling
  <1>3. call' = [call EXCEPT ![a] = q]
    BY DEF ResetInTime, Advance
  <1>4. call'[a] = q
    BY <1>3 DEF Inv, TypeOK
  <1>5. /\ q.pc = "resetting" /\ q.email = call[a].email /\ q.password = call[a].password
        /\ q.link = call[a].link
    BY DEF Calling
  <1>6. CallInv(a)' /\ UnderWayInv(a)' /\ \A b \in Callers : Apart(a, b)'
    BY <1>1, <1>4, <1>5 DEF ResetInTime, Inv, CallInv, UnderWayInv, Apart, Linking, Resetting
  <1>7. minted' \in 0..MaxKeys
    BY DEF ResetInTime, Inv, TypeOK
  <1> QED
    BY <1>2, <1>3, <1>6, <1>7, OneCall DEF ResetInTime

LEMMA ResetSelectInv ==
  ASSUME Inv, NEW a \in Callers, NEW l \in Links, NEW pw \in Passwords,
         ResetSelect(a, l, pw)
  PROVE  Inv'
  <1>1. PICK e \in Addresses :
          HasLink(e, l) /\ Begin(a, Calling("found", e, pw, l, account[e].left))
    BY DEF ResetSelect
  <1> DEFINE q == Calling("found", e, pw, l, account[e].left)
  <1>2. account[e] # None /\ account[e].link = l /\ l # None /\ l \in inbox
    BY <1>1, ConstantsOK DEF HasLink, ResetSelect
  <1>3. account[e] \in Account
    BY <1>2 DEF Inv, TypeOK
  <1>4. q \in Call
    BY <1>3 DEF Calling, Call, Phases, Account
  <1>5. call' = [call EXCEPT ![a] = q]
    BY <1>1 DEF Begin
  <1>6. call'[a] = q
    BY <1>5 DEF Inv, TypeOK
  <1>7. /\ q.pc = "found" /\ q.email = e /\ q.password = pw /\ q.link = l
        /\ q.left = account[e].left
    BY DEF Calling
  <1>8. UNCHANGED <<account, held, jwt, outbox, inbox,
                    newest, made, used, crossed, minted, replaced>>
    BY DEF ResetSelect
  <1>9. RowInv(e) /\ NewestInv(e) /\ JwtInv(e)
    BY DEF Inv
  <1>10. CallInv(a)'
    BY <1>2, <1>6, <1>7, <1>8, <1>9 DEF CallInv, RowInv, Linking, Resetting
  <1>11. UnderWayInv(a)'
    BY <1>2, <1>6, <1>7, <1>8, <1>9 DEF UnderWayInv, NewestInv
  <1>12. \A b \in Callers : Apart(a, b)'
    BY <1>6, <1>7 DEF Apart, Linking
  <1>13. minted' \in 0..MaxKeys
    BY <1>8 DEF Inv, TypeOK
  <1> QED
    BY <1>4, <1>5, <1>8, <1>10, <1>11, <1>12, <1>13, OneCall

\* login hands out a token, which the invariant does not speak of.
LEMMA LoginAnswerInv ==
  ASSUME Inv, NEW a \in Callers, LoginAnswer(a)
  PROVE  Inv'
  <1>1. call[a].pc = "accepted" /\ call' = [call EXCEPT ![a] = NoCall]
    BY DEF LoginAnswer, End, Advance
  <1>2. /\ call[a].email \in Addresses /\ call[a].password \in Passwords
        /\ account[call[a].email] # None
    BY <1>1 DEF Inv, CallInv
  <1>3. jwt' \in [Addresses -> [Passwords -> 0..TokenLife]]
    BY <1>2, ConstantsOK DEF LoginAnswer, Inv, TypeOK
  <1>4. UNCHANGED <<account, held, outbox, inbox, newest, made, used, crossed, minted, replaced>>
    BY DEF LoginAnswer
  <1>5. TypeOK'
    BY <1>1, <1>3, <1>4, Ending DEF Inv, TypeOK
  <1>6. \A b \in Callers : call'[b] = NoCall \/ call'[b] = call[b]
    BY <1>1 DEF Inv, TypeOK
  <1>7. NoCall.pc = "idle"
    BY DEF NoCall, Calling
  <1>8. \A e \in Addresses : RowInv(e)' /\ NewestInv(e)' /\ JwtInv(e)'
    <2>1. \A e \in Addresses : RowInv(e)' /\ NewestInv(e)'
      BY <1>4 DEF Inv, RowInv, NewestInv
    <2>2. ASSUME NEW e \in Addresses PROVE JwtInv(e)'
      BY <1>2, <1>4 DEF Inv, JwtInv, Valid, LoginAnswer, TypeOK
    <2> QED
      BY <2>1, <2>2
  <1>9. \A b \in Callers : CallInv(b)' /\ UnderWayInv(b)'
    BY <1>4, <1>6, <1>7 DEF Inv, CallInv, UnderWayInv, Opens, Linking, Resetting
  <1>10. \A b, d \in Callers : Apart(b, d)'
    BY <1>6, <1>7 DEF Inv, Apart, Linking
  <1>11. MailInv' /\ HeldInv'
    BY <1>4 DEF Inv, MailInv, HeldInv, Opens
  <1> QED
    BY <1>5, <1>8, <1>9, <1>10, <1>11 DEF Inv

\* The key is handed out: it opens the account, or has been replaced since it
\* was stored.
LEMMA KeyAnswerInv ==
  ASSUME Inv, NEW a \in Callers, RegisterAnswer(a) \/ RegenerateAnswer(a)
  PROVE  Inv'
  <1>1. call[a].pc \in {"welcoming", "renewed"} /\ call' = [call EXCEPT ![a] = NoCall]
    BY DEF RegisterAnswer, RegenerateAnswer, End, Advance
  <1> DEFINE h == [email |-> call[a].email, key |-> call[a].key]
  <1>2. h \in Held /\ Opens(h.email, h.key)
    BY <1>1 DEF Inv, CallInv, Held
  <1>3. held' = held \cup {h}
    BY DEF RegisterAnswer, RegenerateAnswer, HandOut
  <1>4. UNCHANGED <<account, jwt, outbox, inbox, newest, made, used, crossed, minted, replaced>>
    BY DEF RegisterAnswer, RegenerateAnswer
  <1>5. TypeOK'
    BY <1>1, <1>2, <1>3, <1>4, Ending DEF Inv, TypeOK
  <1>6. \A b \in Callers : call'[b] = NoCall \/ call'[b] = call[b]
    BY <1>1 DEF Inv, TypeOK
  <1>7. NoCall.pc = "idle"
    BY DEF NoCall, Calling
  <1>8. \A e \in Addresses : RowInv(e)' /\ NewestInv(e)' /\ JwtInv(e)'
    BY <1>4 DEF Inv, RowInv, NewestInv, JwtInv, Valid
  <1>9. \A b \in Callers : CallInv(b)' /\ UnderWayInv(b)'
    BY <1>4, <1>6, <1>7 DEF Inv, CallInv, UnderWayInv, Opens, Linking, Resetting
  <1>10. HeldInv'
    BY <1>2, <1>3, <1>4 DEF Inv, HeldInv, Opens
  <1>11. \A b, d \in Callers : Apart(b, d)'
    BY <1>6, <1>7 DEF Inv, Apart, Linking
  <1>12. MailInv'
    BY <1>4 DEF Inv, MailInv
  <1> QED
    BY <1>5, <1>8, <1>9, <1>10, <1>11, <1>12 DEF Inv

\* The mail goes out to the address the link was made for; no call that still
\* has to store its link has this one.
LEMMA ForgotAnswerInv ==
  ASSUME Inv, NEW a \in Callers, ForgotAnswer(a)
  PROVE  Inv'
  <1>1. call[a].pc = "linked" /\ call' = [call EXCEPT ![a] = NoCall]
    BY DEF ForgotAnswer, End, Advance
  <1>2. call[a].link \in Links /\ made[call[a].link] # None
    BY <1>1 DEF Inv, CallInv, Linking
  <1>3. outbox' = outbox \cup {call[a].link}
    BY DEF ForgotAnswer
  <1>4. UNCHANGED <<account, held, jwt, inbox, newest, made, used, crossed, minted, replaced>>
    BY DEF ForgotAnswer
  <1>5. TypeOK'
    BY <1>1, <1>2, <1>3, <1>4, Ending DEF Inv, TypeOK
  <1>6. \A b \in Callers : call'[b] = IF b = a THEN NoCall ELSE call[b]
    BY <1>1 DEF Inv, TypeOK
  <1>7. NoCall.pc = "idle"
    BY DEF NoCall, Calling
  <1>8. \A e \in Addresses : RowInv(e)' /\ NewestInv(e)' /\ JwtInv(e)'
    BY <1>4 DEF Inv, RowInv, NewestInv, JwtInv, Valid
  <1>9. \A b \in Callers : CallInv(b)' /\ UnderWayInv(b)'
    <2> TAKE b \in Callers
    <2>1. CASE b = a
      BY <1>4, <1>6, <1>7, <2>1 DEF Inv, CallInv, UnderWayInv, Opens, Linking, Resetting
    <2>2. CASE b # a
      <3>1. call'[b] = call[b]
        BY <1>6, <2>2
      <3>2. call[b].pc = "linking" => call[b].link # call[a].link
        BY <1>1, <2>2 DEF Inv, Apart, Linking
      <3> QED
        BY <1>3, <1>4, <3>1, <3>2 DEF Inv, CallInv, UnderWayInv, Opens, Linking, Resetting
    <2> QED
      BY <2>1, <2>2
  <1>10. \A b, d \in Callers : Apart(b, d)'
    BY <1>6, <1>7 DEF Inv, Apart, Linking
  <1>11. MailInv' /\ HeldInv'
    BY <1>2, <1>3, <1>4 DEF Inv, MailInv, HeldInv, Opens
  <1> QED
    BY <1>5, <1>8, <1>9, <1>10, <1>11 DEF Inv

LEMMA MailInvStep ==
  ASSUME Inv, NEW l \in Links, MailGoes(l) \/ MailLost(l)
  PROVE  Inv'
  <1>1. /\ l \in outbox /\ outbox' = outbox \ {l}
        /\ inbox' = inbox \/ inbox' = inbox \cup {l}
        /\ UNCHANGED <<account, call, held, jwt, newest, made, used, crossed, minted, replaced>>
    BY DEF MailGoes, MailLost
  <1>2. TypeOK'
    BY <1>1 DEF Inv, TypeOK
  <1>3. \A e \in Addresses : RowInv(e)' /\ NewestInv(e)' /\ JwtInv(e)'
    BY <1>1 DEF Inv, RowInv, NewestInv, JwtInv, Valid
  <1>4. \A b \in Callers : CallInv(b)' /\ UnderWayInv(b)'
    BY <1>1 DEF Inv, CallInv, UnderWayInv, Opens, Linking, Resetting
  <1>5. (\A b, d \in Callers : Apart(b, d)') /\ MailInv' /\ HeldInv'
    BY <1>1 DEF Inv, Apart, Linking, MailInv, HeldInv, Opens
  <1> QED
    BY <1>2, <1>3, <1>4, <1>5 DEF Inv

\* A new token has been seen by nobody: it is in no row, no mail and no call.
LEMMA ForgotSelectInv ==
  ASSUME Inv, NEW a \in Callers, NEW e \in Addresses, NEW l \in Links,
         ForgotSelect(a, e, l)
  PROVE  Inv'
  <1> DEFINE q == Calling("linking", e, None, l, LinkLife)
  <1> DEFINE n == [email |-> e, age |-> 0]
  <1>1. /\ account[e] # None /\ made[l] = None /\ made' = [made EXCEPT ![l] = n]
        /\ call' = [call EXCEPT ![a] = q]
        /\ UNCHANGED <<account, held, jwt, outbox, inbox, newest, used, crossed, minted, replaced>>
    BY DEF ForgotSelect, Begin, NewLink
  <1>2. q \in Call /\ n \in Made
    BY ConstantsOK DEF Calling, Call, Phases, Made
  <1>3. q.pc = "linking" /\ q.email = e /\ q.link = l /\ q.left = LinkLife
    BY DEF Calling
  <1>4. n # None /\ n.email = e /\ n.age = 0
    BY <1>2, NoneIsNew
  <1>5. TypeOK'
    BY <1>1, <1>2 DEF Inv, TypeOK
  <1>6. \A k \in Links : made'[k] = IF k = l THEN n ELSE made[k]
    BY <1>1 DEF Inv, TypeOK
  <1>7. \A b \in Callers : call'[b] = IF b = a THEN q ELSE call[b]
    BY <1>1 DEF Inv, TypeOK
  <1>8. ASSUME NEW f \in Addresses PROVE RowInv(f)' /\ NewestInv(f)' /\ JwtInv(f)'
    <2>1. account[f] # None => account[f].link \in Links \cup {None}
      BY DEF Inv, TypeOK, Account
    <2>2. account[f] # None /\ account[f].link # None => account[f].link # l
      BY <1>1 DEF Inv, RowInv
    <2> QED
      BY <1>1, <1>6, <2>1, <2>2 DEF Inv, RowInv, NewestInv, JwtInv, Valid
  <1>9. ASSUME NEW b \in Callers PROVE CallInv(b)' /\ UnderWayInv(b)'
    <2>1. CASE b = a
      <3>1. call'[b] = q
        BY <1>7, <2>1
      <3>2. made'[l] = n
        BY <1>6
      <3>3. l \notin inbox \cup outbox
        BY <1>1 DEF Inv, MailInv
      <3>4. n.age + q.left <= LinkLife
        BY <1>3, <1>4, ConstantsOK
      <3>5. CallInv(b)'
        BY <1>1, <1>3, <1>4, <3>1, <3>2, <3>3, <3>4 DEF CallInv, Linking, Resetting
      <3> QED
        BY <1>1, <1>3, <3>1, <3>5 DEF Inv, UnderWayInv, Resetting
    <2>2. CASE b # a
      <3>1. call'[b] = call[b]
        BY <1>7, <2>2
      <3>2. call[b].pc \in Linking \cup Resetting =>
              call[b].link \in Links /\ call[b].link # l
        BY <1>1 DEF Inv, CallInv
      <3> QED
        BY <1>1, <1>6, <3>1, <3>2 DEF Inv, CallInv, UnderWayInv, Opens, Linking, Resetting
    <2> QED
      BY <2>1, <2>2
  <1>10. ASSUME NEW b \in Callers, NEW d \in Callers PROVE Apart(b, d)'
    <2>1. \A x \in Callers : call[x].pc \in Linking => call[x].link # l
      BY <1>1 DEF Inv, CallInv
    <2> QED
      BY <1>3, <1>7, <2>1 DEF Inv, Apart
  <1>11. MailInv'
    <2>1. \A k \in inbox \cup outbox : k \in Links
      BY DEF Inv, TypeOK
    <2> QED
      BY <1>1, <1>4, <1>6, <2>1 DEF Inv, MailInv
  <1>12. HeldInv'
    BY <1>1 DEF Inv, HeldInv, Opens
  <1> QED
    BY <1>5, <1>8, <1>9, <1>10, <1>11, <1>12 DEF Inv

\* A row that is written for the first time.
LEMMA RegisterInsertInv ==
  ASSUME Inv, NEW a \in Callers, RegisterInsert(a)
  PROVE  Inv'
  <1>1. PICK e \in Addresses : e = call[a].email
    BY DEF RegisterInsert, Advance, Inv, CallInv
  <1> DEFINE q == Keyed("welcoming", call[a].email, None, call[a].key)
  <1> DEFINE row == NewAccount(a)
  <1>2. /\ call[a].pc = "joining" /\ call' = [call EXCEPT ![a] = q]
        /\ account[e] = None /\ account' = [account EXCEPT ![e] = row]
        /\ UNCHANGED <<held, jwt, outbox, inbox, newest, made, used, crossed, minted, replaced>>
    BY <1>1 DEF RegisterInsert, Advance
  <1>3. call[a] \in Call /\ call[a].key \in Keys
    BY <1>2 DEF Inv, TypeOK, CallInv
  <1>4. q \in Call /\ q.pc = "welcoming" /\ q.email = e /\ q.key = call[a].key
    BY <1>1, <1>3, ConstantsOK DEF Keyed, Call, Phases
  <1>5. row \in Account /\ row.key = call[a].key /\ row.link = None
    BY <1>3, ConstantsOK DEF NewAccount, Account, Call
  <1>6. row # None
    BY <1>5, NoneIsNew
  <1>7. TypeOK'
    BY <1>2, <1>4, <1>5 DEF Inv, TypeOK
  <1>8. \A f \in Addresses : account'[f] = IF f = e THEN row ELSE account[f]
    BY <1>2 DEF Inv, TypeOK
  <1>9. \A b \in Callers : call'[b] = IF b = a THEN q ELSE call[b]
    BY <1>2 DEF Inv, TypeOK
  <1>10. RowsKept
    BY <1>2, <1>8 DEF RowsKept
  <1>11. ASSUME NEW f \in Addresses PROVE RowInv(f)' /\ NewestInv(f)' /\ JwtInv(f)'
    <2>1. RowInv(f)' /\ NewestInv(f)'
      BY <1>2, <1>5, <1>8 DEF Inv, RowInv, NewestInv
    <2> QED
      BY <1>2, <1>10, <2>1, JwtKept
  <1>12. ASSUME NEW b \in Callers PROVE CallInv(b)' /\ UnderWayInv(b)'
    <2>2. CASE b = a
      <3>1. call'[b] = q /\ account'[e] = row
        BY <1>8, <1>9, <2>2
      <3> QED
        BY <1>3, <1>4, <1>5, <1>6, <2>2, <3>1
           DEF CallInv, UnderWayInv, Opens, Linking, Resetting
    <2>3. CASE b # a
      <3>1. call'[b] = call[b]
        BY <1>9, <2>3
      <3>2. CallInv(b)'
        BY <1>2, <1>10, <3>1, CallKept DEF Inv
      <3>3. UnderWayInv(b)'
        BY <1>2, <3>1 DEF Inv, UnderWayInv
      <3> QED
        BY <3>2, <3>3
    <2> QED
      BY <2>2, <2>3
  <1>13. \A b, d \in Callers : Apart(b, d)'
    BY <1>4, <1>9, ZenonT(40) DEF Inv, Apart, Linking
  <1>14. MailInv'
    BY <1>2 DEF Inv, MailInv
  <1>15. HeldInv'
    BY <1>2, <1>10, HeldKept
  <1> QED
    BY <1>7, <1>11, <1>12, <1>13, <1>14, <1>15 DEF Inv

\* The key that the row loses is replaced.
LEMMA RegenerateCommitInv ==
  ASSUME Inv, NEW a \in Callers, RegenerateCommit(a)
  PROVE  Inv'
  <1>1. call[a].pc = "renewing" /\ CallInv(a)
    BY DEF RegenerateCommit, Advance, Inv
  <1>2. PICK e \in Addresses : e = call[a].email
    BY <1>1 DEF CallInv
  <1> DEFINE q == Keyed("renewed", call[a].email, None, call[a].key)
  <1> DEFINE row == [account[e] EXCEPT !.key = call[a].key]
  <1>3. /\ call' = [call EXCEPT ![a] = q]
        /\ account' = [account EXCEPT ![e] = row]
        /\ replaced' = replaced \cup {account[e].key}
        /\ UNCHANGED <<held, jwt, outbox, inbox, newest, made, used, crossed, minted>>
    BY <1>2 DEF RegenerateCommit, Advance
  <1>4. call[a].key \in Keys /\ account[e] # None
    BY <1>1, <1>2 DEF CallInv
  <1>5. q \in Call /\ q.pc = "renewed" /\ q.email = e /\ q.key = call[a].key
    BY <1>2, <1>4, ConstantsOK DEF Keyed, Call, Phases
  <1>6. account[e] \in Account
    BY <1>4 DEF Inv, TypeOK
  <1>7. /\ row \in Account /\ row.key = call[a].key
        /\ row.link = account[e].link /\ row.left = account[e].left
    BY <1>4, <1>6 DEF Account
  <1>8. row # None
    BY <1>7, NoneIsNew
  <1>9. TypeOK'
    <2>1. replaced' \subseteq Keys \cup {None}
      BY <1>3, <1>6 DEF Inv, TypeOK, Account
    <2> QED
      BY <1>3, <1>5, <1>7, <2>1 DEF Inv, TypeOK
  <1>10. \A f \in Addresses : account'[f] = IF f = e THEN row ELSE account[f]
    BY <1>3 DEF Inv, TypeOK
  <1>11. \A b \in Callers : call'[b] = IF b = a THEN q ELSE call[b]
    BY <1>3 DEF Inv, TypeOK
  <1>12. RowsKept
    BY <1>3, <1>8, <1>10 DEF RowsKept
  <1>13. ASSUME NEW f \in Addresses PROVE RowInv(f)' /\ NewestInv(f)' /\ JwtInv(f)'
    <2>1. RowInv(f)' /\ NewestInv(f)'
      BY <1>3, <1>4, <1>7, <1>8, <1>10 DEF Inv, RowInv, NewestInv
    <2> QED
      BY <1>3, <1>12, <2>1, JwtKept
  <1>14. ASSUME NEW b \in Callers PROVE CallInv(b)' /\ UnderWayInv(b)'
    <2>2. CASE b = a
      <3>1. call'[b] = q /\ account'[e] = row
        BY <1>10, <1>11, <2>2
      <3> QED
        BY <1>4, <1>5, <1>7, <1>8, <2>2, <3>1
           DEF CallInv, UnderWayInv, Opens, Linking, Resetting
    <2>3. CASE b # a
      <3>1. call'[b] = call[b]
        BY <1>11, <2>3
      <3>2. CallInv(b)'
        BY <1>3, <1>12, <3>1, CallKept DEF Inv
      <3>3. UnderWayInv(b)'
        BY <1>3, <3>1 DEF Inv, UnderWayInv
      <3> QED
        BY <3>2, <3>3
    <2> QED
      BY <2>2, <2>3
  <1>15. \A b, d \in Callers : Apart(b, d)'
    BY <1>5, <1>11, ZenonT(40) DEF Inv, Apart, Linking
  <1>16. MailInv'
    BY <1>3 DEF Inv, MailInv
  <1>17. HeldInv'
    BY <1>3, <1>12, HeldKept
  <1> QED
    BY <1>9, <1>13, <1>14, <1>15, <1>16, <1>17 DEF Inv

\* The link becomes the newest, and the resets under way at that moment are why
\* it may be cleared without having been used.
LEMMA ForgotCommitInv ==
  ASSUME Inv, NEW a \in Callers, ForgotCommit(a)
  PROVE  Inv'
  <1>1. call[a].pc = "linking" /\ CallInv(a)
    BY DEF ForgotCommit, Advance, Inv
  <1>2. PICK e \in Addresses : e = call[a].email
    BY <1>1 DEF CallInv
  <1>3. PICK l \in Links : l = call[a].link
    BY <1>1 DEF CallInv, Linking
  <1> DEFINE q == Calling("linked", None, None, l, 0)
  <1> DEFINE row == [account[e] EXCEPT !.link = l, !.left = call[a].left]
  <1>4. /\ call' = [call EXCEPT ![a] = q]
        /\ account' = [account EXCEPT ![e] = row]
        /\ newest' = [newest EXCEPT ![e] = l]
        /\ crossed' = IF ResetUnderWay(e) THEN crossed \cup {l} ELSE crossed
        /\ UNCHANGED <<held, jwt, outbox, inbox, made, used, minted, replaced>>
    BY <1>2, <1>3 DEF ForgotCommit, Advance
  <1>5. call[a] \in Call
    BY DEF Inv, TypeOK
  <1>6. q \in Call /\ q.pc = "linked" /\ q.link = l
    BY ConstantsOK DEF Calling, Call, Phases
  <1>7. /\ account[e] # None /\ made[l] # None /\ made[l].email = e
        /\ made[l].age + call[a].left <= LinkLife
        /\ l \notin inbox \cup outbox
    BY <1>1, <1>2, <1>3 DEF CallInv, Linking, Resetting
  <1>8. account[e] \in Account
    BY <1>7 DEF Inv, TypeOK
  <1>9. /\ row \in Account /\ row.link = l /\ row.left = call[a].left
        /\ row.key = account[e].key
    BY <1>5, <1>8 DEF Account, Call
  <1>10. row # None /\ l # None
    BY <1>9, NoneIsNew, ConstantsOK
  <1>11. TypeOK'
    BY <1>4, <1>6, <1>9 DEF Inv, TypeOK
  <1>12. \A f \in Addresses : /\ account'[f] = IF f = e THEN row ELSE account[f]
                              /\ newest'[f] = IF f = e THEN l ELSE newest[f]
    BY <1>4 DEF Inv, TypeOK
  <1>13. \A b \in Callers : call'[b] = IF b = a THEN q ELSE call[b]
    BY <1>4 DEF Inv, TypeOK
  <1>14. crossed \subseteq crossed'
    BY <1>4
  <1>rows. RowsKept
    BY <1>4, <1>9, <1>10, <1>12 DEF RowsKept
  <1>15. ASSUME NEW f \in Addresses PROVE RowInv(f)' /\ NewestInv(f)' /\ JwtInv(f)'
    <2>jwt. JwtInv(f)'
      BY <1>4, <1>rows, JwtKept
    <2>1. CASE f = e
      <3>1. l \notin used
        BY <1>7 DEF Inv, MailInv
      <3>2. /\ account'[f] = row /\ newest'[f] = l /\ made' = made /\ used' = used
        BY <1>4, <1>12, <2>1
      <3>3. RowInv(f)'
        BY <1>7, <1>9, <2>1, <3>1, <3>2 DEF RowInv
      <3>4. NewestInv(f)'
        BY <1>9, <1>10, <3>2 DEF NewestInv
      <3> QED
        BY <2>jwt, <3>3, <3>4
    <2>2. CASE f # e
      BY <1>4, <1>12, <1>14, <2>2, <2>jwt DEF Inv, RowInv, NewestInv
    <2> QED
      BY <2>1, <2>2
  <1>16. HeldInv'
    BY <1>4, <1>rows, HeldKept
  <1>17. ASSUME NEW b \in Callers PROVE CallInv(b)' /\ UnderWayInv(b)'
    <2>1. CASE b = a
      <3>1. call'[b] = q /\ account'[e] = row
        BY <1>12, <1>13, <2>1
      <3> QED
        BY <1>4, <1>6, <1>7, <1>10, <3>1 DEF CallInv, UnderWayInv, Linking, Resetting
    <2>2. CASE b # a
      <3>1. call'[b] = call[b] /\ CallInv(b) /\ UnderWayInv(b)
        BY <1>13, <2>2 DEF Inv
      <3>2. CallInv(b)'
        BY <1>4, <1>rows, <3>1, CallKept
      <3>3. UnderWayInv(b)'
        <4>1. CASE call[b].pc \in Resetting /\ call[b].email = e
          <5>1. ResetUnderWay(e)
            BY <4>1 DEF ResetUnderWay, Resetting
          <5>2. newest'[e] \in crossed'
            BY <1>4, <1>12, <5>1
          <5> QED
            BY <3>1, <4>1, <5>2 DEF UnderWayInv
        <4>2. CASE call[b].pc \in Resetting /\ call[b].email # e
          <5>1. call[b].email \in Addresses
            BY <3>1, <4>2 DEF CallInv, Resetting
          <5> QED
            BY <1>4, <1>12, <1>14, <3>1, <4>2, <5>1 DEF UnderWayInv
        <4>3. CASE call[b].pc \notin Resetting
          BY <3>1, <4>3 DEF UnderWayInv
        <4> QED
          BY <4>1, <4>2, <4>3
      <3> QED
        BY <3>2, <3>3
    <2> QED
      BY <2>1, <2>2
  <1>18. \A b, d \in Callers : Apart(b, d)'
    <2>1. call[a].pc \in Linking
      BY <1>1 DEF Linking
    <2>2. \A b \in Callers : call'[b].link = call[b].link
                             /\ (call'[b].pc \in Linking => call[b].pc \in Linking)
      BY <1>3, <1>6, <1>13, <2>1
    <2> QED
      BY <2>2 DEF Inv, Apart
  <1>19. MailInv'
    BY <1>4 DEF Inv, MailInv
  <1> QED
    BY <1>11, <1>15, <1>16, <1>17, <1>18, <1>19 DEF Inv

\* The reset is by id: whatever link the row has is gone, and if that is the
\* newest it has been used just now, or had been stored since the reset began.
LEMMA ResetCommitInv ==
  ASSUME Inv, NEW a \in Callers, ResetCommit(a)
  PROVE  Inv'
  <1>1. call[a].pc = "resetting" /\ CallInv(a) /\ UnderWayInv(a)
    BY DEF ResetCommit, End, Advance, Inv
  <1>2. PICK e \in Addresses : e = call[a].email
    BY <1>1 DEF CallInv
  <1>3. PICK l \in Links : l = call[a].link
    BY <1>1 DEF CallInv, Resetting
  <1> DEFINE row == [key |-> account[e].key, password |-> call[a].password,
                     link |-> None, left |-> 0]
  <1>4. /\ call' = [call EXCEPT ![a] = NoCall]
        /\ account' = [account EXCEPT ![e] = row]
        /\ used' = used \cup {l}
        /\ UNCHANGED <<held, jwt, outbox, inbox, newest, made, crossed, minted, replaced>>
    BY <1>2, <1>3 DEF ResetCommit, End, Advance
  <1>5. call[a] \in Call
    BY DEF Inv, TypeOK
  <1>6. NoCall \in Call /\ NoCall.pc = "idle"
    BY <1>4, Ending DEF NoCall, Calling
  <1>7. /\ account[e] # None /\ made[l] # None /\ made[l].email = e /\ l \in inbox
        /\ call[a].password \in Passwords
    BY <1>1, <1>2, <1>3 DEF CallInv, Resetting
  <1>8. account[e] \in Account
    BY <1>7 DEF Inv, TypeOK
  <1>9. row \in Account /\ row.link = None /\ row.key = account[e].key
    <2>1. 0 \in 0..LinkLife
      BY ConstantsOK
    <2> QED
      BY <1>7, <1>8, <2>1 DEF Account
  <1>10. row # None
    BY <1>9, NoneIsNew
  <1>11. TypeOK'
    BY <1>4, <1>6, <1>9 DEF Inv, TypeOK
  <1>12. \A f \in Addresses : account'[f] = IF f = e THEN row ELSE account[f]
    BY <1>4 DEF Inv, TypeOK
  <1>13. \A b \in Callers : call'[b] = IF b = a THEN NoCall ELSE call[b]
    BY <1>4 DEF Inv, TypeOK
  <1>rows. RowsKept
    BY <1>4, <1>9, <1>10, <1>12 DEF RowsKept
  <1>14. ASSUME NEW f \in Addresses PROVE RowInv(f)' /\ NewestInv(f)' /\ JwtInv(f)'
    <2>jwt. JwtInv(f)'
      BY <1>4, <1>rows, JwtKept
    <2>1. CASE f = e
      <3>1. newest[e] # None => newest[e] \in used' \cup crossed
        BY <1>1, <1>2, <1>3, <1>4 DEF UnderWayInv, Resetting
      <3> QED
        BY <1>4, <1>9, <1>10, <1>12, <2>1, <2>jwt, <3>1 DEF RowInv, NewestInv
    <2>2. CASE f # e
      <3>1. RowInv(f) /\ NewestInv(f)
        BY DEF Inv
      <3>2. account[f] # None /\ account[f].link # None => account[f].link # l
        BY <1>7, <2>2, <3>1 DEF RowInv
      <3> QED
        BY <1>4, <1>12, <2>2, <2>jwt, <3>1, <3>2 DEF RowInv, NewestInv
    <2> QED
      BY <2>1, <2>2
  <1>15. HeldInv'
    BY <1>4, <1>rows, HeldKept
  <1>16. ASSUME NEW b \in Callers PROVE CallInv(b)' /\ UnderWayInv(b)'
    <2>1. CASE b = a
      <3>1. call'[b] = NoCall
        BY <1>13, <2>1
      <3> QED
        BY <1>6, <3>1 DEF CallInv, UnderWayInv, Linking, Resetting
    <2>2. CASE b # a
      <3>1. call'[b] = call[b] /\ CallInv(b) /\ UnderWayInv(b)
        BY <1>13, <2>2 DEF Inv
      <3>2. CallInv(b)'
        BY <1>4, <1>rows, <3>1, CallKept
      <3>3. UnderWayInv(b)'
        <4>1. used \subseteq used' /\ crossed' = crossed /\ newest' = newest
          BY <1>4
        <4> QED
          BY <3>1, <4>1 DEF UnderWayInv
      <3> QED
        BY <3>2, <3>3
    <2> QED
      BY <2>1, <2>2
  <1>17. \A b, d \in Callers : Apart(b, d)'
    BY <1>6, <1>13, ZenonT(40) DEF Inv, Apart, Linking
  <1>18. MailInv'
    BY <1>4, <1>7 DEF Inv, MailInv
  <1> QED
    BY <1>11, <1>14, <1>15, <1>16, <1>17, <1>18 DEF Inv

\* An hour that has less left has more behind it.
LEMMA TickInv ==
  ASSUME Inv, Tick
  PROVE  Inv'
  <1>1. /\ \A e \in Addresses :
             account'[e] = IF account[e] = None THEN None
                           ELSE [account[e] EXCEPT !.left = Down(@)]
        /\ \A a \in Callers : call'[a] = [call[a] EXCEPT !.left = Down(@)]
        /\ \A l \in Links :
             made'[l] = IF made[l] = None THEN None
                        ELSE [made[l] EXCEPT !.age = Up(@, LinkLife)]
        /\ UNCHANGED <<held, outbox, inbox, newest, used, crossed, minted, replaced>>
    BY DEF Tick
  <1>2. ASSUME NEW n \in 0..LinkLife
        PROVE  /\ Down(n) \in 0..LinkLife /\ Up(n, LinkLife) \in 0..LinkLife
               /\ \A m \in 0..LinkLife : n + m <= LinkLife => Up(n, LinkLife) + Down(m) <= LinkLife
    BY ConstantsOK DEF Up, Down
  <1>3. ASSUME NEW e \in Addresses, account[e] # None
        PROVE  /\ account'[e] \in Account /\ account'[e] # None
               /\ account'[e].key = account[e].key /\ account'[e].link = account[e].link
               /\ account[e].left \in 0..LinkLife /\ account'[e].left = Down(account[e].left)
               /\ account[e].link \in Links \cup {None}
    <2>1. account[e] \in Account
      BY <1>3 DEF Inv, TypeOK
    <2>2. account[e].left \in 0..LinkLife /\ Down(account[e].left) \in 0..LinkLife
      BY <1>2, <2>1 DEF Account
    <2>3. account'[e] = [account[e] EXCEPT !.left = Down(@)]
      BY <1>1, <1>3
    <2>4. account'[e] \in Account
      BY <2>1, <2>2, <2>3 DEF Account
    <2> QED
      BY <2>1, <2>2, <2>3, <2>4, NoneIsNew DEF Account
  <1>4. ASSUME NEW a \in Callers
        PROVE  /\ call'[a] \in Call
               /\ call'[a].pc = call[a].pc /\ call'[a].email = call[a].email
               /\ call'[a].password = call[a].password /\ call'[a].link = call[a].link
               /\ call'[a].key = call[a].key
               /\ call[a].left \in 0..LinkLife /\ call'[a].left = Down(call[a].left)
    <2>1. call[a] \in Call
      BY DEF Inv, TypeOK
    <2>2. call[a].left \in 0..LinkLife /\ Down(call[a].left) \in 0..LinkLife
      BY <1>2, <2>1 DEF Call
    <2>3. call'[a] = [call[a] EXCEPT !.left = Down(@)]
      BY <1>1
    <2>4. call'[a] \in Call
      BY <2>1, <2>2, <2>3 DEF Call
    <2> QED
      BY <2>1, <2>2, <2>3, <2>4 DEF Call
  <1>5. ASSUME NEW l \in Links, made[l] # None
        PROVE  /\ made'[l] \in Made /\ made'[l] # None
               /\ made'[l].email = made[l].email
               /\ made[l].age \in 0..LinkLife /\ made'[l].age = Up(made[l].age, LinkLife)
    <2>1. made[l] \in Made
      BY <1>5 DEF Inv, TypeOK
    <2>2. made[l].age \in 0..LinkLife /\ Up(made[l].age, LinkLife) \in 0..LinkLife
      BY <1>2, <2>1 DEF Made
    <2>3. made'[l] = [made[l] EXCEPT !.age = Up(@, LinkLife)]
      BY <1>1, <1>5
    <2>4. made'[l] \in Made
      BY <2>1, <2>2, <2>3 DEF Made
    <2> QED
      BY <2>1, <2>2, <2>3, <2>4, NoneIsNew DEF Made
  <1>6. TypeOK'
    <2>1. account' \in [Addresses -> Account \cup {None}]
      BY <1>1, <1>3 DEF Tick
    <2>2. call' \in [Callers -> Call]
      BY <1>4 DEF Tick
    <2>3. made' \in [Links -> Made \cup {None}]
      BY <1>1, <1>5 DEF Tick
    <2>4. jwt' \in [Addresses -> [Passwords -> 0..TokenLife]]
      <3>1. \A n \in 0..TokenLife : Down(n) \in 0..TokenLife
        BY ConstantsOK DEF Down
      <3>2. \A e \in Addresses, pw \in Passwords : jwt[e][pw] \in 0..TokenLife
        BY DEF Inv, TypeOK
      <3>3. \A e \in Addresses, pw \in Passwords : Down(jwt[e][pw]) \in 0..TokenLife
        BY <3>1, <3>2
      <3>4. jwt' = [e \in Addresses |-> [pw \in Passwords |-> Down(jwt[e][pw])]]
        BY DEF Tick
      <3> HIDE DEF Down
      <3> QED
        BY <3>3, <3>4
    <2> QED
      BY <1>1, <2>1, <2>2, <2>3, <2>4 DEF Inv, TypeOK
  <1>7. ASSUME NEW e \in Addresses PROVE RowInv(e)'
    <2> SUFFICES ASSUME account'[e] # None, account'[e].link # None
                 PROVE  /\ made'[account'[e].link] # None
                        /\ made'[account'[e].link].email = e
                        /\ made'[account'[e].link].age + account'[e].left <= LinkLife
                        /\ account'[e].link \notin used'
      BY DEF RowInv
    <2>1. account[e] # None
      BY <1>1
    <2>2. PICK l \in Links : l = account[e].link /\ l = account'[e].link
      BY <1>3, <2>1
    <2>3. /\ made[l] # None /\ made[l].email = e /\ l \notin used
          /\ made[l].age + account[e].left <= LinkLife
      BY <1>3, <2>1, <2>2 DEF Inv, RowInv
    <2> QED
      BY <1>1, <1>2, <1>3, <1>5, <2>1, <2>2, <2>3
  <1>8. ASSUME NEW e \in Addresses PROVE NewestInv(e)' /\ JwtInv(e)'
    <2>1. \A pw \in Passwords : jwt[e][pw] \in Nat /\ jwt'[e][pw] = Down(jwt[e][pw])
      BY ConstantsOK DEF Inv, TypeOK, Tick
    <2>2. \A pw \in Passwords : Valid(e, pw)' => Valid(e, pw)
      BY <2>1 DEF Valid, Down
    <2> QED
      BY <1>1, <1>3, <2>2 DEF Inv, NewestInv, JwtInv
  <1>rows. RowsKept
    BY <1>1, <1>3 DEF RowsKept
  <1>9. ASSUME NEW a \in Callers PROVE CallInv(a)'
    <2>1. PICK c : c = call[a]
      OBVIOUS
    <2>2. PICK d : d = call'[a]
      OBVIOUS
    <2>3. /\ d.pc = c.pc /\ d.email = c.email /\ d.password = c.password /\ d.link = c.link
          /\ d.key = c.key
          /\ c.left \in 0..LinkLife /\ d.left = Down(c.left)
      BY <1>4, <2>1, <2>2
    <2>4. /\ c.pc \notin {"idle", "linked"} => c.email \in Addresses
          /\ c.pc \in {"joining", "welcoming", "renewing", "renewed"} => c.key \in Keys
          /\ c.pc \in {"joining", "accepted", "found", "resetting"} => c.password \in Passwords
      BY <2>1 DEF Inv, CallInv, Resetting
    <2>5. c.pc \in {"welcoming", "renewed"} => Opens(c.email, c.key)'
      BY <1>rows, <2>1, <2>4, OpensKept DEF Inv, CallInv
    <2>there. c.pc \in {"accepted", "renewing", "linking", "found", "resetting"} =>
             account'[c.email] # None
      BY <1>3, <2>1, <2>4 DEF Inv, CallInv, Resetting
    <2>6. c.pc \in {"linking", "linked", "found", "resetting"} =>
            /\ c.link \in Links /\ made[c.link] # None
            /\ c.pc # "linked" => made[c.link].email = c.email
      BY <2>1 DEF Inv, CallInv, Linking, Resetting
    <2>7. c.pc \in {"linking", "linked", "found", "resetting"} =>
            /\ c.link \in Links /\ made'[c.link] # None
            /\ c.pc # "linked" => made'[c.link].email = c.email
      BY <1>5, <2>6
    <2>8. c.pc \in {"linking", "found"} => made'[c.link].age + d.left <= LinkLife
      <3> SUFFICES ASSUME c.pc \in {"linking", "found"}
                   PROVE  made'[c.link].age + d.left <= LinkLife
        OBVIOUS
      <3>1. made[c.link].age + c.left <= LinkLife
        BY <2>1 DEF Inv, CallInv
      <3>2. made[c.link].age \in 0..LinkLife /\ made'[c.link].age = Up(made[c.link].age, LinkLife)
        BY <1>5, <2>6
      <3> QED
        BY <1>2, <2>3, <3>1, <3>2
    <2>9. /\ c.pc = "linking" => c.link \notin inbox' \cup outbox'
          /\ c.pc \in {"found", "resetting"} => c.link \in inbox'
      BY <1>1, <2>1 DEF Inv, CallInv, Resetting
    <2> QED
      BY <2>2, <2>3, <2>4, <2>5, <2>7, <2>8, <2>9, <2>there DEF CallInv, Linking, Resetting
  <1>10. ASSUME NEW a \in Callers PROVE UnderWayInv(a)'
    BY <1>1, <1>4 DEF Inv, UnderWayInv
  <1>11. \A a, b \in Callers : Apart(a, b)'
    BY <1>4 DEF Inv, Apart
  <1>12. MailInv'
    <2>1. inbox \cup outbox \subseteq Links
      BY DEF Inv, TypeOK
    <2> QED
      BY <1>1, <1>5, <2>1 DEF Inv, MailInv
  <1>13. HeldInv'
    BY <1>1, <1>rows, HeldKept
  <1> QED
    BY <1>6, <1>7, <1>8, <1>9, <1>10, <1>11, <1>12, <1>13 DEF Inv

LEMMA StutterInv ==
  ASSUME Inv, UNCHANGED vars
  PROVE  Inv'
  BY DEF vars, Inv, TypeOK, RowInv, NewestInv, JwtInv, Valid, CallInv, HeldInv, UnderWayInv,
     Opens, Apart, MailInv

\* What get_me does to the state.
LEMMA GetMeChangesNothing ==
  ASSUME NEW a \in Callers, NEW e \in Addresses, NEW pw \in Passwords, GetMe(a, e, pw)
  PROVE  UNCHANGED vars
  BY DEF GetMe

LEMMA InvNext == Inv /\ [Next]_vars => Inv'
  <1> SUFFICES ASSUME Inv, [Next]_vars PROVE Inv'
    OBVIOUS
  <1>1. ASSUME NEW a \in Callers, CallStart(a) PROVE Inv'
    BY <1>1, RegisterSelectInv, LoginSelectInv, GetMeChangesNothing, StutterInv,
       RegenerateSelectInv, ForgotSelectInv, ResetSelectInv
    DEF CallStart
  <1>2. ASSUME NEW a \in Callers, CallStep(a) PROVE Inv'
    BY <1>2, RegisterInsertInv, EndInv, KeyAnswerInv, LoginAnswerInv, RegenerateCommitInv,
        ForgotCommitInv,
       ForgotAnswerInv, ResetInTimeInv, ResetCommitInv
    DEF CallStep
  <1>3. ASSUME NEW a \in Callers, CallBreaks(a) PROVE Inv'
    BY <1>3, EndInv
  <1>4. ASSUME NEW l \in Links, MailGoes(l) \/ MailLost(l) PROVE Inv'
    BY <1>4, MailInvStep
  <1>5. CASE Tick
    BY <1>5, TickInv
  <1>6. CASE UNCHANGED vars
    BY <1>6, StutterInv
  <1> QED
    BY <1>1, <1>2, <1>3, <1>4, <1>5, <1>6 DEF Next

LEMMA Invariance == Spec => []Inv
  BY InvInit, InvNext, PTL DEF Spec

--------------------------------------------------------------------------------
(* The theorems *)

\* Every variable keeps its type.
THEOREM TypeSafe == Spec => []TypeOK
  <1>1. Inv => TypeOK
    BY DEF Inv
  <1> QED
    BY <1>1, Invariance, PTL

\* However many callers register one address at a time, and however often its
\* key is regenerated, the key a caller was shown opens the account until a
\* later regeneration replaces it (register, regenerate_key).
THEOREM KeysOpen == Spec => []HeldKeyOpens
  <1>1. Inv => HeldKeyOpens
    BY DEF Inv, HeldInv, Opens, HeldKeyOpens
  <1> QED
    BY <1>1, Invariance, PTL

\* A reset link works once (reset_password): no row has a link that was used.
THEOREM UsedLinksDead == Spec => []UsedLinkIsDead
  <1>1. Inv => UsedLinkIsDead
    <2> SUFFICES ASSUME Inv, NEW e \in Addresses, account[e] # None
                 PROVE  account[e].link \notin used
      BY DEF UsedLinkIsDead
    <2>1. used \subseteq Links
      BY DEF Inv, TypeOK
    <2> QED
      BY <2>1, ConstantsOK DEF Inv, RowInv
  <1> QED
    BY <1>1, Invariance, PTL

\* The last link of an account is in its row until it is used, but for the
\* links that a reset under way has crossed (forgot_password, reset_password).
THEOREM NewestLink == Spec => []NewestLinkWorks
  <1>1. Inv => NewestLinkWorks
    BY DEF Inv, NewestInv, NewestLinkWorks
  <1> QED
    BY <1>1, Invariance, PTL

\* Nothing but a reset with a link that was mailed to the address, checked
\* within its hour, changes the password of an account.
THEOREM OnlyMailed == Spec => OnlyTheMailedLink
  <1> DEFINE Same == UNCHANGED account
  <1> DEFINE Password ==
        \A e \in Addresses :
          account[e] # None /\ account'[e].password # account[e].password =>
            \E a \in Callers : /\ call[a].pc = "resetting" /\ call[a].link \in inbox
                               /\ made[call[a].link].email = e
                               /\ account'[e].password = call[a].password
  <1> DEFINE Found ==
        \A a \in Callers :
          call[a].pc = "found" /\ call'[a].pc = "resetting" => made[call[a].link].age < LinkLife
  <1>1. ASSUME Inv, [Next]_vars PROVE Password
    <2>1. ASSUME NEW a \in Callers, RegisterInsert(a) PROVE Password
      BY <1>1, <2>1 DEF RegisterInsert, Inv, TypeOK
    <2>2. ASSUME NEW a \in Callers, ForgotCommit(a) PROVE Password
      <3> SUFFICES ASSUME NEW e \in Addresses, account[e] # None
                   PROVE  account'[e].password = account[e].password
        OBVIOUS
      <3>1. account[e] \in Account
        BY <1>1 DEF Inv, TypeOK
      <3>2. account' = [account EXCEPT ![call[a].email] =
                          [@ EXCEPT !.link = call[a].link, !.left = call[a].left]]
        BY <2>2 DEF ForgotCommit
      <3> QED
        BY <1>1, <3>1, <3>2 DEF Inv, TypeOK, Account
    <2>key. ASSUME NEW a \in Callers, RegenerateCommit(a) PROVE Password
      <3> SUFFICES ASSUME NEW e \in Addresses, account[e] # None
                   PROVE  account'[e].password = account[e].password
        OBVIOUS
      <3>1. account[e] \in Account
        BY <1>1 DEF Inv, TypeOK
      <3>2. account' = [account EXCEPT ![call[a].email].key = call[a].key]
        BY <2>key DEF RegenerateCommit
      <3> QED
        BY <1>1, <3>1, <3>2 DEF Inv, TypeOK, Account
    <2>3. ASSUME NEW a \in Callers, ResetCommit(a) PROVE Password
      <3>1. call[a].pc = "resetting" /\ CallInv(a)
        BY <1>1, <2>3 DEF ResetCommit, End, Advance, Inv
      <3>2. call[a].link \in inbox /\ made[call[a].link].email = call[a].email
        BY <3>1 DEF CallInv, Resetting
      <3>3. \A e \in Addresses :
              account'[e] # account[e] =>
                e = call[a].email /\ account'[e].password = call[a].password
        BY <1>1, <2>3 DEF ResetCommit, Inv, TypeOK
      <3> QED
        BY <3>1, <3>2, <3>3
    <2>4. ASSUME Tick PROVE Password
      <3> SUFFICES ASSUME NEW e \in Addresses, account[e] # None
                   PROVE  account'[e].password = account[e].password
        OBVIOUS
      <3>1. account[e] \in Account
        BY <1>1 DEF Inv, TypeOK
      <3>2. account'[e] = [account[e] EXCEPT !.left = Down(@)]
        BY <2>4 DEF Tick
      <3> QED
        BY <3>1, <3>2 DEF Account
    <2>5. CASE Same
      BY <2>5
    <2>6. ASSUME NEW a \in Callers, CallStart(a) PROVE Same
      BY <2>6 DEF CallStart, RegisterSelect, LoginSelect, GetMe, vars, RegenerateSelect,
         ForgotSelect, ResetSelect
    <2>7. ASSUME NEW a \in Callers, CallStep(a)
          PROVE  \/ Same \/ RegisterInsert(a) \/ RegenerateCommit(a) \/ ForgotCommit(a)
                 \/ ResetCommit(a)
      BY <2>7 DEF CallStep, RegisterDuplicate, RegisterAnswer, LoginAnswer, ForgotRaises,
         ForgotAnswer, ResetInTime, ResetExpired, RegenerateAnswer
    <2>8. ASSUME NEW l \in Links, MailGoes(l) \/ MailLost(l) PROVE Same
      BY <2>8 DEF MailGoes, MailLost
    <2>9. ASSUME NEW a \in Callers, CallBreaks(a) PROVE Same
      BY <2>9 DEF CallBreaks
    <2>10. CASE UNCHANGED vars
      BY <2>5, <2>10 DEF vars
    <2> HIDE DEF Password, Same
    <2> QED
      BY <1>1, <2>1, <2>2, <2>3, <2>4, <2>5, <2>6, <2>7, <2>8, <2>9, <2>10, <2>key DEF Next
  <1>2. ASSUME Inv, [Next]_vars, NEW a \in Callers,
               call[a].pc = "found", call'[a].pc = "resetting"
        PROVE  made[call[a].link].age < LinkLife
    <2>1. ResetInTime(a)
      <3>1. ASSUME NEW b \in Callers, CallStart(b) PROVE FALSE
        BY <1>2, <3>1 DEF CallStart, RegisterSelect, LoginSelect, GetMe, vars, RegenerateSelect,
           ForgotSelect,
           ResetSelect, Begin, Calling, Keyed, Inv, TypeOK
      <3>2. ASSUME NEW b \in Callers, CallStep(b) \/ CallBreaks(b), b # a PROVE FALSE
        <4>1. \E q : call' = [call EXCEPT ![b] = q]
          BY <3>2 DEF CallStep, CallBreaks, RegisterInsert, RegisterDuplicate, RegisterAnswer,
             LoginAnswer, ForgotRaises, ForgotCommit, ForgotAnswer, ResetInTime,
             ResetExpired, ResetCommit, RegenerateCommit, RegenerateAnswer, Advance, End
        <4> QED
          BY <1>2, <3>2, <4>1 DEF Inv, TypeOK
      <3>3. ASSUME ~ResetInTime(a), CallStep(a) \/ CallBreaks(a) PROVE FALSE
        <4>1. ResetExpired(a) \/ CallBreaks(a)
          BY <1>2, <3>3 DEF CallStep, RegisterInsert, RegisterDuplicate, RegisterAnswer,
             LoginAnswer, ForgotRaises, ForgotCommit, ForgotAnswer, ResetCommit,
             RegenerateCommit, RegenerateAnswer, Advance, End
        <4>2. call'[a].pc = "idle"
          BY <1>2, <4>1 DEF ResetExpired, CallBreaks, End, Advance, NoCall, Calling, Inv, TypeOK
        <4> QED
          BY <1>2, <4>2
      <3>4. ~Tick
        <4>1. call[a] \in Call
          BY <1>2 DEF Inv, TypeOK
        <4>2. Tick => call'[a].pc = call[a].pc
          BY <4>1 DEF Tick, Call
        <4> QED
          BY <1>2, <4>2
      <3>5. ASSUME NEW l \in Links, MailGoes(l) \/ MailLost(l) PROVE FALSE
        BY <1>2, <3>5 DEF MailGoes, MailLost
      <3>6. ~UNCHANGED vars
        BY <1>2 DEF vars
      <3> QED
        BY <1>2, <3>1, <3>2, <3>3, <3>4, <3>5, <3>6 DEF Next
    <2>2. call[a].left > 0 /\ call[a].left \in 0..LinkLife
      BY <1>2, <2>1 DEF ResetInTime, Inv, TypeOK, Call
    <2>3. made[call[a].link] # None /\ call[a].link \in Links
      BY <1>2 DEF Inv, CallInv, Resetting
    <2>4. made[call[a].link].age \in 0..LinkLife
      BY <1>2, <2>3 DEF Inv, TypeOK, Made
    <2>5. made[call[a].link].age + call[a].left <= LinkLife
      BY <1>2 DEF Inv, CallInv
    <2> QED
      BY <2>2, <2>4, <2>5, ConstantsOK
  <1>3. Inv /\ [Next]_vars => [Password /\ Found]_vars
    BY <1>1, <1>2
  <1> QED
    BY <1>3, Invariance, PTL DEF Spec, OnlyTheMailedLink
--------------------------------------------------------------------------------
(* What the deployed session makes of the reset.  SQLAlchemy begins a
   transaction with the first SELECT, so the session.begin() that
   forgot_password calls after it raises (Autobegin). *)

\* No link is stored, so none is mailed and none can be presented.
Linkless ==
  /\ \A e \in Addresses : account[e] # None => account[e].link = None
  /\ \A a \in Callers : call[a].pc \notin {"linked", "found", "resetting"}
  /\ outbox = {} /\ inbox = {}

\* The passwords that accounts have.
PasswordsStay ==
  [][\A e \in Addresses :
       account[e] # None => account'[e] # None /\ account'[e].password = account[e].password]_vars

LEMMA LinklessNext ==
  ASSUME Autobegin, Inv, Linkless, [Next]_vars
  PROVE  Linkless'
  <1> USE DEF Linkless
  <1>1. \A a \in Callers : call[a] \in Call
    BY DEF Inv, TypeOK
  <1>2. \A e \in Addresses : account[e] # None => account[e] \in Account
    BY DEF Inv, TypeOK
  <1>me. ASSUME NEW a \in Callers, NEW e \in Addresses, NEW pw \in Passwords, GetMe(a, e, pw)
         PROVE  Linkless'
    BY <1>me, GetMeChangesNothing DEF vars
  <1>3. ASSUME NEW a \in Callers, CallStart(a),
               \A e \in Addresses, pw \in Passwords : ~GetMe(a, e, pw)
        PROVE  Linkless'
    <2>1. UNCHANGED <<account, outbox, inbox>>
      BY <1>3 DEF CallStart, RegisterSelect, LoginSelect, RegenerateSelect, ForgotSelect,
         ResetSelect
    <2>2. \A l \in Links, pw \in Passwords : ~ResetSelect(a, l, pw)
      BY DEF ResetSelect
    <2>3. \E q : call' = [call EXCEPT ![a] = q]
              /\ q.pc \in {"joining", "accepted", "renewing", "linking"}
      <3>1. /\ \A pc, e, pw, l, n : Calling(pc, e, pw, l, n).pc = pc
            /\ \A pc, e, pw, k : Keyed(pc, e, pw, k).pc = pc
        BY DEF Calling, Keyed
      <3>2. PICK q : /\ call' = [call EXCEPT ![a] = q]
                     /\ \/ \E pc \in {"accepted", "linking"} :
                             \E e, pw, l, n : q = Calling(pc, e, pw, l, n)
                        \/ \E pc \in {"joining", "renewing"} : \E e, pw, k : q = Keyed(pc, e, pw, k)
        <4> HIDE DEF Linkless
        <4>1. ASSUME NEW e \in Addresses, NEW pw \in Passwords,
                     RegisterSelect(a, e, pw) \/ RegenerateSelect(a, e, pw)
              PROVE  \E pc \in {"joining", "renewing"} : \E x, y, k :
                        call' = [call EXCEPT ![a] = Keyed(pc, x, y, k)]
          BY <4>1 DEF RegisterSelect, RegenerateSelect, Begin
        <4>2. ASSUME NEW e \in Addresses, NEW pw \in Passwords,
                     LoginSelect(a, e, pw)
              PROVE  \E x, y, l, n : call' = [call EXCEPT ![a] = Calling("accepted", x, y, l, n)]
          BY <4>2 DEF LoginSelect, Begin
        <4>3. ASSUME NEW e \in Addresses, NEW k \in Links, ForgotSelect(a, e, k)
              PROVE  \E x, y, l, n : call' = [call EXCEPT ![a] = Calling("linking", x, y, l, n)]
          BY <4>3 DEF ForgotSelect, Begin
        <4> QED
          BY <1>3, <2>2, <4>1, <4>2, <4>3 DEF CallStart
      <3>3. q.pc \in {"joining", "accepted", "renewing", "linking"}
        <4>1. ASSUME NEW pc \in {"accepted", "linking"}, NEW e, NEW pw, NEW l, NEW n,
                     q = Calling(pc, e, pw, l, n)
              PROVE  q.pc = pc
          BY <3>1, <4>1
        <4>2. ASSUME NEW pc \in {"joining", "renewing"}, NEW e, NEW pw,
               NEW k, q = Keyed(pc, e, pw, k)
              PROVE  q.pc = pc
          BY <3>1, <4>2
        <4> HIDE DEF Linkless
        <4> QED
          BY <3>2, <4>1, <4>2
      <3> QED
        BY <3>2, <3>3
    <2> QED
      BY <2>1, <2>3 DEF Inv, TypeOK
  <1>4. ASSUME NEW a \in Callers, CallStep(a) \/ CallBreaks(a) PROVE Linkless'
    <2>1. NoCall.pc = "idle"
      BY DEF NoCall, Calling
    <2>4. \A e, pw, k : /\ Keyed("welcoming", e, pw, k).pc = "welcoming"
                         /\ Keyed("renewed", e, pw, k).pc = "renewed"
      BY DEF Keyed
    <2>2. CASE RegisterInsert(a)
      <3> DEFINE q == Keyed("welcoming", call[a].email, None, call[a].key)
      <3>1. /\ call' = [call EXCEPT ![a] = q] /\ q.pc = "welcoming"
            /\ UNCHANGED <<outbox, inbox>>
            /\ account' = [account EXCEPT ![call[a].email] = NewAccount(a)]
        BY <2>2, <2>4 DEF RegisterInsert, Advance
      <3> HIDE DEF q
      <3>2. NewAccount(a).link = None
        BY DEF NewAccount
      <3>3. \A b \in Callers : call'[b].pc = call[b].pc \/ call'[b].pc = "welcoming"
        BY <3>1 DEF Inv, TypeOK
      <3>4. \A e \in Addresses : account'[e] = account[e] \/ account'[e] = NewAccount(a)
        BY <3>1 DEF Inv, TypeOK
      <3> QED
        BY <3>1, <3>2, <3>3, <3>4
    <2>5. CASE RegenerateCommit(a)
      <3> DEFINE q == Keyed("renewed", call[a].email, None, call[a].key)
      <3>1. /\ call' = [call EXCEPT ![a] = q] /\ q.pc = "renewed"
            /\ UNCHANGED <<outbox, inbox>>
            /\ account' = [account EXCEPT ![call[a].email].key = call[a].key]
        BY <2>5, <2>4 DEF RegenerateCommit, Advance
      <3> HIDE DEF q
      <3>2. \A b \in Callers : call'[b].pc = call[b].pc \/ call'[b].pc = "renewed"
        BY <3>1 DEF Inv, TypeOK
      <3>3. account[call[a].email] # None
        BY <2>5 DEF RegenerateCommit, Advance, Inv, CallInv
      <3>4. \A e \in Addresses : account'[e] # None =>
                  account[e] # None /\ account'[e].link = account[e].link
        BY <1>2, <3>1, <3>3 DEF Account, Inv, TypeOK
      <3> QED
        BY <3>1, <3>2, <3>4
    <2>3. CASE ~RegisterInsert(a) /\ ~RegenerateCommit(a)
      <3>1. UNCHANGED <<account, outbox, inbox>> /\ call' = [call EXCEPT ![a] = NoCall]
        BY <1>4, <2>3 DEF CallStep, CallBreaks, RegisterDuplicate, RegisterAnswer, LoginAnswer,
           RegenerateAnswer, ForgotRaises, ForgotCommit, ForgotAnswer, ResetInTime,
           ResetExpired, ResetCommit, Advance, End
      <3> QED
        BY <2>1, <3>1 DEF Inv, TypeOK
    <2> QED
      BY <2>2, <2>3, <2>5
  <1>5. ASSUME NEW l \in Links, MailGoes(l) \/ MailLost(l) PROVE Linkless'
    BY <1>5 DEF MailGoes, MailLost
  <1>6. CASE Tick
    <2>1. \A a \in Callers : call'[a].pc = call[a].pc
      BY <1>1, <1>6 DEF Tick, Call
    <2>2. \A e \in Addresses :
            account'[e] # None => account[e] # None /\ account'[e].link = account[e].link
      BY <1>2, <1>6 DEF Tick, Account
    <2> QED
      BY <1>6, <2>1, <2>2 DEF Tick
  <1>7. CASE UNCHANGED vars
    BY <1>7 DEF vars
  <1> HIDE DEF Linkless
  <1>8. ASSUME NEW a \in Callers, CallStart(a) PROVE Linkless'
    BY <1>me, <1>3, <1>8
  <1> QED
    BY <1>4, <1>5, <1>6, <1>7, <1>8 DEF Next

\* With the session as it is deployed, no forgot_password call stores a link
\* and no link reaches anybody: reset_password never gets past its SELECT.
THEOREM NobodyGetsALink == ASSUME Autobegin PROVE Spec => []Linkless
  <1>1. Init => Linkless
    BY ConstantsOK DEF Init, Linkless, NoCall, Calling
  <1> QED
    BY <1>1, LinklessNext, Invariance, PTL DEF Spec

\* And so an account keeps the password it was registered with for good: no
\* other handler writes one.
THEOREM PasswordsAreForGood == ASSUME Autobegin PROVE Spec => PasswordsStay
  <1> DEFINE Stay == \A e \in Addresses :
        account[e] # None => account'[e] # None /\ account'[e].password = account[e].password
  <1>1. ASSUME Inv, Linkless, [Next]_vars PROVE Stay
    <2> SUFFICES ASSUME NEW e \in Addresses, account[e] # None
                 PROVE  account'[e] # None /\ account'[e].password = account[e].password
      OBVIOUS
    <2> DEFINE Kept == account'[e] # None /\ account'[e].password = account[e].password
    <2>1. account[e] \in Account
      BY <1>1 DEF Inv, TypeOK
    <2>2. ASSUME account' = account PROVE Kept
      BY <2>2
    <2>3. ASSUME NEW a \in Callers, RegisterInsert(a) PROVE Kept
      BY <1>1, <2>3 DEF RegisterInsert, Inv, TypeOK
    <2>key. ASSUME NEW a \in Callers, RegenerateCommit(a) PROVE Kept
      <3>1. call[a].key \in Keys
        BY <1>1, <2>key DEF RegenerateCommit, Advance, Inv, CallInv
      <3>2. account'[e] = account[e] \/ account'[e] = [account[e] EXCEPT !.key = call[a].key]
        BY <1>1, <2>key DEF RegenerateCommit, Inv, TypeOK
      <3>3. [account[e] EXCEPT !.key = call[a].key] \in Account
        BY <2>1, <3>1 DEF Account
      <3> QED
        BY <2>1, <3>2, <3>3, NoneIsNew DEF Account
    <2>4. ASSUME Tick PROVE Kept
      <3>1. account'[e] = [account[e] EXCEPT !.left = Down(@)]
        BY <2>4 DEF Tick
      <3>2. account'[e].password = account[e].password /\ account'[e].key = account[e].key
        BY <2>1, <3>1 DEF Account
      <3>3. account[e].left \in 0..LinkLife /\ Down(account[e].left) \in 0..LinkLife
        BY <2>1, ConstantsOK DEF Account, Down
      <3>4. account'[e] \in Account
        BY <2>1, <3>1, <3>3 DEF Account
      <3> QED
        BY <3>2, <3>4, NoneIsNew
    <2>5. ASSUME NEW a \in Callers, CallStart(a) \/ CallStep(a) \/ CallBreaks(a)
          PROVE  account' = account \/ RegisterInsert(a) \/ RegenerateCommit(a)
      BY <1>1, <2>5 DEF Linkless, CallStart, RegisterSelect, LoginSelect, GetMe, vars,
         RegenerateSelect, ForgotSelect, ResetSelect, CallStep, CallBreaks, RegisterDuplicate, RegisterAnswer, LoginAnswer,
         ForgotRaises, ForgotCommit, ForgotAnswer, ResetInTime, ResetExpired,
         ResetCommit, RegenerateAnswer, End, Advance
    <2>6. ASSUME NEW l \in Links, MailGoes(l) \/ MailLost(l) PROVE account' = account
      BY <2>6 DEF MailGoes, MailLost
    <2>7. ASSUME UNCHANGED vars PROVE Kept
      BY <2>2, <2>7 DEF vars
    <2>8. Kept
      <3> HIDE DEF Kept
      <3> QED
        BY <1>1, <2>2, <2>3, <2>4, <2>5, <2>6, <2>7, <2>key DEF Next
    <2> QED
      BY <2>8
  <1>2. Inv /\ Linkless /\ [Next]_vars => [Stay]_vars
    BY <1>1
  <1> QED
    BY <1>2, Invariance, NobodyGetsALink, PTL DEF Spec, PasswordsStay
================================================================================
