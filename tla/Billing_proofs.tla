------------------------------ MODULE Billing_proofs ------------------------------
(***************************************************************************)
(* Theorems about Billing, for any number of customers and of attempts     *)
(* that run at the same time, any queue and any number of faults.          *)
(***************************************************************************)
EXTENDS Billing, SequenceTheorems, TLAPS

--------------------------------------------------------------------------------
(* The inductive invariant *)

Same(s, t) == s.status = t.status /\ s.plan = t.plan

\* What a subscription that was s can be reported as.
StepsTo(s, e) ==
  /\ e.name \in Activating => e.status = "ACTIVE"
  /\ e.name \in Updating => e.status = s.status
  /\ e.name \in Expiring => e.status = "INACTIVE" /\ e.plan = s.plan
  /\ e.name \in Failing => e.status = "PAST_DUE" /\ e.plan = s.plan
  /\ e.name \in Cancelling => e.status = "CANCELED" /\ e.plan = s.plan
  /\ e.name \in Resuming => e.status = "ACTIVE" /\ e.plan = s.plan
  /\ e.name \notin Handled => Same(e, s)

Before(c, i) == IF i = 1 THEN known[c] ELSE queue[c][i - 1]
Last(c) == IF queue[c] = <<>> THEN known[c] ELSE queue[c][Len(queue[c])]

\* The events that wait lead from what is known to what the provider holds.
ChainInv(c) ==
  /\ \A i \in 1..Len(queue[c]) : StepsTo(Before(c, i), queue[c][i])
  /\ Same(sub[c], Last(c))
  /\ sub[c].plan = "FREE" => sub[c].status = "ACTIVE"

\* Event e changes nothing in a row that follows s.
Settled(e, s) == \A row \in Row : Follows(row, s) => Follows(Applied(e, row), s)

RowInv(c) ==
  /\ done[c] => queue[c] # <<>> /\ account[c] # None
  /\ account[c] = None /\ ~astray[c] => Same(known[c], Nothing)
  /\ account[c] # None /\ ~astray[c] =>
       Follows(account[c], IF done[c] THEN Head(queue[c]) ELSE known[c])

Current == {"awaited", "given_up"}

\* An attempt that is behind the queue writes what is there already, until a
\* newer event is written.
AttemptInv(d) ==
  at[d] # None =>
    LET c == at[d].client
        e == at[d].event
    IN /\ at[d].standing \in Current => queue[c] # <<>> /\ e = Head(queue[c])
       /\ at[d].pc = "found" => e.name \in Handled /\ account[c] # None
       /\ at[d].pc = "answering" => /\ at[d].standing = "awaited"
                                    /\ e.name \in Handled /\ ~astray[c] => done[c]
       /\ at[d].standing = "answered" =>
            ~done[c] /\ (e.name \in Handled /\ ~astray[c] => Settled(e, known[c]))

\* The provider makes one attempt at a time.
Single(b, d) ==
  b # d /\ at[b] # None /\ at[d] # None /\ at[b].client = at[d].client =>
    ~(at[b].standing = "awaited" /\ at[d].standing = "awaited")

Inv == /\ TypeOK
       /\ \A c \in Clients : ChainInv(c) /\ RowInv(c)
       /\ \A d \in Attempts : AttemptInv(d)
       /\ \A b, d \in Attempts : Single(b, d)

--------------------------------------------------------------------------------
(* What an event does to a row *)

\* The receivers recognise the plan of every event.
LEMMA PlanRead == ASSUME NEW e \in Event PROVE PlanIn(e) = e.plan
  BY ConstantsOK DEF PlanIn, Provider, Providers, Event, Paid

\* An event changes the columns it is about and no other.
LEMMA AppliedRow ==
  ASSUME NEW e \in Event, e.name \in Handled, NEW row \in Row
  PROVE  /\ Applied(e, row) \in Row
         /\ e.name \in Activating =>
              Applied(e, row).status = "ACTIVE" /\ Applied(e, row).plan = e.plan
         /\ e.name \in Updating =>
              Applied(e, row).status = row.status /\ Applied(e, row).plan = e.plan
         /\ e.name \in Expiring =>
              Applied(e, row).status = "INACTIVE" /\ Applied(e, row).plan = row.plan
         /\ e.name \in Failing =>
              Applied(e, row).status = "PAST_DUE" /\ Applied(e, row).plan = row.plan
         /\ e.name \in Cancelling =>
              Applied(e, row).status = "CANCELED" /\ Applied(e, row).plan = row.plan
         /\ e.name \in Resuming =>
              Applied(e, row).status = "ACTIVE" /\ Applied(e, row).plan = row.plan
  <1>1. PICK p \in Paid : p = e.plan /\ p = PlanIn(e)
    BY PlanRead DEF Event
  <1>2. p \in Plans
    BY DEF Paid, Plans
  <1>3. CASE e.name \in Activating
    <2>1. Applied(e, row) = [status |-> "ACTIVE", plan |-> p, used |-> 0]
      BY <1>1, <1>3 DEF Applied, Activating, Updating, Expiring, Failing,
         Cancelling, Resuming
    <2> QED
      BY <1>1, <1>2, <1>3, <2>1, ConstantsOK DEF Row, Statuses, Activating, Updating, Expiring,
         Failing, Cancelling, Resuming
  <1>4. CASE e.name \in Updating
    <2>1. Applied(e, row) = [row EXCEPT !.plan = p]
      BY <1>1, <1>4 DEF Applied, Activating, Updating, Expiring, Failing,
         Cancelling, Resuming
    <2> QED
      BY <1>1, <1>2, <1>4, <2>1 DEF Row, Statuses, Activating, Updating, Expiring, Failing,
         Cancelling, Resuming
  <1>5. CASE e.name \in Expiring
    <2>1. Applied(e, row) = [row EXCEPT !.status = "INACTIVE"]
      BY <1>5 DEF Applied, Activating, Updating, Expiring, Failing,
         Cancelling, Resuming
    <2> QED
      BY <1>5, <2>1 DEF Row, Statuses, Activating, Updating, Expiring, Failing, Cancelling, Resuming
  <1>6. CASE e.name \in Failing
    <2>1. Applied(e, row) = [row EXCEPT !.status = "PAST_DUE"]
      BY <1>6 DEF Applied, Activating, Updating, Expiring, Failing,
         Cancelling, Resuming
    <2> QED
      BY <1>6, <2>1 DEF Row, Statuses, Activating, Updating, Expiring, Failing, Cancelling, Resuming
  <1>7. CASE e.name \in Cancelling
    <2>1. Applied(e, row) = [row EXCEPT !.status = "CANCELED"]
      BY <1>7 DEF Applied, Activating, Updating, Expiring, Failing,
         Cancelling, Resuming
    <2> QED
      BY <1>7, <2>1 DEF Row, Statuses, Activating, Updating, Expiring, Failing, Cancelling, Resuming
  <1>8. CASE e.name \in Resuming
    <2>1. Applied(e, row) = [row EXCEPT !.status = "ACTIVE"]
      BY <1>8 DEF Applied, Activating, Updating, Expiring, Failing,
         Cancelling, Resuming
    <2> QED
      BY <1>8, <2>1 DEF Row, Statuses, Activating, Updating, Expiring, Failing, Cancelling, Resuming
  <1> QED
    BY <1>3, <1>4, <1>5, <1>6, <1>7, <1>8 DEF Handled

\* A row that followed the subscription before the event, or already follows it
\* with the event, follows it with the event afterwards: writing twice is harmless.
LEMMA AppliedFollows ==
  ASSUME NEW e \in Event, e.name \in Handled, NEW row \in Row, NEW s, StepsTo(s, e),
         Follows(row, s) \/ Follows(row, e)
  PROVE  Follows(Applied(e, row), e)
  BY AppliedRow DEF StepsTo, Follows, Handled

LEMMA Activates ==
  ASSUME NEW e \in Event, e.name \in Activating, NEW row \in Row, NEW s, StepsTo(s, e)
  PROVE  Follows(Applied(e, row), e)
  BY AppliedRow DEF StepsTo, Follows, Handled

\* An event that was written and answered is settled.
LEMMA AppliedSettles ==
  ASSUME NEW e \in Event, e.name \in Handled, NEW s, StepsTo(s, e), NEW t, Same(t, e)
  PROVE  Settled(e, t)
  BY AppliedFollows DEF Settled, Same, Follows

LEMMA InvInit == Init => Inv
  <1> SUFFICES ASSUME Init PROVE Inv
    OBVIOUS
  <1>1. TypeOK
    BY ConstantsOK DEF Init, TypeOK, Subscription, Nothing, Plans, Statuses
  <1>2. ASSUME NEW c \in Clients PROVE ChainInv(c) /\ RowInv(c)
    BY DEF Init, ChainInv, RowInv, Same, Last, Nothing, Subscription
  <1>3. (\A d \in Attempts : AttemptInv(d)) /\ (\A b, d \in Attempts : Single(b, d))
    BY DEF Init, AttemptInv, Single
  <1> QED
    BY <1>1, <1>2, <1>3 DEF Inv

--------------------------------------------------------------------------------
(* The provider's steps *)

LEMMA StepsToSame ==
  ASSUME NEW s, NEW t, NEW e, Same(s, t), StepsTo(s, e)
  PROVE  StepsTo(t, e)
  BY DEF StepsTo, Same

Names == LemonNames \cup PayProNames

\* A queue that grows at its end starts with the same event, and what a
\* subscription is reported as follows from what it was.
LEMMA ReportInv ==
  ASSUME Inv, NEW c \in Clients, NEW s \in Subscription, s.plan \in Paid,
         NEW names \in Seq(Names), names # <<>>, Report(c, s, names),
         \A i \in 1..Len(names) :
           StepsTo(IF i = 1 THEN sub[c] ELSE s,
                   [name |-> names[i], status |-> s.status, plan |-> s.plan])
  PROVE  Inv'
  <1> DEFINE E(i) == [name |-> names[i], status |-> s.status, plan |-> s.plan]
  <1>1. PICK evs : evs = [i \in DOMAIN names |-> E(i)]
    OBVIOUS
  <1>2. PICK q : q = queue[c]
    OBVIOUS
  <1>3. /\ sub' = [sub EXCEPT ![c] = s] /\ queue' = [queue EXCEPT ![c] = q \o evs]
        /\ UNCHANGED <<account, at, known, done, astray, faults>>
    BY <1>1, <1>2 DEF Report
  <1>4. q \in Seq(Event)
    BY <1>2 DEF Inv, TypeOK
  <1>5. \A i \in 1..Len(names) : E(i) \in Event
    BY DEF Event, Names, Subscription
  <1>6. evs \in Seq(Event) /\ Len(evs) = Len(names) /\ Len(evs) \in Nat \ {0}
        /\ \A i \in 1..Len(evs) : evs[i] = E(i)
    <2>1. DOMAIN names = 1..Len(names) /\ Len(names) \in Nat \ {0}
      OBVIOUS
    <2> HIDE DEF E
    <2>2. evs \in [1..Len(names) -> Event]
      BY <1>1, <1>5, <2>1
    <2> QED
      BY <1>1, <2>1, <2>2
  <1>7. PICK r : r = q \o evs
    OBVIOUS
  <1>8. /\ r \in Seq(Event) /\ Len(r) = Len(q) + Len(evs) /\ Len(q) \in Nat
        /\ \A i \in 1..Len(r) : r[i] = IF i <= Len(q) THEN q[i] ELSE evs[i - Len(q)]
    <2>1. /\ r \in Seq(Event) /\ Len(r) = Len(q) + Len(evs)
          /\ \A i \in 1..Len(q) + Len(evs) :
               r[i] = IF i <= Len(q) THEN q[i] ELSE evs[i - Len(q)]
      BY <1>4, <1>6, <1>7, ConcatProperties
    <2>2. Len(q) \in Nat
      BY <1>4
    <2> QED
      BY <2>1, <2>2
  <1>9. r # <<>> /\ (q # <<>> => Head(r) = Head(q))
    BY <1>4, <1>6, <1>8
  <1>10. /\ \A b \in Clients : /\ queue'[b] = IF b = c THEN r ELSE queue[b]
                               /\ sub'[b] = IF b = c THEN s ELSE sub[b]
         /\ queue' \in [Clients -> Seq(Event)]
         /\ sub' \in [Clients -> Subscription]
    BY <1>3, <1>7, <1>8 DEF Inv, TypeOK
  <1>11. TypeOK'
    BY <1>3, <1>10 DEF Inv, TypeOK
  <1>12. \A b \in Clients : /\ queue[b] # <<>> => queue'[b] # <<>>
                            /\ queue[b] # <<>> => Head(queue'[b]) = Head(queue[b])
    BY <1>2, <1>9, <1>10
  <1>13. ASSUME NEW b \in Clients PROVE RowInv(b)'
    BY <1>3, <1>12 DEF Inv, RowInv
  <1>14. ASSUME NEW b \in Clients PROVE ChainInv(b)'
    <2>1. CASE b = c
      <3>1. ChainInv(c)
        BY DEF Inv
      <3>2. ASSUME NEW i \in 1..Len(r) PROVE StepsTo(IF i = 1 THEN known[c] ELSE r[i - 1], r[i])
        <4>1. CASE i <= Len(q)
          <5>1. StepsTo(IF i = 1 THEN known[c] ELSE q[i - 1], q[i])
            BY <1>2, <1>8, <3>1, <4>1 DEF ChainInv, Before
          <5>2. r[i] = q[i] /\ (i # 1 => r[i - 1] = q[i - 1])
            BY <1>8, <4>1
          <5> QED
            BY <5>1, <5>2
        <4>2. CASE i = Len(q) + 1
          <5>1. r[i] = E(1)
            BY <1>6, <1>8, <4>2
          <5>2. StepsTo(sub[c], r[i])
            BY <1>6, <5>1
          <5>3. Last(c) = IF i = 1 THEN known[c] ELSE r[i - 1]
            <6>1. (q = <<>>) <=> (Len(q) = 0)
              BY <1>4, EmptySeq
            <6>2. i \in Nat /\ i - 1 = Len(q)
              BY <1>8, <4>2
            <6>3. i # 1 => r[i - 1] = q[Len(q)]
              BY <1>8, <6>2
            <6> QED
              BY <1>2, <1>8, <6>1, <6>2, <6>3 DEF Last
          <5> QED
            BY <3>1, <5>2, <5>3, StepsToSame DEF ChainInv
        <4>3. CASE i > Len(q) + 1
          <5>1. PICK k \in 1..Len(names) : k # 1 /\ k - 1 \in 1..Len(names) /\ i = Len(q) + k
            <6>1. i - Len(q) \in 1..Len(names) /\ i = Len(q) + (i - Len(q)) /\ i - Len(q) # 1
                  /\ (i - Len(q)) - 1 \in 1..Len(names)
              BY <1>6, <1>8, <4>3
            <6> QED
              BY <6>1
          <5>2. r[i] = E(k) /\ r[i - 1] = E(k - 1)
            <6>1. i - Len(q) = k /\ i - 1 - Len(q) = k - 1 /\ i > Len(q) /\ i - 1 > Len(q)
                  /\ i - 1 \in 1..Len(r)
              BY <1>6, <1>8, <4>3, <5>1
            <6>2. r[i] = evs[k] /\ r[i - 1] = evs[k - 1]
              <7>1. PICK j : j = i - 1
                OBVIOUS
              <7>2. j \in 1..Len(r) /\ ~(j <= Len(q)) /\ j - Len(q) = k - 1
                BY <1>8, <6>1, <7>1
              <7>3. r[j] = evs[j - Len(q)]
                BY <1>8, <7>2
              <7>4. ~(i <= Len(q)) /\ r[i] = evs[i - Len(q)]
                BY <1>8, <6>1
              <7> QED
                BY <6>1, <7>1, <7>2, <7>3, <7>4
            <6> QED
              BY <1>6, <5>1, <6>2
          <5>3. StepsTo(s, r[i]) /\ Same(s, r[i - 1])
            BY <5>1, <5>2 DEF Same
          <5> QED
            BY <1>8, <4>3, <5>3, StepsToSame
        <4> QED
          BY <1>8, <4>1, <4>2, <4>3
      <3>3. Same(s, r[Len(r)])
        <4>1. r[Len(r)] = E(Len(names))
          BY <1>6, <1>8
        <4> QED
          BY <4>1 DEF Same
      <3>4. queue'[c] = r /\ sub'[c] = s /\ known' = known
        BY <1>3, <1>10
      <3>5. s.plan # "FREE"
        BY DEF Paid
      <3> QED
        BY <1>9, <2>1, <3>2, <3>3, <3>4, <3>5 DEF ChainInv, Before, Last
    <2>2. CASE b # c
      <3>1. queue'[b] = queue[b] /\ sub'[b] = sub[b] /\ known' = known
        BY <1>3, <1>10, <2>2
      <3> QED
        BY <3>1 DEF Inv, ChainInv, Before, Last
    <2> QED
      BY <2>1, <2>2
  <1>15. ASSUME NEW d \in Attempts PROVE AttemptInv(d)'
    <2>1. at[d] # None => at[d].client \in Clients
      BY DEF Inv, TypeOK, Attempt
    <2> QED
      BY <1>3, <1>12, <2>1 DEF Inv, AttemptInv, Current
  <1>16. \A b, d \in Attempts : Single(b, d)'
    BY <1>3 DEF Inv, Single
  <1> QED
    BY <1>11, <1>13, <1>14, <1>15, <1>16 DEF Inv

\* Reports of one event.
LEMMA ReportOne ==
  ASSUME Inv, NEW c \in Clients, NEW s \in Subscription, s.plan \in Paid,
         NEW n \in Names, Report(c, s, <<n>>),
         StepsTo(sub[c], [name |-> n, status |-> s.status, plan |-> s.plan])
  PROVE  Inv'
  <1>1. PICK names : names = <<n>>
    OBVIOUS
  <1>2. names \in Seq(Names) /\ names # <<>> /\ Len(names) = 1 /\ names[1] = n
    BY <1>1
  <1>3. \A i \in 1..Len(names) :
          StepsTo(IF i = 1 THEN sub[c] ELSE s,
                  [name |-> names[i], status |-> s.status, plan |-> s.plan])
    BY <1>2
  <1> QED
    BY <1>1, <1>2, <1>3, ReportInv

LEMMA ProviderInv ==
  ASSUME Inv, NEW c \in Clients, ProviderStep(c)
  PROVE  Inv'
  <1>1. /\ sub[c] \in Subscription /\ sub[c].plan \in Plans /\ sub[c].status \in Statuses
        /\ sub[c].plan = "FREE" => sub[c].status = "ACTIVE"
    BY DEF Inv, TypeOK, ChainInv, Subscription
  <1>2. sub[c].plan # "FREE" => sub[c].plan \in Paid
    BY <1>1 DEF Plans, Paid
  <1>3. ASSUME NEW p \in Paid, Buy(c, p) PROVE Inv'
    <2>1. PICK s : s = [sub[c] EXCEPT !.status = "ACTIVE", !.plan = p]
      OBVIOUS
    <2>2. s \in Subscription /\ s.status = "ACTIVE" /\ s.plan \in Paid
      BY <1>1, <2>1 DEF Subscription, Statuses, Plans, Paid
    <2>3. PICK m \in Names \cap Activating, n \in Names \cap Activating : Report(c, s, <<m, n>>)
      <3>1. {"order_created", "subscription_created", "SUBSCRIPTION_ACTIVATED",
             "CHARGE_COMPLETED"} \subseteq Names \cap Activating
        BY DEF Names, LemonNames, PayProNames, Activating
      <3>2. \/ Report(c, s, <<"order_created", "subscription_created">>)
            \/ Report(c, s, <<"SUBSCRIPTION_ACTIVATED", "CHARGE_COMPLETED">>)
        BY <1>3, <2>1 DEF Buy
      <3> QED
        BY <3>1, <3>2
    <2>4. PICK names : names = <<m, n>>
      OBVIOUS
    <2>5. names \in Seq(Names) /\ names # <<>> /\ Len(names) = 2 /\ names[1] = m /\ names[2] = n
      BY <2>3, <2>4
    <2>6. ASSUME NEW i \in 1..Len(names), NEW t
          PROVE  StepsTo(t, [name |-> names[i], status |-> s.status, plan |-> s.plan])
      <3>1. names[i] \in Activating
        BY <2>3, <2>5
      <3> QED
        BY <2>2, <3>1 DEF StepsTo, Activating, Updating, Expiring, Failing, Cancelling, Resuming,
           Handled
    <2> QED
      BY <2>2, <2>3, <2>4, <2>5, <2>6, ReportInv
  <1>4. ASSUME NEW p \in Paid, ChangePlan(c, p) PROVE Inv'
    <2>1. PICK s : s = [sub[c] EXCEPT !.plan = p]
      OBVIOUS
    <2>2. s \in Subscription /\ s.plan \in Paid /\ s.status = sub[c].status
      BY <1>1, <2>1 DEF Subscription, Plans, Paid
    <2>3. Report(c, s, <<"subscription_updated">>)
      BY <1>4, <2>1 DEF ChangePlan
    <2>4. StepsTo(sub[c], [name |-> "subscription_updated", status |-> s.status, plan |-> s.plan])
      BY <2>2 DEF StepsTo, Activating, Updating, Expiring, Failing, Cancelling, Resuming, Handled
    <2> QED
      BY <2>2, <2>3, <2>4, ReportOne DEF Names, LemonNames
  <1>5. CASE Renew(c)
    <2>1. PICK s : s = sub[c]
      OBVIOUS
    <2>2. s.plan \in Paid /\ s.status = "ACTIVE"
      BY <1>2, <1>5, <2>1 DEF Renew
    <2>3. PICK n \in {"subscription_payment_success", "CHARGE_COMPLETED"} : Report(c, s, <<n>>)
      BY <1>5, <2>1 DEF Renew
    <2>4. StepsTo(sub[c], [name |-> n, status |-> s.status, plan |-> s.plan])
      BY <2>1, <2>2, <2>3 DEF StepsTo, Same, Activating, Updating, Expiring, Failing, Cancelling,
         Resuming, Handled
    <2> QED
      BY <1>1, <2>1, <2>2, <2>3, <2>4, ReportOne DEF Names, LemonNames, PayProNames
  <1>6. ASSUME NEW st \in Statuses, sub[c].plan # "FREE",
               NEW n \in {"subscription_payment_failed", "CHARGE_FAILED", "CHARGE_COMPLETED",
                          "subscription_cancelled", "SUBSCRIPTION_CANCELLED",
                          "subscription_resumed", "SUBSCRIPTION_RESUMED",
                          "subscription_expired", "SUBSCRIPTION_EXPIRED", "CHARGE_REFUNDED"},
               Report(c, [sub[c] EXCEPT !.status = st], <<n>>),
               n \in Activating \cup Resuming => st = "ACTIVE",
               n \in Failing => st = "PAST_DUE",
               n \in Cancelling => st = "CANCELED",
               n \in Expiring => st = "INACTIVE"
        PROVE  Inv'
    <2>1. PICK s : s = [sub[c] EXCEPT !.status = st]
      OBVIOUS
    <2>2. s \in Subscription /\ s.plan = sub[c].plan /\ s.status = st
      BY <1>1, <2>1 DEF Subscription
    <2>3. s.plan \in Paid
      BY <1>2, <1>6, <2>2
    <2>4. n \in Handled \ Updating
      BY DEF Activating, Updating, Expiring, Failing, Cancelling, Resuming, Handled
    <2>5. StepsTo(sub[c], [name |-> n, status |-> s.status, plan |-> s.plan])
      BY <1>6, <2>2, <2>4 DEF StepsTo
    <2>6. Report(c, s, <<n>>)
      BY <1>6, <2>1
    <2>7. n \in Names
      BY DEF Names, LemonNames, PayProNames
    <2> QED
      BY <2>2, <2>3, <2>5, <2>6, <2>7, ReportOne
  <1>7. CASE ChargeFails(c)
    <2>1. PICK n \in {"subscription_payment_failed", "CHARGE_FAILED"} :
            Report(c, [sub[c] EXCEPT !.status = "PAST_DUE"], <<n>>)
      BY <1>7 DEF ChargeFails
    <2>2. n \in Failing /\ n \notin Activating \cup Resuming \cup Cancelling \cup Expiring
      BY <2>1 DEF Activating, Expiring, Failing, Cancelling, Resuming
    <2> QED
      BY <1>6, <1>7, <2>1, <2>2 DEF ChargeFails, Statuses
  <1>8. CASE ChargeRecovers(c)
    <2>1. Report(c, [sub[c] EXCEPT !.status = "ACTIVE"], <<"CHARGE_COMPLETED">>)
      BY <1>8 DEF ChargeRecovers
    <2>2. "CHARGE_COMPLETED" \notin Failing \cup Cancelling \cup Expiring
      BY DEF Expiring, Failing, Cancelling
    <2>3. sub[c].plan # "FREE"
      BY <1>1, <1>8 DEF ChargeRecovers
    <2> QED
      BY <1>6, <2>1, <2>2, <2>3 DEF Statuses
  <1>9. CASE Cancel(c)
    <2>1. PICK n \in {"subscription_cancelled", "SUBSCRIPTION_CANCELLED"} :
            Report(c, [sub[c] EXCEPT !.status = "CANCELED"], <<n>>)
      BY <1>9 DEF Cancel
    <2>2. n \in Cancelling /\ n \notin Activating \cup Resuming \cup Failing \cup Expiring
      BY <2>1 DEF Activating, Expiring, Failing, Cancelling, Resuming
    <2> QED
      BY <1>6, <1>9, <2>1, <2>2 DEF Cancel, Statuses
  <1>10. CASE Resumes(c)
    <2>1. PICK n \in {"subscription_resumed", "SUBSCRIPTION_RESUMED"} :
            Report(c, [sub[c] EXCEPT !.status = "ACTIVE"], <<n>>)
      BY <1>10 DEF Resumes
    <2>2. n \in Resuming /\ n \notin Failing \cup Cancelling \cup Expiring
      BY <2>1 DEF Expiring, Failing, Cancelling, Resuming
    <2>3. sub[c].plan # "FREE"
      BY <1>1, <1>10 DEF Resumes
    <2> QED
      BY <1>6, <2>1, <2>2, <2>3 DEF Statuses
  <1>11. CASE Ends(c)
    <2>1. PICK n \in {"subscription_expired", "SUBSCRIPTION_EXPIRED"} :
            Report(c, [sub[c] EXCEPT !.status = "INACTIVE"], <<n>>)
      BY <1>11 DEF Ends
    <2>2. n \in Expiring /\ n \notin Activating \cup Resuming \cup Failing \cup Cancelling
      BY <2>1 DEF Activating, Expiring, Failing, Cancelling, Resuming
    <2>3. sub[c].plan # "FREE"
      BY <1>1, <1>11 DEF Ends
    <2> QED
      BY <1>6, <2>1, <2>2, <2>3 DEF Statuses
  <1>12. CASE Refunded(c)
    <2>1. Report(c, [sub[c] EXCEPT !.status = "INACTIVE"], <<"CHARGE_REFUNDED">>)
      BY <1>12 DEF Refunded
    <2>2. "CHARGE_REFUNDED" \notin Activating \cup Resuming \cup Failing \cup Cancelling
      BY DEF Activating, Failing, Cancelling, Resuming
    <2> QED
      BY <1>6, <1>12, <2>1, <2>2 DEF Refunded, Statuses
  <1> QED
    BY <1>3, <1>4, <1>5, <1>7, <1>8, <1>9, <1>10, <1>11, <1>12 DEF ProviderStep

--------------------------------------------------------------------------------
(* Accounts that are registered and served *)

\* A new account has what an address that never bought anything has.
LEMMA RegisterInv ==
  ASSUME Inv, NEW c \in Clients, Register(c)
  PROVE  Inv'
  <1> DEFINE row == [status |-> "ACTIVE", plan |-> "FREE", used |-> 0]
  <1>1. /\ account[c] = None /\ account' = [account EXCEPT ![c] = row]
        /\ UNCHANGED <<sub, queue, at, known, done, astray, faults>>
    BY DEF Register
  <1>2. row \in Row /\ row # None
    BY NoneIsNew, ConstantsOK DEF Row, Statuses, Plans
  <1>3. \A b \in Clients : account'[b] = IF b = c THEN row ELSE account[b]
    BY <1>1 DEF Inv, TypeOK
  <1>4. TypeOK'
    BY <1>1, <1>2 DEF Inv, TypeOK
  <1>5. ASSUME NEW b \in Clients PROVE ChainInv(b)' /\ RowInv(b)'
    <2>1. ChainInv(b)'
      BY <1>1 DEF Inv, ChainInv, Before, Last
    <2>2. RowInv(b)'
      BY <1>1, <1>2, <1>3 DEF Inv, RowInv, Same, Follows, Nothing
    <2> QED
      BY <2>1, <2>2
  <1>6. ASSUME NEW d \in Attempts PROVE AttemptInv(d)'
    <2>1. at[d] # None => at[d].client \in Clients
      BY DEF Inv, TypeOK, Attempt
    <2>2. \A b \in Clients : account[b] # None => account'[b] # None
      BY <1>2, <1>3
    <2> QED
      BY <1>1, <2>1, <2>2 DEF Inv, AttemptInv, Settled
  <1>7. \A b, d \in Attempts : Single(b, d)'
    BY <1>1 DEF Inv, Single
  <1> QED
    BY <1>4, <1>5, <1>6, <1>7 DEF Inv

\* A metered request changes neither status nor plan.
LEMMA MeterInv ==
  ASSUME Inv, NEW c \in Clients, Meter(c)
  PROVE  Inv'
  <1> DEFINE row == [account[c] EXCEPT !.used = @ + 1]
  <1>1. /\ account[c] # None /\ account[c].used < MaxUsed /\ account' = [account EXCEPT ![c] = row]
        /\ UNCHANGED <<sub, queue, at, known, done, astray, faults>>
    BY DEF Meter
  <1>2. account[c] \in Row
    BY <1>1 DEF Inv, TypeOK
  <1>3. /\ row \in Row
        /\ row.status = account[c].status /\ row.plan = account[c].plan
    BY <1>1, <1>2, ConstantsOK DEF Row
  <1>4. row # None
    BY <1>3, NoneIsNew
  <1>5. \A b \in Clients : account'[b] = IF b = c THEN row ELSE account[b]
    BY <1>1 DEF Inv, TypeOK
  <1>6. TypeOK'
    BY <1>1, <1>3 DEF Inv, TypeOK
  <1>7. ASSUME NEW b \in Clients PROVE ChainInv(b)' /\ RowInv(b)'
    <2>1. ChainInv(b)'
      BY <1>1 DEF Inv, ChainInv, Before, Last
    <2>2. RowInv(b)'
      BY <1>1, <1>3, <1>4, <1>5 DEF Inv, RowInv, Same, Follows
    <2> QED
      BY <2>1, <2>2
  <1>8. ASSUME NEW d \in Attempts PROVE AttemptInv(d)'
    <2>1. at[d] # None => at[d].client \in Clients
      BY DEF Inv, TypeOK, Attempt
    <2>2. \A b \in Clients : account[b] # None => account'[b] # None
      BY <1>4, <1>5
    <2> QED
      BY <1>1, <2>1, <2>2 DEF Inv, AttemptInv, Settled
  <1>9. \A b, d \in Attempts : Single(b, d)'
    BY <1>1 DEF Inv, Single
  <1> QED
    BY <1>6, <1>7, <1>8, <1>9 DEF Inv

--------------------------------------------------------------------------------
(* Attempts that write nothing *)

\* A step that changes one attempt, and may lead a row astray.
LEMMA OneAttempt ==
  ASSUME Inv, NEW d \in Attempts, NEW x \in Attempt \cup {None},
         at' = [at EXCEPT ![d] = x], faults' \in 0..MaxFaults,
         astray' \in [Clients -> BOOLEAN], \A c \in Clients : astray[c] => astray'[c],
         UNCHANGED <<account, sub, queue, known, done>>,
         AttemptInv(d)', \A b \in Attempts : Single(d, b)'
  PROVE  Inv'
  <1>1. TypeOK'
    BY DEF Inv, TypeOK
  <1>2. \A b \in Attempts \ {d} : at'[b] = at[b]
    BY DEF Inv, TypeOK
  <1>3. ASSUME NEW c \in Clients PROVE ChainInv(c)' /\ RowInv(c)'
    BY DEF Inv, ChainInv, Before, Last, RowInv
  <1>4. ASSUME NEW b \in Attempts PROVE AttemptInv(b)'
    <2>1. CASE b = d
      BY <2>1
    <2>2. CASE b # d
      <3>1. at'[b] = at[b] /\ (at[b] # None => at[b].client \in Clients)
        BY <1>2, <2>2 DEF Inv, TypeOK, Attempt
      <3> QED
        BY <3>1 DEF Inv, AttemptInv, Settled
    <2> QED
      BY <2>1, <2>2
  <1>5. ASSUME NEW b \in Attempts, NEW f \in Attempts PROVE Single(b, f)'
    <2>1. CASE b = d
      BY <2>1
    <2>2. CASE f = d
      <3>1. Single(d, b)'
        OBVIOUS
      <3> QED
        BY <2>2, <3>1 DEF Single
    <2>3. CASE b # d /\ f # d
      BY <1>2, <2>3 DEF Inv, Single
    <2> QED
      BY <2>1, <2>2, <2>3
  <1> QED
    BY <1>1, <1>3, <1>4, <1>5 DEF Inv

LEMMA SendInv ==
  ASSUME Inv, NEW d \in Attempts, NEW c \in Clients, Send(d, c)
  PROVE  Inv'
  <1>1. PICK e : e = Head(queue[c])
    OBVIOUS
  <1> DEFINE x == [pc |-> "arrived", client |-> c, event |-> e, standing |-> "awaited"]
  <1>2. /\ at' = [at EXCEPT ![d] = x] /\ queue[c] # <<>> /\ Awaited(c) = {}
        /\ UNCHANGED <<account, sub, queue, known, done, astray, faults>>
    BY <1>1 DEF Send
  <1>3. queue[c] \in Seq(Event)
    BY DEF Inv, TypeOK
  <1>4. e \in Event
    BY <1>1, <1>2, <1>3
  <1>5. x \in Attempt
    BY <1>4 DEF Attempt
  <1>6. at'[d] = x /\ \A b \in Attempts \ {d} : at'[b] = at[b]
    BY <1>2 DEF Inv, TypeOK
  <1>7. AttemptInv(d)'
    BY <1>1, <1>2, <1>6 DEF AttemptInv, Current
  <1>8. \A b \in Attempts : Single(d, b)'
    BY <1>2, <1>6 DEF Single, Awaited
  <1>9. faults' \in 0..MaxFaults /\ astray' \in [Clients -> BOOLEAN]
    BY <1>2 DEF Inv, TypeOK
  <1> QED
    BY <1>2, <1>5, <1>7, <1>8, <1>9, OneAttempt

LEMMA FaultCounted ==
  ASSUME Inv, faults < MaxFaults, faults' = faults + 1 PROVE faults' \in 0..MaxFaults
  BY ConstantsOK DEF Inv, TypeOK

LEMMA GiveUpInv ==
  ASSUME Inv, NEW d \in Attempts, GiveUp(d)
  PROVE  Inv'
  <1> DEFINE x == [at[d] EXCEPT !.standing = "given_up"]
  <1>1. /\ at[d] # None /\ at[d].standing = "awaited" /\ at[d].pc # "answering"
        /\ at' = [at EXCEPT ![d] = x] /\ faults < MaxFaults /\ faults' = faults + 1
        /\ UNCHANGED <<account, sub, queue, known, done, astray>>
    BY DEF GiveUp
  <1>2. at[d] \in Attempt
    BY <1>1 DEF Inv, TypeOK
  <1>3. /\ x \in Attempt /\ x.standing = "given_up" /\ x.pc = at[d].pc
        /\ x.client = at[d].client /\ x.event = at[d].event
    BY <1>2 DEF Attempt
  <1>4. at'[d] = x
    BY <1>1 DEF Inv, TypeOK
  <1>5. AttemptInv(d)'
    BY <1>1, <1>3, <1>4 DEF Inv, AttemptInv, Current
  <1>6. \A b \in Attempts : Single(d, b)'
    BY <1>3, <1>4 DEF Single
  <1>7. faults' \in 0..MaxFaults /\ astray' \in [Clients -> BOOLEAN]
    BY <1>1, FaultCounted DEF Inv, TypeOK
  <1> QED
    BY <1>1, <1>3, <1>5, <1>6, <1>7, OneAttempt

LEMMA FoundInv ==
  ASSUME Inv, NEW d \in Attempts, Found(d)
  PROVE  Inv'
  <1> DEFINE x == [at[d] EXCEPT !.pc = "found"]
  <1>1. /\ at[d] # None /\ at[d].event.name \in Handled /\ account[at[d].client] # None
        /\ at' = [at EXCEPT ![d] = x]
        /\ UNCHANGED <<account, sub, queue, known, done, astray, faults>>
    BY DEF Found
  <1>2. at[d] \in Attempt
    BY <1>1 DEF Inv, TypeOK
  <1>3. /\ x \in Attempt /\ x.standing = at[d].standing /\ x.pc = "found"
        /\ x.client = at[d].client /\ x.event = at[d].event
    BY <1>2 DEF Attempt
  <1>4. at'[d] = x /\ \A b \in Attempts \ {d} : at'[b] = at[b]
    BY <1>1 DEF Inv, TypeOK
  <1>5. AttemptInv(d)'
    BY <1>1, <1>3, <1>4 DEF Inv, AttemptInv, Current, Settled
  <1>6. \A b \in Attempts : Single(d, b)'
    BY <1>1, <1>3, <1>4 DEF Inv, Single
  <1>7. faults' \in 0..MaxFaults /\ astray' \in [Clients -> BOOLEAN]
    BY <1>1 DEF Inv, TypeOK
  <1> QED
    BY <1>1, <1>3, <1>5, <1>6, <1>7, OneAttempt

\* An attempt that is done still answers if it is waited for, or is gone.
LEMMA ConcludedAttempt ==
  ASSUME NEW f \in [Attempts -> Attempt \cup {None}], NEW d \in Attempts, f[d] # None
  PROVE  \E x \in Attempt \cup {None} :
           /\ Concluded(f, d) = [f EXCEPT ![d] = x]
           /\ \/ x = None
              \/ /\ x # None /\ f[d].standing = "awaited"
                 /\ x.pc = "answering" /\ x.standing = "awaited"
                 /\ x.client = f[d].client /\ x.event = f[d].event
  <1>1. f[d] \in Attempt
    OBVIOUS
  <1>2. CASE f[d].standing = "awaited"
    <2> DEFINE x == [f[d] EXCEPT !.pc = "answering"]
    <2>1. /\ x \in Attempt /\ x.pc = "answering" /\ x.standing = f[d].standing
          /\ x.client = f[d].client /\ x.event = f[d].event
      BY <1>1 DEF Attempt
    <2>2. x # None
      BY <2>1, NoneIsNew
    <2>3. Concluded(f, d) = [f EXCEPT ![d] = x]
      BY <1>2 DEF Concluded
    <2> QED
      BY <1>2, <2>1, <2>2, <2>3
  <1>3. CASE f[d].standing # "awaited"
    <2>1. Concluded(f, d) = [f EXCEPT ![d] = None]
      BY <1>3 DEF Concluded
    <2> QED
      BY <2>1
  <1> QED
    BY <1>2, <1>3

\* An event that no receiver handles, or whose address has no account.
LEMMA NothingToWriteInv ==
  ASSUME Inv, NEW d \in Attempts, NotFound(d) \/ Unhandled(d)
  PROVE  Inv'
  <1>1. /\ at[d] # None /\ at' = Concluded(at, d)
        /\ UNCHANGED <<account, sub, queue, known, done, faults>>
    BY DEF NotFound, Unhandled
  <1>2. PICK x \in Attempt \cup {None} :
          /\ at' = [at EXCEPT ![d] = x]
          /\ \/ x = None
             \/ /\ x # None /\ at[d].standing = "awaited"
                /\ x.pc = "answering" /\ x.standing = "awaited"
                /\ x.client = at[d].client /\ x.event = at[d].event
    BY <1>1, ConcludedAttempt DEF Inv, TypeOK
  <1>3. at[d] \in Attempt /\ at[d].client \in Clients
    BY <1>1 DEF Inv, TypeOK, Attempt
  <1>4. /\ astray' \in [Clients -> BOOLEAN]
        /\ \A c \in Clients : astray[c] => astray'[c]
        /\ at[d].event.name \in Handled => astray'[at[d].client]
    BY <1>3 DEF NotFound, Unhandled, Inv, TypeOK
  <1>5. at'[d] = x /\ \A b \in Attempts \ {d} : at'[b] = at[b]
    BY <1>2 DEF Inv, TypeOK
  <1>6. AttemptInv(d)'
    BY <1>1, <1>2, <1>4, <1>5 DEF Inv, AttemptInv, Current
  <1>7. \A b \in Attempts : Single(d, b)'
    BY <1>1, <1>2, <1>5 DEF Inv, Single
  <1>8. faults' \in 0..MaxFaults
    BY <1>1 DEF Inv, TypeOK
  <1> QED
    BY <1>1, <1>2, <1>4, <1>6, <1>7, <1>8, OneAttempt

LEMMA BreaksInv ==
  ASSUME Inv, NEW d \in Attempts, Breaks(d)
  PROVE  Inv'
  <1>1. /\ at' = [at EXCEPT ![d] = None] /\ faults < MaxFaults /\ faults' = faults + 1
        /\ UNCHANGED <<account, sub, queue, known, done, astray>>
    BY DEF Breaks
  <1>2. at'[d] = None
    BY <1>1 DEF Inv, TypeOK
  <1>3. AttemptInv(d)' /\ \A b \in Attempts : Single(d, b)'
    BY <1>2 DEF AttemptInv, Single
  <1>4. faults' \in 0..MaxFaults /\ astray' \in [Clients -> BOOLEAN]
    BY <1>1, FaultCounted DEF Inv, TypeOK
  <1> QED
    BY <1>1, <1>3, <1>4, OneAttempt

--------------------------------------------------------------------------------
(* The commit and the answer *)

\* Attempts change their standing and nothing else.
LEMMA RestandAttempts ==
  ASSUME Inv, NEW c \in Clients, NEW s, NEW t \in {"answered", "overtaken"}
  PROVE  /\ Restand(c, s, t) \in [Attempts -> Attempt \cup {None}]
         /\ \A b \in Attempts :
              /\ Restand(c, s, t)[b] = None <=> at[b] = None
              /\ at[b] # None =>
                   /\ Restand(c, s, t)[b].pc = at[b].pc
                   /\ Restand(c, s, t)[b].client = at[b].client
                   /\ Restand(c, s, t)[b].event = at[b].event
                   /\ Restand(c, s, t)[b].standing =
                        IF at[b].client = c /\ at[b].standing = s THEN t ELSE at[b].standing
  <1>1. ASSUME NEW b \in Attempts, at[b] # None
        PROVE  LET x == [at[b] EXCEPT !.standing = t]
               IN /\ x \in Attempt /\ x # None
                  /\ x.pc = at[b].pc /\ x.client = at[b].client /\ x.event = at[b].event
                  /\ x.standing = t
    <2>1. at[b] \in Attempt
      BY <1>1 DEF Inv, TypeOK
    <2> DEFINE x == [at[b] EXCEPT !.standing = t]
    <2>2. /\ x \in Attempt /\ x.pc = at[b].pc /\ x.client = at[b].client
          /\ x.event = at[b].event /\ x.standing = t
      BY <2>1 DEF Attempt
    <2>3. x # None
      BY <2>2, NoneIsNew
    <2> QED
      BY <2>2, <2>3
  <1>2. \A b \in Attempts : at[b] \in Attempt \cup {None}
    BY DEF Inv, TypeOK
  <1>3. \A b \in Attempts :
          Restand(c, s, t)[b] = IF at[b] # None /\ at[b].client = c /\ at[b].standing = s
                                  THEN [at[b] EXCEPT !.standing = t] ELSE at[b]
    BY DEF Restand
  <1>4. \A b \in Attempts : Restand(c, s, t)[b] \in Attempt \cup {None}
    BY <1>1, <1>2, <1>3
  <1>5. Restand(c, s, t) \in [Attempts -> Attempt \cup {None}]
    BY <1>4 DEF Restand
  <1> QED
    BY <1>1, <1>3, <1>5

LEMMA HeadStep ==
  ASSUME Inv, NEW c \in Clients, queue[c] # <<>>
  PROVE  Head(queue[c]) \in Event /\ StepsTo(known[c], Head(queue[c]))
  <1>1. queue[c] \in Seq(Event)
    BY DEF Inv, TypeOK
  <1>2. Len(queue[c]) \in Nat \ {0}
    BY <1>1, EmptySeq
  <1>3. StepsTo(Before(c, 1), queue[c][1])
    BY <1>2 DEF Inv, ChainInv
  <1> QED
    BY <1>1, <1>3 DEF Before

\* The write of the next event puts a row that followed the last one right, or
\* changes nothing; the write of an old one changes nothing or is known to lead astray.
LEMMA CommitInv ==
  ASSUME Inv, NEW d \in Attempts, Commit(d)
  PROVE  Inv'
  <1>1. at[d] # None /\ at[d].pc = "found" /\ at[d] \in Attempt /\ AttemptInv(d)
    BY DEF Commit, Inv, TypeOK
  <1>2. PICK c \in Clients : c = at[d].client
    BY <1>1 DEF Attempt
  <1>3. PICK e \in Event : e = at[d].event
    BY <1>1 DEF Attempt
  <1>4. e.name \in Handled /\ account[c] # None /\ account[c] \in Row
    BY <1>1, <1>2, <1>3 DEF AttemptInv, Inv, TypeOK
  <1>5. PICK row \in Row : row = Applied(e, account[c])
    BY <1>4, AppliedRow
  <1>6. row # None
    BY <1>5, NoneIsNew
  <1>7. PICK current \in BOOLEAN : current <=> at[d].standing \in Current
    <2>1. CASE at[d].standing \in Current
      BY <2>1
    <2>2. CASE at[d].standing \notin Current
      BY <2>2
    <2> QED
      BY <2>1, <2>2
  <1>8. PICK mid : mid = IF current THEN Restand(c, "answered", "overtaken") ELSE at
    OBVIOUS
  <1>9. /\ account' = [account EXCEPT ![c] = row]
        /\ at' = Concluded(mid, d)
        /\ done' = IF current THEN [done EXCEPT ![c] = TRUE] ELSE done
        /\ astray' = [astray EXCEPT ![c] = \/ @ /\ ~(current /\ e.name \in Activating)
                                           \/ at[d].standing = "overtaken"]
        /\ UNCHANGED <<sub, queue, known, faults>>
    BY <1>2, <1>3, <1>5, <1>7, <1>8 DEF Commit, Current
  <1>10. /\ mid \in [Attempts -> Attempt \cup {None}]
         /\ \A b \in Attempts :
              /\ mid[b] = None <=> at[b] = None
              /\ at[b] # None =>
                   /\ mid[b].pc = at[b].pc /\ mid[b].client = at[b].client
                   /\ mid[b].event = at[b].event
                   /\ mid[b].standing =
                        IF current /\ at[b].client = c /\ at[b].standing = "answered"
                          THEN "overtaken" ELSE at[b].standing
    BY <1>8, RestandAttempts DEF Inv, TypeOK
  <1>11. mid[d].standing = at[d].standing
    BY <1>1, <1>7, <1>10 DEF Current
  <1>12. PICK x \in Attempt \cup {None} :
           /\ at' = [mid EXCEPT ![d] = x]
           /\ \/ x = None
              \/ /\ x # None /\ at[d].standing = "awaited"
                 /\ x.pc = "answering" /\ x.standing = "awaited" /\ x.client = c /\ x.event = e
    BY <1>1, <1>2, <1>3, <1>9, <1>10, <1>11, ConcludedAttempt
  <1>13. \A b \in Attempts : at'[b] = IF b = d THEN x ELSE mid[b]
    BY <1>10, <1>12
  <1>14. \A b \in Clients :
           /\ account'[b] = IF b = c THEN row ELSE account[b]
           /\ done'[b] = IF b = c THEN done[b] \/ current ELSE done[b]
           /\ b # c => astray'[b] = astray[b]
    BY <1>9 DEF Inv, TypeOK
  <1>15. astray'[c] <=> \/ astray[c] /\ ~(current /\ e.name \in Activating)
                        \/ at[d].standing = "overtaken"
    BY <1>9 DEF Inv, TypeOK
  <1>16. TypeOK'
    <2>1. account' \in [Clients -> Row \cup {None}]
      BY <1>9 DEF Inv, TypeOK
    <2>2. at' \in [Attempts -> Attempt \cup {None}]
      BY <1>10, <1>12
    <2>3. done' \in [Clients -> BOOLEAN] /\ astray' \in [Clients -> BOOLEAN]
      BY <1>9 DEF Inv, TypeOK
    <2> QED
      BY <1>9, <2>1, <2>2, <2>3 DEF Inv, TypeOK
  <1>17. ASSUME NEW b \in Clients PROVE ChainInv(b)'
    BY <1>9 DEF Inv, ChainInv, Before, Last
  <1>18. current => queue[c] # <<>> /\ e = Head(queue[c]) /\ StepsTo(known[c], e)
    BY <1>1, <1>2, <1>3, <1>7, HeadStep DEF AttemptInv
  <1>19. at[d].standing = "answered" =>
           ~done[c] /\ (~astray[c] => Settled(e, known[c]))
    BY <1>1, <1>2, <1>3, <1>4 DEF AttemptInv
  <1>20. at[d].standing \in {"answered", "overtaken"} \/ current
    BY <1>1, <1>7 DEF Attempt, Current
  <1>21. RowInv(c)
    BY DEF Inv
  <1>22. ~astray'[c] => Follows(row, IF done'[c] THEN Head(queue[c]) ELSE known[c])
    <2>1. CASE current
      <3>1. ~astray[c] => Follows(account[c], known[c]) \/ Follows(account[c], e)
        BY <1>4, <1>18, <1>21, <2>1 DEF RowInv
      <3>2. ~astray[c] => Follows(row, e)
        BY <1>4, <1>5, <1>18, <2>1, <3>1, AppliedFollows
      <3>3. e.name \in Activating => Follows(row, e)
        BY <1>4, <1>5, <1>18, <2>1, Activates
      <3> QED
        BY <1>14, <1>15, <1>18, <2>1, <3>2, <3>3
    <2>2. CASE at[d].standing = "answered" /\ ~current
      <3>1. ~astray[c] => Follows(account[c], known[c])
        BY <1>4, <1>19, <1>21, <2>2 DEF RowInv
      <3>2. ~astray[c] => Follows(row, known[c])
        BY <1>4, <1>5, <1>19, <2>2, <3>1 DEF Settled
      <3> QED
        BY <1>14, <1>15, <1>19, <2>2, <3>2
    <2>3. CASE at[d].standing = "overtaken"
      BY <1>15, <2>3
    <2> QED
      BY <1>20, <2>1, <2>2, <2>3
  <1>23. ASSUME NEW b \in Clients PROVE RowInv(b)'
    <2>1. CASE b = c
      <3>1. done'[c] => queue[c] # <<>>
        BY <1>14, <1>18, <1>21 DEF RowInv
      <3>2. account'[c] = row /\ queue' = queue /\ known' = known
        BY <1>9, <1>14
      <3> QED
        BY <1>6, <1>22, <2>1, <3>1, <3>2 DEF RowInv
    <2>2. CASE b # c
      BY <1>9, <1>14, <2>2 DEF Inv, RowInv
    <2> QED
      BY <2>1, <2>2
  <1>24. ASSUME NEW b \in Attempts PROVE AttemptInv(b)'
    <2>1. CASE b = d
      <3>1. at'[b] = x /\ queue' = queue
        BY <1>9, <1>13, <2>1
      <3>2. x # None => current /\ done'[c]
        BY <1>7, <1>12, <1>14 DEF Current
      <3> QED
        BY <1>12, <1>18, <3>1, <3>2 DEF AttemptInv
    <2>2. CASE b # d
      <3> SUFFICES ASSUME at[b] # None PROVE AttemptInv(b)'
        BY <1>10, <1>13, <2>2 DEF AttemptInv
      <3>1. at'[b] = mid[b] /\ AttemptInv(b) /\ at[b].client \in Clients
        BY <1>13, <2>2 DEF Inv, TypeOK, Attempt
      <3>2. /\ at'[b].pc = at[b].pc /\ at'[b].client = at[b].client
            /\ at'[b].event = at[b].event
            /\ at'[b].standing = IF current /\ at[b].client = c /\ at[b].standing = "answered"
                                   THEN "overtaken" ELSE at[b].standing
        BY <1>10, <3>1
      <3>3. account[at[b].client] # None => account'[at[b].client] # None
        BY <1>6, <1>14, <3>1
      <3>4. CASE at[b].client = c
        <4>1. ~current => done'[c] = done[c] /\ (~astray'[c] => ~astray[c])
          BY <1>9, <1>15
        <4>2. current => done'[c] /\ at'[b].standing # "answered"
          BY <1>14, <3>2, <3>4
        <4> QED
          BY <1>9, <3>1, <3>2, <3>3, <3>4, <4>1, <4>2 DEF AttemptInv, Current, Settled
      <3>5. CASE at[b].client # c
        <4>1. /\ done'[at[b].client] = done[at[b].client]
              /\ astray'[at[b].client] = astray[at[b].client]
          BY <1>14, <3>1, <3>5
        <4> QED
          BY <1>9, <3>1, <3>2, <3>3, <3>5, <4>1 DEF AttemptInv, Current, Settled
      <3> QED
        BY <3>4, <3>5
    <2> QED
      BY <2>1, <2>2
  <1>25. ASSUME NEW b \in Attempts, NEW f \in Attempts PROVE Single(b, f)'
    <2>1. \A y \in Attempts :
            at'[y] # None => /\ at[y] # None /\ at'[y].client = at[y].client
                             /\ at'[y].standing = "awaited" => at[y].standing = "awaited"
      BY <1>1, <1>2, <1>10, <1>12, <1>13
    <2> QED
      BY <2>1 DEF Inv, Single
  <1> QED
    BY <1>16, <1>17, <1>23, <1>24, <1>25 DEF Inv

\* An event leaves the queue when the row has it, or when it says nothing new.
LEMMA AnswerInv ==
  ASSUME Inv, NEW d \in Attempts, Answer(d)
  PROVE  Inv'
  <1>1. at[d] # None /\ at[d].pc = "answering" /\ at[d] \in Attempt /\ AttemptInv(d)
    BY DEF Answer, Inv, TypeOK
  <1>2. PICK c \in Clients : c = at[d].client
    BY <1>1 DEF Attempt
  <1>3. /\ at[d].standing = "awaited" /\ queue[c] # <<>> /\ at[d].event = Head(queue[c])
        /\ Head(queue[c]).name \in Handled /\ ~astray[c] => done[c]
    BY <1>1, <1>2 DEF AttemptInv, Current
  <1>4. PICK e \in Event : e = Head(queue[c]) /\ StepsTo(known[c], e)
    BY <1>3, HeadStep
  <1>5. PICK q \in Seq(Event) : q = queue[c]
    BY DEF Inv, TypeOK
  <1>6. PICK k : k = [status |-> e.status, plan |-> e.plan]
    OBVIOUS
  <1>7. PICK mid : mid = Restand(c, "given_up", "answered")
    OBVIOUS
  <1>8. /\ queue' = [queue EXCEPT ![c] = Tail(q)]
        /\ known' = [known EXCEPT ![c] = k]
        /\ done' = [done EXCEPT ![c] = FALSE]
        /\ at' = [mid EXCEPT ![d] = None]
        /\ UNCHANGED <<account, sub, astray, faults>>
    BY <1>2, <1>4, <1>5, <1>6, <1>7 DEF Answer
  <1>9. /\ mid \in [Attempts -> Attempt \cup {None}]
        /\ \A b \in Attempts :
             /\ mid[b] = None <=> at[b] = None
             /\ at[b] # None =>
                  /\ mid[b].pc = at[b].pc /\ mid[b].client = at[b].client
                  /\ mid[b].event = at[b].event
                  /\ mid[b].standing = IF at[b].client = c /\ at[b].standing = "given_up"
                                         THEN "answered" ELSE at[b].standing
    BY <1>7, RestandAttempts
  <1>10. PICK r : r = Tail(q)
    OBVIOUS
  <1>11. /\ r \in Seq(Event) /\ Len(q) \in Nat \ {0} /\ Len(r) = Len(q) - 1
         /\ \A i \in 1..Len(r) : r[i] = q[i + 1]
         /\ e = q[1] /\ (r = <<>> <=> Len(r) = 0)
    <2>1. q # <<>>
      BY <1>3, <1>5
    <2>2. r \in Seq(Event) /\ Len(r) = Len(q) - 1 /\ \A i \in 1..Len(r) : r[i] = q[i + 1]
      BY <1>10, <2>1, HeadTailProperties
    <2>3. Len(q) \in Nat \ {0} /\ (r = <<>> <=> Len(r) = 0)
      BY <2>1, <2>2, EmptySeq
    <2>4. e = q[1]
      BY <1>4, <1>5
    <2> QED
      BY <2>2, <2>3, <2>4
  <1>12. k.status = e.status /\ k.plan = e.plan /\ k \in [status : Statuses, plan : Plans]
    BY <1>6 DEF Event, Paid, Plans
  <1>13. \A b \in Clients : /\ queue'[b] = IF b = c THEN r ELSE queue[b]
                            /\ known'[b] = IF b = c THEN k ELSE known[b]
                            /\ done'[b] = IF b = c THEN FALSE ELSE done[b]
    BY <1>8, <1>10 DEF Inv, TypeOK
  <1>14. \A b \in Attempts : at'[b] = IF b = d THEN None ELSE mid[b]
    BY <1>8, <1>9
  <1>15. TypeOK'
    <2>1. queue' \in [Clients -> Seq(Event)]
      BY <1>8, <1>10, <1>11 DEF Inv, TypeOK
    <2>2. known' \in [Clients -> [status : Statuses, plan : Plans]]
      BY <1>8, <1>12 DEF Inv, TypeOK
    <2>3. at' \in [Attempts -> Attempt \cup {None}] /\ done' \in [Clients -> BOOLEAN]
      BY <1>8, <1>9 DEF Inv, TypeOK
    <2> QED
      BY <1>8, <2>1, <2>2, <2>3 DEF Inv, TypeOK
  <1>16. ASSUME NEW b \in Clients PROVE ChainInv(b)'
    <2>1. CASE b = c
      <3>1. ChainInv(c)
        BY DEF Inv
      <3>2. ASSUME NEW i \in 1..Len(r) PROVE StepsTo(IF i = 1 THEN k ELSE r[i - 1], r[i])
        <4>1. PICK j : j = i + 1
          OBVIOUS
        <4>2. j \in 1..Len(q) /\ j # 1 /\ j - 1 = i
          BY <1>11, <4>1
        <4>3. StepsTo(q[i], q[j])
          BY <1>5, <3>1, <4>2 DEF ChainInv, Before
        <4>4. r[i] = q[j]
          BY <1>11, <4>1
        <4>5. CASE i = 1
          <5>1. Same(q[i], k)
            BY <1>11, <1>12, <4>5 DEF Same
          <5> QED
            BY <4>3, <4>4, <4>5, <5>1, StepsToSame
        <4>6. CASE i # 1
          <5>1. i - 1 \in 1..Len(r) /\ (i - 1) + 1 = i
            BY <1>11, <4>6
          <5>2. r[i - 1] = q[i]
            BY <1>11, <5>1
          <5> QED
            BY <4>3, <4>4, <4>6, <5>2
        <4> QED
          BY <4>5, <4>6
      <3>3. Same(sub[c], IF r = <<>> THEN k ELSE r[Len(r)])
        <4>1. Same(sub[c], q[Len(q)])
          BY <1>3, <1>5, <3>1 DEF ChainInv, Last
        <4>2. CASE r = <<>>
          <5>1. Len(q) = 1
            BY <1>11, <4>2
          <5> QED
            BY <1>11, <1>12, <4>1, <4>2, <5>1 DEF Same
        <4>3. CASE r # <<>>
          <5>1. Len(r) \in 1..Len(r) /\ Len(r) + 1 = Len(q)
            BY <1>11, <4>3
          <5>2. r[Len(r)] = q[Len(q)]
            BY <1>11, <5>1
          <5> QED
            BY <4>1, <4>3, <5>2
        <4> QED
          BY <4>2, <4>3
      <3>4. queue'[c] = r /\ known'[c] = k /\ sub' = sub
        BY <1>8, <1>13
      <3> QED
        BY <2>1, <3>1, <3>2, <3>3, <3>4 DEF ChainInv, Before, Last
    <2>2. CASE b # c
      <3>1. queue'[b] = queue[b] /\ known'[b] = known[b] /\ sub' = sub
        BY <1>8, <1>13, <2>2
      <3> QED
        BY <3>1 DEF Inv, ChainInv, Before, Last
    <2> QED
      BY <2>1, <2>2
  <1>17. RowInv(c)
    BY DEF Inv
  <1>18. e.name \notin Handled => Same(known[c], k)
    BY <1>4, <1>12 DEF StepsTo, Same
  <1>19. ~astray[c] /\ ~done[c] => e.name \notin Handled
    BY <1>3, <1>4
  <1>20. ASSUME NEW b \in Clients PROVE RowInv(b)'
    <2>1. CASE b = c
      <3>1. account[c] = None /\ ~astray[c] => Same(k, Nothing)
        BY <1>17, <1>18, <1>19 DEF RowInv, Same
      <3>2. account[c] # None /\ ~astray[c] => Follows(account[c], k)
        <4>1. CASE done[c]
          BY <1>4, <1>12, <1>17, <4>1 DEF RowInv, Follows
        <4>2. CASE ~done[c]
          BY <1>17, <1>18, <1>19, <4>2 DEF RowInv, Same, Follows
        <4> QED
          BY <4>1, <4>2
      <3> QED
        BY <1>8, <1>13, <2>1, <3>1, <3>2 DEF RowInv
    <2>2. CASE b # c
      BY <1>8, <1>13, <2>2 DEF Inv, RowInv
    <2> QED
      BY <2>1, <2>2
  <1>21. ASSUME NEW b \in Attempts PROVE AttemptInv(b)'
    <2> SUFFICES ASSUME b # d, at[b] # None PROVE AttemptInv(b)'
      BY <1>9, <1>14 DEF AttemptInv
    <2>1. /\ at'[b].pc = at[b].pc /\ at'[b].client = at[b].client /\ at'[b].event = at[b].event
          /\ at'[b].standing = IF at[b].client = c /\ at[b].standing = "given_up"
                                 THEN "answered" ELSE at[b].standing
          /\ at[b].client \in Clients /\ at[b].event \in Event /\ AttemptInv(b)
      BY <1>9, <1>14 DEF Inv, TypeOK, Attempt
    <2>2. CASE at[b].client # c
      <3>1. /\ queue'[at[b].client] = queue[at[b].client]
            /\ known'[at[b].client] = known[at[b].client]
            /\ done'[at[b].client] = done[at[b].client]
        BY <1>13, <2>1, <2>2
      <3> QED
        BY <1>8, <2>1, <2>2, <3>1 DEF AttemptInv, Current, Settled
    <2>3. CASE at[b].client = c
      <3>1. at[b].standing # "awaited"
        BY <1>1, <1>2, <1>3, <2>3 DEF Inv, Single
      <3>2. at[b].pc # "answering" /\ at'[b].standing \notin Current
        BY <2>1, <2>3, <3>1 DEF AttemptInv, Current
      <3>3. at[b].standing = "given_up" /\ at[b].event.name \in Handled =>
              Settled(at[b].event, k)
        <4>1. at[b].standing = "given_up" => at[b].event = e
          BY <1>4, <2>1, <2>3 DEF AttemptInv, Current
        <4>2. Same(k, e)
          BY <1>12 DEF Same
        <4> QED
          BY <1>4, <4>1, <4>2, AppliedSettles
      <3>4. at[b].standing = "answered" /\ at[b].event.name \in Handled /\ ~astray[c] =>
              Settled(at[b].event, k)
        <4>1. at[b].standing = "answered" => ~done[c]
          BY <2>1, <2>3 DEF AttemptInv
        <4>2. at[b].standing = "answered" /\ at[b].event.name \in Handled /\ ~astray[c] =>
                Settled(at[b].event, known[c])
          BY <2>1, <2>3 DEF AttemptInv
        <4> QED
          BY <1>18, <1>19, <4>1, <4>2 DEF Settled, Same, Follows
      <3>5. known'[c] = k /\ ~done'[c] /\ astray' = astray /\ account' = account
        BY <1>8, <1>13
      <3>6. at'[b].standing = "answered" /\ at[b].event.name \in Handled /\ ~astray[c] =>
              Settled(at[b].event, k)
        BY <2>1, <2>3, <3>3, <3>4
      <3>7. at[b].pc = "found" => at[b].event.name \in Handled /\ account[c] # None
        BY <2>1, <2>3 DEF AttemptInv
      <3>8. at'[b].standing = "answered" /\ at'[b].event.name \in Handled /\ ~astray'[c] =>
              Settled(at'[b].event, known'[c])
        BY <2>1, <3>5, <3>6
      <3> QED
        BY <2>1, <2>3, <3>2, <3>5, <3>7, <3>8 DEF AttemptInv, Settled
    <2> QED
      BY <2>2, <2>3
  <1>22. ASSUME NEW b \in Attempts, NEW f \in Attempts PROVE Single(b, f)'
    <2>1. \A y \in Attempts :
            at'[y] # None => /\ at[y] # None /\ at'[y].client = at[y].client
                             /\ at'[y].standing = "awaited" => at[y].standing = "awaited"
      BY <1>9, <1>14
    <2> QED
      BY <2>1 DEF Inv, Single
  <1> QED
    BY <1>15, <1>16, <1>20, <1>21, <1>22 DEF Inv

LEMMA InvNext == Inv /\ [Next]_vars => Inv'
  <1> SUFFICES ASSUME Inv, [Next]_vars PROVE Inv'
    OBVIOUS
  <1>1. ASSUME NEW c \in Clients, ProviderStep(c) \/ Register(c) \/ Meter(c) PROVE Inv'
    BY <1>1, ProviderInv, RegisterInv, MeterInv
  <1>2. ASSUME NEW d \in Attempts, NEW c \in Clients, Send(d, c) PROVE Inv'
    BY <1>2, SendInv
  <1>3. ASSUME NEW d \in Attempts, AttemptStep(d) PROVE Inv'
    BY <1>3, FoundInv, NothingToWriteInv, CommitInv, AnswerInv DEF AttemptStep
  <1>4. ASSUME NEW d \in Attempts, GiveUp(d) \/ Breaks(d) PROVE Inv'
    BY <1>4, GiveUpInv, BreaksInv
  <1>5. CASE UNCHANGED vars
    BY <1>5 DEF vars, Inv, TypeOK, ChainInv, Before, Last, RowInv, AttemptInv, Settled, Single
  <1> QED
    BY <1>1, <1>2, <1>3, <1>4, <1>5 DEF Next

LEMMA Invariance == Spec => []Inv
  BY InvInit, InvNext, PTL DEF Spec

--------------------------------------------------------------------------------
(* The theorems *)

\* Every variable keeps its type: whatever a receiver writes is a status, a plan
\* and a count.
THEOREM TypeSafe == Spec => []TypeOK
  <1>1. Inv => TypeOK
    BY DEF Inv
  <1> QED
    BY <1>1, Invariance, PTL

\* However often the provider sends an event and however its attempts overlap,
\* fail or die after the commit, the row of an account follows the
\* subscription, but for the two ways astray that the property names
\* (lemon_squeezy_webhook, paypro_webhook, _activate_subscription, _set_status).
THEOREM RowFollows == Spec => []RowFollowsProvider
  <1>1. Inv => RowFollowsProvider
    BY DEF Inv, RowInv, RowFollowsProvider
  <1> QED
    BY <1>1, Invariance, PTL

\* And a row whose events have all been answered is what the provider holds:
\* the events that are answered lead from one state of the subscription to the
\* next, and none of them is skipped.
THEOREM QuietRows == Spec => []QuietRowCurrent
  <1>1. Inv => QuietRowCurrent
    <2> SUFFICES ASSUME Inv, NEW c \in Clients, queue[c] = <<>>, account[c] # None, ~astray[c]
                 PROVE  Follows(account[c], sub[c])
      BY DEF QuietRowCurrent
    <2>1. Same(sub[c], known[c])
      BY DEF Inv, ChainInv, Last
    <2>2. Follows(account[c], known[c])
      BY DEF Inv, RowInv
    <2> QED
      BY <2>1, <2>2 DEF Same, Follows
  <1> QED
    BY <1>1, Invariance, PTL

--------------------------------------------------------------------------------
(* Without faults *)

\* Every attempt is awaited until it is done.
Patient == \A d \in Attempts : at[d] # None => at[d].standing = "awaited"

\* An account that follows its subscription goes on following it.
NoDrift == [][\A c \in Clients : account[c] # None /\ ~astray[c] => ~astray'[c]]_vars

LEMMA PatientNext ==
  ASSUME MaxFaults = 0, Inv, Patient, [Next]_vars
  PROVE  Patient'
  <1>1. ~(faults < MaxFaults)
    BY DEF Inv, TypeOK
  <1>2. \A d \in Attempts : at[d] # None => at[d] \in Attempt /\ at[d].standing = "awaited"
    BY DEF Inv, TypeOK, Patient
  <1>3. ASSUME NEW c, NEW s \in {"answered", "given_up"}, NEW t PROVE Restand(c, s, t) = at
    <2>1. \A d \in Attempts : ~(at[d] # None /\ at[d].client = c /\ at[d].standing = s)
      BY <1>2
    <2>2. Restand(c, s, t) = [d \in Attempts |-> at[d]]
      BY <2>1 DEF Restand
    <2> QED
      BY <2>2 DEF Inv, TypeOK
  <1>4. ASSUME NEW c \in Clients, ProviderStep(c) \/ Register(c) \/ Meter(c) PROVE Patient'
    <2>1. at' = at
      BY <1>4 DEF ProviderStep, Buy, Renew, ChargeFails, ChargeRecovers, ChangePlan, Cancel,
         Resumes, Ends, Refunded, Report, Register, Meter
    <2> QED
      BY <2>1 DEF Patient
  <1>5. ASSUME NEW d \in Attempts, NEW c \in Clients, Send(d, c) PROVE Patient'
    <2>1. PICK x : /\ x = [pc |-> "arrived", client |-> c, event |-> Head(queue[c]),
                           standing |-> "awaited"]
                   /\ at' = [at EXCEPT ![d] = x]
      BY <1>5 DEF Send
    <2> QED
      BY <2>1 DEF Inv, TypeOK, Patient
  <1>6. ASSUME NEW d \in Attempts, Found(d) PROVE Patient'
    <2>1. at[d] # None /\ at' = [at EXCEPT ![d] = [at[d] EXCEPT !.pc = "found"]]
      BY <1>6 DEF Found
    <2>2. [at[d] EXCEPT !.pc = "found"].standing = "awaited"
      BY <1>2, <2>1 DEF Attempt
    <2> QED
      BY <2>1, <2>2 DEF Inv, TypeOK, Patient
  <1>7. ASSUME NEW d \in Attempts, NotFound(d) \/ Unhandled(d) \/ Commit(d) PROVE Patient'
    <2>1. at[d] # None /\ at' = Concluded(at, d)
      BY <1>3, <1>7 DEF NotFound, Unhandled, Commit
    <2>2. PICK x : at' = [at EXCEPT ![d] = x] /\ (x = None \/ x.standing = "awaited")
      BY <2>1, ConcludedAttempt DEF Inv, TypeOK
    <2> QED
      BY <2>2 DEF Inv, TypeOK, Patient
  <1>8. ASSUME NEW d \in Attempts, Answer(d) PROVE Patient'
    <2>1. at' = [at EXCEPT ![d] = None]
      BY <1>3, <1>8 DEF Answer
    <2> QED
      BY <2>1 DEF Inv, TypeOK, Patient
  <1>9. ASSUME NEW d \in Attempts, GiveUp(d) \/ Breaks(d) PROVE FALSE
    BY <1>1, <1>9 DEF GiveUp, Breaks
  <1>10. CASE UNCHANGED vars
    BY <1>10 DEF vars, Patient
  <1> QED
    BY <1>4, <1>5, <1>6, <1>7, <1>8, <1>9, <1>10 DEF Next, AttemptStep

\* If no attempt fails and the provider waits for every answer, an account that
\* was registered before its purchases is never led astray, whatever is sold,
\* changed and cancelled, and however deliveries for different addresses
\* overlap (_activate_subscription, _update_plan, _set_status, _reactivate).
THEOREM NoFaultNoDrift == ASSUME MaxFaults = 0 PROVE Spec => NoDrift
  <1> DEFINE Keeps == \A c \in Clients : account[c] # None /\ ~astray[c] => ~astray'[c]
  <1>1. Init => Patient
    BY DEF Init, Patient
  <1>2. ASSUME Inv, Patient, [Next]_vars PROVE Keeps
    <2>1. CASE astray' = astray
      BY <2>1
    <2>2. ASSUME NEW d \in Attempts, NotFound(d) PROVE Keeps
      <3>1. account[at[d].client] = None /\ astray' = [astray EXCEPT ![at[d].client] = TRUE]
        BY <2>2 DEF NotFound
      <3> QED
        BY <1>2, <3>1 DEF Inv, TypeOK
    <2>3. ASSUME NEW d \in Attempts, Commit(d) PROVE Keeps
      <3>1. at[d].standing = "awaited"
        BY <1>2, <2>3 DEF Commit, Patient
      <3>2. PICK g : /\ astray' = [astray EXCEPT ![at[d].client] = g]
                     /\ g => astray[at[d].client]
        BY <2>3, <3>1 DEF Commit
      <3> QED
        BY <1>2, <3>2 DEF Inv, TypeOK
    <2>4. ASSUME NEW c \in Clients, ProviderStep(c) \/ Register(c) \/ Meter(c) PROVE astray' = astray
      BY <2>4 DEF ProviderStep, Buy, Renew, ChargeFails, ChargeRecovers, ChangePlan, Cancel,
         Resumes, Ends, Refunded, Report, Register, Meter
    <2>5. ASSUME NEW d \in Attempts, AttemptStep(d) \/ GiveUp(d) \/ Breaks(d)
          PROVE  astray' = astray \/ NotFound(d) \/ Commit(d)
      BY <2>5 DEF AttemptStep, Found, Unhandled, Answer, GiveUp, Breaks
    <2>6. ASSUME NEW d \in Attempts, NEW c \in Clients, Send(d, c) PROVE astray' = astray
      BY <2>6 DEF Send
    <2>7. CASE UNCHANGED vars
      BY <2>1, <2>7 DEF vars
    <2> QED
      BY <1>2, <2>1, <2>2, <2>3, <2>4, <2>5, <2>6, <2>7 DEF Next
  <1>3. MaxFaults = 0 /\ Inv /\ Patient /\ [Next]_vars => Patient'
    BY PatientNext
  <1>4. Inv /\ Patient /\ [Next]_vars => [Keeps]_vars
    BY <1>2
  <1> QED
    BY <1>1, <1>3, <1>4, Invariance, PTL DEF Spec, NoDrift
================================================================================
