--------------------------- MODULE CodeStream_proofs ---------------------------
(* Theorems about CodeStream: its types, the order of what the page shows, *)
(* the entries it saves, and the button.                                   *)
EXTENDS CodeStream, SequenceTheorems, TLAPS

--------------------------------------------------------------------------------
(* Types *)

LEMMA EmptyPageType == EmptyPage \in Page
BY DEF Page, EmptyPage, Labels, Modes

LEMMA TypeInit == Init => TypeOK
<1> SUFFICES ASSUME Init PROVE TypeOK OBVIOUS
<1> USE DEF Init
<1>1. gen \in [Requests -> {"none", "running", "ended", "broken"}] OBVIOUS
<1>2. said \in [Requests -> Nat] /\ \A r \in Requests : said[r] <= MaxTexts[r]
  BY ConstantsOK DEF ConstantsOK
<1>3. wire \in [Requests -> Seq(Pieces)] OBVIOUS
<1>4. reader \in [Requests -> Reader] BY DEF Reader, Labels, Modes
<1>5. page \in Page BY EmptyPageType
<1>6. hist \in Seq(Entry) /\ Len(hist) <= HistLimit BY ConstantsOK DEF ConstantsOK
<1>7. mixed \in BOOLEAN OBVIOUS
<1>8. \A r \in Requests : reader[r].half => wire[r] # <<>> OBVIOUS
<1> QED BY <1>1, <1>2, <1>3, <1>4, <1>5, <1>6, <1>7, <1>8 DEF TypeOK

\* What a prefix of the wire is.
LEMMA PrefixType ==
  ASSUME NEW S, NEW s \in Seq(S), NEW n \in 0..Len(s)
  PROVE  /\ SubSeq(s, 1, n) \in Seq(S)
         /\ Len(SubSeq(s, 1, n)) = n
         /\ \A i \in 1..n : SubSeq(s, 1, n)[i] = s[i]
BY SubSeqProperties

\* And the rest of it.
LEMMA SuffixType ==
  ASSUME NEW S, NEW s \in Seq(S), NEW n \in 0..Len(s)
  PROVE  /\ SubSeq(s, n + 1, Len(s)) \in Seq(S)
         /\ Len(SubSeq(s, n + 1, Len(s))) = Len(s) - n
         /\ \A i \in 1..(Len(s) - n) : SubSeq(s, n + 1, Len(s))[i] = s[n + i]
BY SubSeqProperties

\* What slice keeps.
LEMMA SliceType ==
  ASSUME NEW S, NEW s \in Seq(S), NEW n \in Nat
  PROVE  /\ Slice(s, n) \in Seq(S)
         /\ Len(Slice(s, n)) = Least(Len(s), n)
         /\ \A i \in 1..Len(Slice(s, n)) : Slice(s, n)[i] = s[i]
<1> DEFINE m == IF Len(s) < n THEN Len(s) ELSE n
<1>1. m \in 0..Len(s) /\ Slice(s, n) = SubSeq(s, 1, m) BY DEF Slice
<1> HIDE DEF m
<1>2. /\ Slice(s, n) \in Seq(S) /\ Len(Slice(s, n)) = m
      /\ \A i \in 1..m : Slice(s, n)[i] = s[i]
  BY <1>1, PrefixType
<1> QED BY <1>2 DEF m, Least

LEMMA VisibleType ==
  ASSUME NEW s \in Seq(Pieces)
  PROVE  /\ Visible(s) \in Seq(Pieces)
         /\ Len(Visible(s)) \in {Len(s), Len(s) - 1}
         /\ \A i \in 1..Len(Visible(s)) : Visible(s)[i] = s[i]
<1>1. CASE s # <<>> /\ s[Len(s)].kind = "done"
  <2>1. Len(s) - 1 \in 0..Len(s) BY <1>1, EmptySeq
  <2> QED BY <1>1, <2>1, PrefixType DEF Visible
<1>2. CASE ~(s # <<>> /\ s[Len(s)].kind = "done")
  BY <1>2 DEF Visible
<1> QED BY <1>1, <1>2

\* The page after a read.
LEMMA ShownType ==
  ASSUME TypeOK, NEW s \in Seq(Pieces)
  PROVE  /\ Shown(s) \in Page
         /\ Shown(s).text = page.text \o Visible(s)
         /\ Shown(s).label = page.label /\ Shown(s).generating = page.generating
         /\ Shown(s).mode = page.mode
         /\ Shown(s).tag # "Error" =>
              /\ page.tag # "Error"
              /\ \A i \in 1..Len(Visible(s)) : Visible(s)[i].kind # "error"
<1>1. page \in Page BY DEF TypeOK
<1>2. Visible(s) \in Seq(Pieces) /\ DOMAIN Visible(s) = 1..Len(Visible(s)) BY VisibleType
<1>3. page.text \o Visible(s) \in Seq(Pieces) BY <1>1, <1>2, ConcatProperties DEF Page
<1> HIDE DEF Visible
<1> QED BY <1>1, <1>2, <1>3 DEF Shown, Page

LEMMA InterfereType ==
  ASSUME TypeOK
  PROVE  /\ Interfere \in [Requests -> Reader]
         /\ \A r \in Requests :
              /\ Interfere[r].pc = reader[r].pc /\ Interfere[r].half = reader[r].half
              /\ Interfere[r].label = reader[r].label /\ Interfere[r].mode = reader[r].mode
              /\ r \in Running => ~Interfere[r].quiet
              /\ r \notin Running => Interfere[r] = reader[r]
BY DEF TypeOK, Interfere, Reader

LEMMA ResetType ==
  ASSUME TypeOK, NEW r \in Requests
  PROVE  /\ ResetBtn(r) \in Page
         /\ ResetBtn(r).text = page.text /\ ResetBtn(r).tag = page.tag
         /\ ResetBtn(r).mode = page.mode
         /\ ResetBtn(r).label = reader[r].label /\ ~ResetBtn(r).generating
BY DEF TypeOK, ResetBtn, Page, Reader

LEMMA NoteType == ASSUME NEW r \in Requests PROVE Note(r) \in Seq(Pieces)
<1>1. Piece(r, "note", 0) \in Pieces BY DEF Piece, Pieces
<1> QED BY <1>1 DEF Note

\* Fail, by its fields.
LEMMA FailType ==
  ASSUME TypeOK, NEW r \in Requests, Fail(r)
  PROVE  /\ page' \in Page /\ page'.text = Note(r) /\ page'.tag = "Error"
         /\ page'.mode = page.mode /\ page'.label = reader[r].label /\ ~page'.generating
         /\ reader' \in [Requests -> Reader]
         /\ reader'[r].pc = "over"
         /\ \A q \in Requests \ {r} : reader'[q] = reader[q]
         /\ \A q \in Requests : reader'[q].half = reader[q].half
<1>1. ResetBtn(r) \in Page /\ Note(r) \in Seq(Pieces) BY ResetType, NoteType
<1>2. page' = [ResetBtn(r) EXCEPT !.text = Note(r), !.tag = "Error"] BY DEF Fail
<1>3. /\ page' \in Page /\ page'.text = Note(r) /\ page'.tag = "Error"
      /\ page'.mode = page.mode /\ page'.label = reader[r].label /\ ~page'.generating
  BY <1>1, <1>2, ResetType DEF Page
<1> QED BY <1>3, ZenonT(40) DEF Fail, TypeOK, Reader

\* The history after a new entry: it comes first, and the oldest may go.
LEMMA SavedType ==
  ASSUME TypeOK, NEW r \in Requests
  PROVE  /\ NewEntry(r) \in Entry
         /\ Saved(r) \in Seq(Entry) /\ Len(Saved(r)) <= HistLimit
         /\ \A i \in 1..Len(Saved(r)) :
              Saved(r)[i] = IF i = 1 THEN NewEntry(r) ELSE hist[i - 1]
         /\ Len(Saved(r)) <= Len(hist) + 1
<1> DEFINE h == <<NewEntry(r)>> \o hist
<1>0. page.text \in Seq(Pieces) /\ SaveLimit \in Nat /\ HistLimit \in Nat
  BY ConstantsOK DEF TypeOK, Page
<1>1. NewEntry(r) \in Entry
  <2>1. Slice(page.text, SaveLimit) \in Seq(Pieces) BY <1>0, SliceType
  <2> QED BY <2>1 DEF NewEntry, Entry, TypeOK, Page, Reader
<1>2. hist \in Seq(Entry) /\ <<NewEntry(r)>> \in Seq(Entry) BY <1>1 DEF TypeOK
<1>3. /\ h \in Seq(Entry) /\ Len(h) = Len(hist) + 1
      /\ \A i \in 1..Len(h) : h[i] = IF i = 1 THEN NewEntry(r) ELSE hist[i - 1]
  BY <1>2, ConcatProperties
<1>4. Saved(r) = Slice(h, HistLimit) BY DEF Saved
<1> HIDE DEF h
<1>5. Len(h) \in Nat /\ Len(hist) \in Nat BY <1>2, <1>3
<1>6. /\ Saved(r) \in Seq(Entry) /\ Len(Saved(r)) = Least(Len(h), HistLimit)
      /\ \A i \in 1..Len(Saved(r)) : Saved(r)[i] = h[i]
  BY <1>0, <1>3, <1>4, SliceType
<1>7. Len(Saved(r)) <= HistLimit /\ Len(Saved(r)) <= Len(h)
  BY <1>0, <1>5, <1>6 DEF Least
<1>8. \A i \in 1..Len(Saved(r)) : i \in 1..Len(h)
  BY <1>0, <1>5, <1>6, <1>7 DEF Least
<1> QED BY <1>1, <1>3, <1>6, <1>7, <1>8

LEMMA RemoveType ==
  ASSUME NEW S, NEW s \in Seq(S), NEW i \in DOMAIN s
  PROVE  /\ RemoveAt(s, i) \in Seq(S)
         /\ Len(RemoveAt(s, i)) = Len(s) - 1
         /\ \A j \in 1..(Len(s) - 1) : RemoveAt(s, i)[j] = s[IF j < i THEN j ELSE j + 1]
<1>1. i \in 1..Len(s) /\ i - 1 \in 0..Len(s) OBVIOUS
<1>2. /\ SubSeq(s, 1, i - 1) \in Seq(S) /\ Len(SubSeq(s, 1, i - 1)) = i - 1
      /\ \A j \in 1..(i - 1) : SubSeq(s, 1, i - 1)[j] = s[j]
  BY <1>1, PrefixType
<1>3. /\ SubSeq(s, i + 1, Len(s)) \in Seq(S) /\ Len(SubSeq(s, i + 1, Len(s))) = Len(s) - i
      /\ \A j \in 1..(Len(s) - i) : SubSeq(s, i + 1, Len(s))[j] = s[i + j]
  BY <1>1, SuffixType
<1>4. RemoveAt(s, i) = SubSeq(s, 1, i - 1) \o SubSeq(s, i + 1, Len(s)) BY DEF RemoveAt
<1>5. PICK a, b : a = SubSeq(s, 1, i - 1) /\ b = SubSeq(s, i + 1, Len(s)) OBVIOUS
<1>6. /\ a \in Seq(S) /\ b \in Seq(S) /\ RemoveAt(s, i) = a \o b
      /\ Len(a) = i - 1 /\ Len(b) = Len(s) - i
  BY <1>2, <1>3, <1>4, <1>5
<1>7. /\ RemoveAt(s, i) \in Seq(S) /\ Len(RemoveAt(s, i)) = Len(s) - 1
      /\ \A j \in 1..(Len(s) - 1) :
           RemoveAt(s, i)[j] = IF j <= i - 1 THEN a[j] ELSE b[j - (i - 1)]
  BY <1>1, <1>6, ConcatProperties, SMTT(30)
<1>8. ASSUME NEW j \in 1..(Len(s) - 1)
      PROVE  RemoveAt(s, i)[j] = s[IF j < i THEN j ELSE j + 1]
  <2>1. CASE j < i BY <2>1, <1>1, <1>2, <1>5, <1>7
  <2>2. CASE ~(j < i)
    <3>1. j - (i - 1) \in 1..(Len(s) - i) /\ i + (j - (i - 1)) = j + 1 BY <2>2, <1>1
    <3>2. b[j - (i - 1)] = s[i + (j - (i - 1))] BY <3>1, <1>3, <1>5
    <3>3. ~(j <= i - 1) BY <2>2, <1>1
    <3>4. RemoveAt(s, i)[j] = b[j - (i - 1)] BY <3>3, <1>7
    <3> QED BY <2>2, <3>1, <3>2, <3>4
  <2> QED BY <2>1, <2>2
<1> QED BY <1>7, <1>8

LEMMA AppendType ==
  ASSUME NEW r \in Requests, NEW k \in {"content", "done", "error"}, NEW n \in Nat,
         TypeOK, Yield(r, k, n)
  PROVE  /\ wire' \in [Requests -> Seq(Pieces)]
         /\ Len(wire'[r]) = Len(wire[r]) + 1
         /\ \A i \in 1..Len(wire[r]) : wire'[r][i] = wire[r][i]
         /\ wire'[r][Len(wire[r]) + 1] = Piece(r, k, n)
         /\ wire'[r] # <<>>
         /\ \A q \in Requests \ {r} : wire'[q] = wire[q]
<1>1. Piece(r, k, n) \in Pieces BY DEF Piece, Pieces
<1>2. wire[r] \in Seq(Pieces) BY DEF TypeOK
<1>3. /\ Append(wire[r], Piece(r, k, n)) \in Seq(Pieces)
      /\ Len(Append(wire[r], Piece(r, k, n))) = Len(wire[r]) + 1
      /\ \A i \in 1..Len(wire[r]) : Append(wire[r], Piece(r, k, n))[i] = wire[r][i]
      /\ Append(wire[r], Piece(r, k, n))[Len(wire[r]) + 1] = Piece(r, k, n)
  BY <1>1, <1>2, AppendProperties
<1>4. wire' = [wire EXCEPT ![r] = Append(wire[r], Piece(r, k, n))] BY DEF Yield
<1>5. wire'[r] = Append(wire[r], Piece(r, k, n)) /\ \A q \in Requests \ {r} : wire'[q] = wire[q]
  BY <1>4 DEF TypeOK
<1>6. wire' \in [Requests -> Seq(Pieces)] BY <1>3, <1>4 DEF TypeOK
<1> QED BY <1>2, <1>3, <1>5, <1>6, EmptySeq, SMTT(30)

\* Reading takes frames from the front of the wire.
LEMMA ReadType ==
  ASSUME TypeOK, NEW r \in Requests, NEW n \in 0..Len(wire[r]),
         page' = Shown(SubSeq(wire[r], 1, n)),
         wire' = [wire EXCEPT ![r] = SubSeq(@, n + 1, Len(@))]
  PROVE  /\ page' \in Page
         /\ wire' \in [Requests -> Seq(Pieces)]
         /\ Len(wire'[r]) = Len(wire[r]) - n
         /\ \A i \in 1..(Len(wire[r]) - n) : wire'[r][i] = wire[r][n + i]
         /\ \A q \in Requests \ {r} : wire'[q] = wire[q]
         /\ page'.text = page.text \o Visible(SubSeq(wire[r], 1, n))
         /\ page'.mode = page.mode /\ page'.label = page.label
         /\ page'.generating = page.generating
<1>1. wire[r] \in Seq(Pieces) BY DEF TypeOK
<1>2. SubSeq(wire[r], 1, n) \in Seq(Pieces) BY <1>1, PrefixType
<1>3. /\ SubSeq(wire[r], n + 1, Len(wire[r])) \in Seq(Pieces)
      /\ Len(SubSeq(wire[r], n + 1, Len(wire[r]))) = Len(wire[r]) - n
      /\ \A i \in 1..(Len(wire[r]) - n) :
           SubSeq(wire[r], n + 1, Len(wire[r]))[i] = wire[r][n + i]
  BY <1>1, SuffixType
<1>4. /\ wire' \in [Requests -> Seq(Pieces)]
      /\ wire'[r] = SubSeq(wire[r], n + 1, Len(wire[r]))
      /\ \A q \in Requests \ {r} : wire'[q] = wire[q]
  BY <1>3 DEF TypeOK
<1> QED BY <1>2, <1>3, <1>4, ShownType

LEMMA TypeNext == TypeOK /\ [Next]_vars => TypeOK'
<1> SUFFICES ASSUME TypeOK, [Next]_vars PROVE TypeOK' OBVIOUS
<1>1. ASSUME NEW r \in Requests, NEW e \in Events, ProviderEvent(r, e) PROVE TypeOK'
  <2>1. UNCHANGED <<reader, page, hist, mixed>> BY <1>1 DEF ProviderEvent
  <2>2. CASE /\ said[r] < MaxTexts[r] /\ said' = [said EXCEPT ![r] = @ + 1]
             /\ Yield(r, "content", said[r] + 1) /\ UNCHANGED gen
    <3>1. said[r] + 1 \in Nat BY DEF TypeOK
    <3>2. /\ wire' \in [Requests -> Seq(Pieces)] /\ wire'[r] # <<>>
          /\ \A q \in Requests \ {r} : wire'[q] = wire[q]
      BY <2>2, <3>1, AppendType
    <3>3. /\ said' \in [Requests -> Nat] /\ said'[r] = said[r] + 1
          /\ \A q \in Requests \ {r} : said'[q] = said[q]
      BY <2>2 DEF TypeOK
    <3>4. said[r] + 1 <= MaxTexts[r]
      <4>1. MaxTexts[r] \in Nat BY ConstantsOK DEF ConstantsOK
      <4>2. said[r] \in Nat BY DEF TypeOK
      <4> QED BY <2>2, <4>1, <4>2
    <3>5. \A q \in Requests : said'[q] <= MaxTexts[q] BY <3>3, <3>4 DEF TypeOK
    <3> QED BY <2>1, <2>2, <3>2, <3>3, <3>5 DEF TypeOK
  <2>3. CASE /\ Yield(r, "done", 0) \/ Yield(r, "error", 0)
             /\ gen' = [gen EXCEPT ![r] = "ended"] /\ UNCHANGED said
    <3>1. /\ wire' \in [Requests -> Seq(Pieces)] /\ wire'[r] # <<>>
          /\ \A q \in Requests \ {r} : wire'[q] = wire[q]
      BY <2>3, AppendType
    <3> QED BY <2>1, <2>3, <3>1 DEF TypeOK
  <2>4. CASE UNCHANGED server BY <2>1, <2>4 DEF TypeOK, server
  <2> QED BY <1>1, <2>2, <2>3, <2>4 DEF ProviderEvent
<1>2. ASSUME NEW r \in Requests, Break(r) PROVE TypeOK'
  <2>1. reader' \in [Requests -> Reader] /\ \A q \in Requests : reader'[q].half => reader[q].half /\ q # r
    BY <1>2 DEF Break, TypeOK, Reader
  <2> QED BY <1>2, <2>1 DEF Break, TypeOK
<1>3. ASSUME NEW r \in Requests, Start(r) PROVE TypeOK'
  <2>1. page' \in Page
    <3>1. <<>> \in Seq(Pieces) OBVIOUS
    <3>2. page' = [page EXCEPT !.text = <<>>, !.tag = "Streaming", !.label = "working",
                               !.generating = TRUE]
      BY <1>3 DEF Start
    <3>3. page \in Page BY DEF TypeOK
    <3> QED BY <3>1, <3>2, <3>3 DEF Page, Labels
  <2>2. /\ reader' \in [Requests -> Reader]
        /\ \A q \in Requests : reader'[q].half => reader[q].half
    BY <1>3, InterfereType DEF Start, TypeOK, Page, Reader
  <2> QED BY <1>3, <2>1, <2>2 DEF Start, TypeOK, server
<1>4. ASSUME NEW r \in Requests, Accept(r) PROVE TypeOK'
  <2>1. reader' \in [Requests -> Reader] /\ \A q \in Requests : reader'[q].half = reader[q].half
    BY <1>4 DEF Accept, TypeOK, Reader
  <2> QED BY <1>4, <2>1 DEF Accept, TypeOK
<1>5. ASSUME NEW r \in Requests, Refuse(r) PROVE TypeOK'
  BY <1>5, FailType DEF Refuse, TypeOK, server
<1>6. ASSUME NEW r \in Requests, Read(r) PROVE TypeOK'
  <2>1. PICK n \in 0..Len(wire[r]), half \in BOOLEAN :
          /\ half => n < Len(wire[r])
          /\ page' = Shown(SubSeq(wire[r], 1, n))
          /\ wire' = [wire EXCEPT ![r] = SubSeq(@, n + 1, Len(@))]
          /\ reader' = [reader EXCEPT ![r].half = half]
    BY <1>6 DEF Read
  <2>2. UNCHANGED <<gen, said, hist, mixed>> BY <1>6 DEF Read
  <2>3. /\ page' \in Page /\ wire' \in [Requests -> Seq(Pieces)]
        /\ Len(wire'[r]) = Len(wire[r]) - n
        /\ \A q \in Requests \ {r} : wire'[q] = wire[q]
    BY <2>1, ReadType
  <2>4. /\ reader' \in [Requests -> Reader] /\ reader'[r].half = half
        /\ \A q \in Requests \ {r} : reader'[q] = reader[q]
    BY <2>1 DEF TypeOK, Reader
  <2>5. half => wire'[r] # <<>>
    <3>1. Len(wire[r]) \in Nat BY DEF TypeOK
    <3> QED BY <2>1, <2>3, <3>1
  <2> QED BY <2>2, <2>3, <2>4, <2>5 DEF TypeOK
<1>7. ASSUME NEW r \in Requests, Complete(r) PROVE TypeOK'
  <2>1. page' \in Page BY <1>7, ResetType DEF Complete, Page
  <2>2. hist' \in Seq(Entry) /\ Len(hist') <= HistLimit
    BY <1>7, SavedType DEF Complete, TypeOK
  <2>3. reader' \in [Requests -> Reader] /\ \A q \in Requests : reader'[q].half = reader[q].half
    BY <1>7 DEF Complete, TypeOK, Reader
  <2> QED BY <1>7, <2>1, <2>2, <2>3 DEF Complete, TypeOK, server
<1>8. ASSUME NEW r \in Requests, ReadRejects(r) PROVE TypeOK'
  BY <1>8, FailType DEF ReadRejects, TypeOK, server
<1>9. ASSUME NEW m \in Modes, SetMode(m) PROVE TypeOK'
  <2>1. page' \in Page BY <1>9 DEF SetMode, TypeOK, Page, Labels
  <2>2. mixed' \in BOOLEAN BY <1>9 DEF SetMode
  <2> QED BY <1>9, <2>1, <2>2, InterfereType DEF SetMode, TypeOK, server
<1>10. ASSUME NEW i \in DOMAIN hist, OpenEntry(i) PROVE TypeOK'
  <2>1. hist[i] \in Entry BY DEF TypeOK
  <2>2. page' \in Page BY <1>10, <2>1 DEF OpenEntry, TypeOK, Page, Labels, Entry
  <2>3. mixed' \in BOOLEAN BY <1>10 DEF OpenEntry
  <2> QED BY <1>10, <2>2, <2>3, InterfereType DEF OpenEntry, TypeOK, server
<1>11. CASE Forget
  <2>1. CASE hist' = <<>>
    BY <1>11, <2>1, ConstantsOK DEF Forget, TypeOK, server, ConstantsOK
  <2>2. ASSUME NEW i \in DOMAIN hist, hist' = RemoveAt(hist, i) PROVE TypeOK'
    <3>1. hist \in Seq(Entry) /\ Len(hist) \in Nat BY DEF TypeOK
    <3>2. hist' \in Seq(Entry) /\ Len(hist') = Len(hist) - 1 BY <2>2, <3>1, RemoveType
    <3>3. Len(hist') <= HistLimit BY <3>1, <3>2, ConstantsOK DEF TypeOK, ConstantsOK
    <3> QED BY <1>11, <3>2, <3>3 DEF Forget, TypeOK, server
  <2> QED BY <1>11, <2>1, <2>2 DEF Forget
<1>12. CASE Reload
  <2>1. page' \in Page BY <1>12, EmptyPageType DEF Reload
  <2>2. reader' \in [Requests -> Reader] BY <1>12, ZenonT(40) DEF Reload, TypeOK, Reader
  <2>3. wire' \in [Requests -> Seq(Pieces)]
    <3>1. <<>> \in Seq(Pieces) OBVIOUS
    <3> QED BY <1>12, <3>1 DEF Reload, TypeOK
  <2>4. \A r \in Requests : reader'[r].half => wire'[r] # <<>>
    BY <1>12 DEF Reload, TypeOK, Reader
  <2> QED BY <1>12, <2>1, <2>2, <2>3, <2>4 DEF Reload, TypeOK
<1>13. CASE UNCHANGED vars BY <1>13 DEF vars, TypeOK
<1> QED
  BY <1>1, <1>2, <1>3, <1>4, <1>5, <1>6, <1>7, <1>8, <1>9, <1>10, <1>11, <1>12, <1>13
  DEF Next, RequestStep

\* The types and the shapes of TypeOK.
THEOREM TypeSafe == Spec => []TypeOK
<1> QED BY TypeInit, TypeNext, PTL DEF Spec

--------------------------------------------------------------------------------
(* The order of what is shown *)

InOrder(s) ==
  \A i, j \in DOMAIN s :
    i < j /\ s[i].of = s[j].of /\ s[i].kind = "content" /\ s[j].kind = "content"
      => s[i].n < s[j].n

\* The pieces of s have been sent, and come before what the page has yet to read.
Behind(s) ==
  \A i \in DOMAIN s :
    s[i].kind = "content" =>
      /\ s[i].n <= said[s[i].of]
      /\ \A j \in DOMAIN wire[s[i].of] :
           wire[s[i].of][j].kind = "content" => s[i].n < wire[s[i].of][j].n

WireOrder ==
  \A r \in Requests :
    /\ \A i \in DOMAIN wire[r] :
         wire[r][i].of = r /\ (wire[r][i].kind = "content" => wire[r][i].n <= said[r])
    /\ InOrder(wire[r])

\* Entries of the history come back to the text area, where running requests
\* append to them.
TextOrder == InOrder(page.text) /\ Behind(page.text)
HistOrder == \A i \in DOMAIN hist : InOrder(hist[i].text) /\ Behind(hist[i].text)

OrderInv == WireOrder /\ TextOrder /\ HistOrder

LEMMA NothingBehind == InOrder(<<>>) /\ Behind(<<>>)
BY DEF InOrder, Behind

\* The beginning of a text is in order when the text is.
LEMMA SliceOrder ==
  ASSUME TypeOK, InOrder(page.text), Behind(page.text)
  PROVE  InOrder(Slice(page.text, SaveLimit)) /\ Behind(Slice(page.text, SaveLimit))
<1> DEFINE s == page.text
           t == Slice(page.text, SaveLimit)
<1>1. s \in Seq(Pieces) /\ SaveLimit \in Nat BY ConstantsOK DEF TypeOK, Page
<1>2. /\ t \in Seq(Pieces) /\ Len(t) = Least(Len(s), SaveLimit)
      /\ \A i \in 1..Len(t) : t[i] = s[i]
  BY <1>1, SliceType
<1> HIDE DEF s, t
<1>3. DOMAIN t \subseteq DOMAIN s /\ \A i \in DOMAIN t : t[i] = s[i]
  BY <1>1, <1>2 DEF Least
<1> QED BY <1>3 DEF InOrder, Behind, s, t

LEMMA NoteBehind == ASSUME NEW r \in Requests PROVE InOrder(Note(r)) /\ Behind(Note(r))
BY DEF InOrder, Behind, Note, Piece

\* What was in order stays so when the wire loses frames of one request.
LEMMA BehindShorter ==
  ASSUME TypeOK, NEW s \in Seq(Pieces), Behind(s), UNCHANGED said,
         wire' \in [Requests -> Seq(Pieces)],
         NEW r \in Requests, NEW n \in 0..Len(wire[r]),
         Len(wire'[r]) = Len(wire[r]) - n,
         \A i \in 1..(Len(wire[r]) - n) : wire'[r][i] = wire[r][n + i],
         \A q \in Requests \ {r} : wire'[q] = wire[q]
  PROVE  Behind(s)'
<1> SUFFICES ASSUME NEW i \in DOMAIN s, s[i].kind = "content"
             PROVE  /\ s[i].n <= said'[s[i].of]
                    /\ \A j \in DOMAIN wire'[s[i].of] :
                         wire'[s[i].of][j].kind = "content" => s[i].n < wire'[s[i].of][j].n
  BY DEF Behind
<1>0. s[i] \in Pieces OBVIOUS
<1>1. s[i].of \in Requests BY <1>0 DEF Pieces
<1>2. /\ DOMAIN wire[r] = 1..Len(wire[r]) /\ Len(wire[r]) \in Nat
      /\ DOMAIN wire'[r] = 1..Len(wire'[r]) /\ Len(wire'[r]) \in Nat
  <2>1. wire[r] \in Seq(Pieces) /\ wire'[r] \in Seq(Pieces) BY DEF TypeOK
  <2> QED BY <2>1
<1>3. CASE s[i].of = r
  <2>1. ASSUME NEW j \in DOMAIN wire'[r] PROVE n + j \in DOMAIN wire[r] /\ wire'[r][j] = wire[r][n + j]
    BY <1>2
  <2>2. s[i].n <= said[r] BY <1>3 DEF Behind
  <2>3. \A j \in DOMAIN wire[r] : wire[r][j].kind = "content" => s[i].n < wire[r][j].n
    BY <1>3 DEF Behind
  <2> QED BY <1>3, <2>1, <2>2, <2>3
<1>4. CASE s[i].of # r BY <1>1, <1>4 DEF Behind
<1> QED BY <1>3, <1>4

\* And when the wires of some requests are gone.
LEMMA BehindEmptied ==
  ASSUME TypeOK, NEW s \in Seq(Pieces), Behind(s), UNCHANGED said,
         \A q \in Requests : wire'[q] = wire[q] \/ wire'[q] = <<>>
  PROVE  Behind(s)'
<1> SUFFICES ASSUME NEW i \in DOMAIN s, s[i].kind = "content"
             PROVE  /\ s[i].n <= said'[s[i].of]
                    /\ \A j \in DOMAIN wire'[s[i].of] :
                         wire'[s[i].of][j].kind = "content" => s[i].n < wire'[s[i].of][j].n
  BY DEF Behind
<1>0. s[i] \in Pieces OBVIOUS
<1>1. s[i].of \in Requests BY <1>0 DEF Pieces
<1>2. /\ s[i].n <= said[s[i].of]
      /\ \A j \in DOMAIN wire[s[i].of] :
           wire[s[i].of][j].kind = "content" => s[i].n < wire[s[i].of][j].n
  BY DEF Behind
<1>3. CASE wire'[s[i].of] = wire[s[i].of] BY <1>2, <1>3
<1>4. CASE wire'[s[i].of] = <<>> BY <1>2, <1>4
<1> QED BY <1>1, <1>3, <1>4

\* A frame that is appended comes after everything.
LEMMA BehindLonger ==
  ASSUME TypeOK, NEW r \in Requests, NEW k \in {"content", "done", "error"}, NEW n \in Nat,
         Yield(r, k, n), said' \in [Requests -> Nat],
         \A q \in Requests \ {r} : said'[q] = said[q],
         said[r] <= said'[r], k = "content" => n = said[r] + 1,
         NEW s \in Seq(Pieces), Behind(s)
  PROVE  Behind(s)'
<1> SUFFICES ASSUME NEW i \in DOMAIN s, s[i].kind = "content"
             PROVE  /\ s[i].n <= said'[s[i].of]
                    /\ \A j \in DOMAIN wire'[s[i].of] :
                         wire'[s[i].of][j].kind = "content" => s[i].n < wire'[s[i].of][j].n
  BY DEF Behind
<1>0. s[i] \in Pieces OBVIOUS
<1>1. s[i].of \in Requests /\ s[i].n \in Nat BY <1>0 DEF Pieces
<1>2. CASE s[i].of # r
  <2>1. wire'[s[i].of] = wire[s[i].of] /\ said'[s[i].of] = said[s[i].of]
    BY <1>1, <1>2, AppendType
  <2>2. /\ s[i].n <= said[s[i].of]
        /\ \A j \in DOMAIN wire[s[i].of] :
             wire[s[i].of][j].kind = "content" => s[i].n < wire[s[i].of][j].n
    BY DEF Behind
  <2> QED BY <2>1, <2>2
<1>3. CASE s[i].of = r
  <2>1. s[i].n <= said[r] BY <1>3 DEF Behind
  <2>2. \A j \in DOMAIN wire[r] : wire[r][j].kind = "content" => s[i].n < wire[r][j].n
    BY <1>3 DEF Behind
  <2>3. said[r] \in Nat /\ said'[r] \in Nat BY DEF TypeOK
  <2>4. s[i].n <= said'[r] BY <1>1, <2>1, <2>3
  <2>5. /\ wire'[r] \in Seq(Pieces) /\ Len(wire'[r]) = Len(wire[r]) + 1
        /\ \A j \in 1..Len(wire[r]) : wire'[r][j] = wire[r][j]
        /\ wire'[r][Len(wire[r]) + 1] = Piece(r, k, n)
    BY AppendType
  <2>6. DOMAIN wire[r] = 1..Len(wire[r]) /\ Len(wire[r]) \in Nat
    <3>1. wire[r] \in Seq(Pieces) BY DEF TypeOK
    <3> QED BY <3>1
  <2>7. ASSUME NEW j \in DOMAIN wire'[r], wire'[r][j].kind = "content"
        PROVE  s[i].n < wire'[r][j].n
    <3>1. j \in 1..Len(wire[r]) \/ j = Len(wire[r]) + 1 BY <2>5, <2>6, SMTT(30)
    <3>2. CASE j \in 1..Len(wire[r]) BY <2>2, <2>5, <2>6, <2>7, <3>2
    <3>3. CASE j = Len(wire[r]) + 1
      <4>1. k = "content" /\ wire'[r][j].n = n BY <2>5, <2>7, <3>3 DEF Piece
      <4> QED BY <1>1, <2>1, <2>3, <4>1
    <3> QED BY <3>1, <3>2, <3>3
  <2> QED BY <1>3, <2>4, <2>7
<1> QED BY <1>2, <1>3

\* The texts of the page and of the history, for the lemmas above.
LEMMA TextTypes ==
  ASSUME TypeOK
  PROVE  page.text \in Seq(Pieces) /\ \A i \in DOMAIN hist : hist[i].text \in Seq(Pieces)
<1>1. \A i \in DOMAIN hist : hist[i] \in Entry BY DEF TypeOK
<1> QED BY <1>1 DEF TypeOK, Page, Entry

\* The order of the wire, when a frame is appended and when some are read.
LEMMA WireLonger ==
  ASSUME TypeOK, WireOrder, NEW r \in Requests,
         NEW k \in {"content", "done", "error"}, NEW n \in Nat,
         Yield(r, k, n), said' \in [Requests -> Nat],
         \A q \in Requests \ {r} : said'[q] = said[q],
         said[r] <= said'[r], k = "content" => n = said[r] + 1 /\ n = said'[r]
  PROVE  WireOrder'
<1>1. /\ wire'[r] \in Seq(Pieces) /\ Len(wire'[r]) = Len(wire[r]) + 1
      /\ \A j \in 1..Len(wire[r]) : wire'[r][j] = wire[r][j]
      /\ wire'[r][Len(wire[r]) + 1] = Piece(r, k, n)
      /\ \A q \in Requests \ {r} : wire'[q] = wire[q]
  BY AppendType
<1>2. DOMAIN wire[r] = 1..Len(wire[r]) /\ Len(wire[r]) \in Nat
      /\ \A j \in 1..Len(wire[r]) : wire[r][j].n \in Nat
  <2>1. wire[r] \in Seq(Pieces) BY DEF TypeOK
  <2>2. \A j \in 1..Len(wire[r]) : wire[r][j] \in Pieces BY <2>1
  <2> QED BY <2>1, <2>2 DEF Pieces
<1>3. DOMAIN wire'[r] = 1..(Len(wire[r]) + 1) BY <1>1
<1>4. said[r] \in Nat /\ said'[r] \in Nat BY DEF TypeOK
<1>5. \A i \in DOMAIN wire[r] :
        wire[r][i].of = r /\ (wire[r][i].kind = "content" => wire[r][i].n <= said[r])
  BY DEF WireOrder
<1>6. ASSUME NEW i \in DOMAIN wire'[r]
      PROVE  wire'[r][i].of = r /\ (wire'[r][i].kind = "content" => wire'[r][i].n <= said'[r])
  <2>1. CASE i \in 1..Len(wire[r]) BY <2>1, <1>1, <1>2, <1>4, <1>5, SMTT(30)
  <2>2. CASE i = Len(wire[r]) + 1 BY <2>2, <1>1, <1>4 DEF Piece
  <2> QED BY <1>2, <1>3, <2>1, <2>2
<1>7. ASSUME NEW i \in DOMAIN wire'[r], NEW j \in DOMAIN wire'[r], i < j,
             wire'[r][i].kind = "content", wire'[r][j].kind = "content"
      PROVE  wire'[r][i].n < wire'[r][j].n
  <2>1. i \in 1..Len(wire[r]) /\ i \in DOMAIN wire[r] /\ wire'[r][i] = wire[r][i]
    BY <1>1, <1>2, <1>3, <1>7
  <2>2. CASE j \in 1..Len(wire[r])
    <3>1. wire[r][i].of = wire[r][j].of BY <1>2, <1>5, <2>1, <2>2
    <3> QED BY <1>1, <1>2, <1>7, <2>1, <2>2, <3>1 DEF WireOrder, InOrder
  <2>3. CASE j = Len(wire[r]) + 1
    <3>1. wire'[r][j].n = said[r] + 1 BY <1>1, <1>7, <2>3 DEF Piece
    <3>2. wire[r][i].n <= said[r] BY <1>5, <1>7, <2>1
    <3> QED BY <1>2, <1>4, <2>1, <3>1, <3>2
  <2> QED BY <1>2, <1>3, <2>2, <2>3
<1>8. InOrder(wire'[r]) BY <1>7 DEF InOrder
<1>9. ASSUME NEW q \in Requests \ {r}
      PROVE  /\ \A i \in DOMAIN wire'[q] :
                  wire'[q][i].of = q /\ (wire'[q][i].kind = "content" => wire'[q][i].n <= said'[q])
             /\ InOrder(wire'[q])
  BY <1>1 DEF WireOrder
<1> QED BY <1>6, <1>8, <1>9 DEF WireOrder

LEMMA WireShorter ==
  ASSUME TypeOK, WireOrder, UNCHANGED said, wire' \in [Requests -> Seq(Pieces)],
         NEW r \in Requests, NEW n \in 0..Len(wire[r]),
         Len(wire'[r]) = Len(wire[r]) - n,
         \A i \in 1..(Len(wire[r]) - n) : wire'[r][i] = wire[r][n + i],
         \A q \in Requests \ {r} : wire'[q] = wire[q]
  PROVE  WireOrder'
<1>1. /\ DOMAIN wire[r] = 1..Len(wire[r]) /\ Len(wire[r]) \in Nat
      /\ DOMAIN wire'[r] = 1..Len(wire'[r])
  <2>1. wire[r] \in Seq(Pieces) /\ wire'[r] \in Seq(Pieces) BY DEF TypeOK
  <2> QED BY <2>1
<1>2. \A i \in DOMAIN wire'[r] : n + i \in DOMAIN wire[r] /\ wire'[r][i] = wire[r][n + i]
  BY <1>1
<1>3. \A i, j \in DOMAIN wire'[r] : i < j => n + i < n + j BY <1>1
<1>4. InOrder(wire[r]) BY DEF WireOrder
<1>5. InOrder(wire'[r]) BY <1>2, <1>3, <1>4 DEF InOrder
<1>6. \A i \in DOMAIN wire'[r] :
        wire'[r][i].of = r /\ (wire'[r][i].kind = "content" => wire'[r][i].n <= said'[r])
  BY <1>2 DEF WireOrder
<1> QED BY <1>5, <1>6 DEF WireOrder

LEMMA OrderInit == Init => OrderInv
BY NothingBehind DEF Init, OrderInv, WireOrder, TextOrder, HistOrder, InOrder, EmptyPage


\* What a read appends continues the text in order.
LEMMA ReadOrder ==
  ASSUME TypeOK, OrderInv, UNCHANGED said, NEW r \in Requests, NEW n \in 0..Len(wire[r]),
         page' = Shown(SubSeq(wire[r], 1, n)),
         wire' = [wire EXCEPT ![r] = SubSeq(@, n + 1, Len(@))]
  PROVE  TextOrder'
<1>1. PICK t, v, u : /\ t = page.text /\ v = Visible(SubSeq(wire[r], 1, n)) /\ u = page'.text
  OBVIOUS
<1>2. wire[r] \in Seq(Pieces) /\ t \in Seq(Pieces) BY <1>1, TextTypes DEF TypeOK
<1>3. /\ SubSeq(wire[r], 1, n) \in Seq(Pieces) /\ Len(SubSeq(wire[r], 1, n)) = n
      /\ \A i \in 1..n : SubSeq(wire[r], 1, n)[i] = wire[r][i]
  BY <1>2, PrefixType
<1>4. v \in Seq(Pieces) /\ Len(v) <= n /\ \A i \in 1..Len(v) : v[i] = wire[r][i]
  <2>1. PICK w : w = SubSeq(wire[r], 1, n) OBVIOUS
  <2>2. /\ v \in Seq(Pieces) /\ Len(v) \in {n, n - 1}
        /\ \A i \in 1..Len(v) : v[i] = w[i]
    BY <1>1, <1>3, <2>1, VisibleType
  <2>3. n \in Nat /\ Len(v) \in Nat BY <2>2
  <2>4. Len(v) <= n /\ \A i \in 1..Len(v) : i \in 1..n BY <2>2, <2>3
  <2> QED BY <1>3, <2>1, <2>2, <2>4
<1>5. /\ wire' \in [Requests -> Seq(Pieces)] /\ Len(wire'[r]) = Len(wire[r]) - n
      /\ \A i \in 1..(Len(wire[r]) - n) : wire'[r][i] = wire[r][n + i]
      /\ \A q \in Requests \ {r} : wire'[q] = wire[q]
      /\ u = t \o v
  BY <1>1, ReadType
<1>6. u \in Seq(Pieces) /\ Len(u) = Len(t) + Len(v)
      /\ \A i \in 1..Len(u) : u[i] = IF i <= Len(t) THEN t[i] ELSE v[i - Len(t)]
  BY <1>2, <1>4, <1>5, ConcatProperties
<1>7. /\ DOMAIN u = 1..Len(u) /\ DOMAIN t = 1..Len(t) /\ DOMAIN wire[r] = 1..Len(wire[r])
      /\ Len(t) \in Nat /\ Len(v) \in Nat /\ Len(wire[r]) \in Nat
  BY <1>2, <1>4, <1>6
<1>8. ASSUME NEW i \in DOMAIN u
      PROVE  \/ i \in DOMAIN t /\ u[i] = t[i]
             \/ /\ i \notin DOMAIN t /\ i - Len(t) \in DOMAIN wire[r] /\ i - Len(t) <= n
                /\ u[i] = wire[r][i - Len(t)]
  BY <1>4, <1>6, <1>7
<1>9. InOrder(t) /\ Behind(t) /\ InOrder(wire[r])
  BY <1>1 DEF OrderInv, TextOrder, WireOrder
<1>10. \A i \in DOMAIN wire[r] :
         wire[r][i].of = r /\ (wire[r][i].kind = "content" => wire[r][i].n <= said[r])
  BY DEF OrderInv, WireOrder
<1>11. Behind(t)' BY <1>2, <1>5, <1>9, BehindShorter
<1>12. ASSUME NEW i \in DOMAIN u, NEW j \in DOMAIN u, i < j, u[i].of = u[j].of,
              u[i].kind = "content", u[j].kind = "content"
       PROVE  u[i].n < u[j].n
  <2>1. CASE i \in DOMAIN t /\ u[i] = t[i] /\ j \in DOMAIN t /\ u[j] = t[j]
    BY <2>1, <1>9, <1>12 DEF InOrder
  <2>2. CASE /\ i \in DOMAIN t /\ u[i] = t[i]
             /\ j - Len(t) \in DOMAIN wire[r] /\ u[j] = wire[r][j - Len(t)]
    BY <2>2, <1>9, <1>10, <1>12 DEF Behind
  <2>3. CASE /\ i - Len(t) \in DOMAIN wire[r] /\ u[i] = wire[r][i - Len(t)]
             /\ j - Len(t) \in DOMAIN wire[r] /\ u[j] = wire[r][j - Len(t)]
    <3>1. i - Len(t) < j - Len(t) BY <1>7, <1>12
    <3> QED BY <2>3, <3>1, <1>9, <1>12 DEF InOrder
  <2>4. ~(i \notin DOMAIN t /\ j \in DOMAIN t) BY <1>7, <1>12
  <2> QED BY <1>8, <2>1, <2>2, <2>3, <2>4
<1>13. ASSUME NEW i \in DOMAIN u, u[i].kind = "content"
       PROVE  /\ u[i].n <= said'[u[i].of]
              /\ \A j \in DOMAIN wire'[u[i].of] :
                   wire'[u[i].of][j].kind = "content" => u[i].n < wire'[u[i].of][j].n
  <2>1. CASE i \in DOMAIN t /\ u[i] = t[i] BY <2>1, <1>11, <1>13 DEF Behind
  <2>2. CASE /\ i - Len(t) \in DOMAIN wire[r] /\ i - Len(t) <= n
             /\ u[i] = wire[r][i - Len(t)]
    <3>1. u[i].of = r /\ u[i].n <= said[r] BY <1>10, <1>13, <2>2
    <3>2. ASSUME NEW j \in DOMAIN wire'[r], wire'[r][j].kind = "content"
          PROVE  u[i].n < wire'[r][j].n
      <4>1. j \in 1..(Len(wire[r]) - n)
        <5>1. wire'[r] \in Seq(Pieces) BY <1>5
        <5> QED BY <5>1, <1>5
      <4>2. n + j \in DOMAIN wire[r] /\ i - Len(t) < n + j /\ wire'[r][j] = wire[r][n + j]
        <5>1. i \in Nat /\ n \in Nat /\ j \in Nat /\ j > 0 BY <4>1, <1>6, <1>7
        <5>2. n + j \in 1..Len(wire[r]) BY <4>1, <5>1, <1>7
        <5>3. i - Len(t) < n + j BY <5>1, <1>7, <2>2
        <5> QED BY <4>1, <5>2, <5>3, <1>5, <1>7
      <4>3. wire[r][i - Len(t)].of = wire[r][n + j].of BY <4>2, <1>10, <2>2
      <4> QED BY <4>2, <4>3, <3>2, <1>9, <1>13, <2>2 DEF InOrder
    <3> QED BY <3>1, <3>2
  <2> QED BY <1>8, <2>1, <2>2
<1>14. InOrder(u) BY <1>12 DEF InOrder
<1>15. Behind(page.text)' BY <1>1, <1>13, SMTT(90) DEF Behind
<1> QED BY <1>1, <1>14, <1>15 DEF TextOrder

\* Steps that touch neither the wire nor what has been said leave Behind alone.
LEMMA BehindSame ==
  ASSUME NEW s, Behind(s), UNCHANGED <<said, wire>> PROVE Behind(s)'
BY DEF Behind

LEMMA OrderNext == TypeOK /\ OrderInv /\ [Next]_vars => OrderInv'
<1> SUFFICES ASSUME TypeOK, OrderInv, [Next]_vars PROVE OrderInv' OBVIOUS
<1> USE DEF OrderInv
<1>0. page.text \in Seq(Pieces) /\ \A i \in DOMAIN hist : hist[i].text \in Seq(Pieces)
  BY TextTypes
<1>1. ASSUME NEW r \in Requests, NEW e \in Events, ProviderEvent(r, e) PROVE OrderInv'
  <2>1. UNCHANGED <<reader, page, hist, mixed>> BY <1>1 DEF ProviderEvent
  <2>2. ASSUME NEW k \in {"content", "done", "error"}, NEW n \in Nat, Yield(r, k, n),
               said' \in [Requests -> Nat], \A q \in Requests \ {r} : said'[q] = said[q],
               said[r] <= said'[r], k = "content" => n = said[r] + 1 /\ n = said'[r]
        PROVE  OrderInv'
    <3>1. WireOrder' BY <2>2, WireLonger
    <3>2. \A s \in Seq(Pieces) : Behind(s) => Behind(s)' BY <2>2, BehindLonger
    <3>3. TextOrder' BY <1>0, <2>1, <3>2 DEF TextOrder
    <3>4. HistOrder' BY <1>0, <2>1, <3>2 DEF HistOrder
    <3> QED BY <3>1, <3>3, <3>4
  <2>3. CASE /\ said[r] < MaxTexts[r] /\ said' = [said EXCEPT ![r] = @ + 1]
             /\ Yield(r, "content", said[r] + 1)
    <3>1. said[r] \in Nat /\ said[r] + 1 \in Nat BY DEF TypeOK
    <3>2. /\ said' \in [Requests -> Nat] /\ said'[r] = said[r] + 1
          /\ \A q \in Requests \ {r} : said'[q] = said[q]
      BY <2>3 DEF TypeOK
    <3> QED BY <2>2, <2>3, <3>1, <3>2
  <2>4. CASE (Yield(r, "done", 0) \/ Yield(r, "error", 0)) /\ UNCHANGED said
    <3>1. said \in [Requests -> Nat] BY DEF TypeOK
    <3> QED BY <2>2, <2>4, <3>1
  <2>5. CASE UNCHANGED server
    BY <2>1, <2>5, BehindSame DEF server, WireOrder, TextOrder, HistOrder
  <2> QED BY <1>1, <2>3, <2>4, <2>5 DEF ProviderEvent
<1>2. ASSUME NEW r \in Requests, Break(r) PROVE OrderInv'
  <2>1. \A q \in Requests : wire'[q] = wire[q] \/ wire'[q] = <<>>
    BY <1>2 DEF Break, TypeOK
  <2>2. UNCHANGED <<said, page, hist>> BY <1>2 DEF Break
  <2>3. \A s \in Seq(Pieces) : Behind(s) => Behind(s)' BY <2>1, <2>2, BehindEmptied
  <2>4. WireOrder' BY <2>1, <2>2, NothingBehind DEF WireOrder
  <2> QED BY <1>0, <2>2, <2>3, <2>4 DEF TextOrder, HistOrder
<1>3. ASSUME NEW r \in Requests, Start(r) PROVE OrderInv'
  <2>1. UNCHANGED <<said, wire, hist>> /\ page'.text = <<>>
    BY <1>3 DEF Start, server, TypeOK, Page
  <2>2. InOrder(<<>>) /\ Behind(<<>>) BY NothingBehind
  <2> QED BY <2>1, <2>2, BehindSame DEF WireOrder, TextOrder, HistOrder
<1>4. ASSUME NEW r \in Requests, Accept(r) PROVE OrderInv'
  BY <1>4, BehindSame DEF Accept, WireOrder, TextOrder, HistOrder
<1>5. ASSUME NEW r \in Requests, Fail(r), UNCHANGED <<server, hist>> PROVE OrderInv'
  <2>1. page'.text = Note(r) BY <1>5, FailType
  <2>2. InOrder(Note(r)) /\ Behind(Note(r)) BY NoteBehind
  <2> QED BY <1>5, <2>1, <2>2, BehindSame DEF server, WireOrder, TextOrder, HistOrder
<1>6. ASSUME NEW r \in Requests, Read(r) PROVE OrderInv'
  <2>1. PICK n \in 0..Len(wire[r]) :
          /\ page' = Shown(SubSeq(wire[r], 1, n))
          /\ wire' = [wire EXCEPT ![r] = SubSeq(@, n + 1, Len(@))]
    BY <1>6 DEF Read
  <2>2. UNCHANGED <<gen, said, hist>> BY <1>6 DEF Read
  <2>3. TextOrder' BY <2>1, <2>2, ReadOrder
  <2>4. /\ wire' \in [Requests -> Seq(Pieces)] /\ Len(wire'[r]) = Len(wire[r]) - n
        /\ \A i \in 1..(Len(wire[r]) - n) : wire'[r][i] = wire[r][n + i]
        /\ \A q \in Requests \ {r} : wire'[q] = wire[q]
    BY <2>1, ReadType
  <2>5. WireOrder' BY <2>2, <2>4, WireShorter
  <2>6. \A s \in Seq(Pieces) : Behind(s) => Behind(s)' BY <2>2, <2>4, BehindShorter
  <2>7. HistOrder' BY <1>0, <2>2, <2>6 DEF HistOrder
  <2> QED BY <2>3, <2>5, <2>7
<1>7. ASSUME NEW r \in Requests, Complete(r) PROVE OrderInv'
  <2>1. page'.text = page.text /\ UNCHANGED <<said, wire>>
    BY <1>7, ResetType DEF Complete, server, Page
  <2>2. TextOrder' /\ WireOrder' BY <2>1, BehindSame DEF TextOrder, WireOrder
  <2>3. ASSUME NEW i \in DOMAIN hist' PROVE InOrder(hist'[i].text) /\ Behind(hist'[i].text)
    <3>1. CASE hist' = hist BY <3>1 DEF HistOrder
    <3>2. CASE hist' = Saved(r)
      <4>1. i \in 1..Len(Saved(r)) BY <3>2, SavedType
      <4>2. CASE i = 1
        <5>0. hist'[i] = NewEntry(r) BY <3>2, <4>1, <4>2, SavedType
        <5>1. hist'[i].text = Slice(page.text, SaveLimit) BY <5>0 DEF NewEntry
        <5>2. InOrder(page.text) /\ Behind(page.text) BY DEF TextOrder
        <5> QED BY <5>1, <5>2, SliceOrder
      <4>3. CASE i # 1
        <5>1. i - 1 \in DOMAIN hist
          <6>1. hist \in Seq(Entry) BY DEF TypeOK
          <6> QED BY <6>1, <4>1, <4>3, SavedType
        <5>2. hist'[i] = hist[i - 1] BY <3>2, <4>1, <4>3, SavedType
        <5> QED BY <5>1, <5>2 DEF HistOrder
      <4> QED BY <4>2, <4>3
    <3> QED BY <1>7, <3>1, <3>2 DEF Complete
  <2>4. HistOrder' BY <2>1, <2>3, BehindSame DEF HistOrder
  <2> QED BY <2>2, <2>4
<1>8. ASSUME NEW m \in Modes, SetMode(m) PROVE OrderInv'
  <2>1. UNCHANGED <<said, wire, hist>> /\ page'.text = page.text
    BY <1>8 DEF SetMode, server, TypeOK, Page
  <2> QED BY <2>1, BehindSame DEF WireOrder, TextOrder, HistOrder
<1>9. ASSUME NEW i \in DOMAIN hist, OpenEntry(i) PROVE OrderInv'
  <2>1. UNCHANGED <<said, wire, hist>> /\ page'.text = hist[i].text
    BY <1>9 DEF OpenEntry, server, TypeOK, Page
  <2> QED BY <2>1, BehindSame DEF WireOrder, TextOrder, HistOrder
<1>10. CASE Forget
  <2>1. UNCHANGED <<said, wire, page>> BY <1>10 DEF Forget, server
  <2>2. ASSUME NEW j \in DOMAIN hist' PROVE \E i \in DOMAIN hist : hist'[j] = hist[i]
    <3>1. ASSUME NEW i \in DOMAIN hist, hist' = RemoveAt(hist, i)
          PROVE  \E k \in DOMAIN hist : hist'[j] = hist[k]
      <4>1. hist \in Seq(Entry) /\ DOMAIN hist = 1..Len(hist) BY DEF TypeOK
      <4>2. j \in 1..(Len(hist) - 1)
        <5>1. hist' \in Seq(Entry) /\ Len(hist') = Len(hist) - 1 BY <3>1, <4>1, RemoveType
        <5> QED BY <5>1
      <4>3. hist'[j] = hist[IF j < i THEN j ELSE j + 1] BY <3>1, <4>1, <4>2, RemoveType
      <4> QED BY <4>1, <4>2, <4>3
    <3> QED BY <1>10, <3>1 DEF Forget
  <2>3. HistOrder' BY <2>1, <2>2, BehindSame DEF HistOrder
  <2> QED BY <2>1, <2>3, BehindSame DEF WireOrder, TextOrder
<1>11. CASE Reload
  <2>1. \A q \in Requests : wire'[q] = wire[q] \/ wire'[q] = <<>>
    BY <1>11 DEF Reload, TypeOK
  <2>2. UNCHANGED <<said, hist>> /\ page'.text = <<>> BY <1>11 DEF Reload, EmptyPage
  <2>3. \A s \in Seq(Pieces) : Behind(s) => Behind(s)' BY <2>1, <2>2, BehindEmptied
  <2>4. WireOrder' BY <2>1, <2>2, NothingBehind DEF WireOrder
  <2>5. Behind(<<>>)' BY DEF Behind
  <2>6. TextOrder' BY <2>2, <2>5, NothingBehind DEF TextOrder
  <2> QED BY <1>0, <2>2, <2>3, <2>4, <2>6 DEF HistOrder
<1>12. CASE UNCHANGED vars
  BY <1>12, BehindSame DEF vars, WireOrder, TextOrder, HistOrder
<1> QED
  BY <1>1, <1>2, <1>3, <1>4, <1>5, <1>6, <1>7, <1>8, <1>9, <1>10, <1>11, <1>12
  DEF Next, RequestStep, Refuse, ReadRejects

\* No piece is shown twice, nor out of order, whatever the user does.
THEOREM NeverTwice == Spec => []NoPieceTwice
<1>1. OrderInv => NoPieceTwice BY DEF OrderInv, TextOrder, InOrder, NoPieceTwice
<1> QED BY TypeInit, TypeNext, OrderInit, OrderNext, <1>1, PTL DEF Spec

--------------------------------------------------------------------------------
(* The requests that run, and the button *)

\* How each step changes the set of running requests.
LEMMA RunningStart ==
  ASSUME TypeOK, NEW r \in Requests, Start(r)
  PROVE  /\ Running' = Running \cup {r} /\ r \notin Running
         /\ reader'[r].pc = "fetching" /\ reader'[r].label = page.label
         /\ reader'[r].mode = page.mode /\ (reader'[r].quiet => Running = {})
         /\ \A q \in Requests \ {r} : reader'[q] = Interfere[q]
<1>1. /\ reader'[r] = [pc |-> "fetching", half |-> FALSE, label |-> page.label,
                        mode |-> page.mode, quiet |-> Running = {}]
      /\ \A q \in Requests \ {r} : reader'[q] = Interfere[q]
  <2>1. Interfere \in [Requests -> Reader] BY InterfereType
  <2> QED BY <2>1 DEF Start
<1>2. \A q \in Requests \ {r} : reader'[q].pc = reader[q].pc BY <1>1, InterfereType
<1>3. /\ reader'[r].pc = "fetching" /\ reader'[r].label = page.label
      /\ reader'[r].mode = page.mode /\ (reader'[r].quiet => Running = {})
  <2>1. PICK alone : alone = (Running = {}) OBVIOUS
  <2>2. reader'[r] = [pc |-> "fetching", half |-> FALSE, label |-> page.label,
                      mode |-> page.mode, quiet |-> alone]
    BY <1>1, <2>1
  <2>3. reader'[r].quiet = alone BY <2>2
  <2>4. reader'[r].quiet => Running = {} BY <2>1, <2>3
  <2> QED BY <2>2, <2>4
<1>4. reader[r].pc = "new" BY DEF Start
<1>5. Running' = Running \cup {r} /\ r \notin Running BY <1>2, <1>3, <1>4 DEF Running
<1> QED BY <1>1, <1>3, <1>5

LEMMA RunningSame ==
  ASSUME \A q \in Requests : reader'[q].pc = reader[q].pc
  PROVE  Running' = Running
BY DEF Running

LEMMA RunningEnds ==
  ASSUME NEW r \in Requests, r \in Running, reader'[r].pc = "over",
         \A q \in Requests \ {r} : reader'[q] = reader[q]
  PROVE  Running' = Running \ {r}
BY DEF Running

\* The other ways the phases of the requests can change.
LEMMA ReaderAccept ==
  ASSUME TypeOK, NEW r \in Requests, Accept(r)
  PROVE  /\ reader'[r].pc = "reading" /\ reader[r].pc = "fetching"
         /\ reader'[r].label = reader[r].label /\ reader'[r].mode = reader[r].mode
         /\ reader'[r].quiet = reader[r].quiet
         /\ \A q \in Requests \ {r} : reader'[q] = reader[q]
         /\ Running' = Running
<1>1. /\ reader'[r].pc = "reading" /\ reader[r].pc = "fetching"
      /\ reader'[r].label = reader[r].label /\ reader'[r].mode = reader[r].mode
      /\ reader'[r].quiet = reader[r].quiet
      /\ \A q \in Requests \ {r} : reader'[q] = reader[q]
  BY DEF Accept, TypeOK, Reader
<1> QED BY <1>1 DEF Running

LEMMA ReaderHalf ==
  ASSUME TypeOK, NEW r \in Requests, NEW half, reader' = [reader EXCEPT ![r].half = half]
  PROVE  /\ \A q \in Requests : /\ reader'[q].pc = reader[q].pc
                                /\ reader'[q].label = reader[q].label
                                /\ reader'[q].mode = reader[q].mode
                                /\ reader'[q].quiet = reader[q].quiet
         /\ Running' = Running
<1>1. \A q \in Requests : /\ reader'[q].pc = reader[q].pc
                          /\ reader'[q].label = reader[q].label
                          /\ reader'[q].mode = reader[q].mode
                          /\ reader'[q].quiet = reader[q].quiet
  BY DEF TypeOK, Reader
<1> QED BY <1>1, RunningSame

LEMMA ReaderOver ==
  ASSUME TypeOK, NEW r \in Requests, Complete(r) \/ ReadRejects(r) \/ Refuse(r)
  PROVE  /\ reader'[r].pc = "over" /\ r \in Running
         /\ \A q \in Requests \ {r} : reader'[q] = reader[q]
         /\ Running' = Running \ {r}
<1>1. /\ reader'[r].pc = "over" /\ \A q \in Requests \ {r} : reader'[q] = reader[q]
  BY DEF Complete, ReadRejects, Refuse, Fail, TypeOK, Reader
<1>2. r \in Running BY DEF Complete, ReadRejects, Refuse, Running
<1> QED BY <1>1, <1>2, RunningEnds

LEMMA ReaderReload ==
  ASSUME TypeOK, Reload
  PROVE  /\ Running' = {}
         /\ \A q \in Requests : q \notin Running => reader'[q] = reader[q]
         /\ \A q \in Running : reader'[q].pc = "over"
<1>1. /\ \A q \in Requests : q \notin Running => reader'[q] = reader[q]
      /\ \A q \in Running : reader'[q].pc = "over"
  BY DEF Reload, TypeOK, Reader, Running
<1> QED BY <1>1 DEF Running

\* While a request has the button its label is kept by the request, unless it
\* was mixed up.
Button ==
  /\ page.generating => Running # {}
  /\ ~mixed => \/ Running = {} /\ page.label = page.mode
               \/ \E r \in Requests : Running = {r} /\ reader[r].label = page.mode

LEMMA ButtonInit == Init => Button
BY DEF Init, Button, Running, EmptyPage

LEMMA ButtonNext == TypeOK /\ Button /\ [Next]_vars => Button'
<1> SUFFICES ASSUME TypeOK, Button, [Next]_vars PROVE Button' OBVIOUS
<1> USE DEF Button
<1>0. page \in Page BY DEF TypeOK
<1>1. ASSUME Running' = Running, \A q \in Requests : reader'[q].label = reader[q].label,
             UNCHANGED <<page, mixed>>
      PROVE  Button'
  BY <1>1
<1>2. ASSUME NEW r \in Requests, NEW e \in Events, ProviderEvent(r, e) PROVE Button'
  BY <1>2, <1>1, RunningSame DEF ProviderEvent
<1>3. ASSUME NEW r \in Requests, Break(r) PROVE Button'
  BY <1>3, <1>1, ReaderHalf DEF Break
<1>4. ASSUME NEW r \in Requests, Start(r) PROVE Button'
  <2>1. page'.mode = page.mode /\ mixed' = (mixed \/ Running # {}) BY <1>0, <1>4 DEF Start, Page
  <2>2. Running' = Running \cup {r} /\ reader'[r].label = page.label BY <1>4, RunningStart
  <2> QED BY <2>1, <2>2
<1>5. ASSUME NEW r \in Requests, Accept(r) PROVE Button'
  BY <1>5, <1>1, ReaderAccept DEF Accept
<1>6. ASSUME NEW r \in Requests, Refuse(r) \/ ReadRejects(r) \/ Complete(r) PROVE Button'
  <2>1. page'.mode = page.mode /\ page'.label = reader[r].label /\ ~page'.generating
    BY <1>6, FailType, ResetType, ZenonT(40) DEF Refuse, ReadRejects, Complete, Page
  <2>2. UNCHANGED mixed BY <1>6 DEF Refuse, ReadRejects, Complete
  <2>3. r \in Running /\ Running' = Running \ {r} BY <1>6, ReaderOver
  <2> QED BY <2>1, <2>2, <2>3
<1>7. ASSUME NEW r \in Requests, Read(r) PROVE Button'
  <2>1. PICK n \in 0..Len(wire[r]), half \in BOOLEAN :
          /\ page' = Shown(SubSeq(wire[r], 1, n))
          /\ wire' = [wire EXCEPT ![r] = SubSeq(@, n + 1, Len(@))]
          /\ reader' = [reader EXCEPT ![r].half = half]
    BY <1>7 DEF Read
  <2>2. page'.mode = page.mode /\ page'.label = page.label /\ page'.generating = page.generating
    BY <2>1, ReadType
  <2>3. Running' = Running /\ \A q \in Requests : reader'[q].label = reader[q].label
    BY <2>1, ReaderHalf
  <2> QED BY <1>7, <2>2, <2>3 DEF Read
<1>8. ASSUME NEW m \in Modes, page'.mode = m, page'.label = m,
             page'.generating = page.generating, reader' = Interfere,
             mixed' = (Running # {})
      PROVE  Button'
  <2>1. Running' = Running BY <1>8, InterfereType, RunningSame
  <2> QED BY <1>8, <2>1
<1>9. ASSUME NEW m \in Modes, SetMode(m) PROVE Button'
  <2>1. page'.mode = m /\ page'.label = m /\ page'.generating = page.generating
    BY <1>0, <1>9 DEF SetMode, Page
  <2> QED BY <1>8, <1>9, <2>1 DEF SetMode
<1>10. ASSUME NEW i \in DOMAIN hist, OpenEntry(i) PROVE Button'
  <2>0. hist[i] \in Entry BY DEF TypeOK
  <2>1. hist[i].mode \in Modes BY <2>0 DEF Entry
  <2>2. /\ page'.mode = hist[i].mode /\ page'.label = hist[i].mode
        /\ page'.generating = page.generating
    BY <1>0, <1>10 DEF OpenEntry, Page
  <2> QED BY <1>8, <1>10, <2>1, <2>2 DEF OpenEntry
<1>11. CASE Forget BY <1>11, <1>1, RunningSame DEF Forget
<1>12. CASE Reload
  <2>1. Running' = {} BY <1>12, ReaderReload
  <2> QED BY <1>12, <2>1 DEF Reload, EmptyPage
<1>13. CASE UNCHANGED vars BY <1>13, <1>1, RunningSame DEF vars
<1> QED
  BY <1>2, <1>3, <1>4, <1>5, <1>6, <1>7, <1>9, <1>10, <1>11, <1>12, <1>13
  DEF Next, RequestStep

\* The button comes back, for any number of requests.
THEOREM ButtonBack == Spec => []ButtonComesBack
<1>1. Button => ButtonComesBack BY DEF Button, ButtonComesBack
<1> QED BY TypeInit, TypeNext, ButtonInit, ButtonNext, <1>1, PTL DEF Spec

--------------------------------------------------------------------------------
(* What is saved *)

\* A request that has not been answered has nothing on its wire.
Fresh ==
  \A r \in Requests :
    reader[r].pc \in {"new", "fetching"} => gen[r] = "none" /\ said[r] = 0 /\ wire[r] = <<>>

\* The wire holds the pieces after the k-th, and, when the provider is done,
\* the last frame, if that has not been read as well.
Rest(r, k) ==
  /\ gen[r] # "none"
  /\ gen[r] = "broken" => wire[r] = <<>>
  /\ gen[r] = "running" =>
       /\ Len(wire[r]) = said[r] - k
       /\ \A i \in 1..Len(wire[r]) : wire[r][i] = Piece(r, "content", k + i)
  /\ gen[r] = "ended" =>
       \/ k = said[r] /\ wire[r] = <<>>
       \/ /\ Len(wire[r]) = said[r] - k + 1
          /\ \A i \in 1..Len(wire[r]) :
               IF i < Len(wire[r]) THEN wire[r][i] = Piece(r, "content", k + i)
                                   ELSE wire[r][i].kind \in {"done", "error"}

\* The text area holds the first pieces of r, and nothing else.
Begun(r) ==
  /\ \A i \in 1..Len(page.text) : page.text[i] = Piece(r, "content", i)
  /\ Len(page.text) <= said[r]
  /\ reader[r].pc = "reading" => Rest(r, Len(page.text))

\* A request the user lets alone is alone, and what it has shown and what it
\* has yet to read make up what was said.
Alone ==
  \A r \in Running : reader[r].quiet =>
    /\ Running = {r}
    /\ page.mode = reader[r].mode
    /\ page.tag # "Error" => Begun(r)

\* What was saved stays what was sent: nothing more is said.
Stored ==
  \A i \in DOMAIN hist : hist[i].quiet =>
    /\ hist[i].text = Sent(hist[i].of)
    /\ hist[i].mode = hist[i].asked
    /\ reader[hist[i].of].pc = "over"
    /\ gen[hist[i].of] = "ended"

SavedInv == Fresh /\ Alone /\ Stored

LEMMA SavedInit == Init => SavedInv
BY DEF Init, SavedInv, Fresh, Alone, Stored, Running

LEMMA FreshNext == TypeOK /\ Fresh /\ [Next]_vars => Fresh'
<1> SUFFICES ASSUME TypeOK, Fresh, [Next]_vars, NEW q \in Requests,
                    reader'[q].pc \in {"new", "fetching"}
             PROVE  gen'[q] = "none" /\ said'[q] = 0 /\ wire'[q] = <<>>
  BY DEF Fresh
<1>0. reader[q].pc \in {"new", "fetching"} => gen[q] = "none" /\ said[q] = 0 /\ wire[q] = <<>>
  BY DEF Fresh
<1>1. ASSUME NEW r \in Requests, NEW e \in Events, ProviderEvent(r, e)
      PROVE  gen'[q] = "none" /\ said'[q] = 0 /\ wire'[q] = <<>>
  <2>1. reader' = reader /\ gen[r] = "running" BY <1>1 DEF ProviderEvent
  <2>2. q # r BY <1>0, <2>1
  <2> QED BY <1>0, <1>1, <2>1, <2>2 DEF ProviderEvent, Yield, server, TypeOK
<1>2. ASSUME NEW r \in Requests, Break(r)
      PROVE  gen'[q] = "none" /\ said'[q] = 0 /\ wire'[q] = <<>>
  <2>1. reader'[q].pc = reader[q].pc BY <1>2, ReaderHalf DEF Break
  <2>2. q # r BY <1>2, <2>1 DEF Break
  <2> QED BY <1>0, <1>2, <2>1, <2>2 DEF Break, TypeOK
<1>3. ASSUME NEW r \in Requests, Start(r)
      PROVE  gen'[q] = "none" /\ said'[q] = 0 /\ wire'[q] = <<>>
  <2>1. reader[q].pc \in {"new", "fetching"}
    <3>1. CASE q = r BY <1>3, <3>1 DEF Start
    <3>2. CASE q # r BY <1>3, <3>2, RunningStart, InterfereType
    <3> QED BY <3>1, <3>2
  <2> QED BY <1>0, <1>3, <2>1 DEF Start, server
<1>4. ASSUME NEW r \in Requests, Accept(r)
      PROVE  gen'[q] = "none" /\ said'[q] = 0 /\ wire'[q] = <<>>
  <2>1. q # r BY <1>4, ReaderAccept
  <2> QED BY <1>0, <1>4, <2>1, ReaderAccept DEF Accept, TypeOK
<1>5. ASSUME NEW r \in Requests, Refuse(r) \/ ReadRejects(r) \/ Complete(r)
      PROVE  gen'[q] = "none" /\ said'[q] = 0 /\ wire'[q] = <<>>
  <2>1. q # r /\ reader'[q] = reader[q] BY <1>5, ReaderOver
  <2> QED BY <1>0, <1>5, <2>1 DEF Refuse, ReadRejects, Complete, server
<1>6. ASSUME NEW r \in Requests, Read(r)
      PROVE  gen'[q] = "none" /\ said'[q] = 0 /\ wire'[q] = <<>>
  <2>1. reader'[q].pc = reader[q].pc BY <1>6, ReaderHalf DEF Read
  <2>2. q # r BY <1>6, <2>1 DEF Read
  <2> QED BY <1>0, <1>6, <2>1, <2>2 DEF Read, TypeOK
<1>7. ASSUME reader' = Interfere, UNCHANGED server
      PROVE  gen'[q] = "none" /\ said'[q] = 0 /\ wire'[q] = <<>>
  BY <1>0, <1>7, InterfereType DEF server
<1>8. CASE Forget BY <1>0, <1>8 DEF Forget, server
<1>9. CASE Reload
  <2>1. q \notin Running /\ reader'[q] = reader[q] BY <1>9, ReaderReload
  <2> QED BY <1>0, <1>9, <2>1 DEF Reload, TypeOK
<1>10. CASE UNCHANGED vars BY <1>0, <1>10 DEF vars
<1> QED
  BY <1>1, <1>2, <1>3, <1>4, <1>5, <1>6, <1>7, <1>8, <1>9, <1>10
  DEF Next, RequestStep, SetMode, OpenEntry

LEMMA ContentKind ==
  \A r, n : Piece(r, "content", n).kind # "done"
BY DEF Piece

LEMMA Shift ==
  ASSUME NEW L \in Nat, NEW n \in 0..L, NEW k \in Nat, NEW i \in 1..(L - n)
  PROVE  /\ n + i \in 1..L
         /\ k + (n + i) = (k + n) + i
         /\ i < L - n <=> n + i < L
OBVIOUS

\* Reading takes the text from one prefix of what was said to a longer one.
LEMMA ReadBegun ==
  ASSUME TypeOK, NEW r \in Requests, NEW n \in 0..Len(wire[r]), UNCHANGED <<gen, said>>,
         page' = Shown(SubSeq(wire[r], 1, n)),
         wire' = [wire EXCEPT ![r] = SubSeq(@, n + 1, Len(@))],
         page.tag # "Error" => Begun(r),
         reader[r].pc = "reading", page'.tag # "Error"
  PROVE  page.tag # "Error" /\ Begun(r)'
<1>1. PICK f, t, v, u : /\ f = SubSeq(wire[r], 1, n) /\ t = page.text /\ v = Visible(f)
                        /\ u = page'.text
  OBVIOUS
<1>2. wire[r] \in Seq(Pieces) /\ t \in Seq(Pieces) BY <1>1, TextTypes DEF TypeOK
<1>3. f \in Seq(Pieces) /\ Len(f) = n /\ \A i \in 1..n : f[i] = wire[r][i]
  BY <1>1, <1>2, PrefixType
<1>4. /\ v \in Seq(Pieces) /\ Len(v) \in {n, n - 1} /\ \A i \in 1..Len(v) : v[i] = f[i]
      /\ Len(v) \in Nat
  <2>1. /\ v \in Seq(Pieces) /\ Len(v) \in {Len(f), Len(f) - 1}
        /\ \A i \in 1..Len(v) : v[i] = f[i]
    BY <1>1, <1>3, VisibleType
  <2> QED BY <2>1, <1>3
<1>5. /\ Len(wire'[r]) = Len(wire[r]) - n
      /\ \A i \in 1..(Len(wire[r]) - n) : wire'[r][i] = wire[r][n + i]
      /\ u = t \o v /\ wire'[r] \in Seq(Pieces)
  BY <1>1, ReadType
<1>6. u \in Seq(Pieces) /\ Len(u) = Len(t) + Len(v)
      /\ \A i \in 1..Len(u) : u[i] = IF i <= Len(t) THEN t[i] ELSE v[i - Len(t)]
  BY <1>2, <1>4, <1>5, ConcatProperties
<1>7. page.tag # "Error" /\ \A i \in 1..Len(v) : v[i].kind # "error"
  BY <1>1, <1>3, ShownType
<1>8. /\ \A i \in 1..Len(t) : t[i] = Piece(r, "content", i)
      /\ Len(t) <= said[r] /\ Rest(r, Len(t))
  BY <1>1, <1>7 DEF Begun
<1>9. said[r] \in Nat /\ Len(t) \in Nat /\ n \in Nat /\ Len(wire[r]) \in Nat /\ n <= Len(wire[r])
  BY <1>2 DEF TypeOK
<1>10. n = 0 => v = f
  <2>1. n = 0 => f = <<>> BY <1>3, EmptySeq
  <2> QED BY <2>1, <1>1 DEF Visible
<1>11. (n > 0 /\ wire[r][n].kind # "done") => v = f
  <2>1. n > 0 => f[Len(f)] = wire[r][n] BY <1>3, <1>9
  <2> QED BY <1>1, <2>1 DEF Visible
<1>12. (n > 0 /\ wire[r][n].kind = "done") => Len(v) = n - 1
  <2>1. n > 0 => f # <<>> /\ f[Len(f)] = wire[r][n] /\ n - 1 \in 0..Len(f) BY <1>3, <1>9, EmptySeq
  <2>2. SUFFICES ASSUME n > 0, wire[r][n].kind = "done" PROVE Len(v) = n - 1 OBVIOUS
  <2>3. v = SubSeq(f, 1, Len(f) - 1) BY <1>1, <2>1, <2>2 DEF Visible
  <2> QED BY <1>3, <2>1, <2>2, <2>3, PrefixType
\* What is shown is content up to its number.
<1>13. ASSUME \A i \in 1..Len(v) : wire[r][i] = Piece(r, "content", Len(t) + i)
       PROVE  \A i \in 1..Len(u) : u[i] = Piece(r, "content", i)
  <2> SUFFICES ASSUME NEW i \in 1..Len(u) PROVE u[i] = Piece(r, "content", i) OBVIOUS
  <2>1. CASE i <= Len(t) BY <2>1, <1>6, <1>8
  <2>2. CASE ~(i <= Len(t))
    <3>1. i - Len(t) \in 1..Len(v) /\ i - Len(t) \in 1..n /\ Len(t) + (i - Len(t)) = i
      BY <2>2, <1>4, <1>6, <1>9
    <3>2. v[i - Len(t)] = wire[r][i - Len(t)] BY <3>1, <1>3, <1>4
    <3>3. u[i] = v[i - Len(t)] BY <2>2, <1>6
    <3>4. wire[r][i - Len(t)] = Piece(r, "content", Len(t) + (i - Len(t))) BY <3>1, <1>13
    <3> QED BY <3>1, <3>2, <3>3, <3>4
  <2> QED BY <2>1, <2>2
<1>14. SUFFICES /\ \A i \in 1..Len(u) : u[i] = Piece(r, "content", i)
                /\ Len(u) <= said[r]
                /\ Rest(r, Len(u))'
  BY <1>1, <1>7 DEF Begun
<1>15. CASE gen[r] = "running"
  <2>1. /\ Len(wire[r]) = said[r] - Len(t)
        /\ \A i \in 1..Len(wire[r]) : wire[r][i] = Piece(r, "content", Len(t) + i)
    BY <1>8, <1>15 DEF Rest
  <2>2. n > 0 => wire[r][n].kind # "done"
    <3>1. n > 0 => n \in 1..Len(wire[r]) BY <1>9
    <3>2. n > 0 => wire[r][n] = Piece(r, "content", Len(t) + n) BY <2>1, <3>1
    <3> QED BY <3>2, ContentKind
  <2>3. v = f /\ Len(v) = n BY <2>2, <1>3, <1>9, <1>10, <1>11
  <2>4. \A i \in 1..Len(u) : u[i] = Piece(r, "content", i) BY <2>1, <2>3, <1>9, <1>13
  <2>5. Len(u) = Len(t) + n /\ Len(u) <= said[r] BY <2>1, <2>3, <1>6, <1>9
  <2>6. Len(wire'[r]) = said[r] - Len(u) BY <2>1, <2>5, <1>5, <1>9
  <2>7. ASSUME NEW i \in 1..Len(wire'[r]) PROVE wire'[r][i] = Piece(r, "content", Len(u) + i)
    <3>1. n + i \in 1..Len(wire[r]) /\ i \in 1..(Len(wire[r]) - n) /\ Len(t) + (n + i) = Len(u) + i
      <4>1. i \in 1..(Len(wire[r]) - n) BY <1>5
      <4> QED BY <4>1, <2>5, <1>9, Shift
    <3>2. wire[r][n + i] = Piece(r, "content", Len(t) + (n + i)) BY <2>1, <3>1
    <3> QED BY <3>1, <3>2, <1>5
  <2> QED BY <2>4, <2>5, <2>6, <2>7, <1>15 DEF Rest
<1>16. CASE gen[r] = "ended" /\ Len(t) = said[r] /\ wire[r] = <<>>
  <2>1. n = 0 /\ Len(v) = 0 /\ Len(u) = said[r]
    BY <1>3, <1>6, <1>9, <1>10, <1>16, EmptySeq
  <2>2. wire'[r] = <<>> BY <2>1, <1>5, <1>16, EmptySeq
  <2>3. \A i \in 1..Len(u) : u[i] = Piece(r, "content", i) BY <2>1, <1>13
  <2> QED BY <2>1, <2>2, <2>3, <1>9, <1>16 DEF Rest
<1>17. CASE /\ gen[r] = "ended" /\ Len(wire[r]) = said[r] - Len(t) + 1
            /\ \A i \in 1..Len(wire[r]) :
                 IF i < Len(wire[r]) THEN wire[r][i] = Piece(r, "content", Len(t) + i)
                                     ELSE wire[r][i].kind \in {"done", "error"}
  <2>1. CASE n < Len(wire[r])
    <3>0. \A i \in 1..n : i \in 1..Len(wire[r]) /\ i < Len(wire[r]) BY <2>1, <1>9
    <3>1. n > 0 => wire[r][n].kind # "done"
      <4>1. n > 0 => n \in 1..n BY <1>9
      <4>2. n > 0 => wire[r][n] = Piece(r, "content", Len(t) + n) BY <4>1, <3>0, <1>17
      <4> QED BY <4>2, ContentKind
    <3>2. v = f /\ Len(v) = n BY <3>1, <1>3, <1>9, <1>10, <1>11
    <3>3. \A i \in 1..n : wire[r][i] = Piece(r, "content", Len(t) + i) BY <3>0, <1>17
    <3>4. \A i \in 1..Len(u) : u[i] = Piece(r, "content", i) BY <3>2, <3>3, <1>13
    <3>5. Len(u) = Len(t) + n /\ Len(u) <= said[r] BY <2>1, <3>2, <1>6, <1>9, <1>17
    <3>6. Len(wire'[r]) = said[r] - Len(u) + 1 BY <3>5, <1>5, <1>9, <1>17
    <3>7. ASSUME NEW i \in 1..Len(wire'[r])
          PROVE  IF i < Len(wire'[r]) THEN wire'[r][i] = Piece(r, "content", Len(u) + i)
                                      ELSE wire'[r][i].kind \in {"done", "error"}
      <4>1. /\ n + i \in 1..Len(wire[r]) /\ i \in 1..(Len(wire[r]) - n)
            /\ Len(t) + (n + i) = Len(u) + i
            /\ i < Len(wire'[r]) <=> n + i < Len(wire[r])
        <5>1. i \in 1..(Len(wire[r]) - n) BY <1>5
        <5> QED BY <5>1, <3>5, <1>5, <1>9, Shift
      <4>2. wire'[r][i] = wire[r][n + i] BY <4>1, <1>5
      <4>3. IF n + i < Len(wire[r]) THEN wire[r][n + i] = Piece(r, "content", Len(t) + (n + i))
                                    ELSE wire[r][n + i].kind \in {"done", "error"}
        BY <4>1, <1>17
      <4> QED BY <4>1, <4>2, <4>3
    <3>8. Rest(r, Len(u))' BY <3>6, <3>7, <1>17 DEF Rest
    <3> QED BY <3>4, <3>5, <3>8
  <2>2. CASE n = Len(wire[r])
    <3>1. n > 0 /\ n \in 1..Len(wire[r]) BY <2>2, <1>8, <1>9, <1>17
    <3>2. wire[r][n].kind \in {"done", "error"}
      <4>1. ~(n < Len(wire[r])) BY <2>2, <1>9
      <4> QED BY <3>1, <4>1, <1>17
    <3>3. wire[r][n].kind = "done"
      <4>1. SUFFICES ASSUME wire[r][n].kind # "done" PROVE FALSE OBVIOUS
      <4>2. v = f /\ Len(v) = n BY <3>1, <4>1, <1>3, <1>11
      <4>3. v[n] = wire[r][n] BY <3>1, <4>2, <1>3
      <4> QED BY <3>1, <3>2, <4>1, <4>2, <4>3, <1>7
    <3>4. Len(v) = n - 1 BY <3>1, <3>3, <1>12
    <3>5. \A i \in 1..(n - 1) : wire[r][i] = Piece(r, "content", Len(t) + i)
      <4>1. \A i \in 1..(n - 1) : i \in 1..Len(wire[r]) /\ i < Len(wire[r]) BY <2>2, <1>9
      <4> QED BY <4>1, <1>17
    <3>6. \A i \in 1..Len(u) : u[i] = Piece(r, "content", i) BY <3>4, <3>5, <1>13
    <3>7. Len(u) = said[r] BY <2>2, <3>4, <1>6, <1>9, <1>17
    <3>8. wire'[r] = <<>> BY <2>2, <1>5, <1>9, EmptySeq
    <3> QED BY <3>6, <3>7, <3>8, <1>9, <1>17 DEF Rest
  <2> QED BY <2>1, <2>2, <1>9
<1>18. CASE gen[r] = "broken"
  <2>1. wire[r] = <<>> BY <1>8, <1>18 DEF Rest
  <2>2. n = 0 /\ Len(v) = 0 /\ Len(u) = Len(t)
    BY <2>1, <1>3, <1>6, <1>9, <1>10, EmptySeq
  <2>3. wire'[r] = <<>> BY <2>1, <2>2, <1>5, EmptySeq
  <2>4. \A i \in 1..Len(u) : u[i] = Piece(r, "content", i) BY <2>2, <1>13
  <2> QED BY <2>2, <2>3, <2>4, <1>8, <1>18 DEF Rest
<1>19. gen[r] \in {"running", "ended", "broken"} BY <1>8 DEF Rest, TypeOK
<1> QED BY <1>8, <1>15, <1>16, <1>17, <1>18, <1>19 DEF Rest


LEMMA AloneNext == TypeOK /\ Fresh /\ Alone /\ [Next]_vars => Alone'
<1> SUFFICES ASSUME TypeOK, Fresh, Alone, [Next]_vars,
                    NEW q \in Running', reader'[q].quiet
             PROVE  /\ Running' = {q}
                    /\ page'.mode = reader'[q].mode
                    /\ page'.tag # "Error" => Begun(q)'
  BY DEF Alone
<1> DEFINE Goal == /\ Running' = {q}
                   /\ page'.mode = reader'[q].mode
                   /\ page'.tag # "Error" => Begun(q)'
<1>0. q \in Requests /\ page \in Page BY DEF Running, TypeOK
<1>1. ASSUME q \in Running, reader[q].quiet
      PROVE  /\ Running = {q} /\ page.mode = reader[q].mode
             /\ page.tag # "Error" => Begun(q)
  BY <1>1 DEF Alone
<1>2. ASSUME NEW r \in Requests, NEW e \in Events, ProviderEvent(r, e) PROVE Goal
  <2>1. UNCHANGED <<reader, page>> /\ gen[r] = "running" BY <1>2 DEF ProviderEvent
  <2>2. Running' = Running BY <2>1 DEF Running
  <2>3. Running = {q} /\ page.mode = reader[q].mode /\ (page.tag # "Error" => Begun(q))
    BY <1>1, <2>1, <2>2
  <2>4. CASE r # q
    <3>1. gen'[q] = gen[q] /\ said'[q] = said[q] /\ wire'[q] = wire[q]
      BY <1>0, <1>2, <2>4 DEF ProviderEvent, Yield, server, TypeOK
    <3> QED BY <2>1, <2>2, <2>3, <3>1 DEF Begun, Rest
  <2>5. CASE r = q
    <3>1. reader[q].pc = "reading"
      BY <2>1, <2>3, <2>5 DEF Fresh, Running
    <3>2. SUFFICES ASSUME page.tag # "Error" PROVE Begun(q)' BY <2>1, <2>2, <2>3
    <3>3. PICK k : k = Len(page.text) OBVIOUS
    <3>4. /\ \A i \in 1..k : page.text[i] = Piece(q, "content", i)
          /\ k <= said[q] /\ Len(wire[q]) = said[q] - k
          /\ \A i \in 1..Len(wire[q]) : wire[q][i] = Piece(q, "content", k + i)
      BY <2>1, <2>3, <2>5, <3>1, <3>2, <3>3 DEF Begun, Rest
    <3>5. k \in Nat /\ said[q] \in Nat /\ Len(wire[q]) \in Nat
      <4>1. page.text \in Seq(Pieces) /\ wire[q] \in Seq(Pieces)
        BY <1>0, TextTypes DEF TypeOK
      <4> QED BY <1>0, <3>3, <4>1 DEF TypeOK
    <3>6. CASE /\ said' = [said EXCEPT ![r] = @ + 1] /\ Yield(r, "content", said[r] + 1)
               /\ UNCHANGED gen
      <4>1. said[r] + 1 \in Nat /\ said'[q] = said[q] + 1
        BY <2>5, <3>5, <3>6 DEF TypeOK
      <4>2. /\ Len(wire'[q]) = Len(wire[q]) + 1
            /\ \A i \in 1..Len(wire[q]) : wire'[q][i] = wire[q][i]
            /\ wire'[q][Len(wire[q]) + 1] = Piece(q, "content", said[q] + 1)
        BY <2>5, <3>6, <4>1, AppendType
      <4>3. Len(wire'[q]) = said'[q] - k /\ k + (Len(wire[q]) + 1) = said[q] + 1
        BY <3>4, <3>5, <4>1, <4>2
      <4>4. ASSUME NEW i \in 1..Len(wire'[q]) PROVE wire'[q][i] = Piece(q, "content", k + i)
        <5>1. CASE i \in 1..Len(wire[q]) BY <5>1, <3>4, <4>2
        <5>2. CASE i = Len(wire[q]) + 1 BY <5>2, <4>2, <4>3
        <5> QED BY <5>1, <5>2, <3>5, <4>2
      <4>5. gen'[q] = "running" BY <2>1, <2>5, <3>6
      <4>6. k <= said'[q] BY <3>4, <3>5, <4>1
      <4>7. Rest(q, k)' BY <4>3, <4>4, <4>5 DEF Rest
      <4> QED BY <2>1, <3>3, <3>4, <4>6, <4>7 DEF Begun
    <3>7. CASE /\ Yield(r, "done", 0) \/ Yield(r, "error", 0)
               /\ gen' = [gen EXCEPT ![r] = "ended"] /\ UNCHANGED said
      <4>1. PICK c \in {"done", "error"} : Yield(r, c, 0) BY <3>7
      <4>2. /\ Len(wire'[q]) = Len(wire[q]) + 1
            /\ \A i \in 1..Len(wire[q]) : wire'[q][i] = wire[q][i]
            /\ wire'[q][Len(wire[q]) + 1] = Piece(q, c, 0)
        BY <2>5, <4>1, AppendType
      <4>3. Len(wire'[q]) = said'[q] - k + 1 BY <3>4, <3>5, <3>7, <4>2
      <4>4. ASSUME NEW i \in 1..Len(wire'[q])
            PROVE  IF i < Len(wire'[q]) THEN wire'[q][i] = Piece(q, "content", k + i)
                                        ELSE wire'[q][i].kind \in {"done", "error"}
        <5>1. CASE i \in 1..Len(wire[q])
          <6>1. i < Len(wire'[q]) BY <5>1, <3>5, <4>2
          <6> QED BY <5>1, <6>1, <3>4, <4>2
        <5>2. CASE i = Len(wire[q]) + 1
          <6>1. ~(i < Len(wire'[q])) BY <5>2, <3>5, <4>2
          <6>2. wire'[q][i].kind = c BY <5>2, <4>2 DEF Piece
          <6> QED BY <6>1, <6>2, <4>1
        <5> QED BY <5>1, <5>2, <3>5, <4>2
      <4>5. gen'[q] = "ended" BY <1>0, <2>5, <3>7 DEF TypeOK
      <4>6. Rest(q, k)' BY <4>3, <4>4, <4>5 DEF Rest
      <4> QED BY <2>1, <3>3, <3>4, <3>7, <4>6 DEF Begun
    <3>8. CASE UNCHANGED server BY <2>1, <2>3, <3>2, <3>8 DEF server, Begun, Rest
    <3> QED BY <1>2, <3>6, <3>7, <3>8 DEF ProviderEvent
  <2> QED BY <2>4, <2>5
<1>3. ASSUME NEW r \in Requests, Break(r) PROVE Goal
  <2>1. /\ Running' = Running
        /\ \A p \in Requests : /\ reader'[p].pc = reader[p].pc /\ reader'[p].mode = reader[p].mode
                               /\ reader'[p].quiet = reader[p].quiet
    BY <1>3, ReaderHalf DEF Break
  <2>2. Running = {q} /\ page.mode = reader[q].mode /\ (page.tag # "Error" => Begun(q))
    BY <1>0, <1>1, <2>1
  <2>3. UNCHANGED <<said, page>> BY <1>3 DEF Break
  <2>4. r \in Running BY <1>3 DEF Break, Running
  <2>5. gen'[q] = "broken" /\ wire'[q] = <<>> BY <1>0, <1>3, <2>2, <2>4 DEF Break, TypeOK
  <2> QED BY <1>0, <2>1, <2>2, <2>3, <2>5 DEF Begun, Rest
<1>4. ASSUME NEW r \in Requests, Start(r) PROVE Goal
  <2>1. q = r
    <3>1. SUFFICES ASSUME q # r PROVE FALSE OBVIOUS
    <3> QED BY <1>0, <1>4, <3>1, RunningStart, InterfereType
  <2>2. Running' = {q} /\ page'.mode = reader'[q].mode
    BY <1>0, <1>4, <2>1, RunningStart DEF Start, Page
  <2>3. page'.text = <<>> /\ said'[q] = said[q] BY <1>0, <1>4 DEF Start, Page, server
  <2>4. reader'[q].pc = "fetching" BY <1>4, <2>1, RunningStart
  <2>5. Begun(q)'
    <3>1. Len(page'.text) = 0 /\ 0 <= said'[q] BY <1>0, <2>3 DEF TypeOK
    <3> QED BY <2>4, <3>1 DEF Begun
  <2> QED BY <2>2, <2>5
<1>5. ASSUME NEW r \in Requests, Accept(r) PROVE Goal
  <2>1. Running' = Running /\ r \in Running BY <1>5, ReaderAccept DEF Accept, Running
  <2>2. Running = {q} /\ page.mode = reader[q].mode /\ (page.tag # "Error" => Begun(q))
    <3>1. reader[q].quiet BY <1>0, <1>5, ReaderAccept
    <3> QED BY <1>1, <2>1, <3>1
  <2>3. q = r BY <2>1, <2>2
  <2>4. gen[q] = "none" /\ said[q] = 0 /\ wire[q] = <<>>
    BY <1>0, <1>5, <2>3 DEF Accept, Fresh
  <2>5. UNCHANGED <<said, wire, page>> /\ gen'[q] = "running" BY <1>0, <1>5, <2>3 DEF Accept, TypeOK
  <2>6. page'.tag # "Error" => Begun(q)'
    <3>1. SUFFICES ASSUME page.tag # "Error" PROVE Begun(q)' BY <2>5
    <3>2. Len(page.text) = 0
      <4>1. page.text \in Seq(Pieces) BY TextTypes
      <4>2. Len(page.text) \in Nat /\ Len(page.text) <= 0 BY <2>2, <2>4, <3>1, <4>1 DEF Begun
      <4> QED BY <4>2
    <3> QED BY <2>4, <2>5, <3>2 DEF Begun, Rest
  <2> QED BY <1>0, <1>5, <2>1, <2>2, <2>3, <2>5, <2>6, ReaderAccept
<1>6. ASSUME NEW r \in Requests, Refuse(r) \/ ReadRejects(r) \/ Complete(r) PROVE Goal
  <2>1. r \in Running /\ q \in Running /\ q # r /\ reader'[q] = reader[q]
    BY <1>0, <1>6, ReaderOver
  <2> QED BY <1>1, <2>1
<1>7. ASSUME NEW r \in Requests, Read(r) PROVE Goal
  <2>1. PICK n \in 0..Len(wire[r]), half \in BOOLEAN :
          /\ page' = Shown(SubSeq(wire[r], 1, n))
          /\ wire' = [wire EXCEPT ![r] = SubSeq(@, n + 1, Len(@))]
          /\ reader' = [reader EXCEPT ![r].half = half]
    BY <1>7 DEF Read
  <2>2. /\ Running' = Running
        /\ \A p \in Requests : /\ reader'[p].pc = reader[p].pc /\ reader'[p].mode = reader[p].mode
                               /\ reader'[p].quiet = reader[p].quiet
    BY <2>1, ReaderHalf
  <2>3. Running = {q} /\ page.mode = reader[q].mode /\ (page.tag # "Error" => Begun(q))
    BY <1>0, <1>1, <2>2
  <2>4. q = r BY <1>7, <2>3 DEF Read, Running
  <2>5. page'.mode = page.mode BY <2>1, ReadType
  <2>6. page'.tag # "Error" => Begun(q)' BY <1>7, <2>1, <2>3, <2>4, ReadBegun DEF Read
  <2> QED BY <1>0, <2>2, <2>3, <2>5, <2>6
<1>8. ASSUME reader' = Interfere PROVE Goal
  <2>1. Running' = Running BY <1>8, InterfereType, RunningSame
  <2> QED BY <1>0, <1>8, <2>1, InterfereType
<1>9. CASE Forget
  <2>1. UNCHANGED <<server, reader, page>> BY <1>9 DEF Forget
  <2>2. Running' = Running BY <2>1 DEF Running
  <2> QED BY <1>1, <2>1, <2>2 DEF server, Begun, Rest
<1>10. CASE Reload BY <1>10, ReaderReload
<1>11. CASE UNCHANGED vars
  <2>1. UNCHANGED <<server, reader, page>> BY <1>11 DEF vars, server
  <2>2. Running' = Running BY <2>1 DEF Running
  <2> QED BY <1>1, <2>1, <2>2 DEF server, Begun, Rest
<1> QED
  BY <1>2, <1>3, <1>4, <1>5, <1>6, <1>7, <1>8, <1>9, <1>10, <1>11
  DEF Next, RequestStep, SetMode, OpenEntry


\* Nothing happens to a request that is over and whose stream has ended.
LEMMA OverStays ==
  ASSUME TypeOK, [Next]_vars, NEW p \in Requests, reader[p].pc = "over", gen[p] = "ended"
  PROVE  reader'[p].pc = "over" /\ gen'[p] = "ended" /\ said'[p] = said[p]
<1> DEFINE Goal == reader'[p].pc = "over" /\ gen'[p] = "ended" /\ said'[p] = said[p]
<1>0. p \notin Running BY DEF Running
<1>1. ASSUME NEW r \in Requests, NEW e \in Events, ProviderEvent(r, e) PROVE Goal
  <2>1. p # r /\ reader' = reader BY <1>1 DEF ProviderEvent
  <2> QED BY <1>1, <2>1 DEF ProviderEvent, server, TypeOK
<1>2. ASSUME NEW r \in Requests, Break(r) PROVE Goal
  <2>1. reader'[p].pc = reader[p].pc BY <1>2, ReaderHalf DEF Break
  <2>2. p # r BY <1>2 DEF Break
  <2> QED BY <1>2, <2>1, <2>2 DEF Break, TypeOK
<1>3. ASSUME NEW r \in Requests, Start(r) PROVE Goal
  <2>1. p # r BY <1>3 DEF Start
  <2>2. reader'[p].pc = reader[p].pc BY <1>3, <2>1, RunningStart, InterfereType
  <2> QED BY <1>3, <2>2 DEF Start, server
<1>4. ASSUME NEW r \in Requests, Accept(r) PROVE Goal
  <2>1. p # r BY <1>4 DEF Accept
  <2> QED BY <1>4, <2>1, ReaderAccept DEF Accept, TypeOK
<1>5. ASSUME NEW r \in Requests, Refuse(r) \/ ReadRejects(r) \/ Complete(r) PROVE Goal
  <2>1. p # r BY <1>0, <1>5, ReaderOver
  <2> QED BY <1>5, <2>1, ReaderOver DEF Refuse, ReadRejects, Complete, server
<1>6. ASSUME NEW r \in Requests, Read(r) PROVE Goal
  <2>1. reader'[p].pc = reader[p].pc BY <1>6, ReaderHalf DEF Read
  <2> QED BY <1>6, <2>1 DEF Read
<1>7. ASSUME reader' = Interfere, UNCHANGED server PROVE Goal
  BY <1>7, InterfereType DEF server
<1>8. CASE Forget BY <1>8 DEF Forget, server
<1>9. CASE Reload
  <2>1. reader'[p] = reader[p] BY <1>0, <1>9, ReaderReload
  <2> QED BY <1>0, <1>9, <2>1 DEF Reload
<1>10. CASE UNCHANGED vars BY <1>10 DEF vars
<1> QED
  BY <1>1, <1>2, <1>3, <1>4, <1>5, <1>6, <1>7, <1>8, <1>9, <1>10
  DEF Next, RequestStep, SetMode, OpenEntry

\* What an entry of the history must be, when the user let its request alone.
Good(e) ==
  e.quiet => /\ e.text = Sent(e.of) /\ e.mode = e.asked
             /\ reader[e.of].pc = "over" /\ gen[e.of] = "ended"

LEMMA GoodStays ==
  ASSUME TypeOK, [Next]_vars, NEW e \in Entry, Good(e)
  PROVE  Good(e)'
<1>1. e.of \in Requests BY DEF Entry
<1> QED BY <1>1, OverStays DEF Good, Sent

\* The entry that Complete makes.
LEMMA GoodEntry ==
  ASSUME TypeOK, Fresh, Alone, NEW r \in Requests, Complete(r), page.tag # "Error",
         NEW e, e = NewEntry(r)
  PROVE  Good(e)'
<1>2. /\ e.of = r /\ e.text = Slice(page.text, SaveLimit) /\ e.mode = page.mode
      /\ e.asked = reader[r].mode /\ e.quiet = reader[r].quiet
  BY DEF NewEntry
<1>3. r \in Running /\ reader'[r].pc = "over" BY ReaderOver
<1>4. gen[r] = "ended" /\ wire[r] = <<>> /\ reader[r].pc = "reading" /\ UNCHANGED <<gen, said>>
  BY DEF Complete, server
<1>5. ASSUME reader[r].quiet
      PROVE  Slice(page.text, SaveLimit) = Sent(r) /\ page.mode = reader[r].mode
  <2>1. /\ page.mode = reader[r].mode
        /\ \A i \in 1..Len(page.text) : page.text[i] = Piece(r, "content", i)
        /\ Len(page.text) <= said[r] /\ Rest(r, Len(page.text))
    BY <1>3, <1>4, <1>5 DEF Alone, Begun
  <2>2. page.text \in Seq(Pieces) /\ said[r] \in Nat BY TextTypes DEF TypeOK
  <2>3. Len(page.text) \in Nat BY <2>2
  <2>4. Len(wire[r]) = 0 BY <1>4
  <2>5. Len(page.text) = said[r] BY <1>4, <2>1, <2>2, <2>3, <2>4 DEF Rest
  <2> DEFINE t == Slice(page.text, SaveLimit)
  <2>6. /\ t \in Seq(Pieces) /\ Len(t) = Least(said[r], SaveLimit)
        /\ \A i \in 1..Len(t) : t[i] = page.text[i]
    BY <2>2, <2>5, ConstantsOK, SliceType
  <2>7. 1..Len(t) \subseteq 1..Len(page.text)
    BY <2>2, <2>5, <2>6, ConstantsOK DEF Least
  <2> HIDE DEF t
  <2>8. t = [i \in 1..Len(t) |-> Piece(r, "content", i)]
    BY <2>1, <2>6, <2>7
  <2> QED BY <2>1, <2>6, <2>8 DEF Sent, t
<1>6. said'[r] = said[r] /\ gen'[r] = "ended" BY <1>4
<1>7. Sent(r)' = Sent(r) BY <1>6 DEF Sent
<1> QED BY <1>2, <1>3, <1>5, <1>6, <1>7 DEF Good

LEMMA StoredNext == TypeOK /\ Fresh /\ Alone /\ Stored /\ [Next]_vars => Stored'
<1> SUFFICES ASSUME TypeOK, Fresh, Alone, Stored, [Next]_vars, NEW i \in DOMAIN hist',
                    NEW e, e = hist'[i]
             PROVE  Good(e)'
  BY DEF Stored, Good
<1>1. hist \in Seq(Entry) /\ DOMAIN hist = 1..Len(hist) BY DEF TypeOK
<1>2. \A j \in DOMAIN hist : hist[j] \in Entry /\ Good(hist[j])
  BY <1>1 DEF Stored, Good
<1>3. \A d \in Entry : Good(d) => Good(d)' BY GoodStays
<1>4. (\E j \in DOMAIN hist : hist'[i] = hist[j]) => Good(e)'
  BY <1>2, <1>3
<1>5. ASSUME NEW r \in Requests, Complete(r), page.tag # "Error", hist' = Saved(r)
      PROVE  Good(e)'
  <2>1. i \in 1..Len(Saved(r)) BY <1>5, SavedType
  <2>2. CASE i = 1
    <3>1. hist'[i] = NewEntry(r) BY <1>5, <2>1, <2>2, SavedType
    <3> QED BY <1>5, <3>1, GoodEntry
  <2>3. CASE i # 1
    <3>1. i - 1 \in DOMAIN hist BY <1>1, <2>1, <2>3, SavedType
    <3>2. hist'[i] = hist[i - 1] BY <1>5, <2>1, <2>3, SavedType
    <3> QED BY <1>4, <3>1, <3>2
  <2> QED BY <2>2, <2>3
<1>6. ASSUME NEW k \in DOMAIN hist, hist' = RemoveAt(hist, k) PROVE Good(e)'
  <2>1. hist' \in Seq(Entry) /\ Len(hist') = Len(hist) - 1 BY <1>1, <1>6, RemoveType
  <2>2. i \in 1..(Len(hist) - 1) BY <2>1
  <2>3. hist'[i] = hist[IF i < k THEN i ELSE i + 1] BY <1>1, <1>6, <2>2, RemoveType
  <2> QED BY <1>1, <1>4, <2>2, <2>3
<1>7. CASE hist' = hist BY <1>4, <1>7
<1>8. CASE hist' = <<>> BY <1>8
<1>9. \/ hist' = hist \/ hist' = <<>> \/ \E k \in DOMAIN hist : hist' = RemoveAt(hist, k)
      \/ \E r \in Requests : Complete(r) /\ page.tag # "Error" /\ hist' = Saved(r)
  BY DEF Next, RequestStep, vars, ProviderEvent, Break, Start, Accept, Refuse, Read, Complete,
         ReadRejects, SetMode, OpenEntry, Forget, Reload
<1> QED BY <1>5, <1>6, <1>7, <1>8, <1>9

LEMMA SavedNext == TypeOK /\ SavedInv /\ [Next]_vars => SavedInv'
BY FreshNext, AloneNext, StoredNext DEF SavedInv

\* What is saved of a request the user let alone is what its provider sent, up
\* to the limit of an entry (addToHistory, dashboard.html:845-849).
THEOREM SavedAsSent == Spec => []HistoryAsSent
<1>1. SavedInv => HistoryAsSent BY DEF SavedInv, Stored, HistoryAsSent
<1> QED BY TypeInit, TypeNext, SavedInit, SavedNext, <1>1, PTL DEF Spec

================================================================================
