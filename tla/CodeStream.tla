------------------------------- MODULE CodeStream ------------------------------
(***************************************************************************)
(* A generated text on its way from the AI provider to the dashboard: the  *)
(* provider's events, the parser of its stream (streaming_factory.py), the *)
(* SSE frames of the response (generate_router.py), the bytes on the       *)
(* connection, and the page that reads them and keeps a history            *)
(* (static/dashboard.html).                                                *)
(*                                                                         *)
(* One page, in one browser tab.  Its requests share the text area, the    *)
(* status tag and the button, and Ctrl+Enter starts one while others run.  *)
(***************************************************************************)
EXTENDS Integers, FiniteSets, SequencesExt

CONSTANTS
  Requests,    \* requests of the page; each is made once
  Provider,    \* the provider each request names
  MaxTexts,    \* bound: pieces of text a provider sends for each request
  HistLimit,   \* entries saveHistory keeps (100 in the code)
  SaveLimit    \* pieces addToHistory keeps of a text (5000 characters in the code)

ASSUME ConstantsOK ==
  /\ IsFiniteSet(Requests)
  /\ Provider \in [Requests -> {"gemini", "openai", "anthropic", "deepseek", "mistral"}]
  /\ MaxTexts \in [Requests -> Nat]
  /\ HistLimit \in Nat \ {0}
  /\ SaveLimit \in Nat

VARIABLES
  gen,     \* the generator behind each response
  said,    \* how many pieces of text its provider has sent
  wire,    \* frames the page has not read to their end
  reader,  \* each request as the page runs it
  page,    \* what the requests share: text, status tag, button, mode
  hist,    \* the history in localStorage, newest first
  mixed    \* auxiliary: the button's label was saved while a request ran

server == <<gen, said, wire>>
vars == <<gen, said, wire, reader, page, hist, mixed>>

Modes == {"generate", "review"}
Labels == Modes \cup {"working"}

\* Pieces of the text area are the frames of the requests, numbered, and the
\* notes the page writes in place of everything else.
Piece(r, k, n) == [of |-> r, kind |-> k, n |-> n]
Pieces == [of : Requests, kind : {"content", "done", "error", "note"}, n : Nat]
Note(r) == <<Piece(r, "note", 0)>>

Reader == [pc : {"new", "fetching", "reading", "over"},
           half : BOOLEAN,          \* buffer holds the start of wire's first frame
           label : Labels,          \* origLabel
           mode : Modes,            \* the endpoint that was called
           quiet : BOOLEAN]         \* auxiliary: the user has not interfered
Page == [text : Seq(Pieces), tag : {"Ready", "Streaming", "Complete", "Error", "From history"},
         label : Labels, generating : BOOLEAN, mode : Modes]
Entry == [of : Requests, text : Seq(Pieces), mode : Modes, asked : Modes, quiet : BOOLEAN]

Running == {r \in Requests : reader[r].pc \in {"fetching", "reading"}}

\* The types, and the shapes that make a step of the page well-defined.
TypeOK ==
  /\ gen \in [Requests -> {"none", "running", "ended", "broken"}]
  /\ said \in [Requests -> Nat] /\ \A r \in Requests : said[r] <= MaxTexts[r]
  /\ wire \in [Requests -> Seq(Pieces)]
  /\ reader \in [Requests -> Reader]
  /\ page \in Page
  /\ hist \in Seq(Entry) /\ Len(hist) <= HistLimit
  /\ mixed \in BOOLEAN
  /\ \A r \in Requests : reader[r].half => wire[r] # <<>>

EmptyPage == [text |-> <<>>, tag |-> "Ready", label |-> "generate",
              generating |-> FALSE, mode |-> "generate"]

Init ==
  /\ gen = [r \in Requests |-> "none"]
  /\ said = [r \in Requests |-> 0]
  /\ wire = [r \in Requests |-> <<>>]
  /\ reader = [r \in Requests |-> [pc |-> "new", half |-> FALSE, label |-> "generate",
                                   mode |-> "generate", quiet |-> TRUE]]
  /\ page = EmptyPage
  /\ hist = <<>>
  /\ mixed = FALSE

--------------------------------------------------------------------------------
(* The provider's stream and the generator *)

\* stream_code_generation: three providers speak the protocol of OpenAI.
Parser(p) == IF p \in {"gemini", "anthropic"} THEN p ELSE "compat"

Events == {"text", "empty", "malformed", "odd", "failure", "marker", "eof", "broken"}

\* What a parser makes of an event.  A failure the provider reports inside its
\* stream is a payload without text for the two parsers that are written here,
\* an exception for the SDK; the marker is [DONE]; "odd" is JSON of an
\* unexpected shape; "broken" is a read timeout or an HTTP error.
Parse(p, e) ==
  CASE e = "text" -> "yield"
    [] e = "empty" -> "skip"
    [] e = "eof" -> "end"
    [] e \in {"odd", "broken"} -> "raise"
    [] e = "marker" -> IF p = "compat" THEN "end" ELSE "skip"
    [] e \in {"malformed", "failure"} -> IF p = "gemini" THEN "raise" ELSE "skip"

Yield(r, k, n) == wire' = [wire EXCEPT ![r] = Append(@, Piece(r, k, n))]

\* event_stream: a content frame per piece; then done, or the error.
ProviderEvent(r, e) ==
  /\ gen[r] = "running"
  /\ LET outcome == Parse(Parser(Provider[r]), e) IN
       \/ /\ outcome = "yield"
          /\ said[r] < MaxTexts[r]
          /\ said' = [said EXCEPT ![r] = @ + 1]
          /\ Yield(r, "content", said[r] + 1)
          /\ UNCHANGED gen
       \/ /\ outcome \in {"end", "raise"}
          /\ Yield(r, IF outcome = "end" THEN "done" ELSE "error", 0)
          /\ gen' = [gen EXCEPT ![r] = "ended"]
          /\ UNCHANGED said
       \/ /\ outcome = "skip"
          /\ UNCHANGED server
  /\ UNCHANGED <<reader, page, hist, mixed>>

\* The worker dies or the connection is reset: nothing more can be read.
Break(r) ==
  /\ gen[r] \in {"running", "ended"}
  /\ reader[r].pc = "reading"
  /\ gen' = [gen EXCEPT ![r] = "broken"]
  /\ wire' = [wire EXCEPT ![r] = <<>>]
  /\ reader' = [reader EXCEPT ![r].half = FALSE]
  /\ UNCHANGED <<said, page, hist, mixed>>

--------------------------------------------------------------------------------
(* The page *)

\* resetBtn
ResetBtn(r) == [page EXCEPT !.label = reader[r].label, !.generating = FALSE]

\* Bug: an early return without resetBtn.
FailWithoutReset(r) ==
  /\ page' = [page EXCEPT !.text = Note(r), !.tag = "Error"]
  /\ reader' = [reader EXCEPT ![r].pc = "over"]

\* The request ends with a note in place of the text.
Fail(r) ==
  /\ page' = [ResetBtn(r) EXCEPT !.text = Note(r), !.tag = "Error"]
  /\ reader' = [reader EXCEPT ![r].pc = "over"]

\* The user did something while the requests of Running were under way.
Interfere == [r \in Requests |-> IF r \in Running THEN [reader[r] EXCEPT !.quiet = FALSE]
                                                  ELSE reader[r]]

\* The button while it can be clicked, or Ctrl+Enter at any time.
Start(r) ==
  /\ reader[r].pc = "new"
  /\ reader' = [Interfere EXCEPT ![r] =
                  [pc |-> "fetching", half |-> FALSE, label |-> page.label,
                   mode |-> page.mode, quiet |-> Running = {}]]
  /\ page' = [page EXCEPT !.text = <<>>, !.tag = "Streaming", !.label = "working",
                          !.generating = TRUE]
  /\ mixed' = (mixed \/ Running # {})
  /\ UNCHANGED <<server, hist>>

\* The handler has been reached: the response is open and its generator runs.
Accept(r) ==
  /\ reader[r].pc = "fetching"
  /\ reader' = [reader EXCEPT ![r].pc = "reading"]
  /\ gen' = [gen EXCEPT ![r] = "running"]
  /\ UNCHANGED <<said, wire, page, hist, mixed>>

\* No key in localStorage, a status that is not 2xx (its own check of the
\* provider and the context included), or a fetch that rejects.
Refuse(r) ==
  /\ reader[r].pc = "fetching"
  /\ Fail(r)
  /\ UNCHANGED <<server, hist, mixed>>

\* The frames of a read with something to show: done has nothing, and is the
\* last frame of its response.
Visible(frames) ==
  IF frames # <<>> /\ frames[Len(frames)].kind = "done" THEN SubSeq(frames, 1, Len(frames) - 1)
                                                        ELSE frames

\* What a read leaves of the shared page: pieces appended in order.
Shown(frames) ==
  LET visible == Visible(frames) IN
  [page EXCEPT !.text = @ \o visible,
               !.tag = IF \E i \in DOMAIN visible : visible[i].kind = "error" THEN "Error" ELSE @]

\* Bug: buffer is emptied after every read.
ReadDropsBuffer(r) ==
  /\ reader[r].pc = "reading"
  /\ \E n \in 0..Len(wire[r]), half \in BOOLEAN :
       /\ n > 0 \/ half
       /\ half => n < Len(wire[r])
       /\ page' = Shown(SubSeq(wire[r], 1, n))
       /\ wire' = [wire EXCEPT ![r] = SubSeq(@, IF half THEN n + 2 ELSE n + 1, Len(@))]
  /\ UNCHANGED <<gen, said, reader, hist, mixed>>

\* Bug: the last line stays in buffer also when it is whole.
ReadKeepsLine(r) ==
  /\ reader[r].pc = "reading"
  /\ \E n \in 1..Len(wire[r]) :
       /\ page' = Shown(SubSeq(wire[r], 1, n))
       /\ wire' = [wire EXCEPT ![r] = SubSeq(@, IF n > 1 THEN n ELSE 2, Len(@))]
  /\ UNCHANGED <<gen, said, reader, hist, mixed>>

\* reader.read returns any number of bytes: n whole frames, and perhaps the
\* beginning of the next, which stays in buffer.
Read(r) ==
  /\ reader[r].pc = "reading"
  /\ \E n \in 0..Len(wire[r]), half \in BOOLEAN :
       /\ n > 0 \/ (half /\ ~reader[r].half)
       /\ half => n < Len(wire[r])
       /\ page' = Shown(SubSeq(wire[r], 1, n))
       /\ wire' = [wire EXCEPT ![r] = SubSeq(@, n + 1, Len(@))]
       /\ reader' = [reader EXCEPT ![r].half = half]
  /\ UNCHANGED <<gen, said, hist, mixed>>

\* slice(0, n) of an array or, at the grain of pieces, of a text.
Slice(s, n) == SubSeq(s, 1, IF Len(s) < n THEN Len(s) ELSE n)

\* The entry addToHistory makes: the mode and the text are read from the page
\* now, and the beginning of the text is kept.
NewEntry(r) == [of |-> r, text |-> Slice(page.text, SaveLimit), mode |-> page.mode,
                asked |-> reader[r].mode, quiet |-> reader[r].quiet]

\* Bug: saveHistory without the slice.
SavedAll(r) == <<NewEntry(r)>> \o hist

\* unshift, and the slice of saveHistory.
Saved(r) == Slice(<<NewEntry(r)>> \o hist, HistLimit)

\* The end of the response; an error that is shown stays.  setItem may raise, for
\* want of room, and the entry is lost in silence.
Complete(r) ==
  /\ reader[r].pc = "reading"
  /\ gen[r] = "ended" /\ wire[r] = <<>>
  /\ IF page.tag = "Error"
     THEN page' = ResetBtn(r) /\ UNCHANGED hist
     ELSE page' = [ResetBtn(r) EXCEPT !.tag = "Complete"] /\ hist' \in {Saved(r), hist}
  /\ reader' = [reader EXCEPT ![r].pc = "over"]
  /\ UNCHANGED <<server, mixed>>

\* Bug: the exception is swallowed inside the loop, which reads again.
ReadRejectsInLoop(r) ==
  /\ reader[r].pc = "reading"
  /\ gen[r] = "broken"
  /\ page' = [page EXCEPT !.text = Note(r), !.tag = "Error"]
  /\ UNCHANGED <<server, reader, hist, mixed>>

\* reader.read rejects: "Connection error".
ReadRejects(r) ==
  /\ reader[r].pc = "reading"
  /\ gen[r] = "broken"
  /\ Fail(r)
  /\ UNCHANGED <<server, hist, mixed>>

\* setMode, which writes the label whatever is running.
SetMode(m) ==
  /\ page' = [page EXCEPT !.mode = m, !.label = m]
  /\ reader' = Interfere
  /\ mixed' = (Running # {})
  /\ UNCHANGED <<server, hist>>

\* A click on an entry of the history; a running request goes on and appends.
OpenEntry(i) ==
  /\ page' = [page EXCEPT !.text = hist[i].text, !.tag = "From history",
                          !.mode = hist[i].mode, !.label = hist[i].mode]
  /\ reader' = Interfere
  /\ mixed' = (Running # {})
  /\ UNCHANGED <<server, hist>>

\* deleteHistoryItem and clearHistory.
Forget ==
  /\ hist # <<>>
  /\ \/ \E i \in DOMAIN hist : hist' = RemoveAt(hist, i)
     \/ hist' = <<>>
  /\ UNCHANGED <<server, reader, page, mixed>>

\* The page is loaded again: its requests are gone, and the server cancels
\* their generators without a further frame.
Reload ==
  /\ Running # {}
  /\ page' = EmptyPage
  /\ reader' = [r \in Requests |-> IF r \in Running
                                   THEN [reader[r] EXCEPT !.pc = "over", !.half = FALSE]
                                   ELSE reader[r]]
  /\ gen' = [r \in Requests |-> IF r \in Running THEN "broken" ELSE gen[r]]
  /\ wire' = [r \in Requests |-> IF r \in Running THEN <<>> ELSE wire[r]]
  /\ mixed' = FALSE
  /\ UNCHANGED <<said, hist>>

RequestStep(r) ==
  \/ Start(r) \/ Accept(r) \/ Refuse(r)
  \/ Break(r) \/ Read(r) \/ Complete(r) \/ ReadRejects(r)
  \/ \E e \in Events : ProviderEvent(r, e)

Next ==
  \/ \E r \in Requests : RequestStep(r)
  \/ \E m \in Modes : SetMode(m)
  \/ \E i \in DOMAIN hist : OpenEntry(i)
  \/ Forget \/ Reload

Spec == Init /\ [][Next]_vars

\* The clients of httpx are made with _STREAM_TIMEOUT (streaming_factory.py:135
\* and :189), so a stream that falls silent raises; the Gemini SDK is called with
\* no timeout (:166-176), and may stay silent for ever.
Timed(r) == Provider[r] # "gemini"

\* What does not wait for ever: a fetch is answered; a provider under a timeout
\* ends its stream or falls silent until the read times out; the page reads what
\* has arrived.  Nothing makes a Gemini stream end.
Progress(r) ==
  \/ Accept(r) \/ Refuse(r)
  \/ Timed(r) /\ \E e \in {"eof", "broken"} : ProviderEvent(r, e)
  \/ Read(r) \/ Complete(r) \/ ReadRejects(r)

Fairness == \A r \in Requests : WF_vars(Progress(r))

FairSpec == Spec /\ Fairness

--------------------------------------------------------------------------------
(* What must hold *)

Least(m, n) == IF m < n THEN m ELSE n

\* The first SaveLimit of the pieces the provider of r has sent, in their order.
Sent(r) == [n \in 1..Least(said[r], SaveLimit) |-> Piece(r, "content", n)]

\* An entry made while the user let the request alone holds what the provider
\* sent up to the limit of addToHistory (code.slice(0,5000), dashboard.html:847):
\* the first pieces, all of them in their order, no error text and nothing of
\* another request; and it is filed under the mode that was asked for.  Reads cut
\* frames anywhere, and what is stored is read from the page when the stream is
\* over.  (What was sent need not be a complete answer: a failure that a compat
\* or Anthropic stream reports within itself is a frame without text.)
HistoryAsSent ==
  \A i \in DOMAIN hist :
    hist[i].quiet => /\ hist[i].text = Sent(hist[i].of)
                     /\ hist[i].mode = hist[i].asked

\* Whatever the user does, also with several requests writing to one text area
\* and with old entries opened between their pieces: no piece is shown twice,
\* nor before an earlier piece of its request.
NoPieceTwice ==
  \A i, j \in DOMAIN page.text :
    LET a == page.text[i]
        b == page.text[j]
    IN (i < j /\ a.of = b.of /\ a.kind = "content" /\ b.kind = "content") => a.n < b.n

\* When nothing runs the button can be clicked, after every way a request can
\* end; and its label names the mode, unless it was saved or changed while a
\* request had it say "Working...".
ButtonComesBack ==
  Running = {} => /\ ~page.generating
                  /\ ~mixed => page.label = page.mode

\* A request of the page ends, with a text, an error or a note, if its provider
\* is called under a timeout; and with any provider once its response has ended or
\* its connection is broken.
EveryStreamEnds ==
  \A r \in Requests :
    (r \in Running /\ (Timed(r) \/ gen[r] \in {"ended", "broken"}))
      ~> (reader[r].pc = "over")
================================================================================
