------------------------------- MODULE Widget -------------------------------
(***************************************************************************)
(* The Vue widget: the composable useIntake with the clicks IntakeWidget   *)
(* and ScreenshotRedactor allow, over the core client's init, turn and     *)
(* submit.  JavaScript runs one task at a time, so an action is a click,   *)
(* or what follows the answer to an await; every promise's continuations   *)
(* run before the next click.                                              *)
(*                                                                         *)
(* The redactor is a modal that covers the page, so no other control can   *)
(* be used while it is open; the answers of the relay still arrive.  The   *)
(* relay sends nothing after a terminal frame (LLMStream).  Screenshots    *)
(* are known by the number of their capture, and a box by the pictures     *)
(* that were in the redactor when its drag began and when it ended.        *)
(*                                                                         *)
(* Left out: the error banner, which is only shown, the panel's toggle,    *)
(* the labels, onMouseMove, which only previews, and the submitted         *)
(* conversation, which is the messages at the click.                       *)
(***************************************************************************)
EXTENDS Attachments, EventStream, SequencesExt

CONSTANTS
  Sizes,         (* bytes a flattened screenshot may have                   *)
  LineEnds,      (* how lines may end when they reach the widget            *)
  MaxDeltas,     (* bounds of the model: delta frames of an answer,         *)
  MaxTurns,      (* messages the user sends,                                *)
  MaxCaptures,   (* times they click Attach,                                *)
  MaxClicks      (* and both together                                       *)

ASSUME WidgetAssumption ==
  /\ "png" \in MIMETypes
  /\ Sizes \subseteq Nat \ {0}
  /\ LineEnds \subseteq {<<"LF">>, <<"CR", "LF">>}
  /\ {MaxDeltas, MaxTurns, MaxCaptures, MaxClicks} \subseteq Nat

VARIABLES
  init,        (* the init call of onMounted: "asking", "ready", "failed"   *)
  messages,    (* the conversation shown                                    *)
  turns,       (* the turn calls, one for each message sent,                *)
  responses,   (* and the response each is reading                          *)
  streaming, submitting, result,   (* the refs of these names               *)
  body,        (* the attachments of the submission in flight               *)
  captures,    (* clicks on Attach                                          *)
  capturing,   (* captures that have not returned                           *)
  source,      (* redactorSource, 0 for null                                *)
  rects,       (* ScreenshotRedactor.rects                                  *)
  drag,        (* the picture on which the drag in progress began, 0 if     *)
               (* none: dragging and dragStart                              *)
  list,        (* attachmentList's items, <<>> for null too                 *)
  pending,     (* pendingAttachments                                        *)
  marked,      (* the boxes finished on pictures that were not discarded,   *)
               (* and not cleared                                           *)
  owed,        (* captures saved, until they are removed, part of a         *)
               (* submission that succeeded, or saved while it was in       *)
               (* flight                                                    *)
  late         (* captures saved since the submission in flight began       *)

turnVars == <<messages, turns, responses, streaming>>
redactorVars == <<captures, capturing, source, rects, drag, marked>>
stripVars == <<list, pending, owed, late>>
submitVars == <<submitting, body, result>>
vars == <<init, turnVars, redactorVars, stripVars, submitVars>>


(* What the relay may answer to a turn: deltas, and a terminal frame       *)
(* unless it was cut.                                                      *)
Answers ==
  UNION {{FlattenSeq([i \in 1..n |-> Frame("delta", eol)]) \o last :
            n \in 0..MaxDeltas, last \in {<<>>, Frame("done", eol), Frame("error", eol)}} :
         eol \in LineEnds}

Message == [role : {"user", "assistant"}, content : Seq(Nat)]

Turn ==
  [pc     : {"posted", "reading", "done", "failed"},
   index  : Nat,          (* assistantIndex, counted from 1                 *)
   got    : Nat]          (* deltas handed to onDelta                       *)

(* The text of a response, whether its body has come to an end, how much   *)
(* of it was read, and consumeSSE's buffer                                 *)
Response == [wire : Seq(Pieces), end : {"coming", "closed", "broken"},
             at : Nat, buffer : Seq(Pieces)]

Box == [from : Nat, on : Nat]

Shot == [capture : Nat, size : Sizes, mime : {"png"}, boxes : SUBSET Box]

Unsettled == {t \in DOMAIN turns : turns[t].pc \in {"posted", "reading"}}

WidgetTypeOK ==
  /\ init \in {"asking", "ready", "failed"}
  /\ messages \in Seq(Message)
  /\ turns \in Seq(Turn)
  /\ \A t \in Unsettled : turns[t].index \in DOMAIN messages
  /\ streaming \in BOOLEAN /\ submitting \in BOOLEAN
  /\ result \in BOOLEAN
  /\ captures \in Nat /\ capturing \subseteq 1..captures
  /\ source \in 0..captures /\ source \notin capturing
  /\ drag \in 0..captures
  /\ rects \subseteq [from : 1..captures, on : 1..captures]
  /\ marked \subseteq [from : 1..captures, on : 1..captures]
  /\ list \in Seq(Shot) /\ pending \in Seq(Shot) /\ body \in Seq(Shot)
  /\ owed \subseteq 1..captures /\ late \subseteq 1..captures

TypeOK ==
  /\ WidgetTypeOK
  /\ responses \in Seq(Response) /\ Len(responses) = Len(turns)

Init ==
  /\ init = "asking"
  /\ messages = <<>> /\ turns = <<>> /\ responses = <<>> /\ streaming = FALSE
  /\ captures = 0 /\ capturing = {} /\ source = 0 /\ rects = {} /\ drag = 0
  /\ marked = {} /\ list = <<>> /\ pending = <<>> /\ owed = {} /\ late = {}
  /\ submitting = FALSE /\ body = <<>> /\ result = FALSE

-----------------------------------------------------------------------------
(* start, on mount *)

StartOK ==
  /\ init = "asking"
  /\ init' = "ready" /\ list' = <<>>
  /\ UNCHANGED <<turnVars, redactorVars, pending, owed, late, submitVars>>

(* Nothing asks again. *)
StartFails ==
  /\ init = "asking"
  /\ init' = "failed"
  /\ UNCHANGED <<turnVars, redactorVars, stripVars, submitVars>>

-----------------------------------------------------------------------------
(* sendTurn and client.turn *)

(* The bounds of the model *)
MaySend == Len(turns) < MaxTurns /\ Len(turns) + captures < MaxClicks
MayAttach == captures < MaxCaptures /\ Len(turns) + captures < MaxClicks

(* The panel's buttons can be reached. *)
Panel == source = 0 /\ ~result

Says(k) == [role |-> "user", content |-> <<k>>]
Nothing == [role |-> "assistant", content |-> <<>>]

NewTurn(pc, index) == [pc |-> pc, index |-> index, got |-> 0]
Unread(wire) == [wire |-> wire, end |-> "coming", at |-> 0, buffer |-> <<>>]

(* Mutant: Send does not look at streaming. *)
SendAnyTime ==
  /\ Panel /\ init = "ready" /\ MaySend
  /\ messages' = messages \o <<Says(Len(turns) + 1), Nothing>>
  /\ turns' = Append(turns, NewTurn("posted", Len(messages) + 2))
  /\ responses' = Append(responses, Unread(<<>>))
  /\ streaming' = TRUE
  /\ UNCHANGED <<init, redactorVars, stripVars, submitVars>>

(* Mutant: the index is taken after the placeholder is pushed. *)
SendIndexLate ==
  /\ Panel /\ init = "ready" /\ ~streaming /\ MaySend
  /\ messages' = messages \o <<Says(Len(turns) + 1), Nothing>>
  /\ turns' = Append(turns, NewTurn("posted", Len(messages) + 3))
  /\ responses' = Append(responses, Unread(<<>>))
  /\ streaming' = TRUE
  /\ UNCHANGED <<init, redactorVars, stripVars, submitVars>>

(* Also while a submission is in flight. *)
Send ==
  /\ Panel /\ init = "ready" /\ ~streaming /\ MaySend
  /\ messages' = messages \o <<Says(Len(turns) + 1), Nothing>>
  /\ turns' = Append(turns, NewTurn("posted", Len(messages) + 2))
  /\ responses' = Append(responses, Unread(<<>>))
  /\ streaming' = TRUE
  /\ UNCHANGED <<init, redactorVars, stripVars, submitVars>>

(* client.turn throws at once, and the placeholder is gone again. *)
SendTooEarly ==
  /\ Panel /\ init # "ready" /\ ~streaming /\ MaySend
  /\ messages' = Append(messages, Says(Len(turns) + 1))
  /\ turns' = Append(turns, NewTurn("failed", Len(messages) + 2))
  /\ responses' = Append(responses, Unread(<<>>))
  /\ UNCHANGED <<init, streaming, redactorVars, stripVars, submitVars>>

(* n more deltas of turn t appended where its placeholder was *)
Shown(t, n) ==
  [messages EXCEPT ![turns[t].index].content = @ \o [i \in 1..n |-> t]]

WithoutPlaceholder(shown) ==
  IF shown # <<>> /\ Last(shown) = Nothing THEN Front(shown) ELSE shown

DeltasIn(text) == Cardinality(FramesIn(text, "delta"))

(* How the text settles the promise: the relay ends an answer only once.   *)
Terminal(text) == {kind \in {"done", "error"} : FramesIn(text, kind) # {}}

(* The promise of turn t settles, after n more deltas. *)
Settled(t, pc, n) ==
  /\ turns' = [turns EXCEPT ![t].pc = pc, ![t].got = @ + n]
  /\ responses' = [responses EXCEPT ![t] = Unread(<<>>)]

Resolve(t, n) ==
  /\ messages' = Shown(t, n)
  /\ Settled(t, "done", n)
  /\ streaming' = FALSE
  /\ UNCHANGED <<init, redactorVars, stripVars, submitVars>>

Reject(t, n) ==
  /\ messages' = WithoutPlaceholder(Shown(t, n))
  /\ Settled(t, "failed", n)
  /\ streaming' = FALSE
  /\ UNCHANGED <<init, redactorVars, stripVars, submitVars>>

(* The answer's head arrives, a 200. *)
Respond(t) ==
  /\ turns[t].pc = "posted"
  /\ turns' = [turns EXCEPT ![t].pc = "reading"]
  /\ \E wire \in Answers : responses' = [responses EXCEPT ![t] = Unread(wire)]
  /\ UNCHANGED <<init, messages, streaming, redactorVars, stripVars, submitVars>>

(* Any other status, or none *)
Refuse(t) == turns[t].pc = "posted" /\ Reject(t, 0)

(* The relay closes the response, which may be long after its last frame   *)
(* or never, or the connection breaks.                                     *)
BodyEnds(t) ==
  /\ turns[t].pc = "reading" /\ responses[t].end = "coming"
  /\ \E end \in {"closed", "broken"} : responses' = [responses EXCEPT ![t].end = end]
  /\ UNCHANGED <<init, messages, turns, streaming, redactorVars, stripVars, submitVars>>

(* reader.read() has a chunk, everything up to piece n. *)
Buffered(t, n) ==
  responses[t].buffer \o Normalised(SubSeq(responses[t].wire, responses[t].at + 1, n))

Dispatched(t, n) == Blocks(Buffered(t, n))

Arrives(t, n) ==
  /\ turns[t].pc = "reading" /\ responses[t].end # "broken"
  /\ n \in (responses[t].at + 1)..Len(responses[t].wire)

ReadOn(t, n) ==
  /\ Arrives(t, n) /\ Terminal(Dispatched(t, n)) = {}
  /\ messages' = Shown(t, DeltasIn(Dispatched(t, n)))
  /\ turns' = [turns EXCEPT ![t].got = @ + DeltasIn(Dispatched(t, n))]
  /\ responses' = [responses EXCEPT ![t].at = n, ![t].buffer = Rest(Buffered(t, n))]
  /\ UNCHANGED <<init, streaming, redactorVars, stripVars, submitVars>>

ReadDone(t, n) ==
  /\ Arrives(t, n) /\ Terminal(Dispatched(t, n)) = {"done"}
  /\ Resolve(t, DeltasIn(Dispatched(t, n)))

ReadError(t, n) ==
  /\ Arrives(t, n) /\ Terminal(Dispatched(t, n)) = {"error"}
  /\ Reject(t, DeltasIn(Dispatched(t, n)))

(* read() finds the response closed; what is left in the buffer is dispatched. *)
Closed(t) == turns[t].pc = "reading" /\ responses[t].end = "closed"

EndDone(t) ==
  /\ Closed(t) /\ Terminal(responses[t].buffer) = {"done"}
  /\ Resolve(t, DeltasIn(responses[t].buffer))

(* Mutant: an end without a done frame settles nothing. *)
EndNotDoneUnsettled(t) ==
  /\ Closed(t) /\ Terminal(responses[t].buffer) # {"done"}
  /\ messages' = Shown(t, DeltasIn(responses[t].buffer))
  /\ Settled(t, "failed", DeltasIn(responses[t].buffer))
  /\ UNCHANGED <<init, streaming, redactorVars, stripVars, submitVars>>

(* An error frame, or 'stream ended without a done frame' *)
EndNotDone(t) ==
  /\ Closed(t) /\ Terminal(responses[t].buffer) # {"done"}
  /\ Reject(t, DeltasIn(responses[t].buffer))

(* The connection broke: read() rejects, and the buffer is lost. *)
Break(t) == turns[t].pc = "reading" /\ responses[t].end = "broken" /\ Reject(t, 0)

Ends(t) == EndDone(t) \/ EndNotDone(t) \/ Break(t)

Reads(t) ==
  \E n \in DOMAIN responses[t].wire : ReadOn(t, n) \/ ReadDone(t, n) \/ ReadError(t, n)

OfTurn(t) == Respond(t) \/ Refuse(t) \/ BodyEnds(t) \/ Reads(t) \/ Ends(t)

-----------------------------------------------------------------------------
(* attachAndRedact and ScreenshotRedactor *)

Attach ==
  /\ Panel /\ init = "ready" /\ PublishedMIMETypes # {}
  /\ ~streaming /\ ~submitting /\ MayAttach
  /\ captures' = captures + 1 /\ capturing' = capturing \cup {captures + 1}
  /\ UNCHANGED <<init, turnVars, source, rects, drag, marked, stripVars, submitVars>>

(* The picture in the redactor goes, and with it what was drawn on it.     *)
Discarded == {box \in marked : box.on = source}

(* Mutant: a new source does not reset the boxes. *)
CapturedOver(c) ==
  /\ c \in capturing
  /\ capturing' = capturing \ {c} /\ source' = c /\ marked' = marked \ Discarded
  /\ UNCHANGED <<init, turnVars, captures, rects, drag, stripVars, submitVars>>

(* The modal opens, or shows this capture instead of an earlier one: the   *)
(* boxes are gone, but a drag in progress goes on.                         *)
Captured(c) ==
  /\ c \in capturing
  /\ capturing' = capturing \ {c}
  /\ source' = c /\ rects' = {} /\ marked' = marked \ Discarded
  /\ UNCHANGED <<init, turnVars, captures, drag, stripVars, submitVars>>

CaptureFails(c) ==
  /\ c \in capturing
  /\ capturing' = capturing \ {c}
  /\ UNCHANGED <<init, turnVars, captures, source, rects, drag, marked, stripVars, submitVars>>

(* A button that is let go outside the canvas is not seen, so a drag may   *)
(* be in progress already.                                                 *)
MouseDown ==
  /\ source # 0
  /\ drag' = source
  /\ UNCHANGED <<init, turnVars, captures, capturing, source, rects, marked, stripVars, submitVars>>

(* The box lands on the picture there is now; an empty one is no box. *)
MouseUp ==
  /\ source # 0 /\ drag # 0
  /\ drag' = 0
  /\ \E boxes \in {{}, {[from |-> drag, on |-> source]}} :
       rects' = rects \cup boxes /\ marked' = marked \cup boxes
  /\ UNCHANGED <<init, turnVars, captures, capturing, source, stripVars, submitVars>>

ClearAll ==
  /\ source # 0
  /\ rects' = {} /\ marked' = marked \ Discarded
  /\ UNCHANGED <<init, turnVars, captures, capturing, source, drag, stripVars, submitVars>>

(* Also what Save does without a drawing context *)
Cancel ==
  /\ source # 0
  /\ source' = 0 /\ marked' = marked \ Discarded
  /\ UNCHANGED <<init, turnVars, captures, capturing, rects, drag, stripVars, submitVars>>

(* Mutant: the total is not looked at. *)
TakenBySize(shot) == shot.mime \in PublishedMIMETypes /\ shot.size <= MaxSizeBytes

(* AttachmentList.add's three tests *)
Taken(shot) ==
  /\ shot.mime \in PublishedMIMETypes
  /\ shot.size <= MaxSizeBytes
  /\ Total(list, Len(list)) + shot.size <= MaxTotalBytes

Flattened(size) == [capture |-> source, size |-> size, mime |-> "png", boxes |-> rects]

(* commitRedacted *)
Save(size) ==
  /\ source # 0 /\ Taken(Flattened(size))
  /\ list' = Append(list, Flattened(size)) /\ pending' = list'
  /\ source' = 0
  /\ owed' = owed \cup {source} /\ late' = IF submitting THEN late \cup {source} ELSE late
  /\ UNCHANGED <<init, turnVars, captures, capturing, rects, drag, marked, submitVars>>

SaveRefused(size) ==
  /\ source # 0 /\ ~Taken(Flattened(size))
  /\ source' = 0 /\ marked' = marked \ Discarded
  /\ UNCHANGED <<init, turnVars, captures, capturing, rects, drag, stripVars, submitVars>>

(* removeAttachment, by the position in the strip *)
RemoveAttachment(i) ==
  /\ Panel /\ i \in DOMAIN pending
  /\ list' = RemoveAt(list, i) /\ pending' = list'
  /\ owed' = owed \ {pending[i].capture}
  /\ UNCHANGED <<init, turnVars, redactorVars, late, submitVars>>

-----------------------------------------------------------------------------
(* submit *)

(* Before the session is there client.submit throws at once. *)
Submit ==
  /\ Panel /\ init = "ready" /\ messages # <<>> /\ ~streaming /\ ~submitting
  /\ submitting' = TRUE /\ body' = pending
  /\ UNCHANGED <<init, turnVars, redactorVars, stripVars, result>>

Captures(shots) == {shots[i].capture : i \in DOMAIN shots}

SubmitOK ==
  /\ submitting
  /\ submitting' = FALSE /\ body' = <<>>
  /\ result' = TRUE
  /\ list' = <<>> /\ pending' = <<>>
  /\ owed' = owed \ (Captures(body) \cup late) /\ late' = {}
  /\ UNCHANGED <<init, turnVars, redactorVars>>

(* Mutant: a failure puts back the strip that was submitted. *)
SubmitFailsRestores ==
  /\ submitting
  /\ submitting' = FALSE /\ body' = <<>> /\ late' = {}
  /\ list' = body /\ pending' = body
  /\ UNCHANGED <<init, turnVars, redactorVars, owed, result>>

(* Another status, no answer, or one that does not parse *)
SubmitFails ==
  /\ submitting
  /\ submitting' = FALSE /\ body' = <<>> /\ late' = {}
  /\ UNCHANGED <<init, turnVars, redactorVars, list, pending, owed, result>>

-----------------------------------------------------------------------------

Next ==
  \/ StartOK \/ StartFails
  \/ Send \/ SendTooEarly
  \/ \E t \in DOMAIN turns : OfTurn(t)
  \/ Attach \/ \E c \in capturing : Captured(c) \/ CaptureFails(c)
  \/ MouseDown \/ MouseUp \/ ClearAll \/ Cancel
  \/ \E size \in Sizes : Save(size) \/ SaveRefused(size)
  \/ \E i \in DOMAIN pending : RemoveAttachment(i)
  \/ Submit \/ SubmitOK \/ SubmitFails

Spec == Init /\ [][Next]_vars

(* A body that is over has finitely many chunks left, and the loop of      *)
(* consumeSSE reads on until read() says so or throws.  Nothing is assumed *)
(* of the relay and the network: a request may never be answered and a     *)
(* response may stall for ever, as client.turn has neither a timeout nor   *)
(* an abort.                                                               *)
FairSpec == Spec /\ WF_vars(\E t \in DOMAIN turns : Ends(t))

-----------------------------------------------------------------------------
(* Properties. *)

(* What turn t's deltas make, and the message that must come before it *)
Answer(t) == [role |-> "assistant", content |-> [i \in 1..turns[t].got |-> t]]

Asked(i) == messages[i].content[1]

Users == {i \in DOMAIN messages : messages[i].role = "user"}

(* The conversation shows every text the user sent once and in order, and  *)
(* directly after it the deltas of its own turn and nothing else, however  *)
(* turns fail and submissions, captures and turns overlap.                 *)
Transcript ==
  /\ \A t \in DOMAIN turns : \E i \in Users : messages[i] = Says(t)
  /\ \A i, j \in Users : i < j => Asked(i) < Asked(j)
  /\ \A i \in DOMAIN messages \ Users : i - 1 \in Users /\ messages[i] = Answer(Asked(i - 1))
  /\ \A i \in Users : turns[Asked(i)].got > 0 => i + 1 \in DOMAIN messages \ Users

(* The deltas whose line is among the first n pieces of the wire, and      *)
(* those whose end is there for certain                                    *)
DeltaLines(wire, n) == {i \in 1..n : wire[i] = "delta"}
WholeDeltas(wire, n) ==
  {i \in DeltaLines(wire, n) : n = Len(wire) \/ \E j \in i..n : wire[j] = "head"}

(* No chunking of the stream, with either line end, loses, repeats or      *)
(* invents a delta: a turn that goes on has shown every delta followed by  *)
(* another frame and none that has not arrived, and a turn that is done    *)
(* has shown all the relay sent.                                           *)
ChunksHidden ==
  [][\A t \in DOMAIN turns :
       LET wire == responses[t].wire IN
       /\ turns[t].pc = "reading" =>
            turns'[t].got <= Cardinality(DeltaLines(wire, Len(wire)))
       /\ turns'[t].pc = "reading" =>
            turns'[t].got \in Cardinality(WholeDeltas(responses'[t].wire, responses'[t].at))
                                ..Cardinality(DeltaLines(responses'[t].wire, responses'[t].at))
       /\ turns[t].pc = "reading" /\ turns'[t].pc = "done" =>
            /\ turns'[t].got = Cardinality(DeltaLines(wire, Len(wire)))
            /\ \E i \in DOMAIN wire : wire[i] = "done"]_vars

(* A screenshot the user has saved is shown in the strip, or went out with *)
(* a submission that succeeded, or was removed by the user; only the       *)
(* success of a submission may drop the ones saved while it was in flight, *)
(* and after its failure they are all there still.                         *)
KeptUntilSent == owed \subseteq Captures(pending)

(* A screenshot carries exactly the boxes whose drag ended on it and that  *)
(* were not cleared, though another capture may replace it in the redactor *)
(* at any moment.  The boxes drawn on a picture before stay with it: of    *)
(* its own, only the drag in progress can come from an earlier picture,    *)
(* so a screenshot has at most one box that was begun elsewhere.           *)
Redacted ==
  \A shots \in {pending, body} : \A i \in DOMAIN shots :
    LET stray == {box \in shots[i].boxes : box.from # shots[i].capture} IN
    /\ shots[i].boxes = {box \in marked : box.on = shots[i].capture}
    /\ \A box, other \in stray : box = other

(* attachments as the relay sees them *)
Wire(shots) ==
  [i \in DOMAIN shots |->
     [type |-> "screenshot", mime |-> shots[i].mime, url |-> "base64",
      size |-> shots[i].size, sniffed |-> shots[i].mime]]

(* The relay's attachvalidate accepts whatever the widget has pending, and *)
(* the strip shows what the list counts.                                   *)
PendingAcceptable == Acceptable(Wire(pending)) /\ list = pending

(* Turn t reads a response that is over. *)
Over(t) == turns[t].pc = "reading" /\ responses[t].end # "coming"

(* A turn is over for the user when its response is, in whatever way that  *)
(* ended and whatever was still to be read: the widget is not left         *)
(* streaming.                                                              *)
Settles == (\E t \in DOMAIN turns : Over(t)) ~> ~streaming

=============================================================================
