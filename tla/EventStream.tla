---------------------------- MODULE EventStream ----------------------------
(***************************************************************************)
(* core/src/sse.ts: how the widget takes the relay's frames out of a       *)
(* response that arrives in chunks cut anywhere.                           *)
(*                                                                         *)
(* Text is a sequence of pieces: a frame's line is "head" (data: and the   *)
(* first part of its JSON) and then the frame's kind (the rest); a line    *)
(* ends in "LF", or in "CR" "LF" where a proxy has rewritten it.  A head   *)
(* without the rest does not parse and is skipped.                         *)
(***************************************************************************)
EXTENDS Integers, Sequences

Kinds == {"delta", "done", "error"}
Pieces == Kinds \cup {"head", "CR", "LF"}

(* writeSSEFrame, with the line end the client sees *)
Frame(frame, eol) == <<"head", frame>> \o eol \o eol

(* The replacements are made in each chunk by itself: a CR LF cut in two   *)
(* becomes two LFs.                                                        *)
Normalised(chunk) ==
  LET text[i \in 0..Len(chunk)] ==
        IF i = 0 THEN <<>>
        ELSE IF chunk[i] = "CR" THEN Append(text[i - 1], "LF")
        ELSE IF chunk[i] = "LF" /\ i > 1 /\ chunk[i - 1] = "CR" THEN text[i - 1]
        ELSE Append(text[i - 1], chunk[i])
  IN  text[Len(chunk)]

(* Where buffer.split('\n\n') cuts for the last time, 0 for nowhere *)
LastCut(text) ==
  LET ends[i \in 0..Len(text)] ==
        /\ i > 1
        /\ text[i] = "LF" /\ text[i - 1] = "LF"
        /\ ~ends[i - 1]
  IN  CHOOSE i \in 0..Len(text) :
        /\ i = 0 \/ ends[i]
        /\ \A j \in (i + 1)..Len(text) : ~ends[j]

(* What dispatchBlock hands to onFrame of one kind: the places where the   *)
(* text has such a frame's whole line                                      *)
FramesIn(text, kind) == {i \in 2..Len(text) : text[i - 1] = "head" /\ text[i] = kind}

(* The events of the buffer, and what stays in it *)
Blocks(text) == SubSeq(text, 1, LastCut(text))

(* Mutant: what is left of a chunk is not kept for the next one. *)
RestDropped(text) == <<>>

Rest(text) == SubSeq(text, LastCut(text) + 1, Len(text))

=============================================================================
