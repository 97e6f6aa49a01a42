-------------------------- MODULE LLMStreamProofs ---------------------------
(***************************************************************************)
(* Theorems about LLMStream's safety, for every channel capacity and every *)
(* number of text chunks.                                                  *)
(***************************************************************************)
EXTENDS LLMStream, TLAPS

(* The channel's facts the proofs need, without its order: what it holds   *)
(* before its last chunk is text, and a terminal chunk ends the sending.   *)
Sending == pc \in {"read", "send", "trysend"}

LastTerminal ==
  \A i \in 1..Len(ch) : ch[i] # "delta" => i = Len(ch) /\ ~Sending

(* Where the text chunks are while the consumer listens, unless the        *)
(* cancelled context made the provider give one up.                        *)
Accounted ==
  reading = "loop" =>
    /\ received + Len(ch) <= sent + 1
    /\ ch = <<>> \/ ch[Len(ch)] = "delta" => received + Len(ch) <= sent
    /\ pc = "read" => received + Len(ch) = sent
    /\ pc = "send" /\ pending = "delta" => received + Len(ch) + 1 = sent
    /\ pc \in {"send", "trysend"} /\ pending = "done" => received + Len(ch) = sent
    /\ ch # <<>> /\ ch[Len(ch)] = "done" => received + Len(ch) = sent + 1

(* Only the end of the stream makes the provider say Done. *)
Ended == upstream \in {"stopped", "cut"}

DoneIsEarned ==
  /\ pc \in {"send", "trysend"} /\ pending = "done" => Ended
  /\ \A i \in 1..Len(ch) : ch[i] = "done" => Ended

(* While the client is there and the stream was not cut, the terminal      *)
(* chunk is under way or in the channel.                                   *)
TerminalComes ==
  /\ ctx = "cancelled" /\ ~clientGone => reading # "loop"
  /\ pc = "trysend" => clientGone \/ reading # "loop" \/ upstream = "cut"
  /\ reading = "loop" /\ ~Sending =>
       clientGone \/ upstream = "cut" \/ (ch # <<>> /\ ch[Len(ch)] # "delta")

Left ==
  /\ (reading = "loop") <=> (outcome = "none")
  /\ outcome = "done" => received = sent /\ ~Sending /\ Ended
  /\ charges > 0 => charges = 1 /\ outcome = "done"

Inv ==
  /\ TypeOK /\ LastTerminal /\ Accounted /\ DoneIsEarned /\ TerminalComes /\ Left
  /\ outcome = "closed" /\ ~clientGone => upstream = "cut"
  /\ outcome = "closed" => ~Sending
  /\ pc = "trysend" => pending # "delta"
  /\ closed <=> pc = "exited"

-----------------------------------------------------------------------------

LEMMA AppendFacts ==
  ASSUME NEW T, NEW s \in Seq(T), NEW x \in T
  PROVE  /\ Append(s, x) \in Seq(T) /\ Append(s, x) # <<>>
         /\ Len(Append(s, x)) = Len(s) + 1 /\ Len(s) \in Nat
         /\ \A i \in 1..Len(s) : Append(s, x)[i] = s[i]
         /\ Append(s, x)[Len(s) + 1] = x
OBVIOUS

LEMMA TailFacts ==
  ASSUME NEW T, NEW s \in Seq(T), s # <<>>
  PROVE  /\ Tail(s) \in Seq(T)
         /\ Len(s) \in Nat /\ Len(s) >= 1 /\ Len(Tail(s)) = Len(s) - 1
         /\ \A i \in 1..Len(Tail(s)) : Tail(s)[i] = s[i + 1]
         /\ Head(s) = s[1] /\ Head(s) \in T
         /\ Tail(s) # <<>> => Len(s) >= 2 /\ Tail(s)[Len(Tail(s))] = s[Len(s)]
OBVIOUS

LEMMA InitInv == Init => Inv
<1>. SUFFICES ASSUME Init PROVE Inv
  OBVIOUS
<1>1. ch = <<>> /\ Len(ch) = 0 /\ ch \in Seq(Chunks) /\ 0 <= Cap
  BY StreamAssumption DEF Init
<1>2. TypeOK
  <2>1. pending \in Chunks
    BY DEF Init, Chunks
  <2>2. sent \in 0..MaxDeltas /\ received \in 0..MaxDeltas /\ Len(ch) <= Cap
    BY <1>1, StreamAssumption DEF Init
  <2>. QED
    BY <1>1, <2>1, <2>2 DEF Init, TypeOK
<1>3. \A i \in 1..Len(ch) : FALSE
  BY <1>1
<1>4. LastTerminal /\ Accounted /\ DoneIsEarned
  BY <1>1, <1>3 DEF Init, LastTerminal, Accounted, DoneIsEarned
<1>5. TerminalComes /\ Left
  BY <1>1 DEF Init, TerminalComes, Left, Sending
<1>. QED
  BY <1>2, <1>4, <1>5 DEF Init, Inv

USE DEF Inv, LastTerminal, Accounted, DoneIsEarned, TerminalComes, Left, Sending, Ended

LEMMA ContextInv == Inv /\ (Disconnect \/ ServeReturns) => Inv'
<1>. USE DEF TypeOK, upstreamVars, providerVars, consumerVars
<1>1. Inv /\ Disconnect => Inv'
  BY DEF Disconnect
<1>2. Inv /\ ServeReturns => Inv'
  BY DEF ServeReturns
<1>. QED
  BY <1>1, <1>2

(* The provider takes something from the upstream. *)
LEMMA ReadInv ==
  Inv /\ (ReadDelta \/ ReadStop \/ ReadCut \/ ReadError \/ ReadAborted) => Inv'
<1>. SUFFICES ASSUME Inv, ReadDelta \/ ReadStop \/ ReadCut \/ ReadError \/ ReadAborted
     PROVE  Inv'
  OBVIOUS
<1>. USE StreamAssumption DEF Emit, TypeOK, Chunks, upstreamVars, consumerVars, LineTaken
<1>1. CASE ReadDelta
  BY <1>1 DEF ReadDelta
<1>2. CASE ReadStop
  BY <1>2 DEF ReadStop
<1>3. CASE ReadCut
  BY <1>3 DEF ReadCut
<1>4. CASE ReadError
  BY <1>4 DEF ReadError
<1>5. CASE ReadAborted
  BY <1>5 DEF ReadAborted
<1>. QED
  BY <1>1, <1>2, <1>3, <1>4, <1>5

(* It puts its chunk into the channel. *)
LEMMA SentInv ==
  ASSUME Inv, pc \in {"send", "trysend"}, Len(ch) < Cap, ch' = Append(ch, pending),
         pc' = (IF pc = "send" /\ pending = "delta" THEN "read" ELSE "close"),
         pc = "trysend" => pending # "delta",
         UNCHANGED <<kind, consumer, ctx, clientGone, upstreamVars, pending, closed, consumerVars>>
  PROVE  Inv'
<1>1. /\ ch \in Seq(Chunks) /\ pending \in Chunks /\ Len(ch) \in Nat /\ Cap \in Nat
  BY StreamAssumption DEF TypeOK
<1>2. /\ ch' \in Seq(Chunks) /\ ch' # <<>> /\ Len(ch') = Len(ch) + 1
      /\ \A i \in 1..Len(ch) : ch'[i] = ch[i] /\ ch[i] = "delta"
      /\ ch'[Len(ch')] = pending
  BY <1>1, AppendFacts
<1>3. TypeOK'
  BY <1>1, <1>2 DEF TypeOK, upstreamVars, consumerVars
<1>4. LastTerminal'
  BY <1>1, <1>2, <1>3 DEF Chunks
<1>5. Accounted'
  BY <1>1, <1>2, <1>3 DEF upstreamVars, consumerVars, TypeOK, Chunks
<1>6. DoneIsEarned'
  BY <1>1, <1>2, <1>3 DEF upstreamVars, consumerVars, TypeOK, Chunks
<1>7. TerminalComes'
  BY <1>1, <1>2, <1>3 DEF upstreamVars, consumerVars, TypeOK, Chunks
<1>8. Left'
  BY <1>1, <1>2, <1>3 DEF upstreamVars, consumerVars, TypeOK, Chunks
<1>. QED
  BY <1>3, <1>4, <1>5, <1>6, <1>7, <1>8 DEF upstreamVars, consumerVars

LEMMA SendInv == Inv /\ (Send \/ SendAbandoned \/ TrySend \/ Close) => Inv'
<1>. SUFFICES ASSUME Inv, Send \/ SendAbandoned \/ TrySend \/ Close PROVE Inv'
  OBVIOUS
<1>0. Len(ch) \in Nat /\ Cap \in Nat
  BY StreamAssumption DEF TypeOK
<1>1. CASE Send
  BY <1>1, SentInv DEF Send, Moved
<1>2. CASE SendAbandoned
  BY <1>0, <1>2 DEF SendAbandoned, Moved, TypeOK, Chunks, upstreamVars, consumerVars
<1>3. CASE TrySend
  <2>1. CASE Len(ch) < Cap
    BY <1>3, <2>1, SentInv DEF TrySend, Moved
  <2>2. CASE ~(Len(ch) < Cap)
    BY <1>0, <1>3, <2>2, StreamAssumption
    DEF TrySend, Moved, TypeOK, Chunks, upstreamVars, consumerVars
  <2>. QED
    BY <2>1, <2>2
<1>4. CASE Close
  BY <1>0, <1>4 DEF Close, TypeOK, upstreamVars, consumerVars
<1>. QED
  BY <1>1, <1>2, <1>3, <1>4

(* The consumer takes a chunk. *)
LEMMA ReceiveInv == Inv /\ Receive => Inv'
<1>. SUFFICES ASSUME Inv, Receive PROVE Inv'
  OBVIOUS
<1>1. ch \in Seq(Chunks) /\ ch # <<>> /\ Cap \in Nat
  BY StreamAssumption DEF TypeOK, Receive
<1>2. /\ ch' \in Seq(Chunks) /\ Len(ch) \in Nat /\ Len(ch) >= 1 /\ Len(ch') = Len(ch) - 1
      /\ \A i \in 1..Len(ch') : ch'[i] = ch[i + 1]
      /\ Head(ch) = ch[1] /\ Head(ch) \in Chunks
      /\ ch' # <<>> => Len(ch) >= 2 /\ ch'[Len(ch')] = ch[Len(ch)]
  BY <1>1, TailFacts DEF Receive
<1>3. /\ UNCHANGED <<kind, consumer, ctx, clientGone, upstream, sent, pc, pending, closed>>
      /\ reading = "loop" /\ outcome = "none"
  BY DEF Receive, upstreamVars, providerVars
<1>. USE DEF TypeOK
<1>4. CASE Head(ch) = "error"
  <2>1. /\ reading' = "left" /\ outcome' = "error" /\ UNCHANGED <<received, charges>>
    BY <1>4 DEF Receive, TurnChunk, ClassifyChunk, Leave
  <2>. QED
    BY <1>1, <1>2, <1>3, <1>4, <2>1
<1>5. CASE Head(ch) = "done"
  <2>1. /\ reading' = "left" /\ outcome' = "done" /\ UNCHANGED received
        /\ charges' = charges + 1 \/ charges' = charges
    BY <1>5 DEF Receive, TurnChunk, ClassifyChunk, Leave
  <2>2. Len(ch) = 1 /\ ~Sending /\ received = sent /\ Ended /\ charges = 0
    BY <1>2, <1>3, <1>5
  <2>. QED
    BY <1>1, <1>2, <1>3, <2>1, <2>2
<1>6. CASE Head(ch) = "delta"
  <2>1. /\ received' = received + 1 /\ UNCHANGED <<reading, outcome, charges>>
    BY <1>6 DEF Receive, TurnChunk, ClassifyChunk, Leave
  <2>2. received + 1 \in 0..MaxDeltas
    <3>1. Len(ch) = 1 \/ Len(ch) >= 2
      BY <1>2
    <3>. QED
      BY <1>1, <1>2, <1>3, <1>6, <3>1, StreamAssumption
  <2>3. TypeOK'
    BY <1>1, <1>2, <1>3, <2>1, <2>2
  <2>4. LastTerminal' /\ Accounted'
    BY <1>1, <1>2, <1>3, <1>6, <2>1
  <2>5. DoneIsEarned' /\ TerminalComes' /\ Left'
    BY <1>1, <1>2, <1>3, <1>6, <2>1
  <2>. QED
    BY <1>3, <2>1, <2>3, <2>4, <2>5
<1>. QED
  BY <1>2, <1>4, <1>5, <1>6 DEF Chunks

LEMMA LeaveInv == Inv /\ (ReceiveClosed \/ TurnGone \/ Drain) => Inv'
<1>. SUFFICES ASSUME Inv, ReceiveClosed \/ TurnGone \/ Drain PROVE Inv'
  OBVIOUS
<1>. USE DEF TypeOK, upstreamVars, providerVars
<1>1. CASE ReceiveClosed
  BY <1>1 DEF ReceiveClosed, Leave
<1>2. CASE TurnGone
  BY <1>2 DEF TurnGone
<1>3. CASE Drain
  <2>1. CASE ch # <<>> /\ ch' = Tail(ch) /\ UNCHANGED reading
    <3>1. /\ ch' \in Seq(Chunks) /\ Len(ch) \in Nat /\ Len(ch') = Len(ch) - 1
          /\ \A i \in 1..Len(ch') : ch'[i] = ch[i + 1]
      BY <2>1, TailFacts
    <3>2. /\ reading = "drain" /\ Cap \in Nat
          /\ UNCHANGED <<kind, consumer, ctx, clientGone, upstream, sent, pc, pending, closed,
                        reading, outcome, received, charges>>
      BY <1>3, <2>1, StreamAssumption DEF Drain
    <3>3. TypeOK' /\ LastTerminal'
      BY <3>1, <3>2
    <3>4. DoneIsEarned' /\ Accounted' /\ TerminalComes' /\ Left'
      BY <3>1, <3>2
    <3>. QED
      BY <3>2, <3>3, <3>4
  <2>2. CASE ch = <<>> /\ closed /\ reading' = "left" /\ UNCHANGED ch
    BY <1>3, <2>2 DEF Drain
  <2>. QED
    BY <1>3, <2>1, <2>2 DEF Drain
<1>. QED
  BY <1>1, <1>2, <1>3

LEMMA NextInv == Inv /\ [Next]_vars => Inv'
<1>1. Inv /\ UNCHANGED vars => Inv'
  BY DEF vars, TypeOK, upstreamVars, providerVars, consumerVars
<1>. QED
  BY <1>1, ContextInv, ReadInv, SendInv, ReceiveInv, LeaveInv DEF Next, Provider, Consumer

HIDE DEF Inv, LastTerminal, Accounted, DoneIsEarned, TerminalComes, Left, Sending, Ended

(* Every variable keeps its type; the channel stays within its capacity. *)
THEOREM StreamTyped == Spec => []TypeOK
<1>1. Inv => TypeOK
  BY DEF Inv
<1>. QED
  BY <1>1, InitInv, NextInv, PTL DEF Spec

(* A consumer that ends on the Done chunk has passed on every text chunk. *)
THEOREM NothingLost == Spec => []DoneMeansAll
<1>1. Inv => DoneMeansAll
  BY DEF DoneMeansAll, Inv, Left
<1>. QED
  BY <1>1, InitInv, NextInv, PTL DEF Spec

(* No error, and no cancelled context, is ever charged; nothing twice. *)
THEOREM ErrorsAreFree == Spec => []ErrorNotCharged
<1>1. Inv => ErrorNotCharged
  BY DEF ErrorNotCharged, Inv, Left, Ended
<1>. QED
  BY <1>1, InitInv, NextInv, PTL DEF Spec

(* A client that stays gets its terminal frame, unless the stream was cut. *)
THEOREM ClientIsTold == Spec => []TerminalFrame
<1>1. Inv => TerminalFrame
  BY DEF TerminalFrame, Inv
<1>. QED
  BY <1>1, InitInv, NextInv, PTL DEF Spec

=============================================================================
