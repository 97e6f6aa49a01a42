----------------------------- MODULE LLMStream ------------------------------
(***************************************************************************)
(* One call of Provider.Chat: the provider's goroutine, the bounded        *)
(* channel it fills and the consumer that empties it, which is either the  *)
(* turn handler's select loop or classify's range loop.  The upstream LLM  *)
(* is the environment: it may answer, cut the stream, fail or stall.       *)
(*                                                                         *)
(* Sources: relay/internal/llm/{ollama,anthropic,openai,gemini},           *)
(* relay/internal/server/turn.go, relay/internal/classify/classify.go.     *)
(***************************************************************************)
EXTENDS Integers, Sequences

CONSTANTS
  Cap,         (* make(chan llm.ChatChunk, 32)                             *)
  MaxDeltas    (* bound of the model: text chunks the upstream sends       *)

ASSUME StreamAssumption == Cap \in Nat \ {0} /\ MaxDeltas \in Nat

VARIABLES
  kind,       (* which provider is configured                              *)
  consumer,   (* who reads the channel                                     *)
  ctx,        (* r.Context(): "live", "cancelled"                          *)
  clientGone, (* the client disconnected: why ctx is cancelled early       *)
  upstream,   (* "open", then "stopped", "cut" or "failed"                 *)
  sent,       (* text chunks the upstream has sent and the provider read   *)
  pc,         (* the provider's goroutine                                  *)
  pending,    (* the chunk it is about to send                             *)
  ch,         (* the channel's buffer                                      *)
  closed,     (* close(ch)                                                 *)
  reading,    (* the consumer: "loop", "drain" or "left"                   *)
  outcome,    (* why the consumer left its loop, "none" before             *)
  received,   (* text chunks it passed on                                  *)
  charges     (* Commit and RecordTurn calls                               *)

upstreamVars == <<upstream, sent>>
providerVars == <<pc, pending>>
consumerVars == <<reading, outcome, received, charges>>
vars == <<kind, consumer, ctx, clientGone, upstreamVars, providerVars, ch, closed, consumerVars>>

Kinds == {"ollama", "anthropic", "openai", "gemini"}
Chunks == {"delta", "done", "error"}

TypeOK ==
  /\ kind \in Kinds
  /\ consumer \in {"turn", "classify"}
  /\ ctx \in {"live", "cancelled"}
  /\ clientGone \in BOOLEAN
  /\ upstream \in {"open", "stopped", "cut", "failed"}
  /\ sent \in 0..MaxDeltas
  /\ pc \in {"read", "send", "trysend", "close", "exited"}
  /\ pending \in Chunks
  /\ ch \in Seq(Chunks) /\ Len(ch) <= Cap
  /\ closed \in BOOLEAN
  /\ reading \in {"loop", "drain", "left"}
  /\ outcome \in {"none", "done", "error", "closed", "gone"}
  /\ received \in 0..MaxDeltas
  /\ charges \in Nat

Init ==
  /\ kind \in Kinds
  /\ consumer \in {"turn", "classify"}
  /\ ctx = "live" /\ clientGone = FALSE
  /\ upstream = "open" /\ sent = 0
  /\ pc = "read" /\ pending = "delta"
  /\ ch = <<>> /\ closed = FALSE
  /\ reading = "loop" /\ outcome = "none" /\ received = 0 /\ charges = 0

-----------------------------------------------------------------------------
(* The request's context. *)

(* The client's connection is lost. *)
Disconnect ==
  /\ ctx = "live"
  /\ ctx' = "cancelled" /\ clientGone' = TRUE
  /\ UNCHANGED <<kind, consumer, upstreamVars, providerVars, ch, closed, consumerVars>>

(* net/http cancels the context of a request whose handler has returned. *)
ServeReturns ==
  /\ outcome # "none" /\ ctx = "live"
  /\ ctx' = "cancelled"
  /\ UNCHANGED <<kind, consumer, clientGone, upstreamVars, providerVars, ch, closed, consumerVars>>

-----------------------------------------------------------------------------
(* The provider's goroutine. *)

(* Emit(how, chunk): go and send chunk, waiting for room ("send") or not   *)
(* ("trysend").                                                            *)
Emit(how, chunk) ==
  /\ pc' = how /\ pending' = chunk
  /\ UNCHANGED <<kind, consumer, ctx, clientGone, ch, closed, consumerVars>>

(* Ollama's loop looks at the context after each line it scanned. *)
LineTaken == pc = "read" /\ upstream = "open" /\ (kind = "ollama" => ctx = "live")

ReadDelta ==
  /\ LineTaken /\ sent < MaxDeltas
  /\ sent' = sent + 1
  /\ Emit("send", "delta")
  /\ UNCHANGED upstream

(* Mutant: the Done chunk of a complete answer is best effort too. *)
ReadStopBestEffort ==
  /\ LineTaken
  /\ upstream' = "stopped"
  /\ Emit("trysend", "done")
  /\ UNCHANGED sent

(* The answer is complete: done:true, message_stop, [DONE], end of the iterator. *)
ReadStop ==
  /\ LineTaken
  /\ upstream' = "stopped"
  /\ Emit("send", "done")
  /\ UNCHANGED sent

(* The stream ends cleanly but early.  OpenAI's and Gemini's cannot be     *)
(* told from a complete answer; for the other two the Done chunk is best   *)
(* effort.                                                                 *)
ReadCut ==
  /\ pc = "read" /\ upstream = "open"
  /\ upstream' = "cut"
  /\ Emit(IF kind \in {"ollama", "anthropic"} THEN "trysend" ELSE "send", "done")
  /\ UNCHANGED sent

ReadError ==
  /\ pc = "read" /\ upstream = "open"
  /\ upstream' = "failed"
  /\ Emit("send", "error")
  /\ UNCHANGED sent

(* Mutant: the upstream request is made without the context. *)
ReadIgnoresContext == FALSE

(* The upstream request carries the context, so a read that waits fails    *)
(* when the context is cancelled; Ollama's loop tries to say so.           *)
ReadAborted ==
  /\ pc = "read" /\ ctx = "cancelled"
  /\ Emit("send", "error") \/ (kind = "ollama" /\ Emit("trysend", "error"))
  /\ UNCHANGED upstreamVars

Moved(next) ==
  /\ pc' = next
  /\ UNCHANGED <<kind, consumer, ctx, clientGone, upstreamVars, closed, consumerVars>>

(* Mutant: the channel has no bound. *)
SendUnbounded ==
  /\ pc = "send"
  /\ ch' = Append(ch, pending)
  /\ Moved(IF pending = "delta" THEN "read" ELSE "close")
  /\ UNCHANGED pending

(* Mutant: a full channel loses the chunk instead of blocking. *)
SendLossy ==
  /\ pc = "send"
  /\ ch' = IF Len(ch) < Cap THEN Append(ch, pending) ELSE ch
  /\ Moved(IF pending = "delta" THEN "read" ELSE "close")
  /\ UNCHANGED pending

(* case ch <- chunk: *)
Send ==
  /\ pc = "send" /\ Len(ch) < Cap
  /\ ch' = Append(ch, pending)
  /\ Moved(IF pending = "delta" THEN "read" ELSE "close")
  /\ UNCHANGED pending

(* case <-ctx.Done(): *)
SendAbandoned ==
  /\ pc = "send" /\ ctx = "cancelled"
  /\ IF pending = "delta"
     THEN Moved("trysend") /\ pending' = "error"
     ELSE Moved("close") /\ UNCHANGED pending
  /\ UNCHANGED ch

(* select with a default: *)
TrySend ==
  /\ pc = "trysend"
  /\ ch' = IF Len(ch) < Cap THEN Append(ch, pending) ELSE ch
  /\ Moved("close")
  /\ UNCHANGED pending

(* Mutant: the channel is never closed. *)
CloseForgotten ==
  /\ pc = "close"
  /\ pc' = "exited"
  /\ UNCHANGED <<kind, consumer, ctx, clientGone, upstreamVars, pending, ch, closed, consumerVars>>

(* defer close(ch) *)
Close ==
  /\ pc = "close"
  /\ pc' = "exited" /\ closed' = TRUE
  /\ UNCHANGED <<kind, consumer, ctx, clientGone, upstreamVars, pending, ch, consumerVars>>

Provider ==
  \/ ReadDelta \/ ReadStop \/ ReadCut \/ ReadError \/ ReadAborted
  \/ Send \/ SendAbandoned \/ TrySend \/ Close

-----------------------------------------------------------------------------
(* The consumer. *)

Leave(why) == reading' = "left" /\ outcome' = why

(* Mutant: Done is looked at before Err. *)
TurnChunkDoneFirst(c) ==
  \/ c = "delta" /\ received' = received + 1 /\ UNCHANGED <<reading, outcome, charges>>
  \/ c # "delta" /\ Leave("done") /\ charges' = charges + 1 /\ UNCHANGED received

(* The turn handler writes a frame for each chunk, the error frame before  *)
(* it looks at Done: an error chunk has both set.                          *)
TurnChunk(c) ==
  \/ c = "error" /\ Leave("error") /\ UNCHANGED <<received, charges>>
  \/ c = "delta" /\ received' = received + 1 /\ UNCHANGED <<reading, outcome, charges>>
  \/ c = "done" /\ Leave("done") /\ charges' = charges + 1 /\ UNCHANGED received

(* doClassify collects the text. *)
ClassifyChunk(c) ==
  \/ c = "error" /\ Leave("error") /\ UNCHANGED <<received, charges>>
  \/ c = "delta" /\ received' = received + 1 /\ UNCHANGED <<reading, outcome, charges>>
  \/ c = "done" /\ Leave("done") /\ UNCHANGED <<received, charges>>

Receive ==
  /\ reading = "loop" /\ ch # <<>>
  /\ IF consumer = "turn" THEN TurnChunk(Head(ch)) ELSE ClassifyChunk(Head(ch))
  /\ ch' = Tail(ch)
  /\ UNCHANGED <<kind, consumer, ctx, clientGone, upstreamVars, providerVars, closed>>

(* The channel closed without a terminal chunk: no frame, no charge. *)
ReceiveClosed ==
  /\ reading = "loop" /\ ch = <<>> /\ closed
  /\ Leave("closed")
  /\ UNCHANGED <<kind, consumer, ctx, clientGone, upstreamVars, providerVars, ch, closed,
                 received, charges>>

(* Only the turn handler selects on ctx.Done; it leaves a goroutine behind *)
(* that drains the channel.                                                *)
TurnGone ==
  /\ consumer = "turn" /\ reading = "loop" /\ ctx = "cancelled"
  /\ reading' = "drain" /\ outcome' = "gone"
  /\ UNCHANGED <<kind, consumer, ctx, clientGone, upstreamVars, providerVars, ch, closed,
                 received, charges>>

Drain ==
  /\ reading = "drain"
  /\ \/ ch # <<>> /\ ch' = Tail(ch) /\ UNCHANGED reading
     \/ ch = <<>> /\ closed /\ reading' = "left" /\ UNCHANGED ch
  /\ UNCHANGED <<kind, consumer, ctx, clientGone, upstreamVars, providerVars, closed,
                 outcome, received, charges>>

Consumer == Receive \/ ReceiveClosed \/ TurnGone \/ Drain

Next == Disconnect \/ ServeReturns \/ Provider \/ Consumer

(* The provider's own steps and the consumer's are taken by runnable       *)
(* goroutines, and net/http does cancel.  Nothing makes the upstream send, *)
(* nor the client leave.                                                   *)
Fairness ==
  /\ WF_vars(ServeReturns)
  /\ WF_vars(ReadAborted)
  /\ WF_vars(Send \/ SendAbandoned \/ TrySend \/ Close)
  /\ WF_vars(Consumer)

Spec == Init /\ [][Next]_vars /\ Fairness

-----------------------------------------------------------------------------
(* Properties. *)

(* A consumer that ends on the Done chunk has passed on every text chunk   *)
(* the provider read, however full the channel was in between.             *)
DoneMeansAll == outcome = "done" => received = sent

(* A turn is charged at most once, and never when the upstream failed or   *)
(* the provider reported the cancelled context: an error chunk also says   *)
(* Done.                                                                   *)
ErrorNotCharged ==
  charges > 0 => charges = 1 /\ outcome = "done" /\ upstream \in {"stopped", "cut"}

(* A client that stays gets a done or an error frame, unless the stream    *)
(* was cut: the best-effort chunk of a cut stream is the only one that a   *)
(* full channel may lose.                                                  *)
TerminalFrame == outcome = "closed" /\ ~clientGone => upstream = "cut"

(* Once the upstream has ended, one way or the other, the consumer leaves  *)
(* its loop, also when the terminal chunk was dropped.                     *)
StreamEnds == (upstream # "open") ~> (outcome # "none")

(* No goroutine outlives its request: when the consumer has left, the      *)
(* provider's goroutine and the drain come to an end, even if the upstream *)
(* stalls for ever.                                                        *)
NoGoroutineLeak == (outcome # "none") ~> (pc = "exited" /\ reading = "left")

(* What turn.go says of aborted streams: "An aborted stream means no       *)
(* Commit and no RecordTurn".  The code counts a stream that was cut.      *)
AbortedNotCounted == charges > 0 => upstream = "stopped"

=============================================================================
