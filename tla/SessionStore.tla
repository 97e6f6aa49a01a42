---------------------------- MODULE SessionStore ----------------------------
(***************************************************************************)
(* auth.Store: the relay's in-memory session store                         *)
(* (relay/internal/auth/store.go).  A session is issued by /init, lives    *)
(* SessionTTL from its creation (not from its last use), and carries the   *)
(* count of its completed turns and of the input tokens they used.         *)
(*                                                                         *)
(* Every method holds the store's mutex, so each is one step.  The module  *)
(* holds the state and the methods; TurnHandler composes them with the     *)
(* HTTP handlers that call them.                                           *)
(***************************************************************************)
EXTENDS GoBasics

CONSTANTS
  Sessions,        (* the UUIDs uuid.New may return; none is returned twice *)
  MaxTurns,        (* per-session turn cap, 0 = no cap                      *)
  MaxInputTokens,  (* per-session input-token cap, 0 = no cap               *)
  SessionTTL       (* lifetime in clock ticks, 0 = no expiry                *)

ASSUME StoreAssumption ==
  /\ MaxTurns \in Nat
  /\ MaxInputTokens \in Nat
  /\ SessionTTL \in Nat

VARIABLES
  clock,        (* time.Now, in ticks                                       *)
  issued,       (* every UUID handed out so far, over all process lifetimes *)
  sessions,     (* Store.sessions                                           *)
  sessionMeta   (* Store.sessionMeta                                        *)

storeVars == <<issued, sessions, sessionMeta>>

Meta == [createdAt : Nat, turns : Nat, cumInputTokens : Nat]

StoreTypeOK ==
  /\ clock \in Nat
  /\ issued \subseteq Sessions
  /\ sessions \subseteq issued
  /\ DOMAIN sessionMeta \subseteq issued
  /\ sessionMeta \in [DOMAIN sessionMeta -> Meta]

StoreInit ==
  /\ clock = 0
  /\ issued = {}
  /\ sessions = {}
  /\ sessionMeta = EmptyMap

-----------------------------------------------------------------------------

Age(s) == clock - sessionMeta[s].createdAt

Expired(s) == SessionTTL > 0 /\ Age(s) >= SessionTTL

Evict(s) ==
  /\ sessions' = sessions \ {s}
  /\ sessionMeta' = Delete(sessionMeta, s)

(* Issue records a fresh id in both maps.  It evicts nothing. *)
Issue(s) ==
  /\ s \notin issued
  /\ issued' = issued \cup {s}
  /\ sessions' = sessions \cup {s}
  /\ sessionMeta' =
       Put(sessionMeta, s, [createdAt |-> clock, turns |-> 0, cumInputTokens |-> 0])

(* What Validate answers, and what it does to the store. *)
Valid(s) == s \in sessions /\ ~(s \in DOMAIN sessionMeta /\ Expired(s))

Validate(s) ==
  /\ IF s \in sessions /\ s \in DOMAIN sessionMeta /\ Expired(s)
     THEN Evict(s)
     ELSE UNCHANGED <<sessions, sessionMeta>>
  /\ UNCHANGED issued

(* Mutant: the cap is compared one turn too late. *)
TurnsExhaustedLate(m) == MaxTurns > 0 /\ m.turns > MaxTurns

TurnsExhausted(m) == MaxTurns > 0 /\ m.turns >= MaxTurns

TokensExhausted(m) == MaxInputTokens > 0 /\ m.cumInputTokens >= MaxInputTokens

(* The code CheckSession answers with, "" when the turn may go on. *)
CheckCode(s) ==
  IF s \notin DOMAIN sessionMeta \/ Expired(s) THEN "session_expired"
  ELSE IF TurnsExhausted(sessionMeta[s])        THEN "session_turns_exhausted"
  ELSE IF TokensExhausted(sessionMeta[s])       THEN "session_tokens_exhausted"
  ELSE ""

CheckSession(s) ==
  /\ IF s \in DOMAIN sessionMeta /\ Expired(s)
     THEN Evict(s)
     ELSE UNCHANGED <<sessions, sessionMeta>>
  /\ UNCHANGED issued

Used(m, inputTokens) ==
  [m EXCEPT !.turns = @ + 1, !.cumInputTokens = @ + NonNegative(inputTokens)]

(* Mutant: the turn of an evicted session brings its entry back. *)
RecordTurnUpsert(s, inputTokens) ==
  /\ sessionMeta' =
       IF s \in DOMAIN sessionMeta
       THEN [sessionMeta EXCEPT ![s] = Used(@, inputTokens)]
       ELSE Put(sessionMeta, s, [createdAt |-> clock, turns |-> 1,
                                 cumInputTokens |-> NonNegative(inputTokens)])
  /\ UNCHANGED <<issued, sessions>>

(* A turn of a session that was evicted meanwhile is not recorded. *)
RecordTurn(s, inputTokens) ==
  /\ IF s \in DOMAIN sessionMeta
     THEN sessionMeta' = [sessionMeta EXCEPT ![s] = Used(@, inputTokens)]
     ELSE UNCHANGED sessionMeta
  /\ UNCHANGED <<issued, sessions>>

(* The store is not persisted: a new process starts empty. *)
LoseSessions ==
  /\ sessions' = {}
  /\ sessionMeta' = EmptyMap
  /\ UNCHANGED issued

=============================================================================
