---------------------------- MODULE TurnHandler -----------------------------
(***************************************************************************)
(* POST /v1/intake/turn under concurrency: the auth middleware, the two    *)
(* Phase 5 gates (session caps, daily budget) and the accounting after the *)
(* LLM's answer (relay/internal/server/turn.go, auth/middleware.go), over  *)
(* the session store and the budget tracker.                               *)
(*                                                                         *)
(* Each request is a goroutine.  The gates look at shared counters and the *)
(* accounting changes them only when the LLM has answered, so any number   *)
(* of requests may stand between the look and the change.  A request that  *)
(* ends, for any reason, leaves DOMAIN turn.                               *)
(***************************************************************************)
EXTENDS SessionStore, BudgetTracker, FiniteSets

CONSTANTS
  Requests,        (* the turns the relay serves at the same time           *)
  MaxTokens,       (* Deps.MaxTokens, the output estimate of every turn     *)
  Estimates,       (* what approximateInputTokens may return                *)
  MaxActualIn,     (* a provider reports at most this much input ...        *)
  MaxActualOut,    (* ... and this much output for one turn                 *)
  ModesAnonymous,  (* auth.modes.anonymous                                  *)
  MaxClock, MaxDay (* bounds of the model: ticks and midnights              *)

ASSUME TurnAssumption ==
  /\ IsFiniteSet(Requests)
  /\ MaxTokens \in Nat
  /\ Estimates \subseteq Nat
  /\ MaxActualIn \in Nat
  /\ MaxActualOut \in Nat
  /\ ModesAnonymous \in BOOLEAN

VARIABLE
  turn   (* the requests being served -> where each one is *)

vars == <<clock, issued, sessions, sessionMeta, today, tenants, turn>>

Stages == {"check", "reserve", "chat", "record"}

Turn == [stage : Stages, session : Sessions, tenant : Tenants,
         estIn : Estimates, in : 0..MaxActualIn]

TypeOK ==
  /\ StoreTypeOK
  /\ BudgetTypeOK
  /\ DOMAIN turn \subseteq Requests
  /\ turn \in [DOMAIN turn -> Turn]

Init ==
  /\ StoreInit
  /\ BudgetInit
  /\ turn = EmptyMap

-----------------------------------------------------------------------------
(* Time and the process. *)

Tick ==
  /\ clock < MaxClock
  /\ clock' = clock + 1
  /\ UNCHANGED <<storeVars, today, tenants, turn>>

Midnight ==
  /\ today < MaxDay
  /\ today' = today + 1
  /\ UNCHANGED <<clock, storeVars, tenants, turn>>

(* The process dies and is started again: every store is in memory.  The   *)
(* ids its clients hold are unknown to the new process.                    *)
Restart ==
  /\ LoseSessions
  /\ LoseBudget
  /\ turn' = EmptyMap
  /\ UNCHANGED <<clock, today>>

-----------------------------------------------------------------------------
(* The handlers. *)

At(r, stage) == r \in DOMAIN turn /\ turn[r].stage = stage

Goto(r, stage) == turn' = [turn EXCEPT ![r].stage = stage]

End(r) == turn' = Delete(turn, r)

(* initHandler past its captcha gate. *)
InitSession(s) ==
  /\ Issue(s)
  /\ UNCHANGED <<clock, today, tenants, turn>>

(* A request carrying a verified bearer token enters with whatever its     *)
(* X-Intake-Session says; the middleware does not look at it.              *)
ArriveBearer(r, s, t, e) ==
  /\ r \notin DOMAIN turn
  /\ turn' = Put(turn, r, [stage |-> "check", session |-> s, tenant |-> t,
                           estIn |-> e, in |-> 0])
  /\ UNCHANGED <<clock, storeVars, today, tenants>>

(* An anonymous one enters if Validate knows its session, else it is told  *)
(* 401; Validate evicts an expired session either way.                     *)
ArriveAnonymous(r, s, t, e) ==
  /\ ModesAnonymous
  /\ r \notin DOMAIN turn
  /\ Validate(s)
  /\ IF Valid(s)
     THEN turn' = Put(turn, r, [stage |-> "check", session |-> s, tenant |-> t,
                                estIn |-> e, in |-> 0])
     ELSE UNCHANGED turn
  /\ UNCHANGED <<clock, today, tenants>>

(* Gate 1: 401 session_expired or 429 *_exhausted end the request. *)
GateSession(r) ==
  /\ At(r, "check")
  /\ CheckSession(turn[r].session)
  /\ IF CheckCode(turn[r].session) = "" THEN Goto(r, "reserve") ELSE End(r)
  /\ UNCHANGED <<clock, today, tenants>>

(* Gate 2: 503 daily_budget_exhausted ends the request. *)
GateBudget(r) ==
  /\ At(r, "reserve")
  /\ Reserve(turn[r].tenant)
  /\ IF FitsBudget(turn[r].tenant, turn[r].estIn, MaxTokens) THEN Goto(r, "chat") ELSE End(r)
  /\ UNCHANGED <<clock, storeVars, today>>

(* provider.Chat failed (502), the stream carried an error chunk, it       *)
(* closed without a Done chunk, or the client is gone: the request ends    *)
(* and nothing is charged.                                                 *)
TurnFails(r) ==
  /\ At(r, "chat")
  /\ End(r)
  /\ UNCHANGED <<clock, storeVars, today, tenants>>

(* A Done chunk: first the budget ... *)
ChunkDone(r, in, out) ==
  /\ At(r, "chat")
  /\ Commit(turn[r].tenant, in, out)
  /\ turn' = [turn EXCEPT ![r].stage = "record", ![r].in = in]
  /\ UNCHANGED <<clock, storeVars, today>>

(* ... then the session, and the SSEDone frame. *)
Record(r) ==
  /\ At(r, "record")
  /\ RecordTurn(turn[r].session, turn[r].in)
  /\ End(r)
  /\ UNCHANGED <<clock, today, tenants>>

Next ==
  \/ Tick
  \/ Midnight
  \/ Restart
  \/ \E s \in Sessions : InitSession(s)
  \/ \E r \in Requests :
       \/ \E s \in Sessions, t \in Tenants, e \in Estimates :
            ArriveBearer(r, s, t, e) \/ ArriveAnonymous(r, s, t, e)
       \/ GateSession(r)
       \/ GateBudget(r)
       \/ TurnFails(r)
       \/ \E in \in 0..MaxActualIn, out \in 0..MaxActualOut : ChunkDone(r, in, out)
       \/ Record(r)

Spec == Init /\ [][Next]_vars

-----------------------------------------------------------------------------
(* Properties. *)

(* Requests of session s between the session gate and the end of the turn. *)
InFlight(s) == {r \in DOMAIN turn : turn[r].session = s /\ turn[r].stage # "check"}

(* Requests the budget let through for tenant t and has not charged yet. *)
Granted(t) == {r \in DOMAIN turn : turn[r].tenant = t /\ turn[r].stage = "chat"}

(* Store.sessions and Store.sessionMeta hold the same ids, so the          *)
(* middleware and the turn gate never disagree about which sessions exist, *)
(* also when a turn is recorded after its session was evicted under it.    *)
MapsAgree == sessions = DOMAIN sessionMeta

(* How far concurrent turns can carry a session past its caps: the gate    *)
(* looks at completed turns only, so with N requests served at once a      *)
(* session completes at most MaxTurns + N - 1 turns, counting those still  *)
(* under way, and uses less than its token cap plus N turns' worth.  One   *)
(* request at a time keeps to MaxTurns exactly.                            *)
SessionOvershoot ==
  \A s \in DOMAIN sessionMeta :
    /\ MaxTurns > 0 =>
         sessionMeta[s].turns + Cardinality(InFlight(s))
           <= MaxTurns - 1 + Cardinality(Requests)
    /\ MaxInputTokens > 0 =>
         sessionMeta[s].cumInputTokens + MaxActualIn * Cardinality(InFlight(s))
           <= MaxInputTokens - 1 + MaxActualIn * Cardinality(Requests)

(* How far a tenant's day can go past the daily budget, which Reserve      *)
(* checks without booking anything: by what the turns granted at the same  *)
(* time may use, wherever midnight falls between the grant and the charge. *)
BudgetOvershoot ==
  \A t \in DOMAIN tenants :
    /\ MaxDailyIn > 0 =>
         tenants[t].in + MaxActualIn * Cardinality(Granted(t))
           <= MaxDailyIn + MaxActualIn * Cardinality(Requests)
    /\ MaxDailyOut > 0 =>
         tenants[t].out + MaxActualOut * Cardinality(Granted(t))
           <= MaxDailyOut + MaxActualOut * Cardinality(Requests)

(* How the state is read as a state of the policy: expired sessions and    *)
(* counters of past days are as good as gone, and a request exists once it *)
(* is past the session gate.                                               *)
Lives(s) == ~(SessionTTL > 0 /\ clock - sessionMeta[s].createdAt >= SessionTTL)

Book == Restrict(sessionMeta, {s \in DOMAIN sessionMeta : Lives(s)})

SpentToday(t) ==
  IF t \in DOMAIN tenants /\ tenants[t].dayStart = today
  THEN [in |-> tenants[t].in, out |-> tenants[t].out]
  ELSE [in |-> 0, out |-> 0]

Spent == [t \in Tenants |-> SpentToday(t)]

PolicyStage == [reserve |-> "passed", chat |-> "granted", record |-> "charged"]

Admitted ==
  [r \in {q \in DOMAIN turn : turn[q].stage # "check"} |->
     [turn[r] EXCEPT !.stage = PolicyStage[@]]]

Policy == INSTANCE TurnPolicy WITH book <- Book, spent <- Spent, admitted <- Admitted

(* Lazy eviction and the lazy daily reset are invisible: whatever the      *)
(* handlers do is a step of the policy, which forgets both eagerly.        *)
ImplementsPolicy == Policy!PolicyInit /\ [][Policy!PolicyNext]_Policy!policyVars

=============================================================================
