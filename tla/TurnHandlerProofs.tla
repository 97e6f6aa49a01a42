------------------------- MODULE TurnHandlerProofs --------------------------
(***************************************************************************)
(* Theorems about TurnHandler, for every number of requests, sessions and  *)
(* tenants and every value of the caps.                                    *)
(***************************************************************************)
EXTENDS TurnHandler, FiniteSetTheorems, TLAPS

LEMMA DeleteFacts ==
  ASSUME NEW T, NEW m, m \in [DOMAIN m -> T], NEW k
  PROVE  /\ DOMAIN Delete(m, k) = DOMAIN m \ {k}
         /\ Delete(m, k) \in [DOMAIN m \ {k} -> T]
         /\ \A x \in DOMAIN m \ {k} : Delete(m, k)[x] = m[x]
BY DEF Delete, Restrict

LEMMA EmptyFacts ==
  ASSUME NEW T
  PROVE  DOMAIN EmptyMap = {} /\ EmptyMap \in [{} -> T]
BY DEF EmptyMap

-----------------------------------------------------------------------------
(* Type correctness, with the agreement of the two session maps, the fact  *)
(* that no counter is from a day to come, and that only an answered turn   *)
(* has a usage.                                                            *)

DaysPast == \A t \in DOMAIN tenants : tenants[t].dayStart <= today

NoUsageYet == \A r \in DOMAIN turn : turn[r].stage # "record" => turn[r].in = 0

Inv == TypeOK /\ MapsAgree /\ DaysPast /\ NoUsageYet

(* The store's own part, for the methods that change it. *)
StoreInv == StoreTypeOK /\ MapsAgree

LEMMA EvictStore ==
  ASSUME StoreInv, NEW s, Evict(s), UNCHANGED <<clock, issued>>
  PROVE  StoreInv'
<1>1. /\ DOMAIN sessionMeta' = DOMAIN sessionMeta \ {s}
      /\ sessionMeta' \in [DOMAIN sessionMeta' -> Meta]
  BY DeleteFacts DEF StoreInv, StoreTypeOK, Evict
<1>. QED
  BY <1>1 DEF StoreInv, StoreTypeOK, MapsAgree, Evict

LEMMA IssueStore ==
  ASSUME StoreInv, NEW s \in Sessions, Issue(s), UNCHANGED clock
  PROVE  StoreInv'
<1>1. [createdAt |-> clock, turns |-> 0, cumInputTokens |-> 0] \in Meta
  BY DEF StoreInv, StoreTypeOK, Meta
<1>2. /\ DOMAIN sessionMeta' = DOMAIN sessionMeta \cup {s}
      /\ sessionMeta' \in [DOMAIN sessionMeta' -> Meta]
  BY <1>1 DEF StoreInv, StoreTypeOK, Issue, Put
<1>. QED
  BY <1>2 DEF StoreInv, StoreTypeOK, MapsAgree, Issue

LEMMA RecordTurnStore ==
  ASSUME StoreInv, NEW s, NEW n \in Int, RecordTurn(s, n), UNCHANGED clock
  PROVE  StoreInv'
<1>1. NonNegative(n) \in Nat
  BY DEF NonNegative
<1>2. /\ DOMAIN sessionMeta' = DOMAIN sessionMeta
      /\ sessionMeta' \in [DOMAIN sessionMeta -> Meta]
  <2>1. ASSUME NEW m \in Meta PROVE Used(m, n) \in Meta
    <3>1. /\ DOMAIN m = {"createdAt", "turns", "cumInputTokens"}
          /\ m.turns + 1 \in Nat /\ m.cumInputTokens + NonNegative(n) \in Nat
      BY <1>1 DEF Meta
    <3>. QED
      BY <3>1 DEF Used, Meta
  <2>. QED
    BY <2>1 DEF StoreInv, StoreTypeOK, RecordTurn
<1>. QED
  BY <1>2 DEF StoreInv, StoreTypeOK, MapsAgree, RecordTurn

LEMMA LoseSessionsStore ==
  ASSUME StoreInv, LoseSessions, UNCHANGED clock
  PROVE  StoreInv'
BY EmptyFacts DEF StoreInv, StoreTypeOK, MapsAgree, LoseSessions

(* The budget's own part. *)
BudgetInv == BudgetTypeOK /\ DaysPast

LEMMA CurrentType ==
  ASSUME BudgetInv, NEW t
  PROVE  Current(t) \in Counters /\ Current(t).dayStart = today
BY DEF BudgetInv, BudgetTypeOK, DaysPast, Current, NoSpend, Counters

LEMMA PutCounters ==
  ASSUME BudgetInv, NEW t \in Tenants, NEW c \in Counters, c.dayStart = today,
         tenants' = Put(tenants, t, c), UNCHANGED today
  PROVE  BudgetInv'
<1>1. /\ DOMAIN tenants' = DOMAIN tenants \cup {t}
      /\ tenants' \in [DOMAIN tenants' -> Counters]
      /\ tenants'[t] = c
      /\ \A u \in DOMAIN tenants : u # t => tenants'[u] = tenants[u]
  BY DEF BudgetInv, BudgetTypeOK, Put
<1>2. \A u \in DOMAIN tenants' : tenants'[u].dayStart <= today'
  BY <1>1 DEF BudgetInv, BudgetTypeOK, DaysPast, Counters
<1>. QED
  BY <1>1, <1>2 DEF BudgetInv, BudgetTypeOK, DaysPast

LEMMA CommitType ==
  ASSUME BudgetInv, NEW t, NEW in \in Int, NEW out \in Int
  PROVE  LET c == [in       |-> Current(t).in + NonNegative(in),
                   out      |-> Current(t).out + NonNegative(out),
                   dayStart |-> Current(t).dayStart]
         IN  c \in Counters /\ c.dayStart = today
BY CurrentType DEF NonNegative, Counters

(* The requests' own part. *)
TurnInv == DOMAIN turn \subseteq Requests /\ turn \in [DOMAIN turn -> Turn] /\ NoUsageYet

LEMMA EndTurn ==
  ASSUME TurnInv, NEW r, End(r)
  PROVE  /\ TurnInv'
         /\ DOMAIN turn' = DOMAIN turn \ {r}
         /\ \A q \in DOMAIN turn' : turn'[q] = turn[q]
BY DEF TurnInv, NoUsageYet, End, Delete, Restrict

LEMMA GotoTurn ==
  ASSUME TurnInv, NEW r, NEW stage \in Stages, Goto(r, stage),
         r \in DOMAIN turn => turn[r].stage # "record"
  PROVE  /\ TurnInv'
         /\ DOMAIN turn' = DOMAIN turn
         /\ \A q \in DOMAIN turn : q # r => turn'[q] = turn[q]
         /\ r \in DOMAIN turn => /\ turn'[r] = [turn[r] EXCEPT !.stage = stage]
                                 /\ turn'[r].stage = stage
                                 /\ turn'[r].session = turn[r].session
                                 /\ turn'[r].tenant = turn[r].tenant
BY DEF TurnInv, NoUsageYet, Goto, Turn

(* A request that arrives: what ArriveBearer and ArriveAnonymous store. *)
Arrive(r, s, t, e) ==
  turn' = Put(turn, r, [stage |-> "check", session |-> s, tenant |-> t, estIn |-> e, in |-> 0])

LEMMA ArriveTurn ==
  ASSUME TurnInv, NEW r \in Requests, NEW s \in Sessions, NEW t \in Tenants,
         NEW e \in Estimates, Arrive(r, s, t, e)
  PROVE  /\ TurnInv'
         /\ DOMAIN turn' = DOMAIN turn \cup {r}
         /\ turn'[r].stage = "check"
         /\ \A q \in DOMAIN turn : q # r => turn'[q] = turn[q]
<1>1. [stage |-> "check", session |-> s, tenant |-> t, estIn |-> e, in |-> 0] \in Turn
  BY TurnAssumption DEF Turn, Stages
<1>. QED
  BY <1>1 DEF TurnInv, NoUsageYet, Arrive, Put

LEMMA InvParts == Inv <=> StoreInv /\ BudgetInv /\ TurnInv
BY DEF Inv, TypeOK, StoreInv, BudgetInv, TurnInv

LEMMA InitInv == Init => Inv
<1>. SUFFICES ASSUME Init PROVE Inv
  OBVIOUS
<1>1. StoreInv
  BY EmptyFacts DEF Init, StoreInit, StoreInv, StoreTypeOK, MapsAgree
<1>2. BudgetInv
  BY EmptyFacts DEF Init, BudgetInit, BudgetInv, BudgetTypeOK, DaysPast
<1>3. TurnInv
  BY EmptyFacts DEF Init, TurnInv, NoUsageYet
<1>. QED
  BY <1>1, <1>2, <1>3, InvParts

(* One lemma per kind of step would repeat its frame; here each action is  *)
(* a step, and names the lemma for the part of the state it changes.       *)
LEMMA NextInv == Inv /\ [Next]_vars => Inv'
<1>. SUFFICES ASSUME Inv, [Next]_vars PROVE Inv'
  OBVIOUS
<1>0. StoreInv /\ BudgetInv /\ TurnInv
  BY InvParts
<1>. SUFFICES StoreInv' /\ BudgetInv' /\ TurnInv'
  BY DEF Inv, TypeOK, StoreInv, BudgetInv, TurnInv
<1>a. UNCHANGED <<clock, storeVars>> => StoreInv'
  BY <1>0 DEF StoreInv, StoreTypeOK, MapsAgree, storeVars
<1>b. UNCHANGED <<today, tenants>> => BudgetInv'
  BY <1>0 DEF BudgetInv, BudgetTypeOK, DaysPast
<1>c. UNCHANGED turn => TurnInv'
  BY <1>0 DEF TurnInv, NoUsageYet
<1>1. CASE Tick
  <2>1. StoreInv'
    BY <1>0, <1>1 DEF Tick, StoreInv, StoreTypeOK, MapsAgree, storeVars
  <2>. QED
    BY <1>1, <2>1, <1>b, <1>c DEF Tick
<1>2. CASE Midnight
  <2>1. BudgetInv'
    BY <1>0, <1>2 DEF Midnight, BudgetInv, BudgetTypeOK, DaysPast, Counters
  <2>. QED
    BY <1>2, <2>1, <1>a, <1>c DEF Midnight
<1>3. CASE Restart
  <2>1. StoreInv'
    BY <1>0, <1>3, LoseSessionsStore DEF Restart
  <2>2. BudgetInv'
    BY <1>0, <1>3, EmptyFacts DEF Restart, LoseBudget, BudgetInv, BudgetTypeOK, DaysPast
  <2>3. TurnInv'
    BY <1>3, EmptyFacts DEF Restart, TurnInv, NoUsageYet
  <2>. QED
    BY <2>1, <2>2, <2>3
<1>4. ASSUME NEW s \in Sessions, InitSession(s) PROVE StoreInv' /\ BudgetInv' /\ TurnInv'
  BY <1>0, <1>4, <1>b, <1>c, IssueStore DEF InitSession
<1>5. ASSUME NEW r \in Requests, NEW s \in Sessions, NEW t \in Tenants, NEW e \in Estimates,
             ArriveBearer(r, s, t, e)
      PROVE  StoreInv' /\ BudgetInv' /\ TurnInv'
  BY <1>0, <1>5, <1>a, <1>b, ArriveTurn DEF ArriveBearer, Arrive
<1>6. ASSUME NEW r \in Requests, NEW s \in Sessions, NEW t \in Tenants, NEW e \in Estimates,
             ArriveAnonymous(r, s, t, e)
      PROVE  StoreInv' /\ BudgetInv' /\ TurnInv'
  <2>1. StoreInv'
    BY <1>0, <1>6, <1>a, EvictStore DEF ArriveAnonymous, Validate, storeVars
  <2>2. TurnInv'
    BY <1>0, <1>6, <1>c, ArriveTurn DEF ArriveAnonymous, Arrive
  <2>. QED
    BY <1>6, <2>1, <2>2, <1>b DEF ArriveAnonymous
<1>7. ASSUME NEW r \in Requests, GateSession(r) PROVE StoreInv' /\ BudgetInv' /\ TurnInv'
  <2>1. StoreInv'
    BY <1>0, <1>7, <1>a, EvictStore DEF GateSession, CheckSession, storeVars
  <2>2. TurnInv'
    BY <1>0, <1>7, GotoTurn, EndTurn DEF GateSession, At, Stages
  <2>. QED
    BY <1>7, <2>1, <2>2, <1>b DEF GateSession
<1>8. ASSUME NEW r \in Requests, GateBudget(r) PROVE StoreInv' /\ BudgetInv' /\ TurnInv'
  <2>1. turn[r].tenant \in Tenants
    BY <1>0, <1>8 DEF GateBudget, At, TurnInv, Turn
  <2>2. BudgetInv'
    BY <1>0, <1>8, <2>1, CurrentType, PutCounters DEF GateBudget, Reserve
  <2>3. TurnInv'
    BY <1>0, <1>8, GotoTurn, EndTurn DEF GateBudget, At, Stages
  <2>. QED
    BY <1>8, <2>2, <2>3, <1>a DEF GateBudget
<1>9. ASSUME NEW r \in Requests, TurnFails(r) PROVE StoreInv' /\ BudgetInv' /\ TurnInv'
  BY <1>0, <1>9, <1>a, <1>b, EndTurn DEF TurnFails
<1>10. ASSUME NEW r \in Requests, NEW in \in 0..MaxActualIn, NEW out \in 0..MaxActualOut,
              ChunkDone(r, in, out)
       PROVE  StoreInv' /\ BudgetInv' /\ TurnInv'
  <2>1. turn[r].tenant \in Tenants /\ in \in Int /\ out \in Int
    BY <1>0, <1>10 DEF ChunkDone, At, TurnInv, Turn
  <2>2. BudgetInv'
    BY <1>0, <1>10, <2>1, CommitType, PutCounters DEF ChunkDone, Commit
  <2>3. TurnInv'
    BY <1>0, <1>10 DEF ChunkDone, At, TurnInv, NoUsageYet, Turn, Stages
  <2>. QED
    BY <1>10, <2>2, <2>3, <1>a DEF ChunkDone
<1>11. ASSUME NEW r \in Requests, Record(r) PROVE StoreInv' /\ BudgetInv' /\ TurnInv'
  <2>1. turn[r].in \in Int
    BY <1>0, <1>11 DEF Record, At, TurnInv, Turn
  <2>2. StoreInv'
    BY <1>0, <1>11, <2>1, RecordTurnStore DEF Record
  <2>. QED
    BY <1>0, <1>11, <2>2, <1>b, EndTurn DEF Record
<1>12. CASE UNCHANGED vars
  BY <1>12, <1>a, <1>b, <1>c DEF vars, storeVars
<1>. QED
  BY <1>1, <1>2, <1>3, <1>4, <1>5, <1>6, <1>7, <1>8, <1>9, <1>10, <1>11, <1>12 DEF Next

(* Every variable keeps its type. *)
THEOREM TypeCorrect == Spec => []TypeOK
<1>1. Inv => TypeOK
  BY DEF Inv
<1>. QED
  BY <1>1, InitInv, NextInv, PTL DEF Spec

(* The middleware's map and the turn gate's map hold the same sessions. *)
THEOREM SessionMapsAgree == Spec => []MapsAgree
<1>1. Inv => MapsAgree
  BY DEF Inv
<1>. QED
  BY <1>1, InitInv, NextInv, PTL DEF Spec

-----------------------------------------------------------------------------
(* The overshoot bounds.  Both have the form                               *)
(*   used + per * (turns under way) <= cap + per * (requests)              *)
(* where a gate lets a turn in only while used <= cap, and a turn under    *)
(* way may add at most per to used when it ends.                           *)

N == Cardinality(Requests)

Bounded(used, cap, per, n) == used + per * n <= cap + per * N

LEMMA RequestsCount == N \in Nat
BY TurnAssumption, FS_CardinalityType DEF N

LEMMA Times ==
  ASSUME NEW per \in Nat, NEW m \in Nat, NEW n \in Nat
  PROVE  /\ m <= n => per * m <= per * n
         /\ n >= 1 => per * (n - 1) = per * n - per
         /\ per * n \in Nat
OBVIOUS

LEMMA BoundedAtGate ==
  ASSUME NEW used \in Nat, NEW cap \in Int, NEW per \in Nat, NEW n \in Nat,
         used <= cap, n <= N
  PROVE  Bounded(used, cap, per, n)
BY Times, RequestsCount DEF Bounded

LEMMA BoundedFewer ==
  ASSUME NEW used \in Nat, NEW cap \in Int, NEW per \in Nat, NEW n \in Nat, NEW m \in Nat,
         m <= n, Bounded(used, cap, per, n)
  PROVE  Bounded(used, cap, per, m)
<1>1. /\ per * m <= per * n
      /\ per * m \in Nat /\ per * n \in Nat /\ per * N \in Nat
  BY Times, RequestsCount
<1>. QED
  BY <1>1 DEF Bounded

LEMMA BoundedAtUse ==
  ASSUME NEW used \in Nat, NEW cap \in Int, NEW per \in Nat, NEW n \in Nat, NEW d \in 0..per,
         n >= 1, Bounded(used, cap, per, n)
  PROVE  Bounded(used + d, cap, per, n - 1)
<1>1. /\ per * (n - 1) = per * n - per
      /\ per * n \in Nat /\ per * N \in Nat
  BY Times, RequestsCount
<1>. QED
  BY <1>1 DEF Bounded

(* Any set of requests is finite and has at most N members. *)
LEMMA SomeRequests ==
  ASSUME NEW R, R \subseteq Requests
  PROVE  IsFiniteSet(R) /\ Cardinality(R) \in Nat /\ Cardinality(R) <= N
BY TurnAssumption, FS_Subset, FS_CardinalityType DEF N

LEMMA FewerRequests ==
  ASSUME NEW R, NEW Q, R \subseteq Requests, Q \subseteq R
  PROVE  Cardinality(Q) \in Nat /\ Cardinality(R) \in Nat /\ Cardinality(Q) <= Cardinality(R)
<1>1. IsFiniteSet(R)
  BY SomeRequests
<1>. QED
  BY <1>1, FS_Subset, FS_CardinalityType

LEMMA OneRequestFewer ==
  ASSUME NEW R, R \subseteq Requests, NEW r \in R
  PROVE  /\ Cardinality(R) \in Nat /\ Cardinality(R) >= 1
         /\ Cardinality(R \ {r}) = Cardinality(R) - 1
<1>1. IsFiniteSet(R)
  BY SomeRequests
<1>2. Cardinality(R \ {r}) = Cardinality(R) - 1 /\ Cardinality(R \ {r}) \in Nat
  BY <1>1, FS_RemoveElement, FS_CardinalityType
<1>3. Cardinality(R) \in Nat
  BY <1>1, FS_CardinalityType
<1>. QED
  BY <1>2, <1>3

-----------------------------------------------------------------------------
(* Sessions. *)

SessionBound(used, n) ==
  /\ MaxTurns > 0 => Bounded(used.turns, MaxTurns - 1, 1, n)
  /\ MaxInputTokens > 0 => Bounded(used.cumInputTokens, MaxInputTokens - 1, MaxActualIn, n)

SessionInv ==
  \A s \in DOMAIN sessionMeta : SessionBound(sessionMeta[s], Cardinality(InFlight(s)))

LEMMA SessionInvSuffices == Inv /\ SessionInv => SessionOvershoot
<1>. SUFFICES ASSUME Inv, SessionInv, NEW s \in DOMAIN sessionMeta
     PROVE  /\ MaxTurns > 0 =>
                 sessionMeta[s].turns + Cardinality(InFlight(s))
                   <= MaxTurns - 1 + Cardinality(Requests)
            /\ MaxInputTokens > 0 =>
                 sessionMeta[s].cumInputTokens + MaxActualIn * Cardinality(InFlight(s))
                   <= MaxInputTokens - 1 + MaxActualIn * Cardinality(Requests)
  BY DEF SessionOvershoot
<1>1. Cardinality(InFlight(s)) \in Nat /\ N \in Nat
  BY SomeRequests, RequestsCount DEF Inv, TypeOK, InFlight
<1>2. 1 * Cardinality(InFlight(s)) = Cardinality(InFlight(s)) /\ 1 * N = N
  BY <1>1
<1>3. SessionBound(sessionMeta[s], Cardinality(InFlight(s)))
  BY DEF SessionInv
<1>. QED
  BY <1>2, <1>3 DEF SessionBound, Bounded, N

LEMMA SessionKept ==
  ASSUME Inv, SessionInv, NEW s \in DOMAIN sessionMeta,
         sessionMeta'[s] = sessionMeta[s], InFlight(s)' \subseteq InFlight(s)
  PROVE  SessionBound(sessionMeta'[s], Cardinality(InFlight(s)'))
<1>1. /\ sessionMeta[s].turns \in Nat /\ sessionMeta[s].cumInputTokens \in Nat
      /\ MaxTurns - 1 \in Int /\ MaxInputTokens - 1 \in Int /\ MaxActualIn \in Nat
  BY StoreAssumption, TurnAssumption DEF Inv, TypeOK, StoreTypeOK, Meta
<1>2. InFlight(s) \subseteq Requests
  BY DEF Inv, TypeOK, InFlight
<1>3. /\ Cardinality(InFlight(s)') \in Nat /\ Cardinality(InFlight(s)) \in Nat
      /\ Cardinality(InFlight(s)') <= Cardinality(InFlight(s))
  BY <1>2, FewerRequests
<1>4. SessionBound(sessionMeta[s], Cardinality(InFlight(s)))
  BY DEF SessionInv
<1>. QED
  BY <1>1, <1>3, <1>4, BoundedFewer DEF SessionBound

LEMMA SessionAtGate ==
  ASSUME TurnInv', NEW s, NEW used \in Meta, ~TurnsExhausted(used), ~TokensExhausted(used)
  PROVE  SessionBound(used, Cardinality(InFlight(s)'))
<1>1. InFlight(s)' \subseteq Requests
  BY DEF TurnInv, InFlight
<1>2. Cardinality(InFlight(s)') \in Nat /\ Cardinality(InFlight(s)') <= N
  BY <1>1, SomeRequests
<1>3. /\ used.turns \in Nat /\ used.cumInputTokens \in Nat
      /\ MaxTurns - 1 \in Int /\ MaxInputTokens - 1 \in Int /\ MaxActualIn \in Nat
      /\ MaxTurns > 0 => used.turns <= MaxTurns - 1
      /\ MaxInputTokens > 0 => used.cumInputTokens <= MaxInputTokens - 1
  BY StoreAssumption, TurnAssumption DEF Meta, TurnsExhausted, TokensExhausted
<1>. QED
  BY <1>2, <1>3, BoundedAtGate DEF SessionBound

LEMMA InitSessionInv == Init => SessionInv
BY EmptyFacts DEF Init, StoreInit, SessionInv

LEMMA NextSessionInv == Inv /\ Inv' /\ SessionInv /\ [Next]_vars => SessionInv'
<1>. SUFFICES ASSUME Inv, Inv', SessionInv, [Next]_vars, NEW s \in DOMAIN sessionMeta'
     PROVE  SessionBound(sessionMeta'[s], Cardinality(InFlight(s)'))
  BY DEF SessionInv
<1>0. TurnInv /\ TurnInv' /\ StoreInv
  BY DEF Inv, TypeOK, TurnInv, StoreInv, NoUsageYet
<1>a. ASSUME UNCHANGED sessionMeta, InFlight(s)' \subseteq InFlight(s)
      PROVE  SessionBound(sessionMeta'[s], Cardinality(InFlight(s)'))
  BY <1>a, SessionKept
<1>b. UNCHANGED turn => InFlight(s)' \subseteq InFlight(s)
  BY DEF InFlight
<1>c. ASSUME NEW r, End(r) PROVE InFlight(s)' \subseteq InFlight(s)
  BY <1>0, <1>c, EndTurn DEF InFlight
<1>1. CASE UNCHANGED <<sessionMeta, turn>>
  BY <1>1, <1>a, <1>b
<1>2. CASE Tick \/ Midnight \/ UNCHANGED vars
  BY <1>2, <1>1 DEF Tick, Midnight, vars, storeVars
<1>3. CASE Restart
  BY <1>3, EmptyFacts DEF Restart, LoseSessions
<1>4. ASSUME NEW x \in Sessions, InitSession(x)
      PROVE  SessionBound(sessionMeta'[s], Cardinality(InFlight(s)'))
  <2>1. CASE s = x
    <3>1. sessionMeta'[s].turns = 0 /\ sessionMeta'[s].cumInputTokens = 0
      BY <1>4, <2>1 DEF InitSession, Issue, Put
    <3>2. sessionMeta'[s] \in Meta
      BY DEF Inv, TypeOK, StoreTypeOK
    <3>. QED
      BY <1>0, <3>1, <3>2, SessionAtGate, StoreAssumption DEF TurnsExhausted, TokensExhausted
  <2>2. CASE s # x
    <3>1. s \in DOMAIN sessionMeta /\ sessionMeta'[s] = sessionMeta[s]
      BY <1>4, <2>2 DEF InitSession, Issue, Put
    <3>. QED
      BY <1>4, <1>b, <3>1, SessionKept DEF InitSession
  <2>. QED
    BY <2>1, <2>2
<1>5. ASSUME NEW r \in Requests, NEW x \in Sessions, NEW t \in Tenants, NEW e \in Estimates,
             ArriveBearer(r, x, t, e)
      PROVE  SessionBound(sessionMeta'[s], Cardinality(InFlight(s)'))
  <2>1. InFlight(s)' \subseteq InFlight(s)
    BY <1>0, <1>5, ArriveTurn DEF ArriveBearer, Arrive, InFlight
  <2>. QED
    BY <1>5, <2>1, <1>a DEF ArriveBearer, storeVars
<1>6. ASSUME NEW r \in Requests, NEW x \in Sessions, NEW t \in Tenants, NEW e \in Estimates,
             ArriveAnonymous(r, x, t, e)
      PROVE  SessionBound(sessionMeta'[s], Cardinality(InFlight(s)'))
  <2>1. InFlight(s)' \subseteq InFlight(s)
    BY <1>0, <1>6, <1>b, ArriveTurn DEF ArriveAnonymous, Arrive, InFlight
  <2>2. s \in DOMAIN sessionMeta /\ sessionMeta'[s] = sessionMeta[s]
    BY <1>6 DEF ArriveAnonymous, Validate, Evict, Delete, Restrict
  <2>. QED
    BY <2>1, <2>2, SessionKept
<1>7. ASSUME NEW r \in Requests, GateSession(r)
      PROVE  SessionBound(sessionMeta'[s], Cardinality(InFlight(s)'))
  <2>1. s \in DOMAIN sessionMeta /\ sessionMeta'[s] = sessionMeta[s]
    BY <1>7 DEF GateSession, CheckSession, Evict, Delete, Restrict
  <2>2. CASE CheckCode(turn[r].session) = "" /\ turn[r].session = s
    <3>1. ~TurnsExhausted(sessionMeta[s]) /\ ~TokensExhausted(sessionMeta[s])
      BY <2>2 DEF CheckCode
    <3>2. sessionMeta[s] \in Meta
      BY <2>1 DEF Inv, TypeOK, StoreTypeOK
    <3>. QED
      BY <1>0, <2>1, <3>1, <3>2, SessionAtGate
  <2>3. CASE CheckCode(turn[r].session) = "" /\ turn[r].session # s
    <3>1. InFlight(s)' \subseteq InFlight(s)
      <4>1. /\ Goto(r, "reserve") /\ "reserve" \in Stages
            /\ r \in DOMAIN turn /\ turn[r].stage # "record"
        BY <1>7, <2>3 DEF GateSession, At, Stages
      <4>2. /\ DOMAIN turn' = DOMAIN turn
            /\ turn'[r].session # s
            /\ \A q \in DOMAIN turn : q # r => turn'[q] = turn[q]
        BY <1>0, <2>3, <4>1, GotoTurn
      <4>. QED
        BY <4>2 DEF InFlight
    <3>. QED
      BY <2>1, <3>1, SessionKept
  <2>4. CASE CheckCode(turn[r].session) # ""
    BY <1>7, <2>1, <2>4, <1>c, SessionKept DEF GateSession
  <2>. QED
    BY <2>2, <2>3, <2>4
<1>8. ASSUME NEW r \in Requests, GateBudget(r)
      PROVE  SessionBound(sessionMeta'[s], Cardinality(InFlight(s)'))
  <2>1. ASSUME Goto(r, "chat") PROVE InFlight(s)' \subseteq InFlight(s)
    <3>1. "chat" \in Stages /\ r \in DOMAIN turn /\ turn[r].stage = "reserve"
      BY <1>8 DEF GateBudget, At, Stages
    <3>2. /\ DOMAIN turn' = DOMAIN turn
          /\ turn'[r].session = turn[r].session
          /\ \A q \in DOMAIN turn : q # r => turn'[q] = turn[q]
      BY <1>0, <2>1, <3>1, GotoTurn
    <3>. QED
      BY <3>1, <3>2 DEF InFlight
  <2>. QED
    BY <1>8, <2>1, <1>a, <1>c DEF GateBudget, storeVars
<1>9. ASSUME NEW r \in Requests, TurnFails(r)
      PROVE  SessionBound(sessionMeta'[s], Cardinality(InFlight(s)'))
  BY <1>9, <1>a, <1>c DEF TurnFails, storeVars
<1>10. ASSUME NEW r \in Requests, NEW in \in 0..MaxActualIn, NEW out \in 0..MaxActualOut,
              ChunkDone(r, in, out)
       PROVE  SessionBound(sessionMeta'[s], Cardinality(InFlight(s)'))
  <2>1. InFlight(s)' \subseteq InFlight(s)
    BY <1>0, <1>10 DEF ChunkDone, At, InFlight, TurnInv, Turn
  <2>. QED
    BY <1>10, <2>1, <1>a DEF ChunkDone, storeVars
<1>11. ASSUME NEW r \in Requests, Record(r)
       PROVE  SessionBound(sessionMeta'[s], Cardinality(InFlight(s)'))
  <2>0. s \in DOMAIN sessionMeta
    BY <1>0, <1>11 DEF Record, RecordTurn, StoreInv, StoreTypeOK
  <2>1. CASE s # turn[r].session
    <3>1. sessionMeta'[s] = sessionMeta[s]
      BY <1>0, <1>11, <2>0, <2>1 DEF Record, RecordTurn, StoreInv, StoreTypeOK
    <3>. QED
      BY <1>11, <2>0, <3>1, <1>c, SessionKept DEF Record
  <2>2. CASE s = turn[r].session
    <3>. DEFINE n == Cardinality(InFlight(s))
                d == turn[r].in
    <3>1. d \in 0..MaxActualIn /\ MaxActualIn \in Nat
      BY <1>0, <1>11, TurnAssumption DEF Record, At, TurnInv, Turn
    <3>2. /\ sessionMeta[s] \in Meta
          /\ sessionMeta'[s].turns = sessionMeta[s].turns + 1
          /\ sessionMeta'[s].cumInputTokens = sessionMeta[s].cumInputTokens + d
      <4>1. NonNegative(d) = d
        BY <3>1 DEF NonNegative
      <4>2. sessionMeta[s] \in Meta
        BY <1>0, <2>0 DEF StoreInv, StoreTypeOK
      <4>3. sessionMeta' = [sessionMeta EXCEPT ![s].turns = @ + 1, ![s].cumInputTokens = @ + d]
        BY <1>11, <2>0, <2>2, <4>1 DEF Record, RecordTurn, Used
      <4>. QED
        BY <2>0, <4>2, <4>3 DEF Meta
    <3>3. InFlight(s)' = InFlight(s) \ {r} /\ r \in InFlight(s) /\ InFlight(s) \subseteq Requests
      BY <1>0, <1>11, <2>2, EndTurn DEF Record, At, InFlight, TurnInv
    <3>4. n \in Nat /\ n >= 1 /\ Cardinality(InFlight(s)') = n - 1
      BY <3>3, OneRequestFewer
    <3>5. SessionBound(sessionMeta[s], n)
      BY <2>0 DEF SessionInv
    <3>6. /\ sessionMeta[s].turns \in Nat /\ sessionMeta[s].cumInputTokens \in Nat
          /\ MaxTurns - 1 \in Int /\ MaxInputTokens - 1 \in Int
          /\ 1 \in Nat /\ 1 \in 0..1
      BY <3>2, StoreAssumption DEF Meta
    <3>7. MaxTurns > 0 => Bounded(sessionMeta'[s].turns, MaxTurns - 1, 1, n - 1)
      BY <3>2, <3>4, <3>5, <3>6, BoundedAtUse DEF SessionBound
    <3>8. MaxInputTokens > 0 =>
            Bounded(sessionMeta'[s].cumInputTokens, MaxInputTokens - 1, MaxActualIn, n - 1)
      BY <3>1, <3>2, <3>4, <3>5, <3>6, BoundedAtUse DEF SessionBound
    <3>. QED
      BY <3>4, <3>7, <3>8 DEF SessionBound
  <2>. QED
    BY <2>1, <2>2
<1>. QED
  BY <1>2, <1>3, <1>4, <1>5, <1>6, <1>7, <1>8, <1>9, <1>10, <1>11 DEF Next

(* However many turns a session runs at once, it goes past its caps by at  *)
(* most what those turns add: MaxTurns + N - 1 turns, N the number of      *)
(* requests served at the same time.                                       *)
THEOREM SessionCapsHold == Spec => []SessionOvershoot
<1>. USE InitInv, NextInv, InitSessionInv, NextSessionInv, SessionInvSuffices
<1>1. Spec => []Inv
  BY PTL DEF Spec
<1>2. Spec => [](Inv /\ SessionInv)
  BY <1>1, PTL DEF Spec
<1>. QED
  BY <1>2, PTL

-----------------------------------------------------------------------------
(* The daily budget. *)

BudgetBound(c, n) ==
  /\ MaxDailyIn > 0 => Bounded(c.in, MaxDailyIn, MaxActualIn, n)
  /\ MaxDailyOut > 0 => Bounded(c.out, MaxDailyOut, MaxActualOut, n)

LEMMA BudgetBoundUnfold ==
  BudgetOvershoot <=> \A t \in DOMAIN tenants : BudgetBound(tenants[t], Cardinality(Granted(t)))
BY DEF BudgetOvershoot, BudgetBound, Bounded, N

LEMMA BudgetConstants ==
  MaxDailyIn \in Int /\ MaxDailyOut \in Int /\ MaxActualIn \in Nat /\ MaxActualOut \in Nat
BY BudgetAssumption, TurnAssumption

LEMMA BudgetFewer ==
  ASSUME NEW c \in Counters, NEW R, R \subseteq Requests, NEW Q, Q \subseteq R,
         BudgetBound(c, Cardinality(R))
  PROVE  BudgetBound(c, Cardinality(Q))
<1>1. /\ Cardinality(Q) \in Nat /\ Cardinality(R) \in Nat
      /\ Cardinality(Q) <= Cardinality(R)
  BY FewerRequests
<1>2. c.in \in Nat /\ c.out \in Nat
  BY DEF Counters
<1>. QED
  BY <1>1, <1>2, BudgetConstants, BoundedFewer DEF BudgetBound

LEMMA BudgetAtGate ==
  ASSUME NEW c \in Counters, NEW R, R \subseteq Requests,
         MaxDailyIn > 0 => c.in <= MaxDailyIn, MaxDailyOut > 0 => c.out <= MaxDailyOut
  PROVE  BudgetBound(c, Cardinality(R))
<1>1. Cardinality(R) \in Nat /\ Cardinality(R) <= N
  BY SomeRequests
<1>2. c.in \in Nat /\ c.out \in Nat
  BY DEF Counters
<1>. QED
  BY <1>1, <1>2, BudgetConstants, BoundedAtGate DEF BudgetBound

(* A counter of a past day is about to be reset, which only lowers it. *)
LEMMA CurrentBound ==
  ASSUME Inv, BudgetOvershoot, NEW t \in Tenants
  PROVE  BudgetBound(Current(t), Cardinality(Granted(t)))
<1>1. Granted(t) \subseteq Requests
  BY DEF Inv, TypeOK, Granted
<1>2. CASE Current(t) = NoSpend
  <2>1. Current(t) \in Counters /\ Current(t).in = 0 /\ Current(t).out = 0
    BY <1>2 DEF NoSpend, Inv, TypeOK, BudgetTypeOK, Counters
  <2>. QED
    BY <1>1, <2>1, BudgetAssumption, BudgetAtGate
<1>3. CASE t \in DOMAIN tenants /\ Current(t) = tenants[t]
  BY <1>3, BudgetBoundUnfold
<1>. QED
  BY <1>2, <1>3 DEF Current

LEMMA InitBudget == Init => BudgetOvershoot
BY EmptyFacts DEF Init, BudgetInit, BudgetOvershoot

LEMMA NextBudget == Inv /\ Inv' /\ BudgetOvershoot /\ [Next]_vars => BudgetOvershoot'
<1>. SUFFICES ASSUME Inv, Inv', BudgetOvershoot, [Next]_vars, NEW t \in DOMAIN tenants'
     PROVE  BudgetBound(tenants'[t], Cardinality(Granted(t)'))
  BY DEF BudgetOvershoot, BudgetBound, Bounded, N
<1>0. TurnInv /\ TurnInv' /\ BudgetInv /\ t \in Tenants
  BY DEF Inv, TypeOK, TurnInv, NoUsageYet, BudgetInv, BudgetTypeOK
<1>1. Granted(t) \subseteq Requests /\ Granted(t)' \subseteq Requests
  BY <1>0 DEF TurnInv, Granted
<1>a. ASSUME t \in DOMAIN tenants, tenants'[t] = tenants[t], Granted(t)' \subseteq Granted(t)
      PROVE  BudgetBound(tenants'[t], Cardinality(Granted(t)'))
  <2>1. tenants[t] \in Counters /\ BudgetBound(tenants[t], Cardinality(Granted(t)))
    BY <1>0, <1>a, BudgetBoundUnfold DEF BudgetInv, BudgetTypeOK
  <2>. QED
    BY <1>1, <1>a, <2>1, BudgetFewer
<1>b. UNCHANGED turn => Granted(t)' \subseteq Granted(t)
  BY DEF Granted
<1>c. ASSUME NEW r, End(r) PROVE Granted(t)' \subseteq Granted(t)
  BY <1>0, <1>c, EndTurn DEF Granted
<1>2. CASE UNCHANGED <<tenants, turn>>
  BY <1>2, <1>a, <1>b
<1>3. CASE Tick \/ Midnight \/ UNCHANGED vars \/ \E s \in Sessions : InitSession(s)
  BY <1>2, <1>3 DEF Tick, Midnight, InitSession, vars
<1>4. CASE Restart
  BY <1>4, EmptyFacts DEF Restart, LoseBudget
<1>5. ASSUME NEW r \in Requests, NEW s \in Sessions, NEW u \in Tenants, NEW e \in Estimates,
             ArriveBearer(r, s, u, e) \/ ArriveAnonymous(r, s, u, e)
      PROVE  BudgetBound(tenants'[t], Cardinality(Granted(t)'))
  <2>1. CASE Arrive(r, s, u, e) /\ r \notin DOMAIN turn
    <3>1. Granted(t)' \subseteq Granted(t)
      BY <1>0, <2>1, ArriveTurn DEF Granted
    <3>. QED
      BY <1>5, <3>1, <1>a DEF ArriveBearer, ArriveAnonymous
  <2>2. CASE UNCHANGED turn
    BY <1>5, <2>2, <1>2 DEF ArriveBearer, ArriveAnonymous
  <2>. QED
    BY <1>5, <2>1, <2>2 DEF ArriveBearer, ArriveAnonymous, Arrive
<1>6. ASSUME NEW r \in Requests, GateSession(r)
      PROVE  BudgetBound(tenants'[t], Cardinality(Granted(t)'))
  <2>1. ASSUME Goto(r, "reserve") PROVE Granted(t)' \subseteq Granted(t)
    <3>1. /\ DOMAIN turn' = DOMAIN turn
          /\ r \in DOMAIN turn => turn'[r].stage = "reserve"
          /\ \A q \in DOMAIN turn : q # r => turn'[q] = turn[q]
      BY <1>0, <1>6, <2>1, GotoTurn DEF GateSession, At, Stages
    <3>. QED
      BY <3>1 DEF Granted
  <2>. QED
    BY <1>6, <2>1, <1>a, <1>c DEF GateSession
<1>7. ASSUME NEW r \in Requests, GateBudget(r)
      PROVE  BudgetBound(tenants'[t], Cardinality(Granted(t)'))
  <2>1. /\ r \in DOMAIN turn /\ turn[r] \in Turn /\ turn[r].stage = "reserve"
        /\ turn[r].estIn \in Nat /\ MaxTokens \in Nat
    BY <1>0, <1>7, TurnAssumption DEF GateBudget, At, TurnInv, Turn
  <2>2. CASE t # turn[r].tenant
    <3>1. t \in DOMAIN tenants /\ tenants'[t] = tenants[t]
      BY <1>7, <2>2 DEF GateBudget, Reserve, Put
    <3>2. ASSUME Goto(r, "chat") PROVE Granted(t)' \subseteq Granted(t)
      <4>1. /\ DOMAIN turn' = DOMAIN turn
            /\ turn'[r].tenant = turn[r].tenant
            /\ \A q \in DOMAIN turn : q # r => turn'[q] = turn[q]
        BY <1>0, <2>1, <3>2, GotoTurn DEF Stages
      <4>. QED
        BY <2>2, <4>1 DEF Granted
    <3>. QED
      BY <1>7, <3>1, <3>2, <1>a, <1>c DEF GateBudget
  <2>3. CASE t = turn[r].tenant
    <3>1. tenants'[t] = Current(t) /\ Current(t) \in Counters
      BY <1>0, <1>7, <2>3, CurrentType DEF GateBudget, Reserve, Put
    <3>2. CASE FitsBudget(t, turn[r].estIn, MaxTokens)
      <4>1. /\ MaxDailyIn > 0 => Current(t).in <= MaxDailyIn
            /\ MaxDailyOut > 0 => Current(t).out <= MaxDailyOut
        BY <2>1, <3>1, <3>2, BudgetAssumption DEF FitsBudget, WithinCap, Counters
      <4>. QED
        BY <1>1, <3>1, <4>1, BudgetAtGate
    <3>3. CASE ~FitsBudget(t, turn[r].estIn, MaxTokens)
      <4>1. Granted(t)' \subseteq Granted(t)
        BY <1>7, <2>3, <3>3, <1>c DEF GateBudget
      <4>2. BudgetBound(Current(t), Cardinality(Granted(t)))
        BY <1>0, CurrentBound
      <4>. QED
        BY <1>1, <3>1, <4>1, <4>2, BudgetFewer
    <3>. QED
      BY <3>2, <3>3
  <2>. QED
    BY <2>2, <2>3
<1>8. ASSUME NEW r \in Requests, TurnFails(r) \/ Record(r)
      PROVE  BudgetBound(tenants'[t], Cardinality(Granted(t)'))
  BY <1>8, <1>a, <1>c DEF TurnFails, Record
<1>9. ASSUME NEW r \in Requests, NEW in \in 0..MaxActualIn, NEW out \in 0..MaxActualOut,
             ChunkDone(r, in, out)
      PROVE  BudgetBound(tenants'[t], Cardinality(Granted(t)'))
  <2>1. r \in DOMAIN turn /\ turn[r] \in Turn /\ turn[r].stage = "chat"
    BY <1>0, <1>9 DEF ChunkDone, At, TurnInv
  <2>2. /\ DOMAIN turn' = DOMAIN turn
        /\ turn'[r].stage = "record"
        /\ \A q \in DOMAIN turn : q # r => turn'[q] = turn[q]
    BY <1>0, <1>9, <2>1 DEF ChunkDone, TurnInv, Turn
  <2>3. CASE t # turn[r].tenant
    <3>1. t \in DOMAIN tenants /\ tenants'[t] = tenants[t]
      BY <1>9, <2>3 DEF ChunkDone, Commit, Put
    <3>2. Granted(t)' \subseteq Granted(t)
      BY <2>2 DEF Granted
    <3>. QED
      BY <3>1, <3>2, <1>a
  <2>4. CASE t = turn[r].tenant
    <3>. DEFINE n == Cardinality(Granted(t))
    <3>1. in \in Nat /\ out \in Nat /\ NonNegative(in) = in /\ NonNegative(out) = out
      BY BudgetConstants DEF NonNegative
    <3>2. /\ tenants'[t].in = Current(t).in + in
          /\ tenants'[t].out = Current(t).out + out
          /\ Current(t).in \in Nat /\ Current(t).out \in Nat
      BY <1>0, <1>9, <2>4, <3>1, CurrentType DEF ChunkDone, Commit, Put, Counters
    <3>3. Granted(t)' = Granted(t) \ {r} /\ r \in Granted(t)
      BY <2>1, <2>2, <2>4 DEF Granted
    <3>4. n \in Nat /\ n >= 1 /\ Cardinality(Granted(t)') = n - 1
      BY <1>1, <3>3, OneRequestFewer
    <3>5. BudgetBound(Current(t), n)
      BY <1>0, CurrentBound
    <3>6. MaxDailyIn > 0 => Bounded(tenants'[t].in, MaxDailyIn, MaxActualIn, n - 1)
      BY <3>2, <3>4, <3>5, BudgetConstants, BoundedAtUse DEF BudgetBound
    <3>7. MaxDailyOut > 0 => Bounded(tenants'[t].out, MaxDailyOut, MaxActualOut, n - 1)
      BY <3>2, <3>4, <3>5, BudgetConstants, BoundedAtUse DEF BudgetBound
    <3>. QED
      BY <3>4, <3>6, <3>7 DEF BudgetBound
  <2>. QED
    BY <2>3, <2>4
<1>. QED
  BY <1>3, <1>4, <1>5, <1>6, <1>7, <1>8, <1>9 DEF Next

(* A tenant's day goes past the budget by at most what the turns granted   *)
(* at the same time may use.                                               *)
THEOREM BudgetHolds == Spec => []BudgetOvershoot
<1>1. Spec => []Inv
  BY InitInv, NextInv, PTL DEF Spec
<1>. QED
  BY <1>1, InitBudget, NextBudget, PTL DEF Spec

-----------------------------------------------------------------------------
(* TurnHandler implements TurnPolicy. *)

LEMMA BookUnchanged ==
  ASSUME UNCHANGED <<clock, sessionMeta>>
  PROVE  Book' = Book
BY DEF Book, Lives, Expired, Age

LEMMA BookEvict ==
  ASSUME NEW s, s \in DOMAIN sessionMeta => Expired(s), Evict(s), UNCHANGED clock
  PROVE  Book' = Book
<1>1. /\ DOMAIN sessionMeta' = DOMAIN sessionMeta \ {s}
      /\ \A x \in DOMAIN sessionMeta' : sessionMeta'[x] = sessionMeta[x]
  BY DEF Evict, Delete, Restrict
<1>2. {x \in DOMAIN sessionMeta' : Lives(x)'} = {x \in DOMAIN sessionMeta : Lives(x)}
  BY <1>1 DEF Expired, Age, Lives
<1>. QED
  BY <1>1, <1>2 DEF Book, Restrict

LEMMA SpentUnchanged ==
  ASSUME UNCHANGED <<today, tenants>>
  PROVE  Spent' = Spent
BY DEF Spent, SpentToday

(* What the policy calls spent is what the code sees.                      *)
LEMMA SpentIsCurrent ==
  ASSUME BudgetInv, NEW t \in Tenants
  PROVE  SpentToday(t) = [in |-> Current(t).in, out |-> Current(t).out]
BY DEF SpentToday, Current, NoSpend, BudgetInv, BudgetTypeOK, DaysPast, Counters

(* Storing a created or reset counter changes nothing anybody sees. *)
LEMMA SpentReserve ==
  ASSUME BudgetInv, NEW t \in Tenants, Reserve(t), UNCHANGED today
  PROVE  Spent' = Spent
<1>1. /\ DOMAIN tenants' = DOMAIN tenants \cup {t}
      /\ tenants'[t] = Current(t)
      /\ \A u \in DOMAIN tenants : u # t => tenants'[u] = tenants[u]
  BY DEF Reserve, Put
<1>2. Current(t).dayStart = today /\ today \in Nat
  BY CurrentType DEF BudgetInv, BudgetTypeOK
<1>3. SpentToday(t)' = SpentToday(t)
  BY <1>1, <1>2, SpentIsCurrent DEF SpentToday
<1>4. ASSUME NEW u \in Tenants, u # t PROVE SpentToday(u)' = SpentToday(u)
  BY <1>1, <1>4 DEF SpentToday
<1>. QED
  BY <1>3, <1>4 DEF Spent

LEMMA SpentCommit ==
  ASSUME BudgetInv, NEW t \in Tenants, NEW in \in Nat, NEW out \in Nat,
         Commit(t, in, out), UNCHANGED today
  PROVE  Spent' = [Spent EXCEPT ![t] = [in |-> @.in + in, out |-> @.out + out]]
<1>1. NonNegative(in) = in /\ NonNegative(out) = out
  BY DEF NonNegative
<1>2. Current(t) \in Counters /\ Current(t).dayStart = today /\ today \in Nat
  BY CurrentType DEF BudgetInv, BudgetTypeOK
<1>3. /\ DOMAIN tenants' = DOMAIN tenants \cup {t}
      /\ tenants'[t] = [in |-> Current(t).in + in, out |-> Current(t).out + out,
                         dayStart |-> today]
      /\ \A u \in DOMAIN tenants : u # t => tenants'[u] = tenants[u]
  BY <1>1, <1>2 DEF Commit, Put
<1>4. SpentToday(t)' = [in |-> Current(t).in + in, out |-> Current(t).out + out]
  BY <1>2, <1>3 DEF SpentToday
<1>5. ASSUME NEW u \in Tenants, u # t PROVE SpentToday(u)' = SpentToday(u)
  BY <1>3, <1>5 DEF SpentToday
<1>6. SpentToday(t) = [in |-> Current(t).in, out |-> Current(t).out]
  BY SpentIsCurrent
<1>7. SpentToday(t)' = [in |-> Spent[t].in + in, out |-> Spent[t].out + out]
  BY <1>4, <1>6 DEF Spent
<1>8. \A u \in Tenants : Spent'[u] = IF u = t THEN [in |-> Spent[t].in + in, out |-> Spent[t].out + out]
                                   ELSE Spent[u]
  BY <1>5, <1>7 DEF Spent
<1>9. Spent' = [u \in Tenants |-> Spent'[u]] /\ Spent = [u \in Tenants |-> Spent[u]]
  BY DEF Spent
<1>. QED
  BY <1>8, <1>9

LEMMA AdmittedUnchanged ==
  ASSUME UNCHANGED turn
  PROVE  Admitted' = Admitted
BY DEF Admitted

LEMMA AdmittedArrive ==
  ASSUME TurnInv, NEW r \in Requests, NEW s \in Sessions, NEW t \in Tenants,
         NEW e \in Estimates, Arrive(r, s, t, e), r \notin DOMAIN turn
  PROVE  Admitted' = Admitted
<1>1. /\ DOMAIN turn' = DOMAIN turn \cup {r}
      /\ turn'[r].stage = "check"
      /\ \A q \in DOMAIN turn : turn'[q] = turn[q]
  BY ArriveTurn
<1>2. {q \in DOMAIN turn' : turn'[q].stage # "check"} = {q \in DOMAIN turn : turn[q].stage # "check"}
  BY <1>1
<1>. QED
  BY <1>1, <1>2 DEF Admitted

LEMMA AdmittedEnd ==
  ASSUME TurnInv, NEW r, End(r)
  PROVE  Admitted' = Delete(Admitted, r)
<1>1. /\ DOMAIN turn' = DOMAIN turn \ {r}
      /\ \A q \in DOMAIN turn' : turn'[q] = turn[q]
  BY EndTurn
<1>2. {q \in DOMAIN turn' : turn'[q].stage # "check"}
        = {q \in DOMAIN turn : turn[q].stage # "check"} \ {r}
  BY <1>1
<1>. QED
  BY <1>1, <1>2 DEF Admitted, Delete, Restrict

LEMMA AdmittedEndAtGate ==
  ASSUME TurnInv, NEW r, At(r, "check"), End(r)
  PROVE  Admitted' = Admitted
<1>1. r \notin DOMAIN Admitted
  BY DEF At, Admitted
<1>2. Admitted' = Delete(Admitted, r)
  BY AdmittedEnd
<1>3. Delete(Admitted, r) = Admitted
  BY <1>1 DEF Delete, Restrict, Admitted
<1>. QED
  BY <1>2, <1>3

(* The policy's maps are the same maps. *)
LEMMA PolicyMaps ==
  /\ Policy!EmptyMap = EmptyMap
  /\ \A m, k, v : Policy!Put(m, k, v) = Put(m, k, v)
  /\ \A m, k : Policy!Delete(m, k) = Delete(m, k)
  /\ \A m, S : Policy!Restrict(m, S) = Restrict(m, S)
BY DEF Policy!EmptyMap, EmptyMap, Policy!Put, Put, Policy!Delete, Delete, Policy!Restrict, Restrict

LEMMA InitPolicy == Init => Policy!PolicyInit
<1>. SUFFICES ASSUME Init PROVE Policy!PolicyInit
  OBVIOUS
<1>1. Book = EmptyMap
  BY DEF Init, StoreInit, Book, Restrict, EmptyMap
<1>2. Spent = [t \in Tenants |-> Policy!Nothing]
  BY DEF Init, BudgetInit, Spent, SpentToday, EmptyMap, Policy!Nothing
<1>3. Admitted = EmptyMap
  BY DEF Init, Admitted, EmptyMap
<1>. QED
  BY <1>1, <1>2, <1>3, PolicyMaps DEF Init, StoreInit, Policy!PolicyInit

LEMMA TickPolicy == Inv /\ Tick => Policy!Elapse
<1>. SUFFICES ASSUME Inv, Tick PROVE Policy!Elapse
  OBVIOUS
<1>1. \A s \in DOMAIN sessionMeta : sessionMeta[s].createdAt \in Nat
  BY DEF Inv, TypeOK, StoreTypeOK, Meta
<1>2. clock \in Nat /\ clock' = clock + 1 /\ sessionMeta' = sessionMeta /\ SessionTTL \in Nat
  BY StoreAssumption DEF Inv, TypeOK, StoreTypeOK, Tick, storeVars
<1>3. /\ DOMAIN Book = {s \in DOMAIN sessionMeta : Lives(s)}
      /\ \A s \in DOMAIN Book : Book[s] = sessionMeta[s]
  BY DEF Book, Restrict
<1>4. {s \in DOMAIN sessionMeta' : Lives(s)'}
        = {s \in DOMAIN Book : SessionTTL = 0 \/ clock' - Book[s].createdAt < SessionTTL}
  BY <1>1, <1>2, <1>3 DEF Expired, Age, Lives
<1>5. Book' = Policy!Unexpired(clock', Book)
  BY <1>2, <1>3, <1>4, PolicyMaps DEF Book, Restrict, Policy!Unexpired
<1>6. Spent' = Spent /\ Admitted' = Admitted
  BY SpentUnchanged, AdmittedUnchanged DEF Tick
<1>. QED
  BY <1>2, <1>5, <1>6 DEF Policy!Elapse, Tick, storeVars

LEMMA MidnightPolicy == Inv /\ Midnight => Policy!DayEnds
<1>. SUFFICES ASSUME Inv, Midnight PROVE Policy!DayEnds
  OBVIOUS
<1>1. \A t \in Tenants : SpentToday(t)' = Policy!Nothing
  BY DEF Midnight, SpentToday, Inv, TypeOK, BudgetTypeOK, DaysPast, Counters, Policy!Nothing
<1>2. Spent' = [t \in Tenants |-> Policy!Nothing]
  BY <1>1 DEF Spent
<1>3. Book' = Book /\ Admitted' = Admitted
  BY BookUnchanged, AdmittedUnchanged DEF Midnight, storeVars
<1>. QED
  BY <1>2, <1>3 DEF Policy!DayEnds, Midnight, storeVars

LEMMA RestartPolicy == Restart => Policy!Restart
<1>. SUFFICES ASSUME Restart PROVE Policy!Restart
  OBVIOUS
<1>1. Book' = EmptyMap
  BY DEF Restart, LoseSessions, Book, Restrict, EmptyMap
<1>2. Spent' = [t \in Tenants |-> Policy!Nothing]
  BY DEF Restart, LoseBudget, Spent, SpentToday, EmptyMap, Policy!Nothing
<1>3. Admitted' = EmptyMap
  BY DEF Restart, Admitted, EmptyMap
<1>. QED
  BY <1>1, <1>2, <1>3, PolicyMaps DEF Policy!Restart, Restart, LoseSessions

LEMMA InitSessionPolicy ==
  ASSUME Inv, NEW s \in Sessions, InitSession(s)
  PROVE  Policy!Open(s) \/ UNCHANGED Policy!policyVars
<1>. DEFINE new == [createdAt |-> clock, turns |-> 0, cumInputTokens |-> 0]
<1>1. /\ DOMAIN sessionMeta' = DOMAIN sessionMeta \cup {s}
      /\ sessionMeta'[s] = new /\ s \notin DOMAIN sessionMeta
      /\ \A x \in DOMAIN sessionMeta : sessionMeta'[x] = sessionMeta[x]
      /\ clock' = clock /\ clock \in Nat /\ SessionTTL \in Nat
  BY StoreAssumption DEF InitSession, Issue, Put, Inv, TypeOK, StoreTypeOK
<1>2. ~Expired(s)'
  BY <1>1 DEF Expired, Age, Lives
<1>3. {x \in DOMAIN sessionMeta' : Lives(x)'}
        = {x \in DOMAIN sessionMeta : Lives(x)} \cup {s}
  BY <1>1, <1>2 DEF Expired, Age, Lives
<1>4. Book' = Put(Book, s, new)
  BY <1>1, <1>3 DEF Book, Restrict, Put
<1>5. Spent' = Spent /\ Admitted' = Admitted
  BY SpentUnchanged, AdmittedUnchanged DEF InitSession
<1>. QED
  BY <1>4, <1>5, PolicyMaps DEF Policy!Open, InitSession, Issue

LEMMA ArriveBearerPolicy ==
  ASSUME Inv, NEW r \in Requests, NEW s \in Sessions, NEW t \in Tenants, NEW e \in Estimates,
         ArriveBearer(r, s, t, e)
  PROVE  UNCHANGED Policy!policyVars
<1>1. Admitted' = Admitted
  BY AdmittedArrive, InvParts DEF ArriveBearer, Arrive
<1>2. Book' = Book /\ Spent' = Spent
  BY BookUnchanged, SpentUnchanged DEF ArriveBearer, storeVars
<1>. QED
  BY <1>1, <1>2 DEF Policy!policyVars, ArriveBearer, storeVars

LEMMA ArriveAnonymousPolicy ==
  ASSUME Inv, NEW r \in Requests, NEW s \in Sessions, NEW t \in Tenants, NEW e \in Estimates,
         ArriveAnonymous(r, s, t, e)
  PROVE  UNCHANGED Policy!policyVars
<1>1. Admitted' = Admitted
  BY AdmittedArrive, AdmittedUnchanged, InvParts DEF ArriveAnonymous, Arrive
<1>2. Book' = Book
  BY BookUnchanged, BookEvict DEF ArriveAnonymous, Validate
<1>3. Spent' = Spent
  BY SpentUnchanged DEF ArriveAnonymous
<1>. QED
  BY <1>1, <1>2, <1>3 DEF Policy!policyVars, ArriveAnonymous, Validate

LEMMA GateSessionPolicy ==
  ASSUME Inv, NEW r \in Requests, GateSession(r)
  PROVE  \/ \E s \in Sessions, t \in Tenants, e \in Estimates : Policy!Pass(r, s, t, e)
         \/ UNCHANGED Policy!policyVars
<1>0. /\ TurnInv /\ r \in DOMAIN turn /\ turn[r] \in Turn
      /\ turn[r].stage = "check" /\ turn[r].in = 0
  BY InvParts DEF GateSession, At, TurnInv, NoUsageYet
<1>1. Book' = Book /\ Spent' = Spent
  BY BookUnchanged, BookEvict, SpentUnchanged DEF GateSession, CheckSession
<1>2. UNCHANGED <<clock, issued>>
  BY DEF GateSession, CheckSession
<1>3. CASE CheckCode(turn[r].session) # ""
  <2>1. Admitted' = Admitted
    BY <1>0, <1>3, AdmittedEndAtGate DEF GateSession
  <2>. QED
    BY <1>1, <1>2, <2>1 DEF Policy!policyVars
<1>4. CASE CheckCode(turn[r].session) = ""
  <2>. DEFINE s == turn[r].session
              a == [stage |-> "passed", session |-> s, tenant |-> turn[r].tenant,
                    estIn |-> turn[r].estIn, in |-> 0]
  <2>1. /\ s \in DOMAIN sessionMeta /\ ~Expired(s)
        /\ ~TurnsExhausted(sessionMeta[s]) /\ ~TokensExhausted(sessionMeta[s])
        /\ sessionMeta[s] \in Meta
    BY <1>4 DEF CheckCode, Inv, TypeOK, StoreTypeOK
  <2>2. s \in DOMAIN Book /\ Book[s] = sessionMeta[s]
    BY <2>1 DEF Book, Restrict, Lives, Expired, Age
  <2>3. turn' = [turn EXCEPT ![r].stage = "reserve"]
    BY <1>4 DEF GateSession, Goto
  <2>5. /\ DOMAIN Admitted' = DOMAIN Admitted \cup {r}
        /\ r \notin DOMAIN Admitted
        /\ Admitted'[r] = a
        /\ \A q \in DOMAIN Admitted : Admitted'[q] = Admitted[q]
    BY <1>0, <2>3 DEF Admitted, PolicyStage, TurnInv, Turn
  <2>6. Admitted' = Put(Admitted, r, a)
    BY <2>5 DEF Put, Admitted
  <2>. QED
    BY <1>0, <1>1, <1>2, <2>1, <2>2, <2>5, <2>6, StoreAssumption, PolicyMaps
    DEF Policy!Pass, TurnsExhausted, TokensExhausted, Turn, Meta
<1>. QED
  BY <1>3, <1>4

(* A request that leaves before it is charged. *)
LEMMA AbandonPolicy ==
  ASSUME Inv, NEW r, r \in DOMAIN turn, turn[r].stage \in {"reserve", "chat"}, End(r),
         Book' = Book, Spent' = Spent, UNCHANGED <<clock, issued>>
  PROVE  Policy!Abandon(r)
<1>1. Admitted' = Delete(Admitted, r)
  BY AdmittedEnd, InvParts
<1>2. r \in DOMAIN Admitted /\ Admitted[r].stage # "charged"
  BY InvParts DEF Admitted, PolicyStage, TurnInv, Turn
<1>. QED
  BY <1>1, <1>2, PolicyMaps DEF Policy!Abandon

LEMMA GateBudgetPolicy ==
  ASSUME Inv, NEW r \in Requests, GateBudget(r)
  PROVE  Policy!Grant(r) \/ Policy!Abandon(r)
<1>. DEFINE t == turn[r].tenant
<1>0. /\ TurnInv /\ BudgetInv /\ r \in DOMAIN turn /\ turn[r] \in Turn
      /\ turn[r].stage = "reserve" /\ t \in Tenants /\ turn[r].estIn \in Nat
  BY InvParts, TurnAssumption DEF GateBudget, At, TurnInv, Turn
<1>1. Book' = Book /\ Spent' = Spent /\ UNCHANGED <<clock, issued>>
  BY <1>0, BookUnchanged, SpentReserve DEF GateBudget, storeVars
<1>2. CASE ~FitsBudget(t, turn[r].estIn, MaxTokens)
  BY <1>0, <1>1, <1>2, AbandonPolicy DEF GateBudget
<1>3. CASE FitsBudget(t, turn[r].estIn, MaxTokens)
  <2>1. /\ turn' = [turn EXCEPT ![r].stage = "chat"]
        /\ Admitted[r].tenant = t /\ Admitted[r].estIn = turn[r].estIn
        /\ Admitted[r].stage = "passed" /\ r \in DOMAIN Admitted
    BY <1>0, <1>3 DEF GateBudget, Goto, Admitted, PolicyStage, TurnInv, Turn
  <2>2. Current(t) \in Counters /\ Spent[t].in = Current(t).in /\ Spent[t].out = Current(t).out
    BY <1>0, CurrentType, SpentIsCurrent DEF Spent
  <2>3. /\ Policy!Within(Spent[t].in + turn[r].estIn, MaxDailyIn)
        /\ Policy!Within(Spent[t].out + MaxTokens, MaxDailyOut)
    BY <1>0, <1>3, <2>2, BudgetAssumption, TurnAssumption
    DEF FitsBudget, WithinCap, Policy!Within, Counters
  <2>4. Admitted' = [Admitted EXCEPT ![r].stage = "granted"]
    BY <1>0, <2>1 DEF Admitted, PolicyStage, TurnInv, Turn
  <2>. QED
    BY <1>1, <2>1, <2>3, <2>4 DEF Policy!Grant
<1>. QED
  BY <1>2, <1>3

LEMMA ChunkDonePolicy ==
  ASSUME Inv, NEW r \in Requests, NEW in \in 0..MaxActualIn, NEW out \in 0..MaxActualOut,
         ChunkDone(r, in, out)
  PROVE  Policy!Charge(r, in, out)
<1>. DEFINE t == turn[r].tenant
<1>0. /\ TurnInv /\ BudgetInv /\ r \in DOMAIN turn /\ turn[r] \in Turn
      /\ turn[r].stage = "chat" /\ t \in Tenants
  BY InvParts DEF ChunkDone, At, TurnInv, Turn
<1>1. Book' = Book /\ UNCHANGED <<clock, issued>>
  BY BookUnchanged DEF ChunkDone, storeVars
<1>7. Spent' = [Spent EXCEPT ![t] = [in |-> @.in + in, out |-> @.out + out]]
  BY <1>0, SpentCommit, TurnAssumption DEF ChunkDone
<1>8. /\ turn' = [turn EXCEPT ![r].stage = "record", ![r].in = in]
      /\ Admitted[r].tenant = t /\ Admitted[r].stage = "granted" /\ r \in DOMAIN Admitted
  BY <1>0 DEF ChunkDone, Admitted, PolicyStage, TurnInv, Turn
<1>9. Admitted' = [Admitted EXCEPT ![r].stage = "charged", ![r].in = in]
  BY <1>0, <1>8 DEF Admitted, PolicyStage, TurnInv, Turn
<1>. QED
  BY <1>1, <1>7, <1>8, <1>9 DEF Policy!Charge

(* The turn is counted if its session is still there and unexpired; one    *)
(* that expired but was not evicted yet is counted where nobody looks.     *)
LEMMA RecordPolicy ==
  ASSUME Inv, NEW r \in Requests, Record(r)
  PROVE  Policy!Settle(r)
<1>. DEFINE s == turn[r].session
            counted(x) == IF x = s
                          THEN Used(Book[x], turn[r].in)
                          ELSE Book[x]
<1>0. /\ TurnInv /\ r \in DOMAIN turn /\ turn[r] \in Turn /\ turn[r].stage = "record"
      /\ NonNegative(turn[r].in) = turn[r].in
  BY InvParts, TurnAssumption DEF Record, At, TurnInv, Turn, NonNegative
<1>1. Spent' = Spent /\ UNCHANGED <<clock, issued>>
  BY SpentUnchanged DEF Record, RecordTurn
<1>2. Admitted' = Delete(Admitted, r)
  BY <1>0, AdmittedEnd DEF Record
<1>3. /\ r \in DOMAIN Admitted /\ Admitted[r].stage = "charged"
      /\ Admitted[r].session = s /\ Admitted[r].in = turn[r].in
  BY <1>0 DEF Admitted, PolicyStage, TurnInv, Turn
<1>4. /\ DOMAIN sessionMeta' = DOMAIN sessionMeta
      /\ \A x \in DOMAIN sessionMeta :
           /\ sessionMeta'[x] = IF x = s THEN Used(sessionMeta[x], turn[r].in)
                                          ELSE sessionMeta[x]
           /\ sessionMeta'[x].createdAt = sessionMeta[x].createdAt
  <2>1. /\ RecordTurn(s, turn[r].in)
        /\ sessionMeta \in [DOMAIN sessionMeta -> Meta]
    BY DEF Record, Inv, TypeOK, StoreTypeOK
  <2>2. /\ DOMAIN sessionMeta' = DOMAIN sessionMeta
        /\ \A x \in DOMAIN sessionMeta :
             sessionMeta'[x] = IF x = s THEN Used(sessionMeta[x], turn[r].in)
                                        ELSE sessionMeta[x]
    BY <2>1 DEF RecordTurn
  <2>3. \A m \in Meta : Used(m, turn[r].in).createdAt = m.createdAt
    BY DEF Used, Meta
  <2>. QED
    BY <2>1, <2>2, <2>3
<1>5. {x \in DOMAIN sessionMeta' : Lives(x)'} = {x \in DOMAIN sessionMeta : Lives(x)}
  BY <1>1, <1>4 DEF Expired, Age, Lives
<1>6. Book' = [x \in DOMAIN Book |-> counted(x)]
  BY <1>4, <1>5 DEF Book, Restrict
<1>. QED
  BY <1>0, <1>1, <1>2, <1>3, <1>6, PolicyMaps DEF Policy!Settle, Used

LEMMA NextPolicy == Inv /\ [Next]_vars => [Policy!PolicyNext]_Policy!policyVars
<1>. SUFFICES ASSUME Inv, [Next]_vars PROVE Policy!PolicyNext \/ UNCHANGED Policy!policyVars
  OBVIOUS
<1>1. CASE Tick
  BY <1>1, TickPolicy DEF Policy!PolicyNext
<1>2. CASE Midnight
  BY <1>2, MidnightPolicy DEF Policy!PolicyNext
<1>3. CASE Restart
  BY <1>3, RestartPolicy DEF Policy!PolicyNext
<1>4. ASSUME NEW s \in Sessions, InitSession(s)
      PROVE  Policy!PolicyNext \/ UNCHANGED Policy!policyVars
  BY <1>4, InitSessionPolicy DEF Policy!PolicyNext
<1>5. ASSUME NEW r \in Requests, NEW s \in Sessions, NEW t \in Tenants, NEW e \in Estimates,
             ArriveBearer(r, s, t, e) \/ ArriveAnonymous(r, s, t, e)
      PROVE  UNCHANGED Policy!policyVars
  BY <1>5, ArriveBearerPolicy, ArriveAnonymousPolicy
<1>6. ASSUME NEW r \in Requests, GateSession(r)
      PROVE  Policy!PolicyNext \/ UNCHANGED Policy!policyVars
  BY <1>6, GateSessionPolicy DEF Policy!PolicyNext
<1>7. ASSUME NEW r \in Requests, GateBudget(r) PROVE Policy!PolicyNext
  BY <1>7, GateBudgetPolicy DEF Policy!PolicyNext
<1>8. ASSUME NEW r \in Requests, TurnFails(r) PROVE Policy!PolicyNext
  <2>1. Book' = Book /\ Spent' = Spent /\ UNCHANGED <<clock, issued>>
    BY <1>8, BookUnchanged, SpentUnchanged DEF TurnFails, storeVars
  <2>2. Policy!Abandon(r)
    BY <1>8, <2>1, AbandonPolicy DEF TurnFails, At
  <2>. QED
    BY <2>2 DEF Policy!PolicyNext
<1>9. ASSUME NEW r \in Requests, NEW in \in 0..MaxActualIn, NEW out \in 0..MaxActualOut,
             ChunkDone(r, in, out)
      PROVE  Policy!PolicyNext
  BY <1>9, ChunkDonePolicy DEF Policy!PolicyNext
<1>10. ASSUME NEW r \in Requests, Record(r) PROVE Policy!PolicyNext
  BY <1>10, RecordPolicy DEF Policy!PolicyNext
<1>11. CASE UNCHANGED vars
  <2>1. Book' = Book /\ Spent' = Spent /\ Admitted' = Admitted
    BY <1>11, BookUnchanged, SpentUnchanged, AdmittedUnchanged DEF vars
  <2>. QED
    BY <1>11, <2>1 DEF vars, Policy!policyVars
<1>. QED
  BY <1>1, <1>2, <1>3, <1>4, <1>5, <1>6, <1>7, <1>8, <1>9, <1>10, <1>11 DEF Next

(* Eager forgetting and the code's lazy eviction and reset cannot be told  *)
(* apart: every behaviour of the handlers is one of the policy.            *)
THEOREM ImplementsTurnPolicy == Spec => ImplementsPolicy
<1>1. Spec => []Inv
  BY InitInv, NextInv, PTL DEF Spec
<1>. QED
  BY <1>1, InitPolicy, NextPolicy, PTL DEF Spec, ImplementsPolicy

=============================================================================
