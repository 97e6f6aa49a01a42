--------------------------- MODULE BudgetTracker ----------------------------
(***************************************************************************)
(* budget.Tracker: the daily LLM token budget, one counter per tenant key  *)
(* (relay/internal/budget/budget.go).  The counter of a past UTC day is    *)
(* reset lazily, by the first call that looks at it.  Every method holds   *)
(* the tracker's mutex, so each is one step.                               *)
(***************************************************************************)
EXTENDS GoBasics

CONSTANTS
  Tenants,        (* the values of X-Intake-Tenant, "" included *)
  MaxDailyIn,     (* daily input-token cap, 0 = no cap          *)
  MaxDailyOut     (* daily output-token cap, 0 = no cap         *)

ASSUME BudgetAssumption ==
  /\ MaxDailyIn \in Nat
  /\ MaxDailyOut \in Nat

VARIABLES
  today,    (* the current UTC day                     *)
  tenants   (* Tracker.tenants: tenant -> its counters *)

Counters == [in : Nat, out : Nat, dayStart : Nat]

BudgetTypeOK ==
  /\ today \in Nat
  /\ DOMAIN tenants \subseteq Tenants
  /\ tenants \in [DOMAIN tenants -> Counters]

BudgetInit ==
  /\ today = 0
  /\ tenants = EmptyMap

-----------------------------------------------------------------------------

(* Mutant: the day is truncated one day short. *)
NoSpendDayEarly == [in |-> 0, out |-> 0, dayStart |-> today - 1]

NoSpend == [in |-> 0, out |-> 0, dayStart |-> today]

(* Mutant: yesterday's counter survives midnight. *)
CurrentDayLate(t) ==
  IF t \in DOMAIN tenants /\ ~(tenants[t].dayStart + 1 < today)
  THEN tenants[t]
  ELSE NoSpend

(* tenantLocked: the counter as every method sees it, created or reset on  *)
(* demand.  The callers below store what it returns.                       *)
Current(t) ==
  IF t \in DOMAIN tenants /\ ~(tenants[t].dayStart < today)
  THEN tenants[t]
  ELSE NoSpend

WithinCap(total, cap) == cap > 0 => total <= cap

(* Mutant: a turn within either cap is let through. *)
FitsEitherCap(t, estIn, estOut) ==
  \/ WithinCap(Current(t).in + estIn, MaxDailyIn)
  \/ WithinCap(Current(t).out + estOut, MaxDailyOut)

(* What Reserve answers; it stores nothing but the created or reset counter. *)
FitsBudget(t, estIn, estOut) ==
  /\ WithinCap(Current(t).in + estIn, MaxDailyIn)
  /\ WithinCap(Current(t).out + estOut, MaxDailyOut)

Reserve(t) == tenants' = Put(tenants, t, Current(t))

(* Commit never rejects, and charges the day on which it runs. *)
Commit(t, actualIn, actualOut) ==
  tenants' = Put(tenants, t,
                 [in       |-> Current(t).in + NonNegative(actualIn),
                  out      |-> Current(t).out + NonNegative(actualOut),
                  dayStart |-> Current(t).dayStart])

LoseBudget == tenants' = EmptyMap

=============================================================================
