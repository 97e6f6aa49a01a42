----------------------------- MODULE RateConfig -----------------------------
(***************************************************************************)
(* The configuration of the per-IP rate limiter and what perip.New derives *)
(* from it (relay/internal/ratelimit/perip/perip.go).  A request costs     *)
(* Cost units and a bucket gains Rate units a tick, so that                *)
(*   requests_per_second = Rate * TicksPerSecond / Cost                    *)
(* need not be integral.                                                   *)
(***************************************************************************)
EXTENDS GoBasics

CONSTANTS
  IPs,              (* the client IPs clientIPMiddleware resolves, "" included *)
  Rate,             (* units gained per tick; <= 0 means no limit              *)
  Cost,             (* units per request                                       *)
  Burst,            (* requests a full bucket holds                            *)
  IdleTTL,          (* ticks an unused bucket is kept, <= 0 = for ever         *)
  TicksPerSecond

ASSUME RateAssumption ==
  /\ Rate \in Int
  /\ Cost \in Nat \ {0}
  /\ Burst \in Nat \ {0}
  /\ IdleTTL \in Int
  /\ TicksPerSecond \in Nat \ {0}

Smaller(a, b) == IF a <= b THEN a ELSE b
Larger(a, b) == IF a >= b THEN a ELSE b

Full == Burst * Cost

(* Without a rate nothing is gained and nothing is paid. *)
Gain == NonNegative(Rate)
Price == IF Rate > 0 THEN Cost ELSE 0

CeilDiv(a, b) == (a + b - 1) \div b

(* Mutant: one second, whatever the rate. *)
RetryWaitOneSecond == TicksPerSecond

(* retryWait: how long one request's worth takes to come back, in ticks,   *)
(* one second at least.                                                    *)
RetryWait == IF Rate > 0 THEN Larger(CeilDiv(Cost, Rate), TicksPerSecond) ELSE TicksPerSecond

(* setRetryAfter: the Retry-After header, in whole seconds, rounded down,  *)
(* one at least.                                                           *)
RetryAfter == Larger(RetryWait \div TicksPerSecond, 1)

=============================================================================
