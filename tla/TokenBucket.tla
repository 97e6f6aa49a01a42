---------------------------- MODULE TokenBucket -----------------------------
(***************************************************************************)
(* What the per-IP limiter promises: every client IP has a token bucket of *)
(* its own, from the start and for ever, that fills as time passes.        *)
(***************************************************************************)
EXTENDS RateConfig

VARIABLES clock, level, admitted, told

bucketVars == <<clock, level, admitted, told>>

BucketInit ==
  /\ clock = 0
  /\ level = [ip \in IPs |-> Full]
  /\ admitted = [ip \in IPs |-> 0]
  /\ told = EmptyMap

Fill ==
  /\ clock' = clock + 1
  /\ level' = [ip \in IPs |-> Smaller(level[ip] + Gain, Full)]
  /\ UNCHANGED <<admitted, told>>

Admit(ip) ==
  /\ level[ip] >= Price
  /\ level' = [level EXCEPT ![ip] = @ - Price]
  /\ admitted' = [admitted EXCEPT ![ip] = @ + 1]
  /\ told' = Delete(told, ip)
  /\ UNCHANGED clock

Refuse(ip) ==
  /\ level[ip] < Price
  /\ told' = Put(told, ip, clock + RetryAfter * TicksPerSecond)
  /\ UNCHANGED <<clock, level, admitted>>

BucketNext == Fill \/ \E ip \in IPs : Admit(ip) \/ Refuse(ip)

BucketSpec == BucketInit /\ [][BucketNext]_bucketVars

=============================================================================
