------------------------------- MODULE PerIP --------------------------------
(***************************************************************************)
(* perip.Limiter and its middleware: one x/time/rate limiter per client    *)
(* IP, allocated by the IP's first request and deleted once the IP has     *)
(* been idle for longer than IdleTTL (relay/internal/ratelimit/perip,      *)
(* relay/internal/server/perip_stub.go).  Allow holds the mutex, so it is  *)
(* one step.                                                               *)
(***************************************************************************)
EXTENDS RateConfig

CONSTANT MaxClock   (* bound of the model *)

VARIABLES
  clock,      (* l.now(), in ticks                                         *)
  buckets,    (* Limiter.buckets                                           *)
  admitted,   (* requests let through, per IP                              *)
  told        (* IP -> when its last refusal's Retry-After runs out        *)

vars == <<clock, buckets, admitted, told>>

Entry == [tokens : 0..Full, last : Nat, lastSeen : Nat]

TypeOK ==
  /\ clock \in Nat
  /\ DOMAIN buckets \subseteq IPs
  /\ buckets \in [DOMAIN buckets -> Entry]
  /\ admitted \in [IPs -> Nat]
  /\ DOMAIN told \subseteq IPs
  /\ told \in [DOMAIN told -> Nat]

Init ==
  /\ clock = 0
  /\ buckets = EmptyMap
  /\ admitted = [ip \in IPs |-> 0]
  /\ told = EmptyMap

-----------------------------------------------------------------------------

Tick ==
  /\ clock < MaxClock
  /\ clock' = clock + 1
  /\ UNCHANGED <<buckets, admitted, told>>

(* rate.Limiter.advance: what a bucket holds now. *)
Tokens(b) == Smaller(b.tokens + Gain * (clock - b.last), Full)

Idle(b) == IdleTTL > 0 /\ b.lastSeen < clock - IdleTTL

(* gcLocked *)
Kept == Restrict(buckets, {ip \in DOMAIN buckets : ~Idle(buckets[ip])})

(* The bucket Allow works on: the IP's own, or a fresh and full one. *)
Bucket(ip) ==
  IF ip \in DOMAIN Kept
  THEN Kept[ip]
  ELSE [tokens |-> Full, last |-> clock, lastSeen |-> clock]

AllowOK(ip) ==
  /\ Tokens(Bucket(ip)) >= Price
  /\ buckets' = Put(Kept, ip, [tokens   |-> Tokens(Bucket(ip)) - Price,
                               last     |-> clock,
                               lastSeen |-> clock])
  /\ admitted' = [admitted EXCEPT ![ip] = @ + 1]
  /\ told' = Delete(told, ip)
  /\ UNCHANGED clock

(* Mutant: a refusal moves the bucket's time without crediting it. *)
AllowRejectLosesCredit(ip) ==
  /\ Tokens(Bucket(ip)) < Price
  /\ buckets' = Put(Kept, ip, [Bucket(ip) EXCEPT !.last = clock, !.lastSeen = clock])
  /\ told' = Put(told, ip, clock + RetryAfter * TicksPerSecond)
  /\ UNCHANGED <<clock, admitted>>

(* 429 rate_limited *)
AllowReject(ip) ==
  /\ Tokens(Bucket(ip)) < Price
  /\ buckets' = Put(Kept, ip, [Bucket(ip) EXCEPT !.lastSeen = clock])
  /\ told' = Put(told, ip, clock + RetryAfter * TicksPerSecond)
  /\ UNCHANGED <<clock, admitted>>

Next == Tick \/ \E ip \in IPs : AllowOK(ip) \/ AllowReject(ip)

Spec == Init /\ [][Next]_vars

-----------------------------------------------------------------------------
(* Properties. *)

(* The two conditions on the configuration, which the startup gate does    *)
(* not check and the defaults (1/s, burst 5, 15m) satisfy.                 *)

(* A bucket may be forgotten only when it would be full again. *)
ForgetsFullOnly == IdleTTL > 0 /\ Rate > 0 => IdleTTL * Gain >= Full

(* The header's whole seconds are long enough: 1/requests_per_second is at *)
(* most one second or a whole number of seconds.                           *)
WaitFitsHeader == Gain * (RetryAfter * TicksPerSecond) >= Price

(* No IP gets more than its burst and the rate times the time passed       *)
(* (under ForgetsFullOnly).                                                *)
RateBound == \A ip \in IPs : admitted[ip] * Price <= Full + Gain * clock

(* A client that waits as long as Retry-After says is let through, if its  *)
(* IP sends nothing in between (under WaitFitsHeader).                     *)
RetryAfterSuffices ==
  \A ip \in DOMAIN told : clock >= told[ip] => Tokens(Bucket(ip)) >= Price

Level == [ip \in IPs |-> Tokens(Bucket(ip))]

Ideal == INSTANCE TokenBucket WITH level <- Level

(* Neither the lazy allocation nor the collection of idle buckets shows:   *)
(* the limiter is one token bucket per IP (under ForgetsFullOnly).         *)
ImplementsTokenBucket == Ideal!BucketInit /\ [][Ideal!BucketNext]_Ideal!bucketVars

=============================================================================
