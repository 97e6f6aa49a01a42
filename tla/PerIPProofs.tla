---------------------------- MODULE PerIPProofs -----------------------------
(***************************************************************************)
(* Theorems about PerIP, for every rate, burst, idle TTL and set of IPs    *)
(* that satisfies RateAssumption, and the named condition on the           *)
(* configuration where a theorem has one; and about Ingress, for every     *)
(* client, header, route and set of trusted proxies.                       *)
(***************************************************************************)
EXTENDS Ingress, TLAPS

LEMMA Constants ==
  /\ Full \in Nat /\ Gain \in Nat /\ Price \in Nat /\ Price <= Full
  /\ RetryWait \in Nat /\ RetryAfter \in Nat /\ RetryAfter * TicksPerSecond \in Nat
  /\ Rate <= 0 => Gain = 0 /\ Price = 0
  /\ Rate > 0 => Gain = Rate /\ Price = Cost
<1>1. Full \in Nat /\ Cost <= Full
  BY RateAssumption DEF Full
<1>2. Gain \in Nat /\ Price \in Nat /\ Price <= Full
  BY <1>1, RateAssumption DEF Gain, Price, NonNegative
<1>3. RetryWait \in Int
  BY RateAssumption DEF RetryWait, Larger, CeilDiv
<1>4. RetryWait \in Nat
  BY <1>3, RateAssumption DEF RetryWait, Larger, CeilDiv
<1>5. RetryAfter \in Nat
  BY <1>4, RateAssumption DEF RetryAfter, Larger
<1>6. RetryAfter * TicksPerSecond \in Nat
  BY <1>5, RateAssumption
<1>. QED
  BY <1>1, <1>2, <1>4, <1>5, <1>6, RateAssumption DEF Gain, Price, NonNegative

(* Products of naturals, for the solver. *)
LEMMA Product ==
  ASSUME NEW g \in Nat, NEW m \in Nat, NEW n \in Nat
  PROVE  /\ g * m \in Nat
         /\ g * (m + 1) = g * m + g
         /\ m <= n => g * m <= g * n
OBVIOUS

-----------------------------------------------------------------------------
(* Type correctness.  No entry is from a time to come, and without a rate  *)
(* every bucket stays full.                                                *)

EntryPast(b) ==
  /\ b.last <= b.lastSeen /\ b.lastSeen <= clock
  /\ Rate <= 0 => b.tokens = Full

Inv == TypeOK /\ \A ip \in DOMAIN buckets : EntryPast(buckets[ip])

LEMMA TokensRange ==
  ASSUME NEW b \in Entry, clock \in Nat, EntryPast(b)
  PROVE  /\ Tokens(b) \in 0..Full /\ b.tokens <= Tokens(b)
         /\ Gain * (clock - b.last) \in Nat
         /\ Rate <= 0 => Tokens(b) = Full
<1>1. clock - b.last \in Nat
  BY DEF EntryPast, Entry
<1>2. Gain * (clock - b.last) \in Nat
  BY <1>1, Constants, Product
<1>. QED
  BY <1>2, Constants DEF Tokens, Smaller, Entry, EntryPast

LEMMA KeptFacts ==
  ASSUME TypeOK
  PROVE  /\ DOMAIN Kept = {ip \in DOMAIN buckets : ~Idle(buckets[ip])}
         /\ \A ip \in DOMAIN Kept : Kept[ip] = buckets[ip]
         /\ Kept \in [DOMAIN Kept -> Entry]
BY DEF Kept, Restrict, TypeOK

LEMMA BucketFacts ==
  ASSUME Inv, NEW ip
  PROVE  Bucket(ip) \in Entry /\ EntryPast(Bucket(ip))
<1>1. CASE ip \in DOMAIN Kept
  BY <1>1, KeptFacts DEF Inv, Bucket
<1>2. CASE ip \notin DOMAIN Kept
  <2>1. Bucket(ip) = [tokens |-> Full, last |-> clock, lastSeen |-> clock]
    BY <1>2 DEF Bucket
  <2>2. clock \in Nat /\ Full \in 0..Full
    BY Constants DEF Inv, TypeOK
  <2>. QED
    BY <2>1, <2>2 DEF Entry, EntryPast
<1>. QED
  BY <1>1, <1>2

(* Storing an entry in what the collection left keeps the buckets' part.   *)
LEMMA PutKept ==
  ASSUME Inv, NEW ip \in IPs, NEW b \in Entry, EntryPast(b),
         buckets' = Put(Kept, ip, b), UNCHANGED clock
  PROVE  /\ DOMAIN buckets' = DOMAIN Kept \cup {ip}
         /\ buckets'[ip] = b
         /\ \A o \in DOMAIN Kept : o # ip => buckets'[o] = buckets[o]
         /\ DOMAIN buckets' \subseteq IPs
         /\ buckets' \in [DOMAIN buckets' -> Entry]
         /\ \A o \in DOMAIN buckets' : EntryPast(buckets[o])'
<1>1. /\ DOMAIN Kept \subseteq DOMAIN buckets
      /\ \A o \in DOMAIN Kept : Kept[o] = buckets[o] /\ Kept[o] \in Entry
  BY KeptFacts DEF Inv
<1>2. /\ DOMAIN buckets' = DOMAIN Kept \cup {ip}
      /\ buckets'[ip] = b
      /\ \A o \in DOMAIN Kept : o # ip => buckets'[o] = buckets[o]
  BY <1>1 DEF Put
<1>3. DOMAIN buckets' \subseteq IPs /\ buckets' \in [DOMAIN buckets' -> Entry]
  BY <1>1, <1>2 DEF Inv, TypeOK, Put
<1>4. \A o \in DOMAIN buckets' : EntryPast(buckets[o])'
  BY <1>1, <1>2 DEF Inv, EntryPast
<1>. QED
  BY <1>2, <1>3, <1>4

(* What AllowOK and AllowReject store. *)
Paid(ip) == [tokens |-> Tokens(Bucket(ip)) - Price, last |-> clock, lastSeen |-> clock]
Seen(ip) == [Bucket(ip) EXCEPT !.lastSeen = clock]

LEMMA StoredFacts ==
  ASSUME Inv, NEW ip
  PROVE  /\ Tokens(Bucket(ip)) >= Price => Paid(ip) \in Entry /\ EntryPast(Paid(ip))
         /\ Seen(ip) \in Entry /\ EntryPast(Seen(ip))
         /\ Tokens(Seen(ip)) = Tokens(Bucket(ip))
         /\ Tokens(Bucket(ip)) >= Price => Tokens(Paid(ip)) = Tokens(Bucket(ip)) - Price
<1>0. clock \in Nat
  BY DEF Inv, TypeOK
<1>1. Bucket(ip) \in Entry /\ EntryPast(Bucket(ip))
  BY BucketFacts
<1>2. /\ Tokens(Bucket(ip)) \in 0..Full
      /\ Rate <= 0 => Tokens(Bucket(ip)) = Full
  BY <1>0, <1>1, TokensRange
<1>3. Tokens(Bucket(ip)) >= Price => Paid(ip) \in Entry /\ EntryPast(Paid(ip))
  BY <1>0, <1>2, Constants DEF Paid, Entry, EntryPast
<1>4. Seen(ip) \in Entry /\ EntryPast(Seen(ip))
  BY <1>0, <1>1 DEF Seen, Entry, EntryPast
<1>5. Tokens(Seen(ip)) = Tokens(Bucket(ip))
  BY <1>1 DEF Seen, Entry, Tokens
<1>6. Gain * (clock - clock) = 0
  BY <1>0, Constants
<1>7. Tokens(Bucket(ip)) >= Price => Tokens(Paid(ip)) = Tokens(Bucket(ip)) - Price
  BY <1>2, <1>6, Constants DEF Paid, Tokens, Smaller
<1>. QED
  BY <1>3, <1>4, <1>5, <1>7

LEMMA InitInv == Init => Inv
BY DEF Init, Inv, TypeOK, EmptyMap

LEMMA NextInv == Inv /\ [Next]_vars => Inv'
<1>. SUFFICES ASSUME Inv, [Next]_vars PROVE Inv'
  OBVIOUS
<1>1. CASE Tick
  BY <1>1 DEF Tick, Inv, TypeOK, EntryPast, Entry
<1>2. ASSUME NEW ip \in IPs, AllowOK(ip) PROVE Inv'
  <2>1. Paid(ip) \in Entry /\ EntryPast(Paid(ip))
    BY <1>2, StoredFacts DEF AllowOK
  <2>2. /\ DOMAIN buckets' \subseteq IPs
        /\ buckets' \in [DOMAIN buckets' -> Entry]
        /\ \A o \in DOMAIN buckets' : EntryPast(buckets[o])'
    BY <1>2, <2>1, PutKept DEF AllowOK, Paid
  <2>3. DOMAIN told' \subseteq IPs /\ told' \in [DOMAIN told' -> Nat]
    BY <1>2 DEF AllowOK, Inv, TypeOK, Delete, Restrict
  <2>4. clock' \in Nat /\ admitted' \in [IPs -> Nat]
    BY <1>2 DEF AllowOK, Inv, TypeOK
  <2>. QED
    BY <2>2, <2>3, <2>4 DEF Inv, TypeOK
<1>3. ASSUME NEW ip \in IPs, AllowReject(ip) PROVE Inv'
  <2>1. Seen(ip) \in Entry /\ EntryPast(Seen(ip))
    BY StoredFacts
  <2>2. /\ DOMAIN buckets' \subseteq IPs
        /\ buckets' \in [DOMAIN buckets' -> Entry]
        /\ \A o \in DOMAIN buckets' : EntryPast(buckets[o])'
    BY <1>3, <2>1, PutKept DEF AllowReject, Seen
  <2>3. DOMAIN told' \subseteq IPs /\ told' \in [DOMAIN told' -> Nat]
    BY <1>3, Constants DEF AllowReject, Inv, TypeOK, Put
  <2>4. clock' \in Nat /\ admitted' \in [IPs -> Nat]
    BY <1>3 DEF AllowReject, Inv, TypeOK
  <2>. QED
    BY <2>2, <2>3, <2>4 DEF Inv, TypeOK
<1>4. CASE UNCHANGED vars
  BY <1>4 DEF vars, Inv, TypeOK, EntryPast
<1>. QED
  BY <1>1, <1>2, <1>3, <1>4 DEF Next

(* Every variable keeps its type; no bucket holds more than its burst.     *)
THEOREM BucketsTyped == Spec => []TypeOK
<1>1. Inv => TypeOK
  BY DEF Inv
<1>. QED
  BY <1>1, InitInv, NextInv, PTL DEF Spec

-----------------------------------------------------------------------------
(* What each step does to what an IP's bucket holds.                       *)

LEMMA FreshTokens ==
  ASSUME Inv, NEW ip, ip \notin DOMAIN Kept
  PROVE  Tokens(Bucket(ip)) = Full
<1>1. /\ Bucket(ip).tokens = Full /\ Bucket(ip).last = clock
      /\ Gain * (clock - clock) = 0
  BY Constants DEF Bucket, Inv, TypeOK
<1>. QED
  BY <1>1, Constants DEF Tokens, Smaller

LEMMA AfterPut ==
  ASSUME Inv, Inv', NEW ip \in IPs, NEW b \in Entry, EntryPast(b), b.lastSeen = clock,
         buckets' = Put(Kept, ip, b), UNCHANGED clock
  PROVE  /\ Tokens(Bucket(ip))' = Tokens(b)
         /\ \A o \in IPs : o # ip => Tokens(Bucket(o))' = Tokens(Bucket(o))
<1>0. clock \in Nat /\ IdleTTL \in Int
  BY RateAssumption DEF Inv, TypeOK
<1>1. /\ DOMAIN buckets' = DOMAIN Kept \cup {ip}
      /\ buckets'[ip] = b
      /\ \A o \in DOMAIN Kept : o # ip => buckets'[o] = buckets[o]
  BY PutKept
<1>2. /\ DOMAIN Kept = {o \in DOMAIN buckets : ~Idle(buckets[o])}
      /\ \A o \in DOMAIN Kept : Kept[o] = buckets[o]
  BY KeptFacts DEF Inv
<1>3. /\ DOMAIN Kept' = {o \in DOMAIN buckets' : ~Idle(buckets[o])'}
      /\ \A o \in DOMAIN Kept' : Kept'[o] = buckets'[o]
  BY DEF Kept, Restrict
<1>4. ~Idle(buckets[ip])'
  BY <1>0, <1>1 DEF Idle
<1>5. DOMAIN Kept' = DOMAIN Kept \cup {ip}
  BY <1>1, <1>2, <1>3, <1>4 DEF Idle
<1>6. Bucket(ip)' = b
  BY <1>1, <1>3, <1>5 DEF Bucket
<1>7. ASSUME NEW o \in IPs, o # ip PROVE Bucket(o)' = Bucket(o)
  BY <1>1, <1>2, <1>3, <1>5, <1>7 DEF Bucket
<1>. QED
  BY <1>6, <1>7 DEF Tokens

LEMMA AfterOK ==
  ASSUME Inv, Inv', NEW ip \in IPs, AllowOK(ip)
  PROVE  /\ Tokens(Bucket(ip))' = Tokens(Bucket(ip)) - Price
         /\ \A o \in IPs : o # ip => Tokens(Bucket(o))' = Tokens(Bucket(o))
<1>1. Paid(ip) \in Entry /\ EntryPast(Paid(ip)) /\ Paid(ip).lastSeen = clock
  BY StoredFacts DEF AllowOK, Paid
<1>2. Tokens(Paid(ip)) = Tokens(Bucket(ip)) - Price
  BY StoredFacts DEF AllowOK
<1>3. buckets' = Put(Kept, ip, Paid(ip)) /\ UNCHANGED clock
  BY DEF AllowOK, Paid
<1>. QED
  BY <1>1, <1>2, <1>3, AfterPut

LEMMA AfterReject ==
  ASSUME Inv, Inv', NEW ip \in IPs, AllowReject(ip)
  PROVE  \A o \in IPs : Tokens(Bucket(o))' = Tokens(Bucket(o))
<1>1. Seen(ip) \in Entry /\ EntryPast(Seen(ip)) /\ Seen(ip).lastSeen = clock
  BY StoredFacts, BucketFacts DEF Seen, Entry
<1>2. Tokens(Seen(ip)) = Tokens(Bucket(ip))
  BY StoredFacts
<1>3. buckets' = Put(Kept, ip, Seen(ip)) /\ UNCHANGED clock
  BY DEF AllowReject, Seen
<1>. QED
  BY <1>1, <1>2, <1>3, AfterPut

(* As time passes a bucket gains its rate; one that is forgotten would     *)
(* have been full.                                                         *)
LEMMA AfterTick ==
  ASSUME ForgetsFullOnly, Inv, Inv', Tick, NEW ip \in IPs
  PROVE  Tokens(Bucket(ip))' = Smaller(Tokens(Bucket(ip)) + Gain, Full)
<1>0. /\ clock \in Nat /\ clock' = clock + 1 /\ buckets' = buckets /\ IdleTTL \in Int
      /\ Full \in Nat /\ Gain \in Nat
  BY RateAssumption, Constants DEF Inv, TypeOK, Tick
<1>2. /\ DOMAIN Kept = {o \in DOMAIN buckets : ~Idle(buckets[o])}
      /\ \A o \in DOMAIN Kept : Kept[o] = buckets[o]
      /\ \A o \in DOMAIN buckets : buckets[o] \in Entry /\ EntryPast(buckets[o])
  BY KeptFacts DEF Inv, TypeOK
<1>3. /\ DOMAIN Kept' = {o \in DOMAIN buckets' : ~Idle(buckets[o])'}
      /\ \A o \in DOMAIN Kept' : Kept'[o] = buckets'[o]
  BY DEF Kept, Restrict
<1>4. CASE ip \notin DOMAIN Kept
  <2>1. ip \notin DOMAIN Kept'
    <3>1. ASSUME ip \in DOMAIN buckets, Idle(buckets[ip]) PROVE Idle(buckets[ip])'
      BY <1>0, <1>2, <3>1 DEF Idle, Entry
    <3>. QED
      BY <1>0, <1>2, <1>3, <1>4, <3>1
  <2>2. Tokens(Bucket(ip)) = Full /\ Tokens(Bucket(ip))' = Full
    <3>1. \A c \in Nat : Gain * (c - c) = 0
      BY <1>0
    <3>2. Tokens(Bucket(ip)) = Full
      BY <1>4, FreshTokens
    <3>3. /\ Bucket(ip)'.tokens = Full /\ Bucket(ip)'.last = clock'
      BY <2>1 DEF Bucket
    <3>4. Gain * (clock' - clock') = 0
      BY <1>0, <3>1
    <3>5. Tokens(Bucket(ip))' = Full
      BY <1>0, <3>3, <3>4 DEF Tokens, Smaller
    <3>. QED
      BY <3>2, <3>5
  <2>. QED
    BY <1>0, <2>2 DEF Smaller
<1>5. CASE ip \in DOMAIN Kept
  <2>. DEFINE b == buckets[ip]
              age == clock - buckets[ip].last
  <2>1. Bucket(ip) = b /\ b \in Entry /\ EntryPast(b) /\ ~Idle(b)
    BY <1>2, <1>5 DEF Bucket
  <2>2. age \in Nat /\ clock' - b.last = age + 1
    BY <1>0, <2>1 DEF Entry, EntryPast
  <2>3. Gain * (age + 1) = Gain * age + Gain /\ Gain * age \in Nat
    BY <1>0, <2>2, Product
  <2>4. Tokens(b) = Smaller(b.tokens + Gain * age, Full) /\ b.tokens \in Nat
    BY <2>1 DEF Tokens, Entry
  <2>5. Smaller(Tokens(b) + Gain, Full) = Smaller(b.tokens + Gain * (age + 1), Full)
    BY <1>0, <2>3, <2>4 DEF Smaller
  <2>6. CASE ip \in DOMAIN Kept'
    <3>1. Bucket(ip)' = b
      BY <1>0, <1>3, <2>6 DEF Bucket
    <3>2. Tokens(Bucket(ip))' = Smaller(b.tokens + Gain * (age + 1), Full)
      BY <2>2, <3>1 DEF Tokens
    <3>. QED
      BY <2>1, <2>5, <3>2
  <2>7. CASE ip \notin DOMAIN Kept'
    <3>1. Tokens(Bucket(ip))' = Full
      <4>1. /\ Bucket(ip)'.tokens = Full /\ Bucket(ip)'.last = clock'
        BY <2>7 DEF Bucket
      <4>2. Gain * (clock' - clock') = 0
        BY <1>0
      <4>. QED
        BY <1>0, <4>1, <4>2 DEF Tokens, Smaller
    <3>2. IdleTTL > 0 /\ b.lastSeen < clock' - IdleTTL
      BY <1>0, <1>2, <1>3, <1>5, <2>7 DEF Idle
    <3>3. IdleTTL \in Nat /\ IdleTTL <= age + 1
      BY <1>0, <2>1, <3>2 DEF Entry, EntryPast
    <3>4. CASE Rate > 0
      <4>1. Gain * IdleTTL <= Gain * (age + 1)
        BY <1>0, <2>2, <3>3, Product
      <4>2. IdleTTL * Gain >= Full
        BY <3>2, <3>4 DEF ForgetsFullOnly
      <4>3. b.tokens + Gain * (age + 1) >= Full
        BY <1>0, <2>3, <2>4, <3>3, <4>1, <4>2
      <4>. QED
        BY <1>0, <2>1, <2>3, <2>4, <2>5, <3>1, <4>3 DEF Smaller
    <3>5. CASE ~(Rate > 0)
      <4>1. b.tokens = Full
        BY <2>1, <3>5, RateAssumption DEF EntryPast
      <4>. QED
        BY <1>0, <2>1, <2>3, <2>5, <3>1, <4>1 DEF Smaller
    <3>. QED
      BY <3>4, <3>5
  <2>. QED
    BY <2>6, <2>7
<1>. QED
  BY <1>4, <1>5

-----------------------------------------------------------------------------
(* The rate: what an IP was let through and what its bucket still holds    *)
(* never exceed what the bucket was given.                                 *)

RateInv ==
  \A ip \in IPs : admitted[ip] * Price + Tokens(Bucket(ip)) <= Full + Gain * clock

LEMMA TokensNat ==
  ASSUME Inv, NEW ip
  PROVE  Tokens(Bucket(ip)) \in 0..Full
BY BucketFacts, TokensRange DEF Inv, TypeOK

LEMMA InitRate == Init => RateInv
<1>. SUFFICES ASSUME Init, NEW ip \in IPs
     PROVE  admitted[ip] * Price + Tokens(Bucket(ip)) <= Full + Gain * clock
  BY DEF RateInv
<1>1. /\ Inv /\ clock = 0 /\ admitted[ip] = 0 /\ ip \notin DOMAIN Kept
  BY InitInv, KeptFacts DEF Init, EmptyMap, Inv
<1>2. Tokens(Bucket(ip)) = Full
  BY <1>1, FreshTokens
<1>3. 0 * Price = 0 /\ Gain * 0 = 0
  BY Constants
<1>. QED
  BY <1>1, <1>2, <1>3, Constants

LEMMA NextRate ==
  ASSUME ForgetsFullOnly
  PROVE  Inv /\ Inv' /\ RateInv /\ [Next]_vars => RateInv'
<1>. SUFFICES ASSUME Inv, Inv', RateInv, [Next]_vars, NEW o \in IPs
     PROVE  admitted'[o] * Price + Tokens(Bucket(o))' <= Full + Gain * clock'
  BY DEF RateInv
<1>0. /\ Tokens(Bucket(o)) \in 0..Full /\ clock \in Nat
      /\ admitted \in [IPs -> Nat] /\ admitted[o] \in Nat
  BY TokensNat DEF Inv, TypeOK
<1>1. admitted[o] * Price + Tokens(Bucket(o)) <= Full + Gain * clock
  BY DEF RateInv
<1>2. /\ admitted[o] * Price \in Nat /\ (admitted[o] + 1) * Price = admitted[o] * Price + Price
      /\ Gain * clock \in Nat /\ Gain * (clock + 1) = Gain * clock + Gain
  BY <1>0, Constants
<1>3. CASE Tick
  <2>1. Tokens(Bucket(o))' = Smaller(Tokens(Bucket(o)) + Gain, Full)
    BY <1>3, AfterTick
  <2>2. admitted' = admitted /\ clock' = clock + 1
    BY <1>3 DEF Tick
  <2>. QED
    BY <1>0, <1>1, <1>2, <2>1, <2>2, Constants DEF Smaller
<1>4. ASSUME NEW ip \in IPs, AllowOK(ip)
      PROVE  admitted'[o] * Price + Tokens(Bucket(o))' <= Full + Gain * clock'
  <2>1. clock' = clock /\ admitted' = [admitted EXCEPT ![ip] = @ + 1]
    BY <1>4 DEF AllowOK
  <2>2. CASE o = ip
    <3>1. admitted'[o] = admitted[o] + 1 /\ Tokens(Bucket(o))' = Tokens(Bucket(o)) - Price
      BY <1>0, <1>4, <2>1, <2>2, AfterOK
    <3>. QED
      BY <1>0, <1>1, <1>2, <2>1, <3>1, Constants
  <2>3. CASE o # ip
    <3>1. admitted'[o] = admitted[o] /\ Tokens(Bucket(o))' = Tokens(Bucket(o))
      BY <1>0, <1>4, <2>1, <2>3, AfterOK
    <3>. QED
      BY <1>1, <2>1, <3>1
  <2>. QED
    BY <2>2, <2>3
<1>5. ASSUME NEW ip \in IPs, AllowReject(ip)
      PROVE  admitted'[o] * Price + Tokens(Bucket(o))' <= Full + Gain * clock'
  <2>1. clock' = clock /\ admitted' = admitted
    BY <1>5 DEF AllowReject
  <2>2. Tokens(Bucket(o))' = Tokens(Bucket(o))
    BY <1>5, AfterReject
  <2>. QED
    BY <1>1, <2>1, <2>2
<1>6. CASE UNCHANGED vars
  <2>1. clock' = clock /\ admitted' = admitted /\ Tokens(Bucket(o))' = Tokens(Bucket(o))
    BY <1>6 DEF vars, Tokens, Bucket, Kept, Idle
  <2>. QED
    BY <1>1, <2>1
<1>. QED
  BY <1>3, <1>4, <1>5, <1>6 DEF Next

(* No IP gets more than its burst and the rate times the time passed, if   *)
(* the configuration forgets full buckets only.                            *)
THEOREM RateHolds ==
  ASSUME ForgetsFullOnly
  PROVE  Spec => []RateBound
<1>1. Inv /\ RateInv => RateBound
  <2>. SUFFICES ASSUME Inv, RateInv, NEW ip \in IPs
       PROVE  admitted[ip] * Price <= Full + Gain * clock
    BY DEF RateBound
  <2>1. /\ Tokens(Bucket(ip)) \in 0..Full /\ admitted[ip] \in Nat /\ clock \in Nat
    BY TokensNat DEF Inv, TypeOK
  <2>2. admitted[ip] * Price \in Nat /\ Gain * clock \in Nat
    BY <2>1, Constants
  <2>. QED
    BY <2>1, <2>2, Constants DEF RateInv
<1>2. Inv /\ RateInv /\ [Next]_vars => Inv' /\ RateInv'
  BY NextInv, NextRate
<1>. QED
  BY <1>1, <1>2, InitInv, InitRate, PTL DEF Spec

-----------------------------------------------------------------------------
(* The Retry-After header.                                                 *)

Left(ip) == NonNegative(told[ip] - clock)

RetryInv == \A ip \in DOMAIN told : Tokens(Bucket(ip)) + Gain * Left(ip) >= Price

LEMMA NextRetry ==
  ASSUME ForgetsFullOnly, WaitFitsHeader
  PROVE  Inv /\ Inv' /\ RetryInv /\ [Next]_vars => RetryInv'
<1>. SUFFICES ASSUME Inv, Inv', RetryInv, [Next]_vars, NEW o \in DOMAIN told'
     PROVE  Tokens(Bucket(o))' + Gain * Left(o)' >= Price
  BY DEF RetryInv
<1>0. /\ o \in IPs /\ clock \in Nat /\ told \in [DOMAIN told -> Nat]
      /\ Tokens(Bucket(o)) \in 0..Full
  BY TokensNat DEF Inv, TypeOK
<1>1. CASE Tick
  <2>1. /\ o \in DOMAIN told /\ told[o] \in Nat /\ told' = told /\ clock' = clock + 1
        /\ Tokens(Bucket(o)) + Gain * Left(o) >= Price
    BY <1>0, <1>1 DEF Tick, RetryInv
  <2>2. Tokens(Bucket(o))' = Smaller(Tokens(Bucket(o)) + Gain, Full)
    BY <1>0, <1>1, AfterTick
  <2>3. /\ Left(o) \in Nat /\ Left(o)' \in Nat
        /\ Left(o) = Left(o)' + 1 \/ (Left(o) = 0 /\ Left(o)' = 0)
    BY <1>0, <2>1 DEF Left, NonNegative
  <2>4. /\ Gain * Left(o)' \in Nat
        /\ Gain * (Left(o)' + 1) = Gain * Left(o)' + Gain
        /\ Gain * 0 = 0
    BY <2>3, Constants, Product
  <2>5. Gain * Left(o) <= Gain * Left(o)' + Gain
    BY <2>3, <2>4, Constants
  <2>6. Gain * Left(o) \in Nat
    BY <2>3, Constants, Product
  <2>. QED
    BY <1>0, <2>1, <2>2, <2>4, <2>5, <2>6, Constants DEF Smaller
<1>2. ASSUME NEW ip \in IPs, AllowOK(ip) PROVE Tokens(Bucket(o))' + Gain * Left(o)' >= Price
  <2>1. o # ip /\ o \in DOMAIN told /\ told'[o] = told[o] /\ clock' = clock
    BY <1>2 DEF AllowOK, Delete, Restrict
  <2>2. Tokens(Bucket(o))' = Tokens(Bucket(o)) /\ Left(o)' = Left(o)
    BY <1>0, <1>2, <2>1, AfterOK DEF Left
  <2>. QED
    BY <2>1, <2>2 DEF RetryInv
<1>3. ASSUME NEW ip \in IPs, AllowReject(ip) PROVE Tokens(Bucket(o))' + Gain * Left(o)' >= Price
  <2>1. /\ clock' = clock /\ told' = Put(told, ip, clock + RetryAfter * TicksPerSecond)
        /\ Tokens(Bucket(o))' = Tokens(Bucket(o))
    BY <1>0, <1>3, AfterReject DEF AllowReject
  <2>2. CASE o = ip
    <3>1. told'[o] = clock + RetryAfter * TicksPerSecond
      BY <2>1, <2>2 DEF Put
    <3>2. Left(o)' = RetryAfter * TicksPerSecond
      BY <1>0, <2>1, <3>1, Constants DEF Left, NonNegative
    <3>. QED
      BY <1>0, <2>1, <3>2, Constants DEF WaitFitsHeader
  <2>3. CASE o # ip
    <3>1. o \in DOMAIN told /\ told'[o] = told[o]
      BY <2>1, <2>3 DEF Put
    <3>. QED
      BY <2>1, <3>1 DEF RetryInv, Left
  <2>. QED
    BY <2>2, <2>3
<1>4. CASE UNCHANGED vars
  BY <1>4 DEF vars, RetryInv, Left, Tokens, Bucket, Kept, Idle
<1>. QED
  BY <1>1, <1>2, <1>3, <1>4 DEF Next

(* A client that waits as long as the Retry-After header says is let       *)
(* through, if the wait is not rounded down and only full buckets are      *)
(* forgotten.                                                              *)
THEOREM RetryAfterHolds ==
  ASSUME ForgetsFullOnly, WaitFitsHeader
  PROVE  Spec => []RetryAfterSuffices
<1>1. Init => RetryInv
  BY DEF Init, RetryInv, EmptyMap
<1>2. Inv /\ RetryInv => RetryAfterSuffices
  <2>. SUFFICES ASSUME Inv, RetryInv, NEW ip \in DOMAIN told, clock >= told[ip]
       PROVE  Tokens(Bucket(ip)) >= Price
    BY DEF RetryAfterSuffices
  <2>1. told[ip] \in Nat /\ clock \in Nat /\ Tokens(Bucket(ip)) \in 0..Full
    BY TokensNat DEF Inv, TypeOK
  <2>2. Left(ip) = 0 /\ Gain * 0 = 0
    BY <2>1, Constants DEF Left, NonNegative
  <2>. QED
    BY <2>1, <2>2 DEF RetryInv
<1>3. Inv /\ RetryInv /\ [Next]_vars => Inv' /\ RetryInv'
  BY NextInv, NextRetry
<1>. QED
  BY <1>1, <1>2, <1>3, InitInv, PTL DEF Spec

-----------------------------------------------------------------------------
(* PerIP implements TokenBucket. *)

LEMMA IdealDefs ==
  /\ Ideal!Full = Full /\ Ideal!Gain = Gain /\ Ideal!Price = Price
  /\ Ideal!RetryAfter = RetryAfter
  /\ Ideal!EmptyMap = EmptyMap
  /\ \A a, b : Ideal!Smaller(a, b) = Smaller(a, b)
  /\ \A m, k, v : Ideal!Put(m, k, v) = Put(m, k, v)
  /\ \A m, k : Ideal!Delete(m, k) = Delete(m, k)
BY DEF Ideal!Full, Full, Ideal!Gain, Gain, Ideal!Price, Price, Ideal!NonNegative, NonNegative,
       Ideal!RetryAfter, RetryAfter, Ideal!RetryWait, RetryWait, Ideal!Larger, Larger,
       Ideal!CeilDiv, CeilDiv, Ideal!EmptyMap, EmptyMap, Ideal!Smaller, Smaller,
       Ideal!Put, Put, Ideal!Delete, Delete, Ideal!Restrict, Restrict

LEMMA InitIdeal == Init => Ideal!BucketInit
<1>. SUFFICES ASSUME Init PROVE Ideal!BucketInit
  OBVIOUS
<1>1. Inv /\ DOMAIN Kept = {}
  BY InitInv, KeptFacts DEF Init, EmptyMap, Inv
<1>2. Level = [ip \in IPs |-> Full]
  BY <1>1, FreshTokens DEF Level
<1>. QED
  BY <1>2, IdealDefs DEF Init, Ideal!BucketInit

LEMMA NextIdeal ==
  ASSUME ForgetsFullOnly
  PROVE  Inv /\ Inv' /\ [Next]_vars => [Ideal!BucketNext]_Ideal!bucketVars
<1>. SUFFICES ASSUME Inv, Inv', [Next]_vars
     PROVE  Ideal!BucketNext \/ UNCHANGED Ideal!bucketVars
  OBVIOUS
<1>1. CASE Tick
  <2>1. Level' = [ip \in IPs |-> Smaller(Level[ip] + Gain, Full)]
    BY <1>1, AfterTick DEF Level
  <2>2. Ideal!Fill
    BY <1>1, <2>1, IdealDefs DEF Tick, Ideal!Fill
  <2>. QED
    BY <2>2 DEF Ideal!BucketNext
<1>2. ASSUME NEW ip \in IPs, AllowOK(ip) PROVE Ideal!BucketNext
  <2>1. Level[ip] = Tokens(Bucket(ip)) /\ Level[ip] >= Price
    BY <1>2 DEF Level, AllowOK
  <2>2. Level' = [Level EXCEPT ![ip] = @ - Price]
    BY <1>2, AfterOK DEF Level
  <2>3. Ideal!Admit(ip)
    BY <1>2, <2>1, <2>2, IdealDefs DEF AllowOK, Ideal!Admit
  <2>. QED
    BY <2>3 DEF Ideal!BucketNext
<1>3. ASSUME NEW ip \in IPs, AllowReject(ip) PROVE Ideal!BucketNext
  <2>1. Level' = Level /\ Level[ip] < Price
    BY <1>3, AfterReject DEF Level, AllowReject
  <2>2. Ideal!Refuse(ip)
    BY <1>3, <2>1, IdealDefs DEF AllowReject, Ideal!Refuse
  <2>. QED
    BY <2>2 DEF Ideal!BucketNext
<1>4. CASE UNCHANGED vars
  <2>1. Level' = Level
    BY <1>4 DEF vars, Level, Tokens, Bucket, Kept, Idle
  <2>. QED
    BY <1>4, <2>1 DEF vars, Ideal!bucketVars
<1>. QED
  BY <1>1, <1>2, <1>3, <1>4 DEF Next

(* Lazy allocation and idle collection do not show: the limiter is one     *)
(* token bucket per IP, if the configuration forgets full buckets only.    *)
THEOREM IsTokenBucket ==
  ASSUME ForgetsFullOnly
  PROVE  Spec => ImplementsTokenBucket
<1>1. Spec => []Inv
  BY InitInv, NextInv, PTL DEF Spec
<1>2. Inv /\ Inv' /\ [Next]_vars => [Ideal!BucketNext]_Ideal!bucketVars
  BY NextIdeal
<1>. QED
  BY <1>1, <1>2, InitIdeal, PTL DEF Spec, ImplementsTokenBucket

-----------------------------------------------------------------------------
(* The client's name, and what Ingress makes of the limiter.               *)

Outside == Clients \ (Trusted \cup {NoIP})

(* Behind trusted proxies the scan stops at the address the first of them  *)
(* has added.                                                              *)
LEMMA ScanStops ==
  ASSUME NEW c \in Outside, NEW hops, NEW k \in Nat,
         k \in DOMAIN hops, hops[k] = c, DOMAIN hops \subseteq Nat,
         \A i \in DOMAIN hops : i > k => hops[i] \in Trusted
  PROVE  Untrusted(hops) # {} /\ FirstUntrusted(hops) = c
<1>1. k \in Untrusted(hops)
  BY DEF Untrusted, Outside
<1>2. \A i \in Untrusted(hops) : i \in Nat /\ k >= i
  BY DEF Untrusted
<1> DEFINE S == Untrusted(hops)
<1>3. Max(S) = CHOOSE x \in S : \A y \in S : x >= y
  BY DEF Max
<1> HIDE DEF S
<1>4. \E x \in S : \A y \in S : x >= y
  BY <1>1, <1>2 DEF S
<1>5. Max(S) \in S /\ \A y \in S : Max(S) >= y
  BY <1>3, <1>4
<1>6. Max(S) = k
  <2>1. k \in S /\ \A i \in S : i \in Nat /\ k >= i
    BY <1>1, <1>2 DEF S
  <2> DEFINE m == Max(S)
  <2>2. m \in S /\ m >= k
    BY <2>1, <1>5
  <2> HIDE DEF m
  <2>3. m = k
    BY <2>1, <2>2
  <2> QED
    BY <2>3 DEF m
<1> QED
  BY <1>1, <1>6 DEF FirstUntrusted, S

LEMMA UpToSeq ==
  ASSUME NEW n, NEW S, NEW s \in UpTo(n, S)
  PROVE  s \in Seq(S)
<1>1. PICK k \in 0..n : s \in [1..k -> S]
  BY DEF UpTo
<1> QED
  BY <1>1

LEMMA NameOf ==
  ASSUME NEW c \in Outside, NEW forged \in Seq(Hops), NEW route \in Seq(Trusted)
  PROVE  resolveClientIP(Remote(c, route), Header(c, forged, route)) = c
<1>1. CASE route = <<>>
  <2>1. Remote(c, route) = c /\ c \notin Trusted
    BY <1>1 DEF Remote, Outside
  <2> QED
    BY <2>1 DEF resolveClientIP, Forwarded
<1>2. CASE route # <<>>
  <2> DEFINE others == SubSeq(route, 1, Len(route) - 1)
             k == Len(forged) + 1
             hops == forged \o <<c>> \o others
  <2>1. Len(route) \in Nat /\ Len(route) > 0
    BY <1>2
  <2>2. /\ others \in Seq(Trusted) /\ Len(others) \in Nat
        /\ DOMAIN others = 1..Len(others)
        /\ \A i \in 1..Len(others) : others[i] \in Trusted
    <3>1. others \in Seq(Trusted)
      BY <2>1
    <3> HIDE DEF others
    <3> QED
      BY <3>1
  <2>3. Header(c, forged, route) = hops /\ Remote(c, route) \in Trusted
    <3>1. route[Len(route)] \in Trusted
      BY <2>1
    <3>2. Remote(c, route) \in Trusted
      BY <1>2, <3>1 DEF Remote
    <3>3. Header(c, forged, route) = hops
      BY <1>2 DEF Header
    <3> QED
      BY <3>2, <3>3
  <2> HIDE DEF others
  <2>4. Len(forged) \in Nat /\ Len(forged \o <<c>>) = k /\ (forged \o <<c>>)[k] = c
    BY DEF Outside
  <2> DEFINE front == forged \o <<c>>
  <2>5. /\ front \in Seq(Hops \cup {c}) /\ Len(front) = k /\ front[k] = c /\ hops = front \o others
    BY <2>4
  <2> HIDE DEF front, hops
  <2>6. /\ DOMAIN hops = 1..(k + Len(others)) /\ hops[k] = c
        /\ \A i \in DOMAIN hops : i > k => hops[i] = others[i - k]
    <3> HIDE DEF k
    <3>1. k \in Nat /\ k > 0
      BY <2>4 DEF k
    <3>2. DOMAIN hops = 1..(k + Len(others))
      <4> DEFINE U == Hops \cup {c} \cup Trusted
      <4>1. front \in Seq(U)
        BY <2>5
      <4>2. others \in Seq(U)
        BY <2>2
      <4> HIDE DEF U
      <4>3. Len(hops) = k + Len(others) /\ hops \in Seq(U)
        <5>1. /\ front \o others \in Seq(U)
              /\ Len(front \o others) = Len(front) + Len(others)
          BY <4>1, <4>2
        <5>2. Len(front) = k /\ hops = front \o others
          BY <2>5
        <5> QED
          BY <5>1, <5>2
      <4> QED
        BY <4>3
    <3>3. hops[k] = c
      BY <3>1, <2>2, <2>5
    <3>4. \A i \in DOMAIN hops : i > k => hops[i] = others[i - k]
      BY <3>1, <3>2, <2>2, <2>5
    <3> QED
      BY <3>2, <3>3, <3>4
  <2>7. \A i \in DOMAIN hops : i > k => hops[i] \in Trusted
    <3> SUFFICES ASSUME NEW i \in DOMAIN hops, i > k PROVE hops[i] \in Trusted
      OBVIOUS
    <3>1. i - k \in 1..Len(others)
      BY <2>2, <2>4, <2>6
    <3> QED
      BY <3>1, <2>2, <2>6
  <2>8. k \in Nat /\ k \in DOMAIN hops /\ DOMAIN hops \subseteq Nat
    BY <2>2, <2>4, <2>6
  <2> HIDE DEF k
  <2>9. Untrusted(hops) # {} /\ FirstUntrusted(hops) = c
    BY <2>6, <2>7, <2>8, ScanStops
  <2>10. hops # <<>>
    BY <2>8
  <2> QED
    BY <2>3, <2>9, <2>10 DEF resolveClientIP, Forwarded
<1> QED
  BY <1>1, <1>2

LEMMA OwnName == \A c \in Outside : \A ip \in Names[c] : ip = c
<1> SUFFICES ASSUME NEW c \in Outside, NEW ip \in Names[c] PROVE ip = c
  OBVIOUS
<1>1. PICK forged \in UpTo(MaxForged, Hops), route \in UpTo(MaxProxies, Trusted) :
        ip = resolveClientIP(Remote(c, route), Header(c, forged, route))
  BY DEF Names, NamesOf, Outside
<1>2. forged \in Seq(Hops) /\ route \in Seq(Trusted)
  BY UpToSeq
<1> QED
  BY <1>1, <1>2, NameOf

LEMMA OwnNameExists ==
  ASSUME NEW c \in Outside, MaxForged \in Nat, MaxProxies \in Nat
  PROVE  Names[c] # {}
<1> DEFINE none == [i \in 1..0 |-> c]
<1>1. none \in [1..0 -> Hops] /\ none \in [1..0 -> Trusted]
  OBVIOUS
<1> HIDE DEF none
<1>2. 0 \in 0..MaxForged /\ 0 \in 0..MaxProxies
  OBVIOUS
<1>3. none \in UpTo(MaxForged, Hops) /\ none \in UpTo(MaxProxies, Trusted)
  BY <1>1, <1>2 DEF UpTo
<1>4. resolveClientIP(Remote(c, none), Header(c, none, none)) \in NamesOf(c)
  BY <1>3 DEF NamesOf
<1> QED
  BY <1>4 DEF Names, Outside

(* Every step of the middlewares is one of the limiter. *)
LEMMA IngressStep == [IngressNext]_ingressVars => [Next]_vars
<1> SUFFICES ASSUME IngressNext PROVE Next
  BY DEF ingressVars
<1>1. CASE Wait
  BY <1>1 DEF Wait, Next
<1>2. ASSUME NEW c \in Clients, NEW ip \in Names[c], Pass(c, ip) \/ Stop(ip)
      PROVE  Next
  <2>1. ip \in IPs
    BY IngressAssumption
  <2> QED
    BY <1>2, <2>1 DEF Pass, Stop, Next
<1> QED
  BY <1>1, <1>2 DEF IngressNext

PassedInv ==
  /\ passed \in [Clients -> Nat]
  /\ \A c \in Outside : c \in IPs => passed[c] <= admitted[c]

LEMMA NextPassed == Inv /\ PassedInv /\ [IngressNext]_ingressVars => PassedInv'
<1> SUFFICES ASSUME Inv, PassedInv, [IngressNext]_ingressVars PROVE PassedInv'
  OBVIOUS
<1>1. admitted \in [IPs -> Nat]
  BY DEF Inv, TypeOK
<1>2. CASE Wait \/ UNCHANGED ingressVars
  BY <1>2 DEF Wait, Tick, ingressVars, vars, PassedInv
<1>3. ASSUME NEW c \in Clients, NEW ip \in Names[c], Pass(c, ip)
      PROVE  PassedInv'
  <2>1. /\ admitted' = [admitted EXCEPT ![ip] = @ + 1]
        /\ passed' = [passed EXCEPT ![c] = @ + 1]
    BY <1>3 DEF Pass, AllowOK
  <2>2. passed' \in [Clients -> Nat]
    BY <2>1 DEF PassedInv
  <2>3. ASSUME NEW o \in Outside, o \in IPs
        PROVE  passed'[o] <= admitted'[o]
    <3>1. /\ o \in Clients /\ passed[o] <= admitted[o]
          /\ passed[o] \in Nat /\ admitted[o] \in Nat
      BY <2>3, <1>1 DEF Outside, PassedInv
    <3>2. admitted'[o] >= admitted[o] /\ admitted'[o] \in Nat
      BY <3>1, <2>1, <2>3, <1>1
    <3>3. CASE o = c
      <4>1. ip = o
        BY <3>3, OwnName
      <4> QED
        BY <4>1, <3>1, <3>3, <2>1, <2>3, <1>1 DEF PassedInv
    <3>4. CASE o # c
      <4>1. passed'[o] = passed[o]
        BY <3>1, <3>4, <2>1 DEF PassedInv
      <4> QED
        BY <4>1, <3>1, <3>2
    <3> QED
      BY <3>3, <3>4
  <2> QED
    BY <2>2, <2>3 DEF PassedInv
<1>4. ASSUME NEW ip, Stop(ip)
      PROVE  PassedInv'
  BY <1>4 DEF Stop, AllowReject, PassedInv
<1> QED
  BY <1>2, <1>3, <1>4 DEF IngressNext

(* Whatever it writes into the header and whichever trusted proxies its    *)
(* requests take, a client outside them gets its own bucket and no other,  *)
(* if the configuration forgets full buckets only.                         *)
THEOREM ClientHolds ==
  ASSUME ForgetsFullOnly
  PROVE  IngressSpec => []ClientBound
<1>1. IngressInit => Inv /\ RateInv /\ PassedInv
  <2>1. IngressInit => PassedInv
    BY DEF IngressInit, Init, PassedInv, Outside
  <2> QED
    BY <2>1, InitInv, InitRate DEF IngressInit
<1>2. Inv /\ RateInv /\ PassedInv /\ [IngressNext]_ingressVars
      => Inv' /\ RateInv' /\ PassedInv'
  BY NextInv, NextRate, NextPassed, IngressStep
<1>3. Inv /\ RateInv /\ PassedInv => ClientBound
  <2> SUFFICES ASSUME Inv, RateInv, PassedInv, NEW c \in Outside
              PROVE  passed[c] * Price <= Full + Gain * clock
    BY DEF ClientBound, Outside
  <2>1. c \in IPs
    <3>1. Names[c] # {}
      BY OwnNameExists, IngressAssumption
    <3> QED
      BY <3>1, OwnName, IngressAssumption DEF Outside
  <2>2. /\ passed[c] \in Nat /\ admitted[c] \in Nat /\ passed[c] <= admitted[c] /\ clock \in Nat
    BY <2>1 DEF PassedInv, Outside, Inv, TypeOK
  <2>3. Tokens(Bucket(c)) \in 0..Full
    BY TokensNat
  <2>4. admitted[c] * Price + Tokens(Bucket(c)) <= Full + Gain * clock
    BY <2>1 DEF RateInv
  <2>5. /\ Price * passed[c] <= Price * admitted[c]
        /\ Price * passed[c] \in Nat /\ Price * admitted[c] \in Nat /\ Gain * clock \in Nat
    BY <2>2, Constants, Product
  <2>6. Price * passed[c] = passed[c] * Price /\ Price * admitted[c] = admitted[c] * Price
    BY <2>2, Constants
  <2> QED
    BY <2>3, <2>4, <2>5, <2>6, Constants
<1> QED
  BY <1>1, <1>2, <1>3, PTL DEF IngressSpec

=============================================================================
