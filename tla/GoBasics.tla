------------------------------ MODULE GoBasics ------------------------------
(***************************************************************************)
(* What the relay's in-memory components share: the Go map[K]V, as a       *)
(* function whose domain is the set of keys present, and the clamp every   *)
(* token accumulator applies to what it is given.                          *)
(***************************************************************************)
EXTENDS Integers, Functions

EmptyMap == [k \in {} |-> k]

(* m[k] = v *)
Put(m, k, v) == [x \in DOMAIN m \cup {k} |-> IF x = k THEN v ELSE m[x]]

(* delete(m, k) *)
Delete(m, k) == Restrict(m, DOMAIN m \ {k})

(* if n < 0 { n = 0 } *)
NonNegative(n) == IF n < 0 THEN 0 ELSE n

=============================================================================
