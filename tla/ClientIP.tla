------------------------------ MODULE ClientIP ------------------------------
(***************************************************************************)
(* server/clientip.go: whose request this is, behind trusted proxies.      *)
(*                                                                         *)
(* A hop is a string of the X-Forwarded-For header with its blanks         *)
(* trimmed, NoIP the empty one; a hop that is no IP address is in no       *)
(* trusted prefix.  A header is the sequence of its hops, <<>> where there *)
(* is none.                                                                *)
(***************************************************************************)
EXTENDS FiniteSetsExt, Integers, Sequences

CONSTANTS
  Trusted,   (* the addresses in server.trusted_proxies                     *)
  NoIP       (* "": what an unparseable RemoteAddr gives                    *)

ASSUME ClientIPAssumption == NoIP \notin Trusted

(* The hops at which the scan from the right may stop *)
Untrusted(hops) == {i \in DOMAIN hops : hops[i] # NoIP /\ hops[i] \notin Trusted}

(* Mutant: the scan goes from the left. *)
FirstUntrustedLeft(hops) == hops[Min(Untrusted(hops))]

FirstUntrusted(hops) == hops[Max(Untrusted(hops))]

(* The peer's address was parsed and is a trusted proxy's. *)
Forwarded(remote, hops) == remote \in Trusted /\ hops # <<>>

resolveClientIP(remote, hops) ==
  IF ~Forwarded(remote, hops)      THEN remote
  ELSE IF Untrusted(hops) # {}     THEN FirstUntrusted(hops)
  ELSE IF hops[1] # NoIP           THEN hops[1]
  ELSE remote

=============================================================================
