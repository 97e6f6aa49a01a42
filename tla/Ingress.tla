------------------------------ MODULE Ingress -------------------------------
(***************************************************************************)
(* The two middlewares in front of every /v1/intake handler (server.New):  *)
(* clientIPMiddleware names the client and perIPLimitMiddleware asks the   *)
(* limiter about that name.                                                *)
(*                                                                         *)
(* A request may come with any X-Forwarded-For header and reaches the      *)
(* relay directly or through trusted proxies, each of which adds the       *)
(* address of its peer to the end of the header.                           *)
(***************************************************************************)
EXTENDS PerIP, ClientIP

CONSTANTS
  Clients,     (* addresses requests come from; NoIP if RemoteAddr has none *)
  Hops,        (* what a client may write into the header                   *)
  MaxForged,   (* bounds of the model: hops the client writes               *)
  MaxProxies   (* and proxies between the client and the relay              *)

VARIABLE passed   (* requests let through, per client                       *)

ingressVars == <<vars, passed>>

UpTo(n, S) == UNION {[1..k -> S] : k \in 0..n}

(* RemoteAddr and the header of client c's request *)
Remote(c, route) == IF route = <<>> THEN c ELSE route[Len(route)]

Header(c, forged, route) ==
  IF route = <<>> THEN forged
  ELSE forged \o <<c>> \o SubSeq(route, 1, Len(route) - 1)

(* What ClientIPFromContext may give for client c *)
NamesOf(c) ==
  {resolveClientIP(Remote(c, route), Header(c, forged, route)) :
     forged \in UpTo(MaxForged, Hops), route \in UpTo(MaxProxies, Trusted)}

Names == [c \in Clients |-> NamesOf(c)]

ASSUME IngressAssumption ==
  /\ MaxForged \in Nat /\ MaxProxies \in Nat
  /\ \A c \in Clients : Names[c] \subseteq IPs

IngressInit == Init /\ passed = [c \in Clients |-> 0]

Wait == Tick /\ UNCHANGED passed

Pass(c, ip) == AllowOK(ip) /\ passed' = [passed EXCEPT ![c] = @ + 1]

Stop(ip) == AllowReject(ip) /\ UNCHANGED passed

IngressNext ==
  \/ Wait
  \/ \E c \in Clients : \E ip \in Names[c] : Pass(c, ip) \/ Stop(ip)

IngressSpec == IngressInit /\ [][IngressNext]_ingressVars

-----------------------------------------------------------------------------

(* Whatever it writes into the header and whichever proxies its requests   *)
(* take, a client whose own address is not a trusted proxy's gets no more  *)
(* than one bucket's burst and rate (under ForgetsFullOnly).               *)
ClientBound ==
  \A c \in Clients \ (Trusted \cup {NoIP}) : passed[c] * Price <= Full + Gain * clock

=============================================================================
