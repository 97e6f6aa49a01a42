------------------------------ MODULE InitGate ------------------------------
(***************************************************************************)
(* /init behind the captcha: initHandler (server/turn.go) and the verifier *)
(* it calls (captcha/captcha.go), with the provider's siteverify between   *)
(* them.  Each token is what solving one challenge gives; it can be sent   *)
(* any number of times, by overlapping requests too.  A request that       *)
(* brings none is answered captcha_required and changes nothing; an /init  *)
(* that no captcha guards is TurnHandler's InitSession.                    *)
(*                                                                         *)
(* The provider is not assumed to accept a token only once.                *)
(***************************************************************************)
EXTENDS GoBasics

CONSTANTS
  Tokens,         (* captcha tokens                                         *)
  NoToken,        (* no token                                               *)
  Requests,       (* requests being served at one time                      *)
  Sessions,       (* the UUIDs uuid.New may return                          *)
  ReplayTTL,      (* how long the replay set remembers a token, in ticks    *)
  TokenLife,      (* how long the provider accepts one                      *)
  MaxTime         (* bound of the model: ticks                              *)

ASSUME GateAssumption ==
  /\ NoToken \notin Tokens
  /\ ReplayTTL \in Nat
  /\ TokenLife \in Nat

VARIABLES
  now,          (* time.Now                                                 *)
  solved,       (* token -> when its challenge was solved                   *)
  replay,       (* providerVerifier.replay                                  *)
  request,      (* the requests being served                                *)
  session,      (* the sessions of this process -> the token that won it    *)
  asked         (* token -> when this process last asked about it           *)

vars == <<now, solved, replay, request, session, asked>>

Stages == {"idle", "arrived", "asking", "accepted"}

(* at is when the verifier marked the token. *)
Request == [stage : Stages, token : Tokens \cup {NoToken}, at : Nat]

Idle == [stage |-> "idle", token |-> NoToken, at |-> 0]

Ticket == [token : Tokens, at : Nat]

TokenTimes(m) == DOMAIN m \subseteq Tokens /\ m \in [DOMAIN m -> Nat]

TypeOK ==
  /\ now \in Nat
  /\ TokenTimes(solved)
  /\ TokenTimes(replay)
  /\ TokenTimes(asked)
  /\ request \in [Requests -> Request]
  /\ \A q \in Requests : request[q].stage # "idle" => request[q].token \in DOMAIN solved
  /\ DOMAIN session \subseteq Sessions
  /\ session \in [DOMAIN session -> Ticket]

Init ==
  /\ now = 0
  /\ solved = EmptyMap
  /\ replay = EmptyMap
  /\ request = [q \in Requests |-> Idle]
  /\ session = EmptyMap
  /\ asked = EmptyMap

-----------------------------------------------------------------------------
(* The surroundings *)

Tick ==
  /\ now < MaxTime
  /\ now' = now + 1
  /\ UNCHANGED <<solved, replay, request, session, asked>>

Solve(t) ==
  /\ t \notin DOMAIN solved
  /\ solved' = Put(solved, t, now)
  /\ UNCHANGED <<now, replay, request, session, asked>>

(* The store and the replay set are in memory. *)
Restart ==
  /\ replay' = EmptyMap
  /\ request' = [q \in Requests |-> Idle]
  /\ session' = EmptyMap
  /\ asked' = EmptyMap
  /\ UNCHANGED <<now, solved>>

-----------------------------------------------------------------------------
(* initHandler up to the verifier *)

Arrive(q, t) ==
  /\ request[q].stage = "idle"
  /\ t \in DOMAIN solved
  /\ request' = [request EXCEPT ![q] = [Idle EXCEPT !.stage = "arrived", !.token = t]]
  /\ UNCHANGED <<now, solved, replay, session, asked>>

-----------------------------------------------------------------------------
(* Verify: the replay set under its mutex, then siteverify without it *)

(* Mutant: an entry exactly ReplayTTL old is swept. *)
RememberedShort == {k \in DOMAIN replay : now - replay[k] < ReplayTTL}

(* Mutant: the sweep is gone. *)
RememberedForever == DOMAIN replay

(* What is left after the sweep of markUnseenOrEvict *)
Remembered == {k \in DOMAIN replay : now - replay[k] <= ReplayTTL}

(* Mutant: the token is looked up and not marked. *)
MarkForgotten(q) ==
  /\ request[q].stage = "arrived"
  /\ request[q].token \notin Remembered
  /\ replay' = Restrict(replay, Remembered)
  /\ asked' = Put(asked, request[q].token, now)
  /\ request' = [request EXCEPT ![q] = [@ EXCEPT !.stage = "asking", !.at = now]]
  /\ UNCHANGED <<now, solved, session>>

Mark(q) ==
  /\ request[q].stage = "arrived"
  /\ request[q].token \notin Remembered
  /\ replay' = Put(Restrict(replay, Remembered), request[q].token, now)
  /\ asked' = Put(asked, request[q].token, now)
  /\ request' = [request EXCEPT ![q] = [@ EXCEPT !.stage = "asking", !.at = now]]
  /\ UNCHANGED <<now, solved, session>>

(* captcha_failed with reason duplicate *)
Duplicate(q) ==
  /\ request[q].stage = "arrived"
  /\ request[q].token \in Remembered
  /\ replay' = Restrict(replay, Remembered)
  /\ request' = [request EXCEPT ![q] = Idle]
  /\ UNCHANGED <<now, solved, session, asked>>

(* The provider's verdict; its answer is still on the way. *)
Accept(q) ==
  /\ request[q].stage = "asking"
  /\ now - solved[request[q].token] <= TokenLife
  /\ request' = [request EXCEPT ![q] = [@ EXCEPT !.stage = "accepted"]]
  /\ UNCHANGED <<now, solved, replay, session, asked>>

(* success: false, for whatever reason the provider has *)
Refuse(q) ==
  /\ request[q].stage = "asking"
  /\ request' = [request EXCEPT ![q] = Idle]
  /\ UNCHANGED <<now, solved, replay, session, asked>>

(* Mutant: a client without a timeout only fails once there is an answer.  *)
AskFailsNoTimeout(q) ==
  /\ request[q].stage = "accepted"
  /\ request' = [request EXCEPT ![q] = Idle]
  /\ UNCHANGED <<now, solved, replay, session, asked>>

(* A transport error, the five-second timeout, the client's leaving, an    *)
(* answer that is not 2xx or does not decode: captcha_unavailable.         *)
AskFails(q) ==
  /\ request[q].stage \in {"asking", "accepted"}
  /\ request' = [request EXCEPT ![q] = Idle]
  /\ UNCHANGED <<now, solved, replay, session, asked>>

(* The answer arrives and Store.Issue makes a session. *)
Issue(q, s) ==
  /\ request[q].stage = "accepted"
  /\ s \notin DOMAIN session
  /\ session' = Put(session, s, [token |-> request[q].token, at |-> request[q].at])
  /\ request' = [request EXCEPT ![q] = Idle]
  /\ UNCHANGED <<now, solved, replay, asked>>

-----------------------------------------------------------------------------

Handle(q) ==
  \/ \E t \in Tokens : Arrive(q, t)
  \/ Mark(q)
  \/ Duplicate(q)
  \/ Accept(q)
  \/ Refuse(q)
  \/ AskFails(q)
  \/ \E s \in Sessions : Issue(q, s)

Next ==
  \/ Tick
  \/ \E t \in Tokens : Solve(t)
  \/ Restart
  \/ \E q \in Requests : Handle(q)

Spec == Init /\ [][Next]_vars

(* A handler runs on, and the verifier's client gives up after 5 s. *)
Fairness ==
  \A q \in Requests : WF_vars(Mark(q) \/ Duplicate(q)) /\ WF_vars(AskFails(q))

FairSpec == Spec /\ Fairness

-----------------------------------------------------------------------------

(* A token wins at most one session of a process, however many requests    *)
(* carry it at once or later, even if the provider would accept it again:  *)
(* the replay set outlives the token.                                      *)
OneSessionPerToken ==
  \A s1, s2 \in DOMAIN session :
    session[s1].token = session[s2].token => s1 = s2

(* Nobody can make the relay ask the provider about a token twice within   *)
(* the TTL, not even by failing in between.                                *)
AskedOncePerTTL ==
  [][\A t \in DOMAIN asked \cap DOMAIN asked' :
       asked'[t] # asked[t] => asked'[t] > asked[t] + ReplayTTL]_vars

(* A token is called a duplicate only if this process did ask about it     *)
(* within the TTL: the lazy sweep never costs a user a fresh token.        *)
RefusedOnlyIfAsked ==
  [][\A q \in Requests :
       request[q].stage = "arrived" /\ request'[q].stage = "idle" /\ ~Restart
         => /\ request[q].token \in DOMAIN asked
            /\ now <= asked[request[q].token] + ReplayTTL]_vars

(* Every /init is answered, whether or not the provider ever does. *)
InitAnswered ==
  \A q \in Requests : request[q].stage # "idle" ~> request[q].stage = "idle"

=============================================================================
