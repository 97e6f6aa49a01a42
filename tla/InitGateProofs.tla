--------------------------- MODULE InitGateProofs ---------------------------
(***************************************************************************)
(* Theorems about InitGate, for any tokens, numbers of requests, TTL and   *)
(* time.                                                                   *)
(***************************************************************************)
EXTENDS InitGate, TLAPS

-----------------------------------------------------------------------------
(* Maps *)

LEMMA RestrictIs ==
  ASSUME NEW f, NEW S
  PROVE  /\ DOMAIN Restrict(f, S) = S
         /\ \A x \in S : Restrict(f, S)[x] = f[x]
BY DEF Restrict

LEMMA PutTimes ==
  ASSUME NEW f, TokenTimes(f), NEW k \in Tokens, NEW n \in Nat
  PROVE  TokenTimes(Put(f, k, n))
BY DEF TokenTimes, Put

LEMMA RestrictTimes ==
  ASSUME NEW f, TokenTimes(f), NEW S \in SUBSET DOMAIN f
  PROVE  TokenTimes(Restrict(f, S))
BY DEF TokenTimes, Restrict

-----------------------------------------------------------------------------
(* Types *)

LEMMA IdleTyped == Idle \in Request /\ Idle.stage = "idle"
BY DEF Idle, Request, Stages

LEMMA TypeInit == Init => TypeOK
<1>1. TokenTimes(EmptyMap) /\ DOMAIN EmptyMap = {} /\ EmptyMap \in [DOMAIN EmptyMap -> Ticket]
  BY DEF TokenTimes, EmptyMap
<1>. QED
  BY <1>1, IdleTyped DEF Init, TypeOK

(* Taking a request on, with its token, keeps it typed. *)
LEMMA RequestTyped ==
  ASSUME NEW x \in Request, NEW t \in Tokens, NEW n \in Nat
  PROVE  /\ [Idle EXCEPT !.stage = "arrived", !.token = t] \in Request
         /\ [Idle EXCEPT !.stage = "arrived", !.token = t].token = t
         /\ [x EXCEPT !.stage = "asking", !.at = n] \in Request
         /\ [x EXCEPT !.stage = "asking", !.at = n].stage = "asking"
         /\ [x EXCEPT !.stage = "asking", !.at = n].token = x.token
         /\ [x EXCEPT !.stage = "asking", !.at = n].at = n
         /\ [x EXCEPT !.stage = "accepted"] \in Request
         /\ [x EXCEPT !.stage = "accepted"].stage = "accepted"
         /\ [x EXCEPT !.stage = "accepted"].token = x.token
         /\ [x EXCEPT !.stage = "accepted"].at = x.at
BY DEF Request, Stages, Idle

(* What a step makes of its own request; the others stay. *)
Becomes(q, x) ==
  /\ request'[q] = x
  /\ \A p \in Requests \ {q} : request'[p] = request[p]

LEMMA Steps ==
  ASSUME TypeOK, NEW q \in Requests
  PROVE  /\ \A t : Arrive(q, t) => Becomes(q, [Idle EXCEPT !.stage = "arrived", !.token = t])
         /\ Mark(q) => Becomes(q, [request[q] EXCEPT !.stage = "asking", !.at = now])
         /\ Accept(q) => Becomes(q, [request[q] EXCEPT !.stage = "accepted"])
         /\ Duplicate(q) \/ Refuse(q) \/ AskFails(q) => Becomes(q, Idle)
         /\ \A s : Issue(q, s) => Becomes(q, Idle)
BY DEF TypeOK, Becomes, Arrive, Mark, Accept, Duplicate, Refuse, AskFails, Issue

LEMMA TypeNext == TypeOK /\ [Next]_vars => TypeOK'
<1>. SUFFICES ASSUME TypeOK, [Next]_vars PROVE TypeOK'
  OBVIOUS
<1>. USE GateAssumption
<1>0. /\ now \in Nat /\ TokenTimes(solved) /\ DOMAIN solved \subseteq Tokens
      /\ \A q \in Requests : request[q] \in Request
      /\ Remembered \in SUBSET DOMAIN replay
      /\ TokenTimes(Restrict(replay, Remembered))
  BY RestrictTimes DEF TypeOK, TokenTimes, Remembered
<1>1. CASE Tick
  BY <1>1 DEF Tick, TypeOK
<1>2. ASSUME NEW t \in Tokens, Solve(t) PROVE TypeOK'
  <2>1. TokenTimes(solved') /\ DOMAIN solved \subseteq DOMAIN solved'
    <3>1. solved' = Put(solved, t, now)
      BY <1>2 DEF Solve
    <3>2. TokenTimes(Put(solved, t, now))
      BY <1>0, PutTimes
    <3>3. DOMAIN solved \subseteq DOMAIN Put(solved, t, now)
      BY DEF Put
    <3>. QED
      BY <3>1, <3>2, <3>3
  <2>2. \A q \in Requests : request'[q].stage # "idle" => request'[q].token \in DOMAIN solved'
    BY <1>2, <2>1 DEF Solve, TypeOK
  <2>. QED
    BY <1>2, <2>1, <2>2 DEF Solve, TypeOK
<1>3. CASE Restart
  <2>1. TokenTimes(EmptyMap) /\ DOMAIN EmptyMap = {} /\ EmptyMap \in [DOMAIN EmptyMap -> Ticket]
    BY DEF TokenTimes, EmptyMap
  <2>. QED
    BY <1>3, <2>1, IdleTyped DEF Restart, TypeOK
<1>4. ASSUME NEW q \in Requests, NEW t \in Tokens, Arrive(q, t) PROVE TypeOK'
  <2>. DEFINE x == [Idle EXCEPT !.stage = "arrived", !.token = t]
  <2>1. x \in Request /\ x.token = t
    BY <1>0, IdleTyped, RequestTyped
  <2>2. t \in DOMAIN solved /\ request' = [request EXCEPT ![q] = x]
    BY <1>4 DEF Arrive
  <2>. HIDE DEF x
  <2>. QED
    BY <1>4, <2>1, <2>2 DEF Arrive, TypeOK
<1>5. ASSUME NEW q \in Requests, Mark(q) PROVE TypeOK'
  <2>1. request[q].token \in DOMAIN solved /\ request[q].token \in Tokens
    BY <1>0, <1>5 DEF Mark, TypeOK
  <2>2. TokenTimes(replay') /\ TokenTimes(asked')
    BY <1>0, <1>5, <2>1, PutTimes DEF Mark, TypeOK
  <2>. DEFINE x == [request[q] EXCEPT !.stage = "asking", !.at = now]
  <2>3. x \in Request /\ x.token = request[q].token
    BY <1>0, <2>1, RequestTyped
  <2>4. request' = [request EXCEPT ![q] = x] /\ UNCHANGED <<now, solved, session>>
    BY <1>5 DEF Mark
  <2>. HIDE DEF x
  <2>. QED
    BY <2>1, <2>2, <2>3, <2>4 DEF TypeOK
<1>6. ASSUME NEW q \in Requests, Duplicate(q) PROVE TypeOK'
  BY <1>0, <1>6, IdleTyped DEF Duplicate, TypeOK
<1>7. ASSUME NEW q \in Requests, Accept(q) PROVE TypeOK'
  <2>1. request[q].token \in DOMAIN solved /\ request[q].token \in Tokens
    BY <1>0, <1>7 DEF Accept, TypeOK
  <2>. QED
    BY <1>0, <1>7, <2>1, RequestTyped DEF Accept, TypeOK
<1>8. ASSUME NEW q \in Requests, Refuse(q) \/ AskFails(q) PROVE TypeOK'
  BY <1>8, IdleTyped DEF Refuse, AskFails, TypeOK
<1>9. ASSUME NEW q \in Requests, NEW s \in Sessions, Issue(q, s) PROVE TypeOK'
  <2>1. [token |-> request[q].token, at |-> request[q].at] \in Ticket
    BY <1>0, <1>9 DEF Issue, TypeOK, Ticket, Request
  <2>2. DOMAIN session' \subseteq Sessions /\ session' \in [DOMAIN session' -> Ticket]
    BY <1>9, <2>1 DEF Issue, Put, TypeOK
  <2>. QED
    BY <1>9, <2>2, IdleTyped DEF Issue, TypeOK
<1>10. CASE UNCHANGED vars
  BY <1>10 DEF vars, TypeOK
<1>. QED
  BY <1>1, <1>2, <1>3, <1>4, <1>5, <1>6, <1>7, <1>8, <1>9, <1>10 DEF Next, Handle

(* Every reachable state of the gate is well typed: a request past the     *)
(* first test carries a token that was solved.                             *)
THEOREM TypeCorrect == Spec => []TypeOK
<1>. QED
  BY TypeInit, TypeNext, PTL DEF Spec

-----------------------------------------------------------------------------
(* The inductive invariant *)

(* The replay set forgets only what is too old to matter. *)
ReplayAgrees ==
  /\ DOMAIN replay \subseteq DOMAIN asked
  /\ DOMAIN asked \subseteq DOMAIN solved
  /\ \A t \in DOMAIN asked : asked[t] <= now
  /\ \A t \in DOMAIN replay : replay[t] = asked[t]
  /\ \A t \in DOMAIN asked \ DOMAIN replay : now > asked[t] + ReplayTTL
  /\ \A t \in DOMAIN solved : solved[t] <= now

(* A claim to a token: by a request that has marked it, or by a session.   *)
Live == {q \in Requests : request[q].stage \in {"asking", "accepted"}}

Known(c) ==
  /\ c.token \in DOMAIN asked
  /\ solved[c.token] <= c.at
  /\ c.at <= asked[c.token]

Timely(c) == c.at <= solved[c.token] + TokenLife

(* Two claims to one token are further apart than the TTL. *)
Apart(c, d) ==
  c.token = d.token => c.at > d.at + ReplayTTL \/ d.at > c.at + ReplayTTL

RequestClaims ==
  /\ \A q \in Live : Known(request[q])
  /\ \A q \in Live : request[q].stage = "accepted" => Timely(request[q])
  /\ \A p, q \in Live : p # q => Apart(request[p], request[q])

SessionClaims ==
  /\ \A s \in DOMAIN session : Known(session[s]) /\ Timely(session[s])
  /\ \A s1, s2 \in DOMAIN session : s1 # s2 => Apart(session[s1], session[s2])
  /\ \A q \in Live, s \in DOMAIN session : Apart(request[q], session[s])

IInv == TypeOK /\ ReplayAgrees /\ RequestClaims /\ SessionClaims

LEMMA IInvInit == Init => IInv
<1>1. Init => ReplayAgrees
  BY DEF Init, ReplayAgrees, EmptyMap
<1>2. Init => RequestClaims /\ SessionClaims
  BY IdleTyped DEF Init, RequestClaims, SessionClaims, EmptyMap, Live
<1>. QED
  BY <1>1, <1>2, TypeInit DEF IInv

LEMMA Numbers ==
  ASSUME TypeOK
  PROVE  /\ now \in Nat
         /\ \A t \in DOMAIN solved : solved[t] \in Nat
         /\ \A t \in DOMAIN asked : asked[t] \in Nat
         /\ \A t \in DOMAIN replay : replay[t] \in Nat
         /\ \A q \in Requests : request[q].at \in Nat
         /\ \A s \in DOMAIN session : session[s].at \in Nat /\ session[s].token \in Tokens
BY DEF TypeOK, TokenTimes, Request, Ticket

LEMMA AgreesNext == TypeOK /\ ReplayAgrees /\ [Next]_vars => ReplayAgrees'
<1>. SUFFICES ASSUME TypeOK, ReplayAgrees, [Next]_vars PROVE ReplayAgrees'
  OBVIOUS
<1>. USE GateAssumption
<1>0. Remembered \subseteq DOMAIN replay
  BY DEF Remembered
<1>1. CASE Tick
  BY <1>1, Numbers DEF Tick, ReplayAgrees
<1>2. ASSUME NEW t \in Tokens, Solve(t) PROVE ReplayAgrees'
  <2>1. /\ DOMAIN solved' = DOMAIN solved \cup {t} /\ solved'[t] = now
        /\ \A x \in DOMAIN solved \ {t} : solved'[x] = solved[x]
    BY <1>2 DEF Solve, Put
  <2>. QED
    BY <1>2, <2>1, Numbers DEF Solve, ReplayAgrees
<1>3. CASE Restart
  BY <1>3 DEF Restart, ReplayAgrees, EmptyMap
<1>4. ASSUME NEW q \in Requests, Mark(q) PROVE ReplayAgrees'
  <2>. DEFINE t == request[q].token
              kept == Restrict(replay, Remembered)
  <2>1. /\ DOMAIN replay' = Remembered \cup {t} /\ replay'[t] = now
        /\ \A x \in Remembered \ {t} : replay'[x] = replay[x]
    <3>1. DOMAIN kept = Remembered /\ \A x \in Remembered : kept[x] = replay[x]
      BY RestrictIs
    <3>2. replay' = Put(kept, t, now)
      BY <1>4 DEF Mark
    <3>. HIDE DEF kept, t
    <3>. QED
      BY <3>1, <3>2 DEF Put
  <2>2. /\ DOMAIN asked' = DOMAIN asked \cup {t} /\ asked'[t] = now
        /\ \A x \in DOMAIN asked \ {t} : asked'[x] = asked[x]
    BY <1>4 DEF Mark, Put
  <2>3. t \in DOMAIN solved /\ UNCHANGED <<now, solved>>
    BY <1>4 DEF Mark, TypeOK
  <2>4. \A x \in DOMAIN replay \ Remembered : now > replay[x] + ReplayTTL
    BY Numbers DEF Remembered
  <2>. HIDE DEF t
  <2>. QED
    BY <1>0, <2>1, <2>2, <2>3, <2>4, Numbers DEF ReplayAgrees
<1>5. ASSUME NEW q \in Requests, Duplicate(q) PROVE ReplayAgrees'
  <2>1. DOMAIN replay' = Remembered /\ \A x \in Remembered : replay'[x] = replay[x]
    BY <1>5, RestrictIs DEF Duplicate
  <2>2. \A x \in DOMAIN replay \ Remembered : now > replay[x] + ReplayTTL
    BY Numbers DEF Remembered
  <2>. QED
    BY <1>0, <1>5, <2>1, <2>2 DEF Duplicate, ReplayAgrees
<1>6. ASSUME NEW q \in Requests,
             \/ \E t \in Tokens : Arrive(q, t)
             \/ Accept(q) \/ Refuse(q) \/ AskFails(q)
             \/ \E s \in Sessions : Issue(q, s)
      PROVE  ReplayAgrees'
  BY <1>6 DEF Arrive, Accept, Refuse, AskFails, Issue, ReplayAgrees
<1>7. CASE UNCHANGED vars
  BY <1>7 DEF vars, ReplayAgrees
<1>. QED
  BY <1>1, <1>2, <1>3, <1>4, <1>5, <1>6, <1>7 DEF Next, Handle

(* Known and Timely outlive every step that keeps what was asked.          *)
Keeps ==
  /\ \A t \in DOMAIN asked : t \in DOMAIN asked' /\ asked'[t] >= asked[t]
  /\ \A t \in DOMAIN solved : solved'[t] = solved[t]

(* Requests that end or have not asked yet leave the claims of the rest.   *)
Fewer ==
  /\ Live' \subseteq Live
  /\ \A q \in Live' : request'[q] = request[q]
  /\ session' = session

LEMMA FewerClaims ==
  ASSUME TypeOK, TypeOK', ReplayAgrees, RequestClaims, SessionClaims, Keeps, Fewer
  PROVE  RequestClaims' /\ SessionClaims'
<1>1. \A q \in Live' : Known(request[q])' /\ (Timely(request[q]) => Timely(request[q])')
  <2>1. SUFFICES ASSUME NEW q \in Live' PROVE Known(request[q])' /\ (Timely(request[q]) => Timely(request[q])')
    OBVIOUS
  <2>2. request'[q] = request[q] /\ Known(request[q]) /\ request[q].at \in Nat
    BY Numbers DEF Fewer, RequestClaims, Live
  <2>3. Keeps /\ \A t \in DOMAIN asked : t \in DOMAIN solved
    BY DEF ReplayAgrees
  <2>. QED
    BY <2>2, <2>3, Numbers DEF Known, Timely, Keeps, TypeOK, TokenTimes
<1>2. \A s \in DOMAIN session : Known(session[s])' /\ Timely(session[s])'
  <2>1. SUFFICES ASSUME NEW s \in DOMAIN session PROVE Known(session[s])' /\ Timely(session[s])'
    OBVIOUS
  <2>2. session'[s] = session[s] /\ Known(session[s]) /\ Timely(session[s]) /\ session[s].at \in Nat
    BY Numbers DEF Fewer, SessionClaims
  <2>3. Keeps /\ \A t \in DOMAIN asked : t \in DOMAIN solved
    BY DEF ReplayAgrees
  <2>. QED
    BY <2>2, <2>3, Numbers DEF Known, Timely, Keeps, TypeOK, TokenTimes
<1>3. RequestClaims'
  BY <1>1 DEF RequestClaims, Fewer, Apart
<1>4. SessionClaims'
  BY <1>2 DEF SessionClaims, Fewer, Apart
<1>. QED
  BY <1>3, <1>4

LEMMA MarkClaims ==
  ASSUME TypeOK, TypeOK', ReplayAgrees, RequestClaims, SessionClaims, NEW q \in Requests, Mark(q)
  PROVE  RequestClaims' /\ SessionClaims'
<1>. USE GateAssumption
<1>. DEFINE t == request[q].token
            x == [request[q] EXCEPT !.stage = "asking", !.at = now]
<1>1. /\ x.token = t /\ x.at = now /\ x.stage = "asking"
      /\ request'[q] = x
      /\ \A p \in Requests \ {q} : request'[p] = request[p]
  <2>1. request[q] \in Request /\ now \in Nat /\ q \in Requests
    BY DEF TypeOK
  <2>2. Becomes(q, x)
    BY Steps
  <2>. QED
    BY <2>1, <2>2, RequestTyped DEF Becomes, Request
<1>. HIDE DEF x
<1>2. /\ UNCHANGED <<now, solved, session>>
      /\ DOMAIN asked' = DOMAIN asked \cup {t} /\ asked'[t] = now
      /\ \A y \in DOMAIN asked \ {t} : asked'[y] = asked[y]
  BY DEF Mark, Put
<1>3. t \in DOMAIN asked => asked[t] + ReplayTTL < now
  BY Numbers DEF Mark, Remembered, ReplayAgrees
<1>4. t \in DOMAIN solved /\ solved[t] <= now /\ now \in Nat
  BY Numbers DEF Mark, TypeOK, ReplayAgrees
<1>5. /\ q \notin Live /\ Live' = Live \cup {q}
  BY <1>1 DEF Live, Mark
<1>. HIDE DEF t
(* The claims there were are as they were, and old. *)
<1>6. ASSUME NEW c, Known(c), c.at \in Nat
      PROVE  Known(c)' /\ (Timely(c) => Timely(c)') /\ Apart(x, c) /\ Apart(c, x)
  <2>1. /\ c.token \in DOMAIN asked /\ solved[c.token] <= c.at /\ c.at <= asked[c.token]
        /\ asked[c.token] \in Nat /\ asked[c.token] <= now
    BY <1>6, Numbers DEF Known, ReplayAgrees
  <2>2. /\ solved' = solved
        /\ c.token \in DOMAIN asked' /\ asked'[c.token] \in Nat /\ asked'[c.token] >= asked[c.token]
    <3>1. CASE c.token = t
      BY <1>2, <1>4, <2>1, <3>1
    <3>2. CASE c.token # t
      BY <1>2, <2>1, <3>2
    <3>. QED
      BY <1>2, <3>1, <3>2
  <2>3. Known(c)'
    BY <1>6, <2>1, <2>2 DEF Known
  <2>4. Timely(c) => Timely(c)'
    BY <2>2 DEF Timely
  <2>5. x.token = c.token => x.at > c.at + ReplayTTL
    <3>1. x.token = c.token => asked[c.token] + ReplayTTL < now /\ x.at = now
      BY <1>1, <1>3, <2>1
    <3>2. c.at \in Nat /\ asked[c.token] \in Nat /\ now \in Nat /\ c.at <= asked[c.token]
      BY <1>4, <1>6, <2>1
    <3>. QED
      BY <3>1, <3>2
  <2>. QED
    BY <2>3, <2>4, <2>5 DEF Apart
<1>7. x.token \in DOMAIN asked' /\ solved'[x.token] <= x.at /\ x.at <= asked'[x.token]
  BY <1>1, <1>2, <1>4
<1>8. \A p \in Live : /\ request'[p] = request[p] /\ Known(request[p])' /\ Apart(x, request[p])
                      /\ Apart(request[p], x) /\ (request[p].stage = "accepted" => Timely(request[p])')
  <2>1. SUFFICES ASSUME NEW p \in Live
                 PROVE  /\ request'[p] = request[p] /\ Known(request[p])' /\ Apart(x, request[p])
                        /\ Apart(request[p], x) /\ (request[p].stage = "accepted" => Timely(request[p])')
    OBVIOUS
  <2>2. request'[p] = request[p] /\ request[p].at \in Nat /\ Known(request[p])
    BY <1>1, <1>5, Numbers DEF RequestClaims, Live
  <2>3. request[p].stage = "accepted" => Timely(request[p])
    BY DEF RequestClaims
  <2>4. /\ \A c : Known(c) /\ c.at \in Nat => Known(c)' /\ (Timely(c) => Timely(c)')
        /\ \A c : Known(c) /\ c.at \in Nat => Apart(x, c) /\ Apart(c, x)
    BY <1>6
  <2>. QED
    BY <2>2, <2>3, <2>4 DEF Known, Timely
<1>9. \A s \in DOMAIN session : Known(session[s])' /\ Timely(session[s])' /\ Apart(x, session[s])
  <2>1. SUFFICES ASSUME NEW s \in DOMAIN session
                 PROVE  Known(session[s])' /\ Timely(session[s])' /\ Apart(x, session[s])
    OBVIOUS
  <2>2. session'[s] = session[s] /\ session[s].at \in Nat /\ Known(session[s]) /\ Timely(session[s])
    BY <1>2, Numbers DEF SessionClaims
  <2>3. /\ \A c : Known(c) /\ c.at \in Nat => Known(c)' /\ (Timely(c) => Timely(c)')
        /\ \A c : Known(c) /\ c.at \in Nat => Apart(x, c)
    BY <1>6
  <2>. QED
    BY <2>2, <2>3 DEF Known, Timely
<1>10. RequestClaims'
  <2>1. \A p \in Live' : Known(request[p])'
    BY <1>1, <1>5, <1>7, <1>8 DEF Known
  <2>2. \A p \in Live' : request'[p].stage = "accepted" => Timely(request[p])'
    BY <1>1, <1>5, <1>8 DEF Timely
  <2>3. ASSUME NEW p \in Live', NEW r \in Live', p # r PROVE Apart(request[p], request[r])'
    <3>1. CASE p # q /\ r # q
      BY <1>5, <1>8, <2>3, <3>1 DEF RequestClaims, Apart
    <3>2. CASE p = q
      BY <1>1, <1>5, <1>8, <2>3, <3>2 DEF Apart
    <3>3. CASE r = q
      BY <1>1, <1>5, <1>8, <2>3, <3>3 DEF Apart
    <3>. QED
      BY <3>1, <3>2, <3>3
  <2>. QED
    BY <2>1, <2>2, <2>3 DEF RequestClaims
<1>11. SessionClaims'
  BY <1>1, <1>2, <1>5, <1>8, <1>9 DEF SessionClaims, Apart
<1>. QED
  BY <1>10, <1>11

LEMMA AcceptClaims ==
  ASSUME TypeOK, ReplayAgrees, RequestClaims, SessionClaims, NEW q \in Requests, Accept(q)
  PROVE  RequestClaims' /\ SessionClaims'
<1>. DEFINE x == [request[q] EXCEPT !.stage = "accepted"]
<1>1. /\ x.token = request[q].token /\ x.at = request[q].at /\ x.stage = "accepted"
      /\ request'[q] = x
      /\ \A p \in Requests \ {q} : request'[p] = request[p]
  <2>1. request[q] \in Request
    BY DEF TypeOK
  <2>2. Becomes(q, x)
    BY Steps
  <2>. QED
    BY <2>1, <2>2, RequestTyped DEF Becomes, Request
<1>. HIDE DEF x
<1>2. UNCHANGED <<now, solved, session, asked>>
  BY DEF Accept
<1>3. q \in Live /\ Live' = Live
  BY <1>1 DEF Live, Accept
<1>4. \A p \in Live : request'[p].token = request[p].token /\ request'[p].at = request[p].at
  BY <1>1 DEF Live
<1>5. \A p \in Live' : Known(request[p])'
  BY <1>2, <1>3, <1>4 DEF Known, RequestClaims
<1>6. ASSUME NEW p \in Live', request'[p].stage = "accepted" PROVE Timely(request[p])'
  <2>1. CASE p = q
    <3>1. now <= solved[x.token] + TokenLife
      BY <1>1, GateAssumption, Numbers DEF Accept, TypeOK
    <3>2. x.token \in DOMAIN asked /\ x.at <= asked[x.token] /\ asked[x.token] <= now
      BY <1>1, <1>3 DEF Known, RequestClaims, ReplayAgrees
    <3>3. x.at <= solved[x.token] + TokenLife
      <4>1. x.token \in DOMAIN solved
        BY <3>2 DEF ReplayAgrees
      <4>2. x.at \in Nat /\ asked[x.token] \in Nat /\ now \in Nat /\ solved[x.token] \in Nat
        BY <1>1, <3>2, <4>1, Numbers
      <4>. QED
        BY <3>1, <3>2, <4>2, GateAssumption
    <3>. QED
      BY <1>1, <1>2, <2>1, <3>3 DEF Timely
  <2>2. CASE p # q
    BY <1>1, <1>2, <1>3, <1>6, <2>2 DEF Timely, RequestClaims, Live
  <2>. QED
    BY <2>1, <2>2
<1>7. RequestClaims'
  BY <1>3, <1>4, <1>5, <1>6 DEF RequestClaims, Apart
<1>8. SessionClaims'
  BY <1>2, <1>3, <1>4 DEF SessionClaims, Apart, Known, Timely
<1>. QED
  BY <1>7, <1>8

LEMMA IssueClaims ==
  ASSUME TypeOK, ReplayAgrees, RequestClaims, SessionClaims,
         NEW q \in Requests, NEW s \in Sessions, Issue(q, s)
  PROVE  RequestClaims' /\ SessionClaims'
<1>. DEFINE c == [token |-> request[q].token, at |-> request[q].at]
<1>1. request'[q] = Idle /\ \A p \in Requests \ {q} : request'[p] = request[p]
  BY Steps DEF Becomes
<1>2. /\ UNCHANGED <<now, solved, asked>>
      /\ s \notin DOMAIN session
      /\ DOMAIN session' = DOMAIN session \cup {s} /\ session'[s] = c
      /\ \A z \in DOMAIN session : session'[z] = session[z]
  BY DEF Issue, Put
<1>3. q \in Live /\ Live' = Live \ {q}
  BY <1>1, IdleTyped DEF Live, Issue
<1>4. Known(c) /\ Timely(c)
  BY <1>3 DEF RequestClaims, Known, Timely, Issue
<1>5. \A p \in Live' : request'[p] = request[p] /\ Apart(request[p], c)
  BY <1>1, <1>3 DEF RequestClaims, Apart, Live
<1>6. \A z \in DOMAIN session : Apart(c, session[z]) /\ Apart(session[z], c)
  BY <1>3 DEF SessionClaims, Apart
<1>. HIDE DEF c
<1>7. RequestClaims'
  BY <1>2, <1>3, <1>5 DEF RequestClaims, Apart, Known, Timely
<1>8. \A z \in DOMAIN session' : Known(session[z])' /\ Timely(session[z])'
  BY <1>2, <1>4 DEF SessionClaims, Known, Timely
<1>9. \A z1, z2 \in DOMAIN session' : z1 # z2 => Apart(session[z1], session[z2])'
  BY <1>2, <1>6 DEF SessionClaims, Apart
<1>10. \A p \in Live', z \in DOMAIN session' : Apart(request[p], session[z])'
  BY <1>2, <1>3, <1>5 DEF SessionClaims, Apart
<1>. QED
  BY <1>7, <1>8, <1>9, <1>10 DEF SessionClaims

LEMMA ClaimsNext ==
  ASSUME TypeOK, TypeOK', ReplayAgrees, RequestClaims, SessionClaims, [Next]_vars
  PROVE  RequestClaims' /\ SessionClaims'
<1>1. CASE Tick \/ UNCHANGED vars
  <2>1. Keeps /\ Fewer
    BY <1>1, Numbers DEF Tick, vars, Keeps, Fewer, Live
  <2>. QED
    BY <2>1, FewerClaims
<1>2. ASSUME NEW t \in Tokens, Solve(t) PROVE RequestClaims' /\ SessionClaims'
  <2>1. Keeps /\ Fewer
    BY <1>2, Numbers DEF Solve, Put, Keeps, Fewer, Live
  <2>. QED
    BY <2>1, FewerClaims
<1>3. CASE Restart
  <2>1. Live' = {} /\ DOMAIN session' = {}
    BY <1>3, IdleTyped DEF Restart, Live, EmptyMap
  <2>. QED
    BY <2>1 DEF RequestClaims, SessionClaims
<1>4. ASSUME NEW q \in Requests, \E t \in Tokens : Arrive(q, t)
      PROVE  RequestClaims' /\ SessionClaims'
  <2>1. PICK t \in Tokens : Arrive(q, t)
    BY <1>4
  <2>2. request'[q].stage = "arrived" /\ \A p \in Requests \ {q} : request'[p] = request[p]
    <3>1. Becomes(q, [Idle EXCEPT !.stage = "arrived", !.token = t])
      BY <2>1, Steps
    <3>. QED
      BY <3>1 DEF Becomes, Idle
  <2>3. Keeps /\ Fewer
    BY <2>1, <2>2, Numbers DEF Arrive, Keeps, Fewer, Live
  <2>. QED
    BY <2>3, FewerClaims
<1>5. ASSUME NEW q \in Requests, Duplicate(q) \/ Refuse(q) \/ AskFails(q)
      PROVE  RequestClaims' /\ SessionClaims'
  <2>1. request'[q].stage = "idle" /\ \A p \in Requests \ {q} : request'[p] = request[p]
    BY <1>5, Steps, IdleTyped DEF Becomes
  <2>2. Keeps /\ Fewer
    BY <1>5, <2>1, Numbers DEF Duplicate, Refuse, AskFails, Keeps, Fewer, Live
  <2>. QED
    BY <2>2, FewerClaims
<1>. QED
  BY <1>1, <1>2, <1>3, <1>4, <1>5, MarkClaims, AcceptClaims, IssueClaims DEF Next, Handle

LEMMA IInvNext == IInv /\ [Next]_vars => IInv'
BY TypeNext, AgreesNext, ClaimsNext DEF IInv

(* The inductive invariant holds: claims to one token are further apart    *)
(* than the TTL, and those that win were made in the token's life.         *)
THEOREM Invariance == Spec => []IInv
<1>. QED
  BY IInvInit, IInvNext, PTL DEF Spec

-----------------------------------------------------------------------------
(* What follows from it *)

(* A token wins at most one session of a process, if the replay set        *)
(* outlives it: whatever the provider accepts, and whatever overlaps.      *)
THEOREM TokensWinOnce ==
  ASSUME TokenLife <= ReplayTTL
  PROVE  Spec => []OneSessionPerToken
<1>1. ASSUME IInv, NEW s1 \in DOMAIN session, NEW s2 \in DOMAIN session,
             session[s1].token = session[s2].token
      PROVE  s1 = s2
  <2>. DEFINE t == session[s1].token
  <2>1. \A s \in {s1, s2} : session[s].at >= solved[t] /\ session[s].at <= solved[t] + TokenLife
    BY <1>1 DEF IInv, SessionClaims, Known, Timely
  <2>2. \A s \in {s1, s2} : session[s].at \in Nat
    BY <1>1, Numbers DEF IInv
  <2>3. solved[t] \in Nat
    BY <1>1, Numbers DEF IInv, SessionClaims, Known, ReplayAgrees
  <2>4. ~Apart(session[s1], session[s2])
    BY <1>1, <2>1, <2>2, <2>3, GateAssumption DEF Apart
  <2>. QED
    BY <1>1, <2>4 DEF IInv, SessionClaims
<1>2. IInv => OneSessionPerToken
  BY <1>1 DEF OneSessionPerToken
<1>. QED
  BY <1>2, Invariance, PTL

(* No token is asked about twice within the TTL.                           *)
THEOREM TokensAskedOnce == Spec => AskedOncePerTTL
<1>1. ASSUME IInv, [Next]_vars, NEW t \in DOMAIN asked \cap DOMAIN asked', asked'[t] # asked[t]
      PROVE  asked'[t] > asked[t] + ReplayTTL
  <2>1. PICK q \in Requests : Mark(q)
    BY <1>1 DEF Next, Handle, vars, Tick, Solve, Restart, EmptyMap, Arrive, Duplicate, Accept, Refuse,
       AskFails, Issue
  <2>2. t = request[q].token /\ asked'[t] = now /\ t \notin Remembered
    BY <1>1, <2>1 DEF Mark, Put
  <2>3. CASE t \in DOMAIN replay
    <3>1. replay[t] = asked[t] /\ now \in Nat /\ asked[t] \in Nat
      BY <1>1, <2>3, Numbers DEF IInv, ReplayAgrees
    <3>. QED
      BY <2>2, <2>3, <3>1, GateAssumption DEF Remembered
  <2>4. CASE t \notin DOMAIN replay
    BY <1>1, <2>2, <2>4 DEF IInv, ReplayAgrees
  <2>. QED
    BY <2>3, <2>4
<1>2. IInv /\ [Next]_vars => [\A t \in DOMAIN asked \cap DOMAIN asked' :
                                asked'[t] # asked[t] => asked'[t] > asked[t] + ReplayTTL]_vars
  BY <1>1
<1>. QED
  BY <1>2, Invariance, PTL DEF Spec, AskedOncePerTTL

(* A duplicate is one: what is refused was asked about within the TTL.     *)
THEOREM DuplicatesWereAsked == Spec => RefusedOnlyIfAsked
<1>. DEFINE P == \A q \in Requests :
                   request[q].stage = "arrived" /\ request'[q].stage = "idle" /\ ~Restart
                     => /\ request[q].token \in DOMAIN asked
                        /\ now <= asked[request[q].token] + ReplayTTL
<1>1. ASSUME IInv, [Next]_vars, NEW q \in Requests,
             request[q].stage = "arrived", request'[q].stage = "idle", ~Restart
      PROVE  /\ request[q].token \in DOMAIN asked
             /\ now <= asked[request[q].token] + ReplayTTL
  <2>1. request' # request
    BY <1>1
  <2>2. PICK p \in Requests : Handle(p)
    BY <1>1, <2>1 DEF Next, vars, Tick, Solve
  <2>3. TypeOK
    BY <1>1 DEF IInv
  <2>4. p = q
    BY <1>1, <2>2, <2>3, Steps DEF Handle, Becomes
  <2>5. ~ \E t \in Tokens : Arrive(q, t)
    BY <1>1 DEF Arrive
  <2>6. Duplicate(q) \/ Mark(q)
    BY <1>1, <2>2, <2>4, <2>5 DEF Handle, Accept, Refuse, AskFails, Issue
  <2>7. ~Mark(q)
    <3>1. Mark(q) => request'[q] = [request[q] EXCEPT !.stage = "asking", !.at = now]
      BY <2>3, Steps DEF Becomes
    <3>2. request[q] \in Request /\ now \in Nat
      BY <2>3 DEF TypeOK
    <3>. QED
      BY <1>1, <3>1, <3>2 DEF Request
  <2>8. request[q].token \in Remembered
    BY <2>6, <2>7 DEF Duplicate
  <2>9. /\ request[q].token \in DOMAIN replay /\ replay[request[q].token] = asked[request[q].token]
        /\ request[q].token \in DOMAIN asked
    BY <1>1, <2>8 DEF Remembered, IInv, ReplayAgrees
  <2>10. now \in Nat /\ asked[request[q].token] \in Nat
    BY <2>3, <2>9, Numbers
  <2>. QED
    BY <2>8, <2>9, <2>10, GateAssumption DEF Remembered
<1>2. IInv /\ [Next]_vars => [P]_vars
  BY <1>1
<1>3. Spec => [][P]_vars
  <2>. HIDE DEF P
  <2>. QED
    BY <1>2, Invariance, PTL DEF Spec
<1>. QED
  BY <1>3 DEF RefusedOnlyIfAsked

=============================================================================
