--------------------------- MODULE LicenseProofs ---------------------------
(***************************************************************************)
(* Theorems about Router and License, for any adapters, rules, licenses,   *)
(* trial length and number of relays.                                      *)
(***************************************************************************)
EXTENDS License, WellFoundedInduction, TLAPS

-----------------------------------------------------------------------------
(* The router *)

LEMMA NatLessWellFounded == IsWellFoundedOn({x \in Nat \X Nat : x[1] < x[2]}, Nat)
BY NatLessThanWellFounded, Zenon DEF OpToRel

(* router.New's promise to Route: with a registered default, every payload *)
(* goes to a registered adapter, whatever its hint and the rules.          *)
THEOREM RouteRegistered ==
  ASSUME NEW registry \in SUBSET Adapters, NEW rules \in Seq(RuleType), NEW d,
         NewOK(registry, d), NEW x \in Payloads
  PROVE  Route(registry, rules, d, x) \in registry
<1>. DEFINE hits == Hits(registry, rules, x)
            first == CHOOSE i \in hits : \A j \in hits : i <= j
<1>1. hits \subseteq Nat /\ \A i \in hits : rules[i].to \in registry
  BY DEF Hits, Kept
<1>2. CASE x.hint \in registry
  BY <1>2 DEF Route
<1>3. CASE x.hint \notin registry /\ hits = {}
  BY <1>3 DEF Route, NewOK
<1>4. CASE x.hint \notin registry /\ hits # {}
  <2>1. \E i \in hits : \A j \in hits : i <= j
    <3>. DEFINE less == {z \in Nat \X Nat : z[1] < z[2]}
    <3>1. \A i, j \in Nat : <<i, j>> \in less <=> i < j
      OBVIOUS
    <3>2. \E i \in hits : \A j \in hits : ~(<<j, i>> \in less)
      <4>. HIDE DEF less, hits
      <4>1. IsWellFoundedOn(less, Nat)
        BY NatLessWellFounded DEF less
      <4>. QED
        BY <4>1, <1>1, <1>4, WFMin
    <3>3. PICK i \in hits : \A j \in hits : ~(<<j, i>> \in less)
      BY <3>2
    <3>4. ASSUME NEW j \in hits PROVE i <= j
      <4>1. i \in Nat /\ j \in Nat
        BY <1>1
      <4>2. ~(j < i)
        BY <3>1, <3>3, <4>1
      <4>. QED
        BY <4>1, <4>2
    <3>. QED
      BY <3>4
  <2>2. first \in hits
    BY <2>1
  <2>. QED
    BY <1>1, <1>4, <2>2 DEF Route
<1>. QED
  BY <1>2, <1>3, <1>4

-----------------------------------------------------------------------------
(* Types *)

(* What a step may do to a process leaves it well typed. *)
LEMMA GotoTyped ==
  ASSUME NEW p \in Processes, NEW c \in PCs
  PROVE  [p EXCEPT !.pc = c] \in Processes
BY DEF Processes

LEMMA ExitTyped ==
  ASSUME NEW p \in Processes, NEW w \in {"", "license", "config", "default"}
  PROVE  [p EXCEPT !.pc = "exited", !.why = w] \in Processes
BY DEF Processes, PCs

LEMMA ResolveTyped ==
  ASSUME NEW p \in Processes, NEW m \in Modes, NEW e \in Nat
  PROVE  [p EXCEPT !.pc = "registry", !.mode = m, !.expires = e] \in Processes
BY DEF Processes, PCs

LEMMA ServeTyped ==
  ASSUME NEW p \in Processes, NEW g \in SUBSET Adapters
  PROVE  [p EXCEPT !.pc = "up", !.registry = g] \in Processes
BY DEF Processes, PCs

LEMMA DownTyped == Down \in Processes
BY DEF Down, Processes, PCs, Modes, Found

LEMMA TypeInit == Init => TypeOK
<1>. SUFFICES ASSUME Init PROVE TypeOK
  OBVIOUS
<1>1. temp \in [Relays -> Files] /\ relay \in [Relays -> Processes]
  BY DownTyped DEF Init, Files
<1>2. now \in Nat /\ default \in Adapters /\ stateFile \in Files /\ firstStored \in Nat \cup {Missing}
  BY DEF Init, Files
<1>3. tampered \in BOOLEAN
  BY DEF Init
<1>. QED
  BY <1>1, <1>2, <1>3 DEF TypeOK

LEMMA TypeNext == TypeOK /\ [Next]_vars => TypeOK'
<1>. SUFFICES ASSUME TypeOK, [Next]_vars PROVE TypeOK'
  OBVIOUS
<1>. USE LicenseAssumption DEF TypeOK, Files
<1>1. CASE Tick
  BY <1>1 DEF Tick
<1>2. CASE Tamper
  BY <1>2 DEF Tamper
<1>3. ASSUME NEW r \in Relays, Stop(r) PROVE TypeOK'
  BY <1>3, DownTyped DEF Stop
<1>4. ASSUME NEW r \in Relays, NEW l \in Found, Begin(r, l) PROVE TypeOK'
  <2>1. l \in Licenses => l.expires \in Nat
    BY DEF LicenseType
  <2>2. relay'[r] \in Processes
    BY <1>4, <2>1 DEF Begin, Down, Processes, PCs, Modes, LicenseMode
  <2>. QED
    BY <1>4, <2>2 DEF Begin
<1>5. ASSUME NEW r \in Relays, ReadTrial(r) PROVE TypeOK'
  <2>1. relay[r].began \in Nat
    BY DEF Processes
  <2>2. TrialMode(stateFile, relay[r].began) \in Modes /\ Expiry(stateFile) \in Nat
    BY <1>5, <2>1 DEF ReadTrial, TrialMode, Modes, Expiry
  <2>. QED
    BY <1>5, <2>2, ResolveTyped DEF ReadTrial, Resolve
<1>6. ASSUME NEW r \in Relays, ReadNoTrial(r) PROVE TypeOK'
  BY <1>6, GotoTyped DEF ReadNoTrial, Goto, PCs
<1>7. ASSUME NEW r \in Relays, ReadFails(r) PROVE TypeOK'
  BY <1>7, ExitTyped DEF ReadFails, Exit
<1>8. ASSUME NEW r \in Relays, CreateTemp(r) PROVE TypeOK'
  BY <1>8, GotoTyped DEF CreateTemp, Goto, PCs, TempName
<1>9. ASSUME NEW r \in Relays, WriteTemp(r) PROVE TypeOK'
  <2>1. relay[r].began \in Nat
    BY DEF Processes
  <2>. QED
    BY <1>9, <2>1, GotoTyped DEF WriteTemp, TempName, Goto, PCs
<1>10. ASSUME NEW r \in Relays, RenameTemp(r) PROVE TypeOK'
  <2>0. relay[r].began \in Nat
    BY DEF Processes
  <2>1. Expiry(relay[r].began) \in Nat
    BY <2>0 DEF Expiry
  <2>2. relay' \in [Relays -> Processes]
    BY <1>10, <2>1, ResolveTyped DEF RenameTemp, Resolve, Modes
  <2>. QED
    BY <1>10, <2>2 DEF RenameTemp, TempName
<1>11. ASSUME NEW r \in Relays, StoreFails(r) PROVE TypeOK'
  <2>0. relay[r].began \in Nat
    BY DEF Processes
  <2>1. Expiry(relay[r].began) \in Nat
    BY <2>0 DEF Expiry
  <2>2. relay' \in [Relays -> Processes]
    BY <1>11, <2>1, ResolveTyped DEF StoreFails, Resolve, Modes
  <2>. QED
    BY <1>11, <2>2 DEF StoreFails, TempName
<1>12. ASSUME NEW r \in Relays, ConfigureFails(r) PROVE TypeOK'
  BY <1>12, ExitTyped DEF ConfigureFails, Exit
<1>13. ASSUME NEW r \in Relays, RouterFails(r) PROVE TypeOK'
  BY <1>13, ExitTyped DEF RouterFails, Exit
<1>14. ASSUME NEW r \in Relays, Serve(r) PROVE TypeOK'
  <2>1. Registry(relay[r]) \in SUBSET Adapters
    BY DEF Registry
  <2>. QED
    BY <1>14, <2>1, ServeTyped DEF Serve
<1>15. CASE UNCHANGED vars
  BY <1>15 DEF vars
<1>. QED
  BY <1>1, <1>2, <1>3, <1>4, <1>5, <1>6, <1>7, <1>8, <1>9, <1>10, <1>11, <1>12, <1>13, <1>14, <1>15
  DEF Next, Start

(* Every reachable state of the starting relays is well typed. *)
THEOREM TypeCorrect == Spec => []TypeOK
<1>. QED
  BY TypeInit, TypeNext, PTL DEF Spec

-----------------------------------------------------------------------------
(* The inductive invariant *)

Storing == {"create", "write", "rename"}

(* What each process remembers of how it was resolved, and what it serves. *)
Sound(p) ==
  /\ p.began <= now
  /\ p.pc \in Storing \cup {"trial"} => p.license = NoLicense /\ p.mode = "none"
  /\ p.mode = "trial" => p.license = NoLicense /\ p.began < p.expires
  /\ p.mode = "licensed" => p.license \in Licenses /\ p.began < p.license.expires
  /\ p.pc = "up" => p.registry = Registry(p) /\ default \in p.registry

AllSound == \A r \in Relays : Sound(relay[r])

(* A relay about to rename has its own start in its own file. *)
TempOwn == \A r \in Relays : relay[r].pc = "rename" => temp[r] = relay[r].began

(* Until the operator interferes: only relays that began before the first  *)
(* store can store again, so every start ever stored is at most its time.  *)
Stored ==
  /\ stateFile # Torn
  /\ stateFile = Missing <=> firstStored = Missing
  /\ firstStored # Missing => stateFile <= firstStored /\ firstStored <= now

TrialBounded(p) ==
  firstStored # Missing =>
    /\ p.pc \in Storing => p.began <= firstStored
    /\ p.mode = "trial" => p.began < firstStored + TrialDuration

TrialOnce == ~tampered => Stored /\ \A r \in Relays : TrialBounded(relay[r])

IInv == TypeOK /\ AllSound /\ TempOwn /\ TrialOnce

LEMMA ProcessTyped ==
  ASSUME TypeOK, NEW r \in Relays
  PROVE  /\ relay[r] \in Processes
         /\ relay[r].began \in Nat /\ relay[r].expires \in Nat
         /\ relay[r].license \in Found /\ relay[r].mode \in Modes
BY DEF TypeOK, Processes

(* A step of one relay's start is not seen by the others. *)
LEMMA OthersStay ==
  ASSUME TypeOK, NEW r \in Relays, Start(r)
  PROVE  /\ now' = now /\ default' = default /\ tampered' = tampered
         /\ \A q \in Relays : q # r => relay'[q] = relay[q]
BY DEF TypeOK, Start, Begin, ReadTrial, ReadNoTrial, ReadFails, CreateTemp, WriteTemp, RenameTemp,
       StoreFails, ConfigureFails, RouterFails, Serve, Goto, Exit, Resolve

(* How each step changes the process, field by field. *)
SameOrigin(p, q) == q.began = p.began /\ q.license = p.license

LEMMA GotoFields ==
  ASSUME NEW p \in Processes, NEW c
  PROVE  LET q == [p EXCEPT !.pc = c]
         IN  SameOrigin(p, q) /\ q.pc = c /\ q.mode = p.mode /\ q.expires = p.expires /\ q.registry = p.registry
BY DEF Processes, SameOrigin

LEMMA ExitFields ==
  ASSUME NEW p \in Processes, NEW w
  PROVE  LET q == [p EXCEPT !.pc = "exited", !.why = w]
         IN  SameOrigin(p, q) /\ q.pc = "exited" /\ q.mode = p.mode /\ q.expires = p.expires
BY DEF Processes, SameOrigin

LEMMA ServeFields ==
  ASSUME NEW p \in Processes, NEW g
  PROVE  LET q == [p EXCEPT !.pc = "up", !.registry = g]
         IN  SameOrigin(p, q) /\ q.pc = "up" /\ q.mode = p.mode /\ q.expires = p.expires /\ q.registry = g
BY DEF Processes, SameOrigin

BeginsAs(q, l) ==
  /\ q.began = now /\ q.license = l /\ q.registry = {}
  /\ q.pc = IF l = NoLicense THEN "trial" ELSE IF l = BadLicense THEN "exited" ELSE "registry"
  /\ q.mode = IF l \in Licenses THEN LicenseMode(l) ELSE "none"

LEMMA BeginFields ==
  ASSUME TypeOK, NEW r \in Relays, NEW l \in Found, Begin(r, l)
  PROVE  BeginsAs(relay'[r], l)
BY DEF TypeOK, Begin, Down, BeginsAs

LEMMA DownSound == ASSUME now \in Nat PROVE Sound(Down)
BY DEF Sound, Down, Storing

(* What each action makes of its process. *)
Restarted(q) == q = Down
Resolved(p, q, m, e) == SameOrigin(p, q) /\ q.pc = "registry" /\ q.mode = m /\ q.expires = e
Moved(p, q, c) ==
  SameOrigin(p, q) /\ q.pc = c /\ q.mode = p.mode /\ q.expires = p.expires
Serving(p, q) == Moved(p, q, "up") /\ q.registry = Registry(p)

LEMMA Steps ==
  ASSUME TypeOK, NEW r \in Relays
  PROVE  LET p == relay[r]
             q == relay'[r]
         IN  /\ ReadTrial(r) => Resolved(p, q, TrialMode(stateFile, p.began), Expiry(stateFile))
             /\ ReadNoTrial(r) => Moved(p, q, "create")
             /\ ReadFails(r) => Moved(p, q, "exited")
             /\ CreateTemp(r) => Moved(p, q, "write")
             /\ WriteTemp(r) => Moved(p, q, "rename")
             /\ RenameTemp(r) => Resolved(p, q, "trial", Expiry(p.began))
             /\ StoreFails(r) => Resolved(p, q, "trial", Expiry(p.began))
             /\ ConfigureFails(r) => Moved(p, q, "exited")
             /\ RouterFails(r) => Moved(p, q, "exited")
             /\ Serve(r) => Serving(p, q)
<1>. DEFINE p == relay[r]
            q == relay'[r]
<1>0. p \in Processes /\ relay \in [Relays -> Processes]
  BY ProcessTyped DEF TypeOK
<1>1. ASSUME NEW c, Goto(r, c) PROVE Moved(p, q, c)
  BY <1>0, <1>1, GotoFields DEF Goto, Moved
<1>2. ASSUME NEW w, Exit(r, w) PROVE Moved(p, q, "exited")
  BY <1>0, <1>2, ExitFields DEF Exit, Moved
<1>3. ASSUME NEW m, NEW e, Resolve(r, m, e) PROVE Resolved(p, q, m, e)
  <2>. DEFINE v == [p EXCEPT !.pc = "registry", !.mode = m, !.expires = e]
  <2>1. relay' = [relay EXCEPT ![r] = v]
    BY <1>3 DEF Resolve
  <2>2. q = v
    <3>. HIDE DEF v
    <3>. QED
      BY <1>0, <2>1, Zenon
  <2>3. SameOrigin(p, v) /\ v.pc = "registry" /\ v.mode = m /\ v.expires = e
    <3>. DEFINE resolved(x) == [x EXCEPT !.pc = "registry", !.mode = m, !.expires = e]
    <3>1. \A x \in Processes : /\ SameOrigin(x, resolved(x)) /\ resolved(x).pc = "registry"
                               /\ resolved(x).mode = m /\ resolved(x).expires = e
      BY DEF SameOrigin, Processes
    <3>2. v = resolved(p)
      OBVIOUS
    <3>. HIDE DEF resolved, v
    <3>. QED
      BY <1>0, <3>1, <3>2
  <2>. QED
    BY <2>2, <2>3, Zenon DEF Resolved
<1>4. ASSUME Serve(r) PROVE Serving(p, q)
  <2>. DEFINE v == [p EXCEPT !.pc = "up", !.registry = Registry(p)]
  <2>1. relay' = [relay EXCEPT ![r] = v]
    BY <1>4, Zenon DEF Serve
  <2>2. q = v
    <3>. HIDE DEF v
    <3>. QED
      BY <1>0, <2>1, Zenon
  <2>3. SameOrigin(p, v) /\ v.pc = "up" /\ v.mode = p.mode /\ v.expires = p.expires /\ v.registry = Registry(p)
    BY <1>0, ServeFields, Zenon
  <2>. QED
    BY <2>2, <2>3, Zenon DEF Serving, Moved
<1>. QED
  BY <1>1, <1>2, <1>3, <1>4 DEF ReadTrial, ReadNoTrial, ReadFails, CreateTemp, WriteTemp, RenameTemp,
       StoreFails, ConfigureFails, RouterFails

LEMMA SameRegistry ==
  ASSUME NEW p, NEW q, SameOrigin(p, q), q.mode = p.mode
  PROVE  Registry(q) = Registry(p)
BY DEF SameOrigin, Registry, Licensed, Permits

-----------------------------------------------------------------------------
(* Each part of the invariant is preserved *)

LEMMA SoundStep ==
  ASSUME TypeOK, AllSound, NEW r \in Relays, Start(r)
  PROVE  AllSound'
<1>. DEFINE p == relay[r]
            q == relay'[r]
<1>0. /\ now' = now /\ default' = default
      /\ \A s \in Relays : s # r => relay'[s] = relay[s]
  BY OthersStay
<1>1. Sound(p) /\ p.began \in Nat /\ now \in Nat
  BY ProcessTyped DEF AllSound, TypeOK
<1>. SUFFICES Sound(q)
  BY <1>0 DEF AllSound, Sound
<1>2. ASSUME NEW l \in Found, Begin(r, l) PROVE Sound(q)
  BY <1>1, <1>2, BeginFields, LicenseAssumption DEF BeginsAs, Sound, LicenseMode, Storing, LicenseType, Found
<1>3. CASE ReadTrial(r)
  <2>1. Resolved(p, q, TrialMode(stateFile, p.began), Expiry(stateFile)) /\ p.pc = "trial"
    BY <1>3, Steps DEF ReadTrial
  <2>. QED
    BY <2>1, <1>1 DEF Resolved, SameOrigin, Sound, TrialMode, Storing
<1>4. ASSUME NEW c, c # "up", c \in Storing => p.pc \in Storing \cup {"trial"}, c # "trial", Moved(p, q, c)
      PROVE  Sound(q)
  BY <1>1, <1>4 DEF Moved, SameOrigin, Sound
<1>5. ReadNoTrial(r) \/ ReadFails(r) \/ CreateTemp(r) \/ WriteTemp(r) \/ ConfigureFails(r) \/ RouterFails(r)
      => Sound(q)
  BY <1>4, Steps DEF ReadNoTrial, ReadFails, CreateTemp, WriteTemp, ConfigureFails, RouterFails, Storing
<1>6. CASE RenameTemp(r) \/ StoreFails(r)
  <2>1. Resolved(p, q, "trial", Expiry(p.began)) /\ p.pc \in Storing
    BY <1>6, Steps DEF RenameTemp, StoreFails, Storing
  <2>2. p.began < Expiry(p.began)
    BY <1>1, LicenseAssumption DEF Expiry
  <2>. QED
    BY <2>1, <2>2, <1>1 DEF Resolved, SameOrigin, Sound, Storing
<1>7. CASE Serve(r)
  <2>1. Serving(p, q) /\ NewOK(Registry(p), default)
    BY <1>7, Steps DEF Serve
  <2>2. Registry(q) = Registry(p)
    BY <2>1, SameRegistry DEF Serving, Moved
  <2>. QED
    BY <2>1, <2>2, <1>1 DEF Serving, Moved, SameOrigin, Sound, NewOK, Storing
<1>. QED
  BY <1>2, <1>3, <1>5, <1>6, <1>7 DEF Start

LEMMA SoundNext == TypeOK /\ AllSound /\ [Next]_vars => AllSound'
<1>. SUFFICES ASSUME TypeOK, AllSound, [Next]_vars PROVE AllSound'
  OBVIOUS
<1>0. now \in Nat /\ \A r \in Relays : relay[r].began \in Nat
  BY ProcessTyped DEF TypeOK
<1>1. CASE Tick
  BY <1>0, <1>1 DEF Tick, AllSound, Sound
<1>2. CASE Tamper \/ UNCHANGED vars
  BY <1>2 DEF Tamper, vars, AllSound, Sound
<1>3. ASSUME NEW r \in Relays, Stop(r) PROVE AllSound'
  <2>1. now' = now /\ default' = default /\ \A s \in Relays : relay'[s] = relay[s] \/ relay'[s] = Down
    BY <1>3 DEF Stop, TypeOK
  <2>2. Sound(Down)
    BY <1>0, DownSound
  <2>. QED
    BY <2>1, <2>2 DEF AllSound, Sound
<1>. QED
  BY <1>1, <1>2, <1>3, SoundStep DEF Next

LEMMA TempNext == TypeOK /\ TempOwn /\ [Next]_vars => TempOwn'
<1>. SUFFICES ASSUME TypeOK, TempOwn, [Next]_vars, NEW s \in Relays, relay'[s].pc = "rename"
              PROVE  temp'[s] = relay'[s].began
  BY DEF TempOwn
<1>1. CASE Tick \/ Tamper \/ UNCHANGED vars
  BY <1>1 DEF Tick, Tamper, vars, TempOwn
<1>2. ASSUME NEW r \in Relays, Stop(r) PROVE temp'[s] = relay'[s].began
  BY <1>2 DEF Stop, TempOwn, TypeOK, Down
<1>3. ASSUME NEW r \in Relays, Start(r), s # r PROVE temp'[s] = relay'[s].began
  <2>1. relay'[s] = relay[s]
    BY <1>3, OthersStay
  <2>2. temp'[s] = temp[s]
    BY <1>3 DEF Start, Begin, ReadTrial, ReadNoTrial, ReadFails, CreateTemp, WriteTemp, RenameTemp,
         StoreFails, ConfigureFails, RouterFails, Serve, TempName, TypeOK
  <2>. QED
    BY <2>1, <2>2 DEF TempOwn
<1>4. CASE Start(s)
  <2>1. \A l \in Found : Begin(s, l) => relay'[s].pc # "rename"
    BY BeginFields DEF BeginsAs
  <2>2. WriteTemp(s)
    BY <1>4, <2>1, Steps DEF Start, Moved, Resolved, Serving
  <2>3. relay'[s].began = relay[s].began
    BY <2>2, Steps DEF Moved, SameOrigin
  <2>. QED
    BY <2>2, <2>3 DEF WriteTemp, TempName, TypeOK
<1>. QED
  BY <1>1, <1>2, <1>3, <1>4 DEF Next

LEMMA StoredNext ==
  ASSUME TypeOK, AllSound, TempOwn, TrialOnce, [Next]_vars, ~tampered'
  PROVE  Stored' /\ (firstStored # Missing => firstStored' = firstStored)
<1>. USE LicenseAssumption
<1>0. /\ now \in Nat /\ stateFile \in Files /\ firstStored \in Nat \cup {Missing}
      /\ \A r \in Relays : relay[r].began \in Nat /\ relay[r].began <= now
  BY ProcessTyped DEF TypeOK, AllSound, Sound
<1>1. CASE Tamper
  BY <1>1 DEF Tamper
<1>. SUFFICES ASSUME ~Tamper PROVE Stored' /\ (firstStored # Missing => firstStored' = firstStored)
  BY <1>1
<1>2. ~tampered
  BY DEF Next, vars, Tick, Stop, Start, Begin, ReadTrial, ReadNoTrial, ReadFails, CreateTemp, WriteTemp,
     RenameTemp, StoreFails, ConfigureFails, RouterFails, Serve
<1>3. Stored
  BY <1>2 DEF TrialOnce
<1>4. CASE \E r \in Relays : RenameTemp(r)
  <2>1. PICK r \in Relays : RenameTemp(r)
    BY <1>4
  <2>2. stateFile' = relay[r].began /\ now' = now
    BY <2>1 DEF RenameTemp, TempOwn, TempName
  <2>3. firstStored' = IF firstStored = Missing THEN now ELSE firstStored
    BY <2>1 DEF RenameTemp
  <2>4. firstStored # Missing => relay[r].began <= firstStored
    BY <1>2, <2>1 DEF TrialOnce, TrialBounded, RenameTemp, Storing
  <2>5. relay[r].began \in Nat /\ relay[r].began <= now
    BY <1>0
  <2>. QED
    BY <1>0, <1>3, <2>2, <2>3, <2>4, <2>5 DEF Stored
<1>5. CASE ~ \E r \in Relays : RenameTemp(r)
  <2>1. stateFile' = stateFile /\ firstStored' = firstStored /\ (now' = now \/ now' = now + 1)
    BY <1>5 DEF Next, vars, Tick, Stop, Start, Begin, ReadTrial, ReadNoTrial, ReadFails, CreateTemp,
       WriteTemp, StoreFails, ConfigureFails, RouterFails, Serve
  <2>. QED
    BY <1>0, <1>3, <2>1 DEF Stored
<1>. QED
  BY <1>4, <1>5

(* A relay that resolves or begins while the first store is known stays    *)
(* within it.                                                              *)
LEMMA BoundedStep ==
  ASSUME TypeOK, AllSound, TempOwn, TrialOnce, ~tampered, NEW r \in Relays, Start(r)
  PROVE  TrialBounded(relay[r])'
<1>. USE LicenseAssumption
<1>. DEFINE p == relay[r]
            q == relay'[r]
<1>0. /\ p.began \in Nat /\ p.began <= now /\ now \in Nat
      /\ firstStored \in Nat \cup {Missing} /\ stateFile \in Files
      /\ TrialBounded(p) /\ Stored
  BY ProcessTyped DEF TypeOK, AllSound, Sound, TrialOnce
<1>1. ASSUME NEW l \in Found, Begin(r, l) PROVE TrialBounded(p)'
  <2>1. q.pc \notin Storing /\ q.mode # "trial"
    BY <1>1, BeginFields DEF BeginsAs, Storing, LicenseMode
  <2>. QED
    BY <2>1 DEF TrialBounded
<1>2. CASE ReadTrial(r)
  <2>1. /\ SameOrigin(p, q) /\ q.pc = "registry" /\ q.mode = TrialMode(stateFile, p.began)
        /\ stateFile \in Nat /\ firstStored' = firstStored
    BY <1>2, Steps DEF ReadTrial, Resolved
  <2>2. q.mode = "trial" => p.began < stateFile + TrialDuration
    BY <2>1 DEF TrialMode, Expiry
  <2>3. firstStored # Missing => stateFile <= firstStored
    BY <1>0 DEF Stored
  <2>. QED
    BY <1>0, <2>1, <2>2, <2>3 DEF TrialBounded, SameOrigin, Storing
<1>3. CASE ReadNoTrial(r)
  <2>1. firstStored' = Missing
    BY <1>0, <1>3 DEF ReadNoTrial, Stored, Files
  <2>. QED
    BY <2>1 DEF TrialBounded
<1>4. CASE CreateTemp(r) \/ WriteTemp(r)
  <2>1. /\ SameOrigin(p, q) /\ q.mode = p.mode /\ p.pc \in Storing /\ firstStored' = firstStored
    BY <1>4, Steps DEF CreateTemp, WriteTemp, Moved, Storing
  <2>. QED
    BY <1>0, <2>1 DEF TrialBounded, SameOrigin
<1>5. CASE RenameTemp(r) \/ StoreFails(r)
  <2>1. /\ SameOrigin(p, q) /\ q.pc = "registry" /\ p.pc \in Storing
    BY <1>5, Steps DEF RenameTemp, StoreFails, Resolved, Storing
  <2>2. firstStored' = firstStored \/ (firstStored = Missing /\ firstStored' = now)
    BY <1>5 DEF RenameTemp, StoreFails
  <2>. QED
    BY <1>0, <2>1, <2>2 DEF TrialBounded, SameOrigin, Storing
<1>6. CASE ReadFails(r) \/ ConfigureFails(r) \/ RouterFails(r) \/ Serve(r)
  <2>1. /\ SameOrigin(p, q) /\ q.mode = p.mode /\ q.pc \notin Storing /\ firstStored' = firstStored
    BY <1>6, Steps DEF ReadFails, ConfigureFails, RouterFails, Serve, Serving, Moved, Storing
  <2>. QED
    BY <1>0, <2>1 DEF TrialBounded, SameOrigin
<1>. QED
  BY <1>1, <1>2, <1>3, <1>4, <1>5, <1>6 DEF Start

LEMMA TrialNext == TypeOK /\ AllSound /\ TempOwn /\ TrialOnce /\ [Next]_vars => TrialOnce'
<1>. SUFFICES ASSUME TypeOK, AllSound, TempOwn, TrialOnce, [Next]_vars, ~tampered'
              PROVE  Stored' /\ \A r \in Relays : TrialBounded(relay[r])'
  BY DEF TrialOnce
<1>1. Stored' /\ (firstStored # Missing => firstStored' = firstStored)
  BY StoredNext
<1>2. ~tampered
  BY DEF Next, vars, Tick, Tamper, Stop, Start, Begin, ReadTrial, ReadNoTrial, ReadFails, CreateTemp,
     WriteTemp, RenameTemp, StoreFails, ConfigureFails, RouterFails, Serve
<1>3. SUFFICES ASSUME NEW s \in Relays PROVE TrialBounded(relay[s])'
  BY <1>1
<1>4. CASE Tick \/ Tamper \/ UNCHANGED vars
  <2>1. relay' = relay /\ firstStored' = firstStored
    BY <1>4 DEF Tick, Tamper, vars
  <2>. QED
    BY <1>2, <2>1 DEF TrialOnce, TrialBounded
<1>5. ASSUME NEW r \in Relays, Stop(r) PROVE TrialBounded(relay[s])'
  <2>1. firstStored' = firstStored /\ (relay'[s] = relay[s] \/ relay'[s] = Down)
    BY <1>5 DEF Stop, TypeOK
  <2>2. Down.pc \notin Storing /\ Down.mode # "trial"
    BY DEF Down, Storing
  <2>. QED
    BY <1>2, <2>1, <2>2 DEF TrialOnce, TrialBounded
<1>6. CASE Start(s)
  BY <1>2, <1>6, BoundedStep
<1>7. ASSUME NEW r \in Relays, Start(r), s # r PROVE TrialBounded(relay[s])'
  <2>1. relay'[s] = relay[s]
    BY <1>7, OthersStay
  <2>2. CASE firstStored # Missing
    BY <1>1, <1>2, <2>1, <2>2 DEF TrialOnce, TrialBounded
  (* The first store ever: the others began by now, and the trial is long. *)
  <2>3. CASE firstStored = Missing /\ firstStored' # Missing
    <3>1. firstStored' = now
      BY <1>7, <2>3 DEF Start, Begin, ReadTrial, ReadNoTrial, ReadFails, CreateTemp, WriteTemp,
         RenameTemp, StoreFails, ConfigureFails, RouterFails, Serve
    <3>2. relay[s].began \in Nat /\ now \in Nat /\ relay[s].began <= now
      BY ProcessTyped DEF TypeOK, AllSound, Sound
    <3>. QED
      BY <2>1, <3>1, <3>2, LicenseAssumption DEF TrialBounded
  <2>4. CASE firstStored' = Missing
    BY <2>4 DEF TrialBounded
  <2>. QED
    BY <2>2, <2>3, <2>4
<1>. QED
  BY <1>4, <1>5, <1>6, <1>7 DEF Next

LEMMA IInvInit == Init => IInv
<1>. SUFFICES ASSUME Init PROVE IInv
  OBVIOUS
<1>1. TypeOK
  BY TypeInit
<1>2. AllSound
  BY <1>1, DownSound DEF Init, AllSound, TypeOK
<1>3. TempOwn
  BY DEF Init, TempOwn, Down
<1>4. TrialOnce
  BY LicenseAssumption DEF Init, TrialOnce, Stored, TrialBounded
<1>. QED
  BY <1>1, <1>2, <1>3, <1>4 DEF IInv

LEMMA IInvNext == IInv /\ [Next]_vars => IInv'
BY TypeNext, SoundNext, TempNext, TrialNext DEF IInv

(* The inductive invariant holds: what each relay remembers is sound, and  *)
(* until the operator interferes no stored start is later than the first.  *)
THEOREM Invariance == Spec => []IInv
<1>. QED
  BY IInvInit, IInvNext, PTL DEF Spec

-----------------------------------------------------------------------------
(* What follows from it *)

(* No relay that begins TrialDuration after the first store has a trial,   *)
(* whatever crashed, raced or failed to write, while the operator leaves   *)
(* the file alone.                                                         *)
THEOREM TrialsExpire == Spec => []TrialExpires
<1>1. IInv => TrialExpires
  BY DEF IInv, TrialOnce, TrialBounded, TrialExpires
<1>. QED
  BY <1>1, Invariance, PTL

(* No crash and no race leaves a trial state that cannot be parsed.        *)
THEOREM StateFileWhole == Spec => []NeverTorn
<1>1. IInv => NeverTorn
  BY DEF IInv, TypeOK, TrialOnce, Stored, NeverTorn
<1>. QED
  BY <1>1, Invariance, PTL

(* What a running relay resolved at its start bounds what it can be made   *)
(* to send to, by any payload and any rules.                               *)
THEOREM RoutesAreEntitled == Spec => []RoutesEntitled
<1>1. ASSUME IInv, NEW r \in Relays, NEW x \in Payloads, relay[r].pc = "up"
      PROVE  LET a == Route(relay[r].registry, Rules, default, x)
             IN  a \in Enabled /\ Entitled(relay[r], a)
  <2>. DEFINE p == relay[r]
              a == Route(p.registry, Rules, default, x)
  <2>1. Sound(p) /\ p.registry = Registry(p) /\ default \in p.registry
    BY <1>1 DEF IInv, AllSound, Sound
  <2>2. p.registry \in SUBSET Adapters
    BY <2>1, LicenseAssumption DEF Registry
  <2>3. a \in p.registry
    <3>1. NewOK(p.registry, default)
      BY <2>1 DEF NewOK
    <3>2. Rules \in Seq(RuleType)
      BY LicenseAssumption
    <3>. QED
      BY <2>2, <3>1, <3>2, RouteRegistered
  <2>4. a \in Enabled /\ Licensed(p, a)
    <3>. HIDE DEF a
    <3>. QED
      BY <2>1, <2>3 DEF Registry
  <2>5. Entitled(p, a)
    <3>. HIDE DEF a
    <3>. QED
      BY <2>1, <2>4 DEF Sound, Licensed, Permits, Entitled
  <2>. QED
    BY <2>4, <2>5
<1>2. IInv => RoutesEntitled
  BY <1>1 DEF RoutesEntitled
<1>. QED
  BY <1>2, Invariance, PTL

=============================================================================
