------------------------------ MODULE License ------------------------------
(***************************************************************************)
(* What a relay may be used for, from its start to its registry: the       *)
(* license manager (license/manager.go) with its trial state on disk       *)
(* (license/state_file.go), the gate and the registry (main.go) and the    *)
(* router built on them.                                                   *)
(*                                                                         *)
(* Several relays of one installation share the state file and may be      *)
(* starting at the same time; each may be stopped at any point, and the    *)
(* operator may install another license or touch the file.  The state      *)
(* file holds the time the trial started.  An installation without a state *)
(* path behaves as one whose every store fails.                            *)
(***************************************************************************)
EXTENDS Router

CONSTANTS
  Relays,          (* relay processes of the installation                   *)
  Enabled,         (* adapters with enabled: true                           *)
  Paid,            (* adapters whose RequiresLicense is true                *)
  Rules,           (* routing.rules                                         *)
  Licenses,        (* licenses that verify                                  *)
  NoLicense,       (* findLicense finds nothing                             *)
  BadLicense,      (* it finds one that cannot be read or does not verify   *)
  Missing,         (* no file                                               *)
  Torn,            (* a file that does not parse                            *)
  TrialDuration,   (* fourteen days, in ticks                               *)
  MaxTime          (* bound of the model: ticks                             *)

LicenseType == [adapters : SUBSET Paid, hosted : BOOLEAN, expires : Nat]

ASSUME LicenseAssumption ==
  /\ Enabled \subseteq Adapters
  /\ Paid \subseteq Adapters
  /\ Rules \in Seq(RuleType)
  /\ Licenses \subseteq LicenseType
  /\ {NoLicense, BadLicense} \cap Licenses = {}
  /\ NoLicense # BadLicense
  /\ Missing # Torn
  /\ {Missing, Torn} \cap Nat = {}
  /\ TrialDuration \in Nat \ {0}

VARIABLES
  now,          (* time.Now().UTC()                                         *)
  default,      (* routing.default_adapter                                  *)
  stateFile,    (* state.json                                               *)
  temp,         (* the temporary files, by the relay that made them         *)
  relay,        (* the relay processes                                      *)
  firstStored,  (* when a trial start was first stored, or Missing          *)
  tampered      (* whether the operator has touched the state file          *)

vars == <<now, default, stateFile, temp, relay, firstStored, tampered>>

(* What findLicense may return *)
Found == Licenses \cup {NoLicense, BadLicense}

Files == Nat \cup {Missing, Torn}
Modes == {"none", "licensed", "trial", "free"}
PCs == {"down", "trial", "create", "write", "rename", "registry", "up", "exited"}

(* why tells the exits apart: the license, an adapter's configuration or   *)
(* the router's default.                                                   *)
Processes == [pc : PCs, began : Nat, mode : Modes, license : Found,
              expires : Nat, registry : SUBSET Adapters,
              why : {"", "license", "config", "default"}]

Down == [pc |-> "down", began |-> 0, mode |-> "none", license |-> NoLicense,
         expires |-> 0, registry |-> {}, why |-> ""]

TypeOK ==
  /\ now \in Nat
  /\ default \in Adapters
  /\ stateFile \in Files
  /\ temp \in [Relays -> Files]
  /\ relay \in [Relays -> Processes]
  /\ firstStored \in Nat \cup {Missing}
  /\ tampered \in BOOLEAN

Init ==
  /\ now = 0
  /\ default \in Adapters
  /\ stateFile = Missing
  /\ temp = [r \in Relays |-> Missing]
  /\ relay = [r \in Relays |-> Down]
  /\ firstStored = Missing
  /\ tampered = FALSE

-----------------------------------------------------------------------------
(* The surroundings *)

Tick ==
  /\ now < MaxTime
  /\ now' = now + 1
  /\ UNCHANGED <<default, stateFile, temp, relay, firstStored, tampered>>

(* The operator deletes the file or damages it. *)
Tamper ==
  /\ stateFile' \in {Missing, Torn}
  /\ tampered' = TRUE
  /\ UNCHANGED <<now, default, temp, relay, firstStored>>

(* A signal, a crash, or the end of a process that has exited.  The        *)
(* temporary file of a crash stays behind.                                 *)
Stop(r) ==
  /\ relay[r].pc # "down"
  /\ relay' = [relay EXCEPT ![r] = Down]
  /\ UNCHANGED <<now, default, stateFile, temp, firstStored, tampered>>

-----------------------------------------------------------------------------
(* Load *)

Goto(r, pc) == relay' = [relay EXCEPT ![r] = [@ EXCEPT !.pc = pc]]

Exit(r, why) == relay' = [relay EXCEPT ![r] = [@ EXCEPT !.pc = "exited", !.why = why]]

Resolve(r, mode, expires) ==
  relay' = [relay EXCEPT ![r] = [@ EXCEPT !.pc = "registry", !.mode = mode, !.expires = expires]]

LicenseMode(l) == IF l.expires > now THEN "licensed" ELSE "free"

(* findLicense returns l, the license installed by now, and Verify judges  *)
(* it; with none, it is the trial's turn.                                  *)
Begin(r, l) ==
  /\ relay[r].pc = "down"
  /\ relay' = [relay EXCEPT ![r] =
       [Down EXCEPT !.began = now, !.license = l,
          !.pc = IF l = NoLicense THEN "trial"
                 ELSE IF l = BadLicense THEN "exited" ELSE "registry",
          !.mode = IF l \in Licenses THEN LicenseMode(l) ELSE "none",
          !.expires = IF l \in Licenses THEN l.expires ELSE 0,
          !.why = IF l = BadLicense THEN "license" ELSE ""]]
  /\ UNCHANGED <<now, default, stateFile, temp, firstStored, tampered>>

Expiry(start) == start + TrialDuration

(* Mutant: the trial's last instant is counted in. *)
TrialModeLate(start, at) == IF at <= Expiry(start) THEN "trial" ELSE "free"

TrialMode(start, at) == IF at < Expiry(start) THEN "trial" ELSE "free"

(* readTrialState finds a start time. *)
ReadTrial(r) ==
  /\ relay[r].pc = "trial"
  /\ stateFile \in Nat
  /\ Resolve(r, TrialMode(stateFile, relay[r].began), Expiry(stateFile))
  /\ UNCHANGED <<now, default, stateFile, temp, firstStored, tampered>>

(* Absent or malformed: a new trial starts. *)
ReadNoTrial(r) ==
  /\ relay[r].pc = "trial"
  /\ stateFile \notin Nat
  /\ Goto(r, "create")
  /\ UNCHANGED <<now, default, stateFile, temp, firstStored, tampered>>

(* Any other error than its absence, with or without a file. *)
ReadFails(r) ==
  /\ relay[r].pc = "trial"
  /\ Exit(r, "license")
  /\ UNCHANGED <<now, default, stateFile, temp, firstStored, tampered>>

-----------------------------------------------------------------------------
(* writeTrialState *)

(* Mutant: one name for everybody's temporary file. *)
TempNameFixed(r) == CHOOSE s \in Relays : TRUE

(* os.CreateTemp picks a name of the relay's own. *)
TempName(r) == r

CreateTemp(r) ==
  /\ relay[r].pc = "create"
  /\ temp' = [temp EXCEPT ![TempName(r)] = Torn]
  /\ Goto(r, "write")
  /\ UNCHANGED <<now, default, stateFile, firstStored, tampered>>

WriteTemp(r) ==
  /\ relay[r].pc = "write"
  /\ temp' = [temp EXCEPT ![TempName(r)] = relay[r].began]
  /\ Goto(r, "rename")
  /\ UNCHANGED <<now, default, stateFile, firstStored, tampered>>

RenameTemp(r) ==
  /\ relay[r].pc = "rename"
  /\ temp[TempName(r)] # Missing
  /\ stateFile' = temp[TempName(r)]
  /\ temp' = [temp EXCEPT ![TempName(r)] = Missing]
  /\ firstStored' = IF firstStored = Missing THEN now ELSE firstStored
  /\ Resolve(r, "trial", Expiry(relay[r].began))
  /\ UNCHANGED <<now, default, tampered>>

(* Any of the three may fail, and then the trial is this process's only. *)
StoreFails(r) ==
  /\ relay[r].pc \in {"create", "write", "rename"}
  /\ temp' = [temp EXCEPT ![TempName(r)] = IF relay[r].pc = "create" THEN @ ELSE Missing]
  /\ Resolve(r, "trial", Expiry(relay[r].began))
  /\ UNCHANGED <<now, default, stateFile, firstStored, tampered>>

-----------------------------------------------------------------------------
(* buildRegistry and router.New *)

(* State.Permits *)
Permits(p, a) ==
  \/ p.mode = "trial"
  \/ /\ p.mode = "licensed"
     /\ p.license.hosted \/ a \in p.license.adapters

Licensed(p, a) == a \notin Paid \/ Permits(p, a)

Registry(p) == {a \in Enabled : Licensed(p, a)}

(* A secret is missing, or Configure refuses: linear's asks Linear for its *)
(* team.  No adapter at all is a problem too.                              *)
ConfigureFails(r) ==
  /\ relay[r].pc = "registry"
  /\ Exit(r, "config")
  /\ UNCHANGED <<now, default, stateFile, temp, firstStored, tampered>>

RouterFails(r) ==
  /\ relay[r].pc = "registry"
  /\ Registry(relay[r]) # {}
  /\ ~NewOK(Registry(relay[r]), default)
  /\ Exit(r, "default")
  /\ UNCHANGED <<now, default, stateFile, temp, firstStored, tampered>>

Serve(r) ==
  /\ relay[r].pc = "registry"
  /\ NewOK(Registry(relay[r]), default)
  /\ relay' = [relay EXCEPT ![r] = [@ EXCEPT !.pc = "up", !.registry = Registry(relay[r])]]
  /\ UNCHANGED <<now, default, stateFile, temp, firstStored, tampered>>

-----------------------------------------------------------------------------

Start(r) ==
  \/ \E l \in Found : Begin(r, l)
  \/ ReadTrial(r)
  \/ ReadNoTrial(r)
  \/ ReadFails(r)
  \/ CreateTemp(r)
  \/ WriteTemp(r)
  \/ RenameTemp(r)
  \/ StoreFails(r)
  \/ ConfigureFails(r)
  \/ RouterFails(r)
  \/ Serve(r)

Next ==
  \/ Tick
  \/ Tamper
  \/ \E r \in Relays : Stop(r) \/ Start(r)

Spec == Init /\ [][Next]_vars

-----------------------------------------------------------------------------

(* Once any relay has stored a trial start, the trial ends for all of them *)
(* TrialDuration later, unless the operator touches the file: whichever    *)
(* relays were starting, crashed or failed to write at the time, none that *)
(* begins after that is given a trial.                                     *)
TrialExpires ==
  \A r \in Relays :
    relay[r].mode = "trial" /\ firstStored # Missing /\ ~tampered
      => relay[r].began < firstStored + TrialDuration

(* A crash in the middle of writeTrialState, or another relay writing at   *)
(* the same time, never leaves a file readTrialState cannot parse: that    *)
(* would start the trial afresh.                                           *)
NeverTorn == stateFile = Torn => tampered

(* Whether the relay was entitled to adapter a when it was started.        *)
Entitled(p, a) ==
  \/ a \notin Paid
  \/ p.license = NoLicense /\ p.began < p.expires
  \/ /\ p.license \in Licenses
     /\ p.began < p.license.expires
     /\ p.license.hosted \/ a \in p.license.adapters

(* Whatever a running relay is sent, hints included, goes to an enabled    *)
(* adapter that is free or that the relay was entitled to when it started. *)
RoutesEntitled ==
  \A r \in Relays, x \in Payloads :
    relay[r].pc = "up" =>
      LET a == Route(relay[r].registry, Rules, default, x)
      IN  a \in Enabled /\ Entitled(relay[r], a)

(* docs/license.md:80: "When the trial expires, the relay starts normally  *)
(* but applies graceful degradation", and :85 a default_adapter that is    *)
(* disabled makes it fall back to the first enabled adapter.               *)
FreeModeStarts ==
  \A r \in Relays :
    relay[r].mode = "free" /\ default \in Enabled
      => ~(relay[r].pc = "exited" /\ relay[r].why = "default")

=============================================================================
