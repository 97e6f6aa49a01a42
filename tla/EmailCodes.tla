----------------------------- MODULE EmailCodes -----------------------------
(***************************************************************************)
(* Email sign-in: the store of six-digit codes (auth/emailcode), the       *)
(* service that sends them and mints tokens (server/email_service.go) and  *)
(* the two handlers (server/email.go).  Issue and Verify hold the store's  *)
(* mutex, so each is one step; the mail is sent outside it, so any number  *)
(* of starts for one address may be sending at the same time.              *)
(*                                                                         *)
(* The code keeps an address's issues of the current window as a sequence  *)
(* of times, of which it looks at the length and the oldest member only;   *)
(* here they are a set of numbered issues.                                 *)
(***************************************************************************)
EXTENDS GoBasics, FiniteSets

CONSTANTS
  Emails,         (* normalised addresses                                   *)
  Codes,          (* what generateSixDigitCode may return, and a user type  *)
  CodeTTL,        (* lifetime of a code, in ticks                           *)
  RateWindow,     (* window of the per-address cap; main.go passes CodeTTL  *)
  PerWindowCap,   (* issues per address and window; main.go passes 3        *)
  Requests,       (* starts that may be sending at the same time            *)
  MaxClock,       (* bounds of the model: ticks ...                         *)
  MaxIssues       (* ... and issues                                         *)

ASSUME CodeAssumption ==
  /\ CodeTTL \in Nat
  /\ RateWindow \in Nat
  /\ PerWindowCap \in Nat \ {0}    \* with 0, Issue indexes an empty slice
  /\ MaxIssues \in Nat

VARIABLES
  clock,     (* Store.now                                                   *)
  active,    (* Store.active; n numbers the issue                           *)
  history,   (* Store.history                                               *)
  starts,    (* the start requests that are sending -> their mail           *)
  mailed,    (* the mails that have arrived                                 *)
  minted,    (* tokens minted, per address                                  *)
  issues,    (* issues of this process, per address                         *)
  serial     (* number of the next issue, over all processes                *)

vars == <<clock, active, history, starts, mailed, minted, issues, serial>>

Issues == [n : 1..MaxIssues, at : Nat]
Entries == [code : Codes, issuedAt : Nat, used : BOOLEAN, n : 1..MaxIssues]
Mails == [email : Emails, code : Codes, at : Nat, n : 1..MaxIssues]

TypeOK ==
  /\ clock \in Nat
  /\ DOMAIN active \subseteq Emails
  /\ active \in [DOMAIN active -> Entries]
  /\ history \in [Emails -> SUBSET Issues]
  /\ DOMAIN starts \subseteq Requests
  /\ starts \in [DOMAIN starts -> Mails]
  /\ mailed \subseteq Mails
  /\ minted \in [Emails -> Nat]
  /\ issues \in [Emails -> SUBSET Issues]
  /\ serial \in 1..MaxIssues + 1

Init ==
  /\ clock = 0
  /\ active = EmptyMap
  /\ history = [e \in Emails |-> {}]
  /\ starts = EmptyMap
  /\ mailed = {}
  /\ minted = [e \in Emails |-> 0]
  /\ issues = [e \in Emails |-> {}]
  /\ serial = 1

-----------------------------------------------------------------------------

Tick ==
  /\ clock < MaxClock
  /\ clock' = clock + 1
  /\ UNCHANGED <<active, history, starts, mailed, minted, issues, serial>>

(* Everything but the mails and the tokens is in the process's memory. *)
Restart ==
  /\ active' = EmptyMap
  /\ history' = [e \in Emails |-> {}]
  /\ starts' = EmptyMap
  /\ issues' = [e \in Emails |-> {}]
  /\ UNCHANGED <<clock, mailed, minted, serial>>

-----------------------------------------------------------------------------
(* POST /v1/intake/auth/email/start *)

InWindow(S) == {i \in S : i.at > clock - RateWindow}

(* Mutant: an issue leaves the window one tick early. *)
RecentShort(e) == {i \in history[e] : i.at > clock - RateWindow + 1}

Recent(e) == InWindow(history[e])

(* Mutant: the sweep takes codes that Verify would still accept. *)
SweptEarly == Restrict(active, {e \in DOMAIN active : clock - active[e].issuedAt < CodeTTL})

(* Issue's sweep over every address. *)
Swept == Restrict(active, {e \in DOMAIN active : ~(clock - active[e].issuedAt > CodeTTL)})

(* Mutant: the error of generateSixDigitCode is ignored. *)
StartIssuedNoCode(r, e, c) ==
  /\ r \notin DOMAIN starts
  /\ serial <= MaxIssues
  /\ Cardinality(Recent(e)) < PerWindowCap
  /\ active' = Put(Swept, e, [code |-> "", issuedAt |-> clock, used |-> FALSE, n |-> serial])
  /\ serial' = serial + 1
  /\ UNCHANGED <<clock, history, starts, mailed, minted, issues>>

StartIssued(r, e, c) ==
  /\ r \notin DOMAIN starts
  /\ serial <= MaxIssues
  /\ Cardinality(Recent(e)) < PerWindowCap
  /\ history' = [history EXCEPT ![e] = Recent(e) \cup {[n |-> serial, at |-> clock]}]
  /\ active' = Put(Swept, e, [code |-> c, issuedAt |-> clock, used |-> FALSE, n |-> serial])
  /\ starts' = Put(starts, r, [email |-> e, code |-> c, at |-> clock, n |-> serial])
  /\ issues' = [issues EXCEPT ![e] = @ \cup {[n |-> serial, at |-> clock]}]
  /\ serial' = serial + 1
  /\ UNCHANGED <<clock, mailed, minted>>

(* 429 rate_limited: the history is pruned, nothing else. *)
StartRefused(e) ==
  /\ Cardinality(Recent(e)) >= PerWindowCap
  /\ history' = [history EXCEPT ![e] = Recent(e)]
  /\ UNCHANGED <<clock, active, starts, mailed, minted, issues, serial>>

(* 200 message_sent *)
SendOK(r) ==
  /\ r \in DOMAIN starts
  /\ mailed' = mailed \cup {starts[r]}
  /\ starts' = Delete(starts, r)
  /\ UNCHANGED <<clock, active, history, minted, issues, serial>>

(* 502 smtp_error: the mail is lost, or it was accepted before the error.  *)
(* Neither the code nor the slot of the window is given back.              *)
SendFails(r) ==
  /\ r \in DOMAIN starts
  /\ mailed' \in {mailed, mailed \cup {starts[r]}}
  /\ starts' = Delete(starts, r)
  /\ UNCHANGED <<clock, active, history, minted, issues, serial>>

-----------------------------------------------------------------------------
(* POST /v1/intake/auth/email/verify *)

Expired(e) == clock - active[e].issuedAt > CodeTTL

Matches(e, c) ==
  /\ e \in DOMAIN active
  /\ ~active[e].used
  /\ ~Expired(e)
  /\ active[e].code = c

(* Mutant: the code is not marked used. *)
VerifyOKNotMarked(e, c) ==
  /\ Matches(e, c)
  /\ minted' = [minted EXCEPT ![e] = @ + 1]
  /\ UNCHANGED <<clock, active, history, starts, mailed, issues, serial>>

(* 200 with a token.  main.go has made sure that Mint cannot fail. *)
VerifyOK(e, c) ==
  /\ Matches(e, c)
  /\ active' = [active EXCEPT ![e].used = TRUE]
  /\ minted' = [minted EXCEPT ![e] = @ + 1]
  /\ UNCHANGED <<clock, history, starts, mailed, issues, serial>>

(* 401 invalid_code; an expired code is deleted on the way. *)
VerifyFails(e, c) ==
  /\ ~Matches(e, c)
  /\ active' = IF e \in DOMAIN active /\ ~active[e].used /\ Expired(e)
               THEN Delete(active, e)
               ELSE active
  /\ UNCHANGED <<clock, history, starts, mailed, minted, issues, serial>>

Next ==
  \/ Tick
  \/ Restart
  \/ \E e \in Emails :
       \/ StartRefused(e)
       \/ \E c \in Codes :
            \/ \E r \in Requests : StartIssued(r, e, c)
            \/ VerifyOK(e, c)
            \/ VerifyFails(e, c)
  \/ \E r \in Requests : SendOK(r) \/ SendFails(r)

Spec == Init /\ [][Next]_vars

-----------------------------------------------------------------------------
(* Properties. *)

(* No address is mailed more than PerWindowCap codes within any window of  *)
(* RateWindow, although refused starts and other addresses prune and sweep *)
(* in between (within one process: a restart forgets the history).         *)
IssueRate == \A e \in Emails : Cardinality(InWindow(issues[e])) <= PerWindowCap

(* A mail that has arrived works: as long as no newer code was issued for  *)
(* its address and it is not older than CodeTTL, its code is the one the   *)
(* store holds, whatever other addresses, wrong guesses and refused starts *)
(* have done; it is refused only because it was used.                      *)
Newest(m) == m.n \in {i.n : i \in issues[m.email]} /\ \A i \in issues[m.email] : i.n <= m.n

MailWorks ==
  \A m \in mailed :
    Newest(m) /\ clock - m.at <= CodeTTL =>
      /\ m.email \in DOMAIN active
      /\ active[m.email].n = m.n
      /\ active[m.email].used \/ Matches(m.email, m.code)

(* The codes in force: neither used nor expired. *)
InForce ==
  [e \in {x \in DOMAIN active : ~active[x].used /\ clock - active[x].issuedAt <= CodeTTL} |->
     [code |-> active[e].code, issuedAt |-> active[e].issuedAt]]

Ideal == INSTANCE OneTimeCodes WITH inForce <- InForce

(* One code in force per address, one token per code: the lazy deletions,  *)
(* the sweep and the kept used entries cannot be seen.                     *)
ImplementsOneTimeCodes == Ideal!CodesInit /\ [][Ideal!CodesNext]_Ideal!codeVars

=============================================================================
