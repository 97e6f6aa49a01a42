-------------------------- MODULE EmailCodesProofs --------------------------
(***************************************************************************)
(* Theorems about EmailCodes and SignIn, for any addresses, codes,         *)
(* lifetimes, caps, tokens, configurations and numbers of requests.        *)
(***************************************************************************)
EXTENDS SignIn, FiniteSetTheorems, TLAPS

(* What a start makes: the numbered issue, the store's entry, the mail.    *)
NewIssue == [n |-> serial, at |-> clock]
NewEntry(c) == [code |-> c, issuedAt |-> clock, used |-> FALSE, n |-> serial]
NewMail(e, c) == [email |-> e, code |-> c, at |-> clock, n |-> serial]

(* Maps that are put into, restricted or deleted from stay maps. *)
LEMMA PutTyped ==
  ASSUME NEW K, NEW S, NEW f, DOMAIN f \subseteq K, f \in [DOMAIN f -> S], NEW k \in K, NEW v \in S
  PROVE  DOMAIN Put(f, k, v) \subseteq K /\ Put(f, k, v) \in [DOMAIN Put(f, k, v) -> S]
BY DEF Put

LEMMA RestrictTyped ==
  ASSUME NEW K, NEW S, NEW f, DOMAIN f \subseteq K, f \in [DOMAIN f -> S], NEW D \in SUBSET DOMAIN f
  PROVE  DOMAIN Restrict(f, D) \subseteq K /\ Restrict(f, D) \in [DOMAIN Restrict(f, D) -> S]
BY DEF Restrict

LEMMA SweptFacts ==
  ASSUME TypeOK
  PROVE  /\ DOMAIN Swept = {e \in DOMAIN active : ~(clock - active[e].issuedAt > CodeTTL)}
         /\ \A e \in DOMAIN Swept : Swept[e] = active[e]
BY DEF Swept, Restrict

LEMMA NewTyped ==
  ASSUME TypeOK, serial <= MaxIssues, NEW e \in Emails, NEW c \in Codes
  PROVE  /\ serial \in 1..MaxIssues /\ serial + 1 \in 1..MaxIssues + 1
         /\ NewIssue \in Issues /\ NewEntry(c) \in Entries /\ NewMail(e, c) \in Mails
<1>1. serial \in 1..MaxIssues /\ serial + 1 \in 1..MaxIssues + 1 /\ clock \in Nat
  BY CodeAssumption DEF TypeOK
<1>. QED
  BY <1>1 DEF NewIssue, NewEntry, NewMail, Issues, Entries, Mails

(* The maps after a start, entry by entry. *)
Started(r, e, c) ==
  /\ DOMAIN active' = DOMAIN Swept \cup {e}
  /\ active'[e] = NewEntry(c)
  /\ \A x \in DOMAIN Swept : x # e => active'[x] = active[x]
  /\ DOMAIN starts' = DOMAIN starts \cup {r}
  /\ starts'[r] = NewMail(e, c)
  /\ \A x \in DOMAIN starts : starts'[x] = starts[x]
  /\ \A x \in Emails : issues'[x] = IF x = e THEN issues[e] \cup {NewIssue} ELSE issues[x]
  /\ \A x \in Emails : history'[x] = IF x = e THEN Recent(e) \cup {NewIssue} ELSE history[x]

LEMMA StartMaps ==
  ASSUME TypeOK, NEW r \in Requests, NEW e \in Emails, NEW c \in Codes, StartIssued(r, e, c)
  PROVE  Started(r, e, c)
<1>1. active' = Put(Swept, e, NewEntry(c)) /\ starts' = Put(starts, r, NewMail(e, c))
  BY DEF StartIssued, NewEntry, NewMail
<1>2. /\ DOMAIN active' = DOMAIN Swept \cup {e}
      /\ active'[e] = NewEntry(c)
      /\ \A x \in DOMAIN Swept : x # e => active'[x] = Swept[x]
  BY <1>1 DEF Put
<1>3. /\ DOMAIN starts' = DOMAIN starts \cup {r}
      /\ starts'[r] = NewMail(e, c)
      /\ \A x \in DOMAIN starts : x # r => starts'[x] = starts[x]
  BY <1>1 DEF Put
<1>4. r \notin DOMAIN starts
  BY DEF StartIssued
<1>5. \A x \in Emails : issues'[x] = IF x = e THEN issues[e] \cup {NewIssue} ELSE issues[x]
  BY DEF StartIssued, NewIssue, TypeOK
<1>6. \A x \in Emails : history'[x] = IF x = e THEN Recent(e) \cup {NewIssue} ELSE history[x]
  BY DEF StartIssued, NewIssue, TypeOK
<1>. QED
  BY <1>2, <1>3, <1>4, <1>5, <1>6, SweptFacts DEF Started

-----------------------------------------------------------------------------
(* Type correctness. *)

LEMMA InitTyped == Init => TypeOK
BY CodeAssumption DEF Init, TypeOK, EmptyMap

LEMMA NextTyped == TypeOK /\ [Next]_vars => TypeOK'
<1>. SUFFICES ASSUME TypeOK, [Next]_vars PROVE TypeOK'
  OBVIOUS
<1>1. CASE Tick
  BY <1>1 DEF Tick, TypeOK
<1>2. CASE Restart
  BY <1>2 DEF Restart, TypeOK, EmptyMap
<1>3. ASSUME NEW e \in Emails, StartRefused(e) PROVE TypeOK'
  BY <1>3 DEF StartRefused, TypeOK, Recent, InWindow
<1>4. ASSUME NEW r \in Requests, NEW e \in Emails, NEW c \in Codes, StartIssued(r, e, c)
      PROVE  TypeOK'
  <2>1. /\ serial' = serial + 1 /\ serial <= MaxIssues
        /\ UNCHANGED <<clock, mailed, minted>>
    BY <1>4 DEF StartIssued
  <2>2. /\ serial' \in 1..MaxIssues + 1
        /\ NewIssue \in Issues /\ NewEntry(c) \in Entries /\ NewMail(e, c) \in Mails
    BY <2>1, NewTyped
  <2>3. DOMAIN active' \subseteq Emails /\ active' \in [DOMAIN active' -> Entries]
    <3>1. DOMAIN Swept \subseteq Emails /\ Swept \in [DOMAIN Swept -> Entries]
      BY RestrictTyped DEF TypeOK, Swept
    <3>2. active' = Put(Swept, e, NewEntry(c))
      BY <1>4 DEF StartIssued, NewEntry
    <3>3. DOMAIN Put(Swept, e, NewEntry(c)) \subseteq Emails
          /\ Put(Swept, e, NewEntry(c)) \in [DOMAIN Put(Swept, e, NewEntry(c)) -> Entries]
      BY <2>2, <3>1, PutTyped
    <3>. QED
      BY <3>2, <3>3
  <2>4. DOMAIN starts' \subseteq Requests /\ starts' \in [DOMAIN starts' -> Mails]
    <3>1. starts' = Put(starts, r, NewMail(e, c))
      BY <1>4 DEF StartIssued, NewMail
    <3>2. DOMAIN Put(starts, r, NewMail(e, c)) \subseteq Requests
          /\ Put(starts, r, NewMail(e, c)) \in [DOMAIN Put(starts, r, NewMail(e, c)) -> Mails]
      BY <2>2, PutTyped DEF TypeOK
    <3>. QED
      BY <3>1, <3>2
  <2>5. history' \in [Emails -> SUBSET Issues] /\ issues' \in [Emails -> SUBSET Issues]
    BY <1>4, <2>2 DEF StartIssued, TypeOK, NewIssue, Recent, InWindow
  <2>. QED
    BY <2>1, <2>2, <2>3, <2>4, <2>5 DEF TypeOK
<1>5. ASSUME NEW r \in Requests, SendOK(r) \/ SendFails(r) PROVE TypeOK'
  <2>1. /\ starts' = Delete(starts, r) /\ starts[r] \in Mails
        /\ mailed' \in {mailed, mailed \cup {starts[r]}}
        /\ UNCHANGED <<clock, active, history, minted, issues, serial>>
    BY <1>5 DEF SendOK, SendFails, TypeOK
  <2>2. DOMAIN starts' \subseteq Requests /\ starts' \in [DOMAIN starts' -> Mails]
    BY <2>1 DEF TypeOK, Delete, Restrict
  <2>. QED
    BY <2>1, <2>2 DEF TypeOK
<1>6. ASSUME NEW e \in Emails, NEW c \in Codes, VerifyOK(e, c) PROVE TypeOK'
  <2>1. /\ e \in DOMAIN active
        /\ active' = [active EXCEPT ![e].used = TRUE]
        /\ minted' = [minted EXCEPT ![e] = @ + 1]
        /\ UNCHANGED <<clock, history, starts, mailed, issues, serial>>
    BY <1>6 DEF VerifyOK, Matches
  <2>2. DOMAIN active' \subseteq Emails /\ active' \in [DOMAIN active' -> Entries]
    BY <2>1 DEF TypeOK, Entries
  <2>. QED
    BY <2>1, <2>2 DEF TypeOK
<1>7. ASSUME NEW e \in Emails, NEW c \in Codes, VerifyFails(e, c) PROVE TypeOK'
  <2>1. /\ active' \in {active, Delete(active, e)}
        /\ UNCHANGED <<clock, history, starts, mailed, minted, issues, serial>>
    BY <1>7 DEF VerifyFails
  <2>2. DOMAIN active' \subseteq Emails /\ active' \in [DOMAIN active' -> Entries]
    BY <2>1 DEF TypeOK, Delete, Restrict
  <2>. QED
    BY <2>1, <2>2 DEF TypeOK
<1>8. CASE UNCHANGED vars
  BY <1>8 DEF vars, TypeOK
<1>. QED
  BY <1>1, <1>2, <1>3, <1>4, <1>5, <1>6, <1>7, <1>8 DEF Next

(* Every reachable state of the email sign-in is well typed: no entry      *)
(* without a code, and no address without its counters.                    *)
THEOREM TypeCorrect == Spec => []TypeOK
<1>1. Init => TypeOK
  BY InitTyped
<1>2. TypeOK /\ [Next]_vars => TypeOK'
  BY NextTyped
<1>. QED
  BY <1>1, <1>2, PTL DEF Spec

-----------------------------------------------------------------------------
(* The cap per address and window.  The pruned history still holds every   *)
(* issue of the window, and never more than the cap of them.               *)

RateHeld(e) ==
  /\ IsFiniteSet(history[e])
  /\ InWindow(issues[e]) \subseteq history[e]
  /\ Cardinality(Recent(e)) <= PerWindowCap

RateInv == TypeOK /\ \A e \in Emails : RateHeld(e)

LEMMA WindowFinite ==
  ASSUME NEW S, IsFiniteSet(S), NEW T, T \subseteq S
  PROVE  IsFiniteSet(T) /\ Cardinality(T) \in Nat /\ Cardinality(S) \in Nat
         /\ Cardinality(T) <= Cardinality(S)
BY FS_Subset, FS_CardinalityType

(* A history that only lost members, while time may have passed. *)
LEMMA RateShrinks ==
  ASSUME TypeOK, NEW e \in Emails, RateHeld(e),
         history'[e] \subseteq history[e], Recent(e)' \subseteq Recent(e),
         InWindow(issues[e])' \subseteq history'[e]
  PROVE  RateHeld(e)'
<1>1. IsFiniteSet(history[e]) /\ Recent(e) \subseteq history[e]
  BY DEF RateHeld, Recent, InWindow
<1>2. IsFiniteSet(history'[e]) /\ IsFiniteSet(Recent(e)) /\ Cardinality(Recent(e)) \in Nat
  BY <1>1, WindowFinite
<1>3. Cardinality(Recent(e)') \in Nat /\ Cardinality(Recent(e)') <= Cardinality(Recent(e))
  BY <1>2, WindowFinite
<1>4. Cardinality(Recent(e)') <= PerWindowCap
  BY <1>2, <1>3, CodeAssumption DEF RateHeld
<1>. QED
  BY <1>2, <1>4 DEF RateHeld

LEMMA InitRate == Init => RateInv
<1>. SUFFICES ASSUME Init, NEW e \in Emails PROVE RateHeld(e)
  BY InitTyped DEF RateInv
<1>1. history[e] = {} /\ issues[e] = {}
  BY DEF Init
<1>2. Recent(e) = {} /\ InWindow(issues[e]) = {}
  BY <1>1 DEF Recent, InWindow
<1>. QED
  BY <1>1, <1>2, FS_EmptySet, CodeAssumption DEF RateHeld

LEMMA NextRate == RateInv /\ [Next]_vars => RateInv'
<1>. SUFFICES ASSUME RateInv, [Next]_vars, NEW x \in Emails PROVE RateHeld(x)'
  BY NextTyped DEF RateInv
<1>0. TypeOK /\ RateHeld(x)
  BY DEF RateInv
<1>a. ASSUME UNCHANGED <<clock, history, issues>> PROVE RateHeld(x)'
  BY <1>0, <1>a DEF RateHeld, Recent, InWindow
<1>1. CASE Tick
  <2>1. clock \in Nat /\ clock' = clock + 1 /\ history' = history /\ issues' = issues
    BY <1>0, <1>1 DEF Tick, TypeOK
  <2>2. history[x] \subseteq Issues /\ issues[x] \subseteq Issues
    BY <1>0 DEF TypeOK
  <2>3. \A i \in Issues : i.at > clock' - RateWindow => i.at > clock - RateWindow
    BY <2>1, CodeAssumption DEF Issues
  <2>4. Recent(x)' \subseteq Recent(x)
    BY <2>1, <2>2, <2>3 DEF Recent, InWindow
  <2>5. InWindow(issues[x])' \subseteq history'[x]
    BY <1>0, <2>1, <2>2, <2>3 DEF RateHeld, InWindow
  <2>. QED
    BY <1>0, <2>1, <2>4, <2>5, RateShrinks
<1>2. CASE Restart
  <2>1. history'[x] = {} /\ issues'[x] = {}
    BY <1>2 DEF Restart
  <2>2. Recent(x)' = {} /\ InWindow(issues[x])' = {}
    BY <2>1 DEF Recent, InWindow
  <2>. QED
    BY <1>0, <2>1, <2>2, RateShrinks
<1>3. ASSUME NEW e \in Emails, StartRefused(e) PROVE RateHeld(x)'
  <2>1. /\ history' = [history EXCEPT ![e] = Recent(e)]
        /\ UNCHANGED <<clock, issues>>
    BY <1>3 DEF StartRefused
  <2>2. history'[x] = IF x = e THEN Recent(x) ELSE history[x]
    BY <1>0, <2>1 DEF TypeOK
  <2>3. history'[x] \subseteq history[x] /\ Recent(x)' \subseteq Recent(x)
    BY <2>1, <2>2 DEF Recent, InWindow
  <2>4. InWindow(issues[x])' \subseteq history'[x]
    BY <1>0, <2>1, <2>2 DEF RateHeld, Recent, InWindow
  <2>. QED
    BY <1>0, <2>3, <2>4, RateShrinks
<1>4. ASSUME NEW r \in Requests, NEW e \in Emails, NEW c \in Codes, StartIssued(r, e, c)
      PROVE  RateHeld(x)'
  <2>1. clock' = clock /\ Cardinality(Recent(e)) < PerWindowCap
    BY <1>4 DEF StartIssued
  <2>2. CASE x # e
    <3>1. history'[x] = history[x] /\ issues'[x] = issues[x]
      BY <1>0, <1>4, <2>2, StartMaps DEF Started
    <3>. QED
      BY <1>0, <2>1, <3>1 DEF RateHeld, Recent, InWindow
  <2>3. CASE x = e
    <3>1. /\ history'[e] = Recent(e) \cup {NewIssue}
          /\ issues'[e] = issues[e] \cup {NewIssue}
      BY <1>0, <1>4, StartMaps DEF Started
    <3>2. Recent(e) \subseteq history[e]
      BY DEF Recent, InWindow
    <3>3. IsFiniteSet(Recent(e)) /\ Cardinality(Recent(e)) \in Nat
      BY <1>0, <2>3, <3>2, WindowFinite DEF RateHeld
    <3>4. /\ IsFiniteSet(history'[e])
          /\ Cardinality(history'[e]) \in Nat
          /\ Cardinality(history'[e]) <= Cardinality(Recent(e)) + 1
      <4>1. LET S == Recent(e) \cup {NewIssue}
            IN  /\ IsFiniteSet(S)
                /\ Cardinality(S) = IF NewIssue \in Recent(e) THEN Cardinality(Recent(e))
                                                             ELSE Cardinality(Recent(e)) + 1
        BY <3>3, FS_AddElement
      <4>. QED
        BY <3>1, <3>3, <4>1
    <3>5. Recent(e)' \subseteq history'[e]
      BY DEF Recent, InWindow
    <3>6. Cardinality(Recent(e)') \in Nat /\ Cardinality(Recent(e)') <= Cardinality(history'[e])
      BY <3>4, <3>5, WindowFinite
    <3>7. Cardinality(Recent(e)') <= PerWindowCap
      BY <2>1, <3>3, <3>4, <3>6, CodeAssumption
    <3>8. InWindow(issues[e])' \subseteq history'[e]
      BY <1>0, <2>1, <2>3, <3>1 DEF RateHeld, Recent, InWindow
    <3>. QED
      BY <2>3, <3>4, <3>7, <3>8 DEF RateHeld
  <2>. QED
    BY <2>2, <2>3
<1>5. ASSUME NEW r \in Requests, SendOK(r) \/ SendFails(r) PROVE RateHeld(x)'
  BY <1>5, <1>a DEF SendOK, SendFails
<1>6. ASSUME NEW e \in Emails, NEW c \in Codes, VerifyOK(e, c) \/ VerifyFails(e, c)
      PROVE  RateHeld(x)'
  BY <1>6, <1>a DEF VerifyOK, VerifyFails
<1>7. CASE UNCHANGED vars
  BY <1>7, <1>a DEF vars
<1>. QED
  BY <1>1, <1>2, <1>3, <1>4, <1>5, <1>6, <1>7 DEF Next

LEMMA RateBounds == RateInv => IssueRate
<1>. SUFFICES ASSUME RateInv, NEW e \in Emails PROVE Cardinality(InWindow(issues[e])) <= PerWindowCap
  BY DEF IssueRate
<1>1. /\ IsFiniteSet(history[e])
      /\ InWindow(issues[e]) \subseteq Recent(e)
      /\ Recent(e) \subseteq history[e]
      /\ Cardinality(Recent(e)) <= PerWindowCap
  BY DEF RateInv, RateHeld, Recent, InWindow
<1>2. IsFiniteSet(Recent(e)) /\ Cardinality(Recent(e)) \in Nat
  BY <1>1, WindowFinite
<1>3. /\ Cardinality(InWindow(issues[e])) \in Nat
      /\ Cardinality(InWindow(issues[e])) <= Cardinality(Recent(e))
  BY <1>1, <1>2, WindowFinite
<1>. QED
  BY <1>1, <1>2, <1>3, CodeAssumption

(* No address is issued more codes than the cap within any window, however *)
(* many starts overlap: pruning forgets only what has left the window.     *)
THEOREM IssueRateHolds == Spec => []IssueRate
<1>1. Spec => []RateInv
  BY InitRate, NextRate, PTL DEF Spec
<1>. QED
  BY <1>1, RateBounds, PTL

-----------------------------------------------------------------------------
(* A mail that has arrived works.  Mails carry the numbers of their        *)
(* issues; the store holds the newest issue's code until it expires.       *)

Sent == mailed \cup {starts[r] : r \in DOMAIN starts}

Current(m) == Newest(m) /\ clock - m.at <= CodeTTL

Held(m) ==
  /\ m.email \in DOMAIN active
  /\ active[m.email].n = m.n
  /\ active[m.email].code = m.code
  /\ active[m.email].issuedAt = m.at

MailInv ==
  /\ TypeOK
  /\ \A e \in Emails : \A i \in issues[e] : i.n < serial
  /\ \A m \in Sent : m.n < serial /\ (Current(m) => Held(m))

LEMMA SentTyped == TypeOK => Sent \subseteq Mails
BY DEF TypeOK, Sent

LEMMA InitMail == Init => MailInv
<1>. SUFFICES ASSUME Init PROVE MailInv
  OBVIOUS
<1>1. Sent = {} /\ \A e \in Emails : issues[e] = {}
  BY DEF Init, Sent, EmptyMap
<1>. QED
  BY <1>1, InitTyped DEF MailInv

(* A step that sends nothing new and leaves the held codes alone.          *)
LEMMA MailKept ==
  ASSUME MailInv, TypeOK', Sent' \subseteq Sent, UNCHANGED <<issues, serial>>,
         \A m \in Sent : Current(m)' => Current(m),
         \A m \in Sent : Current(m)' /\ Held(m) => Held(m)'
  PROVE  MailInv'
<1>1. \A e \in Emails : \A i \in issues'[e] : i.n < serial'
  BY DEF MailInv
<1>2. \A m \in Sent' : m.n < serial' /\ (Current(m)' => Held(m)')
  BY DEF MailInv
<1>. QED
  BY <1>1, <1>2 DEF MailInv

LEMMA NextMail == MailInv /\ [Next]_vars => MailInv'
<1>. SUFFICES ASSUME MailInv, [Next]_vars PROVE MailInv'
  OBVIOUS
<1>0. TypeOK /\ TypeOK' /\ Sent \subseteq Mails /\ clock \in Nat
  BY NextTyped, SentTyped DEF MailInv, TypeOK
<1>a. ASSUME UNCHANGED <<clock, issues>>, NEW m PROVE Current(m)' = Current(m)
  BY <1>a DEF Current, Newest
<1>b. ASSUME UNCHANGED active, NEW m PROVE Held(m)' = Held(m)
  BY <1>b DEF Held
<1>c. ASSUME UNCHANGED <<clock, active, issues, serial>>, Sent' \subseteq Sent PROVE MailInv'
  BY <1>0, <1>a, <1>b, <1>c, MailKept
<1>1. CASE Tick
  <2>1. /\ clock' = clock + 1
        /\ UNCHANGED <<active, starts, mailed, issues, serial>>
    BY <1>1 DEF Tick
  <2>2. Sent' = Sent
    BY <2>1 DEF Sent
  <2>3. ASSUME NEW m \in Sent PROVE Current(m)' => Current(m)
    <3>1. m.at \in Nat
      BY <1>0 DEF Mails
    <3>2. clock' - m.at <= CodeTTL => clock - m.at <= CodeTTL
      BY <1>0, <2>1, <3>1, CodeAssumption
    <3>3. Newest(m)' = Newest(m)
      BY <2>1 DEF Newest
    <3>. QED
      BY <3>2, <3>3 DEF Current
  <2>. QED
    BY <1>0, <1>b, <2>1, <2>2, <2>3, MailKept
<1>2. CASE Restart
  <2>1. /\ \A e \in Emails : issues'[e] = {}
        /\ UNCHANGED <<mailed, serial>>
        /\ starts' = EmptyMap
    BY <1>2 DEF Restart
  <2>2. Sent' \subseteq Sent
    BY <2>1 DEF Sent, EmptyMap
  <2>3. \A m \in Sent' : ~Current(m)'
    BY <1>0, <2>1, <2>2 DEF Current, Newest, Mails
  <2>. QED
    BY <1>0, <2>1, <2>2, <2>3 DEF MailInv
<1>3. ASSUME NEW e \in Emails, StartRefused(e) PROVE MailInv'
  BY <1>3, <1>c DEF StartRefused, Sent
<1>4. ASSUME NEW r \in Requests, NEW e \in Emails, NEW c \in Codes, StartIssued(r, e, c)
      PROVE  MailInv'
  <2>0. Started(r, e, c)
    BY <1>0, <1>4, StartMaps
  <2>1. /\ serial' = serial + 1 /\ serial <= MaxIssues
        /\ UNCHANGED <<clock, mailed>>
    BY <1>4 DEF StartIssued
  <2>2. serial \in 1..MaxIssues /\ NewIssue \in Issues /\ NewMail(e, c) \in Mails
    BY <1>0, <2>1, NewTyped
  <2>3. Sent' = Sent \cup {NewMail(e, c)}
    BY <2>0, <2>1 DEF Sent, Started
  <2>4. \A x \in Emails : issues'[x] = IF x = e THEN issues[e] \cup {NewIssue} ELSE issues[x]
    BY <2>0 DEF Started
  <2>5. \A x \in Emails : \A i \in issues'[x] : i.n < serial'
    <3>1. \A x \in Emails : \A i \in issues[x] : i.n \in 1..MaxIssues /\ i.n < serial
      BY <1>0 DEF MailInv, TypeOK, Issues
    <3>2. NewIssue.n = serial
      BY DEF NewIssue
    <3>. QED
      BY <2>1, <2>2, <2>4, <3>1, <3>2
  <2>6. ASSUME NEW m, m = NewMail(e, c) PROVE m.n < serial' /\ Held(m)'
    <3>1. e \in DOMAIN active' /\ active'[e] = NewEntry(c)
      BY <2>0 DEF Started
    <3>. QED
      BY <2>1, <2>2, <2>6, <3>1, CodeAssumption DEF Held, NewMail, NewEntry
  <2>7. ASSUME NEW m \in Sent PROVE m.n < serial' /\ (Current(m)' => Held(m)')
    <3>1. m \in Mails /\ m.n < serial /\ (Current(m) => Held(m))
      BY <1>0 DEF MailInv
    <3>2. m.email \in Emails /\ m.n \in 1..MaxIssues /\ m.at \in Nat
      BY <3>1 DEF Mails
    <3>3. CASE m.email = e
      <4>1. NewIssue \in issues'[m.email] /\ NewIssue.n = serial
        BY <2>4, <3>3 DEF NewIssue
      <4>2. ~Newest(m)'
        BY <2>2, <3>1, <3>2, <4>1 DEF Newest
      <4>. QED
        BY <2>1, <2>2, <3>1, <3>2, <4>2 DEF Current
    <3>4. CASE m.email # e
      <4>1. Current(m)' = Current(m)
        BY <2>1, <2>4, <3>2, <3>4 DEF Current, Newest
      <4>2. Current(m) => m.email \in DOMAIN Swept
        BY <1>0, <3>1, <3>2, SweptFacts, CodeAssumption DEF Current, Held
      <4>3. m.email \in DOMAIN Swept =>
              m.email \in DOMAIN active' /\ active'[m.email] = active[m.email]
        BY <2>0, <3>4 DEF Started
      <4>. QED
        BY <2>1, <2>2, <3>1, <3>2, <4>1, <4>2, <4>3 DEF Held
    <3>. QED
      BY <3>3, <3>4
  <2>. QED
    BY <1>0, <2>3, <2>5, <2>6, <2>7 DEF MailInv
<1>5. ASSUME NEW r \in Requests, SendOK(r) \/ SendFails(r) PROVE MailInv'
  <2>1. /\ r \in DOMAIN starts
        /\ starts' = Delete(starts, r)
        /\ mailed' \in {mailed, mailed \cup {starts[r]}}
        /\ UNCHANGED <<clock, active, issues, serial>>
    BY <1>5 DEF SendOK, SendFails
  <2>2. Sent' \subseteq Sent
    <3>1. DOMAIN starts' = DOMAIN starts \ {r} /\ \A y \in DOMAIN starts \ {r} : starts'[y] = starts[y]
      BY <2>1 DEF Delete, Restrict
    <3>. QED
      BY <2>1, <3>1 DEF Sent
  <2>. QED
    BY <1>c, <2>1, <2>2
<1>6. ASSUME NEW e \in Emails, NEW c \in Codes, VerifyOK(e, c) PROVE MailInv'
  <2>1. /\ e \in DOMAIN active
        /\ active' = [active EXCEPT ![e].used = TRUE]
        /\ UNCHANGED <<clock, starts, mailed, issues, serial>>
    BY <1>6 DEF VerifyOK, Matches
  <2>2. Sent' = Sent
    BY <2>1 DEF Sent
  <2>3. /\ DOMAIN active' = DOMAIN active
        /\ \A x \in DOMAIN active :
             /\ active'[x].n = active[x].n
             /\ active'[x].code = active[x].code
             /\ active'[x].issuedAt = active[x].issuedAt
    BY <1>0, <2>1 DEF TypeOK, Entries
  <2>4. \A m \in Sent : Held(m)' = Held(m)
    BY <2>3 DEF Held
  <2>. QED
    BY <1>0, <1>a, <2>1, <2>2, <2>4, MailKept
<1>7. ASSUME NEW e \in Emails, NEW c \in Codes, VerifyFails(e, c) PROVE MailInv'
  <2>1. UNCHANGED <<clock, starts, mailed, issues, serial>>
    BY <1>7 DEF VerifyFails
  <2>2. Sent' = Sent
    BY <2>1 DEF Sent
  <2>3. ASSUME NEW m \in Sent, Current(m), Held(m) PROVE Held(m)'
    <3>1. active[m.email].issuedAt = m.at /\ clock - m.at <= CodeTTL /\ m.at \in Nat
      BY <1>0, <2>3 DEF Held, Current, Mails
    <3>2. ~Expired(m.email)
      BY <1>0, <3>1, CodeAssumption DEF Expired
    <3>3. CASE active' = active
      BY <2>3, <3>3 DEF Held
    <3>4. CASE active' = Delete(active, e) /\ Expired(e)
      <4>1. m.email # e
        BY <3>2, <3>4
      <4>2. /\ DOMAIN active' = DOMAIN active \ {e}
            /\ \A y \in DOMAIN active \ {e} : active'[y] = active[y]
        BY <3>4 DEF Delete, Restrict
      <4>. QED
        BY <2>3, <4>1, <4>2 DEF Held
    <3>. QED
      BY <1>7, <3>3, <3>4 DEF VerifyFails
  <2>. QED
    BY <1>0, <1>a, <2>1, <2>2, <2>3, MailKept
<1>8. CASE UNCHANGED vars
  BY <1>8, <1>c DEF vars, Sent
<1>. QED
  BY <1>1, <1>2, <1>3, <1>4, <1>5, <1>6, <1>7, <1>8 DEF Next

LEMMA MailHolds == MailInv => MailWorks
<1>. SUFFICES ASSUME MailInv, NEW m \in mailed, Newest(m), clock - m.at <= CodeTTL
     PROVE  /\ m.email \in DOMAIN active
            /\ active[m.email].n = m.n
            /\ active[m.email].used \/ Matches(m.email, m.code)
  BY DEF MailWorks
<1>1. m \in Sent /\ m.at \in Nat /\ clock \in Nat
  BY DEF MailInv, TypeOK, Sent, Mails
<1>2. Held(m)
  BY <1>1 DEF MailInv, Current
<1>3. ~Expired(m.email)
  BY <1>1, <1>2, CodeAssumption DEF Held, Expired
<1>. QED
  BY <1>2, <1>3 DEF Held, Matches

(* The code of the newest mail works until it expires or is used, whatever *)
(* starts, guesses and sweeps for this and other addresses come between.   *)
THEOREM MailsWork == Spec => []MailWorks
<1>1. Spec => []MailInv
  BY InitMail, NextMail, PTL DEF Spec
<1>. QED
  BY <1>1, MailHolds, PTL

-----------------------------------------------------------------------------
(* EmailCodes implements OneTimeCodes. *)

LEMMA IdealMaps ==
  /\ Ideal!EmptyMap = EmptyMap
  /\ \A f, k, v : Ideal!Put(f, k, v) = Put(f, k, v)
  /\ \A f, k : Ideal!Delete(f, k) = Delete(f, k)
  /\ \A f, D : Ideal!Restrict(f, D) = Restrict(f, D)
BY DEF Ideal!EmptyMap, EmptyMap, Ideal!Put, Put, Ideal!Delete, Delete, Ideal!Restrict, Restrict

(* An address is in force ... *)
Usable(e) ==
  /\ e \in DOMAIN active
  /\ ~active[e].used
  /\ clock - active[e].issuedAt <= CodeTTL

(* ... with this code. *)
Shown(e) == [code |-> active[e].code, issuedAt |-> active[e].issuedAt]

LEMMA InForceIs ==
  /\ DOMAIN InForce = {e \in DOMAIN active : Usable(e)}
  /\ \A e \in DOMAIN active : Usable(e) => InForce[e] = Shown(e)
  /\ InForce = [e \in {x \in DOMAIN active : Usable(x)} |-> Shown(e)]
BY DEF InForce, Usable, Shown

LEMMA InForceNext == InForce' = [e \in {x \in DOMAIN active' : Usable(x)'} |-> Shown(e)']
BY DEF InForce, Usable, Shown

(* A step that changes no usable code. *)
LEMMA InForceSame ==
  ASSUME {e \in DOMAIN active' : Usable(e)'} = {e \in DOMAIN active : Usable(e)},
         \A e \in DOMAIN active : Usable(e) => active'[e] = active[e]
  PROVE  InForce' = InForce
<1>1. InForce' = [e \in {x \in DOMAIN active' : Usable(x)'} |-> Shown(e)']
  BY InForceNext
<1>2. InForce = [e \in {x \in DOMAIN active : Usable(x)} |-> Shown(e)]
  BY InForceIs
<1>3. \A e \in DOMAIN active : Usable(e) => Shown(e)' = Shown(e)
  BY DEF Shown
<1>. QED
  BY <1>1, <1>2, <1>3

LEMMA InitIdeal == Init => Ideal!CodesInit
<1>. SUFFICES ASSUME Init PROVE Ideal!CodesInit
  OBVIOUS
<1>1. {e \in DOMAIN active : Usable(e)} = {}
  BY DEF Init, EmptyMap
<1>2. InForce = EmptyMap
  BY <1>1, InForceIs DEF EmptyMap
<1>. QED
  BY <1>2, IdealMaps DEF Init, Ideal!CodesInit

LEMMA TickIdeal ==
  ASSUME TypeOK, Tick
  PROVE  Ideal!Elapse
<1>1. /\ clock \in Nat /\ clock' = clock + 1
      /\ UNCHANGED <<active, minted>>
  BY DEF Tick, TypeOK
<1>2. \A e \in DOMAIN active : active[e].issuedAt \in Nat
  BY DEF TypeOK, Entries
<1>3. \A e \in DOMAIN active :
        Usable(e)' <=> Usable(e) /\ clock' - active[e].issuedAt <= CodeTTL
  BY <1>1, <1>2, CodeAssumption DEF Usable
<1>4. InForce' = [e \in {x \in DOMAIN active' : Usable(x)'} |-> Shown(e)']
  BY InForceNext
<1>5. \A e : Shown(e)' = Shown(e)
  BY <1>1 DEF Shown
<1>6. {x \in DOMAIN active' : Usable(x)'}
        = {e \in DOMAIN InForce : clock' - InForce[e].issuedAt <= CodeTTL}
  BY <1>1, <1>3, InForceIs DEF Shown
<1>7. InForce' = Restrict(InForce, {e \in DOMAIN InForce : clock' - InForce[e].issuedAt <= CodeTTL})
  BY <1>4, <1>5, <1>6, InForceIs DEF Restrict
<1>. QED
  BY <1>1, <1>7, IdealMaps DEF Ideal!Elapse

LEMMA RestartIdeal ==
  ASSUME Restart
  PROVE  Ideal!Forget
<1>1. {e \in DOMAIN active' : Usable(e)'} = {}
  BY DEF Restart, EmptyMap
<1>2. InForce' = [e \in {x \in DOMAIN active' : Usable(x)'} |-> Shown(e)']
  BY InForceNext
<1>3. InForce' = EmptyMap
  BY <1>1, <1>2 DEF EmptyMap
<1>. QED
  BY <1>3, IdealMaps DEF Restart, Ideal!Forget

LEMMA StartIdeal ==
  ASSUME TypeOK, NEW r \in Requests, NEW e \in Emails, NEW c \in Codes, StartIssued(r, e, c)
  PROVE  Ideal!NewCode(e, c)
<1>1. Started(r, e, c)
  BY StartMaps
<1>2. UNCHANGED <<clock, minted>> /\ clock \in Nat
  BY DEF StartIssued, TypeOK
<1>3. Usable(e)' /\ Shown(e)' = [code |-> c, issuedAt |-> clock]
  BY <1>1, <1>2, CodeAssumption DEF Started, Usable, Shown, NewEntry
<1>4. ASSUME NEW x, x # e
      PROVE  /\ x \in DOMAIN active' /\ Usable(x)' <=> x \in DOMAIN active /\ Usable(x)
             /\ x \in DOMAIN active /\ Usable(x) => Shown(x)' = Shown(x)
  <2>1. x \in DOMAIN active => active[x].issuedAt \in Nat
    BY DEF TypeOK, Entries
  <2>2. x \in DOMAIN active /\ Usable(x) => x \in DOMAIN Swept
    BY <1>2, <2>1, SweptFacts, CodeAssumption DEF Usable
  <2>3. x \in DOMAIN active' <=> x \in DOMAIN Swept
    BY <1>1, <1>4 DEF Started
  <2>4. x \in DOMAIN Swept => x \in DOMAIN active /\ active'[x] = active[x]
    BY <1>1, <1>4, SweptFacts DEF Started
  <2>. QED
    BY <1>2, <2>2, <2>3, <2>4 DEF Usable, Shown
<1>5. InForce' = [x \in {y \in DOMAIN active' : Usable(y)'} |-> Shown(x)']
  BY InForceNext
<1>6. {y \in DOMAIN active' : Usable(y)'} = {y \in DOMAIN active : Usable(y)} \cup {e}
  BY <1>3, <1>4 DEF Usable
<1>7. \A x \in {y \in DOMAIN active : Usable(y)} \cup {e} :
        Shown(x)' = IF x = e THEN [code |-> c, issuedAt |-> clock] ELSE InForce[x]
  BY <1>3, <1>4, InForceIs
<1>8. InForce' = Put(InForce, e, [code |-> c, issuedAt |-> clock])
  BY <1>5, <1>6, <1>7, InForceIs DEF Put
<1>. QED
  BY <1>2, <1>8, IdealMaps DEF Ideal!NewCode

LEMMA VerifyIdeal ==
  ASSUME TypeOK, NEW e \in Emails, NEW c \in Codes, VerifyOK(e, c)
  PROVE  Ideal!Redeem(e)
<1>1. /\ e \in DOMAIN active /\ ~active[e].used /\ ~Expired(e)
      /\ active' = [active EXCEPT ![e].used = TRUE]
      /\ minted' = [minted EXCEPT ![e] = @ + 1]
      /\ clock' = clock
  BY DEF VerifyOK, Matches
<1>2. clock \in Nat /\ active[e].issuedAt \in Nat
  BY <1>1 DEF TypeOK, Entries
<1>3. e \in DOMAIN InForce
  BY <1>1, <1>2, InForceIs, CodeAssumption DEF Usable, Expired
<1>4. /\ DOMAIN active' = DOMAIN active
      /\ active'[e].used
      /\ \A x \in DOMAIN active : x # e => active'[x] = active[x]
  BY <1>1 DEF TypeOK, Entries
<1>5. {x \in DOMAIN active' : Usable(x)'} = {x \in DOMAIN active : Usable(x)} \ {e}
  BY <1>1, <1>4 DEF Usable
<1>6. InForce' = [x \in {y \in DOMAIN active' : Usable(y)'} |-> Shown(x)']
  BY InForceNext
<1>7. \A x \in {y \in DOMAIN active : Usable(y)} \ {e} : Shown(x)' = InForce[x]
  BY <1>4, InForceIs DEF Shown
<1>8. InForce' = Delete(InForce, e)
  BY <1>5, <1>6, <1>7, InForceIs DEF Delete, Restrict
<1>. QED
  BY <1>1, <1>3, <1>8, IdealMaps DEF Ideal!Redeem

LEMMA VerifyFailsIdeal ==
  ASSUME TypeOK, NEW e \in Emails, NEW c \in Codes, VerifyFails(e, c)
  PROVE  UNCHANGED Ideal!codeVars
<1>1. UNCHANGED <<clock, minted>> /\ clock \in Nat
  BY DEF VerifyFails, TypeOK
<1>2. CASE active' = active
  BY <1>1, <1>2, InForceSame DEF Usable, Ideal!codeVars
<1>3. CASE active' = Delete(active, e) /\ e \in DOMAIN active /\ Expired(e)
  <2>1. /\ DOMAIN active' = DOMAIN active \ {e}
        /\ \A x \in DOMAIN active \ {e} : active'[x] = active[x]
    BY <1>3 DEF Delete, Restrict
  <2>2. active[e].issuedAt \in Nat
    BY <1>3 DEF TypeOK, Entries
  <2>3. ~Usable(e)
    BY <1>1, <1>3, <2>2, CodeAssumption DEF Usable, Expired
  <2>4. {x \in DOMAIN active' : Usable(x)'} = {x \in DOMAIN active : Usable(x)}
    BY <1>1, <2>1, <2>3 DEF Usable
  <2>5. \A x \in DOMAIN active : Usable(x) => active'[x] = active[x]
    BY <2>1, <2>3
  <2>. QED
    BY <1>1, <2>4, <2>5, InForceSame DEF Ideal!codeVars
<1>. QED
  BY <1>2, <1>3 DEF VerifyFails

LEMMA NextIdeal == TypeOK /\ [Next]_vars => [Ideal!CodesNext]_Ideal!codeVars
<1>. SUFFICES ASSUME TypeOK, [Next]_vars PROVE Ideal!CodesNext \/ UNCHANGED Ideal!codeVars
  OBVIOUS
<1>a. ASSUME UNCHANGED <<clock, active, minted>> PROVE UNCHANGED Ideal!codeVars
  BY <1>a, InForceSame DEF Usable, Ideal!codeVars
<1>1. CASE Tick
  BY <1>1, TickIdeal DEF Ideal!CodesNext
<1>2. CASE Restart
  BY <1>2, RestartIdeal DEF Ideal!CodesNext
<1>3. ASSUME NEW e \in Emails, StartRefused(e) PROVE UNCHANGED Ideal!codeVars
  BY <1>3, <1>a DEF StartRefused
<1>4. ASSUME NEW r \in Requests, NEW e \in Emails, NEW c \in Codes, StartIssued(r, e, c)
      PROVE  Ideal!CodesNext
  BY <1>4, StartIdeal DEF Ideal!CodesNext
<1>5. ASSUME NEW r \in Requests, SendOK(r) \/ SendFails(r) PROVE UNCHANGED Ideal!codeVars
  BY <1>5, <1>a DEF SendOK, SendFails
<1>6. ASSUME NEW e \in Emails, NEW c \in Codes, VerifyOK(e, c) PROVE Ideal!CodesNext
  BY <1>6, VerifyIdeal DEF Ideal!CodesNext
<1>7. ASSUME NEW e \in Emails, NEW c \in Codes, VerifyFails(e, c)
      PROVE  UNCHANGED Ideal!codeVars
  BY <1>7, VerifyFailsIdeal
<1>8. CASE UNCHANGED vars
  BY <1>8, <1>a DEF vars
<1>. QED
  BY <1>1, <1>2, <1>3, <1>4, <1>5, <1>6, <1>7, <1>8 DEF Next

(* A code signs in once and within its lifetime, and only the newest of an *)
(* address does: the lazy deletions, the sweep and the used entries that   *)
(* stay behind cannot be seen.                                             *)
THEOREM IsOneTimeCodes == Spec => ImplementsOneTimeCodes
<1>1. Spec => []TypeOK
  BY TypeCorrect
<1>. QED
  BY <1>1, InitIdeal, NextIdeal, PTL DEF Spec, ImplementsOneTimeCodes

-----------------------------------------------------------------------------
(* The tokens. *)

(* Whatever a token's claims, the issuer decides which verifier it is for. *)
LEMMA IssuerDecides ==
  ASSUME NEW t, NEW relay, NEW n
  PROVE  /\ t.iss = Issuer => Identity(relay, t, n) \in {EmailUser(t.claims["sub"]), Nobody}
         /\ t.iss # Issuer => Identity(relay, t, n) \in {SSOUser(t.claims[relay.sso.userID]), Nobody}
BY DEF Identity, EmailVerify, SSOVerify, Validate

LEMMA HostOneIdentity == HostIdentity
<1>. SUFFICES ASSUME NEW t \in HostTokens, NEW relay \in Relays, NEW n \in 0..MaxClock,
                     NEW m \in 0..MaxClock,
                     Identity(relay, t, n) # Nobody, Identity(relay, t, m) # Nobody
              PROVE  Identity(relay, t, n) = Identity(relay, t, m)
  BY DEF HostIdentity
<1>. QED
  BY IssuerDecides

(* The tokens in circulation were minted, and the clock is a time. *)
TokensMinted ==
  /\ clock \in Nat
  /\ \A t \in tokens : \E e \in Emails, n \in Nat : t = Mint(e, n)

LEMMA MintedOneIdentity == TokensMinted => MintedIdentity
<1>. SUFFICES ASSUME clock \in Nat, NEW t \in tokens, NEW relay \in Relays, NEW e \in Emails,
                     NEW n \in Nat, t = Mint(e, n)
              PROVE  Identity(relay, t, clock) =
                       IF relay.email /\ \A x \in t.exp : clock < x
                       THEN EmailUser(t.claims["sub"])
                       ELSE Nobody
  BY DEF TokensMinted, MintedIdentity
<1>1. /\ t.alg = "HS256" /\ t.key = EmailKey /\ t.iss = Issuer
      /\ t.exp = {n + TokenTTL} /\ t.nbf = {} /\ DOMAIN t.claims = {"sub"}
  BY DEF Mint
<1>2. EmailVerify(t, clock) <=> \A x \in t.exp : clock < x
  BY <1>1, BearerAssumption DEF EmailVerify, Timely
<1>3. ~SSOVerify(relay.sso, t, clock)
  BY <1>1 DEF SSOVerify, Validate
<1>. QED
  BY <1>2, <1>3 DEF Identity

LEMMA TokensMintedStep == TypeOK /\ TokensMinted /\ [SignInNext]_signInVars => TokensMinted'
<1>. SUFFICES ASSUME TypeOK, TokensMinted, [SignInNext]_signInVars PROVE TokensMinted'
  OBVIOUS
<1>1. clock' \in Nat
  <2>1. clock' = clock \/ clock' = clock + 1
    BY DEF SignInNext, Next, Tick, Restart, StartRefused, StartIssued, VerifyOK, VerifyFails,
           SendOK, SendFails, signInVars, vars
  <2>. QED
    BY <2>1 DEF TokensMinted
<1>2. tokens' = tokens \/ tokens' = tokens \cup Minted
  BY DEF SignInNext, signInVars
<1>3. \A t \in Minted : \E e \in Emails, n \in Nat : t = Mint(e, n)
  BY DEF Minted, TokensMinted
<1>. QED
  BY <1>1, <1>2, <1>3 DEF TokensMinted

LEMMA SignInIsEmailCodes == SignInSpec => Spec
<1>1. SignInInit => Init
  BY DEF SignInInit
<1>2. [SignInNext]_signInVars => [Next]_vars
  BY DEF SignInNext, signInVars
<1>. QED
  BY <1>1, <1>2, PTL DEF SignInSpec, Spec

(* A token of the relay is its address until it expires and nobody after,  *)
(* a token of the host is never two people: for any secrets, lifetimes,    *)
(* leeways and configurations, those that share the secret or the issuer   *)
(* of email mode with SSO included.                                        *)
THEOREM IdentityHolds == SignInSpec => []OneIdentity
<1>1. SignInInit => TokensMinted
  BY DEF SignInInit, Init, TokensMinted
<1>2. Spec => []TypeOK
  BY TypeCorrect
<1>3. TokensMinted => OneIdentity
  BY HostOneIdentity, MintedOneIdentity DEF OneIdentity
<1>. QED
  BY <1>1, <1>2, <1>3, TokensMintedStep, SignInIsEmailCodes, PTL DEF SignInSpec

=============================================================================
