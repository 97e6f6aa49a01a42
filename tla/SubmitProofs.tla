---------------------------- MODULE SubmitProofs ----------------------------
(***************************************************************************)
(* Theorems about Submit, for any submissions, attachments, rules, limits  *)
(* and number of attempts.                                                 *)
(***************************************************************************)
EXTENDS Submit, WellFoundedInduction, TLAPS

-----------------------------------------------------------------------------
(* What Route and ValidateAll return *)

LEMMA Least ==
  ASSUME NEW S \in SUBSET Nat, S # {}
  PROVE  \E i \in S : \A j \in S : i <= j
<1>. DEFINE less == {z \in Nat \X Nat : z[1] < z[2]}
<1>1. \A i, j \in Nat : <<i, j>> \in less <=> i < j
  OBVIOUS
<1>2. IsWellFoundedOn(less, Nat)
  BY NatLessThanWellFounded, Zenon DEF OpToRel
<1>. HIDE DEF less
<1>3. PICK i \in S : \A j \in S : ~(<<j, i>> \in less)
  BY <1>2, WFMin
<1>4. ASSUME NEW j \in S PROVE i <= j
  <2>1. ~(j < i)
    BY <1>1, <1>3
  <2>. QED
    BY <2>1
<1>. QED
  BY <1>4

LEMMA RouteRegistered ==
  ASSUME NEW x \in Payloads
  PROVE  Route(Registry, Rules, Default, x) \in Registry
<1>. DEFINE hits == Hits(Registry, Rules, x)
            first == CHOOSE i \in hits : \A j \in hits : i <= j
<1>1. hits \subseteq Nat /\ \A i \in hits : Rules[i].to \in Registry
  BY SubmitAssumption DEF Hits, Kept
<1>2. hits # {} => first \in hits
  <2>. HIDE DEF hits
  <2>. QED
    BY <1>1, Least
<1>. QED
  BY <1>1, <1>2, SubmitAssumption DEF Route, NewOK

(* Whatever the order of ValidateAll's tests, "ok" means all of them.      *)
THEOREM ValidateAllSuffices ==
  ASSUME NEW atts \in Seq(AttachmentType), ValidateAll(atts) = "ok"
  PROVE  Acceptable(atts)
<1>. DEFINE refused == {i \in DOMAIN atts : Verdict(atts, i) # "ok"}
            first == CHOOSE i \in refused : \A j \in refused : i <= j
<1>1. refused \subseteq Nat /\ \A i \in refused : Verdict(atts, i) # "ok"
  OBVIOUS
<1>2. refused # {} => first \in refused
  <2>. HIDE DEF refused
  <2>. QED
    BY <1>1, Least
<1>3. refused = {}
  BY <1>1, <1>2 DEF ValidateAll
<1>4. \A i \in DOMAIN atts : Verdict(atts, i) = "ok"
  BY <1>3
<1>5. ASSUME NEW i \in DOMAIN atts
      PROVE  /\ atts[i].type = "screenshot" /\ atts[i].mime \in PublishedMIMETypes
             /\ Decodes(atts[i]) /\ Within(MaxSizeBytes, atts[i].size)
             /\ Within(MaxTotalBytes, Total(atts, i)) /\ atts[i].sniffed = atts[i].mime
  BY <1>4 DEF Verdict
<1>6. atts # <<>> => Len(atts) \in DOMAIN atts
  OBVIOUS
<1>. QED
  BY <1>5, <1>6 DEF Acceptable, PublishedMIMETypes

-----------------------------------------------------------------------------
(* The inductive invariant                                                 *)
(*                                                                         *)
(* Once its adapter is chosen, all the calls of a submission are           *)
(* determined: call k can only be CallAt(r, s, k), whoever asks and when.  *)

KindAt(s, k) ==
  IF UploadsFirst(s) THEN IF k <= Len(s.req.atts) THEN "upload" ELSE "ticket"
  ELSE IF s.adapter = "chatwoot" THEN <<"contact", "conversation", "message">>[k]
  ELSE "ticket"

(* The refs with which step k is taken *)
RefsAt(s, k) ==
  IF ~UploadsFirst(s) THEN {}
  ELSE IF s.adapter = "linear" THEN 1..(k - 1)
  ELSE IF k = 1 THEN {} ELSE {1}

CallAt(r, s, k) ==
  [id |-> r, kind |-> KindAt(s, k), n |-> k,
   part |-> IF s.adapter = "webhook" THEN 1 ELSE k,
   refs |-> IF KindAt(s, k) = "upload" /\ s.adapter = "linear" THEN {} ELSE RefsAt(s, k)]

(* Before Dispatch nothing has happened. *)
Early(s) ==
  s.pc \in {"idle", "classify", "reclassify", "build"} =>
    /\ s.n = 0 /\ s.step = 1 /\ s.attempt = 1 /\ s.refs = {}
    /\ s.reply = "waiting" /\ s.answer = 0

(* Where Create is after its calls: the webhook adapter's calls are        *)
(* attempts, the others' are steps, and the steps that are behind it have  *)
(* been carried out.                                                       *)
Created(r, s, done) ==
  s.n > 0 =>
    /\ s.adapter \in Registry /\ Acceptable(s.req.atts)
    /\ s.answer \in {0, 200, 502}
    /\ s.step <= Steps(s) /\ s.refs = RefsAt(s, s.step)
    /\ IF s.adapter = "webhook" THEN s.n <= s.attempt /\ s.attempt <= MaxAttempts
       ELSE s.n <= s.step
    /\ \A j \in 1..(s.step - 1) : j <= s.n /\ CallAt(r, s, j) \in done
    /\ s.reply \in {"ok", "odd"} => CallAt(r, s, s.n) \in done

Waiting(s) ==
  /\ s.pc \in {"await", "backoff"} => s.n > 0 /\ s.answer = 0
  /\ s.pc = "await" => s.n = IF s.adapter = "webhook" THEN s.attempt ELSE s.step
  /\ s.pc = "backoff" =>
       s.adapter = "webhook" /\ s.n = s.attempt /\ s.attempt < MaxAttempts

Over(s) ==
  /\ s.answer = 200 =>
       /\ s.n > 0 /\ s.step = Steps(s) /\ Satisfies(s, s.reply)
       /\ s.adapter # "webhook" => s.n = s.step
  /\ s.answer = 502 => s.gone \/ s.reply \in Replies \ {"ok"}

Sound(r, s, done) == Early(s) /\ Created(r, s, done) /\ Waiting(s) /\ Over(s)

Numbered ==
  /\ \A c \in wire \cup desk : c.n <= sub[c.id].n /\ c = CallAt(c.id, sub[c.id], c.n)
  /\ wire \cap desk = {}

(* A refused contact is that of another submission. *)
Elsewhere ==
  \A r \in Submissions : sub[r].reply = "422" =>
    \E c \in desk : c.kind = "contact" /\ c.id # r /\ sub[c.id].req.email = sub[r].req.email

IInv ==
  /\ TypeOK
  /\ \A r \in Submissions : Sound(r, sub[r], desk)
  /\ Numbered
  /\ Elsewhere

-----------------------------------------------------------------------------
(* Calls *)

LEMMA StepsTyped ==
  ASSUME NEW s \in SubmissionType
  PROVE  /\ Steps(s) \in Nat \ {0}
         /\ s.req.atts \in Seq(AttachmentType) /\ Len(s.req.atts) \in Nat
         /\ UploadsFirst(s) => Steps(s) = Len(s.req.atts) + 1
         /\ s.adapter = "chatwoot" => Steps(s) = IF s.req.atts = <<>> THEN 2 ELSE 3
         /\ s.adapter \in {"webhook", "fider"} => Steps(s) = 1
BY DEF SubmissionType, RequestType, Steps, UploadsFirst

LEMMA SameCalls ==
  ASSUME NEW r, NEW s, NEW t, s.req = t.req, s.adapter = t.adapter, NEW k
  PROVE  /\ CallAt(r, s, k) = CallAt(r, t, k)
         /\ KindAt(s, k) = KindAt(t, k) /\ RefsAt(s, k) = RefsAt(t, k)
         /\ Steps(s) = Steps(t) /\ (UploadsFirst(s) <=> UploadsFirst(t))
BY DEF CallAt, KindAt, RefsAt, Steps, UploadsFirst

LEMMA CallTyped ==
  ASSUME NEW r \in Submissions, NEW s \in SubmissionType, NEW k \in Nat \ {0},
         s.adapter = "chatwoot" => k <= 3
  PROVE  /\ CallAt(r, s, k) \in CallType
         /\ CallAt(r, s, k).id = r /\ CallAt(r, s, k).n = k
         /\ CallAt(r, s, k).kind = KindAt(s, k)
<1>1. KindAt(s, k) \in Kinds
  <2>1. s.adapter = "chatwoot" => k \in {1, 2, 3}
    OBVIOUS
  <2>. QED
    BY <2>1 DEF KindAt, Kinds
<1>2. RefsAt(s, k) \in SUBSET Nat
  BY DEF RefsAt
<1>. QED
  BY <1>1, <1>2 DEF CallAt, CallType

(* What Create sends at a step is the call of that step. *)
LEMMA CallIs ==
  ASSUME NEW r \in Submissions, NEW s \in SubmissionType, s.n \in Nat \ {0},
         s.refs = RefsAt(s, s.step), s.step <= Steps(s),
         s.adapter # "webhook" => s.n = s.step
  PROVE  Call(r, s) = CallAt(r, s, s.n)
<1>1. s.step \in Nat \ {0} /\ (s.adapter = "webhook" => s.step = 1)
  BY StepsTyped DEF SubmissionType
<1>2. Kind(s) = KindAt(s, s.n)
  BY <1>1 DEF Kind, KindAt, UploadsFirst
<1>3. RefsAt(s, s.step) = RefsAt(s, s.n)
  BY <1>1 DEF RefsAt, UploadsFirst
<1>4. s.step = IF s.adapter = "webhook" THEN 1 ELSE s.n
  BY <1>1
<1>5. s.refs = RefsAt(s, s.n)
  BY <1>3
<1>. QED
  BY <1>2, <1>4, <1>5, Zenon DEF Call, CallAt

-----------------------------------------------------------------------------
(* Records *)

LEMMA SubTyped ==
  ASSUME TypeOK, NEW r \in Submissions
  PROVE  sub[r] \in SubmissionType
BY DEF TypeOK

(* The fields a step does not name stay. *)
SameCreate(x, s) ==
  /\ x.req = s.req /\ x.adapter = s.adapter /\ x.step = s.step /\ x.attempt = s.attempt
  /\ x.n = s.n /\ x.refs = s.refs

LEMMA PcTyped ==
  ASSUME NEW s \in SubmissionType, NEW pc \in PCs PROVE [s EXCEPT !.pc = pc] \in SubmissionType
BY DEF SubmissionType

LEMMA AnswerTyped ==
  ASSUME NEW s \in SubmissionType, NEW a \in Answers
  PROVE  [s EXCEPT !.answer = a] \in SubmissionType
BY DEF SubmissionType

LEMMA ClassTyped ==
  ASSUME NEW s \in SubmissionType, NEW c \in Classes PROVE [s EXCEPT !.class = c] \in SubmissionType
BY DEF SubmissionType

LEMMA SeverityTyped ==
  ASSUME NEW s \in SubmissionType, NEW v \in Severities
  PROVE  [s EXCEPT !.severity = v] \in SubmissionType
BY DEF SubmissionType

LEMMA ReplyTyped ==
  ASSUME NEW s \in SubmissionType, NEW reply \in Replies \cup {"waiting"}
  PROVE  [s EXCEPT !.reply = reply] \in SubmissionType
BY DEF SubmissionType

LEMMA NTyped ==
  ASSUME NEW s \in SubmissionType, NEW n \in Nat PROVE [s EXCEPT !.n = n] \in SubmissionType
BY DEF SubmissionType

LEMMA GoneTyped ==
  ASSUME NEW s \in SubmissionType, NEW g \in BOOLEAN PROVE [s EXCEPT !.gone = g] \in SubmissionType
BY DEF SubmissionType

LEMMA RefsTyped ==
  ASSUME NEW s \in SubmissionType, NEW refs \in SUBSET Nat
  PROVE  [s EXCEPT !.refs = refs] \in SubmissionType
BY DEF SubmissionType

LEMMA GotoIs ==
  ASSUME NEW s \in SubmissionType, NEW pc \in PCs
  PROVE  LET x == [s EXCEPT !.pc = pc]
         IN  /\ x \in SubmissionType /\ x.pc = pc
             /\ SameCreate(x, s) /\ x.reply = s.reply /\ x.gone = s.gone /\ x.answer = s.answer
BY DEF SubmissionType, SameCreate

LEMMA AnsweredIs ==
  ASSUME NEW s \in SubmissionType, NEW a \in Answers
  PROVE  LET x == Answered(s, a)
         IN  /\ x \in SubmissionType /\ x.pc = "done" /\ x.answer = a
             /\ SameCreate(x, s) /\ x.reply = s.reply /\ x.gone = s.gone
<1>. DEFINE y == [s EXCEPT !.pc = "done"]
<1>1. y \in SubmissionType
  <2>1. "done" \in PCs
    BY DEF PCs
  <2>. QED
    BY <2>1, PcTyped
<1>2. Answered(s, a) = [y EXCEPT !.answer = a]
  BY DEF Answered
<1>3. [y EXCEPT !.answer = a] \in SubmissionType
  <2>. HIDE DEF y
  <2>. QED
    BY <1>1, AnswerTyped
<1>4. Answered(s, a) \in SubmissionType
  <2>. HIDE DEF y
  <2>. QED
    BY <1>2, <1>3
<1>. QED
  BY <1>4 DEF SubmissionType, SameCreate, Answered

Chosen(s, c, v) == [s EXCEPT !.pc = "build", !.class = c, !.severity = v]

LEMMA ClassifiedIs ==
  ASSUME NEW s \in SubmissionType, NEW c \in Classes, NEW v \in Severities
  PROVE  LET x == Chosen(s, c, v)
         IN  /\ x \in SubmissionType /\ x.pc = "build"
             /\ SameCreate(x, s) /\ x.reply = s.reply /\ x.gone = s.gone /\ x.answer = s.answer
<1>. DEFINE y == [s EXCEPT !.pc = "build"]
            z == [y EXCEPT !.class = c]
            x == Chosen(s, c, v)
<1>1. y \in SubmissionType
  <2>1. "build" \in PCs
    BY DEF PCs
  <2>. QED
    BY <2>1, PcTyped
<1>2. x = [z EXCEPT !.severity = v]
  BY DEF Chosen
<1>3. z \in SubmissionType
  <2>. HIDE DEF y
  <2>. QED
    BY <1>1, ClassTyped
<1>4. x \in SubmissionType
  <2>. HIDE DEF z, x
  <2>. QED
    BY <1>2, <1>3, SeverityTyped
<1>. QED
  BY <1>4 DEF SubmissionType, SameCreate, Chosen

LEMMA ReplyIs ==
  ASSUME NEW s \in SubmissionType, NEW reply \in Replies
  PROVE  LET x == [s EXCEPT !.reply = reply]
         IN  /\ x \in SubmissionType /\ x.pc = s.pc /\ x.reply = reply
             /\ SameCreate(x, s) /\ x.gone = s.gone /\ x.answer = s.answer
BY DEF SubmissionType, SameCreate

LEMMA GoneIs ==
  ASSUME NEW s \in SubmissionType
  PROVE  LET x == [s EXCEPT !.gone = TRUE]
         IN  /\ x \in SubmissionType /\ x.pc = s.pc /\ x.gone
             /\ SameCreate(x, s) /\ x.reply = s.reply /\ x.answer = s.answer
<1>1. [s EXCEPT !.gone = TRUE] \in SubmissionType
  BY GoneTyped
<1>. QED
  BY <1>1 DEF SubmissionType, SameCreate

LEMMA SentIs ==
  ASSUME NEW s \in SubmissionType
  PROVE  LET x == [s EXCEPT !.pc = "await", !.reply = "waiting", !.n = @ + 1]
         IN  /\ x \in SubmissionType /\ x.pc = "await" /\ x.reply = "waiting" /\ x.n = s.n + 1
             /\ x.req = s.req /\ x.adapter = s.adapter /\ x.step = s.step
             /\ x.attempt = s.attempt /\ x.refs = s.refs
             /\ x.gone = s.gone /\ x.answer = s.answer
<1>. DEFINE y == [s EXCEPT !.pc = "await"]
            z == [y EXCEPT !.reply = "waiting"]
            x == [s EXCEPT !.pc = "await", !.reply = "waiting", !.n = @ + 1]
<1>1. y \in SubmissionType
  <2>1. "await" \in PCs
    BY DEF PCs
  <2>. QED
    BY <2>1, PcTyped
<1>2. x = [z EXCEPT !.n = s.n + 1] /\ s.n + 1 \in Nat
  BY DEF SubmissionType
<1>3. z \in SubmissionType
  <2>. HIDE DEF y
  <2>. QED
    BY <1>1, ReplyTyped
<1>4. x \in SubmissionType
  <2>. HIDE DEF z, x
  <2>. QED
    BY <1>2, <1>3, NTyped
<1>. QED
  BY <1>4 DEF SubmissionType

LEMMA RoutedIs ==
  ASSUME NEW s \in SubmissionType, NEW to \in Adapters
  PROVE  LET x == [s EXCEPT !.adapter = to]
         IN  /\ x \in SubmissionType /\ x.adapter = to
             /\ x.pc = s.pc /\ x.req = s.req /\ x.step = s.step /\ x.attempt = s.attempt
             /\ x.n = s.n /\ x.refs = s.refs /\ x.reply = s.reply /\ x.gone = s.gone
             /\ x.answer = s.answer
BY DEF SubmissionType

LEMMA NextStepIs ==
  ASSUME NEW s \in SubmissionType, NEW refs \in SUBSET Nat
  PROVE  LET x == [s EXCEPT !.step = @ + 1, !.refs = refs]
         IN  /\ x \in SubmissionType /\ x.step = s.step + 1 /\ x.refs = refs
             /\ x.pc = s.pc /\ x.req = s.req /\ x.adapter = s.adapter /\ x.attempt = s.attempt
             /\ x.n = s.n /\ x.reply = s.reply /\ x.gone = s.gone /\ x.answer = s.answer
<1>. DEFINE y == [s EXCEPT !.step = @ + 1]
            x == [s EXCEPT !.step = @ + 1, !.refs = refs]
<1>1. y \in SubmissionType
  BY DEF SubmissionType
<1>2. x = [y EXCEPT !.refs = refs]
  OBVIOUS
<1>3. [y EXCEPT !.refs = refs] \in SubmissionType
  <2>. HIDE DEF y
  <2>. QED
    BY <1>1, RefsTyped
<1>4. x \in SubmissionType
  <2>. HIDE DEF y, x
  <2>. QED
    BY <1>2, <1>3
<1>. QED
  BY <1>4 DEF SubmissionType

LEMMA NextAttemptIs ==
  ASSUME NEW s \in SubmissionType
  PROVE  LET x == [s EXCEPT !.attempt = @ + 1]
         IN  /\ x \in SubmissionType /\ x.attempt = s.attempt + 1
             /\ x.pc = s.pc /\ x.req = s.req /\ x.adapter = s.adapter /\ x.step = s.step
             /\ x.n = s.n /\ x.refs = s.refs /\ x.reply = s.reply /\ x.gone = s.gone
             /\ x.answer = s.answer
BY DEF SubmissionType

-----------------------------------------------------------------------------
(* How a step of one submission leaves the invariant                       *)

LEMMA SoundGrows ==
  ASSUME NEW r, NEW s, NEW done, NEW more, Sound(r, s, done), done \subseteq more
  PROVE  Sound(r, s, more)
BY DEF Sound, Created

(* The number of a call fits its adapter. *)
LEMMA NumberFits ==
  ASSUME NEW r, NEW s \in SubmissionType, NEW done, Sound(r, s, done), NEW k \in 1..s.n
  PROVE  /\ s.adapter \in Registry /\ s.adapter \in Adapters
         /\ s.adapter # "webhook" => k <= s.step /\ k <= Steps(s)
         /\ s.adapter = "chatwoot" => k <= 3
<1>1. s.n \in Nat /\ s.step \in Nat /\ k \in Nat /\ s.n > 0 /\ k <= s.n
  BY DEF SubmissionType
<1>2. s.adapter \in Registry /\ s.adapter \in Adapters /\ s.step <= Steps(s)
  BY <1>1, SubmitAssumption DEF Sound, Created
<1>3. s.adapter # "webhook" => s.n <= s.step
  BY <1>1 DEF Sound, Created
<1>. QED
  BY <1>1, <1>2, <1>3, StepsTyped

(* sub[r] becomes x, at most by the call that x has just sent. *)
LEMMA Frame ==
  ASSUME IInv, NEW r \in Submissions, NEW x \in SubmissionType,
         sub' = [sub EXCEPT ![r] = x], desk' = desk,
         \/ wire' = wire
         \/ x.n > sub[r].n /\ wire' = wire \cup {CallAt(r, x, x.n)},
         x.req = sub[r].req, x.n >= sub[r].n, sub[r].n > 0 => x.adapter = sub[r].adapter,
         Sound(r, x, desk), x.reply = "422" => sub[r].reply = "422"
  PROVE  IInv'
<1>1. /\ sub \in [Submissions -> SubmissionType] /\ sub[r] \in SubmissionType
      /\ wire \subseteq CallType /\ desk \subseteq CallType
  BY DEF IInv, TypeOK
<1>2. sub' \in [Submissions -> SubmissionType] /\ sub'[r] = x
      /\ \A p \in Submissions \ {r} : sub'[p] = sub[p]
  BY <1>1
<1>3. \A p \in Submissions : sub'[p].req = sub[p].req
  BY <1>2
<1>4. x.n \in Nat /\ sub[r].n \in Nat
  BY <1>1 DEF SubmissionType
<1>. DEFINE new == CallAt(r, x, x.n)
<1>5. x.n > sub[r].n => new \in CallType /\ new.id = r /\ new.n = x.n
  <2>1. x.n > sub[r].n => x.n \in Nat \ {0} /\ x.n \in 1..x.n
    BY <1>4
  <2>. QED
    BY <2>1, NumberFits, CallTyped
<1>6. TypeOK'
  BY <1>1, <1>2, <1>5 DEF TypeOK
<1>7. \A p \in Submissions : Sound(p, sub'[p], desk')
  BY <1>2 DEF IInv
<1>8. ASSUME NEW c \in wire \cup desk
      PROVE  c.n <= sub'[c.id].n /\ c = CallAt(c.id, sub'[c.id], c.n)
  <2>1. /\ c.id \in Submissions /\ c.n \in Nat \ {0}
        /\ c.n <= sub[c.id].n /\ c = CallAt(c.id, sub[c.id], c.n)
    BY <1>1 DEF IInv, Numbered, CallType
  <2>2. CASE c.id # r
    BY <1>2, <2>1, <2>2
  <2>3. CASE c.id = r
    <3>1. c.n <= x.n /\ sub[r].n > 0
      BY <1>4, <2>1, <2>3
    <3>2. CallAt(r, x, c.n) = CallAt(r, sub[r], c.n)
      BY <3>1, SameCalls
    <3>. QED
      BY <1>2, <2>1, <2>3, <3>1, <3>2
  <2>. QED
    BY <2>2, <2>3
<1>9. Numbered'
  <2>1. CASE wire' = wire
    BY <1>8, <2>1 DEF IInv, Numbered
  <2>2. CASE x.n > sub[r].n /\ wire' = wire \cup {new}
    <3>1. new.n <= sub'[new.id].n /\ new = CallAt(new.id, sub'[new.id], new.n)
      BY <1>2, <1>4, <1>5, <2>2
    <3>2. new \notin desk
      <4>1. SUFFICES ASSUME new \in desk PROVE FALSE
        OBVIOUS
      <4>2. new.n <= sub[r].n
        BY <1>5, <2>2, <4>1 DEF IInv, Numbered
      <4>. QED
        BY <1>4, <1>5, <2>2, <4>2
    <3>. HIDE DEF new
    <3>. QED
      BY <1>8, <2>2, <3>1, <3>2 DEF IInv, Numbered
  <2>. QED
    BY <2>1, <2>2
<1>10. Elsewhere'
  <2>1. \A p \in Submissions : sub'[p].reply = "422" => sub[p].reply = "422"
    BY <1>2
  <2>2. \A c \in desk : c.id \in Submissions
    BY <1>1 DEF CallType
  <2>. QED
    BY <1>3, <2>1, <2>2 DEF IInv, Elsewhere
<1>. QED
  BY <1>6, <1>7, <1>9, <1>10 DEF IInv

(* What Send may be asked for: the next attempt or the next step *)
Ready(r, u) ==
  /\ u.req = sub[r].req /\ u.n = sub[r].n /\ (u.n > 0 => u.adapter = sub[r].adapter)
  /\ u.answer = 0 /\ (u.reply = "422" => sub[r].reply = "422")
  /\ u.adapter \in Registry /\ Acceptable(u.req.atts)
  /\ u.step <= Steps(u) /\ u.refs = RefsAt(u, u.step)
  /\ IF u.adapter = "webhook" THEN u.attempt = u.n + 1 /\ u.attempt <= MaxAttempts
     ELSE u.step = u.n + 1
  /\ \A j \in 1..(u.step - 1) : j <= u.n /\ CallAt(r, u, j) \in desk
  /\ u.n > 0 /\ u.reply \in {"ok", "odd"} => CallAt(r, u, u.n) \in desk

LEMMA Sending ==
  ASSUME IInv, NEW r \in Submissions, NEW u \in SubmissionType, Ready(r, u), Send(r, u),
         desk' = desk
  PROVE  IInv'
<1>1. u.n \in Nat /\ u.step \in Nat \ {0} /\ u.attempt \in Nat
  BY DEF SubmissionType
<1>2. CASE u.gone
  <2>. DEFINE x == Answered(u, 502)
  <2>1. /\ x \in SubmissionType /\ x.pc = "done" /\ x.answer = 502 /\ x.reply = u.reply
        /\ SameCreate(x, u) /\ x.gone
    BY <1>2, AnsweredIs DEF Answers
  <2>2. sub' = [sub EXCEPT ![r] = x] /\ wire' = wire
    BY <1>2 DEF Send, Become
  <2>. HIDE DEF x
  <2>3. /\ \A k : CallAt(r, x, k) = CallAt(r, u, k) /\ RefsAt(x, k) = RefsAt(u, k)
        /\ Steps(x) = Steps(u)
    BY <2>1, SameCalls DEF SameCreate
  <2>4. Created(r, x, desk)
    BY <1>1, <2>1, <2>3 DEF Created, SameCreate, Ready
  <2>5. Sound(r, x, desk)
    BY <2>1, <2>4 DEF Sound, Early, Waiting, Over
  <2>6. /\ x.req = sub[r].req /\ x.n >= sub[r].n /\ (sub[r].n > 0 => x.adapter = sub[r].adapter)
        /\ (x.reply = "422" => sub[r].reply = "422")
    BY <1>1, <2>1 DEF Ready, SameCreate
  <2>. QED
    BY <2>1, <2>2, <2>5, <2>6, Frame
<1>3. CASE ~u.gone
  <2>. DEFINE x == [u EXCEPT !.pc = "await", !.reply = "waiting", !.n = @ + 1]
  <2>1. /\ x \in SubmissionType /\ x.pc = "await" /\ x.reply = "waiting" /\ x.n = u.n + 1
        /\ x.req = u.req /\ x.adapter = u.adapter /\ x.step = u.step
        /\ x.attempt = u.attempt /\ x.refs = u.refs /\ x.gone = u.gone /\ x.answer = u.answer
    BY SentIs
  <2>2. sub' = [sub EXCEPT ![r] = x] /\ wire' = wire \cup {Call(r, x)}
    BY <1>3 DEF Send, Become
  <2>. HIDE DEF x
  <2>3. /\ \A k : CallAt(r, x, k) = CallAt(r, u, k) /\ RefsAt(x, k) = RefsAt(u, k)
        /\ Steps(x) = Steps(u)
    BY <2>1, SameCalls
  <2>4. x.refs = RefsAt(x, x.step) /\ x.step <= Steps(x)
        /\ (x.adapter # "webhook" => x.n = x.step)
    BY <1>1, <2>1, <2>3 DEF Ready
  <2>5. Call(r, x) = CallAt(r, x, x.n)
    BY <1>1, <2>1, <2>4, CallIs
  <2>6. Created(r, x, desk)
    BY <1>1, <2>1, <2>3, <2>4 DEF Created, Ready
  <2>7. Waiting(x)
    BY <1>1, <2>1, <2>4 DEF Waiting, Ready
  <2>8. Sound(r, x, desk)
    BY <2>1, <2>6, <2>7 DEF Sound, Early, Over, Ready
  <2>9. /\ x.req = sub[r].req /\ x.n > sub[r].n /\ x.n >= sub[r].n
        /\ (sub[r].n > 0 => x.adapter = sub[r].adapter)
    BY <1>1, <2>1 DEF Ready
  <2>. QED
    BY <2>1, <2>2, <2>5, <2>8, <2>9, Frame
<1>. QED
  BY <1>2, <1>3

-----------------------------------------------------------------------------
(* The handler's steps                                                     *)

LEMMA InitIs == Init => IInv
<1>. SUFFICES ASSUME Init PROVE IInv
  OBVIOUS
<1>1. PICK req \in Choices : sub = [r \in Submissions |-> Idle(req[r])]
  BY DEF Init
<1>2. ASSUME NEW r \in Submissions
      PROVE  /\ Idle(req[r]) \in SubmissionType /\ Early(Idle(req[r]))
             /\ Idle(req[r]).n = 0 /\ Idle(req[r]).pc = "idle"
             /\ Idle(req[r]).reply = "waiting" /\ Idle(req[r]).answer = 0
  <2>1. req[r] \in RequestType
    BY SubmitAssumption DEF Choices
  <2>2. "idle" \in PCs /\ 0 \in Answers /\ "other" \in Classes /\ "unknown" \in Severities
    BY SubmitAssumption DEF PCs, Answers
  <2>3. /\ Idle(req[r]).n = 0 /\ Idle(req[r]).step = 1 /\ Idle(req[r]).attempt = 1
        /\ Idle(req[r]).refs = {} /\ Idle(req[r]).reply = "waiting"
        /\ Idle(req[r]).answer = 0 /\ Idle(req[r]).pc = "idle"
    BY DEF Idle
  <2>4. Idle(req[r]) \in SubmissionType
    <3>. DEFINE q == req[r]
    <3>. HIDE DEF q
    <3>1. q \in RequestType => Idle(q) \in SubmissionType
      BY <2>2 DEF Idle, SubmissionType
    <3>. QED
      BY <2>1, <3>1 DEF q
  <2>. QED
    BY <2>3, <2>4 DEF Early
<1>3. \A r \in Submissions : Sound(r, sub[r], desk)
  BY <1>1, <1>2 DEF Sound, Created, Waiting, Over
<1>4. TypeOK
  BY <1>1, <1>2 DEF Init, TypeOK
<1>5. Numbered /\ Elsewhere
  BY <1>1, <1>2 DEF Init, Numbered, Elsewhere
<1>. QED
  BY <1>3, <1>4, <1>5 DEF IInv

(* Before Dispatch a step changes no call and no progress. *)
LEMMA Unsent ==
  ASSUME IInv, NEW r \in Submissions, NEW x \in SubmissionType,
         sub' = [sub EXCEPT ![r] = x], wire' = wire, desk' = desk,
         sub[r].pc \in {"idle", "classify", "reclassify", "build"},
         SameCreate(x, sub[r]), x.reply = sub[r].reply,
         x.pc \notin {"await", "backoff"}, x.pc # "done" => x.answer = 0,
         x.answer \notin {200, 502}
  PROVE  IInv'
<1>1. Early(sub[r]) /\ sub[r] \in SubmissionType
  BY SubTyped DEF IInv, Sound
<1>2. x.n = 0 /\ x.step = 1 /\ x.attempt = 1 /\ x.refs = {} /\ x.reply = "waiting" /\ sub[r].n = 0
  BY <1>1 DEF Early, SameCreate
<1>3. Early(x)
  BY <1>2 DEF Early
<1>4. Sound(r, x, desk)
  BY <1>2, <1>3 DEF Sound, Created, Waiting, Over
<1>5. /\ x.req = sub[r].req /\ x.n >= sub[r].n /\ (sub[r].n > 0 => x.adapter = sub[r].adapter)
      /\ (x.reply = "422" => sub[r].reply = "422")
  BY <1>2 DEF SameCreate
<1>. QED
  BY <1>4, <1>5, Frame

LEMMA ArriveKeeps ==
  ASSUME IInv, NEW r \in Submissions, Arrive(r) \/ ArriveRefused(r) PROVE IInv'
<1>1. sub[r] \in SubmissionType /\ Early(sub[r]) /\ sub[r].pc = "idle"
  BY SubTyped DEF IInv, Sound, Arrive, ArriveRefused
<1>2. sub[r].answer = 0
  BY <1>1 DEF Early
<1>3. CASE Arrive(r)
  <2>. DEFINE x == [sub[r] EXCEPT !.pc = "classify"]
  <2>1. "classify" \in PCs
    BY DEF PCs
  <2>2. /\ x \in SubmissionType /\ x.pc = "classify"
        /\ SameCreate(x, sub[r]) /\ x.reply = sub[r].reply /\ x.answer = 0
    BY <1>1, <1>2, <2>1, GotoIs
  <2>3. sub' = [sub EXCEPT ![r] = x] /\ wire' = wire /\ desk' = desk
    BY <1>3 DEF Arrive, Become
  <2>. HIDE DEF x
  <2>4. x.pc \notin {"await", "backoff"} /\ (x.pc # "done" => x.answer = 0) /\ x.answer \notin {200, 502}
    BY <2>1, <2>2
  <2>5. sub[r].pc \in {"idle", "classify", "reclassify", "build"}
    BY <1>1
  <2>. QED
    BY <2>2, <2>3, <2>4, <2>5, Unsent
<1>4. CASE ArriveRefused(r)
  <2>1. PICK a \in {400, 401, 413} : Become(r, Answered(sub[r], a))
    BY <1>4 DEF ArriveRefused
  <2>. DEFINE x == Answered(sub[r], a)
  <2>2. /\ x \in SubmissionType /\ x.pc = "done" /\ x.answer = a
        /\ SameCreate(x, sub[r]) /\ x.reply = sub[r].reply
    <3>1. a \in Answers
      BY DEF Answers
    <3>. QED
      BY <1>1, <3>1, AnsweredIs
  <2>3. sub' = [sub EXCEPT ![r] = x] /\ wire' = wire /\ desk' = desk
    BY <1>4, <2>1 DEF ArriveRefused, Become
  <2>. HIDE DEF x
  <2>4. x.pc \notin {"await", "backoff"} /\ (x.pc # "done" => x.answer = 0) /\ x.answer \notin {200, 502}
    BY <2>1, <2>2
  <2>5. sub[r].pc \in {"idle", "classify", "reclassify", "build"}
    BY <1>1
  <2>. QED
    BY <2>2, <2>3, <2>4, <2>5, Unsent
<1>. QED
  BY <1>3, <1>4

LEMMA ClassifyKeeps ==
  ASSUME IInv, NEW r \in Submissions, Classified(r) \/ ClassifyFails(r) PROVE IInv'
<1>1. /\ sub[r] \in SubmissionType /\ Early(sub[r])
      /\ sub[r].pc \in {"classify", "reclassify"}
  BY SubTyped DEF IInv, Sound, Classified, ClassifyFails
<1>2. sub[r].answer = 0
  BY <1>1 DEF Early
<1>3. CASE Classified(r)
  <2>1. PICK c \in Classes, v \in Severities :
          Become(r, Chosen(sub[r], c, v))
    BY <1>3 DEF Classified, Chosen
  <2>. DEFINE x == Chosen(sub[r], c, v)
  <2>2. /\ x \in SubmissionType /\ x.pc = "build"
        /\ SameCreate(x, sub[r]) /\ x.reply = sub[r].reply /\ x.answer = 0
    <3>1. /\ x \in SubmissionType /\ x.pc = "build" /\ SameCreate(x, sub[r])
          /\ x.reply = sub[r].reply /\ x.answer = sub[r].answer
      BY <1>1, ClassifiedIs
    <3>. QED
      BY <1>2, <3>1
  <2>3. sub' = [sub EXCEPT ![r] = x] /\ wire' = wire /\ desk' = desk
    BY <1>3, <2>1 DEF Classified, Become
  <2>. HIDE DEF x
  <2>4. x.pc \notin {"await", "backoff"} /\ (x.pc # "done" => x.answer = 0) /\ x.answer \notin {200, 502}
    BY <2>1, <2>2
  <2>5. sub[r].pc \in {"idle", "classify", "reclassify", "build"}
    BY <1>1
  <2>. QED
    BY <2>2, <2>3, <2>4, <2>5, Unsent
<1>4. CASE ClassifyFails(r)
  <2>. DEFINE pc == IF sub[r].pc = "classify" THEN "reclassify" ELSE "build"
              x == [sub[r] EXCEPT !.pc = pc]
  <2>1. pc \in {"reclassify", "build"}
    OBVIOUS
  <2>2. sub' = [sub EXCEPT ![r] = x] /\ wire' = wire /\ desk' = desk
    BY <1>4 DEF ClassifyFails, Become
  <2>. HIDE DEF pc
  <2>3. /\ x \in SubmissionType /\ x.pc = pc
        /\ SameCreate(x, sub[r]) /\ x.reply = sub[r].reply /\ x.answer = 0
    <3>1. pc \in PCs
      BY <2>1 DEF PCs
    <3>. QED
      BY <1>1, <1>2, <3>1, GotoIs
  <2>. HIDE DEF x
  <2>4. x.pc \notin {"await", "backoff"} /\ (x.pc # "done" => x.answer = 0) /\ x.answer \notin {200, 502}
    BY <2>1, <2>3
  <2>5. sub[r].pc \in {"idle", "classify", "reclassify", "build"}
    BY <1>1
  <2>. QED
    BY <2>2, <2>3, <2>4, <2>5, Unsent
<1>. QED
  BY <1>3, <1>4

LEMMA StatusTyped ==
  ASSUME NEW code PROVE StatusOf(code) \in Answers /\ StatusOf(code) \notin {200, 502}
<1>1. StatusOf(code) \in {400, 413, 415}
  BY DEF StatusOf
<1>. QED
  BY <1>1 DEF Answers

LEMMA DispatchKeeps ==
  ASSUME IInv, NEW r \in Submissions, Dispatch(r) PROVE IInv'
<1>. DEFINE s == sub[r]
            to == Route(Registry, Rules, Default,
                        [hint |-> s.req.hint, class |-> s.class, severity |-> s.severity])
            code == ValidateAll(s.req.atts)
<1>1. s \in SubmissionType /\ s.pc = "build" /\ desk' = desk
  BY SubTyped DEF IInv, Dispatch
<1>2. s.n = 0 /\ s.step = 1 /\ s.attempt = 1 /\ s.refs = {} /\ s.reply = "waiting" /\ s.answer = 0
  BY <1>1 DEF IInv, Sound, Early
<1>3. to \in Registry /\ to \in Adapters /\ s.req.atts \in Seq(AttachmentType)
  <2>1. [hint |-> s.req.hint, class |-> s.class, severity |-> s.severity] \in Payloads
    BY <1>1 DEF SubmissionType, RequestType, Payloads
  <2>2. to \in Registry
    BY <2>1, RouteRegistered
  <2>3. s.req.atts \in Seq(AttachmentType)
    BY <1>1, StepsTyped
  <2>. HIDE DEF to
  <2>. QED
    BY <2>2, <2>3, SubmitAssumption
<1>4. ASSUME NEW a \in Answers, a \notin {200, 502}, Become(r, Answered(s, a)), UNCHANGED wire
      PROVE  IInv'
  <2>. DEFINE x == Answered(s, a)
  <2>1. /\ x \in SubmissionType /\ x.pc = "done" /\ x.answer = a
        /\ SameCreate(x, s) /\ x.reply = s.reply
    BY <1>1, AnsweredIs
  <2>2. sub' = [sub EXCEPT ![r] = x] /\ wire' = wire
    BY <1>4 DEF Become
  <2>3. s.pc \in {"idle", "classify", "reclassify", "build"}
    BY <1>1
  <2>. HIDE DEF x
  <2>4. x.pc \notin {"await", "backoff"} /\ (x.pc # "done" => x.answer = 0) /\ x.answer \notin {200, 502}
    BY <1>4, <2>1
  <2>. QED
    BY <1>1, <2>1, <2>2, <2>3, <2>4, Unsent
<1>5. ASSUME code = "ok", Send(r, [s EXCEPT !.adapter = to])
      PROVE  IInv'
  <2>. DEFINE u == [s EXCEPT !.adapter = to]
  <2>0. Acceptable(s.req.atts)
    BY <1>3, <1>5, ValidateAllSuffices
  <2>. HIDE DEF to, code
  <2>1. /\ u \in SubmissionType /\ u.adapter = to
        /\ u.req = s.req /\ u.step = s.step /\ u.attempt = s.attempt
        /\ u.n = s.n /\ u.refs = s.refs /\ u.reply = s.reply /\ u.answer = s.answer
    BY <1>1, <1>3, RoutedIs
  <2>2. Send(r, u)
    BY <1>5
  <2>. HIDE DEF u
  <2>3. u.step <= Steps(u) /\ u.refs = RefsAt(u, u.step)
    BY <1>2, <2>1, StepsTyped DEF RefsAt
  <2>4. 1 <= MaxAttempts
    BY SubmitAssumption
  <2>5. Ready(r, u)
    BY <1>2, <1>3, <2>0, <2>1, <2>3, <2>4 DEF Ready
  <2>. QED
    BY <1>1, <2>1, <2>2, <2>5, Sending
<1>6. \/ Become(r, Answered(s, 400)) /\ UNCHANGED wire
      \/ Become(r, Answered(s, StatusOf(code))) /\ UNCHANGED wire
      \/ code = "ok" /\ Send(r, [s EXCEPT !.adapter = to])
  BY DEF Dispatch
<1>7. 400 \in Answers
  BY DEF Answers
<1>. HIDE DEF s, to, code
<1>. QED
  BY <1>4, <1>5, <1>6, <1>7, StatusTyped

(* Refs is what the next step is taken with. *)
LEMMA RefsStep ==
  ASSUME NEW s \in SubmissionType, s.adapter # "webhook", s.n = s.step,
         s.refs = RefsAt(s, s.step), s.step < Steps(s)
  PROVE  Refs(s, "ok") = RefsAt(s, s.step + 1) /\ Refs(s, "ok") \in SUBSET Nat
<1>1. s.n \in Nat \ {0} /\ s.step \in Nat \ {0}
  BY DEF SubmissionType
<1>2. CASE ~UploadsFirst(s)
  <2>1. Kind(s) # "upload"
    <3>1. s.adapter = "chatwoot" => s.step \in {1, 2, 3}
      BY <1>1, StepsTyped
    <3>. QED
      BY <1>2, <3>1 DEF Kind
  <2>. QED
    BY <1>2, <2>1 DEF Refs, RefsAt
<1>3. CASE UploadsFirst(s)
  <2>1. Kind(s) = "upload"
    BY <1>1, <1>3, StepsTyped DEF Kind
  <2>2. CASE s.adapter = "zendesk"
    <3>1. s.refs = IF s.step = 1 THEN {} ELSE {1}
      BY <1>3, <2>2 DEF RefsAt
    <3>2. Token(s.refs, s.n) = 1
      BY <1>1, <3>1 DEF Token
    <3>. QED
      BY <1>1, <1>3, <2>1, <2>2, <3>2 DEF Refs, ZendeskToken, RefsAt
  <2>3. CASE s.adapter = "linear"
    <3>1. s.refs = 1..(s.step - 1)
      BY <1>3, <2>3 DEF RefsAt
    <3>2. (1..(s.step - 1)) \cup {s.step} = 1..s.step
      BY <1>1
    <3>3. Refs(s, "ok") = 1..s.step /\ RefsAt(s, s.step + 1) = 1..s.step
      BY <1>1, <1>3, <2>1, <2>3, <3>1, <3>2 DEF Refs, LinearLinks, RefsAt
    <3>. QED
      BY <1>1, <3>3
  <2>. QED
    BY <1>3, <2>2, <2>3 DEF UploadsFirst
<1>. QED
  BY <1>2, <1>3

(* A reply that lets Create go on to another step is whole. *)
LEMMA MoreSteps ==
  ASSUME NEW s \in SubmissionType, s.adapter \in Adapters, s.step < Steps(s),
         NEW reply, Satisfies(s, reply)
  PROVE  reply = "ok" /\ s.adapter # "webhook"
<1>1. s.step \in Nat \ {0} /\ Steps(s) \in Nat
  BY StepsTyped DEF SubmissionType
<1>2. s.adapter \notin {"webhook", "fider"}
  BY <1>1, StepsTyped
<1>3. Kind(s) # "message"
  <2>1. CASE UploadsFirst(s)
    BY <2>1 DEF Kind
  <2>2. CASE ~UploadsFirst(s)
    <3>1. s.adapter = "chatwoot"
      BY <1>2, <2>2, SubmitAssumption DEF UploadsFirst
    <3>2. s.step \in {1, 2}
      BY <1>1, <3>1, StepsTyped
    <3>. QED
      BY <2>2, <3>1, <3>2 DEF Kind
  <2>. QED
    BY <2>1, <2>2
<1>. QED
  BY <1>2, <1>3 DEF Satisfies, AnyBody, WebhookTakes

LEMMA SameSatisfies ==
  ASSUME NEW s, NEW t, SameCreate(t, s), NEW reply
  PROVE  Satisfies(t, reply) <=> Satisfies(s, reply)
BY DEF SameCreate, Satisfies, Kind, UploadsFirst

LEMMA ProceedKeeps ==
  ASSUME IInv, NEW r \in Submissions, NEW s \in SubmissionType, sub[r].pc = "await",
         SameCreate(s, sub[r]), s.answer = sub[r].answer, s.reply \in Replies,
         s.reply \in {"ok", "odd"} => CallAt(r, s, s.n) \in desk,
         s.reply = "422" => sub[r].reply = "422",
         Proceed(r, s, s.reply), desk' = desk
  PROVE  IInv'
<1>1. /\ sub[r] \in SubmissionType /\ Created(r, sub[r], desk) /\ Waiting(sub[r])
  BY SubTyped DEF IInv, Sound
<1>2. /\ s.n > 0 /\ s.answer = 0
      /\ s.n = IF s.adapter = "webhook" THEN s.attempt ELSE s.step
  BY <1>1 DEF Waiting, SameCreate
<1>3. s.n \in Nat /\ s.step \in Nat \ {0} /\ s.attempt \in Nat /\ Steps(s) \in Nat \ {0}
  BY StepsTyped DEF SubmissionType
<1>4. /\ \A k : CallAt(r, s, k) = CallAt(r, sub[r], k) /\ RefsAt(s, k) = RefsAt(sub[r], k)
      /\ Steps(s) = Steps(sub[r])
  BY SameCalls DEF SameCreate
<1>5. /\ s.adapter \in Registry /\ Acceptable(s.req.atts)
      /\ s.step <= Steps(s) /\ s.refs = RefsAt(s, s.step)
      /\ s.adapter = "webhook" => s.n <= s.attempt /\ s.attempt <= MaxAttempts
      /\ \A j \in 1..(s.step - 1) : j <= s.n /\ CallAt(r, s, j) \in desk
  BY <1>1, <1>2, <1>4 DEF Created, SameCreate
<1>6. s.adapter \in Adapters
  BY <1>5, SubmitAssumption
(* The submission ends, or waits for its next attempt. *)
<1>7. ASSUME NEW x \in SubmissionType, SameCreate(x, s), x.reply = s.reply, Become(r, x),
             UNCHANGED wire, x.pc \in {"done", "backoff"}, x.answer \in {0, 200, 502},
             Waiting(x), Over(x)
      PROVE  IInv'
  <2>1. sub' = [sub EXCEPT ![r] = x] /\ wire' = wire
    BY <1>7 DEF Become
  <2>2. \A k : CallAt(r, x, k) = CallAt(r, s, k) /\ RefsAt(x, k) = RefsAt(s, k)
    BY <1>7, SameCalls DEF SameCreate
  <2>3. Steps(x) = Steps(s)
    BY <1>7, SameCalls DEF SameCreate
  <2>4. x.n = s.n /\ x.step = s.step /\ x.attempt = s.attempt /\ x.refs = s.refs
        /\ x.adapter = s.adapter /\ x.req = s.req
    BY <1>7 DEF SameCreate
  <2>5. x.adapter # "webhook" => x.n <= x.step
    BY <1>2, <1>3, <2>4
  <2>6. Created(r, x, desk)
    BY <1>2, <1>5, <1>7, <2>2, <2>3, <2>4, <2>5 DEF Created
  <2>7. Sound(r, x, desk)
    BY <1>7, <2>6 DEF Sound, Early
  <2>8. /\ x.req = sub[r].req /\ x.n >= sub[r].n /\ (sub[r].n > 0 => x.adapter = sub[r].adapter)
        /\ (x.reply = "422" => sub[r].reply = "422")
    BY <1>3, <1>7, <2>4 DEF SameCreate
  <2>. QED
    BY <2>1, <2>7, <2>8, Frame, <1>7
<1>8. ASSUME Satisfies(s, s.reply), s.step = Steps(s), Become(r, Answered(s, 200)), UNCHANGED wire
      PROVE  IInv'
  <2>. DEFINE x == Answered(s, 200)
  <2>1. /\ x \in SubmissionType /\ x.pc = "done" /\ x.answer = 200
        /\ SameCreate(x, s) /\ x.reply = s.reply
    BY AnsweredIs DEF Answers
  <2>2. Become(r, x)
    BY <1>8
  <2>. HIDE DEF x
  <2>3. Satisfies(x, x.reply) /\ Steps(x) = Steps(s)
    BY <1>8, <2>1, SameSatisfies, SameCalls DEF SameCreate
  <2>4. Waiting(x)
    BY <2>1 DEF Waiting
  <2>5. x.n > 0 /\ x.step = Steps(x) /\ (x.adapter # "webhook" => x.n = x.step)
    BY <1>2, <1>8, <2>1, <2>3 DEF SameCreate
  <2>6. Over(x)
    BY <2>1, <2>3, <2>5 DEF Over
  <2>. QED
    BY <1>7, <1>8, <2>1, <2>2, <2>4, <2>6
<1>9. ASSUME Satisfies(s, s.reply), s.step < Steps(s),
             Send(r, [s EXCEPT !.step = @ + 1, !.refs = Refs(s, s.reply)])
      PROVE  IInv'
  <2>1. s.reply = "ok" /\ s.adapter # "webhook"
    BY <1>6, <1>9, MoreSteps
  <2>. DEFINE refs == Refs(s, s.reply)
              u == [s EXCEPT !.step = @ + 1, !.refs = refs]
  <2>2. refs = RefsAt(s, s.step + 1) /\ refs \in SUBSET Nat
    BY <1>2, <1>5, <1>9, <2>1, RefsStep
  <2>3. Send(r, u)
    BY <1>9
  <2>. HIDE DEF refs
  <2>4. /\ u \in SubmissionType /\ u.step = s.step + 1 /\ u.refs = refs
        /\ u.req = s.req /\ u.adapter = s.adapter /\ u.n = s.n /\ u.reply = s.reply
        /\ u.answer = s.answer
    BY <2>2, NextStepIs
  <2>. HIDE DEF u
  <2>5. /\ \A k : CallAt(r, u, k) = CallAt(r, s, k) /\ RefsAt(u, k) = RefsAt(s, k)
        /\ Steps(u) = Steps(s)
    BY <2>4, SameCalls
  <2>6. CallAt(r, s, s.n) \in desk
    BY <2>1
  <2>7. \A j \in 1..(u.step - 1) : j <= u.n /\ CallAt(r, u, j) \in desk
    BY <1>2, <1>3, <1>5, <2>1, <2>4, <2>5, <2>6
  <2>8. u.step <= Steps(u) /\ u.refs = RefsAt(u, u.step) /\ u.step = u.n + 1
    BY <1>2, <1>3, <1>9, <2>1, <2>2, <2>4, <2>5
  <2>9. u.req = sub[r].req /\ u.n = sub[r].n /\ u.adapter = sub[r].adapter /\ u.answer = 0
    BY <1>2, <2>4 DEF SameCreate
  <2>10. Ready(r, u)
    BY <1>5, <2>1, <2>4, <2>5, <2>6, <2>7, <2>8, <2>9 DEF Ready
  <2>. QED
    BY <2>3, <2>4, <2>10, Sending
<1>10. ASSUME Retries(s, s.reply), Become(r, [s EXCEPT !.pc = "backoff"]), UNCHANGED wire
       PROVE  IInv'
  <2>. DEFINE x == [s EXCEPT !.pc = "backoff"]
  <2>1. /\ x \in SubmissionType /\ x.pc = "backoff" /\ x.answer = 0
        /\ SameCreate(x, s) /\ x.reply = s.reply
    <3>1. "backoff" \in PCs
      BY DEF PCs
    <3>. QED
      BY <1>2, <3>1, GotoIs
  <2>2. Become(r, x)
    BY <1>10
  <2>. HIDE DEF x
  <2>3. s.adapter = "webhook" /\ s.n = s.attempt /\ s.attempt < MaxAttempts
    BY <1>2, <1>10 DEF Retries
  <2>4. Waiting(x)
    BY <1>2, <2>1, <2>3 DEF Waiting, SameCreate
  <2>5. Over(x)
    BY <2>1 DEF Over
  <2>. QED
    BY <1>7, <1>10, <2>1, <2>2, <2>4, <2>5
<1>11. ASSUME ~Satisfies(s, s.reply), Become(r, Answered(s, 502)), UNCHANGED wire
       PROVE  IInv'
  <2>. DEFINE x == Answered(s, 502)
  <2>1. /\ x \in SubmissionType /\ x.pc = "done" /\ x.answer = 502
        /\ SameCreate(x, s) /\ x.reply = s.reply
    BY AnsweredIs DEF Answers
  <2>2. Become(r, x)
    BY <1>11
  <2>. HIDE DEF x
  <2>3. x.reply \in Replies \ {"ok"}
    BY <1>11, <2>1 DEF Satisfies
  <2>4. Waiting(x)
    BY <2>1 DEF Waiting
  <2>5. Over(x)
    BY <2>1, <2>3 DEF Over
  <2>. QED
    BY <1>7, <1>11, <2>1, <2>2, <2>4, <2>5
<1>. QED
  BY <1>8, <1>9, <1>10, <1>11 DEF Proceed

LEMMA ReturnsKeeps ==
  ASSUME IInv, NEW r \in Submissions, Returns(r) PROVE IInv'
<1>1. /\ sub[r] \in SubmissionType /\ sub[r].pc = "await" /\ sub[r].reply # "waiting"
      /\ Proceed(r, sub[r], sub[r].reply) /\ desk' = desk
  BY SubTyped DEF IInv, Returns
<1>2. sub[r].reply \in Replies
  BY <1>1 DEF SubmissionType
<1>3. sub[r].reply \in {"ok", "odd"} => CallAt(r, sub[r], sub[r].n) \in desk
  BY <1>1 DEF IInv, Sound, Created, Waiting
<1>4. SameCreate(sub[r], sub[r])
  BY DEF SameCreate
<1>. QED
  BY <1>1, <1>2, <1>3, <1>4, ProceedKeeps

LEMMA GiveUpKeeps ==
  ASSUME IInv, NEW r \in Submissions, GiveUp(r) PROVE IInv'
<1>. DEFINE s == [sub[r] EXCEPT !.reply = "none"]
<1>1. sub[r] \in SubmissionType /\ sub[r].pc = "await" /\ Proceed(r, s, "none") /\ desk' = desk
  BY SubTyped DEF IInv, GiveUp
<1>2. "none" \in Replies
  BY DEF Replies
<1>3. /\ s \in SubmissionType /\ s.reply = "none" /\ SameCreate(s, sub[r])
      /\ s.answer = sub[r].answer
  BY <1>1, <1>2, ReplyIs
<1>. HIDE DEF s
<1>4. Proceed(r, s, s.reply)
  BY <1>1, <1>3
<1>. QED
  BY <1>1, <1>2, <1>3, <1>4, ProceedKeeps

LEMMA RetryKeeps ==
  ASSUME IInv, NEW r \in Submissions, Retry(r) PROVE IInv'
<1>. DEFINE u == [sub[r] EXCEPT !.attempt = @ + 1]
<1>1. /\ sub[r] \in SubmissionType /\ Created(r, sub[r], desk) /\ Waiting(sub[r])
      /\ sub[r].pc = "backoff" /\ Send(r, u) /\ desk' = desk
  BY SubTyped DEF IInv, Sound, Retry
<1>2. /\ u \in SubmissionType /\ u.attempt = sub[r].attempt + 1
      /\ u.req = sub[r].req /\ u.adapter = sub[r].adapter /\ u.step = sub[r].step
      /\ u.n = sub[r].n /\ u.refs = sub[r].refs /\ u.reply = sub[r].reply
      /\ u.answer = sub[r].answer
  BY <1>1, NextAttemptIs
<1>. HIDE DEF u
<1>3. /\ \A k : CallAt(r, u, k) = CallAt(r, sub[r], k) /\ RefsAt(u, k) = RefsAt(sub[r], k)
      /\ Steps(u) = Steps(sub[r])
  BY <1>2, SameCalls
<1>4. sub[r].n \in Nat /\ sub[r].attempt \in Nat /\ MaxAttempts \in Nat
  BY <1>1, SubmitAssumption DEF SubmissionType
<1>5. /\ sub[r].adapter = "webhook" /\ sub[r].n = sub[r].attempt
      /\ sub[r].attempt < MaxAttempts /\ sub[r].n > 0 /\ sub[r].answer = 0
  BY <1>1 DEF Waiting
<1>6. Ready(r, u)
  BY <1>1, <1>2, <1>3, <1>4, <1>5 DEF Ready, Created
<1>. QED
  BY <1>1, <1>2, <1>6, Sending

-----------------------------------------------------------------------------
(* The surroundings' steps                                                 *)

(* One call of a kind for each submission, uploads and the webhook         *)
(* adapter's attempts apart                                                *)
LEMMA OneEach ==
  ASSUME IInv, NEW c \in wire \cup desk, NEW d \in wire \cup desk,
         c.id = d.id, c.kind = d.kind, c.kind # "upload", sub[c.id].adapter # "webhook"
  PROVE  c = d
<1>. DEFINE s == sub[c.id]
<1>1. /\ c.id \in Submissions /\ c.n \in Nat \ {0} /\ d.n \in Nat \ {0}
      /\ c.n <= s.n /\ d.n <= s.n
      /\ c = CallAt(c.id, s, c.n) /\ d = CallAt(c.id, s, d.n)
  BY DEF IInv, Numbered, TypeOK, CallType
<1>2. s \in SubmissionType /\ Sound(c.id, s, desk)
  BY <1>1, SubTyped DEF IInv
<1>3. s.n \in Nat
  BY <1>2 DEF SubmissionType
<1>. HIDE DEF s
<1>4. c.n \in 1..s.n /\ d.n \in 1..s.n
  BY <1>1, <1>3
<1>5. /\ s.adapter \in Adapters /\ s.adapter # "webhook"
      /\ c.n <= Steps(s) /\ d.n <= Steps(s)
      /\ (s.adapter = "chatwoot" => c.n <= 3 /\ d.n <= 3)
  BY <1>2, <1>4, NumberFits DEF s
<1>6. c.kind = KindAt(s, c.n) /\ d.kind = KindAt(s, d.n)
  BY <1>1, <1>2, <1>5, CallTyped
<1>7. KindAt(s, c.n) = KindAt(s, d.n) /\ KindAt(s, c.n) # "upload"
  BY <1>6
<1>8. c.n = d.n
  <2>1. CASE UploadsFirst(s)
    <3>1. Steps(s) = Len(s.req.atts) + 1 /\ Len(s.req.atts) \in Nat
      BY <1>2, <2>1, StepsTyped
    <3>. QED
      BY <1>1, <1>5, <1>7, <2>1, <3>1 DEF KindAt
  <2>2. CASE s.adapter = "chatwoot"
    <3>1. c.n \in {1, 2, 3} /\ d.n \in {1, 2, 3} /\ ~UploadsFirst(s)
      BY <1>1, <1>5, <2>2 DEF UploadsFirst
    <3>. QED
      BY <1>7, <2>2, <3>1 DEF KindAt
  <2>3. CASE s.adapter = "fider"
    BY <1>1, <1>2, <1>5, <2>3, StepsTyped
  <2>. QED
    BY <1>5, <2>1, <2>2, <2>3, SubmitAssumption DEF UploadsFirst
<1>. QED
  BY <1>1, <1>8

(* A call that is answered moves or disappears; only a waiting submission  *)
(* notices.                                                                *)
LEMMA AnswerKeeps ==
  ASSUME IInv, NEW c \in wire, NEW reply \in Replies, Respond(c, reply), wire' = wire \ {c},
         \/ desk' = desk \cup {c}
         \/ desk' = desk /\ reply \notin {"ok", "odd"},
         reply = "422" =>
           \E d \in desk : d.kind = "contact" /\ d.id # c.id /\ sub[d.id].req.email = sub[c.id].req.email
  PROVE  IInv'
<1>1. /\ sub \in [Submissions -> SubmissionType] /\ wire \subseteq CallType /\ desk \subseteq CallType
      /\ c.id \in Submissions
  BY DEF IInv, TypeOK, CallType
<1>2. ASSUME NEW p \in Submissions
      PROVE  /\ sub'[p] \in SubmissionType /\ SameCreate(sub'[p], sub[p])
             /\ Sound(p, sub'[p], desk')
             /\ sub'[p].reply = "422" => sub[p].reply = "422" \/ (p = c.id /\ reply = "422")
  <2>1. CASE p = c.id /\ Waits(c)
    <3>. DEFINE x == [sub[p] EXCEPT !.reply = reply]
    <3>1. sub'[p] = x
      BY <1>1, <2>1 DEF Respond
    <3>2. /\ x \in SubmissionType /\ x.pc = sub[p].pc /\ x.reply = reply
          /\ SameCreate(x, sub[p]) /\ x.answer = sub[p].answer
      BY <1>1, ReplyIs
    <3>. HIDE DEF x
    <3>3. x.pc = "await" /\ c.n = sub[p].n /\ c = CallAt(p, sub[p], c.n)
      BY <2>1, <3>2 DEF Waits, IInv, Numbered
    <3>4. /\ \A k : CallAt(p, x, k) = CallAt(p, sub[p], k) /\ RefsAt(x, k) = RefsAt(sub[p], k)
          /\ Steps(x) = Steps(sub[p])
      BY <3>2, SameCalls DEF SameCreate
    <3>5. Created(p, sub[p], desk) /\ Waiting(sub[p])
      BY DEF IInv, Sound
    <3>6. reply \in {"ok", "odd"} => CallAt(p, x, x.n) \in desk'
      BY <3>2, <3>3, <3>4 DEF SameCreate
    <3>7. Created(p, x, desk')
      BY <3>2, <3>4, <3>5, <3>6 DEF Created, SameCreate
    <3>8. Waiting(x) /\ x.answer = 0
      BY <3>2, <3>3, <3>5 DEF Waiting, SameCreate
    <3>9. Sound(p, x, desk')
      BY <3>3, <3>7, <3>8 DEF Sound, Early, Over
    <3>. QED
      BY <2>1, <3>1, <3>2, <3>9
  <2>2. CASE ~(p = c.id /\ Waits(c))
    <3>1. sub'[p] = sub[p]
      BY <1>1, <2>2 DEF Respond
    <3>2. Sound(p, sub[p], desk) /\ desk \subseteq desk'
      BY DEF IInv
    <3>3. Sound(p, sub[p], desk')
      BY <3>2, SoundGrows
    <3>4. SameCreate(sub[p], sub[p])
      BY DEF SameCreate
    <3>. QED
      BY <1>1, <3>1, <3>3, <3>4
  <2>. QED
    BY <2>1, <2>2
<1>3. TypeOK'
  <2>1. DOMAIN sub' = Submissions /\ sub' = [p \in DOMAIN sub' |-> sub'[p]]
    BY <1>1 DEF Respond
  <2>2. wire' \subseteq CallType /\ desk' \subseteq CallType
    BY <1>1
  <2>. QED
    BY <1>2, <2>1, <2>2 DEF TypeOK
<1>4. Numbered'
  <2>1. wire' \cup desk' \subseteq wire \cup desk /\ wire' \cap desk' = {}
    BY DEF IInv, Numbered
  <2>2. ASSUME NEW d \in wire \cup desk
        PROVE  d.n <= sub'[d.id].n /\ d = CallAt(d.id, sub'[d.id], d.n)
    <3>1. d.id \in Submissions /\ d.n <= sub[d.id].n /\ d = CallAt(d.id, sub[d.id], d.n)
      BY <1>1 DEF IInv, Numbered, CallType
    <3>2. SameCreate(sub'[d.id], sub[d.id])
      BY <1>2, <3>1
    <3>. QED
      BY <3>1, <3>2, SameCalls DEF SameCreate
  <2>. QED
    BY <2>1, <2>2 DEF Numbered
<1>5. Elsewhere'
  <2>1. \A p \in Submissions : sub'[p].req = sub[p].req
    BY <1>2 DEF SameCreate
  <2>2. desk \subseteq desk' /\ \A d \in desk : d.id \in Submissions
    BY <1>1 DEF CallType
  <2>3. ASSUME NEW p \in Submissions, sub'[p].reply = "422"
        PROVE  \E d \in desk : d.kind = "contact" /\ d.id # p /\ sub[d.id].req.email = sub[p].req.email
    <3>1. CASE sub[p].reply = "422"
      BY <3>1 DEF IInv, Elsewhere
    <3>2. CASE p = c.id /\ reply = "422"
      BY <3>2
    <3>. QED
      BY <1>2, <2>3, <3>1, <3>2
  <2>4. ASSUME NEW p \in Submissions, sub'[p].reply = "422"
        PROVE  \E d \in desk' : d.kind = "contact" /\ d.id # p /\ sub'[d.id].req.email = sub'[p].req.email
    <3>1. PICK d \in desk : d.kind = "contact" /\ d.id # p /\ sub[d.id].req.email = sub[p].req.email
      BY <2>3, <2>4
    <3>. QED
      BY <2>1, <2>2, <3>1
  <2>. QED
    BY <2>4 DEF Elsewhere
<1>. QED
  BY <1>2, <1>3, <1>4, <1>5 DEF IInv

LEMMA ProcessKeeps ==
  ASSUME IInv, NEW c \in wire, NEW reply \in Replies, Process(c, reply) PROVE IInv'
BY AnswerKeeps DEF Process

LEMMA DeclineKeeps ==
  ASSUME IInv, NEW c \in wire, NEW reply \in Replies, Decline(c, reply) PROVE IInv'
<1>1. ASSUME Taken(c)
      PROVE  \E d \in desk : d.kind = "contact" /\ d.id # c.id /\ sub[d.id].req.email = sub[c.id].req.email
  <2>1. c.kind = "contact"
    BY <1>1 DEF Taken
  <2>2. PICK d \in desk : d.kind = "contact" /\ sub[d.id].req.email = sub[c.id].req.email
    BY <1>1 DEF Taken
  <2>3. c # d
    BY DEF IInv, Numbered
  <2>4. sub[c.id].adapter # "webhook"
    <3>1. /\ c.id \in Submissions /\ c.n \in Nat \ {0}
          /\ c = CallAt(c.id, sub[c.id], c.n)
      BY DEF IInv, TypeOK, Numbered, CallType
    <3>2. sub[c.id].adapter = "webhook" => KindAt(sub[c.id], c.n) = "ticket"
      BY DEF KindAt, UploadsFirst
    <3>3. sub[c.id].adapter = "webhook" => CallAt(c.id, sub[c.id], c.n).kind = "ticket"
      BY <3>2 DEF CallAt
    <3>. QED
      BY <2>1, <3>1, <3>3
  <2>5. d.id # c.id
    BY <2>1, <2>2, <2>3, <2>4, OneEach
  <2>. QED
    BY <2>2, <2>5
<1>2. /\ Respond(c, reply) /\ wire' = wire \ {c} /\ desk' = desk
      /\ reply \in IF Taken(c) THEN {"422"} ELSE {"hollow", "3xx", "4xx", "5xx"}
  BY DEF Decline
<1>3. reply \notin {"ok", "odd"} /\ (reply = "422" => Taken(c))
  BY <1>2
<1>. QED
  BY <1>1, <1>2, <1>3, AnswerKeeps

LEMMA LeaveKeeps ==
  ASSUME IInv, NEW r \in Submissions, Leave(r) PROVE IInv'
<1>. DEFINE x == [sub[r] EXCEPT !.gone = TRUE]
<1>1. /\ sub[r] \in SubmissionType /\ Sound(r, sub[r], desk) /\ sub[r].n \in Nat
      /\ sub' = [sub EXCEPT ![r] = x] /\ wire' = wire /\ desk' = desk
  BY SubTyped DEF IInv, Leave, Become, SubmissionType
<1>2. /\ x \in SubmissionType /\ x.pc = sub[r].pc /\ x.gone
      /\ SameCreate(x, sub[r]) /\ x.reply = sub[r].reply /\ x.answer = sub[r].answer
  BY <1>1, GoneIs
<1>. HIDE DEF x
<1>3. /\ \A k : CallAt(r, x, k) = CallAt(r, sub[r], k) /\ RefsAt(x, k) = RefsAt(sub[r], k)
      /\ Steps(x) = Steps(sub[r])
  BY <1>2, SameCalls DEF SameCreate
<1>4. Early(x)
  BY <1>1, <1>2 DEF Sound, Early, SameCreate
<1>5. Created(r, x, desk)
  BY <1>1, <1>2, <1>3 DEF Sound, Created, SameCreate
<1>6. Waiting(x)
  BY <1>1, <1>2 DEF Sound, Waiting, SameCreate
<1>7. Over(x)
  <2>1. Satisfies(x, x.reply) <=> Satisfies(sub[r], sub[r].reply)
    BY <1>2, SameSatisfies
  <2>. QED
    BY <1>1, <1>2, <1>3, <2>1 DEF Sound, Over, SameCreate
<1>8. Sound(r, x, desk)
  BY <1>4, <1>5, <1>6, <1>7 DEF Sound
<1>9. /\ x.req = sub[r].req /\ x.n >= sub[r].n /\ (sub[r].n > 0 => x.adapter = sub[r].adapter)
      /\ (x.reply = "422" => sub[r].reply = "422")
  BY <1>1, <1>2 DEF SameCreate
<1>. QED
  BY <1>1, <1>2, <1>8, <1>9, Frame

LEMMA StopKeeps == IInv /\ Stop => IInv'
<1>. SUFFICES ASSUME IInv, Stop PROVE IInv'
  OBVIOUS
<1>1. /\ sub \in [Submissions -> SubmissionType] /\ wire \subseteq CallType /\ desk \subseteq CallType
      /\ wire' = wire /\ desk' = desk
  BY DEF IInv, TypeOK, Stop
<1>2. ASSUME NEW p \in Submissions
      PROVE  /\ sub'[p] \in SubmissionType /\ SameCreate(sub'[p], sub[p])
             /\ Sound(p, sub'[p], desk) /\ sub'[p].reply = sub[p].reply
  <2>1. CASE sub[p].pc = "idle"
    <3>1. sub'[p] = sub[p]
      BY <2>1 DEF Stop
    <3>. QED
      BY <1>1, <3>1 DEF IInv, SameCreate
  <2>2. CASE sub[p].pc # "idle"
    <3>. DEFINE x == [sub[p] EXCEPT !.pc = "done"]
    <3>1. sub'[p] = x
      BY <2>2 DEF Stop
    <3>2. "done" \in PCs
      BY DEF PCs
    <3>3. /\ x \in SubmissionType /\ x.pc = "done" /\ SameCreate(x, sub[p])
          /\ x.reply = sub[p].reply /\ x.gone = sub[p].gone /\ x.answer = sub[p].answer
      BY <1>1, <3>2, GotoIs
    <3>. HIDE DEF x
    <3>4. /\ \A k : CallAt(p, x, k) = CallAt(p, sub[p], k) /\ RefsAt(x, k) = RefsAt(sub[p], k)
          /\ Steps(x) = Steps(sub[p])
      BY <3>3, SameCalls DEF SameCreate
    <3>5. Sound(p, sub[p], desk)
      BY DEF IInv
    <3>6. Created(p, x, desk)
      BY <3>3, <3>4, <3>5 DEF Sound, Created, SameCreate
    <3>7. Satisfies(x, x.reply) <=> Satisfies(sub[p], sub[p].reply)
      BY <3>3, SameSatisfies
    <3>8. Over(x)
      BY <3>3, <3>4, <3>5, <3>7 DEF Sound, Over, SameCreate
    <3>9. Sound(p, x, desk)
      BY <3>3, <3>6, <3>8 DEF Sound, Early, Waiting
    <3>. QED
      BY <3>1, <3>3, <3>9
  <2>. QED
    BY <2>1, <2>2
<1>3. TypeOK'
  <2>1. DOMAIN sub' = Submissions /\ sub' = [p \in DOMAIN sub' |-> sub'[p]]
    BY DEF Stop
  <2>. QED
    BY <1>1, <1>2, <2>1 DEF TypeOK
<1>4. Numbered'
  <2>1. ASSUME NEW d \in wire \cup desk
        PROVE  d.n <= sub'[d.id].n /\ d = CallAt(d.id, sub'[d.id], d.n)
    <3>1. d.id \in Submissions /\ d.n <= sub[d.id].n /\ d = CallAt(d.id, sub[d.id], d.n)
      BY <1>1 DEF IInv, Numbered, CallType
    <3>2. SameCreate(sub'[d.id], sub[d.id])
      BY <1>2, <3>1
    <3>. QED
      BY <3>1, <3>2, SameCalls DEF SameCreate
  <2>. QED
    BY <1>1, <2>1 DEF IInv, Numbered
<1>5. Elsewhere'
  <2>1. \A p \in Submissions : sub'[p].req = sub[p].req /\ sub'[p].reply = sub[p].reply
    BY <1>2 DEF SameCreate
  <2>2. \A d \in desk : d.id \in Submissions
    BY <1>1 DEF CallType
  <2>. QED
    BY <1>1, <2>1, <2>2 DEF IInv, Elsewhere
<1>. QED
  BY <1>1, <1>2, <1>3, <1>4, <1>5 DEF IInv

LEMMA NextKeeps == IInv /\ [Next]_vars => IInv'
<1>. SUFFICES ASSUME IInv, [Next]_vars PROVE IInv'
  OBVIOUS
<1>1. ASSUME NEW r \in Submissions, Handler(r) PROVE IInv'
  BY <1>1, ArriveKeeps, ClassifyKeeps, DispatchKeeps, ReturnsKeeps, GiveUpKeeps, RetryKeeps
     DEF Handler
<1>2. ASSUME NEW r \in Submissions, Leave(r) PROVE IInv'
  BY <1>2, LeaveKeeps
<1>3. ASSUME NEW c \in wire, Downstream(c) PROVE IInv'
  BY <1>3, ProcessKeeps, DeclineKeeps DEF Downstream
<1>4. CASE Stop
  BY <1>4, StopKeeps
<1>5. CASE UNCHANGED vars
  BY <1>5 DEF vars, IInv, TypeOK, Numbered, Elsewhere
<1>. QED
  BY <1>1, <1>2, <1>3, <1>4, <1>5 DEF Next

LEMMA Inductive == Spec => []IInv
<1>. HIDE DEF Init, Next, vars, IInv
<1>. QED
  BY InitIs, NextKeeps, PTL DEF Spec

-----------------------------------------------------------------------------
(* The properties                                                          *)

LEMMA SentIsSound ==
  ASSUME IInv, NEW c \in wire \cup desk
  PROVE  /\ c.id \in Submissions /\ sub[c.id] \in SubmissionType
         /\ Sound(c.id, sub[c.id], desk) /\ sub[c.id].n > 0
         /\ c.n \in 1..sub[c.id].n /\ c = CallAt(c.id, sub[c.id], c.n)
         /\ c.kind = KindAt(sub[c.id], c.n)
<1>1. /\ c.id \in Submissions /\ c.n \in Nat \ {0}
      /\ c.n <= sub[c.id].n /\ c = CallAt(c.id, sub[c.id], c.n)
  BY DEF IInv, Numbered, TypeOK, CallType
<1>2. sub[c.id] \in SubmissionType /\ Sound(c.id, sub[c.id], desk)
  BY <1>1, SubTyped DEF IInv
<1>3. sub[c.id].n \in Nat
  BY <1>2 DEF SubmissionType
<1>4. CallAt(c.id, sub[c.id], c.n).kind = KindAt(sub[c.id], c.n)
  BY DEF CallAt
<1>. QED
  BY <1>1, <1>2, <1>3, <1>4

(* Every reachable state is well typed. *)
THEOREM TypeCorrect == Spec => []TypeOK
<1>1. IInv => TypeOK
  BY DEF IInv
<1>. HIDE DEF IInv, TypeOK
<1>. QED
  BY <1>1, Inductive, PTL

(* What is refused is not sent, and what is sent has attachments within    *)
(* every limit (submit.go:77-107).                                         *)
THEOREM RefusedIsUnsent == Spec => []ValidOrUnsent
<1>1. IInv => ValidOrUnsent
  <2>. SUFFICES ASSUME IInv, NEW c \in wire \cup desk
                PROVE  sub[c.id].answer \in {0, 200, 502} /\ Acceptable(sub[c.id].req.atts)
    BY DEF ValidOrUnsent
  <2>. QED
    BY SentIsSound DEF Sound, Created
<1>. HIDE DEF IInv, ValidOrUnsent
<1>. QED
  BY <1>1, Inductive, PTL

(* A submission makes one ticket (contact, conversation, message), or at   *)
(* most MaxAttempts deliveries through the webhook adapter.                *)
THEOREM DeliveredOnce == Spec => []Deliveries
<1>1. IInv => Deliveries
  <2>. SUFFICES ASSUME IInv, NEW r \in Submissions, NEW k \in Kinds \ {"upload"},
                       NEW c \in Made(r, k), NEW d \in Made(r, k)
                PROVE  \/ c = d
                       \/ sub[r].adapter = "webhook" /\ c.n <= MaxAttempts /\ d.n <= MaxAttempts
    BY DEF Deliveries
  <2>1. c \in desk /\ d \in desk /\ c.id = r /\ d.id = r /\ c.kind = k /\ d.kind = k
    BY DEF Made
  <2>2. CASE sub[r].adapter # "webhook"
    BY <2>1, <2>2, OneEach
  <2>3. CASE sub[r].adapter = "webhook"
    <3>1. /\ sub[r] \in SubmissionType /\ Created(r, sub[r], desk) /\ sub[r].n > 0
          /\ c.n \in 1..sub[r].n /\ d.n \in 1..sub[r].n
      BY <2>1, SentIsSound DEF Sound
    <3>2. sub[r].n <= sub[r].attempt /\ sub[r].attempt <= MaxAttempts
      BY <2>3, <3>1 DEF Created
    <3>3. sub[r].n \in Nat /\ sub[r].attempt \in Nat /\ MaxAttempts \in Nat
      BY <3>1, SubmitAssumption DEF SubmissionType
    <3>. QED
      BY <2>3, <3>1, <3>2, <3>3
  <2>. QED
    BY <2>2, <2>3
<1>. HIDE DEF IInv, Deliveries
<1>. QED
  BY <1>1, Inductive, PTL

(* A 502 is a downstream system's fault, or the client has left.           *)
THEOREM ErrorsAreBlameless == Spec => []BlamelessError
<1>1. IInv => BlamelessError
  <2>. SUFFICES ASSUME IInv, NEW r \in Submissions, sub[r].answer = 502, ~sub[r].gone
                PROVE  \/ sub[r].reply \in {"odd", "hollow", "3xx", "4xx", "5xx", "none"}
                       \/ /\ sub[r].reply = "422"
                          /\ \E c \in desk : /\ c.kind = "contact" /\ c.id # r
                                             /\ sub[c.id].req.email = sub[r].req.email
    BY DEF BlamelessError
  <2>1. Over(sub[r])
    BY DEF IInv, Sound
  <2>2. sub[r].reply \in Replies \ {"ok"}
    BY <2>1 DEF Over
  <2>3. CASE sub[r].reply = "422"
    BY <2>3 DEF IInv, Elsewhere
  <2>4. CASE sub[r].reply # "422"
    BY <2>2, <2>4 DEF Replies
  <2>. QED
    BY <2>3, <2>4
<1>. HIDE DEF IInv, BlamelessError
<1>. QED
  BY <1>1, Inductive, PTL

(* A ticket of Zendesk or Linear names the token or url of each upload. *)
LEMMA TicketIsWhole ==
  ASSUME IInv, NEW c \in desk, c.kind = "ticket", UploadsFirst(sub[c.id])
  PROVE  Shown(c) = DOMAIN sub[c.id].req.atts
<1>. DEFINE r == c.id
            s == sub[r]
            len == Len(s.req.atts)
<1>1. /\ r \in Submissions /\ s \in SubmissionType /\ Sound(r, s, desk) /\ s.n > 0
      /\ c.n \in 1..s.n /\ c = CallAt(r, s, c.n) /\ KindAt(s, c.n) = "ticket"
  BY SentIsSound
<1>2. /\ s.n \in Nat /\ s.step \in Nat \ {0} /\ c.n \in Nat \ {0} /\ len \in Nat
      /\ Steps(s) = len + 1 /\ DOMAIN s.req.atts = 1..len
  BY <1>1, StepsTyped DEF SubmissionType
<1>. HIDE DEF s, r
<1>3. UploadsFirst(s) /\ s.adapter \in {"zendesk", "linear"} /\ s.adapter # "webhook"
  BY DEF UploadsFirst, s, r
<1>4. c.n > len
  BY <1>1, <1>2, <1>3 DEF KindAt
<1>5. c.n <= s.step /\ s.step <= len + 1
  BY <1>1, <1>2, <1>3 DEF Sound, Created
<1>6. c.n = len + 1 /\ s.step = len + 1
  BY <1>2, <1>4, <1>5
<1>7. \A j \in 1..len : CallAt(r, s, j) \in desk
  BY <1>1, <1>2, <1>6 DEF Sound, Created
<1>8. c.refs = RefsAt(s, len + 1)
  <2>1. CallAt(r, s, c.n).refs = RefsAt(s, c.n)
    BY <1>1 DEF CallAt
  <2>. QED
    BY <1>1, <1>6, <2>1
<1>9. ASSUME NEW u \in desk, u.id = r, u.kind = "upload"
      PROVE  u.part \in 1..len
  <2>1. u = CallAt(r, s, u.n) /\ KindAt(s, u.n) = "upload" /\ u.n \in 1..s.n
    BY <1>9, SentIsSound DEF s
  <2>2. u.n <= len
    BY <1>3, <2>1 DEF KindAt
  <2>3. CallAt(r, s, u.n).part = u.n
    BY <1>3 DEF CallAt
  <2>. QED
    BY <1>2, <2>1, <2>2, <2>3
<1>10. ASSUME NEW j \in 1..len
       PROVE  \E u \in desk : /\ u.id = r /\ u.kind = "upload" /\ u.part = j
                              /\ Token(u.refs, u.n) \in c.refs
  <2>. DEFINE u == CallAt(r, s, j)
  <2>1. j \in Nat \ {0} /\ j <= len /\ KindAt(s, j) = "upload"
    BY <1>2, <1>3 DEF KindAt
  <2>2. /\ u.id = r /\ u.kind = "upload" /\ u.part = j /\ u.n = j
        /\ u.refs = IF s.adapter = "linear" THEN {} ELSE RefsAt(s, j)
    BY <1>3, <2>1 DEF CallAt
  <2>3. u \in desk
    BY <1>7
  <2>. HIDE DEF u
  <2>4. CASE s.adapter = "linear"
    <3>1. Token(u.refs, u.n) = j
      BY <2>2, <2>4 DEF Token
    <3>2. c.refs = 1..len
      BY <1>2, <1>3, <1>8, <2>4 DEF RefsAt
    <3>. QED
      BY <2>2, <2>3, <3>1, <3>2
  <2>5. CASE s.adapter = "zendesk"
    <3>1. u.refs = IF j = 1 THEN {} ELSE {1}
      BY <1>3, <2>2, <2>5 DEF RefsAt
    <3>2. Token(u.refs, u.n) = 1
      BY <2>2, <3>1 DEF Token
    <3>3. c.refs = {1}
      BY <1>2, <1>3, <1>8, <2>1, <2>5 DEF RefsAt
    <3>. QED
      BY <2>2, <2>3, <3>2, <3>3
  <2>. QED
    BY <1>3, <2>4, <2>5
<1>11. Shown(c) = {u.part : u \in {u \in desk : /\ u.id = r /\ u.kind = "upload"
                                               /\ Token(u.refs, u.n) \in c.refs}}
  BY DEF Shown, r
<1>12. Shown(c) = 1..len
  <2>1. Shown(c) \subseteq 1..len
    BY <1>9, <1>11
  <2>2. 1..len \subseteq Shown(c)
    BY <1>10, <1>11
  <2>. QED
    BY <2>1, <2>2
<1>. QED
  BY <1>2, <1>12 DEF s, r

(* Zendesk and Linear never hold a ticket without all its attachments.     *)
THEOREM TicketsAreWhole == Spec => []NoPartialTicket
<1>1. IInv => NoPartialTicket
  BY TicketIsWhole DEF NoPartialTicket, Whole
<1>. HIDE DEF IInv, NoPartialTicket
<1>. QED
  BY <1>1, Inductive, PTL

(* A client that is answered 200 has its ticket, unless the reply came     *)
(* from elsewhere.                                                         *)
THEOREM OKIsFiled == Spec => []OKMeansFiled
<1>1. IInv => OKMeansFiled
  <2>. SUFFICES ASSUME IInv, NEW r \in Submissions, sub[r].answer = 200,
                       sub[r].reply \notin {"3xx", "hollow"}
                PROVE  Filed(r)
    BY DEF OKMeansFiled
  <2>. DEFINE s == sub[r]
  <2>1. /\ s \in SubmissionType /\ Created(r, s, desk)
        /\ s.n > 0 /\ s.step = Steps(s) /\ Satisfies(s, s.reply)
        /\ (s.adapter # "webhook" => s.n = s.step)
    BY SubTyped DEF IInv, Sound, Over
  <2>2. s.reply \in {"ok", "odd"}
    BY <2>1 DEF Satisfies, AnyBody, WebhookTakes
  <2>3. /\ CallAt(r, s, s.n) \in desk /\ s.adapter \in Adapters
        /\ \A j \in 1..(s.step - 1) : CallAt(r, s, j) \in desk
    BY <2>1, <2>2, SubmitAssumption DEF Created
  <2>4. \A k : CallAt(r, s, k).id = r /\ CallAt(r, s, k).kind = KindAt(s, k)
    BY DEF CallAt
  <2>5. CASE s.adapter = "chatwoot"
    <3>1. ~UploadsFirst(s) /\ Steps(s) = IF s.req.atts = <<>> THEN 2 ELSE 3
      BY <2>1, <2>5, StepsTyped DEF UploadsFirst
    <3>2. KindAt(s, 2) = "conversation" /\ KindAt(s, 3) = "message"
      BY <2>5, <3>1 DEF KindAt
    <3>3. CallAt(r, s, 2) \in desk /\ (s.req.atts # <<>> => CallAt(r, s, 3) \in desk)
      BY <2>1, <2>3, <2>5, <3>1
    <3>4. /\ Made(r, "conversation") # {}
          /\ s.req.atts # <<>> => Made(r, "message") # {}
      BY <2>4, <3>2, <3>3 DEF Made
    <3>. QED
      BY <2>5, <3>4 DEF Filed
  <2>6. CASE s.adapter # "chatwoot"
    <3>1. KindAt(s, s.n) = "ticket"
      <4>1. UploadsFirst(s) => s.n = Len(s.req.atts) + 1 /\ Len(s.req.atts) \in Nat
        BY <2>1, StepsTyped DEF UploadsFirst
      <4>. QED
        BY <2>6, <4>1 DEF KindAt
    <3>. DEFINE c == CallAt(r, s, s.n)
    <3>2. c \in desk /\ c.id = r /\ c.kind = "ticket"
      BY <2>3, <2>4, <3>1
    <3>. HIDE DEF c
    <3>3. Whole(c)
      BY <3>2, TicketIsWhole DEF Whole
    <3>4. c \in Made(r, "ticket")
      BY <3>2 DEF Made
    <3>. QED
      BY <2>6, <3>3, <3>4 DEF Filed
  <2>. QED
    BY <2>5, <2>6
<1>. HIDE DEF IInv, OKMeansFiled
<1>. QED
  BY <1>1, Inductive, PTL

LEMMA SentToNobodyGone ==
  ASSUME NEW r \in Submissions, NEW u, u.gone = sub[r].gone, Send(r, u)
  PROVE  \A c \in wire' \ wire : ~sub[c.id].gone
<1>. DEFINE x == [u EXCEPT !.pc = "await", !.reply = "waiting", !.n = @ + 1]
<1>1. wire' = wire \/ (~u.gone /\ wire' = wire \cup {Call(r, x)})
  BY DEF Send
<1>2. Call(r, x).id = r
  BY DEF Call
<1>. HIDE DEF x
<1>. QED
  BY <1>1, <1>2

(* No call is made for a client that has left.                             *)
THEOREM NoneSentWhenGone == Spec => NothingSentWhenGone
<1>. DEFINE P == \A c \in wire' \ wire : ~sub[c.id].gone
<1>1. IInv /\ [Next]_vars => P
  <2>. SUFFICES ASSUME IInv, [Next]_vars PROVE P
    OBVIOUS
  <2>1. ASSUME NEW r \in Submissions, Dispatch(r) PROVE P
    <3>. DEFINE to == Route(Registry, Rules, Default,
                            [hint |-> sub[r].req.hint, class |-> sub[r].class,
                             severity |-> sub[r].severity])
                u == [sub[r] EXCEPT !.adapter = to]
    <3>1. UNCHANGED wire \/ Send(r, u)
      BY <2>1 DEF Dispatch
    <3>2. u.gone = sub[r].gone
      BY SubTyped DEF IInv, SubmissionType
    <3>. HIDE DEF u
    <3>. QED
      BY <3>1, <3>2, SentToNobodyGone
  <2>2. ASSUME NEW r \in Submissions, NEW s \in SubmissionType, s.gone = sub[r].gone,
               Proceed(r, s, s.reply)
        PROVE  P
    <3>. DEFINE u == [s EXCEPT !.step = @ + 1, !.refs = Refs(s, s.reply)]
    <3>1. UNCHANGED wire \/ Send(r, u)
      BY <2>2 DEF Proceed
    <3>2. u.gone = sub[r].gone
      BY <2>2 DEF SubmissionType
    <3>. HIDE DEF u
    <3>. QED
      BY <3>1, <3>2, SentToNobodyGone
  <2>3. ASSUME NEW r \in Submissions, Returns(r) PROVE P
    BY <2>2, <2>3, SubTyped DEF IInv, Returns
  <2>4. ASSUME NEW r \in Submissions, GiveUp(r) PROVE P
    <3>. DEFINE s == [sub[r] EXCEPT !.reply = "none"]
    <3>1. "none" \in Replies /\ sub[r] \in SubmissionType
      BY SubTyped DEF IInv, Replies
    <3>2. s \in SubmissionType /\ s.reply = "none" /\ s.gone = sub[r].gone
      BY <3>1, ReplyIs
    <3>3. Proceed(r, s, "none")
      BY <2>4 DEF GiveUp
    <3>. HIDE DEF s
    <3>. QED
      BY <2>2, <3>2, <3>3
  <2>5. ASSUME NEW r \in Submissions, Retry(r) PROVE P
    <3>. DEFINE u == [sub[r] EXCEPT !.attempt = @ + 1]
    <3>1. Send(r, u)
      BY <2>5 DEF Retry
    <3>2. u.gone = sub[r].gone
      BY SubTyped DEF IInv, SubmissionType
    <3>. HIDE DEF u
    <3>. QED
      BY <3>1, <3>2, SentToNobodyGone
  <2>6. ASSUME NEW r \in Submissions,
               \/ Arrive(r) \/ ArriveRefused(r) \/ Classified(r) \/ ClassifyFails(r) \/ Leave(r)
        PROVE  P
    BY <2>6 DEF Arrive, ArriveRefused, Classified, ClassifyFails, Leave
  <2>7. ASSUME NEW c \in wire, Downstream(c) PROVE P
    BY <2>7 DEF Downstream, Process, Decline
  <2>8. CASE Stop \/ UNCHANGED vars
    BY <2>8 DEF Stop, vars
  <2>. QED
    BY <2>1, <2>3, <2>4, <2>5, <2>6, <2>7, <2>8 DEF Next, Handler
<1>2. Spec => [][P]_vars
  <2>. HIDE DEF P, IInv, Next, vars, Init
  <2>. QED
    BY <1>1, Inductive, PTL DEF Spec
<1>. QED
  BY <1>2 DEF NothingSentWhenGone

=============================================================================
