---------------------------- MODULE WidgetProofs ----------------------------
(***************************************************************************)
(* Theorems about Widget: type correctness, the conversation, the stream   *)
(* of a turn however it is cut, the screenshots' boxes, that no screenshot *)
(* is lost and that the relay accepts what is pending.                     *)
(*                                                                         *)
(* Total, Normalised, LastCut and FlattenSeq are recursive.  What they     *)
(* compute is proved by induction on a number, stated of sets of numbers.  *)
(***************************************************************************)
EXTENDS Widget, FiniteSetTheorems, SequenceTheorems, WellFoundedInduction, TLAPS

-----------------------------------------------------------------------------
(* Induction: a set with 0 that is closed under +1 has every number.        *)

LEMMA Induct ==
  ASSUME NEW A, 0 \in A, \A i \in Nat : i \in A => i + 1 \in A
  PROVE  Nat \subseteq A
<1> DEFINE T == Nat \ A
<1> SUFFICES ASSUME T # {} PROVE FALSE
  OBVIOUS
<1>1. PICK x \in T : \A y \in T : ~ (<<y, x>> \in OpToRel(<, Nat))
  BY NatLessThanWellFounded, WFMin
<1>2. x # 0 /\ x - 1 \in Nat /\ x \in Nat
  OBVIOUS
<1>3. <<x - 1, x>> \in OpToRel(<, Nat)
  BY <1>2 DEF OpToRel
<1>4. x - 1 \in A
  BY <1>1, <1>2, <1>3
<1>5. (x - 1) + 1 \in A
  BY <1>2, <1>4
<1> QED
  BY <1>2, <1>5

(* The same up to n. *)
LEMMA InductTo ==
  ASSUME NEW n \in Nat, NEW A, 0 \in A, \A i \in 1..n : i - 1 \in A => i \in A
  PROVE  0..n \subseteq A
<1> DEFINE B == {i \in Nat : i <= n => i \in A}
<1>1. 0 \in B
  OBVIOUS
<1>2. \A i \in Nat : i \in B => i + 1 \in B
  <2> SUFFICES ASSUME NEW i \in Nat, i \in B, i + 1 <= n PROVE i + 1 \in A
    OBVIOUS
  <2>1. i \in A /\ i + 1 \in 1..n /\ (i + 1) - 1 = i
    OBVIOUS
  <2> QED
    BY <2>1
<1> HIDE DEF B
<1>3. Nat \subseteq B
  BY <1>1, <1>2, Induct
<1> QED
  BY <1>3 DEF B

(* g starts with base and goes on by the steps of F. *)
Unrolls(g, n, base, F) == g[0] = base /\ \A k \in 1..n : g[k] = F[k][g[k - 1]]

(* Such a function exists: what a recursive definition over 0..n needs. *)
LEMMA Recursion ==
  ASSUME NEW n \in Nat, NEW S, NEW base \in S, NEW F \in [1..n -> [S -> S]]
  PROVE  \E g \in [0..n -> S] : Unrolls(g, n, base, F)
<1> DEFINE Ok(g, m) == g[0] = base /\ \A k \in 1..m : g[k] = F[k][g[k - 1]]
           A == {m \in 0..n : \E g \in [0..m -> S] : Ok(g, m)}
<1>1. 0 \in A
  <2> DEFINE g == [k \in 0..0 |-> base]
  <2>1. g \in [0..0 -> S] /\ Ok(g, 0) /\ 0 \in 0..n
    OBVIOUS
  <2> HIDE DEF g, Ok
  <2> QED
    BY <2>1
<1>2. \A m \in 1..n : m - 1 \in A => m \in A
  <2> SUFFICES ASSUME NEW m \in 1..n, m - 1 \in A PROVE m \in A
    OBVIOUS
  <2>1. PICK g \in [0..(m - 1) -> S] : Ok(g, m - 1)
    OBVIOUS
  <2> DEFINE next == F[m][g[m - 1]]
  <2>2. next \in S
    <3>1. g[m - 1] \in S /\ F[m] \in [S -> S]
      OBVIOUS
    <3> QED
      BY <3>1
  <2> HIDE DEF next
  <2> DEFINE h == [k \in 0..m |-> IF k = m THEN next ELSE g[k]]
  <2>3. h \in [0..m -> S]
    BY <2>2
  <2>4. \A k \in 0..(m - 1) : h[k] = g[k]
    OBVIOUS
  <2>5. h[m] = next
    OBVIOUS
  <2> HIDE DEF h
  <2>6. ASSUME NEW k \in 1..m PROVE h[k] = F[k][h[k - 1]]
    <3>1. CASE k = m
      BY <3>1, <2>4, <2>5 DEF next
    <3>2. CASE k # m
      <4>1. k \in 1..(m - 1) /\ k \in 0..(m - 1) /\ k - 1 \in 0..(m - 1)
        BY <3>2
      <4>2. g[k] = F[k][g[k - 1]]
        BY <4>1, <2>1
      <4> QED
        BY <4>1, <4>2, <2>4
    <3> QED
      BY <3>1, <3>2
  <2>7. h[0] = base
    BY <2>1, <2>4
  <2>8. Ok(h, m)
    BY <2>6, <2>7
  <2>9. m \in 0..n
    OBVIOUS
  <2> HIDE DEF Ok
  <2> QED
    BY <2>3, <2>8, <2>9
<1> HIDE DEF A
<1>3. 0..n \subseteq A
  BY <1>1, <1>2, InductTo
<1> QED
  BY <1>3 DEF A, Unrolls

-----------------------------------------------------------------------------
(* Totals of attachments                                                    *)

(* The sum Total looks up, by its equation *)
IsSum(sum, atts) ==
  sum = [k \in 0..Len(atts) |-> IF k = 0 THEN 0 ELSE sum[k - 1] + atts[k].size]

Sized(atts) == Len(atts) \in Nat /\ \A i \in 1..Len(atts) : atts[i].size \in Nat

(* What the running total of the sizes is: the definition without its recursion. *)
LEMMA TotalFacts ==
  ASSUME NEW atts, Sized(atts)
  PROVE  /\ Total(atts, 0) = 0
         /\ \A k \in 1..Len(atts) : Total(atts, k) = Total(atts, k - 1) + atts[k].size
         /\ \A k \in 0..Len(atts) : Total(atts, k) \in Nat
<1> DEFINE n == Len(atts)
           F == [k \in 1..n |-> [s \in Nat |-> s + atts[k].size]]
           c == CHOOSE sum : IsSum(sum, atts)
<1>1. n \in Nat /\ \A i \in 1..n : atts[i].size \in Nat
  BY DEF Sized
<1>2. F \in [1..n -> [Nat -> Nat]]
  BY <1>1
<1>3. PICK g \in [0..n -> Nat] : Unrolls(g, n, 0, F)
  <2>1. 0 \in Nat
    OBVIOUS
  <2> HIDE DEF F, n
  <2> QED
    BY <1>1, <1>2, <2>1, Recursion
<1>4. ASSUME NEW k \in 1..n PROVE g[k] = g[k - 1] + atts[k].size
  <2>1. g[k - 1] \in Nat
    BY <1>1
  <2> QED
    BY <2>1, <1>3 DEF Unrolls
<1>5. IsSum(g, atts)
  BY <1>1, <1>3, <1>4 DEF IsSum, Unrolls
<1>6. IsSum(c, atts)
  BY <1>5, Zenon
<1>7. \A k : Total(atts, k) = c[k]
  BY Zenon DEF Total, IsSum
<1> HIDE DEF c
<1>8. c[0] = 0 /\ \A k \in 1..n : c[k] = c[k - 1] + atts[k].size
  BY <1>1, <1>6 DEF IsSum
<1> DEFINE A == {k \in 0..n : c[k] \in Nat}
<1>9. 0 \in A /\ \A k \in 1..n : k - 1 \in A => k \in A
  BY <1>1, <1>8
<1> HIDE DEF A
<1>10. 0..n \subseteq A
  BY <1>1, <1>9, InductTo
<1> QED
  BY <1>7, <1>8, <1>10 DEF A

(* Lists that agree on the first sizes have the same totals there. *)
LEMMA SameTotals ==
  ASSUME NEW a, NEW b, Sized(a), Sized(b), NEW n \in Nat, n <= Len(a), n <= Len(b),
         \A i \in 1..n : a[i].size = b[i].size
  PROVE  \A k \in 0..n : Total(a, k) = Total(b, k)
<1> DEFINE A == {k \in 0..n : Total(a, k) = Total(b, k)}
<1>1. /\ Total(a, 0) = 0 /\ Total(b, 0) = 0
      /\ \A k \in 1..n : Total(a, k) = Total(a, k - 1) + a[k].size
      /\ \A k \in 1..n : Total(b, k) = Total(b, k - 1) + b[k].size
  BY TotalFacts DEF Sized
<1>2. 0 \in A /\ \A k \in 1..n : k - 1 \in A => k \in A
  BY <1>1
<1> HIDE DEF A
<1>3. 0..n \subseteq A
  BY <1>2, InductTo
<1> QED
  BY <1>3 DEF A

(* Without one of its members a list has no more in total. *)
LEMMA TotalWithout ==
  ASSUME NEW a, NEW b, Sized(a), Sized(b), NEW j \in 1..Len(a), Len(b) = Len(a) - 1,
         \A i \in 1..(j - 1) : b[i].size = a[i].size,
         \A i \in j..Len(b) : b[i].size = a[i + 1].size
  PROVE  Total(b, Len(b)) <= Total(a, Len(a))
<1> DEFINE n == Len(b)
           A == {k \in 0..n : Total(b, k) <= Total(a, k + 1)
                              /\ (k < j => Total(b, k) = Total(a, k))}
<1>1. n \in Nat /\ Len(a) = n + 1 /\ Len(a) \in Nat /\ j \in 1..(n + 1)
  BY DEF Sized
<1>2. /\ Total(a, 0) = 0 /\ Total(b, 0) = 0
      /\ \A k \in 1..n : Total(b, k) = Total(b, k - 1) + b[k].size
      /\ \A k \in 1..(n + 1) : Total(a, k) = Total(a, k - 1) + a[k].size
      /\ \A k \in 0..n : Total(b, k) \in Nat
      /\ \A k \in 0..(n + 1) : Total(a, k) \in Nat
      /\ \A k \in 1..(n + 1) : a[k].size \in Nat
  BY <1>1, TotalFacts DEF Sized
<1>3. 0 \in A
  <2>1. Total(a, 1) = Total(a, 0) + a[1].size /\ a[1].size \in Nat
    BY <1>1, <1>2
  <2> QED
    BY <2>1, <1>1, <1>2
<1>4. \A k \in 1..n : k - 1 \in A => k \in A
  <2> SUFFICES ASSUME NEW k \in 1..n, k - 1 \in A
              PROVE  /\ Total(b, k) <= Total(a, k + 1)
                     /\ k < j => Total(b, k) = Total(a, k)
    OBVIOUS
  <2>1. /\ Total(b, k) = Total(b, k - 1) + b[k].size
        /\ Total(a, k) = Total(a, k - 1) + a[k].size
        /\ Total(a, k + 1) = Total(a, k) + a[k + 1].size
        /\ Total(b, k) \in Nat /\ Total(b, k - 1) \in Nat /\ Total(a, k) \in Nat
        /\ Total(a, k - 1) \in Nat /\ Total(a, k + 1) \in Nat
        /\ a[k].size \in Nat /\ a[k + 1].size \in Nat
    <3> HIDE DEF n
    <3>1. k \in 1..(n + 1) /\ k + 1 \in 1..(n + 1) /\ (k + 1) - 1 = k
          /\ k \in 0..n /\ k - 1 \in 0..n /\ k - 1 \in 0..(n + 1) /\ k + 1 \in 0..(n + 1)
      BY <1>1
    <3> QED
      BY <3>1, <1>2
  <2>2. CASE k < j
    <3>1. b[k].size = a[k].size /\ Total(b, k - 1) = Total(a, k - 1)
      BY <2>2, <1>1
    <3> QED
      BY <3>1, <2>1
  <2>3. CASE ~(k < j)
    <3>1. b[k].size = a[k + 1].size /\ Total(b, k - 1) <= Total(a, (k - 1) + 1)
      BY <2>3, <1>1
    <3>2. (k - 1) + 1 = k
      OBVIOUS
    <3> QED
      BY <3>1, <3>2, <2>1, <2>3
  <2> QED
    BY <2>2, <2>3
<1> HIDE DEF A
<1>5. 0..n \subseteq A
  BY <1>1, <1>3, <1>4, InductTo
<1>6. n \in A /\ n + 1 = Len(a)
  BY <1>1, <1>5
<1> QED
  BY <1>6 DEF A

-----------------------------------------------------------------------------
(* Lists of screenshots: one more, one less, and what the relay makes of them *)

LEMMA Removed ==
  ASSUME NEW shots \in Seq(Shot), NEW k \in DOMAIN shots
  PROVE  /\ RemoveAt(shots, k) \in Seq(Shot) /\ Len(RemoveAt(shots, k)) = Len(shots) - 1
         /\ \A i \in 1..(Len(shots) - 1) :
              RemoveAt(shots, k)[i] = shots[IF i < k THEN i ELSE i + 1]
<1> DEFINE less == RemoveAt(shots, k)
<1>1. less = SubSeq(shots, 1, k - 1) \o SubSeq(shots, k + 1, Len(shots))
  BY DEF RemoveAt
<1>2. Len(shots) \in Nat /\ k \in 1..Len(shots) /\ DOMAIN shots = 1..Len(shots)
  OBVIOUS
<1>3. less \in Seq(Shot) /\ Len(less) = Len(shots) - 1
  BY <1>1, <1>2
<1>4. \A i \in 1..(Len(shots) - 1) : less[i] = shots[IF i < k THEN i ELSE i + 1]
  <2> DEFINE front == SubSeq(shots, 1, k - 1)
             back == SubSeq(shots, k + 1, Len(shots))
  <2>1. /\ front \in Seq(Shot) /\ Len(front) = k - 1
        /\ \A i \in 1..(k - 1) : front[i] = shots[i]
    BY <1>2
  <2>2. /\ back \in Seq(Shot) /\ Len(back) = Len(shots) - k
        /\ \A i \in 1..(Len(shots) - k) : back[i] = shots[i + k]
    BY <1>2
  <2>3. less = front \o back
    BY <1>1
  <2> HIDE DEF front, back, less
  <2> SUFFICES ASSUME NEW i \in 1..(Len(shots) - 1)
              PROVE  less[i] = shots[IF i < k THEN i ELSE i + 1]
    OBVIOUS
  <2>4. CASE i < k
    <3>1. i \in 1..(k - 1)
      BY <2>4, <1>2
    <3>2. less[i] = front[i]
      BY <3>1, <2>1, <2>2, <2>3, <1>2
    <3> QED
      BY <3>1, <3>2, <2>1, <2>4
  <2>5. CASE ~(i < k)
    <3>1. i - (k - 1) \in 1..(Len(shots) - k) /\ i - (k - 1) + k = i + 1
      BY <2>5, <1>2
    <3>2. less[i] = back[i - (k - 1)]
      BY <3>1, <2>1, <2>2, <2>3, <2>5, <1>2
    <3>3. back[i - (k - 1)] = shots[i + 1]
      BY <3>1, <2>2
    <3> QED
      BY <3>2, <3>3, <2>5
  <2> QED
    BY <2>4, <2>5
<1> QED
  BY <1>3, <1>4

(* The total of the first attachments is at most that of all of them. *)
LEMMA TotalGrows ==
  ASSUME NEW atts, Sized(atts), NEW i \in 0..Len(atts)
  PROVE  Total(atts, i) <= Total(atts, Len(atts))
<1> DEFINE n == Len(atts)
           A == {k \in 0..n : i <= k => Total(atts, i) <= Total(atts, k)}
<1>1. /\ n \in Nat /\ i \in 0..n
      /\ \A k \in 1..n : Total(atts, k) = Total(atts, k - 1) + atts[k].size
      /\ \A k \in 0..n : Total(atts, k) \in Nat
      /\ \A k \in 1..n : atts[k].size \in Nat
  BY TotalFacts DEF Sized
<1> HIDE DEF n
<1>2. 0 \in A
  BY <1>1
<1>3. ASSUME NEW k \in 1..n, k - 1 \in A PROVE k \in A
  <2>1. k - 1 \in 0..n /\ k \in 0..n /\ (i <= k - 1 \/ i = k \/ i > k)
    BY <1>1
  <2>2. /\ Total(atts, k - 1) \in Nat /\ Total(atts, i) \in Nat
        /\ atts[k].size \in Nat /\ Total(atts, k) = Total(atts, k - 1) + atts[k].size
    BY <1>1, <2>1
  <2> QED
    BY <1>1, <1>3, <2>1, <2>2
<1>4. 0..n \subseteq A
  <2> HIDE DEF A
  <2> QED
    BY <1>1, <1>2, <1>3, InductTo
<1>5. n \in A
  BY <1>1, <1>4
<1> QED
  BY <1>1, <1>5 DEF n

(* Whatever is acceptable ValidateAll accepts: the tests of a round refuse *)
(* nothing else, and no round finds a total the last one does not reach.   *)
THEOREM AcceptableSuffices ==
  ASSUME NEW atts \in Seq(AttachmentType), Acceptable(atts)
  PROVE  ValidateAll(atts) = "ok"
<1>1. /\ Len(atts) \in Nat /\ DOMAIN atts = 1..Len(atts)
      /\ \A i \in 1..Len(atts) : atts[i].size \in Nat
  <2>1. \A i \in 1..Len(atts) : atts[i] \in AttachmentType
    OBVIOUS
  <2> QED
    BY <2>1 DEF AttachmentType
<1>2. ASSUME NEW i \in DOMAIN atts PROVE Verdict(atts, i) = "ok"
  <2>1. atts # <<>> /\ i \in 1..Len(atts) /\ i \in 0..Len(atts)
    BY <1>1, <1>2
  <2>2. AttachmentsEnabled /\ Within(MaxTotalBytes, Total(atts, Len(atts)))
    BY <2>1 DEF Acceptable
  <2>3. Sized(atts)
    BY <1>1 DEF Sized
  <2>4. Total(atts, i) <= Total(atts, Len(atts))
    BY <2>1, <2>3, TotalGrows
  <2>5. Total(atts, i) \in Nat /\ Total(atts, Len(atts)) \in Nat
    BY <1>1, <2>1, <2>3, TotalFacts
  <2>6. Within(MaxTotalBytes, Total(atts, i))
    BY <2>2, <2>4, <2>5, AttachmentsAssumption DEF Within
  <2> QED
    BY <1>2, <2>2, <2>6 DEF Acceptable, Verdict, PublishedMIMETypes
<1> QED
  BY <1>2 DEF ValidateAll

(* Screenshots are sized, so the total of their sizes is defined. *)
LEMMA ShotFacts ==
  ASSUME NEW shots \in Seq(Shot)
  PROVE  /\ Sized(shots) /\ Len(shots) \in Nat /\ DOMAIN shots = 1..Len(shots)
         /\ \A i \in DOMAIN shots : shots[i].size \in Nat /\ shots[i].size > 0
<1>1. Len(shots) \in Nat /\ DOMAIN shots = 1..Len(shots)
  OBVIOUS
<1>2. \A i \in 1..Len(shots) : shots[i] \in Shot
  OBVIOUS
<1>3. \A shot \in Shot : shot.size \in Nat /\ shot.size > 0
  <2>1. \A shot \in Shot : shot.size \in Sizes
    BY DEF Shot
  <2>2. \A size \in Sizes : size \in Nat /\ size > 0
    BY WidgetAssumption
  <2> QED
    BY <2>1, <2>2
<1> QED
  BY <1>1, <1>2, <1>3 DEF Sized

(* What AttachmentList.add has let through *)
Fits(shot) == shot.mime \in PublishedMIMETypes /\ shot.size <= MaxSizeBytes

FitTogether(shots) ==
  /\ \A i \in DOMAIN shots : Fits(shots[i])
  /\ shots = <<>> \/ Total(shots, Len(shots)) <= MaxTotalBytes

(* An empty list is within the limits. *)
LEMMA FitNone == FitTogether(<<>>)
BY DEF FitTogether

(* Save keeps the list within the limits: it tested the total with the new one. *)
LEMMA FitOneMore ==
  ASSUME NEW shots \in Seq(Shot), NEW shot \in Shot, Fits(shot), FitTogether(shots),
         Total(shots, Len(shots)) + shot.size <= MaxTotalBytes
  PROVE  FitTogether(Append(shots, shot))
<1> DEFINE n == Len(shots)
           more == Append(shots, shot)
<1>1. /\ n \in Nat /\ more \in Seq(Shot) /\ Len(more) = n + 1
      /\ more[n + 1] = shot /\ \A i \in 1..n : more[i] = shots[i]
      /\ DOMAIN more = 1..(n + 1) /\ DOMAIN shots = 1..n
  OBVIOUS
<1> HIDE DEF more
<1>2. Sized(shots) /\ Sized(more)
  BY <1>1, ShotFacts
<1>3. Total(more, n) = Total(shots, n)
  <2>1. \A i \in 1..n : more[i].size = shots[i].size
    BY <1>1
  <2>2. n <= Len(shots) /\ n <= Len(more) /\ n \in 0..n
    BY <1>1
  <2> HIDE DEF n
  <2> QED
    BY <1>1, <1>2, <2>1, <2>2, SameTotals
<1>4. Total(more, n + 1) = Total(more, (n + 1) - 1) + more[n + 1].size
  BY <1>1, <1>2, TotalFacts
<1>5. Total(more, Len(more)) <= MaxTotalBytes
  BY <1>1, <1>3, <1>4
<1>6. \A i \in DOMAIN more : Fits(more[i])
  BY <1>1 DEF FitTogether
<1> QED
  BY <1>5, <1>6 DEF FitTogether, more

(* Removing a screenshot makes no prefix heavier, so what is left still fits. *)
LEMMA FitOneLess ==
  ASSUME NEW shots \in Seq(Shot), NEW k \in DOMAIN shots, FitTogether(shots)
  PROVE  FitTogether(RemoveAt(shots, k))
<1> DEFINE less == RemoveAt(shots, k)
<1>1. /\ less \in Seq(Shot) /\ Len(less) = Len(shots) - 1
      /\ \A i \in 1..(Len(shots) - 1) : less[i] = shots[IF i < k THEN i ELSE i + 1]
  BY Removed
<1> HIDE DEF less
<1>2. /\ Len(shots) \in Nat /\ k \in 1..Len(shots) /\ DOMAIN shots = 1..Len(shots)
      /\ DOMAIN less = 1..(Len(shots) - 1)
  BY <1>1
<1>3. Sized(shots) /\ Sized(less)
  BY <1>1, ShotFacts
<1>4. Total(less, Len(less)) <= Total(shots, Len(shots))
  <2>1. \A i \in 1..(k - 1) : less[i].size = shots[i].size
    BY <1>1, <1>2
  <2>2. \A i \in k..Len(less) : less[i].size = shots[i + 1].size
    BY <1>1, <1>2
  <2> QED
    BY <1>1, <1>2, <1>3, <2>1, <2>2, TotalWithout
<1>5. Total(shots, Len(shots)) <= MaxTotalBytes
  <2>1. shots # <<>>
    OBVIOUS
  <2> QED
    BY <2>1 DEF FitTogether
<1>6. Total(less, Len(less)) \in Nat /\ Total(shots, Len(shots)) \in Nat
  BY <1>1, <1>2, <1>3, TotalFacts
<1>7. Total(less, Len(less)) <= MaxTotalBytes
  BY <1>4, <1>5, <1>6, AttachmentsAssumption
<1>8. ASSUME NEW i \in DOMAIN less PROVE Fits(less[i])
  <2>1. (IF i < k THEN i ELSE i + 1) \in DOMAIN shots
    BY <1>2
  <2> QED
    BY <2>1, <1>1, <1>2 DEF FitTogether
<1> QED
  BY <1>7, <1>8 DEF FitTogether, less

(* Such a list is acceptable to the relay. *)
LEMMA FitAccepted ==
  ASSUME NEW shots \in Seq(Shot), FitTogether(shots)
  PROVE  Acceptable(Wire(shots))
<1> DEFINE wire == Wire(shots)
           n == Len(shots)
<1>1. n \in Nat /\ DOMAIN shots = 1..n
  OBVIOUS
<1>2. ASSUME NEW i \in 1..n
      PROVE  /\ wire[i].type = "screenshot" /\ wire[i].mime = shots[i].mime
             /\ wire[i].url = "base64" /\ wire[i].size = shots[i].size
             /\ wire[i].sniffed = shots[i].mime
  BY <1>1 DEF Wire
<1>3. DOMAIN wire = 1..n /\ Len(wire) = n
  BY <1>1 DEF Wire
<1>4. wire = <<>> <=> n = 0
  BY <1>1, <1>3 DEF Wire
<1> HIDE DEF wire
<1>5. \A i \in 1..n :
        /\ shots[i].mime \in PublishedMIMETypes /\ shots[i].size <= MaxSizeBytes
        /\ shots[i].size \in Nat /\ shots[i].size > 0
  BY <1>1, ShotFacts DEF FitTogether, Fits
<1>6. \A i \in 1..n : AttachmentsEnabled /\ shots[i].mime \in AllowedMIMETypes \cap Accepted
  BY <1>5 DEF PublishedMIMETypes
<1>7. ASSUME NEW i \in DOMAIN wire
      PROVE  /\ wire[i].type = "screenshot"
             /\ wire[i].mime \in AllowedMIMETypes \cap Accepted
             /\ Decodes(wire[i])
             /\ Within(MaxSizeBytes, wire[i].size)
             /\ wire[i].sniffed = wire[i].mime
  BY <1>2, <1>3, <1>5, <1>6 DEF Decodes, Within
<1>8. CASE n = 0
  BY <1>4, <1>7, <1>8 DEF Acceptable, wire
<1>9. CASE n # 0
  <2>1. Sized(shots) /\ Sized(wire)
    BY <1>1, <1>2, <1>3, <1>5, ShotFacts DEF Sized
  <2>2. Total(wire, n) = Total(shots, n)
    <3>1. \A i \in 1..n : wire[i].size = shots[i].size
      BY <1>2
    <3>2. n <= Len(shots) /\ n <= Len(wire) /\ n \in 0..n
      BY <1>1, <1>3
    <3> HIDE DEF n
    <3> QED
      BY <1>1, <2>1, <3>1, <3>2, SameTotals
  <2>3. Total(shots, n) <= MaxTotalBytes
    <3>1. shots # <<>>
      BY <1>9
    <3> QED
      BY <3>1 DEF FitTogether
  <2>4. AttachmentsEnabled
    BY <1>1, <1>6, <1>9
  <2> QED
    BY <1>3, <1>7, <2>2, <2>3, <2>4 DEF Acceptable, Within, wire
<1> QED
  BY <1>8, <1>9

(* A list within the limits goes out as attachments of the relay's type. *)
LEMMA WireType ==
  ASSUME NEW shots \in Seq(Shot), FitTogether(shots)
  PROVE  Wire(shots) \in Seq(AttachmentType)
<1>1. /\ Len(shots) \in Nat /\ DOMAIN shots = 1..Len(shots)
      /\ \A i \in DOMAIN shots : shots[i].size \in Nat
  BY ShotFacts
<1>2. \A i \in DOMAIN shots : shots[i].mime \in MIMETypes
  BY AttachmentsAssumption DEF FitTogether, Fits, PublishedMIMETypes
<1>3. Wire(shots) \in [1..Len(shots) -> AttachmentType]
  BY <1>1, <1>2 DEF Wire, AttachmentType
<1> QED
  BY <1>1, <1>3

-----------------------------------------------------------------------------
(* Normalised and LastCut, a piece at a time                                *)

(* How one piece of a chunk changes the normalised text so far *)
Normalises(chunk, i, before, after) ==
  IF chunk[i] = "CR" THEN after = Append(before, "LF")
  ELSE IF chunk[i] = "LF" /\ i > 1 /\ chunk[i - 1] = "CR" THEN after = before
  ELSE after = Append(before, chunk[i])

(* The normalised text of a chunk, built piece by piece. *)
LEMMA NormalisedFacts ==
  ASSUME NEW chunk \in Seq(Pieces)
  PROVE  \E text \in [0..Len(chunk) -> Seq(Pieces)] :
           /\ Normalised(chunk) = text[Len(chunk)]
           /\ text[0] = <<>>
           /\ \A i \in 1..Len(chunk) : Normalises(chunk, i, text[i - 1], text[i])
<1> DEFINE n == Len(chunk)
           Writes(i, before) == IF chunk[i] = "CR" THEN Append(before, "LF")
                                ELSE IF chunk[i] = "LF" /\ i > 1 /\ chunk[i - 1] = "CR"
                                THEN before
                                ELSE Append(before, chunk[i])
           Is(text) == text = [i \in 0..n |-> IF i = 0 THEN <<>> ELSE Writes(i, text[i - 1])]
           c == CHOOSE text : Is(text)
           F == [i \in 1..n |-> [before \in Seq(Pieces) |-> Writes(i, before)]]
<1>1. n \in Nat /\ \A i \in 1..n : chunk[i] \in Pieces
  OBVIOUS
<1>2. \A i \in 1..n : \A before \in Seq(Pieces) : Writes(i, before) \in Seq(Pieces)
  BY <1>1 DEF Pieces
<1>3. Normalised(chunk) = c[n]
  BY Zenon DEF Normalised
<1> HIDE DEF Writes
<1>4. F \in [1..n -> [Seq(Pieces) -> Seq(Pieces)]]
  BY <1>2
<1>5. PICK g \in [0..n -> Seq(Pieces)] : Unrolls(g, n, <<>>, F)
  <2>1. <<>> \in Seq(Pieces)
    OBVIOUS
  <2> HIDE DEF F, n, c
  <2> QED
    BY <1>1, <1>4, <2>1, Recursion
<1>6. ASSUME NEW i \in 1..n PROVE g[i] = Writes(i, g[i - 1])
  <2>1. i - 1 \in 0..n /\ g[i - 1] \in Seq(Pieces)
    <3> HIDE DEF n, F, c
    <3> QED
      BY <1>1
  <2>2. g[i] = F[i][g[i - 1]]
    BY <1>5 DEF Unrolls
  <2> QED
    BY <2>1, <2>2
<1>7. Is(g)
  BY <1>1, <1>5, <1>6 DEF Unrolls
<1>8. Is(c)
  BY <1>7, Zenon
<1> HIDE DEF c
<1>9. c[0] = <<>> /\ \A i \in 1..n : c[i] = Writes(i, c[i - 1])
  BY <1>1, <1>8
<1> DEFINE A == {i \in 0..n : c[i] \in Seq(Pieces)}
<1>10. 0 \in A /\ \A i \in 1..n : i - 1 \in A => i \in A
  <2>1. <<>> \in Seq(Pieces) /\ 0 \in 0..n /\ \A i \in 1..n : i \in 0..n
    BY <1>1
  <2> HIDE DEF n
  <2>2. 0 \in A
    BY <1>9, <2>1
  <2>3. ASSUME NEW i \in 1..n, i - 1 \in A PROVE i \in A
    <3>1. c[i - 1] \in Seq(Pieces) /\ c[i] = Writes(i, c[i - 1])
      BY <1>9, <2>3
    <3> QED
      BY <3>1, <1>2, <2>1
  <2> QED
    BY <2>2, <2>3
<1>11. 0..n \subseteq A
  <2> HIDE DEF A
  <2> QED
    BY <1>1, <1>10, InductTo
<1>12. c \in [0..n -> Seq(Pieces)]
  BY <1>8, <1>11
<1>13. \A i \in 1..n : Normalises(chunk, i, c[i - 1], c[i])
  BY <1>9 DEF Writes, Normalises
<1> QED
  BY <1>3, <1>9, <1>12, <1>13

(* The places behind which the buffer is cut: pairs of LF, from the left *)
CutsOf(cuts, text) ==
  /\ cuts \subseteq 1..Len(text)
  /\ \A i \in 1..Len(text) :
       i \in cuts <=> i > 1 /\ text[i] = "LF" /\ text[i - 1] = "LF" /\ i - 1 \notin cuts

IsLastOf(cuts, n, c) == c \in 0..n /\ (c = 0 \/ c \in cuts) /\ \A j \in (c + 1)..n : j \notin cuts

(* A set of places up to n has a last one, or none. *)
LEMMA LastOne ==
  ASSUME NEW n \in Nat, NEW cuts
  PROVE  \E c \in 0..n : IsLastOf(cuts, n, c)
<1> DEFINE A == {m \in Nat : \E c \in 0..m : IsLastOf(cuts, m, c)}
<1>1. 0 \in A
  BY DEF IsLastOf
<1>2. ASSUME NEW m \in Nat, m \in A PROVE m + 1 \in A
  <2>1. PICK c \in 0..m : IsLastOf(cuts, m, c)
    BY <1>2
  <2>2. CASE m + 1 \in cuts
    <3>1. IsLastOf(cuts, m + 1, m + 1)
      BY <2>2 DEF IsLastOf
    <3> QED
      BY <3>1
  <2>3. CASE m + 1 \notin cuts
    <3>1. IsLastOf(cuts, m + 1, c)
      BY <2>1, <2>3 DEF IsLastOf
    <3> QED
      BY <3>1
  <2> QED
    BY <2>2, <2>3
<1> HIDE DEF A
<1>3. Nat \subseteq A
  BY <1>1, <1>2, Induct
<1> QED
  BY <1>3 DEF A

(* LastCut is the last place after a blank line. *)
LEMMA CutFacts ==
  ASSUME NEW text \in Seq(Pieces)
  PROVE  \E cuts : CutsOf(cuts, text) /\ IsLastOf(cuts, Len(text), LastCut(text))
<1> DEFINE n == Len(text)
           Cut(i, before) == i > 1 /\ text[i] = "LF" /\ text[i - 1] = "LF" /\ ~before
           Is(ends) == ends = [i \in 0..n |-> /\ i > 1
                                              /\ text[i] = "LF" /\ text[i - 1] = "LF"
                                              /\ ~ends[i - 1]]
           e == CHOOSE ends : Is(ends)
           F == [i \in 1..n |-> [before \in BOOLEAN |-> Cut(i, before)]]
           cuts == {i \in 1..n : e[i]}
<1>1. n \in Nat
  OBVIOUS
<1>2. F \in [1..n -> [BOOLEAN -> BOOLEAN]]
  OBVIOUS
<1>3. PICK g \in [0..n -> BOOLEAN] : Unrolls(g, n, FALSE, F)
  <2>1. FALSE \in BOOLEAN
    OBVIOUS
  <2> HIDE DEF F, n, e
  <2> QED
    BY <1>1, <1>2, <2>1, Recursion
<1>4. \A i \in 1..n : g[i] = Cut(i, g[i - 1])
  BY <1>1, <1>3 DEF Unrolls
<1>5. Is(g)
  BY <1>1, <1>3, <1>4 DEF Unrolls
<1>6. Is(e)
  BY <1>5, Zenon
<1>7. LastCut(text) = CHOOSE i \in 0..n : /\ i = 0 \/ e[i]
                                         /\ \A j \in (i + 1)..n : ~e[j]
  BY Zenon DEF LastCut
<1> HIDE DEF e
<1>8. \A i \in 0..n : e[i] <=> i > 1 /\ text[i] = "LF" /\ text[i - 1] = "LF" /\ ~e[i - 1]
  BY <1>6
<1>9. CutsOf(cuts, text)
  BY <1>1, <1>8 DEF CutsOf
<1>10. \A i \in 0..n : IsLastOf(cuts, n, i) <=>
         (i = 0 \/ e[i]) /\ \A j \in (i + 1)..n : ~e[j]
  BY <1>1 DEF IsLastOf
<1>11. IsLastOf(cuts, n, LastCut(text))
  <2>1. PICK i \in 0..n : IsLastOf(cuts, n, i)
    BY <1>1, LastOne
  <2>2. \E j \in 0..n : (j = 0 \/ e[j]) /\ \A k \in (j + 1)..n : ~e[k]
    BY <2>1, <1>10
  <2>3. LastCut(text) \in 0..n /\ (LastCut(text) = 0 \/ e[LastCut(text)])
        /\ \A k \in (LastCut(text) + 1)..n : ~e[k]
    BY <1>7, <2>2, Zenon
  <2> QED
    BY <2>3, <1>10
<1> QED
  BY <1>9, <1>11

(* Blocks and Rest are the text before and after the last cut. *)
LEMMA CutText ==
  ASSUME NEW text \in Seq(Pieces)
  PROVE  /\ LastCut(text) \in 0..Len(text)
         /\ Blocks(text) \in Seq(Pieces) /\ Len(Blocks(text)) = LastCut(text)
         /\ \A i \in 1..LastCut(text) : Blocks(text)[i] = text[i]
         /\ Rest(text) \in Seq(Pieces) /\ Len(Rest(text)) = Len(text) - LastCut(text)
         /\ \A i \in 1..Len(Rest(text)) : Rest(text)[i] = text[LastCut(text) + i]
<1> DEFINE c == LastCut(text)
<1>1. c \in 0..Len(text) /\ Len(text) \in Nat
  BY CutFacts DEF IsLastOf
<1>2. Blocks(text) = SubSeq(text, 1, c) /\ Rest(text) = SubSeq(text, c + 1, Len(text))
  BY DEF Blocks, Rest
<1> HIDE DEF c
<1>3. /\ SubSeq(text, 1, c) \in Seq(Pieces) /\ Len(SubSeq(text, 1, c)) = c
      /\ \A i \in 1..c : SubSeq(text, 1, c)[i] = text[i]
  BY <1>1
<1>4. /\ SubSeq(text, c + 1, Len(text)) \in Seq(Pieces)
      /\ Len(SubSeq(text, c + 1, Len(text))) = Len(text) - c
      /\ \A i \in 1..(Len(text) - c) : SubSeq(text, c + 1, Len(text))[i] = text[c + i]
  BY <1>1
<1> QED
  BY <1>1, <1>2, <1>3, <1>4 DEF c

EndsInLF(text) == Len(text) > 0 /\ text[Len(text)] = "LF"

(* The text with one piece more. *)
LEMMA LongerText ==
  ASSUME NEW text \in Seq(Pieces), NEW piece \in Pieces
  PROVE  /\ Append(text, piece) \in Seq(Pieces) /\ Len(text) \in Nat
         /\ Len(Append(text, piece)) = Len(text) + 1
         /\ Append(text, piece)[Len(text) + 1] = piece
         /\ \A i \in 1..Len(text) : Append(text, piece)[i] = text[i]
OBVIOUS

(* One more piece either completes a pair of LF, and all of the buffer is  *)
(* cut off, or only makes what is left longer.                             *)
LEMMA CutMoves ==
  ASSUME NEW text \in Seq(Pieces), NEW piece \in Pieces
  PROVE  LastCut(Append(text, piece)) =
           IF piece = "LF" /\ EndsInLF(Rest(text)) THEN Len(text) + 1 ELSE LastCut(text)
<1> DEFINE n == Len(text)
           more == Append(text, piece)
           c == LastCut(text)
           d == LastCut(more)
<1>1. /\ more \in Seq(Pieces) /\ Len(more) = n + 1 /\ n \in Nat
      /\ more[n + 1] = piece /\ \A i \in 1..n : more[i] = text[i]
  BY LongerText
<1>2. PICK C : CutsOf(C, text) /\ IsLastOf(C, n, c)
  BY CutFacts
<1>3. PICK D : CutsOf(D, more) /\ IsLastOf(D, n + 1, d)
  <2> HIDE DEF more
  <2> QED
    BY <1>1, CutFacts
<1>4. EndsInLF(Rest(text)) <=> c # n /\ text[n] = "LF"
  <2>1. c \in 0..n /\ Len(Rest(text)) = n - c
        /\ \A i \in 1..Len(Rest(text)) : Rest(text)[i] = text[c + i]
    BY CutText
  <2> DEFINE rest == Rest(text)
  <2> HIDE DEF c, n, rest
  <2>2. CASE c = n
    BY <2>1, <2>2, <1>1 DEF EndsInLF, rest
  <2>3. CASE c # n
    <3>1. n - c \in 1..(n - c) /\ n - c > 0 /\ c + (n - c) = n
      BY <2>1, <2>3, <1>1
    <3>2. Len(rest) = n - c /\ rest[n - c] = text[n]
      BY <2>1, <3>1 DEF rest
    <3> QED
      BY <2>3, <3>1, <3>2 DEF EndsInLF, rest
  <2> QED
    BY <2>2, <2>3
<1> HIDE DEF n, more, c, d
<1> DEFINE A == {i \in 0..n : i \in C <=> i \in D}
<1>5. 0..n \subseteq A
  <2>1. 0 \in A
    BY <1>1, <1>2, <1>3 DEF CutsOf, n
  <2>2. ASSUME NEW i \in 1..n, i - 1 \in A PROVE i \in A
    <3>1. i \in C <=> i > 1 /\ text[i] = "LF" /\ text[i - 1] = "LF" /\ i - 1 \notin C
      BY <1>2 DEF CutsOf, n
    <3>2. i \in D <=> i > 1 /\ more[i] = "LF" /\ more[i - 1] = "LF" /\ i - 1 \notin D
      BY <1>1, <1>3 DEF CutsOf
    <3>3. more[i] = text[i] /\ (i > 1 => more[i - 1] = text[i - 1])
      BY <1>1
    <3> QED
      BY <3>1, <3>2, <3>3, <2>2, <1>1
  <2> HIDE DEF A
  <2> QED
    BY <2>1, <2>2, <1>1, InductTo
<1>6. \A i \in 0..n : i \in C <=> i \in D
  BY <1>5
<1>7. n + 1 \in D <=> piece = "LF" /\ n > 0 /\ text[n] = "LF" /\ n \notin C
  <2>1. n + 1 \in D <=> n + 1 > 1 /\ more[n + 1] = "LF" /\ more[(n + 1) - 1] = "LF"
                        /\ (n + 1) - 1 \notin D
    BY <1>1, <1>3 DEF CutsOf
  <2>2. (n + 1) - 1 = n /\ (n + 1 > 1 <=> n > 0) /\ n \in 0..n
    BY <1>1
  <2>3. n > 0 => more[n] = text[n]
    BY <1>1
  <2> QED
    BY <2>1, <2>2, <2>3, <1>1, <1>6
<1>8. CASE piece = "LF" /\ c # n /\ text[n] = "LF"
  <2>1. n > 0 /\ n \notin C
    BY <1>1, <1>2, <1>8 DEF IsLastOf
  <2>2. n + 1 \in D
    BY <2>1, <1>7, <1>8
  <2>3. d = n + 1
    BY <2>2, <1>1, <1>3 DEF IsLastOf
  <2> QED
    BY <2>3, <1>4, <1>8 DEF d, c, n, more
<1>9. CASE ~(piece = "LF" /\ c # n /\ text[n] = "LF")
  <2>1. n + 1 \notin D
    BY <1>1, <1>2, <1>7, <1>9 DEF IsLastOf
  <2>2. d \in 0..n /\ c \in 0..n
    BY <2>1, <1>1, <1>2, <1>3 DEF IsLastOf
  <2>3. ~(d < c)
    BY <2>2, <1>1, <1>2, <1>3, <1>6 DEF IsLastOf
  <2>4. ~(c < d)
    BY <2>2, <1>1, <1>2, <1>3, <1>6 DEF IsLastOf
  <2>5. d = c
    BY <2>2, <2>3, <2>4, <1>1
  <2> QED
    BY <2>5, <1>4, <1>9 DEF d, c, n, more
<1> QED
  BY <1>8, <1>9

(* Append by its elements. *)
LEMMA Appended ==
  ASSUME NEW S, NEW s \in Seq(S), NEW x \in S, NEW n \in Nat, Len(s) = n
  PROVE  /\ Append(s, x) \in Seq(S) /\ Len(Append(s, x)) = n + 1
         /\ Append(s, x)[n + 1] = x
         /\ \A i \in 1..n : Append(s, x)[i] = s[i]
OBVIOUS

(* A sequence with those elements is the Append. *)
LEMMA AppendIs ==
  ASSUME NEW S, NEW s \in Seq(S), NEW x \in S, NEW n \in Nat, Len(s) = n,
         NEW t \in Seq(S), Len(t) = n + 1, t[n + 1] = x, \A i \in 1..n : t[i] = s[i]
  PROVE  Append(s, x) = t
<1> DEFINE u == Append(s, x)
<1>1. u \in Seq(S) /\ Len(u) = n + 1 /\ u[n + 1] = x /\ \A i \in 1..n : u[i] = s[i]
  BY Appended
<1> HIDE DEF u
<1>2. \A i \in 1..(n + 1) : u[i] = t[i]
  BY <1>1
<1>3. u = t
  BY <1>1, <1>2, SeqEqual
<1> QED
  BY <1>3 DEF u

(* Append to the short tuples the buffers are made of. *)
LEMMA AppendToOne ==
  ASSUME NEW a, NEW b
  PROVE  Append(<<a>>, b) = <<a, b>>
<1> DEFINE s == <<a>>
           t == <<a, b>>
           S == {a, b}
<1>1. s \in Seq(S) /\ Len(s) = 1 /\ s[1] = a
  OBVIOUS
<1>2. t \in Seq(S) /\ Len(t) = 1 + 1 /\ t[1] = a /\ t[1 + 1] = b
  OBVIOUS
<1>3. 1 \in Nat /\ b \in S
  OBVIOUS
<1> HIDE DEF s, t, S
<1>4. \A i \in 1..1 : t[i] = s[i]
  BY <1>1, <1>2
<1>5. Append(s, b) = t
  BY <1>1, <1>2, <1>3, <1>4, AppendIs
<1> QED
  BY <1>5 DEF s, t

LEMMA AppendToTwo ==
  ASSUME NEW a, NEW b, NEW c
  PROVE  Append(<<a, b>>, c) = <<a, b, c>>
<1> DEFINE s == <<a, b>>
           t == <<a, b, c>>
           S == {a, b, c}
<1>1. s \in Seq(S) /\ Len(s) = 2 /\ s[1] = a /\ s[2] = b
  OBVIOUS
<1>2. t \in Seq(S) /\ Len(t) = 2 + 1 /\ t[1] = a /\ t[2] = b /\ t[2 + 1] = c
  OBVIOUS
<1>3. 2 \in Nat /\ c \in S
  OBVIOUS
<1> HIDE DEF s, t, S
<1>4. \A i \in 1..2 : t[i] = s[i]
  BY <1>1, <1>2
<1>5. Append(s, c) = t
  BY <1>1, <1>2, <1>3, <1>4, AppendIs
<1> QED
  BY <1>5 DEF s, t

LEMMA AppendToThree ==
  ASSUME NEW a, NEW b, NEW c, NEW d
  PROVE  Append(<<a, b, c>>, d) = <<a, b, c, d>>
<1> DEFINE s == <<a, b, c>>
           t == <<a, b, c, d>>
           S == {a, b, c, d}
<1>1. s \in Seq(S) /\ Len(s) = 3 /\ s[1] = a /\ s[2] = b /\ s[3] = c
  OBVIOUS
<1>2. t \in Seq(S) /\ Len(t) = 3 + 1 /\ t[1] = a /\ t[2] = b /\ t[3] = c /\ t[3 + 1] = d
  OBVIOUS
<1>3. 3 \in Nat /\ d \in S
  OBVIOUS
<1> HIDE DEF s, t, S
<1>4. \A i \in 1..3 : t[i] = s[i]
  BY <1>1, <1>2
<1>5. Append(s, d) = t
  BY <1>1, <1>2, <1>3, <1>4, AppendIs
<1> QED
  BY <1>5 DEF s, t

(* The tail of an appended sequence is the appended tail. *)
LEMMA TailOfLonger ==
  ASSUME NEW S, NEW s \in Seq(S), NEW x \in S, NEW c \in 0..Len(s)
  PROVE  SubSeq(Append(s, x), c + 1, Len(s) + 1) = Append(SubSeq(s, c + 1, Len(s)), x)
<1> DEFINE n == Len(s)
           left == SubSeq(Append(s, x), c + 1, n + 1)
           right == Append(SubSeq(s, c + 1, n), x)
<1>1. n \in Nat /\ Append(s, x) \in Seq(S) /\ Len(Append(s, x)) = n + 1
  OBVIOUS
<1>2. /\ left \in Seq(S) /\ Len(left) = n + 1 - c
      /\ \A i \in 1..(n + 1 - c) : left[i] = Append(s, x)[c + i]
  <2> DEFINE more == Append(s, x)
  <2>1. more \in Seq(S) /\ Len(more) = n + 1
    BY <1>1
  <2> HIDE DEF more
  <2>2. /\ SubSeq(more, c + 1, n + 1) \in Seq(S)
        /\ Len(SubSeq(more, c + 1, n + 1)) = n + 1 - c
        /\ \A i \in 1..(n + 1 - c) : SubSeq(more, c + 1, n + 1)[i] = more[c + i]
    BY <2>1, <1>1
  <2> QED
    BY <2>2 DEF more
<1>3. /\ right \in Seq(S) /\ Len(right) = n + 1 - c
      /\ right[n + 1 - c] = x /\ \A i \in 1..(n - c) : right[i] = s[c + i]
  <2> DEFINE f == SubSeq(s, c + 1, n)
  <2>1. f \in Seq(S) /\ Len(f) = n - c /\ \A i \in 1..(n - c) : f[i] = s[c + i]
    BY <1>1
  <2> HIDE DEF f
  <2> QED
    BY <2>1, <1>1
<1>4. \A i \in 1..(n + 1 - c) : left[i] = right[i]
  BY <1>1, <1>2, <1>3
<1> HIDE DEF left, right
<1> QED
  BY <1>2, <1>3, <1>4, SeqEqual DEF left, right

(* A piece more either completes a block, and everything is cut, or stays in the rest. *)
LEMMA CutStep ==
  ASSUME NEW text \in Seq(Pieces), NEW piece \in Pieces
  PROVE  IF piece = "LF" /\ EndsInLF(Rest(text))
         THEN /\ Blocks(Append(text, piece)) = Append(text, piece)
              /\ Rest(Append(text, piece)) = <<>>
         ELSE /\ Blocks(Append(text, piece)) = Blocks(text)
              /\ Rest(Append(text, piece)) = Append(Rest(text), piece)
<1> DEFINE n == Len(text)
           more == Append(text, piece)
           c == LastCut(text)
<1>1. /\ more \in Seq(Pieces) /\ Len(more) = n + 1 /\ n \in Nat /\ c \in 0..n
      /\ more[n + 1] = piece /\ \A i \in 1..n : more[i] = text[i]
  BY LongerText, CutText
<1>2. Blocks(more) = SubSeq(more, 1, LastCut(more)) /\ Rest(more) = SubSeq(more, LastCut(more) + 1, n + 1)
  BY <1>1 DEF Blocks, Rest
<1>3. Blocks(text) = SubSeq(text, 1, c) /\ Rest(text) = SubSeq(text, c + 1, n)
  BY DEF Blocks, Rest
<1>4. CASE piece = "LF" /\ EndsInLF(Rest(text))
  <2>1. LastCut(more) = n + 1
    BY <1>4, CutMoves
  <2> HIDE DEF n, more, c
  <2>2. SubSeq(more, 1, n + 1) = more /\ SubSeq(more, (n + 1) + 1, n + 1) = <<>>
    BY <1>1
  <2> QED
    BY <1>2, <1>4, <2>1, <2>2 DEF more
<1>5. CASE ~(piece = "LF" /\ EndsInLF(Rest(text)))
  <2>1. LastCut(more) = c
    BY <1>5, CutMoves
  <2> HIDE DEF c
  <2>2. SubSeq(more, 1, c) = SubSeq(text, 1, c)
    BY <1>1
  <2>3. SubSeq(more, c + 1, n + 1) = Append(SubSeq(text, c + 1, n), piece)
    BY <1>1, TailOfLonger DEF more
  <2> QED
    BY <1>2, <1>3, <1>5, <2>1, <2>2, <2>3
<1> QED
  BY <1>4, <1>5

-----------------------------------------------------------------------------
(* What the buffer may hold: at most an LF, then at most one frame's line, *)
(* not ended twice.                                                        *)
Lead == {<<>>, <<"LF">>}
Headed == {<<"head">>, <<"LF", "head">>}
Kinded(kind) == {<<"head", kind>>, <<"LF", "head", kind>>}
Lined(kind) == {<<"head", kind, "LF">>, <<"LF", "head", kind, "LF">>}

Buffers == Lead \cup Headed \cup UNION {Kinded(kind) \cup Lined(kind) : kind \in Kinds}

(* The buffer after one more piece *)
Pushed(buffer, piece) ==
  IF piece = "LF" /\ EndsInLF(buffer) THEN <<>> ELSE Append(buffer, piece)

Holds(buffer, kind) == IF \E i \in 1..Len(buffer) : buffer[i] = kind THEN 1 ELSE 0

(* From each shape of the buffer, what the next piece of a frame makes of it. *)
LEMMA LeadPushed ==
  ASSUME NEW b \in Lead
  PROVE  /\ Pushed(b, "LF") \in Lead /\ Pushed(b, "head") \in Headed
         /\ b \in Seq(Pieces) /\ \A kind \in Kinds : Holds(b, kind) = 0
<1>1. CASE b = <<>>
  BY <1>1 DEF Lead, Headed, Pushed, EndsInLF, Holds, Pieces
<1>2. CASE b = <<"LF">>
  <2>1. Append(b, "head") = <<"LF", "head">>
    BY <1>2, AppendToOne
  <2>2. b \in Seq(Pieces) /\ Len(b) = 1 /\ b[1] = "LF"
    BY <1>2 DEF Pieces
  <2>3. \A kind \in Kinds : kind # "LF"
    BY DEF Kinds
  <2> QED
    BY <2>1, <2>2, <2>3 DEF Lead, Headed, Pushed, EndsInLF, Holds
<1> QED
  BY <1>1, <1>2 DEF Lead

LEMMA HeadedPushed ==
  ASSUME NEW b \in Headed, NEW kind \in Kinds
  PROVE  /\ Pushed(b, kind) \in Kinded(kind) /\ ~EndsInLF(b)
         /\ b \in Seq(Pieces) /\ \A k \in Kinds : Holds(b, k) = 0
<1>1. kind # "LF" /\ kind # "head" /\ \A k \in Kinds : k # "LF" /\ k # "head"
  BY DEF Kinds
<1>2. CASE b = <<"head">>
  <2>1. Append(b, kind) = <<"head", kind>>
    BY <1>2, AppendToOne
  <2>2. b \in Seq(Pieces) /\ Len(b) = 1 /\ b[1] = "head"
    BY <1>2 DEF Pieces
  <2> QED
    BY <1>1, <2>1, <2>2 DEF Kinded, Pushed, EndsInLF, Holds
<1>3. CASE b = <<"LF", "head">>
  <2>1. Append(b, kind) = <<"LF", "head", kind>>
    BY <1>3, AppendToTwo
  <2>2. b \in Seq(Pieces) /\ Len(b) = 2 /\ b[1] = "LF" /\ b[2] = "head"
    BY <1>3 DEF Pieces
  <2> QED
    BY <1>1, <2>1, <2>2 DEF Kinded, Pushed, EndsInLF, Holds
<1> QED
  BY <1>2, <1>3 DEF Headed

LEMMA KindedPushed ==
  ASSUME NEW kind \in Kinds, NEW b \in Kinded(kind)
  PROVE  /\ Pushed(b, "LF") \in Lined(kind) /\ ~EndsInLF(b)
         /\ b \in Seq(Pieces)
         /\ \A k \in Kinds : Holds(b, k) = IF k = kind THEN 1 ELSE 0
<1>1. kind \in Pieces /\ \A k \in Kinds : k # "LF" /\ k # "head"
  BY DEF Kinds, Pieces
<1>2. CASE b = <<"head", kind>>
  <2>1. Append(b, "LF") = <<"head", kind, "LF">>
    BY <1>2, AppendToTwo
  <2>2. b \in Seq(Pieces) /\ Len(b) = 2 /\ b[1] = "head" /\ b[2] = kind
    BY <1>1, <1>2 DEF Pieces
  <2> QED
    BY <1>1, <2>1, <2>2 DEF Lined, Pushed, EndsInLF, Holds
<1>3. CASE b = <<"LF", "head", kind>>
  <2>1. Append(b, "LF") = <<"LF", "head", kind, "LF">>
    BY <1>3, AppendToThree
  <2>2. b \in Seq(Pieces) /\ Len(b) = 3 /\ b[1] = "LF" /\ b[2] = "head" /\ b[3] = kind
    BY <1>1, <1>3 DEF Pieces
  <2> QED
    BY <1>1, <2>1, <2>2 DEF Lined, Pushed, EndsInLF, Holds
<1> QED
  BY <1>2, <1>3 DEF Kinded

LEMMA LinedPushed ==
  ASSUME NEW kind \in Kinds, NEW b \in Lined(kind)
  PROVE  /\ Pushed(b, "LF") = <<>> /\ EndsInLF(b)
         /\ b \in Seq(Pieces)
         /\ \A k \in Kinds : Holds(b, k) = IF k = kind THEN 1 ELSE 0
<1>1. kind \in Pieces /\ \A k \in Kinds : k # "LF" /\ k # "head"
  BY DEF Kinds, Pieces
<1>2. CASE b = <<"head", kind, "LF">>
  <2>1. b \in Seq(Pieces) /\ Len(b) = 3 /\ b[1] = "head" /\ b[2] = kind /\ b[3] = "LF"
    BY <1>1, <1>2 DEF Pieces
  <2> QED
    BY <1>1, <2>1 DEF Pushed, EndsInLF, Holds
<1>3. CASE b = <<"LF", "head", kind, "LF">>
  <2>1. b \in Seq(Pieces) /\ Len(b) = 4 /\ b[1] = "LF" /\ b[2] = "head" /\ b[3] = kind
        /\ b[4] = "LF"
    BY <1>1, <1>3 DEF Pieces
  <2> QED
    BY <1>1, <2>1 DEF Pushed, EndsInLF, Holds
<1> QED
  BY <1>2, <1>3 DEF Lined

-----------------------------------------------------------------------------
(* The frames of a text, and of its two parts                               *)

(* A frame's line is whole in the buffer or not there. *)
OneLine(buffer) ==
  /\ \A i \in 1..Len(buffer) : buffer[i] \in Kinds => i > 1 /\ buffer[i - 1] = "head"
  /\ \A i, j \in 1..Len(buffer) : buffer[i] \in Kinds /\ buffer[j] \in Kinds => i = j

(* There is nothing to dispatch in it. *)
NoCut(buffer) == \A i \in 2..Len(buffer) : buffer[i] = "LF" => buffer[i - 1] # "LF"

(* Every buffer is a text without a cut that holds at most one line of a kind. *)
LEMMA BufferShape ==
  ASSUME NEW b \in Buffers
  PROVE  b \in Seq(Pieces) /\ OneLine(b) /\ NoCut(b)
<1>1. "LF" \notin Kinds /\ "head" \notin Kinds /\ "LF" # "head" /\ Kinds \subseteq Pieces
      /\ "LF" \in Pieces /\ "head" \in Pieces
  BY DEF Kinds, Pieces
<1> HIDE DEF Kinds, Pieces
<1>2. CASE b \in Lead \cup Headed
  <2>1. b \in Seq(Pieces) /\ NoCut(b) /\ \A i \in 1..Len(b) : b[i] \notin Kinds
    <3>1. CASE b = <<>>
      BY <3>1 DEF NoCut
    <3>2. CASE b = <<"LF">>
      <4>1. b \in Seq(Pieces) /\ Len(b) = 1 /\ b[1] = "LF"
        BY <1>1, <3>2
      <4> QED
        BY <1>1, <4>1 DEF NoCut
    <3>3. CASE b = <<"head">>
      <4>1. b \in Seq(Pieces) /\ Len(b) = 1 /\ b[1] = "head"
        BY <1>1, <3>3
      <4> QED
        BY <1>1, <4>1 DEF NoCut
    <3>4. CASE b = <<"LF", "head">>
      <4>1. b \in Seq(Pieces) /\ Len(b) = 2 /\ b[1] = "LF" /\ b[2] = "head"
        BY <1>1, <3>4
      <4> QED
        BY <1>1, <4>1 DEF NoCut
    <3> QED
      BY <1>2, <3>1, <3>2, <3>3, <3>4 DEF Lead, Headed
  <2> QED
    BY <2>1 DEF OneLine
<1>3. ASSUME NEW kind \in Kinds, b \in Kinded(kind) \cup Lined(kind)
      PROVE  b \in Seq(Pieces) /\ OneLine(b) /\ NoCut(b)
  <2>1. CASE b = <<"head", kind>>
    <3>1. b \in Seq(Pieces) /\ Len(b) = 2 /\ b[1] = "head" /\ b[2] = kind
      BY <1>1, <2>1
    <3> QED
      BY <1>1, <3>1 DEF OneLine, NoCut
  <2>2. CASE b = <<"LF", "head", kind>>
    <3>1. b \in Seq(Pieces) /\ Len(b) = 3 /\ b[1] = "LF" /\ b[2] = "head" /\ b[3] = kind
      BY <1>1, <2>2
    <3> QED
      BY <1>1, <3>1 DEF OneLine, NoCut
  <2>3. CASE b = <<"head", kind, "LF">>
    <3>1. b \in Seq(Pieces) /\ Len(b) = 3 /\ b[1] = "head" /\ b[2] = kind /\ b[3] = "LF"
      BY <1>1, <2>3
    <3> QED
      BY <1>1, <3>1 DEF OneLine, NoCut
  <2>4. CASE b = <<"LF", "head", kind, "LF">>
    <3>1. b \in Seq(Pieces) /\ Len(b) = 4 /\ b[1] = "LF" /\ b[2] = "head" /\ b[3] = kind
          /\ b[4] = "LF"
      BY <1>1, <2>4
    <3> QED
      BY <1>1, <3>1 DEF OneLine, NoCut
  <2> QED
    BY <1>3, <2>1, <2>2, <2>3, <2>4 DEF Kinded, Lined
<1> QED
  BY <1>2, <1>3 DEF Buffers

(* The frames of a text are finitely many. *)
LEMMA FramesFinite ==
  ASSUME NEW text \in Seq(Pieces), NEW kind
  PROVE  /\ IsFiniteSet(FramesIn(text, kind)) /\ Cardinality(FramesIn(text, kind)) \in Nat
         /\ FramesIn(text, kind) \subseteq 1..Len(text)
<1>1. Len(text) \in Nat /\ IsFiniteSet(1..Len(text))
  BY FS_Interval
<1>2. FramesIn(text, kind) \subseteq 1..Len(text)
  BY <1>1 DEF FramesIn
<1>3. IsFiniteSet(FramesIn(text, kind))
  BY <1>1, <1>2, FS_Subset
<1> QED
  BY <1>2, <1>3, FS_CardinalityType

(* The frames in all of the buffer are those to be dispatched and the one  *)
(* that is kept.                                                           *)
LEMMA FramesSplit ==
  ASSUME NEW text \in Seq(Pieces), OneLine(Rest(text)), NEW kind \in Kinds
  PROVE  /\ Cardinality(FramesIn(text, kind)) =
              Cardinality(FramesIn(Blocks(text), kind)) + Holds(Rest(text), kind)
         /\ FramesIn(text, kind) # {} =>
              FramesIn(Blocks(text), kind) # {} \/ Holds(Rest(text), kind) = 1
<1> DEFINE n == Len(text)
           c == LastCut(text)
           blocks == Blocks(text)
           rest == Rest(text)
           all == FramesIn(text, kind)
           some == FramesIn(blocks, kind)
<1>1. /\ n \in Nat /\ c \in 0..n
      /\ blocks \in Seq(Pieces) /\ Len(blocks) = c /\ \A i \in 1..c : blocks[i] = text[i]
      /\ Len(rest) = n - c /\ \A i \in 1..(n - c) : rest[i] = text[c + i]
  BY CutText
<1>2. IsFiniteSet(some) /\ Cardinality(some) \in Nat /\ some \subseteq 1..c
  BY <1>1, FramesFinite
<1>3. \A i : i \in all <=> i \in 2..n /\ text[i - 1] = "head" /\ text[i] = kind
  BY DEF FramesIn
<1>4. \A i : i \in some <=> i \in 2..c /\ text[i - 1] = "head" /\ text[i] = kind
  BY <1>1 DEF FramesIn
<1>5. OneLine(rest)
  OBVIOUS
<1> HIDE DEF n, c, blocks, rest, all, some
<1>6. \A i \in 1..c : i \in all <=> i \in some
  BY <1>1, <1>3, <1>4
<1>7. \A i \in all : i \in 1..c \/ (i - c \in 1..(n - c) /\ rest[i - c] = kind)
  <2> SUFFICES ASSUME NEW i \in all, i \notin 1..c
               PROVE  i - c \in 1..(n - c) /\ rest[i - c] = kind
    OBVIOUS
  <2>1. i \in 2..n /\ text[i] = kind
    BY <1>3
  <2>2. i - c \in 1..(n - c) /\ c + (i - c) = i
    BY <2>1, <1>1
  <2> QED
    BY <2>1, <2>2, <1>1
<1>8. ASSUME NEW i \in 1..(n - c), rest[i] = kind
      PROVE  c + i \in all
  <2>1. i > 1 /\ rest[i - 1] = "head"
    BY <1>1, <1>5, <1>8 DEF OneLine
  <2>2. i - 1 \in 1..(n - c) /\ c + (i - 1) = (c + i) - 1 /\ c + i \in 2..n
    BY <1>1, <2>1
  <2> QED
    BY <2>1, <2>2, <1>1, <1>3, <1>8
<1>9. CASE \E i \in 1..(n - c) : rest[i] = kind
  <2>1. PICK i \in 1..(n - c) : rest[i] = kind
    BY <1>9
  <2>2. c + i \in all /\ c + i \notin some
    BY <2>1, <1>1, <1>2, <1>8
  <2>3. \A j \in all : j \in some \/ j = c + i
    <3> SUFFICES ASSUME NEW j \in all, j \notin some PROVE j = c + i
      OBVIOUS
    <3>1. j - c \in 1..(n - c) /\ rest[j - c] = kind
      BY <1>6, <1>7
    <3>2. j - c = i
      BY <3>1, <2>1, <1>1, <1>5 DEF OneLine
    <3>3. j \in 2..n
      BY <1>3
    <3> QED
      BY <3>2, <3>3, <1>1
  <2>4. some \subseteq all
    BY <1>2, <1>6
  <2>5. all = some \cup {c + i}
    BY <2>2, <2>3, <2>4
  <2>6. Cardinality(all) = Cardinality(some) + 1
    BY <2>2, <2>5, <1>2, FS_AddElement
  <2>7. Holds(rest, kind) = 1
    BY <2>1, <1>1 DEF Holds
  <2> QED
    BY <2>6, <2>7 DEF all, some, rest, blocks
<1>10. CASE ~\E i \in 1..(n - c) : rest[i] = kind
  <2>1. all = some
    BY <1>10, <1>2, <1>6, <1>7
  <2>2. Holds(rest, kind) = 0
    BY <1>10, <1>1 DEF Holds
  <2> QED
    BY <2>1, <2>2, <1>2 DEF all, some, rest, blocks
<1> QED
  BY <1>9, <1>10

(* What a piece adds to the frames to be dispatched *)
LEMMA FramesStep ==
  ASSUME NEW text \in Seq(Pieces), OneLine(Rest(text)), NEW kind \in Kinds,
         NEW piece \in Pieces
  PROVE  IF piece = "LF" /\ EndsInLF(Rest(text))
         THEN /\ Cardinality(FramesIn(Blocks(Append(text, piece)), kind)) =
                   Cardinality(FramesIn(Blocks(text), kind)) + Holds(Rest(text), kind)
              /\ FramesIn(Blocks(Append(text, piece)), kind) # {} =>
                   FramesIn(Blocks(text), kind) # {} \/ Holds(Rest(text), kind) = 1
         ELSE FramesIn(Blocks(Append(text, piece)), kind) = FramesIn(Blocks(text), kind)
<1>1. CASE piece = "LF" /\ EndsInLF(Rest(text))
  <2>1. Blocks(Append(text, piece)) = Append(text, piece)
    BY <1>1, CutStep
  <2>2. FramesIn(Append(text, piece), kind) = FramesIn(text, kind)
    <3> DEFINE more == Append(text, piece)
    <3>1. /\ Len(text) \in Nat /\ Len(more) = Len(text) + 1
          /\ more[Len(text) + 1] = piece /\ \A i \in 1..Len(text) : more[i] = text[i]
      BY LongerText
    <3> HIDE DEF more
    <3>2. kind # "LF"
      BY DEF Kinds
    <3>3. FramesIn(more, kind) = FramesIn(text, kind)
      BY <1>1, <3>1, <3>2 DEF FramesIn
    <3> QED
      BY <3>3 DEF more
  <2> QED
    BY <1>1, <2>1, <2>2, FramesSplit
<1>2. CASE ~(piece = "LF" /\ EndsInLF(Rest(text)))
  BY <1>2, CutStep
<1> QED
  BY <1>1, <1>2

-----------------------------------------------------------------------------
(* The texts a relay may answer with: whole frames, and an end at most      *)

(* Where a wire stands after a piece: between frames, or in which part of  *)
(* one                                                                     *)
Phases == {"start", "head", "kind", "eol", "cr", "crlf", "crlfcr"}

Moves(before, piece, after) ==
  \/ before = "start" /\ piece = "head" /\ after = "head"
  \/ before = "head" /\ piece \in Kinds /\ after = "kind"
  \/ before = "kind" /\ piece = "LF" /\ after = "eol"
  \/ before = "eol" /\ piece = "LF" /\ after = "start"
  \/ before = "kind" /\ piece = "CR" /\ after = "cr"
  \/ before = "cr" /\ piece = "LF" /\ after = "crlf"
  \/ before = "crlf" /\ piece = "CR" /\ after = "crlfcr"
  \/ before = "crlfcr" /\ piece = "LF" /\ after = "start"

Parsed(wire, phase) ==
  /\ phase \in [0..Len(wire) -> Phases]
  /\ phase[0] = "start" /\ phase[Len(wire)] = "start"
  /\ \A i \in 1..Len(wire) : Moves(phase[i - 1], wire[i], phase[i])

Ending == {"done", "error"}

(* Nothing comes after a terminal frame. *)
Terminated(wire) ==
  \A i, j \in 1..Len(wire) : wire[i] \in Ending /\ i < j => wire[j] \notin Kinds \cup {"head"}

(* A wire of whole frames *)
Framed(wire) == wire \in Seq(Pieces) /\ \E phase : Parsed(wire, phase)

NoEnding(wire) == \A i \in 1..Len(wire) : wire[i] \notin Ending

(* Concatenation by its elements. *)
LEMMA Joined ==
  ASSUME NEW a \in Seq(Pieces), NEW b \in Seq(Pieces)
  PROVE  /\ a \o b \in Seq(Pieces) /\ Len(a) \in Nat /\ Len(b) \in Nat
         /\ Len(a \o b) = Len(a) + Len(b)
         /\ \A i \in 1..Len(a) : (a \o b)[i] = a[i]
         /\ \A i \in 1..Len(b) : (a \o b)[Len(a) + i] = b[i]
OBVIOUS

(* Frames after frames are frames. *)
LEMMA FramedTogether ==
  ASSUME NEW a, NEW b, Framed(a), Framed(b)
  PROVE  Framed(a \o b)
<1>1. a \in Seq(Pieces) /\ b \in Seq(Pieces)
  BY DEF Framed
<1> DEFINE m == Len(a)
           n == Len(b)
           w == a \o b
<1>2. /\ w \in Seq(Pieces) /\ m \in Nat /\ n \in Nat /\ Len(w) = m + n
      /\ \A i \in 1..m : w[i] = a[i]
      /\ \A i \in 1..n : w[m + i] = b[i]
  BY <1>1, Joined
<1>3. PICK p : Parsed(a, p)
  BY DEF Framed
<1>4. PICK q : Parsed(b, q)
  BY DEF Framed
<1>5. p \in [0..m -> Phases] /\ p[0] = "start" /\ p[m] = "start"
      /\ \A i \in 1..m : Moves(p[i - 1], a[i], p[i])
  BY <1>3 DEF Parsed
<1>6. q \in [0..n -> Phases] /\ q[0] = "start" /\ q[n] = "start"
      /\ \A i \in 1..n : Moves(q[i - 1], b[i], q[i])
  BY <1>4 DEF Parsed
<1> HIDE DEF m, n, w
<1> DEFINE r == [i \in 0..(m + n) |-> IF i <= m THEN p[i] ELSE q[i - m]]
<1>7. r \in [0..(m + n) -> Phases]
  <2> SUFFICES ASSUME NEW i \in 0..(m + n) PROVE r[i] \in Phases
    OBVIOUS
  <2>1. i <= m \/ i - m \in 0..n
    BY <1>2
  <2>2. i <= m => i \in 0..m
    BY <1>2
  <2> QED
    BY <2>1, <2>2, <1>5, <1>6
<1>8. r[0] = "start" /\ r[m + n] = "start"
  <2>1. 0 \in 0..(m + n) /\ m + n \in 0..(m + n) /\ 0 <= m
    BY <1>2
  <2>2. r[0] = "start"
    BY <2>1, <1>5
  <2>3. CASE n = 0
    <3>1. m + n = m /\ m \in 0..(m + n) /\ m <= m
      BY <2>3, <1>2
    <3>2. r[m] = "start"
      BY <3>1, <1>5
    <3> HIDE DEF r
    <3> QED
      BY <2>2, <3>1, <3>2
  <2>4. CASE n # 0
    <3>1. ~(m + n <= m) /\ (m + n) - m = n
      BY <2>4, <1>2
    <3>2. r[m + n] = q[n]
      BY <2>1, <3>1
    <3> HIDE DEF r
    <3> QED
      BY <2>2, <3>2, <1>6
  <2> QED
    BY <2>2, <2>3, <2>4
<1>9. ASSUME NEW i \in 1..(m + n) PROVE Moves(r[i - 1], w[i], r[i])
  <2>1. i \in 0..(m + n) /\ i - 1 \in 0..(m + n)
    BY <1>2
  <2>2. CASE i <= m
    <3>1. i \in 1..m /\ i - 1 <= m
      BY <2>2, <1>2
    <3>2. r[i] = p[i] /\ r[i - 1] = p[i - 1] /\ w[i] = a[i]
      BY <2>1, <2>2, <3>1, <1>2
    <3> QED
      BY <3>1, <3>2, <1>5
  <2>3. CASE ~(i <= m)
    <3>1. i - m \in 1..n /\ m + (i - m) = i /\ (i - m) - 1 = (i - 1) - m
      BY <2>3, <1>2
    <3>2. r[i] = q[i - m] /\ w[i] = b[i - m]
      BY <2>1, <2>3, <3>1, <1>2
    <3>3. r[i - 1] = q[(i - m) - 1]
      <4>1. CASE i - 1 = m
        <5>1. (i - m) - 1 = 0 /\ i - 1 <= m
          BY <4>1, <1>2
        <5> QED
          BY <4>1, <5>1, <2>1, <1>5, <1>6
      <4>2. CASE i - 1 # m
        <5>1. ~(i - 1 <= m)
          BY <4>2, <2>3, <1>2
        <5> QED
          BY <5>1, <2>1, <3>1
      <4> QED
        BY <4>1, <4>2
    <3> QED
      BY <3>1, <3>2, <3>3, <1>6
  <2> QED
    BY <2>2, <2>3
<1>10. Parsed(w, r)
  <2> HIDE DEF r
  <2> QED
    BY <1>2, <1>7, <1>8, <1>9 DEF Parsed
<1> HIDE DEF r
<1> QED
  BY <1>2, <1>10 DEF Framed, w

(* The empty answer is made of no frames. *)
LEMMA EmptyFramed == Framed(<<>>)
<1> DEFINE p == [i \in 0..0 |-> "start"]
<1>1. p \in [0..0 -> Phases] /\ p[0] = "start" /\ Len(<<>>) = 0 /\ <<>> \in Seq(Pieces)
  BY DEF Phases
<1> HIDE DEF p
<1>2. Parsed(<<>>, p)
  BY <1>1 DEF Parsed
<1> QED
  BY <1>1, <1>2 DEF Framed

(* A frame by its pieces: its head, its kind and two line ends. *)
LEMMA FrameParts ==
  ASSUME NEW kind \in Kinds, NEW eol \in Seq(Pieces), NEW n \in Nat, Len(eol) = n
  PROVE  /\ Frame(kind, eol) \in Seq(Pieces) /\ Len(Frame(kind, eol)) = 2 + n + n
         /\ Frame(kind, eol)[1] = "head" /\ Frame(kind, eol)[2] = kind
         /\ \A i \in 1..n : /\ Frame(kind, eol)[2 + i] = eol[i]
                            /\ Frame(kind, eol)[2 + n + i] = eol[i]
<1> DEFINE a == <<"head", kind>>
           ae == a \o eol
           aee == ae \o eol
<1>1. a \in Seq(Pieces) /\ Len(a) = 2 /\ a[1] = "head" /\ a[2] = kind
  BY DEF Pieces
<1> HIDE DEF a
<1>2. /\ ae \in Seq(Pieces) /\ Len(ae) = 2 + n
      /\ \A i \in 1..2 : ae[i] = a[i]
      /\ \A i \in 1..n : ae[2 + i] = eol[i]
  <2> DEFINE m == 2
  <2>1. m \in Nat /\ Len(a) = m
    BY <1>1
  <2> HIDE DEF m
  <2>2. /\ ae \in Seq(Pieces) /\ Len(ae) = m + n
        /\ \A i \in 1..m : ae[i] = a[i]
        /\ \A i \in 1..n : ae[m + i] = eol[i]
    BY <2>1, <1>1, Joined
  <2> QED
    BY <2>2 DEF m
<1> HIDE DEF ae
<1>3. /\ aee \in Seq(Pieces) /\ Len(aee) = 2 + n + n
      /\ \A i \in 1..(2 + n) : aee[i] = ae[i]
      /\ \A i \in 1..n : aee[2 + n + i] = eol[i]
  <2> DEFINE m == 2 + n
  <2>1. m \in Nat /\ Len(ae) = m
    BY <1>2
  <2> HIDE DEF m
  <2>2. /\ aee \in Seq(Pieces) /\ Len(aee) = m + n
        /\ \A i \in 1..m : aee[i] = ae[i]
        /\ \A i \in 1..n : aee[m + i] = eol[i]
    BY <2>1, <1>2, Joined
  <2> QED
    BY <2>2 DEF m
<1> HIDE DEF aee
<1>4. Frame(kind, eol) = aee
  BY DEF Frame, a, ae, aee
<1>5. 1 \in 1..(2 + n) /\ 2 \in 1..(2 + n) /\ \A i \in 1..n : 2 + i \in 1..(2 + n)
  OBVIOUS
<1> QED
  BY <1>1, <1>2, <1>3, <1>4, <1>5

(* Only the second piece of a frame is a kind. *)
LEMMA FrameFacts ==
  ASSUME NEW kind \in Kinds, NEW eol \in LineEnds
  PROVE  LET frame == Frame(kind, eol) IN
         /\ Framed(frame)
         /\ Len(frame) \in Nat /\ 2 \in 1..Len(frame) /\ frame[2] = kind /\ frame[1] = "head"
         /\ \A i \in 1..Len(frame) : i # 1 /\ i # 2 => frame[i] \in {"CR", "LF"}
<1>1. eol = <<"LF">> \/ eol = <<"CR", "LF">>
  BY WidgetAssumption
<1>2. CASE eol = <<"LF">>
  <2> DEFINE f == Frame(kind, eol)
             p == [i \in 0..4 |-> CASE i = 0 -> "start" [] i = 1 -> "head" [] i = 2 -> "kind"
                                    [] i = 3 -> "eol" [] OTHER -> "start"]
  <2>1. eol \in Seq(Pieces) /\ Len(eol) = 1 /\ eol[1] = "LF"
    BY <1>2 DEF Pieces
  <2>2. f \in Seq(Pieces) /\ Len(f) = 4 /\ f[1] = "head" /\ f[2] = kind /\ f[3] = "LF" /\ f[4] = "LF"
    <3>1. 2 + 1 + 1 = 4 /\ 2 + 1 = 3 /\ 2 + 1 + 1 = 4
      OBVIOUS
    <3>2. /\ f \in Seq(Pieces) /\ Len(f) = 2 + 1 + 1 /\ f[1] = "head" /\ f[2] = kind
          /\ \A i \in 1..1 : f[2 + i] = eol[i] /\ f[2 + 1 + i] = eol[i]
      <4> DEFINE n == 1
      <4>1. n \in Nat /\ Len(eol) = n /\ eol \in Seq(Pieces)
        BY <2>1
      <4> HIDE DEF n
      <4>2. /\ f \in Seq(Pieces) /\ Len(f) = 2 + n + n /\ f[1] = "head" /\ f[2] = kind
            /\ \A i \in 1..n : f[2 + i] = eol[i] /\ f[2 + n + i] = eol[i]
        BY <4>1, FrameParts
      <4> QED
        BY <4>2 DEF n
    <3> HIDE DEF f
    <3>3. f[2 + 1] = eol[1] /\ f[2 + 1 + 1] = eol[1]
      BY <3>2
    <3> QED
      BY <2>1, <3>1, <3>2, <3>3
  <2>3. p[0] = "start" /\ p[1] = "head" /\ p[2] = "kind" /\ p[3] = "eol" /\ p[4] = "start"
        /\ p \in [0..4 -> Phases]
    BY DEF Phases
  <2> HIDE DEF f, p
  <2>4. \A i \in 1..4 : i = 1 \/ i = 2 \/ i = 3 \/ i = 4
    OBVIOUS
  <2>5. \A i \in 1..4 : Moves(p[i - 1], f[i], p[i])
    BY <2>2, <2>3, <2>4 DEF Moves
  <2>6. Parsed(f, p)
    BY <2>2, <2>3, <2>5 DEF Parsed
  <2>7. Framed(f)
    BY <2>2, <2>6 DEF Framed
  <2> QED
    BY <2>2, <2>4, <2>7 DEF f
<1>3. CASE eol = <<"CR", "LF">>
  <2> DEFINE f == Frame(kind, eol)
             p == [i \in 0..6 |-> CASE i = 0 -> "start" [] i = 1 -> "head" [] i = 2 -> "kind"
                                    [] i = 3 -> "cr" [] i = 4 -> "crlf" [] i = 5 -> "crlfcr"
                                    [] OTHER -> "start"]
  <2>1. eol \in Seq(Pieces) /\ Len(eol) = 2 /\ eol[1] = "CR" /\ eol[2] = "LF"
    BY <1>3 DEF Pieces
  <2>2. f \in Seq(Pieces) /\ Len(f) = 6 /\ f[1] = "head" /\ f[2] = kind /\ f[3] = "CR" /\ f[4] = "LF" /\ f[5] = "CR" /\ f[6] = "LF"
    <3>1. 2 + 2 + 2 = 6 /\ 2 + 1 = 3 /\ 2 + 2 = 4 /\ 2 + 2 + 1 = 5 /\ 2 + 2 + 2 = 6
      OBVIOUS
    <3>2. /\ f \in Seq(Pieces) /\ Len(f) = 2 + 2 + 2 /\ f[1] = "head" /\ f[2] = kind
          /\ \A i \in 1..2 : f[2 + i] = eol[i] /\ f[2 + 2 + i] = eol[i]
      <4>1. 2 \in Nat
        OBVIOUS
      <4> QED
        BY <2>1, <4>1, FrameParts
    <3> HIDE DEF f
    <3>3. /\ f[2 + 1] = eol[1] /\ f[2 + 2 + 1] = eol[1]
          /\ f[2 + 2] = eol[2] /\ f[2 + 2 + 2] = eol[2]
      BY <3>2
    <3> QED
      BY <2>1, <3>1, <3>2, <3>3
  <2>3. p[0] = "start" /\ p[1] = "head" /\ p[2] = "kind" /\ p[3] = "cr" /\ p[4] = "crlf"
        /\ p[5] = "crlfcr" /\ p[6] = "start" /\ p \in [0..6 -> Phases]
    BY DEF Phases
  <2> HIDE DEF f, p
  <2>4. \A i \in 1..6 : i = 1 \/ i = 2 \/ i = 3 \/ i = 4 \/ i = 5 \/ i = 6
    OBVIOUS
  <2>5. \A i \in 1..6 : Moves(p[i - 1], f[i], p[i])
    BY <2>2, <2>3, <2>4 DEF Moves
  <2>6. Parsed(f, p)
    BY <2>2, <2>3, <2>5 DEF Parsed
  <2>7. Framed(f)
    BY <2>2, <2>6 DEF Framed
  <2> QED
    BY <2>2, <2>4, <2>7 DEF f
<1> QED
  BY <1>1, <1>2, <1>3

(* What a response may hold *)
Proper(wire) == Framed(wire) /\ Terminated(wire)

(* One frame more after frames that have not ended the answer. *)
LEMMA FrameAdded ==
  ASSUME NEW wire, Framed(wire), NoEnding(wire), NEW kind \in Kinds, NEW eol \in LineEnds
  PROVE  /\ Proper(wire \o Frame(kind, eol))
         /\ kind \notin Ending => NoEnding(wire \o Frame(kind, eol))
<1> DEFINE f == Frame(kind, eol)
           m == Len(wire)
           n == Len(f)
           w == wire \o f
<1>1. /\ Framed(f) /\ n \in Nat /\ 2 \in 1..n /\ f[2] = kind /\ f[1] = "head"
      /\ \A i \in 1..n : i # 1 /\ i # 2 => f[i] \in {"CR", "LF"}
  BY FrameFacts
<1>2. wire \in Seq(Pieces) /\ f \in Seq(Pieces)
  BY <1>1 DEF Framed
<1>3. /\ m \in Nat /\ Len(w) = m + n
      /\ \A i \in 1..m : w[i] = wire[i]
      /\ \A i \in 1..n : w[m + i] = f[i]
  BY <1>2, Joined
<1>4. Framed(w)
  BY <1>1, FramedTogether
<1> HIDE DEF f, m, n, w
<1>5. \A i \in 1..(m + n) : i \in 1..m \/ (i - m \in 1..n /\ m + (i - m) = i)
  BY <1>1, <1>3
<1>6. ASSUME NEW i \in 1..(m + n), w[i] \in Ending
      PROVE  i = m + 2 /\ kind \in Ending
  <2>1. i \notin 1..m
    BY <1>3, <1>6 DEF NoEnding, m
  <2>2. i - m \in 1..n /\ w[i] = f[i - m]
    BY <2>1, <1>3, <1>5
  <2>3. i - m = 2
    BY <2>2, <1>1, <1>6 DEF Ending
  <2> QED
    BY <2>2, <2>3, <1>1, <1>3, <1>6
<1>7. ASSUME NEW i \in 1..(m + n), NEW j \in 1..(m + n), w[i] \in Ending, i < j
      PROVE  w[j] \notin Kinds \cup {"head"}
  <2>1. i = m + 2
    BY <1>6, <1>7
  <2>2. j \notin 1..m /\ j - m # 1 /\ j - m # 2
    BY <2>1, <1>3, <1>7
  <2>3. w[j] \in {"CR", "LF"}
    BY <2>2, <1>1, <1>3, <1>5
  <2> QED
    BY <2>3 DEF Kinds
<1>8. Terminated(w)
  BY <1>3, <1>7 DEF Terminated
<1>9. kind \notin Ending => NoEnding(w)
  BY <1>3, <1>6 DEF NoEnding
<1> QED
  BY <1>4, <1>8, <1>9 DEF Proper, f, w

(* The deltas of an answer, without the end *)
LEMMA DeltasFramed ==
  ASSUME NEW eol \in LineEnds, NEW n \in Nat
  PROVE  LET wire == FlattenSeq([i \in 1..n |-> Frame("delta", eol)]) IN
         Framed(wire) /\ NoEnding(wire)
<1> DEFINE frame == Frame("delta", eol)
           seqs == [i \in 1..n |-> frame]
           Is(flat) == flat = [i \in 1..Len(seqs) |->
                                 IF i = 1 THEN seqs[i] ELSE flat[i - 1] \o seqs[i]]
           c == CHOOSE flat : Is(flat)
<1>1. Framed(frame) /\ "delta" \in Kinds /\ "delta" \notin Ending /\ frame \in Seq(Pieces)
  BY FrameFacts DEF Kinds, Ending, Framed
<1>2. Len(seqs) = n /\ \A i \in 1..n : seqs[i] = frame
  OBVIOUS
<1>3. CASE n = 0
  <2>1. FlattenSeq(seqs) = <<>>
    BY <1>3 DEF FlattenSeq
  <2> QED
    BY <2>1, EmptyFramed DEF NoEnding
<1>4. CASE n # 0
  <2>1. FlattenSeq(seqs) = c[n]
    <3>1. FlattenSeq(seqs) = c[Len(seqs)]
      <4>1. Len(seqs) # 0
        BY <1>2, <1>4
      <4> HIDE DEF seqs
      <4> QED
        BY <4>1, Zenon DEF FlattenSeq
    <3> QED
      BY <3>1, <1>2
  <2> DEFINE F == [i \in 1..n |-> [before \in Seq(Pieces) |-> before \o frame]]
  <2>2. F \in [1..n -> [Seq(Pieces) -> Seq(Pieces)]]
    BY <1>1
  <2>3. PICK g \in [0..n -> Seq(Pieces)] : Unrolls(g, n, <<>>, F)
    <3>1. <<>> \in Seq(Pieces)
      OBVIOUS
    <3> HIDE DEF F, c, frame, seqs
    <3> QED
      BY <2>2, <3>1, Recursion
  <2>4. \A i \in 1..n : i - 1 \in 0..n /\ g[i] = g[i - 1] \o frame
    <3> SUFFICES ASSUME NEW i \in 1..n PROVE i - 1 \in 0..n /\ g[i] = g[i - 1] \o frame
      OBVIOUS
    <3>1. i - 1 \in 0..n
      OBVIOUS
    <3>2. g[i - 1] \in Seq(Pieces)
      BY <3>1
    <3>3. g[i] = F[i][g[i - 1]]
      BY <2>3 DEF Unrolls
    <3> QED
      BY <3>1, <3>2, <3>3
  <2>5. g[0] = <<>> /\ g[1] = frame
    <3>1. g[0] = <<>>
      BY <2>3 DEF Unrolls
    <3>2. 1 \in 1..n /\ 1 - 1 = 0
      BY <1>4
    <3>3. <<>> \o frame = frame
      BY <1>1
    <3> QED
      BY <3>1, <3>2, <3>3, <2>4
  <2> HIDE DEF frame
  <2> DEFINE h == [i \in 1..n |-> g[i]]
  <2>6. Is(h)
    <3>1. ASSUME NEW i \in 1..n PROVE h[i] = IF i = 1 THEN frame ELSE h[i - 1] \o frame
      <4>1. CASE i = 1
        BY <4>1, <2>5
      <4>2. CASE i # 1
        <5>1. i - 1 \in 1..n
          BY <4>2
        <5> QED
          BY <4>2, <5>1, <2>4
      <4> QED
        BY <4>1, <4>2
    <3>2. h = [i \in 1..n |-> IF i = 1 THEN frame ELSE h[i - 1] \o frame]
      BY <3>1
    <3> QED
      BY <1>2, <3>2
  <2>7. Is(c)
    BY <2>6, Zenon
  <2> HIDE DEF c
  <2>8. \A i \in 1..n : c[i] = IF i = 1 THEN frame ELSE c[i - 1] \o frame
    BY <1>2, <2>7
  <2> DEFINE A == {i \in 0..n : i = 0 \/ (Framed(c[i]) /\ NoEnding(c[i]))}
  <2>9. \A i \in 1..n : i - 1 \in A => i \in A
    <3> SUFFICES ASSUME NEW i \in 1..n, i - 1 \in A PROVE i \in A
      OBVIOUS
    <3>1. CASE i = 1
      <4>1. c[i] = frame
        BY <2>8, <3>1
      <4>2. NoEnding(frame)
        <5>1. /\ frame[2] = "delta" /\ frame[1] = "head"
              /\ \A k \in 1..Len(frame) : k # 1 /\ k # 2 => frame[k] \in {"CR", "LF"}
          BY <1>1, FrameFacts DEF frame
        <5> QED
          BY <5>1 DEF NoEnding, Ending
      <4> QED
        BY <4>1, <4>2, <1>1
    <3>2. CASE i # 1
      <4>1. i - 1 # 0
        BY <3>2
      <4>2. c[i] = c[i - 1] \o frame /\ Framed(c[i - 1]) /\ NoEnding(c[i - 1])
        BY <2>8, <3>2, <4>1
      <4>3. Framed(c[i]) /\ NoEnding(c[i])
        BY <4>2, <1>1, FrameAdded DEF frame, Proper
      <4> QED
        BY <4>3
    <3> QED
      BY <3>1, <3>2
  <2>10. 0 \in A
    OBVIOUS
  <2> HIDE DEF A
  <2>11. 0..n \subseteq A
    BY <2>9, <2>10, InductTo
  <2>12. Framed(c[n]) /\ NoEnding(c[n])
    BY <2>11, <1>4 DEF A
  <2> QED
    BY <2>1, <2>12 DEF seqs, frame
<1> QED
  BY <1>3, <1>4

(* Every answer of the relay is made of whole frames and has at most one ending, the last. *)
LEMMA AnswersProper == \A wire \in Answers : Proper(wire)
<1> SUFFICES ASSUME NEW wire \in Answers PROVE Proper(wire)
  OBVIOUS
<1> DEFINE Closings(eol) == {<<>>, Frame("done", eol), Frame("error", eol)}
           Deltas(n, eol) == FlattenSeq([i \in 1..n |-> Frame("delta", eol)])
           Of(eol) == {Deltas(n, eol) \o last : n \in 0..MaxDeltas, last \in Closings(eol)}
<1>1. PICK eol \in LineEnds : wire \in Of(eol)
  <2>1. Answers = UNION {Of(eol) : eol \in LineEnds}
    BY DEF Answers
  <2> HIDE DEF Of
  <2> QED
    BY <2>1
<1>2. PICK n \in 0..MaxDeltas, last \in Closings(eol) : wire = Deltas(n, eol) \o last
  <2> HIDE DEF Deltas, Closings
  <2> QED
    BY <1>1
<1> DEFINE w == FlattenSeq([i \in 1..n |-> Frame("delta", eol)])
<1>3. Framed(w) /\ NoEnding(w) /\ wire = w \o last
  <2>1. n \in Nat
    BY WidgetAssumption
  <2> QED
    BY <1>2, <2>1, DeltasFramed
<1> HIDE DEF w
<1>4. CASE last = <<>>
  <2>1. w \in Seq(Pieces)
    BY <1>3 DEF Framed
  <2>2. wire = w
    BY <1>3, <1>4, <2>1
  <2> QED
    BY <1>3, <2>2 DEF Proper, Terminated, NoEnding
<1>5. CASE last # <<>>
  <2>1. "done" \in Kinds /\ "error" \in Kinds
    BY DEF Kinds
  <2> QED
    BY <1>2, <1>3, <1>5, <2>1, FrameAdded
<1> QED
  BY <1>4, <1>5

-----------------------------------------------------------------------------
(* What a chunk makes of the buffer                                         *)

(* A frame's kind at place p, and nothing of the next frame up to n *)
LineAt(wire, p, n) ==
  /\ p \in 1..n /\ wire[p] \in Kinds
  /\ \A j \in (p + 1)..n : wire[j] \notin Kinds \cup {"head"}

(* What the buffer holds when n pieces have been read *)
Held(wire, phase, n, buffer) ==
  \/ phase[n] \in {"start", "crlfcr"} /\ buffer \in Lead
  \/ phase[n] = "head" /\ buffer \in Headed
  \/ phase[n] = "crlf" /\ buffer = <<>>
  \/ \E p \in 1..n : /\ LineAt(wire, p, n)
                     /\ \/ phase[n] = "kind" /\ buffer \in Kinded(wire[p])
                        \/ phase[n] \in {"eol", "cr", "crlf"} /\ buffer \in Lined(wire[p])

(* What is held of an answer is a buffer of one of those shapes. *)
LEMMA HeldShape ==
  ASSUME NEW wire, NEW phase, NEW n, NEW b, Held(wire, phase, n, b)
  PROVE  b \in Buffers
<1>1. <<>> \in Lead
  BY DEF Lead
<1>2. CASE \E p \in 1..n : /\ LineAt(wire, p, n)
                           /\ b \in Kinded(wire[p]) \cup Lined(wire[p])
  BY <1>2 DEF LineAt, Buffers
<1> QED
  BY <1>1, <1>2 DEF Held, Buffers

(* The piece the buffer gets for one of the wire *)
Written(piece) == IF piece = "CR" THEN "LF" ELSE piece

(* The last line of a kind stays the last until another begins. *)
LEMMA LineStays ==
  ASSUME NEW wire, NEW n \in Nat, NEW p, LineAt(wire, p, n), wire[n + 1] \notin Kinds \cup {"head"}
  PROVE  LineAt(wire, p, n + 1)
<1>1. p \in 1..(n + 1) /\ \A j \in (p + 1)..(n + 1) : j = n + 1 \/ j \in (p + 1)..n
  BY DEF LineAt
<1> QED
  BY <1>1 DEF LineAt

(* Pushing the next piece of the answer keeps what the buffer holds right. *)
LEMMA HeldPushed ==
  ASSUME NEW wire \in Seq(Pieces), NEW phase, NEW n \in Nat, NEW b,
         Moves(phase[n], wire[n + 1], phase[n + 1]), Held(wire, phase, n, b)
  PROVE  /\ Held(wire, phase, n + 1, Pushed(b, Written(wire[n + 1])))
         /\ wire[n + 1] \in Kinds => \A kind \in Kinds : Holds(b, kind) = 0
<1> DEFINE x == wire[n + 1]
           c == Pushed(b, Written(x))
<1>1. "LF" \notin Kinds /\ "CR" \notin Kinds /\ "head" \notin Kinds
      /\ Written("CR") = "LF" /\ Written("LF") = "LF" /\ Written("head") = "head"
      /\ \A kind \in Kinds : Written(kind) = kind
  BY DEF Kinds, Written
<1>2. CASE phase[n] = "start"
  <2>1. b \in Lead /\ x = "head" /\ phase[n + 1] = "head"
    BY <1>2 DEF Held, Moves
  <2>2. c \in Headed
    BY <2>1, <1>1, LeadPushed
  <2> QED
    BY <1>1, <2>1, <2>2 DEF Held
<1>3. CASE phase[n] = "crlfcr"
  <2>1. b \in Lead /\ x = "LF" /\ phase[n + 1] = "start"
    BY <1>3 DEF Held, Moves
  <2>2. c \in Lead
    BY <2>1, <1>1, LeadPushed
  <2> QED
    BY <1>1, <2>1, <2>2 DEF Held
<1>4. CASE phase[n] = "head"
  <2>1. b \in Headed /\ x \in Kinds /\ phase[n + 1] = "kind"
    BY <1>4 DEF Held, Moves
  <2>2. c \in Kinded(x) /\ \A kind \in Kinds : Holds(b, kind) = 0
    BY <2>1, <1>1, HeadedPushed
  <2>3. n + 1 \in 1..(n + 1) /\ LineAt(wire, n + 1, n + 1)
    BY <2>1 DEF LineAt
  <2> QED
    BY <2>1, <2>2, <2>3 DEF Held
<1>5. CASE phase[n] = "kind"
  <2>1. PICK p \in 1..n : LineAt(wire, p, n) /\ b \in Kinded(wire[p])
    BY <1>5 DEF Held
  <2>2. x \in {"LF", "CR"} /\ phase[n + 1] \in {"eol", "cr"}
    BY <1>5 DEF Moves
  <2>3. LineAt(wire, p, n + 1) /\ p \in 1..(n + 1) /\ wire[p] \in Kinds
    BY <2>1, <2>2, <1>1, LineStays DEF LineAt
  <2>4. c \in Lined(wire[p])
    BY <2>1, <2>2, <2>3, <1>1, KindedPushed
  <2> QED
    BY <2>2, <2>3, <2>4, <1>1 DEF Held
<1>6. CASE phase[n] \in {"eol", "cr"}
  <2>1. PICK p \in 1..n : LineAt(wire, p, n) /\ b \in Lined(wire[p])
    BY <1>6 DEF Held
  <2>2. x = "LF" /\ phase[n + 1] \in {"start", "crlf"}
    BY <1>6 DEF Moves
  <2>3. c = <<>> /\ <<>> \in Lead
    <3>1. wire[p] \in Kinds
      BY <2>1 DEF LineAt
    <3> QED
      BY <2>1, <2>2, <3>1, <1>1, LinedPushed DEF Lead
  <2> QED
    BY <2>2, <2>3, <1>1 DEF Held
<1>7. CASE phase[n] = "crlf"
  <2>1. x = "CR" /\ phase[n + 1] = "crlfcr"
    BY <1>7 DEF Moves
  <2>2. c \in Lead
    <3>1. CASE b = <<>>
      <4>1. b \in Lead
        BY <3>1 DEF Lead
      <4> QED
        BY <4>1, <2>1, <1>1, LeadPushed
    <3>2. CASE b # <<>>
      <4>1. PICK p \in 1..n : LineAt(wire, p, n) /\ b \in Lined(wire[p])
        BY <1>7, <3>2 DEF Held
      <4>2. wire[p] \in Kinds
        BY <4>1 DEF LineAt
      <4> QED
        BY <4>1, <4>2, <2>1, <1>1, LinedPushed DEF Lead
    <3> QED
      BY <3>1, <3>2
  <2> QED
    BY <2>1, <2>2, <1>1 DEF Held
<1> QED
  BY <1>2, <1>3, <1>4, <1>5, <1>6, <1>7 DEF Moves

(* The LF of a CR LF in one chunk adds nothing. *)
LEMMA HeldSkipped ==
  ASSUME NEW wire \in Seq(Pieces), NEW phase, NEW n \in Nat, NEW b,
         Moves(phase[n], wire[n + 1], phase[n + 1]), Held(wire, phase, n, b),
         phase[n] \in {"cr", "crlfcr"}
  PROVE  Held(wire, phase, n + 1, b) /\ wire[n + 1] = "LF"
<1>1. wire[n + 1] = "LF" /\ wire[n + 1] \notin Kinds \cup {"head"}
  BY DEF Moves, Kinds
<1>2. CASE phase[n] = "cr"
  <2>1. PICK p \in 1..n : LineAt(wire, p, n) /\ b \in Lined(wire[p])
    BY <1>2 DEF Held
  <2>2. phase[n + 1] = "crlf"
    BY <1>2 DEF Moves
  <2>3. LineAt(wire, p, n + 1) /\ p \in 1..(n + 1)
    BY <2>1, <1>1, LineStays DEF LineAt
  <2> QED
    BY <1>1, <2>1, <2>2, <2>3 DEF Held
<1>3. CASE phase[n] = "crlfcr"
  <2>1. b \in Lead /\ phase[n + 1] = "start"
    BY <1>3 DEF Held, Moves
  <2> QED
    BY <1>1, <2>1 DEF Held
<1> QED
  BY <1>2, <1>3

(* got and the deltas to be dispatched and kept are those of the wire's    *)
(* first n pieces, and so are the ends.                                    *)
Sees(wire, phase, n, text, got) ==
  /\ text \in Seq(Pieces)
  /\ Held(wire, phase, n, Rest(text))
  /\ got + DeltasIn(Blocks(text)) + Holds(Rest(text), "delta") =
       Cardinality(DeltaLines(wire, n))
  /\ \A kind \in Ending :
       FramesIn(Blocks(text), kind) # {} \/ Holds(Rest(text), kind) = 1 =>
         \E j \in 1..n : wire[j] = kind

(* A piece more is a delta line more exactly if it is the delta. *)
LEMMA LinesMore ==
  ASSUME NEW wire, NEW n \in Nat
  PROVE  /\ Cardinality(DeltaLines(wire, n)) \in Nat
         /\ wire[n + 1] = "delta" =>
              Cardinality(DeltaLines(wire, n + 1)) = Cardinality(DeltaLines(wire, n)) + 1
         /\ wire[n + 1] # "delta" =>
              Cardinality(DeltaLines(wire, n + 1)) = Cardinality(DeltaLines(wire, n))
         /\ IsFiniteSet(DeltaLines(wire, n))
<1>1. IsFiniteSet(DeltaLines(wire, n))
  <2>1. IsFiniteSet(1..n) /\ DeltaLines(wire, n) \subseteq 1..n
    BY FS_Interval DEF DeltaLines
  <2> QED
    BY <2>1, FS_Subset
<1>2. Cardinality(DeltaLines(wire, n)) \in Nat
  BY <1>1, FS_CardinalityType
<1>3. CASE wire[n + 1] = "delta"
  <2>1. DeltaLines(wire, n + 1) = DeltaLines(wire, n) \cup {n + 1} /\ n + 1 \notin DeltaLines(wire, n)
    BY <1>3 DEF DeltaLines
  <2> QED
    BY <1>1, <1>2, <1>3, <2>1, FS_AddElement
<1>4. CASE wire[n + 1] # "delta"
  <2>1. DeltaLines(wire, n + 1) = DeltaLines(wire, n)
    BY <1>4 DEF DeltaLines
  <2> QED
    BY <1>1, <1>2, <1>4, <2>1
<1> QED
  BY <1>1, <1>2, <1>3, <1>4

(* What a buffer with one piece more holds. *)
LEMMA HoldsMore ==
  ASSUME NEW b \in Seq(Pieces), NEW y \in Pieces, NEW kind
  PROVE  Holds(Append(b, y), kind) = IF y = kind THEN 1 ELSE Holds(b, kind)
<1> DEFINE c == Append(b, y)
<1>1. Len(b) \in Nat /\ Len(c) = Len(b) + 1 /\ c[Len(b) + 1] = y /\ \A i \in 1..Len(b) : c[i] = b[i]
  BY LongerText
<1> HIDE DEF c
<1>2. (\E i \in 1..Len(c) : c[i] = kind) <=> y = kind \/ \E i \in 1..Len(b) : b[i] = kind
  BY <1>1
<1>3. Holds(c, kind) = IF y = kind THEN 1 ELSE Holds(b, kind)
  BY <1>2 DEF Holds
<1> QED
  BY <1>3 DEF c

(* Writing the next piece keeps the count of deltas right. *)
LEMMA SeesPushed ==
  ASSUME NEW wire \in Seq(Pieces), NEW phase, NEW n \in Nat, NEW text, NEW got \in Nat,
         n + 1 \in 1..Len(wire),
         Moves(phase[n], wire[n + 1], phase[n + 1]), Sees(wire, phase, n, text, got)
  PROVE  Sees(wire, phase, n + 1, Append(text, Written(wire[n + 1])), got)
<1> DEFINE y == Written(wire[n + 1])
           b == Rest(text)
           more == Append(text, y)
<1>1. text \in Seq(Pieces) /\ Held(wire, phase, n, b) /\ wire[n + 1] \in Pieces
  BY DEF Sees
<1>2. y \in Pieces /\ \A kind \in Kinds : y = kind <=> wire[n + 1] = kind
  BY <1>1 DEF Written, Pieces, Kinds
<1>3. b \in Seq(Pieces) /\ OneLine(b)
  BY <1>1, HeldShape, BufferShape
<1>4. /\ Held(wire, phase, n + 1, Pushed(b, y))
      /\ wire[n + 1] \in Kinds => \A kind \in Kinds : Holds(b, kind) = 0
  BY <1>1, HeldPushed
<1>5. "delta" \in Kinds /\ Ending \subseteq Kinds /\ "LF" \notin Kinds
  BY DEF Kinds, Ending
<1>6. Rest(more) = Pushed(b, y) /\ more \in Seq(Pieces)
  BY <1>1, <1>2, CutStep, LongerText DEF Pushed
<1>7. DeltasIn(Blocks(text)) \in Nat
  BY <1>1, CutText, FramesFinite DEF DeltasIn
<1>8. \A kind \in Kinds : Holds(b, kind) \in {0, 1} /\ Holds(<<>>, kind) = 0
  BY DEF Holds
<1>9. /\ got + DeltasIn(Blocks(text)) + Holds(b, "delta") = Cardinality(DeltaLines(wire, n))
      /\ \A kind \in Ending :
           FramesIn(Blocks(text), kind) # {} \/ Holds(b, kind) = 1 =>
             \E j \in 1..n : wire[j] = kind
  BY DEF Sees
<1>10. CASE y = "LF" /\ EndsInLF(b)
  <2>1. \A kind \in Kinds :
          /\ Cardinality(FramesIn(Blocks(more), kind)) =
               Cardinality(FramesIn(Blocks(text), kind)) + Holds(b, kind)
          /\ FramesIn(Blocks(more), kind) # {} =>
               FramesIn(Blocks(text), kind) # {} \/ Holds(b, kind) = 1
    BY <1>1, <1>2, <1>3, <1>10, FramesStep
  <2>2. Pushed(b, y) = <<>>
    BY <1>10 DEF Pushed
  <2>3. wire[n + 1] # "delta"
    BY <1>2, <1>5, <1>10
  <2>4. Cardinality(DeltaLines(wire, n + 1)) = Cardinality(DeltaLines(wire, n))
    BY <2>3, LinesMore
  <2>5. DeltasIn(Blocks(more)) = DeltasIn(Blocks(text)) + Holds(b, "delta")
    BY <2>1, <1>5 DEF DeltasIn
  <2>6. got + DeltasIn(Blocks(more)) + Holds(Rest(more), "delta") =
          Cardinality(DeltaLines(wire, n + 1))
    BY <2>2, <2>4, <2>5, <1>5, <1>6, <1>7, <1>8, <1>9
  <2>7. \A kind \in Ending :
          FramesIn(Blocks(more), kind) # {} \/ Holds(Rest(more), kind) = 1 =>
            \E j \in 1..(n + 1) : wire[j] = kind
    BY <2>1, <2>2, <1>5, <1>6, <1>8, <1>9
  <2> QED
    BY <2>6, <2>7, <1>4, <1>6 DEF Sees
<1>11. CASE ~(y = "LF" /\ EndsInLF(b))
  <2>1. /\ \A kind \in Kinds : FramesIn(Blocks(more), kind) = FramesIn(Blocks(text), kind)
        /\ Rest(more) = Append(b, y)
    BY <1>1, <1>2, <1>3, <1>6, <1>11, FramesStep DEF Pushed
  <2>2. \A kind : Holds(Rest(more), kind) = IF y = kind THEN 1 ELSE Holds(b, kind)
    BY <2>1, <1>2, <1>3, HoldsMore
  <2>3. DeltasIn(Blocks(more)) = DeltasIn(Blocks(text))
    BY <2>1, <1>5 DEF DeltasIn
  <2>4. got + DeltasIn(Blocks(more)) + Holds(Rest(more), "delta") =
          Cardinality(DeltaLines(wire, n + 1))
    <3>1. CASE wire[n + 1] = "delta"
      <4>1. Holds(b, "delta") = 0 /\ Holds(Rest(more), "delta") = 1
        BY <3>1, <2>2, <1>2, <1>4, <1>5
      <4>2. Cardinality(DeltaLines(wire, n + 1)) = Cardinality(DeltaLines(wire, n)) + 1
        BY <3>1, LinesMore
      <4> QED
        BY <4>1, <4>2, <2>3, <1>7, <1>9
    <3>2. CASE wire[n + 1] # "delta"
      <4>1. Holds(Rest(more), "delta") = Holds(b, "delta")
        BY <3>2, <2>2, <1>2, <1>5
      <4>2. Cardinality(DeltaLines(wire, n + 1)) = Cardinality(DeltaLines(wire, n))
        BY <3>2, LinesMore
      <4> QED
        BY <4>1, <4>2, <2>3, <1>9
    <3> QED
      BY <3>1, <3>2
  <2>5. \A kind \in Ending :
          FramesIn(Blocks(more), kind) # {} \/ Holds(Rest(more), kind) = 1 =>
            \E j \in 1..(n + 1) : wire[j] = kind
    <3> SUFFICES ASSUME NEW kind \in Ending,
                        FramesIn(Blocks(more), kind) # {} \/ Holds(Rest(more), kind) = 1
                 PROVE  \E j \in 1..(n + 1) : wire[j] = kind
      OBVIOUS
    <3>1. CASE y = kind
      <4>1. wire[n + 1] = kind /\ n + 1 \in 1..(n + 1)
        BY <3>1, <1>2, <1>5
      <4> QED
        BY <4>1
    <3>2. CASE y # kind
      <4>1. FramesIn(Blocks(text), kind) # {} \/ Holds(b, kind) = 1
        BY <3>2, <2>1, <2>2, <1>5
      <4>2. PICK j \in 1..n : wire[j] = kind
        BY <4>1, <1>9
      <4>3. j \in 1..(n + 1)
        OBVIOUS
      <4> QED
        BY <4>2, <4>3
    <3> QED
      BY <3>1, <3>2
  <2> QED
    BY <2>4, <2>5, <1>4, <1>6 DEF Sees
<1> QED
  BY <1>10, <1>11

(* So does skipping the LF of a CR LF, which the normalisation drops. *)
LEMMA SeesSkipped ==
  ASSUME NEW wire \in Seq(Pieces), NEW phase, NEW n \in Nat, NEW text, NEW got \in Nat,
         Moves(phase[n], wire[n + 1], phase[n + 1]), Sees(wire, phase, n, text, got),
         phase[n] \in {"cr", "crlfcr"}
  PROVE  Sees(wire, phase, n + 1, text, got)
<1>1. Held(wire, phase, n + 1, Rest(text)) /\ wire[n + 1] = "LF"
  BY HeldSkipped DEF Sees
<1>2. Cardinality(DeltaLines(wire, n + 1)) = Cardinality(DeltaLines(wire, n))
  BY <1>1, LinesMore
<1>3. \A j \in 1..n : j \in 1..(n + 1)
  OBVIOUS
<1> QED
  BY <1>1, <1>2, <1>3 DEF Sees

(* Append and concatenation. *)
LEMMA AppendJoined ==
  ASSUME NEW S, NEW s \in Seq(S), NEW t \in Seq(S), NEW x \in S
  PROVE  s \o Append(t, x) = Append(s \o t, x)
<1> DEFINE m == Len(s)
           n == Len(t)
           tx == Append(t, x)
           st == s \o t
           left == s \o tx
           right == Append(st, x)
<1>1. m \in Nat /\ n \in Nat
  OBVIOUS
<1>2. tx \in Seq(S) /\ Len(tx) = n + 1 /\ tx[n + 1] = x /\ \A i \in 1..n : tx[i] = t[i]
  OBVIOUS
<1>3. /\ st \in Seq(S) /\ Len(st) = m + n /\ \A i \in 1..m : st[i] = s[i]
      /\ \A i \in 1..n : st[m + i] = t[i]
  OBVIOUS
<1> HIDE DEF tx, st
<1>4. /\ left \in Seq(S) /\ Len(left) = m + (n + 1) /\ \A i \in 1..m : left[i] = s[i]
      /\ \A i \in 1..(n + 1) : left[m + i] = tx[i]
  BY <1>1, <1>2
<1>5. /\ right \in Seq(S) /\ Len(right) = (m + n) + 1 /\ \A i \in 1..(m + n) : right[i] = st[i]
      /\ right[(m + n) + 1] = x
  <2> DEFINE k == m + n
  <2>1. k \in Nat /\ Len(st) = k
    BY <1>1, <1>3
  <2> HIDE DEF k
  <2>2. /\ right \in Seq(S) /\ Len(right) = k + 1 /\ \A i \in 1..k : right[i] = st[i]
        /\ right[k + 1] = x
    BY <2>1, <1>3, Appended
  <2> QED
    BY <2>2 DEF k
<1> HIDE DEF m, n, left, right
<1>6. ASSUME NEW i \in 1..((m + n) + 1) PROVE left[i] = right[i]
  <2>1. CASE i \in 1..m
    BY <2>1, <1>1, <1>3, <1>4, <1>5
  <2>2. CASE i \notin 1..m /\ i # (m + n) + 1
    <3>1. i - m \in 1..n /\ m + (i - m) = i /\ i \in 1..(m + n) /\ i - m \in 1..(n + 1)
      BY <2>2, <1>1
    <3> QED
      BY <3>1, <1>2, <1>3, <1>4, <1>5
  <2>3. CASE i = (m + n) + 1
    <3>1. n + 1 \in 1..(n + 1) /\ m + (n + 1) = i
      BY <2>3, <1>1
    <3> QED
      BY <2>3, <3>1, <1>2, <1>4, <1>5
  <2> QED
    BY <2>1, <2>2, <2>3
<1>7. m + (n + 1) = (m + n) + 1
  BY <1>1
<1>8. left = right
  BY <1>4, <1>5, <1>6, <1>7, SeqEqual
<1> QED
  BY <1>8 DEF left, right, tx, st

(* A text without a cut is all rest. *)
LEMMA NothingCut ==
  ASSUME NEW b \in Seq(Pieces), NoCut(b)
  PROVE  Rest(b) = b /\ Blocks(b) = <<>>
<1> DEFINE n == Len(b)
           c == LastCut(b)
<1>1. n \in Nat
  OBVIOUS
<1>2. PICK cuts : CutsOf(cuts, b) /\ IsLastOf(cuts, n, c)
  BY CutFacts
<1>3. ASSUME NEW i \in 1..n, i \in cuts PROVE FALSE
  <2>1. i > 1 /\ b[i] = "LF" /\ b[i - 1] = "LF"
    BY <1>2, <1>3 DEF CutsOf
  <2>2. i \in 2..n
    BY <1>1, <2>1
  <2> QED
    BY <2>1, <2>2 DEF NoCut
<1> HIDE DEF n, c
<1>4. c = 0
  BY <1>1, <1>2, <1>3 DEF IsLastOf
<1>5. Rest(b) = SubSeq(b, 0 + 1, n) /\ Blocks(b) = SubSeq(b, 1, 0)
  BY <1>4 DEF Rest, Blocks, n, c
<1>6. SubSeq(b, 0 + 1, n) = b /\ SubSeq(b, 1, 0) = <<>>
  BY <1>1 DEF n
<1> QED
  BY <1>5, <1>6

(* The empty text has no frames. *)
LEMMA NoFrames == \A kind : FramesIn(<<>>, kind) = {}
BY DEF FramesIn

(* A chunk, read after the buffer *)
LEMMA ChunkRead ==
  ASSUME NEW wire \in Seq(Pieces), NEW phase, Parsed(wire, phase),
         NEW at \in 0..Len(wire), NEW n \in at..Len(wire), NEW b, NEW got \in Nat,
         Held(wire, phase, at, b),
         got + Holds(b, "delta") = Cardinality(DeltaLines(wire, at)),
         \A kind \in Ending : Holds(b, kind) = 1 => \E j \in 1..at : wire[j] = kind
  PROVE  Sees(wire, phase, n, b \o Normalised(SubSeq(wire, at + 1, n)), got)
<1> DEFINE chunk == SubSeq(wire, at + 1, n)
           m == n - at
<1>1. /\ at \in Nat /\ n \in Nat /\ m \in Nat /\ n <= Len(wire) /\ Len(wire) \in Nat
      /\ chunk \in Seq(Pieces) /\ Len(chunk) = m
      /\ \A i \in 1..m : chunk[i] = wire[at + i]
  OBVIOUS
<1> HIDE DEF chunk, m
<1>2. PICK text \in [0..m -> Seq(Pieces)] :
        /\ Normalised(chunk) = text[m]
        /\ text[0] = <<>>
        /\ \A i \in 1..m : Normalises(chunk, i, text[i - 1], text[i])
  BY <1>1, NormalisedFacts
<1>3. b \in Seq(Pieces) /\ NoCut(b)
  BY HeldShape, BufferShape
<1>4. Sees(wire, phase, at, b, got)
  <2>1. Rest(b) = b /\ Blocks(b) = <<>>
    BY <1>3, NothingCut
  <2>2. \A kind : FramesIn(Blocks(b), kind) = {}
    BY <2>1, NoFrames
  <2>3. DeltasIn(Blocks(b)) = 0
    BY <2>2, FS_EmptySet DEF DeltasIn
  <2>4. Holds(b, "delta") \in {0, 1}
    BY DEF Holds
  <2> QED
    BY <1>3, <2>1, <2>2, <2>3, <2>4 DEF Sees
<1> DEFINE A == {i \in 0..m : Sees(wire, phase, at + i, b \o text[i], got)}
<1>5. 0 \in A
  <2>1. b \o text[0] = b /\ at + 0 = at
    BY <1>1, <1>2, <1>3
  <2>2. 0 \in 0..m
    BY <1>1
  <2> QED
    BY <1>4, <2>1, <2>2
<1>6. ASSUME NEW i \in 1..m, i - 1 \in A PROVE i \in A
  <2> DEFINE k == at + (i - 1)
  <2>1. i - 1 \in 0..m /\ i \in 0..m /\ k \in Nat /\ k + 1 = at + i /\ k + 1 \in 1..Len(wire)
    BY <1>1 DEF m
  <2> HIDE DEF k
  <2>2. Sees(wire, phase, k, b \o text[i - 1], got)
    BY <1>6 DEF k
  <2>3. Moves(phase[k], wire[k + 1], phase[k + 1])
    <3>1. (k + 1) - 1 = k
      BY <2>1
    <3> QED
      BY <2>1, <3>1 DEF Parsed
  <2>4. chunk[i] = wire[k + 1] /\ text[i - 1] \in Seq(Pieces) /\ wire[k + 1] \in Pieces
        /\ Normalises(chunk, i, text[i - 1], text[i])
    <3>1. chunk[i] = wire[k + 1]
      BY <2>1, <1>1
    <3>2. wire[k + 1] \in Pieces
      BY <2>1
    <3>3. text[i - 1] \in Seq(Pieces) /\ Normalises(chunk, i, text[i - 1], text[i])
      BY <2>1, <1>2
    <3> QED
      BY <3>1, <3>2, <3>3
  <2>5. CASE chunk[i] = "LF" /\ i > 1 /\ chunk[i - 1] = "CR"
    <3>1. text[i] = text[i - 1]
      BY <2>4, <2>5 DEF Normalises
    <3>2. phase[k] \in {"cr", "crlfcr"}
      <4>1. i - 1 \in 1..m
        BY <2>5, <1>1
      <4>2. wire[k] = "CR" /\ k \in 1..Len(wire)
        BY <4>1, <1>1, <2>1, <2>5 DEF k
      <4>3. Moves(phase[k - 1], wire[k], phase[k])
        BY <4>2 DEF Parsed
      <4> QED
        BY <4>2, <4>3 DEF Moves, Kinds
    <3>3. Sees(wire, phase, k + 1, b \o text[i - 1], got)
      BY <2>1, <2>2, <2>3, <3>2, SeesSkipped
    <3> QED
      BY <2>1, <3>1, <3>3
  <2>6. CASE ~(chunk[i] = "LF" /\ i > 1 /\ chunk[i - 1] = "CR")
    <3>1. text[i] = Append(text[i - 1], Written(wire[k + 1]))
      BY <2>4, <2>6 DEF Normalises, Written
    <3>2. Sees(wire, phase, k + 1, Append(b \o text[i - 1], Written(wire[k + 1])), got)
      BY <2>1, <2>2, <2>3, SeesPushed
    <3>3. Written(wire[k + 1]) \in Pieces
      BY <2>4 DEF Written, Pieces
    <3>4. b \o text[i] = Append(b \o text[i - 1], Written(wire[k + 1]))
      <4> DEFINE t == text[i - 1]
                 y == Written(wire[k + 1])
      <4>1. t \in Seq(Pieces) /\ y \in Pieces /\ b \in Seq(Pieces)
        BY <3>3, <2>4, <1>3
      <4>2. text[i] = Append(t, y)
        BY <3>1
      <4> HIDE DEF t, y
      <4>3. b \o Append(t, y) = Append(b \o t, y)
        BY <4>1, AppendJoined
      <4> QED
        BY <4>2, <4>3 DEF t, y
    <3> QED
      BY <2>1, <3>2, <3>4
  <2> QED
    BY <2>5, <2>6
<1> HIDE DEF A
<1>7. 0..m \subseteq A
  BY <1>1, <1>5, <1>6, InductTo
<1>8. m \in 0..m /\ at + m = n
  BY <1>1 DEF m
<1>9. m \in A
  BY <1>7, <1>8
<1>10. Sees(wire, phase, n, b \o text[m], got)
  BY <1>8, <1>9 DEF A
<1> QED
  BY <1>2, <1>10 DEF chunk

-----------------------------------------------------------------------------
(* How a turn reads its response                                            *)

(* How far a turn that has handed on got deltas is in its response: every  *)
(* delta that was read was handed on, but for the one still in the buffer. *)
Reading(response, got) ==
  /\ Terminated(response.wire)
  /\ response.at \in 0..Len(response.wire)
  /\ got + Holds(response.buffer, "delta") =
       Cardinality(DeltaLines(response.wire, response.at))
  /\ \E phase : /\ Parsed(response.wire, phase)
                /\ Held(response.wire, phase, response.at, response.buffer)

(* A frame that is held is the last of which the wire shows anything.      *)
LEMMA HeldLine ==
  ASSUME NEW wire, NEW phase, NEW n, NEW b, Held(wire, phase, n, b),
         NEW kind \in Kinds, Holds(b, kind) = 1
  PROVE  /\ \E p \in 1..n : LineAt(wire, p, n) /\ wire[p] = kind
         /\ phase[n] # "start"
<1>1. (0 = 1) = FALSE
  OBVIOUS
<1>2. b \notin Lead /\ b \notin Headed /\ b # <<>>
  BY <1>1, LeadPushed, HeadedPushed DEF Lead
<1>3. PICK p \in 1..n :
        /\ LineAt(wire, p, n)
        /\ phase[n] \in {"kind", "eol", "cr", "crlf"}
        /\ b \in Kinded(wire[p]) \/ b \in Lined(wire[p])
  BY <1>2 DEF Held
<1>4. wire[p] \in Kinds
  BY <1>3 DEF LineAt
<1>5. Holds(b, kind) = IF kind = wire[p] THEN 1 ELSE 0
  BY <1>3, <1>4, KindedPushed, LinedPushed
<1>6. kind = wire[p]
  BY <1>5
<1> QED
  BY <1>3, <1>6

(* More of the answer has no fewer delta lines. *)
LEMMA LinesGrow ==
  ASSUME NEW wire, NEW n \in Nat, NEW m \in n..Len(wire), Len(wire) \in Nat
  PROVE  Cardinality(DeltaLines(wire, n)) <= Cardinality(DeltaLines(wire, m))
<1>1. DeltaLines(wire, n) \subseteq DeltaLines(wire, m) /\ m \in Nat
  BY DEF DeltaLines
<1> QED
  BY <1>1, LinesMore, FS_Subset

(* What has been shown is between the whole deltas and the delta lines read so far. *)
LEMMA ReadingBounds ==
  ASSUME NEW r \in Response, NEW got \in Nat, Reading(r, got)
  PROVE  /\ got \in Cardinality(WholeDeltas(r.wire, r.at))..Cardinality(DeltaLines(r.wire, r.at))
         /\ got <= Cardinality(DeltaLines(r.wire, Len(r.wire)))
<1> DEFINE w == r.wire
           n == r.at
           b == r.buffer
           lines == DeltaLines(w, n)
           whole == WholeDeltas(w, n)
<1>1. w \in Seq(Pieces) /\ Len(w) \in Nat /\ n \in 0..Len(w)
  BY DEF Response, Reading
<1>2. PICK phase : Parsed(w, phase) /\ Held(w, phase, n, b)
  BY DEF Reading
<1>3. got + Holds(b, "delta") = Cardinality(lines)
  BY DEF Reading
<1> HIDE DEF w, n, b
<1>4. IsFiniteSet(lines) /\ Cardinality(lines) \in Nat
  BY <1>1, LinesMore
<1>5. whole \subseteq lines
  BY DEF WholeDeltas
<1>6. IsFiniteSet(whole) /\ Cardinality(whole) \in Nat /\ Cardinality(whole) <= Cardinality(lines)
  BY <1>4, <1>5, FS_Subset, FS_CardinalityType
<1>7. CASE Holds(b, "delta") = 1
  <2>1. "delta" \in Kinds /\ "head" \notin Kinds
    BY DEF Kinds
  <2>2. PICK p \in 1..n : LineAt(w, p, n) /\ w[p] = "delta"
    BY <1>2, <1>7, <2>1, HeldLine
  <2>3. phase[n] # "start"
    BY <1>2, <1>7, <2>1, HeldLine
  <2>4. n # Len(w)
    BY <1>2, <2>3 DEF Parsed
  <2>5. ~ \E j \in p..n : w[j] = "head"
    <3> SUFFICES ASSUME NEW j \in p..n, w[j] = "head" PROVE FALSE
      OBVIOUS
    <3>1. j # p
      BY <2>2
    <3>2. j \in (p + 1)..n
      BY <3>1, <1>1
    <3> QED
      BY <3>2, <2>2 DEF LineAt
  <2>6. p \in lines /\ p \notin whole
    BY <2>2, <2>4, <2>5 DEF DeltaLines, WholeDeltas
  <2>7. whole \subseteq lines \ {p} /\ IsFiniteSet(lines \ {p})
    BY <1>4, <1>5, <2>6, FS_Subset
  <2>8. Cardinality(lines \ {p}) = Cardinality(lines) - 1
    BY <1>4, <2>6, FS_RemoveElement
  <2>9. Cardinality(whole) <= Cardinality(lines) - 1
    BY <2>7, <2>8, FS_Subset
  <2>10. got = Cardinality(lines) - 1
    BY <1>3, <1>4, <1>7
  <2>11. Cardinality(lines) <= Cardinality(DeltaLines(w, Len(w)))
    BY <1>1, LinesGrow
  <2>12. Cardinality(DeltaLines(w, Len(w))) \in Nat
    BY <1>1, LinesMore
  <2> HIDE DEF lines, whole
  <2> QED
    BY <2>9, <2>10, <2>11, <2>12, <1>4, <1>6 DEF w, n, lines, whole
<1>8. CASE Holds(b, "delta") = 0
  <2>1. got = Cardinality(lines)
    BY <1>3, <1>8
  <2>2. Cardinality(lines) <= Cardinality(DeltaLines(w, Len(w)))
    BY <1>1, LinesGrow
  <2> QED
    BY <2>1, <2>2, <1>4, <1>6 DEF w, n
<1> QED
  BY <1>7, <1>8 DEF Holds

(* After an end there are no more deltas, and none is held. *)
LEMMA EndIsLast ==
  ASSUME NEW wire \in Seq(Pieces), Terminated(wire), NEW n \in 0..Len(wire),
         NEW phase, NEW b, Held(wire, phase, n, b),
         NEW j \in 1..n, wire[j] \in Ending
  PROVE  /\ Holds(b, "delta") = 0
         /\ DeltaLines(wire, n) = DeltaLines(wire, Len(wire))
<1>1. "delta" \in Kinds /\ "delta" \notin Ending /\ Ending \subseteq Kinds /\ Len(wire) \in Nat
  BY DEF Kinds, Ending
<1>2. ASSUME Holds(b, "delta") = 1 PROVE FALSE
  <2>1. PICK p \in 1..n : LineAt(wire, p, n) /\ wire[p] = "delta"
    BY <1>1, <1>2, HeldLine
  <2>2. j # p
    BY <2>1, <1>1
  <2>3. CASE j < p
    BY <2>1, <2>3, <1>1 DEF Terminated
  <2>4. CASE j > p
    <3>1. j \in (p + 1)..n
      BY <2>4
    <3> QED
      BY <3>1, <2>1, <1>1 DEF LineAt
  <2> QED
    BY <2>2, <2>3, <2>4
<1>3. Holds(b, "delta") = 0
  BY <1>2 DEF Holds
<1>4. ASSUME NEW i \in 1..Len(wire), wire[i] = "delta" PROVE i \in 1..n
  <2>1. ~(j < i)
    BY <1>1, <1>4 DEF Terminated
  <2> QED
    BY <2>1
<1>5. DeltaLines(wire, n) = DeltaLines(wire, Len(wire))
  BY <1>1, <1>4 DEF DeltaLines
<1> QED
  BY <1>3, <1>5

(* got is all the deltas of a wire that has such an end.                    *)
AllOf(wire, kind, got) ==
  /\ got = Cardinality(DeltaLines(wire, Len(wire)))
  /\ \E i \in 1..Len(wire) : wire[i] = kind

(* The response when its first n pieces have been read and text is what     *)
(* was buffered                                                            *)
ReadTo(response, n, text) == [response EXCEPT !.at = n, !.buffer = Rest(text)]

(* A chunk is read: the turn goes on, or the response's end is dispatched  *)
(* with the last of its deltas.                                            *)
LEMMA ReadStep ==
  ASSUME NEW r \in Response, NEW got \in Nat, Reading(r, got),
         NEW n \in (r.at + 1)..Len(r.wire),
         NEW text, text = r.buffer \o Normalised(SubSeq(r.wire, r.at + 1, n))
  PROVE  /\ text \in Seq(Pieces) /\ DeltasIn(Blocks(text)) \in Nat
         /\ ReadTo(r, n, text) \in Response
         /\ Reading(ReadTo(r, n, text), got + DeltasIn(Blocks(text)))
         /\ \A kind \in Ending :
              FramesIn(Blocks(text), kind) # {} =>
                AllOf(r.wire, kind, got + DeltasIn(Blocks(text)))
<1> DEFINE w == r.wire
           at == r.at
           b == r.buffer
           more == DeltasIn(Blocks(text))
           r2 == ReadTo(r, n, text)
<1>1. w \in Seq(Pieces) /\ Len(w) \in Nat /\ at \in 0..Len(w) /\ n \in at..Len(w) /\ n \in 0..Len(w)
      /\ n \in Nat /\ b \in Seq(Pieces)
  <2>1. w \in Seq(Pieces) /\ b \in Seq(Pieces) /\ at \in 0..Len(w) /\ Len(w) \in Nat
    BY DEF Response, Reading
  <2> QED
    BY <2>1
<1>2. PICK phase : Parsed(w, phase) /\ Held(w, phase, at, b)
  BY DEF Reading
<1>3. Terminated(w) /\ got + Holds(b, "delta") = Cardinality(DeltaLines(w, at))
  BY DEF Reading
<1>4. text = b \o Normalised(SubSeq(w, at + 1, n))
  OBVIOUS
<1>5. r2.wire = w /\ r2.at = n /\ r2.buffer = Rest(text)
  BY DEF Response, ReadTo
<1>6. Rest(text) \in Seq(Pieces) => r2 \in Response
  BY <1>1 DEF Response, ReadTo
<1> HIDE DEF w, at, b, r2
<1>7. \A kind \in Ending : Holds(b, kind) = 1 => \E j \in 1..at : w[j] = kind
  BY <1>2, HeldLine DEF Ending, Kinds
<1>8. Sees(w, phase, n, text, got)
  <2>1. Sees(w, phase, n, b \o Normalised(SubSeq(w, at + 1, n)), got)
    BY <1>1, <1>2, <1>3, <1>7, ChunkRead
  <2> QED
    BY <2>1, <1>4
<1>9. /\ text \in Seq(Pieces) /\ Held(w, phase, n, Rest(text))
      /\ got + more + Holds(Rest(text), "delta") = Cardinality(DeltaLines(w, n))
      /\ \A kind \in Ending :
           FramesIn(Blocks(text), kind) # {} => \E j \in 1..n : w[j] = kind
  BY <1>8 DEF Sees
<1>10. more \in Nat /\ r2 \in Response
  BY <1>6, <1>9, CutText, FramesFinite DEF DeltasIn
<1>11. Reading(r2, got + more)
  BY <1>1, <1>2, <1>3, <1>5, <1>9 DEF Reading
<1>12. ASSUME NEW kind \in Ending, FramesIn(Blocks(text), kind) # {}
       PROVE  AllOf(w, kind, got + more)
  <2>1. PICK j \in 1..n : w[j] = kind
    BY <1>9, <1>12
  <2>2. Holds(Rest(text), "delta") = 0 /\ DeltaLines(w, n) = DeltaLines(w, Len(w))
    BY <2>1, <1>1, <1>3, <1>9, EndIsLast
  <2>3. j \in 1..Len(w)
    BY <1>1
  <2>4. got + more + 0 = got + more
    BY <1>10
  <2> QED
    BY <2>1, <2>2, <2>3, <2>4, <1>9 DEF AllOf
<1> QED
  BY <1>9, <1>10, <1>11, <1>12 DEF w, r2

(* The response ends: the buffer is dispatched. *)
LEMMA EndStep ==
  ASSUME NEW r \in Response, NEW got \in Nat, Reading(r, got)
  PROVE  /\ DeltasIn(r.buffer) \in Nat
         /\ got + DeltasIn(r.buffer) <= Cardinality(DeltaLines(r.wire, Len(r.wire)))
         /\ \A kind \in Ending :
              FramesIn(r.buffer, kind) # {} => AllOf(r.wire, kind, got + DeltasIn(r.buffer))
<1> DEFINE w == r.wire
           n == r.at
           b == r.buffer
<1>1. w \in Seq(Pieces) /\ Len(w) \in Nat /\ n \in 0..Len(w) /\ n \in Nat
  BY DEF Response, Reading
<1>2. PICK phase : Parsed(w, phase) /\ Held(w, phase, n, b)
  BY DEF Reading
<1>3. Terminated(w) /\ got + Holds(b, "delta") = Cardinality(DeltaLines(w, n))
  BY DEF Reading
<1> HIDE DEF w, n, b
<1>4. b \in Seq(Pieces) /\ OneLine(b) /\ NoCut(b)
  BY <1>2, HeldShape, BufferShape
<1>5. Rest(b) = b /\ Blocks(b) = <<>>
  BY <1>4, NothingCut
<1>6. \A kind \in Kinds :
        /\ Cardinality(FramesIn(b, kind)) = Holds(b, kind)
        /\ FramesIn(b, kind) # {} => Holds(b, kind) = 1
  <2> SUFFICES ASSUME NEW kind \in Kinds
               PROVE  /\ Cardinality(FramesIn(b, kind)) = Holds(b, kind)
                      /\ FramesIn(b, kind) # {} => Holds(b, kind) = 1
    OBVIOUS
  <2>1. FramesIn(Blocks(b), kind) = {} /\ Cardinality(FramesIn(Blocks(b), kind)) = 0
    BY <1>5, NoFrames, FS_EmptySet
  <2>2. OneLine(Rest(b))
    BY <1>4, <1>5
  <2>3. Holds(b, kind) \in Nat
    BY DEF Holds
  <2>4. /\ Cardinality(FramesIn(b, kind)) =
             Cardinality(FramesIn(Blocks(b), kind)) + Holds(Rest(b), kind)
        /\ FramesIn(b, kind) # {} =>
             FramesIn(Blocks(b), kind) # {} \/ Holds(Rest(b), kind) = 1
    BY <2>2, <1>4, FramesSplit
  <2> QED
    BY <2>1, <2>3, <2>4, <1>5
<1>7. "delta" \in Kinds /\ Ending \subseteq Kinds /\ Holds(b, "delta") \in Nat
  BY DEF Kinds, Ending, Holds
<1>8. DeltasIn(b) = Holds(b, "delta")
  BY <1>6, <1>7 DEF DeltasIn
<1>9. got + DeltasIn(b) <= Cardinality(DeltaLines(w, Len(w)))
  <2>1. Cardinality(DeltaLines(w, n)) <= Cardinality(DeltaLines(w, Len(w)))
    BY <1>1, LinesGrow
  <2> QED
    BY <2>1, <1>3, <1>8
<1>10. ASSUME NEW kind \in Ending, FramesIn(b, kind) # {}
       PROVE  AllOf(w, kind, got + DeltasIn(b))
  <2>1. Holds(b, kind) = 1
    BY <1>6, <1>7, <1>10
  <2>2. PICK p \in 1..n : w[p] = kind
    BY <2>1, <1>2, <1>7, HeldLine
  <2>3. DeltaLines(w, n) = DeltaLines(w, Len(w)) /\ p \in 1..Len(w)
    BY <2>2, <1>1, <1>2, <1>3, EndIsLast
  <2> QED
    BY <2>2, <2>3, <1>3, <1>8 DEF AllOf
<1> QED
  BY <1>7, <1>8, <1>9, <1>10 DEF w, b

-----------------------------------------------------------------------------
(* The conversation, as a relation of messages and turns. *)

AnswerOf(trs, t) == [role |-> "assistant", content |-> [i \in 1..trs[t].got |-> t]]

IsUser(msgs, i) == i \in DOMAIN msgs /\ msgs[i].role = "user"
IsAnswer(msgs, i) == i \in DOMAIN msgs /\ msgs[i].role # "user"

EachAsked(msgs, trs) == \A t \in DOMAIN trs : \E i \in DOMAIN msgs : msgs[i] = Says(t)

UsersSay(msgs, trs) ==
  \A i : IsUser(msgs, i) =>
    msgs[i].content[1] \in DOMAIN trs /\ msgs[i] = Says(msgs[i].content[1])

InOrder(msgs) ==
  \A i, j : IsUser(msgs, i) /\ IsUser(msgs, j) /\ i < j =>
    msgs[i].content[1] < msgs[j].content[1]

Answered(msgs, trs) ==
  \A i : IsAnswer(msgs, i) =>
    IsUser(msgs, i - 1) /\ msgs[i] = AnswerOf(trs, msgs[i - 1].content[1])

GotShown(msgs, trs) ==
  \A i : IsUser(msgs, i) /\ trs[msgs[i].content[1]].got > 0 => IsAnswer(msgs, i + 1)

Chat(msgs, trs) ==
  /\ EachAsked(msgs, trs)
  /\ UsersSay(msgs, trs)
  /\ InOrder(msgs)
  /\ Answered(msgs, trs)
  /\ GotShown(msgs, trs)

(* Turn t's answer is the last message. *)
Open(msgs, trs, t) ==
  /\ t = Len(trs) /\ t \in DOMAIN trs
  /\ Len(msgs) > 1
  /\ msgs[Len(msgs)].role = "assistant"
  /\ msgs[Len(msgs) - 1] = Says(t)

(* Two runs of a delta are one. *)
LEMMA Repeats ==
  ASSUME NEW t, NEW m \in Nat, NEW n \in Nat
  PROVE  [i \in 1..m |-> t] \o [i \in 1..n |-> t] = [i \in 1..(m + n) |-> t]
OBVIOUS

(* Turn t's answer with n more deltas *)
Longer(message, t, n) == [message EXCEPT !.content = @ \o [i \in 1..n |-> t]]

(* The placeholder with the deltas of its turn is a message. *)
LEMMA AnswerType ==
  ASSUME NEW trs, NEW t \in Nat, trs[t].got \in Nat
  PROVE  AnswerOf(trs, t) \in Message
<1> DEFINE text == [i \in 1..trs[t].got |-> t]
<1>1. text \in Seq(Nat)
  OBVIOUS
<1> HIDE DEF text
<1>2. [role |-> "assistant", content |-> text] \in Message
  BY <1>1 DEF Message
<1> QED
  BY <1>2 DEF AnswerOf, text

(* Showing n deltas more keeps an answer the answer of its turn. *)
LEMMA LongerAnswer ==
  ASSUME NEW trs, NEW trs2, NEW t \in Nat, NEW n \in Nat,
         trs[t].got \in Nat, trs2[t].got = trs[t].got + n
  PROVE  Longer(AnswerOf(trs, t), t, n) = AnswerOf(trs2, t)
<1> DEFINE some == [i \in 1..trs[t].got |-> t]
           more == [i \in 1..n |-> t]
           all == [i \in 1..trs2[t].got |-> t]
<1>1. some \o more = all
  <2>1. some \o more = [i \in 1..(trs[t].got + n) |-> t]
    BY Repeats
  <2> QED
    BY <2>1
<1> HIDE DEF some, more, all
<1>2. [[role |-> "assistant", content |-> some] EXCEPT !.content = @ \o more]
        = [role |-> "assistant", content |-> all]
  BY <1>1
<1> QED
  BY <1>2 DEF AnswerOf, Longer, some, more, all

(* A text of the user carries its turn, and no answer is taken for one. *)
LEMMA SaysWhat == \A t : Says(t).role = "user" /\ Says(t).content[1] = t
BY DEF Says

LEMMA AnswerRole == \A trs, t : AnswerOf(trs, t).role # "user"
BY DEF AnswerOf

(* While a turn is open, the last message is its answer and the one before its text. *)
LEMMA LastAnswer ==
  ASSUME NEW msgs \in Seq(Message), NEW trs \in Seq(Turn), NEW t,
         Chat(msgs, trs), Open(msgs, trs, t)
  PROVE  /\ t \in Nat /\ t \in DOMAIN trs /\ trs[t].got \in Nat
         /\ Len(msgs) \in Nat /\ Len(msgs) > 1
         /\ Len(msgs) \in DOMAIN msgs /\ DOMAIN msgs = 1..Len(msgs)
         /\ IsUser(msgs, Len(msgs) - 1) /\ IsAnswer(msgs, Len(msgs))
         /\ msgs[Len(msgs) - 1] = Says(t)
         /\ msgs[Len(msgs)] = AnswerOf(trs, t)
         /\ \A i : IsUser(msgs, i) /\ msgs[i].content[1] = t => i = Len(msgs) - 1
<1> DEFINE last == Len(msgs)
<1>1. /\ t \in Nat /\ t \in DOMAIN trs /\ trs[t].got \in Nat
      /\ last \in Nat /\ last > 1
      /\ last \in DOMAIN msgs /\ last - 1 \in DOMAIN msgs /\ DOMAIN msgs = 1..last
  <2>1. t \in DOMAIN trs /\ t = Len(trs) /\ last > 1 /\ last \in Nat
    BY DEF Open
  <2>2. trs[t] \in Turn
    BY <2>1
  <2>3. trs[t].got \in Nat
    BY <2>2 DEF Turn
  <2> QED
    BY <2>1, <2>3
<1>2. msgs[last].role # "user" /\ msgs[last - 1] = Says(t)
  BY DEF Open
<1> HIDE DEF last
<1>3. IsUser(msgs, last - 1) /\ IsAnswer(msgs, last)
  BY <1>1, <1>2, SaysWhat DEF IsUser, IsAnswer
<1>4. msgs[last] = AnswerOf(trs, msgs[last - 1].content[1])
  BY <1>3 DEF Chat, Answered
<1>5. msgs[last] = AnswerOf(trs, t)
  BY <1>4, <1>2, SaysWhat
<1>6. ASSUME NEW i, IsUser(msgs, i), msgs[i].content[1] = t
      PROVE  i = last - 1
  <2>1. i \in 1..last /\ i # last
    BY <1>6, <1>1, <1>3 DEF IsUser, IsAnswer
  <2>2. CASE i < last - 1
    <3>1. msgs[i].content[1] < msgs[last - 1].content[1]
      BY <2>2, <1>6, <1>3 DEF Chat, InOrder
    <3> QED
      BY <3>1, <1>1, <1>2, <1>6, SaysWhat
  <2> QED
    BY <2>1, <2>2, <1>1
<1> QED
  BY <1>1, <1>2, <1>3, <1>5, <1>6 DEF last

(* Lengthening one message keeps the others. *)
LEMMA LongerType ==
  ASSUME NEW msgs \in Seq(Message), NEW k \in DOMAIN msgs, NEW t \in Nat, NEW n \in Nat,
         NEW msgs2, msgs2 = [msgs EXCEPT ![k] = Longer(msgs[k], t, n)]
  PROVE  msgs2 \in Seq(Message) /\ Len(msgs2) = Len(msgs)
<1>1. msgs[k] \in Message
  OBVIOUS
<1>2. Longer(msgs[k], t, n) \in Message
  <2> DEFINE more == [i \in 1..n |-> t]
  <2>1. more \in Seq(Nat)
    OBVIOUS
  <2> HIDE DEF more
  <2>2. msgs[k].content \o more \in Seq(Nat)
    BY <1>1, <2>1 DEF Message
  <2>3. [msgs[k] EXCEPT !.content = @ \o more] \in Message
    BY <1>1, <2>2 DEF Message
  <2> QED
    BY <2>3 DEF Longer, more
<1> DEFINE message == Longer(msgs[k], t, n)
<1> HIDE DEF message
<1>3. message \in Message
  BY <1>2 DEF message
<1>4. [msgs EXCEPT ![k] = message] \in Seq(Message) /\ Len([msgs EXCEPT ![k] = message]) = Len(msgs)
  BY <1>3
<1> QED
  BY <1>4 DEF message

(* Deltas appended to the last answer *)
LEMMA ShownChat ==
  ASSUME NEW msgs \in Seq(Message), NEW trs \in Seq(Turn), NEW trs2 \in Seq(Turn),
         NEW t, NEW n \in Nat, NEW msgs2,
         Chat(msgs, trs), Open(msgs, trs, t),
         msgs2 \in Seq(Message), Len(msgs2) = Len(msgs),
         msgs2[Len(msgs)] = Longer(msgs[Len(msgs)], t, n),
         \A i \in DOMAIN msgs : i # Len(msgs) => msgs2[i] = msgs[i],
         Len(trs2) = Len(trs), trs2[t].got = trs[t].got + n,
         \A u \in DOMAIN trs : u # t => trs2[u].got = trs[u].got
  PROVE  Chat(msgs2, trs2) /\ Open(msgs2, trs2, t)
<1> DEFINE last == Len(msgs)
<1>1. /\ t \in Nat /\ t \in DOMAIN trs /\ trs[t].got \in Nat
      /\ last \in Nat /\ last > 1 /\ last \in DOMAIN msgs /\ DOMAIN msgs = 1..last
      /\ IsUser(msgs, last - 1) /\ IsAnswer(msgs, last)
      /\ msgs[last - 1] = Says(t) /\ msgs[last] = AnswerOf(trs, t)
      /\ \A i : IsUser(msgs, i) /\ msgs[i].content[1] = t => i = last - 1
  BY LastAnswer
<1>2. DOMAIN trs2 = DOMAIN trs
  OBVIOUS
<1>3. msgs2[last] = Longer(msgs[last], t, n)
  OBVIOUS
<1>4. DOMAIN msgs2 = DOMAIN msgs /\ \A i \in DOMAIN msgs : i # last => msgs2[i] = msgs[i]
  OBVIOUS
<1>5. trs2[t].got = trs[t].got + n
  OBVIOUS
<1> HIDE DEF last
<1>6. msgs2[last] = AnswerOf(trs2, t)
  <2>1. Longer(AnswerOf(trs, t), t, n) = AnswerOf(trs2, t)
    BY <1>1, <1>5, LongerAnswer
  <2> QED
    BY <2>1, <1>1, <1>3
<1>7. Len(msgs2) = last
  BY DEF last
<1>8. \A i : IsUser(msgs2, i) <=> IsUser(msgs, i)
  BY <1>1, <1>4, <1>6, AnswerRole DEF IsUser
<1>9. \A i : IsAnswer(msgs2, i) <=> IsAnswer(msgs, i)
  BY <1>1, <1>4, <1>6, AnswerRole DEF IsAnswer
<1>10. \A i : IsUser(msgs, i) => msgs2[i] = msgs[i]
  BY <1>1, <1>4 DEF IsUser, IsAnswer
<1>11. Open(msgs2, trs2, t)
  <2>1. msgs2[last].role = "assistant" /\ msgs2[last - 1] = Says(t)
    BY <1>1, <1>6, <1>10 DEF AnswerOf
  <2> QED
    BY <2>1, <1>1, <1>2, <1>7 DEF Open
<1>12. EachAsked(msgs2, trs2)
  <2> SUFFICES ASSUME NEW u \in DOMAIN trs
              PROVE  \E i \in DOMAIN msgs2 : msgs2[i] = Says(u)
    BY <1>2 DEF EachAsked
  <2>1. PICK i \in DOMAIN msgs : msgs[i] = Says(u)
    BY DEF Chat, EachAsked
  <2>2. IsUser(msgs, i)
    BY <2>1, SaysWhat DEF IsUser
  <2> QED
    BY <2>1, <2>2, <1>4, <1>10
<1>13. UsersSay(msgs2, trs2)
  BY <1>2, <1>8, <1>10 DEF Chat, UsersSay
<1>14. InOrder(msgs2)
  BY <1>8, <1>10 DEF Chat, InOrder
<1>15. Answered(msgs2, trs2)
  <2> SUFFICES ASSUME NEW i, IsAnswer(msgs, i)
              PROVE  /\ IsUser(msgs, i - 1)
                     /\ msgs2[i] = AnswerOf(trs2, msgs[i - 1].content[1])
    BY <1>8, <1>9, <1>10 DEF Answered
  <2>1. IsUser(msgs, i - 1) /\ msgs[i] = AnswerOf(trs, msgs[i - 1].content[1])
    BY DEF Chat, Answered
  <2>2. CASE i = last
    BY <2>1, <2>2, <1>1, <1>6, SaysWhat
  <2>3. CASE i # last
    <3>1. i - 1 # last - 1 /\ i \in DOMAIN msgs
      BY <2>3, <1>1 DEF IsAnswer
    <3>2. msgs[i - 1].content[1] # t
      BY <3>1, <2>1, <1>1
    <3>3. msgs[i - 1].content[1] \in DOMAIN trs
      BY <2>1 DEF Chat, UsersSay
    <3>4. trs2[msgs[i - 1].content[1]].got = trs[msgs[i - 1].content[1]].got
      BY <3>2, <3>3
    <3>5. msgs2[i] = msgs[i]
      BY <3>1, <2>3, <1>4
    <3> QED
      BY <2>1, <3>4, <3>5 DEF AnswerOf
  <2> QED
    BY <2>2, <2>3
<1>16. GotShown(msgs2, trs2)
  <2> SUFFICES ASSUME NEW i, IsUser(msgs, i), trs2[msgs[i].content[1]].got > 0
              PROVE  IsAnswer(msgs, i + 1)
    BY <1>8, <1>9, <1>10 DEF GotShown
  <2>1. CASE msgs[i].content[1] = t
    <3>1. i = last - 1
      BY <2>1, <1>1
    <3>2. i + 1 = last
      BY <3>1, <1>1
    <3> QED
      BY <3>2, <1>1
  <2>2. CASE msgs[i].content[1] # t
    <3>1. msgs[i].content[1] \in DOMAIN trs
      BY DEF Chat, UsersSay
    <3>2. trs[msgs[i].content[1]].got > 0
      BY <2>2, <3>1
    <3> QED
      BY <3>2 DEF Chat, GotShown
  <2> QED
    BY <2>1, <2>2
<1>17. Chat(msgs2, trs2)
  BY <1>12, <1>13, <1>14, <1>15, <1>16 DEF Chat
<1> QED
  BY <1>11, <1>17

(* Turns that changed in nothing that is shown *)
LEMMA SameChat ==
  ASSUME NEW msgs, NEW trs, NEW trs2,
         Chat(msgs, trs), DOMAIN trs2 = DOMAIN trs,
         \A u \in DOMAIN trs : trs2[u].got = trs[u].got
  PROVE  Chat(msgs, trs2)
<1>1. EachAsked(msgs, trs2) /\ UsersSay(msgs, trs2) /\ InOrder(msgs)
  BY DEF Chat, EachAsked, UsersSay
<1>2. Answered(msgs, trs2)
  <2> SUFFICES ASSUME NEW i, IsAnswer(msgs, i)
              PROVE  IsUser(msgs, i - 1) /\ msgs[i] = AnswerOf(trs2, msgs[i - 1].content[1])
    BY DEF Answered
  <2>1. IsUser(msgs, i - 1) /\ msgs[i] = AnswerOf(trs, msgs[i - 1].content[1])
    BY DEF Chat, Answered
  <2>2. msgs[i - 1].content[1] \in DOMAIN trs
    BY <2>1 DEF Chat, UsersSay
  <2> QED
    BY <2>1, <2>2 DEF AnswerOf
<1>3. GotShown(msgs, trs2)
  BY DEF Chat, UsersSay, GotShown
<1> QED
  BY <1>1, <1>2, <1>3 DEF Chat

(* A message of the user appended *)
LEMMA AskChat ==
  ASSUME NEW msgs \in Seq(Message), NEW trs \in Seq(Turn), NEW trs2 \in Seq(Turn),
         Chat(msgs, trs), Len(trs2) = Len(trs) + 1, trs2[Len(trs2)].got = 0,
         \A u \in DOMAIN trs : trs2[u].got = trs[u].got,
         NEW msgs2, msgs2 = Append(msgs, Says(Len(trs2)))
  PROVE  Chat(msgs2, trs2)
<1> DEFINE k == Len(trs2)
<1>1. /\ Len(msgs) \in Nat /\ DOMAIN msgs = 1..Len(msgs)
      /\ DOMAIN msgs2 = 1..(Len(msgs) + 1)
      /\ \A i \in DOMAIN msgs : msgs2[i] = msgs[i]
      /\ msgs2[Len(msgs) + 1] = Says(k)
  OBVIOUS
<1>2. /\ k \in Nat /\ DOMAIN trs = 1..(k - 1) /\ DOMAIN trs2 = 1..k
      /\ trs2[k].got = 0 /\ \A u \in DOMAIN trs : trs2[u].got = trs[u].got
  OBVIOUS
<1> DEFINE last == Len(msgs) + 1
<1>3. Says(k).role = "user" /\ Says(k).content[1] = k
  BY SaysWhat
<1> HIDE DEF k
<1>4. \A i : IsUser(msgs2, i) <=> IsUser(msgs, i) \/ i = last
  BY <1>1, <1>3 DEF IsUser
<1>5. \A i : IsAnswer(msgs2, i) <=> IsAnswer(msgs, i)
  BY <1>1, <1>3 DEF IsAnswer
<1>6. \A i : IsUser(msgs, i) =>
        msgs2[i] = msgs[i] /\ msgs[i].content[1] \in 1..(k - 1) /\ i < last /\ i # last
  BY <1>1, <1>2 DEF IsUser, Chat, UsersSay
<1>7. EachAsked(msgs2, trs2)
  <2> SUFFICES ASSUME NEW u \in 1..k PROVE \E i \in DOMAIN msgs2 : msgs2[i] = Says(u)
    BY <1>2 DEF EachAsked
  <2>1. CASE u = k
    BY <2>1, <1>1
  <2>2. CASE u # k
    <3>1. u \in DOMAIN trs
      BY <2>2, <1>2
    <3>2. PICK i \in DOMAIN msgs : msgs[i] = Says(u)
      BY <3>1 DEF Chat, EachAsked
    <3>3. i \in DOMAIN msgs2
      BY <1>1
    <3> QED
      BY <3>2, <3>3, <1>1
  <2> QED
    BY <2>1, <2>2
<1>8. UsersSay(msgs2, trs2)
  <2> SUFFICES ASSUME NEW i, IsUser(msgs2, i)
              PROVE  msgs2[i].content[1] \in 1..k /\ msgs2[i] = Says(msgs2[i].content[1])
    BY <1>2 DEF UsersSay
  <2>1. CASE i = last
    <3>1. msgs2[i] = Says(k) /\ k \in 1..k
      BY <2>1, <1>1, <1>2
    <3> QED
      BY <3>1, <1>3
  <2>2. CASE IsUser(msgs, i)
    <3>1. msgs[i] = Says(msgs[i].content[1])
      BY <2>2 DEF Chat, UsersSay
    <3>2. msgs[i].content[1] \in 1..k
      BY <2>2, <1>2, <1>6
    <3> QED
      BY <2>2, <3>1, <3>2, <1>6
  <2> QED
    BY <2>1, <2>2, <1>4
<1>9. InOrder(msgs2)
  <2> SUFFICES ASSUME NEW i, NEW j, IsUser(msgs2, i), IsUser(msgs2, j), i < j
              PROVE  msgs2[i].content[1] < msgs2[j].content[1]
    BY DEF InOrder
  <2>1. CASE IsUser(msgs, i) /\ IsUser(msgs, j)
    BY <2>1, <1>6 DEF Chat, InOrder
  <2>2. CASE IsUser(msgs, i) /\ j = last
    <3>1. msgs2[j].content[1] = k
      BY <2>2, <1>1, <1>3
    <3>2. msgs2[i] = msgs[i] /\ msgs[i].content[1] \in 1..(k - 1)
      BY <2>2, <1>6
    <3>3. \A said \in 1..(k - 1) : said < k
      BY <1>2
    <3>4. msgs2[i].content[1] < k
      BY <3>2, <3>3
    <3> QED
      BY <3>1, <3>4
  <2>3. CASE i = last
    <3>1. j \in DOMAIN msgs2
      BY DEF IsUser
    <3> QED
      BY <2>3, <3>1, <1>1
  <2> QED
    BY <2>1, <2>2, <2>3, <1>4
<1>10. Answered(msgs2, trs2)
  <2> SUFFICES ASSUME NEW i, IsAnswer(msgs, i)
              PROVE  /\ IsUser(msgs2, i - 1)
                     /\ msgs2[i] = AnswerOf(trs2, msgs2[i - 1].content[1])
    BY <1>5 DEF Answered
  <2>1. IsUser(msgs, i - 1) /\ msgs[i] = AnswerOf(trs, msgs[i - 1].content[1])
    BY DEF Chat, Answered
  <2>2. msgs2[i] = msgs[i] /\ msgs2[i - 1] = msgs[i - 1]
    BY <2>1, <1>1, <1>6 DEF IsAnswer
  <2>3. msgs[i - 1].content[1] \in DOMAIN trs
    BY <2>1 DEF Chat, UsersSay
  <2>4. AnswerOf(trs2, msgs[i - 1].content[1]) = AnswerOf(trs, msgs[i - 1].content[1])
    BY <2>3, <1>2 DEF AnswerOf
  <2> QED
    BY <2>1, <2>2, <2>4, <1>4
<1>11. GotShown(msgs2, trs2)
  <2> SUFFICES ASSUME NEW i, IsUser(msgs2, i), trs2[msgs2[i].content[1]].got > 0
              PROVE  IsAnswer(msgs, i + 1)
    BY <1>5 DEF GotShown
  <2>1. i # last
    BY <1>1, <1>2, <1>3
  <2>2. IsUser(msgs, i)
    BY <2>1, <1>4
  <2>3. trs[msgs[i].content[1]].got > 0
    BY <2>2, <1>2, <1>6
  <2> QED
    BY <2>2, <2>3 DEF Chat, GotShown
<1> QED
  BY <1>7, <1>8, <1>9, <1>10, <1>11 DEF Chat

(* A placeholder appended to the last message of the user *)
LEMMA PlaceChat ==
  ASSUME NEW msgs \in Seq(Message), NEW trs \in Seq(Turn), NEW t,
         Chat(msgs, trs), t = Len(trs), t \in DOMAIN trs, trs[t].got = 0,
         Len(msgs) > 0, msgs[Len(msgs)] = Says(t),
         NEW msgs2, msgs2 = Append(msgs, Nothing)
  PROVE  Chat(msgs2, trs) /\ Open(msgs2, trs, t)
<1> DEFINE last == Len(msgs)
<1>1. /\ last \in Nat /\ last > 0 /\ DOMAIN msgs = 1..last
      /\ DOMAIN msgs2 = 1..(last + 1) /\ Len(msgs2) = last + 1
      /\ \A i \in DOMAIN msgs : msgs2[i] = msgs[i]
      /\ msgs2[last + 1] = Nothing /\ msgs2[last] = Says(t) /\ msgs[last] = Says(t)
  OBVIOUS
<1> HIDE DEF last
<1>2. Says(t).role = "user" /\ Says(t).content[1] = t
  BY SaysWhat
<1>3. Nothing = AnswerOf(trs, t) /\ Nothing.role = "assistant" /\ Nothing.role # "user"
  <2>1. [i \in 1..trs[t].got |-> t] = <<>>
    OBVIOUS
  <2> QED
    BY <2>1 DEF Nothing, AnswerOf
<1>4. \A i : IsUser(msgs2, i) <=> IsUser(msgs, i)
  BY <1>1, <1>3 DEF IsUser
<1>5. \A i : IsAnswer(msgs2, i) <=> IsAnswer(msgs, i) \/ i = last + 1
  BY <1>1, <1>3 DEF IsAnswer
<1>6. \A i : IsUser(msgs, i) => msgs2[i] = msgs[i]
  BY <1>1 DEF IsUser
<1>7. EachAsked(msgs2, trs)
  BY <1>1 DEF Chat, EachAsked
<1>8. UsersSay(msgs2, trs) /\ InOrder(msgs2)
  BY <1>4, <1>6 DEF Chat, UsersSay, InOrder
<1>9. IsUser(msgs, last)
  BY <1>1, <1>2 DEF IsUser
<1>10. Answered(msgs2, trs)
  <2> SUFFICES ASSUME NEW i, IsAnswer(msgs2, i)
              PROVE  /\ IsUser(msgs2, i - 1)
                     /\ msgs2[i] = AnswerOf(trs, msgs2[i - 1].content[1])
    BY DEF Answered
  <2>1. CASE i = last + 1
    <3>1. i - 1 = last
      BY <2>1, <1>1
    <3> QED
      BY <3>1, <2>1, <1>1, <1>2, <1>3, <1>4, <1>9
  <2>2. CASE IsAnswer(msgs, i)
    <3>1. IsUser(msgs, i - 1) /\ msgs[i] = AnswerOf(trs, msgs[i - 1].content[1])
      BY <2>2 DEF Chat, Answered
    <3>2. msgs2[i] = msgs[i]
      BY <2>2, <1>1 DEF IsAnswer
    <3> QED
      BY <3>1, <3>2, <1>4, <1>6
  <2> QED
    BY <2>1, <2>2, <1>5
<1>11. GotShown(msgs2, trs)
  BY <1>4, <1>5, <1>6 DEF Chat, GotShown
<1>12. Open(msgs2, trs, t)
  <2>1. Len(msgs2) > 1 /\ Len(msgs2) - 1 = last
    BY <1>1
  <2> QED
    BY <2>1, <1>1, <1>3 DEF Open
<1> QED
  BY <1>7, <1>8, <1>10, <1>11, <1>12 DEF Chat

(* A placeholder taken away again *)
LEMMA PopChat ==
  ASSUME NEW msgs \in Seq(Message), NEW trs \in Seq(Turn), NEW t,
         Chat(msgs, trs), Open(msgs, trs, t)
  PROVE  WithoutPlaceholder(msgs) \in Seq(Message) /\ Chat(WithoutPlaceholder(msgs), trs)
<1> DEFINE last == Len(msgs)
           msgs2 == SubSeq(msgs, 1, last - 1)
<1>1. /\ t \in Nat /\ t \in DOMAIN trs /\ trs[t].got \in Nat
      /\ last \in Nat /\ last > 1 /\ last \in DOMAIN msgs /\ DOMAIN msgs = 1..last
      /\ IsUser(msgs, last - 1) /\ IsAnswer(msgs, last)
      /\ msgs[last - 1] = Says(t) /\ msgs[last] = AnswerOf(trs, t)
      /\ \A i : IsUser(msgs, i) /\ msgs[i].content[1] = t => i = last - 1
  BY LastAnswer
<1>2. CASE msgs[last] # Nothing
  <2>1. WithoutPlaceholder(msgs) = msgs
    BY <1>2 DEF WithoutPlaceholder, Last
  <2> QED
    BY <2>1
<1>3. CASE msgs[last] = Nothing
  <2>1. trs[t].got = 0
    <3>1. AnswerOf(trs, t).content = <<>>
      BY <1>1, <1>3 DEF Nothing
    <3>2. [i \in 1..trs[t].got |-> t] = <<>>
      BY <3>1 DEF AnswerOf
    <3>3. DOMAIN [i \in 1..trs[t].got |-> t] = {}
      BY <3>2
    <3>4. 1..trs[t].got = {}
      BY <3>3
    <3> QED
      BY <3>4, <1>1
  <2>2. WithoutPlaceholder(msgs) = msgs2
    BY <1>1, <1>3 DEF WithoutPlaceholder, Last, Front
  <2>3. /\ msgs2 \in Seq(Message) /\ DOMAIN msgs2 = 1..(last - 1)
        /\ \A i \in 1..(last - 1) : msgs2[i] = msgs[i]
    BY <1>1
  <2> HIDE DEF last, msgs2
  <2>4. \A i : IsUser(msgs2, i) <=> IsUser(msgs, i)
    <3> SUFFICES ASSUME NEW i PROVE IsUser(msgs2, i) <=> IsUser(msgs, i)
      OBVIOUS
    <3>1. CASE i \in 1..(last - 1)
      BY <3>1, <2>3, <1>1 DEF IsUser
    <3>2. CASE i \notin 1..(last - 1)
      <4>1. ~IsUser(msgs2, i)
        BY <3>2, <2>3 DEF IsUser
      <4>2. IsUser(msgs, i) => i = last
        BY <3>2, <1>1 DEF IsUser
      <4> QED
        BY <4>1, <4>2, <1>1 DEF IsUser, IsAnswer
    <3> QED
      BY <3>1, <3>2
  <2>5. \A i : IsAnswer(msgs2, i) <=> IsAnswer(msgs, i) /\ i # last
    BY <2>3, <1>1 DEF IsAnswer
  <2>6. \A i : IsUser(msgs, i) \/ IsAnswer(msgs2, i) => msgs2[i] = msgs[i]
    BY <2>3, <2>4 DEF IsUser, IsAnswer
  <2>7. EachAsked(msgs2, trs)
    <3> SUFFICES ASSUME NEW u \in DOMAIN trs
                PROVE  \E i \in DOMAIN msgs2 : msgs2[i] = Says(u)
      BY DEF EachAsked
    <3>1. PICK i \in DOMAIN msgs : msgs[i] = Says(u)
      BY DEF Chat, EachAsked
    <3>2. IsUser(msgs, i)
      BY <3>1, SaysWhat DEF IsUser
    <3>3. i \in DOMAIN msgs2
      BY <3>2, <2>4 DEF IsUser
    <3> QED
      BY <3>1, <3>2, <3>3, <2>6
  <2>8. UsersSay(msgs2, trs) /\ InOrder(msgs2)
    BY <2>4, <2>6 DEF Chat, UsersSay, InOrder
  <2>9. Answered(msgs2, trs)
    <3> SUFFICES ASSUME NEW i, IsAnswer(msgs2, i)
                PROVE  /\ IsUser(msgs2, i - 1)
                       /\ msgs2[i] = AnswerOf(trs, msgs2[i - 1].content[1])
      BY DEF Answered
    <3>1. IsUser(msgs, i - 1) /\ msgs[i] = AnswerOf(trs, msgs[i - 1].content[1])
      BY <2>5 DEF Chat, Answered
    <3> QED
      BY <3>1, <2>4, <2>6
  <2>10. GotShown(msgs2, trs)
    <3> SUFFICES ASSUME NEW i, IsUser(msgs, i), trs[msgs[i].content[1]].got > 0
                PROVE  IsAnswer(msgs2, i + 1)
      BY <2>4, <2>6 DEF GotShown
    <3>1. IsAnswer(msgs, i + 1)
      BY DEF Chat, GotShown
    <3>2. msgs[i].content[1] # t
      BY <2>1
    <3>3. i # last - 1
      BY <3>2, <1>1, SaysWhat
    <3>4. i \in 1..last
      BY <1>1 DEF IsUser
    <3>5. i + 1 # last
      BY <3>3, <3>4, <1>1
    <3> QED
      BY <3>1, <3>5, <2>5
  <2> QED
    BY <2>2, <2>3, <2>7, <2>8, <2>9, <2>10 DEF Chat
<1> QED
  BY <1>2, <1>3

-----------------------------------------------------------------------------
(* The conversation and the turns, inductively: the one turn that is not   *)
(* settled writes to the last message, and nothing is added meanwhile.     *)

TalkTypes ==
  /\ messages \in Seq(Message) /\ turns \in Seq(Turn) /\ streaming \in BOOLEAN
  /\ init \in {"asking", "ready", "failed"}

Writing(t) == streaming /\ Open(messages, turns, t) /\ turns[t].index = Len(messages)

TalkInv ==
  /\ TalkTypes
  /\ Chat(messages, turns)
  /\ \A t \in Unsettled : Writing(t)

RespInv == responses \in Seq(Response) /\ Len(responses) = Len(turns)

(* What the widget shows after n deltas more. *)
LEMMA ShownIs ==
  ASSUME NEW t \in DOMAIN turns, NEW n \in Nat, TalkTypes, Writing(t), t \in Nat
  PROVE  /\ Shown(t, n) \in Seq(Message) /\ Len(Shown(t, n)) = Len(messages)
         /\ Shown(t, n)[Len(messages)] = Longer(messages[Len(messages)], t, n)
         /\ \A i \in DOMAIN messages : i # Len(messages) => Shown(t, n)[i] = messages[i]
<1> DEFINE last == Len(messages)
<1>1. last \in DOMAIN messages /\ turns[t].index = last /\ messages \in Seq(Message)
  BY DEF Writing, Open, TalkTypes
<1>2. Shown(t, n) = [messages EXCEPT ![last] = Longer(messages[last], t, n)]
  BY <1>1 DEF Shown, Longer
<1>3. Shown(t, n) \in Seq(Message) /\ Len(Shown(t, n)) = last
  BY <1>1, <1>2, LongerType
<1> HIDE DEF last
<1> DEFINE longer == Longer(messages[last], t, n)
<1> HIDE DEF longer
<1>4. [messages EXCEPT ![last] = longer][last] = longer
  BY <1>1
<1>5. \A i \in DOMAIN messages : i # last => [messages EXCEPT ![last] = longer][i] = messages[i]
  BY <1>1
<1> QED
  BY <1>2, <1>3, <1>4, <1>5 DEF last, longer

(* What a step of turn t makes of the turns *)
Moved(trs, t, pc, n) == [trs EXCEPT ![t].pc = pc, ![t].got = @ + n]

(* Moving one turn keeps the others. *)
LEMMA TurnMoves ==
  ASSUME NEW trs \in Seq(Turn), NEW t \in DOMAIN trs, NEW n \in Nat,
         NEW pc \in {"posted", "reading", "done", "failed"}, NEW trs2,
         trs2 = Moved(trs, t, pc, n)
  PROVE  /\ trs2 \in Seq(Turn) /\ Len(trs2) = Len(trs)
         /\ trs2[t].pc = pc /\ trs2[t].got = trs[t].got + n /\ trs2[t].index = trs[t].index
         /\ \A u \in DOMAIN trs : u # t => trs2[u] = trs[u]
<1>1. trs[t] \in Turn
  OBVIOUS
<1>2. trs[t].got + n \in Nat
  BY <1>1 DEF Turn
<1> DEFINE one == [trs[t] EXCEPT !.pc = pc, !.got = @ + n]
<1>3. one \in Turn
  BY <1>1, <1>2 DEF Turn
<1>4. one.pc = pc /\ one.got = trs[t].got + n /\ one.index = trs[t].index
  BY <1>1 DEF Turn
<1>5. trs2 = [trs EXCEPT ![t] = one]
  BY DEF Moved
<1> HIDE DEF one
<1>6. [trs EXCEPT ![t] = one] \in Seq(Turn) /\ Len([trs EXCEPT ![t] = one]) = Len(trs)
  BY <1>3
<1>7. [trs EXCEPT ![t] = one][t] = one
  OBVIOUS
<1>8. \A u \in DOMAIN trs : u # t => [trs EXCEPT ![t] = one][u] = trs[u]
  OBVIOUS
<1> QED
  BY <1>4, <1>5, <1>6, <1>7, <1>8

(* Only the last turn can be unsettled, and it is the one that writes. *)
LEMMA OnlyOneWrites ==
  ASSUME TalkInv, NEW t \in Unsettled
  PROVE  /\ Writing(t) /\ t = Len(turns) /\ t \in DOMAIN turns /\ t \in Nat
         /\ \A u \in Unsettled : u = t
<1>1. \A u \in Unsettled : Writing(u) /\ u = Len(turns) /\ u \in DOMAIN turns
  BY DEF TalkInv, Writing, Open
<1>2. Len(turns) \in Nat
  BY DEF TalkInv, TalkTypes
<1> QED
  BY <1>1, <1>2

(* A turn goes on, or its promise settles, after n more deltas. *)
LEMMA TurnShows ==
  ASSUME TalkInv, NEW t \in Unsettled, NEW n \in Nat,
         turns' \in Seq(Turn), Len(turns') = Len(turns),
         turns'[t].got = turns[t].got + n, turns'[t].index = turns[t].index,
         \A u \in DOMAIN turns : u # t => turns'[u] = turns[u]
  PROVE  /\ Shown(t, n) \in Seq(Message)
         /\ Chat(Shown(t, n), turns') /\ Open(Shown(t, n), turns', t)
         /\ turns'[t].index = Len(Shown(t, n))
         /\ Unsettled' \subseteq {t}
<1>1. /\ Writing(t) /\ t = Len(turns) /\ t \in DOMAIN turns /\ t \in Nat
      /\ \A u \in Unsettled : u = t
  BY OnlyOneWrites
<1>2. messages \in Seq(Message) /\ turns \in Seq(Turn) /\ TalkTypes
  BY DEF TalkInv, TalkTypes
<1>3. Open(messages, turns, t) /\ Chat(messages, turns) /\ turns[t].index = Len(messages)
  BY <1>1 DEF Writing, TalkInv
<1>4. /\ Shown(t, n) \in Seq(Message) /\ Len(Shown(t, n)) = Len(messages)
      /\ Shown(t, n)[Len(messages)] = Longer(messages[Len(messages)], t, n)
      /\ \A i \in DOMAIN messages : i # Len(messages) => Shown(t, n)[i] = messages[i]
  BY <1>1, <1>2, ShownIs
<1>5. Chat(Shown(t, n), turns') /\ Open(Shown(t, n), turns', t)
  <2> DEFINE msgs2 == Shown(t, n)
  <2>1. /\ msgs2 \in Seq(Message) /\ Len(msgs2) = Len(messages)
        /\ msgs2[Len(messages)] = Longer(messages[Len(messages)], t, n)
        /\ \A i \in DOMAIN messages : i # Len(messages) => msgs2[i] = messages[i]
    BY <1>4
  <2>2. \A u \in DOMAIN turns : u # t => turns'[u].got = turns[u].got
    OBVIOUS
  <2> HIDE DEF msgs2
  <2>3. Chat(msgs2, turns') /\ Open(msgs2, turns', t)
    BY <1>2, <1>3, <2>1, <2>2, ShownChat
  <2> QED
    BY <2>3 DEF msgs2
<1>6. Unsettled' \subseteq {t}
  <2>1. DOMAIN turns' = DOMAIN turns
    BY <1>2
  <2>2. \A u \in Unsettled' : u # t => u \in Unsettled
    BY <2>1 DEF Unsettled
  <2> QED
    BY <1>1, <2>2
<1> QED
  BY <1>3, <1>4, <1>5, <1>6

(* A turn that settles, with or without removing its placeholder, keeps TalkInv. *)
LEMMA SettledTalk ==
  ASSUME TalkInv, NEW t \in Unsettled, NEW n \in Nat, NEW pc \in {"done", "failed"},
         Settled(t, pc, n), streaming' = FALSE, UNCHANGED init,
         messages' = Shown(t, n) \/ messages' = WithoutPlaceholder(Shown(t, n))
  PROVE  TalkInv'
<1>1. turns \in Seq(Turn) /\ t \in DOMAIN turns
  BY OnlyOneWrites DEF TalkInv, TalkTypes
<1>2. turns' = Moved(turns, t, pc, n)
  BY DEF Settled, Moved
<1>3. /\ turns' \in Seq(Turn) /\ Len(turns') = Len(turns)
      /\ turns'[t].pc = pc /\ turns'[t].got = turns[t].got + n
      /\ turns'[t].index = turns[t].index
      /\ \A u \in DOMAIN turns : u # t => turns'[u] = turns[u]
  <2> DEFINE trs2 == turns'
  <2>1. trs2 = Moved(turns, t, pc, n)
    BY <1>2
  <2> HIDE DEF trs2
  <2>2. pc \in {"posted", "reading", "done", "failed"}
    OBVIOUS
  <2>3. /\ trs2 \in Seq(Turn) /\ Len(trs2) = Len(turns)
        /\ trs2[t].pc = pc /\ trs2[t].got = turns[t].got + n
        /\ trs2[t].index = turns[t].index
        /\ \A u \in DOMAIN turns : u # t => trs2[u] = turns[u]
    BY <1>1, <2>1, <2>2, TurnMoves
  <2> QED
    BY <2>3 DEF trs2
<1>4. /\ Shown(t, n) \in Seq(Message)
      /\ Chat(Shown(t, n), turns') /\ Open(Shown(t, n), turns', t)
      /\ Unsettled' \subseteq {t}
  BY <1>3, TurnShows
<1>5. messages' \in Seq(Message) /\ Chat(messages', turns')
  <2> DEFINE shown == Shown(t, n)
  <2>1. shown \in Seq(Message) /\ Chat(shown, turns') /\ Open(shown, turns', t)
    BY <1>4
  <2>2. messages' = shown \/ messages' = WithoutPlaceholder(shown)
    OBVIOUS
  <2> HIDE DEF shown
  <2>3. /\ WithoutPlaceholder(shown) \in Seq(Message)
        /\ Chat(WithoutPlaceholder(shown), turns')
    BY <1>3, <2>1, PopChat
  <2> QED
    BY <2>1, <2>2, <2>3
<1>6. Unsettled' = {}
  <2>1. t \notin Unsettled'
    BY <1>3 DEF Unsettled
  <2> QED
    BY <2>1, <1>4
<1> QED
  BY <1>3, <1>5, <1>6 DEF TalkInv, TalkTypes

(* The conversation starts empty. *)
LEMMA TalkInit == Init => TalkInv
<1> SUFFICES ASSUME Init PROVE TalkInv
  OBVIOUS
<1>1. messages = <<>> /\ turns = <<>> /\ streaming = FALSE /\ init = "asking"
  BY DEF Init
<1>2. \A i : ~IsUser(<<>>, i) /\ ~IsAnswer(<<>>, i)
  BY DEF IsUser, IsAnswer
<1>3. Chat(<<>>, <<>>)
  BY <1>2 DEF Chat, EachAsked, UsersSay, InOrder, Answered, GotShown
<1>4. Unsettled = {}
  BY <1>1 DEF Unsettled
<1>5. TalkTypes
  <2>1. <<>> \in Seq(Message) /\ <<>> \in Seq(Turn)
    OBVIOUS
  <2> QED
    BY <1>1, <2>1 DEF TalkTypes
<1> QED
  BY <1>1, <1>3, <1>4, <1>5 DEF TalkInv

(* Send is possible only when no turn is unsettled. *)
LEMMA QuietIsUnsettled ==
  ASSUME TalkInv, ~streaming
  PROVE  Unsettled = {}
BY DEF TalkInv, Writing

(* A new turn, after the user's message *)
LEMMA AskedTalk ==
  ASSUME TalkInv, NEW pc \in {"posted", "failed"}, NEW index \in Nat,
         turns' = Append(turns, NewTurn(pc, index)),
         NEW asked, asked = Append(messages, Says(Len(turns) + 1))
  PROVE  /\ asked \in Seq(Message) /\ Len(asked) = Len(messages) + 1
         /\ asked[Len(asked)] = Says(Len(turns'))
         /\ turns' \in Seq(Turn) /\ Len(turns') = Len(turns) + 1
         /\ Len(turns) \in Nat /\ Len(messages) \in Nat
         /\ turns'[Len(turns')] = NewTurn(pc, index)
         /\ \A u \in DOMAIN turns : turns'[u] = turns[u]
         /\ Chat(asked, turns')
<1>1. messages \in Seq(Message) /\ turns \in Seq(Turn) /\ Chat(messages, turns)
  BY DEF TalkInv, TalkTypes
<1>2. NewTurn(pc, index) \in Turn /\ NewTurn(pc, index).got = 0
  BY DEF NewTurn, Turn
<1>3. /\ turns' \in Seq(Turn) /\ Len(turns') = Len(turns) + 1
      /\ Len(turns) \in Nat /\ Len(messages) \in Nat
      /\ turns'[Len(turns')] = NewTurn(pc, index)
      /\ \A u \in DOMAIN turns : turns'[u] = turns[u]
  <2> DEFINE one == NewTurn(pc, index)
  <2>1. one \in Turn
    BY <1>2
  <2> HIDE DEF one
  <2>2. turns' = Append(turns, one)
    BY DEF one
  <2>3. /\ turns' \in Seq(Turn) /\ Len(turns') = Len(turns) + 1
        /\ turns'[Len(turns')] = one
        /\ \A u \in DOMAIN turns : turns'[u] = turns[u]
    BY <1>1, <2>1, <2>2
  <2> QED
    BY <1>1, <2>3 DEF one
<1>4. Says(Len(turns) + 1) \in Message
  <2> DEFINE k == Len(turns) + 1
  <2>1. <<k>> \in Seq(Nat)
    BY <1>3
  <2>2. [role |-> "user", content |-> <<k>>] \in Message
    BY <2>1 DEF Message
  <2> QED
    BY <2>2 DEF Says
<1>5. /\ asked \in Seq(Message) /\ Len(asked) = Len(messages) + 1
      /\ asked[Len(asked)] = Says(Len(turns) + 1)
  BY <1>1, <1>4
<1>6. turns'[Len(turns')].got = 0 /\ \A u \in DOMAIN turns : turns'[u].got = turns[u].got
  BY <1>2, <1>3
<1>7. asked = Append(messages, Says(Len(turns')))
  BY <1>3
<1>8. Chat(asked, turns')
  BY <1>1, <1>3, <1>6, <1>7, AskChat
<1> QED
  BY <1>3, <1>5, <1>8

(* Then the actions of the conversation, one by one. *)
LEMMA TalkKept == TalkInv /\ UNCHANGED <<messages, turns, streaming, init>> => TalkInv'
BY DEF TalkInv, TalkTypes, Unsettled, Writing

LEMMA SendTalk == TalkInv /\ Send => TalkInv'
<1> SUFFICES ASSUME TalkInv, Send PROVE TalkInv'
  OBVIOUS
<1> DEFINE asked == Append(messages, Says(Len(turns) + 1))
           index == Len(messages) + 2
<1>1. Unsettled = {} /\ init = "ready" /\ UNCHANGED init /\ streaming' = TRUE
  BY QuietIsUnsettled DEF Send
<1>2. index \in Nat /\ turns' = Append(turns, NewTurn("posted", index))
  BY DEF TalkInv, TalkTypes, Send
<1>3. /\ asked \in Seq(Message) /\ Len(asked) = Len(messages) + 1
      /\ asked[Len(asked)] = Says(Len(turns'))
      /\ turns' \in Seq(Turn) /\ Len(turns') = Len(turns) + 1
      /\ Len(turns) \in Nat /\ Len(messages) \in Nat
      /\ turns'[Len(turns')] = NewTurn("posted", index)
      /\ \A u \in DOMAIN turns : turns'[u] = turns[u]
      /\ Chat(asked, turns')
  <2> HIDE DEF index
  <2> QED
    BY <1>2, AskedTalk
<1>4. messages' = Append(asked, Nothing)
  <2>1. messages' = messages \o <<Says(Len(turns) + 1), Nothing>>
    BY DEF Send
  <2>2. messages \in Seq(Message)
    BY DEF TalkInv, TalkTypes
  <2> DEFINE said == Says(Len(turns) + 1)
             nothing == Nothing
  <2> HIDE DEF said, nothing
  <2>3. messages \o <<said, nothing>> = Append(Append(messages, said), nothing)
    BY <2>2
  <2> QED
    BY <2>1, <2>3 DEF said, nothing
<1> HIDE DEF asked
<1>5. Nothing \in Message
  <2>1. <<>> \in Seq(Nat)
    OBVIOUS
  <2> QED
    BY <2>1 DEF Nothing, Message
<1>6. messages' \in Seq(Message) /\ Len(messages') = Len(asked) + 1
  BY <1>3, <1>4, <1>5
<1>7. /\ Len(turns') \in DOMAIN turns' /\ turns'[Len(turns')].got = 0
      /\ turns'[Len(turns')].index = index
  BY <1>3 DEF NewTurn
<1>8. Chat(messages', turns') /\ Open(messages', turns', Len(turns'))
  <2> DEFINE msgs2 == messages'
             trs2 == turns'
             t == Len(trs2)
  <2>1. msgs2 = Append(asked, Nothing) /\ trs2 \in Seq(Turn) /\ Chat(asked, trs2)
    BY <1>3, <1>4
  <2>2. t \in DOMAIN trs2 /\ trs2[t].got = 0 /\ t = Len(trs2)
    BY <1>7
  <2>3. asked \in Seq(Message) /\ Len(asked) > 0 /\ asked[Len(asked)] = Says(t)
    BY <1>3
  <2> HIDE DEF msgs2, trs2, t
  <2>4. Chat(msgs2, trs2) /\ Open(msgs2, trs2, t)
    BY <2>1, <2>2, <2>3, PlaceChat
  <2> QED
    BY <2>4 DEF msgs2, trs2, t
<1>9. \A t \in Unsettled' : t = Len(turns')
  <2> SUFFICES ASSUME NEW t \in Unsettled', t # Len(turns') PROVE FALSE
    OBVIOUS
  <2>1. t \in DOMAIN turns' /\ turns'[t].pc \in {"posted", "reading"}
    BY DEF Unsettled
  <2>2. t \in DOMAIN turns
    BY <2>1, <1>3 DEF TalkInv, TalkTypes
  <2> QED
    BY <2>1, <2>2, <1>1, <1>3 DEF Unsettled
<1>10. \A t \in Unsettled' : Writing(t)'
  <2>1. index = Len(messages')
    BY <1>3, <1>6
  <2> HIDE DEF index
  <2> QED
    BY <2>1, <1>1, <1>7, <1>8, <1>9 DEF Writing
<1> QED
  BY <1>1, <1>3, <1>6, <1>8, <1>10 DEF TalkInv, TalkTypes

LEMMA SendTooEarlyTalk == TalkInv /\ SendTooEarly => TalkInv'
<1> SUFFICES ASSUME TalkInv, SendTooEarly PROVE TalkInv'
  OBVIOUS
<1> DEFINE index == Len(messages) + 2
<1>1. Unsettled = {} /\ UNCHANGED <<init, streaming>>
  BY QuietIsUnsettled DEF SendTooEarly
<1>2. /\ index \in Nat /\ turns' = Append(turns, NewTurn("failed", index))
      /\ messages' = Append(messages, Says(Len(turns) + 1))
  BY DEF TalkInv, TalkTypes, SendTooEarly
<1>3. /\ messages' \in Seq(Message) /\ turns' \in Seq(Turn)
      /\ Len(turns') = Len(turns) + 1 /\ Len(turns) \in Nat
      /\ turns'[Len(turns')] = NewTurn("failed", index)
      /\ \A u \in DOMAIN turns : turns'[u] = turns[u]
      /\ Chat(messages', turns')
  <2> DEFINE asked == messages'
  <2>1. asked = Append(messages, Says(Len(turns) + 1))
    BY <1>2
  <2> HIDE DEF index, asked
  <2>2. /\ asked \in Seq(Message) /\ turns' \in Seq(Turn)
        /\ Len(turns') = Len(turns) + 1 /\ Len(turns) \in Nat
        /\ turns'[Len(turns')] = NewTurn("failed", index)
        /\ \A u \in DOMAIN turns : turns'[u] = turns[u]
        /\ Chat(asked, turns')
    BY <1>2, <2>1, AskedTalk
  <2> QED
    BY <2>2 DEF asked
<1>4. Unsettled' = {}
  <2> SUFFICES ASSUME NEW t \in Unsettled' PROVE FALSE
    OBVIOUS
  <2>1. t \in DOMAIN turns' /\ turns'[t].pc \in {"posted", "reading"}
    BY DEF Unsettled
  <2>2. t \in DOMAIN turns \/ t = Len(turns')
    BY <2>1, <1>3 DEF TalkInv, TalkTypes
  <2>3. turns'[Len(turns')].pc = "failed"
    BY <1>3 DEF NewTurn
  <2> QED
    BY <2>1, <2>2, <2>3, <1>1, <1>3 DEF Unsettled
<1> QED
  BY <1>1, <1>3, <1>4 DEF TalkInv, TalkTypes

LEMMA RespondTalk == TalkInv => \A t \in DOMAIN turns : Respond(t) => TalkInv'
<1> SUFFICES ASSUME TalkInv, NEW t \in DOMAIN turns, Respond(t) PROVE TalkInv'
  OBVIOUS
<1>1. t \in Unsettled
  BY DEF Respond, Unsettled
<1>2. /\ Writing(t) /\ t = Len(turns) /\ \A u \in Unsettled : u = t
      /\ turns \in Seq(Turn) /\ Chat(messages, turns)
  BY <1>1, OnlyOneWrites DEF TalkInv, TalkTypes
<1>3. UNCHANGED <<messages, streaming, init>>
  BY DEF Respond
<1> DEFINE one == [turns[t] EXCEPT !.pc = "reading"]
<1>4. turns[t] \in Turn
  BY <1>2
<1>5. one \in Turn /\ one.got = turns[t].got /\ one.index = turns[t].index
  BY <1>4 DEF Turn
<1>6. turns' = [turns EXCEPT ![t] = one]
  BY DEF Respond
<1> HIDE DEF one
<1>7. /\ turns' \in Seq(Turn) /\ DOMAIN turns' = DOMAIN turns /\ Len(turns') = Len(turns)
      /\ turns'[t] = one /\ \A u \in DOMAIN turns : u # t => turns'[u] = turns[u]
  BY <1>2, <1>5, <1>6
<1>8. \A u \in DOMAIN turns : turns'[u].got = turns[u].got
  BY <1>5, <1>7
<1>9. Chat(messages, turns')
  BY <1>2, <1>7, <1>8, SameChat
<1>10. \A u \in Unsettled' : u = t
  BY <1>2, <1>7 DEF Unsettled
<1>11. Writing(t)'
  BY <1>2, <1>3, <1>5, <1>7 DEF Writing, Open
<1> QED
  BY <1>3, <1>7, <1>9, <1>10, <1>11 DEF TalkInv, TalkTypes

(* The texts of a response that a turn takes deltas from *)
LEMMA BufferText ==
  ASSUME TalkInv, RespInv, NEW t \in DOMAIN turns
  PROVE  /\ responses[t] \in Response /\ t \in DOMAIN responses
         /\ DeltasIn(responses[t].buffer) \in Nat
         /\ \A n : Arrives(t, n) => /\ Buffered(t, n) \in Seq(Pieces)
                                   /\ DeltasIn(Dispatched(t, n)) \in Nat
<1>1. t \in DOMAIN responses /\ responses[t] \in Response
  BY DEF TalkInv, TalkTypes, RespInv
<1> DEFINE w == responses[t].wire
           at == responses[t].at
           b == responses[t].buffer
<1>2. w \in Seq(Pieces) /\ at \in Nat /\ b \in Seq(Pieces) /\ Len(w) \in Nat
  BY <1>1 DEF Response
<1>3. DeltasIn(b) \in Nat
  BY <1>2, FramesFinite DEF DeltasIn
<1>4. ASSUME NEW n, Arrives(t, n)
      PROVE  Buffered(t, n) \in Seq(Pieces) /\ DeltasIn(Dispatched(t, n)) \in Nat
  <2>1. n \in (at + 1)..Len(w)
    BY <1>4 DEF Arrives
  <2> DEFINE chunk == SubSeq(w, at + 1, n)
  <2> HIDE DEF w, at, b
  <2>2. chunk \in Seq(Pieces)
    BY <1>2, <2>1
  <2>3. Normalised(chunk) \in Seq(Pieces)
    <3> HIDE DEF chunk
    <3>1. PICK text \in [0..Len(chunk) -> Seq(Pieces)] : Normalised(chunk) = text[Len(chunk)]
      BY <2>2, NormalisedFacts
    <3>2. Len(chunk) \in 0..Len(chunk)
      BY <2>2
    <3> QED
      BY <3>1, <3>2
  <2>4. b \o Normalised(chunk) \in Seq(Pieces)
    BY <1>2, <2>3, Joined
  <2>5. Buffered(t, n) \in Seq(Pieces)
    BY <2>4 DEF Buffered, w, at, b
  <2>6. Blocks(Buffered(t, n)) \in Seq(Pieces)
    BY <2>5, CutText
  <2> QED
    BY <2>5, <2>6, FramesFinite DEF Dispatched, DeltasIn
<1> QED
  BY <1>1, <1>3, <1>4

LEMMA ReadOnTalk ==
  TalkInv /\ RespInv => \A t \in DOMAIN turns : \A n : ReadOn(t, n) => TalkInv'
<1> SUFFICES ASSUME TalkInv, RespInv, NEW t \in DOMAIN turns, NEW n, ReadOn(t, n) PROVE TalkInv'
  OBVIOUS
<1> DEFINE more == DeltasIn(Dispatched(t, n))
<1>1. t \in Unsettled
  BY DEF ReadOn, Arrives, Unsettled
<1>2. more \in Nat
  BY BufferText DEF ReadOn
<1>3. /\ messages' = Shown(t, more) /\ UNCHANGED <<streaming, init>>
      /\ turns' = [turns EXCEPT ![t].got = @ + more]
  BY DEF ReadOn
<1> HIDE DEF more
<1>4. turns \in Seq(Turn) /\ turns[t] \in Turn /\ Writing(t) /\ t = Len(turns)
  BY <1>1, OnlyOneWrites DEF TalkInv, TalkTypes
<1> DEFINE one == [turns[t] EXCEPT !.got = @ + more]
<1>5. turns[t].got + more \in Nat
  BY <1>2, <1>4 DEF Turn
<1>6. one \in Turn /\ one.got = turns[t].got + more /\ one.index = turns[t].index
  BY <1>4, <1>5 DEF Turn
<1>7. turns' = [turns EXCEPT ![t] = one]
  BY <1>3
<1> HIDE DEF one
<1>8. /\ turns' \in Seq(Turn) /\ Len(turns') = Len(turns) /\ turns'[t] = one
      /\ \A u \in DOMAIN turns : u # t => turns'[u] = turns[u]
  BY <1>4, <1>6, <1>7
<1>9. turns'[t].got = turns[t].got + more /\ turns'[t].index = turns[t].index
  BY <1>6, <1>8
<1>10. /\ Shown(t, more) \in Seq(Message)
       /\ Chat(Shown(t, more), turns') /\ Open(Shown(t, more), turns', t)
       /\ turns'[t].index = Len(Shown(t, more))
       /\ Unsettled' \subseteq {t}
  BY <1>1, <1>2, <1>8, <1>9, TurnShows
<1> QED
  BY <1>3, <1>4, <1>8, <1>10 DEF TalkInv, TalkTypes, Writing

LEMMA ResolveTalk ==
  TalkInv => \A t \in Unsettled : \A n \in Nat : Resolve(t, n) => TalkInv'
<1> SUFFICES ASSUME TalkInv, NEW t \in Unsettled, NEW n \in Nat, Resolve(t, n) PROVE TalkInv'
  OBVIOUS
<1> QED
  BY SettledTalk DEF Resolve

LEMMA RejectTalk ==
  TalkInv => \A t \in Unsettled : \A n \in Nat : Reject(t, n) => TalkInv'
<1> SUFFICES ASSUME TalkInv, NEW t \in Unsettled, NEW n \in Nat, Reject(t, n) PROVE TalkInv'
  OBVIOUS
<1> QED
  BY SettledTalk DEF Reject

LEMMA TurnsTalk ==
  TalkInv /\ RespInv => \A t \in DOMAIN turns : OfTurn(t) => TalkInv'
<1> SUFFICES ASSUME TalkInv, RespInv, NEW t \in DOMAIN turns,
                    OfTurn(t)
            PROVE  TalkInv'
  OBVIOUS
<1>0. CASE BodyEnds(t)
  BY <1>0, TalkKept DEF BodyEnds
<1>1. CASE Respond(t)
  BY <1>1, RespondTalk
<1>2. CASE Reads(t)
  <2>1. PICK n : ReadOn(t, n) \/ ReadDone(t, n) \/ ReadError(t, n)
    BY <1>2 DEF Reads
  <2>2. CASE ReadOn(t, n)
    BY <2>2, ReadOnTalk
  <2>3. CASE ReadDone(t, n)
    <3>1. t \in Unsettled /\ Arrives(t, n) /\ Resolve(t, DeltasIn(Dispatched(t, n)))
      BY <2>3 DEF ReadDone, Arrives, Unsettled
    <3> QED
      BY <3>1, ResolveTalk, BufferText
  <2>4. CASE ReadError(t, n)
    <3>1. t \in Unsettled /\ Arrives(t, n) /\ Reject(t, DeltasIn(Dispatched(t, n)))
      BY <2>4 DEF ReadError, Arrives, Unsettled
    <3> QED
      BY <3>1, RejectTalk, BufferText
  <2> QED
    BY <2>1, <2>2, <2>3, <2>4
<1>3. CASE Refuse(t)
  BY <1>3, RejectTalk DEF Refuse, Unsettled
<1>4. CASE EndDone(t)
  <2>1. t \in Unsettled /\ Resolve(t, DeltasIn(responses[t].buffer))
    BY <1>4 DEF EndDone, Closed, Unsettled
  <2> QED
    BY <2>1, ResolveTalk, BufferText
<1>5. CASE EndNotDone(t)
  <2>1. t \in Unsettled /\ Reject(t, DeltasIn(responses[t].buffer))
    BY <1>5 DEF EndNotDone, Closed, Unsettled
  <2> QED
    BY <2>1, RejectTalk, BufferText
<1>6. CASE Break(t)
  BY <1>6, RejectTalk DEF Break, Unsettled
<1> QED
  BY <1>0, <1>1, <1>2, <1>3, <1>4, <1>5, <1>6 DEF OfTurn, Ends

(* Every step keeps the conversation. *)
LEMMA TalkNext == TalkInv /\ RespInv /\ [Next]_vars => TalkInv'
<1> SUFFICES ASSUME TalkInv, RespInv, [Next]_vars PROVE TalkInv'
  OBVIOUS
<1>1. CASE StartOK
  BY <1>1 DEF StartOK, turnVars, TalkInv, TalkTypes, Unsettled, Writing
<1>2. CASE StartFails
  BY <1>2 DEF StartFails, turnVars, TalkInv, TalkTypes, Unsettled, Writing
<1>3. CASE Send
  BY <1>3, SendTalk
<1>4. CASE SendTooEarly
  BY <1>4, SendTooEarlyTalk
<1>5. CASE \E t \in DOMAIN turns : OfTurn(t)
  BY <1>5, TurnsTalk
<1>6. CASE UNCHANGED <<init, turnVars>>
  BY <1>6, TalkKept DEF turnVars
<1>7. \/ Attach \/ \E c \in capturing : Captured(c) \/ CaptureFails(c)
      \/ MouseDown \/ MouseUp \/ ClearAll \/ Cancel
      \/ \E size \in Sizes : Save(size) \/ SaveRefused(size)
      \/ \E i \in DOMAIN pending : RemoveAttachment(i)
      \/ Submit \/ SubmitOK \/ SubmitFails \/ UNCHANGED vars
      => UNCHANGED <<init, turnVars>>
  BY DEF Attach, Captured, CaptureFails, MouseDown, MouseUp, ClearAll, Cancel, Save,
         SaveRefused, RemoveAttachment, Submit, SubmitOK, SubmitFails, vars
<1> QED
  BY <1>1, <1>2, <1>3, <1>4, <1>5, <1>6, <1>7 DEF Next

(* The responses keep their types, one for each turn.                      *)

LEMMA UnreadType == ASSUME NEW wire \in Seq(Pieces) PROVE Unread(wire) \in Response
<1>1. <<>> \in Seq(Pieces)
  OBVIOUS
<1> QED
  BY <1>1 DEF Unread, Response

(* The response when its body has come to an end                            *)
Ended(response, end) == [response EXCEPT !.end = end]

LEMMA EndedFacts ==
  ASSUME NEW r \in Response, NEW end \in {"closed", "broken"}
  PROVE  /\ Ended(r, end) \in Response
         /\ \A got : Reading(r, got) => Reading(Ended(r, end), got)
<1>1. Ended(r, end) \in Response
  BY DEF Ended, Response
<1>2. Ended(r, end).wire = r.wire /\ Ended(r, end).at = r.at /\ Ended(r, end).buffer = r.buffer
  BY DEF Ended, Response
<1> HIDE DEF Ended
<1>3. \A got : Reading(r, got) => Reading(Ended(r, end), got)
  BY <1>2 DEF Reading
<1> QED
  BY <1>1, <1>3

(* Replacing one response keeps the others. *)
LEMMA OneResponse ==
  ASSUME TalkInv, RespInv, NEW t \in DOMAIN turns, NEW r \in Response, Len(turns') = Len(turns),
         responses' = [responses EXCEPT ![t] = r]
  PROVE  /\ RespInv' /\ responses'[t] = r
         /\ \A u \in DOMAIN turns : u # t => responses'[u] = responses[u]
<1>1. responses \in Seq(Response) /\ DOMAIN responses = DOMAIN turns
  BY DEF TalkInv, TalkTypes, RespInv
<1>2. responses' \in Seq(Response) /\ Len(responses') = Len(responses)
  BY <1>1
<1>3. responses'[t] = r /\ \A u \in DOMAIN turns : u # t => responses'[u] = responses[u]
  BY <1>1
<1> QED
  BY <1>2, <1>3 DEF RespInv

(* Reading on moves the place and the buffer, and keeps the response typed. *)
LEMMA ReadOnResponse ==
  ASSUME TalkInv, RespInv, NEW t \in DOMAIN turns, NEW n, ReadOn(t, n)
  PROVE  /\ ReadTo(responses[t], n, Buffered(t, n)) \in Response
         /\ responses' = [responses EXCEPT ![t] = ReadTo(responses[t], n, Buffered(t, n))]
         /\ Len(turns') = Len(turns)
<1>1. responses[t] \in Response /\ Buffered(t, n) \in Seq(Pieces) /\ t \in DOMAIN responses
  BY BufferText DEF ReadOn
<1>2. n \in Nat
  BY <1>1 DEF ReadOn, Arrives, Response
<1>3. Rest(Buffered(t, n)) \in Seq(Pieces)
  BY <1>1, CutText
<1>4. ReadTo(responses[t], n, Buffered(t, n)) \in Response
  BY <1>1, <1>2, <1>3 DEF Response, ReadTo
<1>5. responses' = [responses EXCEPT ![t] = ReadTo(responses[t], n, Buffered(t, n))]
  BY DEF ReadOn, ReadTo
<1>6. Len(turns') = Len(turns)
  BY DEF ReadOn, TalkInv, TalkTypes
<1> QED
  BY <1>4, <1>5, <1>6

LEMMA BodyEndsResponse ==
  ASSUME TalkInv, RespInv, NEW t \in DOMAIN turns, BodyEnds(t)
  PROVE  /\ turns' = turns
         /\ \E end \in {"closed", "broken"} :
              responses' = [responses EXCEPT ![t] = Ended(responses[t], end)]
BY BufferText DEF BodyEnds, Ended

(* Every step keeps the responses typed. *)
LEMMA RespNext == TalkInv /\ RespInv /\ [Next]_vars => RespInv'
<1> SUFFICES ASSUME TalkInv, RespInv, [Next]_vars PROVE RespInv'
  OBVIOUS
<1>1. turns \in Seq(Turn) /\ responses \in Seq(Response) /\ Len(responses) = Len(turns)
      /\ Unread(<<>>) \in Response
  <2>1. <<>> \in Seq(Pieces)
    OBVIOUS
  <2> QED
    BY <2>1, UnreadType DEF TalkInv, TalkTypes, RespInv
<1>2. ASSUME NEW trs, turns' = Append(turns, trs), responses' = Append(responses, Unread(<<>>))
      PROVE  RespInv'
  <2> DEFINE r == Unread(<<>>)
  <2>1. r \in Response
    BY <1>1
  <2>2. responses' = Append(responses, r)
    BY <1>2
  <2> HIDE DEF r
  <2>3. responses' \in Seq(Response) /\ Len(responses') = Len(responses) + 1
    BY <1>1, <2>1, <2>2
  <2>4. Len(turns') = Len(turns) + 1
    BY <1>1, <1>2
  <2> QED
    BY <1>1, <2>3, <2>4 DEF RespInv
<1>3. CASE Send \/ SendTooEarly
  BY <1>2, <1>3 DEF Send, SendTooEarly
<1>4. ASSUME NEW t \in DOMAIN turns, Respond(t)
      PROVE  RespInv'
  <2>1. PICK wire \in Answers : responses' = [responses EXCEPT ![t] = Unread(wire)]
    BY <1>4 DEF Respond
  <2>2. Unread(wire) \in Response
    BY AnswersProper, UnreadType DEF Proper, Framed
  <2>3. Len(turns') = Len(turns)
    BY <1>1, <1>4 DEF Respond
  <2> QED
    BY <2>1, <2>2, <2>3, OneResponse
<1>5. ASSUME NEW t \in DOMAIN turns, NEW pc, NEW n, Settled(t, pc, n)
      PROVE  RespInv'
  <2>1. Len(turns') = Len(turns) /\ responses' = [responses EXCEPT ![t] = Unread(<<>>)]
    BY <1>1, <1>5 DEF Settled
  <2> QED
    BY <1>1, <2>1, OneResponse
<1>6. ASSUME NEW t \in DOMAIN turns, NEW n, ReadOn(t, n)
      PROVE  RespInv'
  BY <1>6, ReadOnResponse, OneResponse
<1>10. ASSUME NEW t \in DOMAIN turns, BodyEnds(t)
       PROVE  RespInv'
  <2>1. PICK end \in {"closed", "broken"} :
          responses' = [responses EXCEPT ![t] = Ended(responses[t], end)]
    BY <1>10, BodyEndsResponse
  <2>2. Ended(responses[t], end) \in Response /\ Len(turns') = Len(turns)
    BY <1>10, BodyEndsResponse, BufferText, EndedFacts
  <2> QED
    BY <2>1, <2>2, OneResponse
<1>7. ASSUME NEW t \in DOMAIN turns, OfTurn(t)
      PROVE  RespInv'
  BY <1>4, <1>5, <1>6, <1>7, <1>10
     DEF OfTurn, Reads, Ends, ReadDone, ReadError, Refuse, EndDone, EndNotDone, Break, Resolve, Reject
<1>8. CASE UNCHANGED turnVars
  BY <1>8 DEF turnVars, RespInv
<1>9. \/ StartOK \/ StartFails \/ Attach \/ \E c \in capturing : Captured(c) \/ CaptureFails(c)
      \/ MouseDown \/ MouseUp \/ ClearAll \/ Cancel
      \/ \E size \in Sizes : Save(size) \/ SaveRefused(size)
      \/ \E i \in DOMAIN pending : RemoveAttachment(i)
      \/ Submit \/ SubmitOK \/ SubmitFails \/ UNCHANGED vars
      => UNCHANGED turnVars
  BY DEF StartOK, StartFails, Attach, Captured, CaptureFails, MouseDown, MouseUp, ClearAll,
         Cancel, Save, SaveRefused, RemoveAttachment, Submit, SubmitOK, SubmitFails, vars
<1> QED
  BY <1>3, <1>7, <1>8, <1>9 DEF Next

(* The conversation and the types of the responses hold for ever. *)
LEMMA TalkAlways == Spec => [](TalkInv /\ RespInv)
<1>1. Init => RespInv
  <2>1. <<>> \in Seq(Response)
    OBVIOUS
  <2> QED
    BY <2>1 DEF Init, RespInv
<1> QED
  BY <1>1, TalkInit, TalkNext, RespNext, PTL DEF Spec

(* The conversation shows what was asked and answered, whatever overlaps.  *)
THEOREM TranscriptHolds == Spec => []Transcript
<1>1. TalkInv => Transcript
  <2> SUFFICES ASSUME TalkInv PROVE Transcript
    OBVIOUS
  <2>1. Chat(messages, turns)
    BY DEF TalkInv
  <2>2. \A i : i \in Users <=> IsUser(messages, i)
    BY DEF Users, IsUser
  <2>3. \A i : i \in DOMAIN messages \ Users <=> IsAnswer(messages, i)
    BY DEF Users, IsAnswer
  <2>4. \A t \in DOMAIN turns : \E i \in Users : messages[i] = Says(t)
    BY <2>1, SaysWhat DEF Chat, EachAsked, Users
  <2>5. \A i, j \in Users : i < j => Asked(i) < Asked(j)
    BY <2>1, <2>2 DEF Chat, InOrder, Asked
  <2>6. \A i \in DOMAIN messages \ Users : i - 1 \in Users /\ messages[i] = Answer(Asked(i - 1))
    BY <2>1, <2>2, <2>3 DEF Chat, Answered, Answer, AnswerOf, Asked
  <2>7. \A i \in Users : turns[Asked(i)].got > 0 => i + 1 \in DOMAIN messages \ Users
    BY <2>1, <2>2, <2>3 DEF Chat, GotShown, Asked
  <2> QED
    BY <2>4, <2>5, <2>6, <2>7 DEF Transcript
<1> QED
  BY <1>1, TalkAlways, PTL

(* The input is locked exactly while a turn is unsettled: no way for a turn *)
(* to end leaves the widget waiting for nothing, and none unlocks it early. *)
Busy == streaming => Unsettled # {}

LEMMA BusyNext == TalkInv /\ RespInv /\ Busy /\ [Next]_vars => Busy'
<1> SUFFICES ASSUME TalkInv, RespInv, Busy, [Next]_vars, streaming' PROVE Unsettled' # {}
  BY DEF Busy
<1>1. turns \in Seq(Turn)
  BY DEF TalkInv, TalkTypes
<1>2. CASE Send
  <2>1. turns' = Append(turns, NewTurn("posted", Len(messages) + 2))
    BY <1>2 DEF Send
  <2>2. Len(turns) + 1 \in DOMAIN turns' /\ turns'[Len(turns) + 1].pc = "posted"
    BY <1>1, <2>1 DEF NewTurn
  <2> QED
    BY <2>2 DEF Unsettled
<1>3. CASE SendTooEarly
  BY <1>3 DEF SendTooEarly
<1>4. ASSUME NEW t \in DOMAIN turns, Respond(t)
      PROVE  Unsettled' # {}
  <2> DEFINE one == [turns[t] EXCEPT !.pc = "reading"]
  <2>1. turns' = [turns EXCEPT ![t] = one]
    BY <1>4 DEF Respond
  <2>2. one.pc = "reading"
    BY <1>1 DEF Turn
  <2> HIDE DEF one
  <2>3. t \in DOMAIN turns' /\ turns'[t] = one
    BY <1>1, <2>1
  <2> QED
    BY <2>2, <2>3 DEF Unsettled
<1>5. ASSUME NEW t \in DOMAIN turns, NEW n, ReadOn(t, n)
      PROVE  Unsettled' # {}
  <2>1. turns[t].pc = "reading"
    BY <1>5 DEF ReadOn, Arrives
  <2> DEFINE more == DeltasIn(Dispatched(t, n))
             one == [turns[t] EXCEPT !.got = @ + more]
  <2>2. turns' = [turns EXCEPT ![t] = one]
    BY <1>5 DEF ReadOn
  <2> HIDE DEF more
  <2>3. one.pc = "reading"
    BY <1>1, <2>1 DEF Turn
  <2> HIDE DEF one
  <2>4. t \in DOMAIN turns' /\ turns'[t] = one
    BY <1>1, <2>2
  <2> QED
    BY <2>3, <2>4 DEF Unsettled
<1>6. ASSUME NEW t \in DOMAIN turns, Refuse(t) \/ Reads(t) \/ Ends(t)
      PROVE  Unsettled' # {}
  BY <1>5, <1>6
     DEF Reads, Ends, ReadDone, ReadError, Refuse, EndDone, EndNotDone, Break, Resolve, Reject
<1>7. CASE UNCHANGED <<turns, streaming>>
  BY <1>7 DEF Busy, Unsettled
<1>9. \A t \in DOMAIN turns : BodyEnds(t) => UNCHANGED <<turns, streaming>>
  BY DEF BodyEnds
<1>8. \/ StartOK \/ StartFails \/ Attach \/ \E c \in capturing : Captured(c) \/ CaptureFails(c)
      \/ MouseDown \/ MouseUp \/ ClearAll \/ Cancel
      \/ \E size \in Sizes : Save(size) \/ SaveRefused(size)
      \/ \E i \in DOMAIN pending : RemoveAttachment(i)
      \/ Submit \/ SubmitOK \/ SubmitFails \/ UNCHANGED vars
      => UNCHANGED <<turns, streaming>>
  BY DEF StartOK, StartFails, Attach, Captured, CaptureFails, MouseDown, MouseUp, ClearAll,
         Cancel, Save, SaveRefused, RemoveAttachment, Submit, SubmitOK, SubmitFails, vars, turnVars
<1> QED
  BY <1>2, <1>3, <1>4, <1>6, <1>7, <1>8, <1>9 DEF Next, OfTurn

(* Settles without the fairness: while streaming is set there is a turn     *)
(* whose promise is not settled, and only one, so nothing but that turn's   *)
(* end is waited for.                                                       *)
THEOREM StreamingHasTurn ==
  Spec => [](/\ streaming <=> Unsettled # {}
             /\ \A t, u \in Unsettled : t = u)
<1>1. Init => Busy
  BY DEF Init, Busy
<1>2. TalkInv /\ Busy => /\ streaming <=> Unsettled # {}
                        /\ \A t, u \in Unsettled : t = u
  <2> SUFFICES ASSUME TalkInv, Busy
               PROVE  /\ streaming <=> Unsettled # {}
                      /\ \A t, u \in Unsettled : t = u
    OBVIOUS
  <2>1. \A t, u \in Unsettled : t = u
    BY OnlyOneWrites
  <2>2. streaming \in BOOLEAN
    BY DEF TalkInv, TalkTypes
  <2> QED
    BY <2>1, <2>2, QuietIsUnsettled DEF Busy
<1> QED
  BY <1>1, <1>2, TalkAlways, BusyNext, PTL DEF Spec

-----------------------------------------------------------------------------
(* The turns and their streams, inductively *)

StreamOf(t) ==
  /\ turns[t].pc = "posted" => turns[t].got = 0
  /\ turns[t].pc = "reading" => Reading(responses[t], turns[t].got)

StreamInv == \A t \in DOMAIN turns : StreamOf(t)

(* What a step may do to a turn that is reading *)
Progress(t) ==
  turns[t].pc = "reading" =>
    LET wire == responses[t].wire IN
    /\ turns'[t].got <= Cardinality(DeltaLines(wire, Len(wire)))
    /\ turns'[t].pc = "done" =>
         /\ turns'[t].got = Cardinality(DeltaLines(wire, Len(wire)))
         /\ \E i \in DOMAIN wire : wire[i] = "done"

(* What the invariants say of one turn. *)
LEMMA TurnFacts ==
  ASSUME TalkInv, RespInv, NEW t \in DOMAIN turns
  PROVE  /\ turns \in Seq(Turn) /\ turns[t] \in Turn /\ turns[t].got \in Nat
         /\ responses \in Seq(Response) /\ responses[t] \in Response
         /\ DOMAIN responses = DOMAIN turns /\ DOMAIN turns = 1..Len(turns)
         /\ responses[t].wire \in Seq(Pieces)
<1>1. /\ turns \in Seq(Turn) /\ responses \in Seq(Response)
      /\ DOMAIN responses = DOMAIN turns /\ DOMAIN turns = 1..Len(turns)
  BY DEF TalkInv, TalkTypes, RespInv
<1>2. turns[t] \in Turn /\ responses[t] \in Response
  BY <1>1
<1>3. turns[t].got \in Nat /\ responses[t].wire \in Seq(Pieces)
  BY <1>2 DEF Turn, Response
<1> QED
  BY <1>1, <1>2, <1>3

(* A turn that does not move keeps its stream right. *)
LEMMA TurnKept ==
  ASSUME TalkInv, RespInv, StreamInv, NEW t \in DOMAIN turns,
         turns'[t] = turns[t], responses'[t] = responses[t]
  PROVE  StreamOf(t)' /\ Progress(t)
<1>1. StreamOf(t)
  BY DEF StreamInv
<1>2. StreamOf(t)'
  BY <1>1 DEF StreamOf
<1>3. Progress(t)
  <2> SUFFICES ASSUME turns[t].pc = "reading"
               PROVE  /\ turns[t].pc # "done"
                      /\ turns[t].got <=
                           Cardinality(DeltaLines(responses[t].wire, Len(responses[t].wire)))
    BY DEF Progress
  <2>1. Reading(responses[t], turns[t].got)
    BY <1>1 DEF StreamOf
  <2> QED
    BY <2>1, TurnFacts, ReadingBounds
<1> QED
  BY <1>2, <1>3

(* If one turn moves and the others stay, the stream invariant is about that one. *)
LEMMA OneTurn ==
  ASSUME TalkInv, RespInv, StreamInv, NEW t \in DOMAIN turns, DOMAIN turns' = DOMAIN turns,
         \A u \in DOMAIN turns : u # t => turns'[u] = turns[u] /\ responses'[u] = responses[u],
         StreamOf(t)', Progress(t)
  PROVE  StreamInv' /\ \A u \in DOMAIN turns : Progress(u)
<1>1. \A u \in DOMAIN turns : StreamOf(u)' /\ Progress(u)
  <2> SUFFICES ASSUME NEW u \in DOMAIN turns PROVE StreamOf(u)' /\ Progress(u)
    OBVIOUS
  <2>1. CASE u = t
    BY <2>1
  <2>2. CASE u # t
    BY <2>2, TurnKept
  <2> QED
    BY <2>1, <2>2
<1> QED
  BY <1>1 DEF StreamInv

(* The actions on a stream: its start, its reads and its ends. *)
LEMMA RespondStream ==
  ASSUME TalkInv, RespInv, StreamInv, NEW t \in DOMAIN turns, Respond(t)
  PROVE  StreamInv' /\ \A u \in DOMAIN turns : Progress(u)
<1>1. PICK wire \in Answers : responses' = [responses EXCEPT ![t] = Unread(wire)]
  BY DEF Respond
<1>2. Proper(wire) /\ wire \in Seq(Pieces) /\ Unread(wire) \in Response
  BY AnswersProper, UnreadType DEF Proper, Framed
<1> DEFINE one == [turns[t] EXCEPT !.pc = "reading"]
<1>3. turns[t].pc = "posted" /\ turns' = [turns EXCEPT ![t] = one]
  BY DEF Respond
<1>4. turns[t].got = 0
  BY <1>3 DEF StreamInv, StreamOf
<1>5. one.pc = "reading" /\ one.got = 0
  BY <1>4, TurnFacts DEF Turn
<1> HIDE DEF one
<1>6. /\ turns'[t] = one /\ DOMAIN turns' = DOMAIN turns /\ Len(turns') = Len(turns)
      /\ \A u \in DOMAIN turns : u # t => turns'[u] = turns[u]
  BY <1>3, TurnFacts
<1>7. /\ responses'[t] = Unread(wire)
      /\ \A u \in DOMAIN turns : u # t => responses'[u] = responses[u]
  BY <1>1, <1>2, <1>6, OneResponse
<1>8. Reading(Unread(wire), 0)
  <2>1. PICK phase : Parsed(wire, phase)
    BY <1>2 DEF Proper, Framed
  <2>2. Held(wire, phase, 0, <<>>)
    BY <2>1 DEF Parsed, Held, Lead
  <2>3. DeltaLines(wire, 0) = {} /\ Holds(<<>>, "delta") = 0
    BY DEF DeltaLines, Holds
  <2>4. Cardinality(DeltaLines(wire, 0)) = 0
    BY <2>3, FS_EmptySet
  <2>5. Unread(wire).wire = wire /\ Unread(wire).at = 0 /\ Unread(wire).buffer = <<>>
    BY DEF Unread
  <2>6. 0 \in 0..Len(wire) /\ 0 + 0 = 0
    BY <1>2
  <2> QED
    BY <1>2, <2>1, <2>2, <2>3, <2>4, <2>5, <2>6 DEF Reading, Proper
<1>9. StreamOf(t)'
  BY <1>5, <1>6, <1>7, <1>8 DEF StreamOf
<1>10. Progress(t)
  BY <1>3 DEF Progress
<1> QED
  BY <1>6, <1>7, <1>9, <1>10, OneTurn

(* The promise of a turn settles with no more deltas than were sent, and   *)
(* with all of them if it resolves.                                        *)
LEMMA SettledStream ==
  ASSUME TalkInv, RespInv, StreamInv, NEW t \in DOMAIN turns, NEW pc \in {"done", "failed"},
         NEW n \in Nat, Settled(t, pc, n),
         turns[t].pc = "reading" =>
           LET wire == responses[t].wire
               sent == Cardinality(DeltaLines(wire, Len(wire)))
           IN  /\ turns[t].got + n <= sent
               /\ pc = "done" => turns[t].got + n = sent /\ \E i \in DOMAIN wire : wire[i] = "done"
  PROVE  StreamInv' /\ \A u \in DOMAIN turns : Progress(u)
<1>1. turns \in Seq(Turn) /\ turns' = Moved(turns, t, pc, n) /\ Unread(<<>>) \in Response
  <2>1. <<>> \in Seq(Pieces)
    OBVIOUS
  <2> QED
    BY <2>1, TurnFacts, UnreadType DEF Settled, Moved
<1>2. /\ turns' \in Seq(Turn) /\ Len(turns') = Len(turns)
      /\ turns'[t].pc = pc /\ turns'[t].got = turns[t].got + n
      /\ \A u \in DOMAIN turns : u # t => turns'[u] = turns[u]
  <2> DEFINE trs2 == turns'
  <2>1. trs2 = Moved(turns, t, pc, n) /\ pc \in {"posted", "reading", "done", "failed"}
    BY <1>1
  <2> HIDE DEF trs2
  <2>2. /\ trs2 \in Seq(Turn) /\ Len(trs2) = Len(turns)
        /\ trs2[t].pc = pc /\ trs2[t].got = turns[t].got + n
        /\ \A u \in DOMAIN turns : u # t => trs2[u] = turns[u]
    BY <1>1, <2>1, TurnMoves
  <2> QED
    BY <2>2 DEF trs2
<1>3. \A u \in DOMAIN turns : u # t => responses'[u] = responses[u]
  <2>1. responses' = [responses EXCEPT ![t] = Unread(<<>>)]
    BY DEF Settled
  <2> QED
    BY <1>1, <1>2, <2>1, OneResponse
<1>4. DOMAIN turns' = DOMAIN turns
  BY <1>1, <1>2
<1>5. StreamOf(t)'
  BY <1>2 DEF StreamOf
<1>6. Progress(t)
  BY <1>2 DEF Progress
<1> QED
  BY <1>2, <1>3, <1>4, <1>5, <1>6, OneTurn

(* A chunk, to a turn that is reading *)
LEMMA ChunkStep ==
  ASSUME TalkInv, RespInv, StreamInv, NEW t \in DOMAIN turns, NEW n, Arrives(t, n)
  PROVE  LET wire == responses[t].wire
             more == DeltasIn(Dispatched(t, n))
             sent == Cardinality(DeltaLines(wire, Len(wire)))
             next == ReadTo(responses[t], n, Buffered(t, n))
         IN  /\ more \in Nat /\ next \in Response /\ next.wire = wire
             /\ Reading(next, turns[t].got + more)
             /\ turns[t].got + more <= sent
             /\ \A kind \in Ending :
                  FramesIn(Dispatched(t, n), kind) # {} => AllOf(wire, kind, turns[t].got + more)
<1> DEFINE r == responses[t]
           got == turns[t].got
           text == Buffered(t, n)
           more == DeltasIn(Blocks(text))
           next == ReadTo(r, n, text)
<1>1. r \in Response /\ got \in Nat
  BY TurnFacts
<1>2. Reading(r, got) /\ n \in (r.at + 1)..Len(r.wire)
  BY DEF Arrives, StreamInv, StreamOf
<1>3. text = r.buffer \o Normalised(SubSeq(r.wire, r.at + 1, n)) /\ Dispatched(t, n) = Blocks(text)
  BY DEF Buffered, Dispatched
<1>4. next.wire = r.wire
  BY <1>1 DEF Response, ReadTo
<1> HIDE DEF r, got, text
<1>5. /\ text \in Seq(Pieces) /\ more \in Nat /\ next \in Response
      /\ Reading(next, got + more)
  BY <1>1, <1>2, <1>3, ReadStep
<1>7. \A kind \in Ending : FramesIn(Blocks(text), kind) # {} => AllOf(r.wire, kind, got + more)
  BY <1>1, <1>2, <1>3, ReadStep
<1>6. got + more <= Cardinality(DeltaLines(next.wire, Len(next.wire)))
  <2>1. got + more \in Nat
    BY <1>1, <1>5
  <2> HIDE DEF next, more
  <2> QED
    BY <1>5, <2>1, ReadingBounds
<1> QED
  BY <1>3, <1>4, <1>5, <1>6, <1>7 DEF r, got, text

LEMMA ReadOnStream ==
  ASSUME TalkInv, RespInv, StreamInv, NEW t \in DOMAIN turns, NEW n, ReadOn(t, n)
  PROVE  StreamInv' /\ \A u \in DOMAIN turns : Progress(u)
<1> DEFINE more == DeltasIn(Dispatched(t, n))
           next == ReadTo(responses[t], n, Buffered(t, n))
           wire == responses[t].wire
<1>1. Arrives(t, n) /\ turns[t].pc = "reading"
  BY DEF ReadOn, Arrives
<1>2. /\ more \in Nat /\ next \in Response /\ Reading(next, turns[t].got + more)
      /\ turns[t].got + more <= Cardinality(DeltaLines(wire, Len(wire)))
  BY <1>1, ChunkStep
<1>3. responses' = [responses EXCEPT ![t] = next] /\ Len(turns') = Len(turns)
  BY ReadOnResponse
<1> HIDE DEF next, more
<1>4. responses'[t] = next /\ \A u \in DOMAIN turns : u # t => responses'[u] = responses[u]
  BY <1>2, <1>3, OneResponse
<1> DEFINE one == [turns[t] EXCEPT !.got = @ + more]
<1>5. turns' = [turns EXCEPT ![t] = one]
  BY DEF ReadOn, more
<1>6. one.pc = "reading" /\ one.got = turns[t].got + more
  BY <1>1, TurnFacts DEF Turn
<1> HIDE DEF one
<1>7. /\ turns'[t] = one /\ DOMAIN turns' = DOMAIN turns
      /\ \A u \in DOMAIN turns : u # t => turns'[u] = turns[u]
  BY <1>5, TurnFacts
<1>8. StreamOf(t)'
  BY <1>2, <1>4, <1>6, <1>7 DEF StreamOf
<1>9. Progress(t)
  BY <1>2, <1>6, <1>7 DEF Progress
<1> QED
  BY <1>4, <1>7, <1>8, <1>9, OneTurn

LEMMA ReadsStream ==
  ASSUME TalkInv, RespInv, StreamInv, NEW t \in DOMAIN turns, NEW n,
         ReadDone(t, n) \/ ReadError(t, n)
  PROVE  StreamInv' /\ \A u \in DOMAIN turns : Progress(u)
<1> DEFINE more == DeltasIn(Dispatched(t, n))
           wire == responses[t].wire
           sent == Cardinality(DeltaLines(wire, Len(wire)))
<1>1. Arrives(t, n)
  BY DEF ReadDone, ReadError
<1>2. /\ more \in Nat /\ turns[t].got + more <= sent
      /\ \A kind \in Ending :
           FramesIn(Dispatched(t, n), kind) # {} => AllOf(wire, kind, turns[t].got + more)
  BY <1>1, ChunkStep
<1>3. DOMAIN wire = 1..Len(wire)
  BY TurnFacts
<1> HIDE DEF more, wire, sent
<1>4. CASE ReadDone(t, n)
  <2>1. "done" \in Terminal(Dispatched(t, n)) /\ "done" \in Ending
    BY <1>4 DEF ReadDone, Ending
  <2>2. FramesIn(Dispatched(t, n), "done") # {}
    BY <2>1 DEF Terminal
  <2>3. turns[t].got + more = sent /\ \E i \in DOMAIN wire : wire[i] = "done"
    BY <2>1, <2>2, <1>2, <1>3 DEF AllOf, sent
  <2>4. Settled(t, "done", more)
    BY <1>4 DEF ReadDone, Resolve, more
  <2> QED
    BY <2>3, <2>4, <1>2, SettledStream DEF wire, sent
<1>5. CASE ReadError(t, n)
  <2>1. Settled(t, "failed", more)
    BY <1>5 DEF ReadError, Reject, more
  <2> QED
    BY <2>1, <1>2, SettledStream DEF wire, sent
<1> QED
  BY <1>4, <1>5

LEMMA EndsStream ==
  ASSUME TalkInv, RespInv, StreamInv, NEW t \in DOMAIN turns, EndDone(t) \/ EndNotDone(t)
  PROVE  StreamInv' /\ \A u \in DOMAIN turns : Progress(u)
<1> DEFINE r == responses[t]
           more == DeltasIn(r.buffer)
           wire == r.wire
           sent == Cardinality(DeltaLines(wire, Len(wire)))
<1>1. r \in Response /\ turns[t].got \in Nat /\ Reading(r, turns[t].got)
  BY TurnFacts DEF EndDone, EndNotDone, Closed, StreamInv, StreamOf
<1>2. /\ more \in Nat /\ turns[t].got + more <= sent
      /\ \A kind \in Ending :
           FramesIn(r.buffer, kind) # {} => AllOf(wire, kind, turns[t].got + more)
  <2> HIDE DEF r
  <2> QED
    BY <1>1, EndStep
<1>3. DOMAIN wire = 1..Len(wire)
  BY TurnFacts
<1> HIDE DEF more, wire, sent
<1>4. CASE EndDone(t)
  <2>1. "done" \in Terminal(r.buffer) /\ "done" \in Ending
    BY <1>4 DEF EndDone, Ending
  <2>2. FramesIn(r.buffer, "done") # {}
    BY <2>1 DEF Terminal
  <2>3. turns[t].got + more = sent /\ \E i \in DOMAIN wire : wire[i] = "done"
    BY <2>1, <2>2, <1>2, <1>3 DEF AllOf, sent
  <2>4. Settled(t, "done", more)
    BY <1>4 DEF EndDone, Resolve, more
  <2> QED
    BY <2>3, <2>4, <1>2, SettledStream DEF wire, sent
<1>5. CASE EndNotDone(t)
  <2>1. Settled(t, "failed", more)
    BY <1>5 DEF EndNotDone, Reject, more
  <2> QED
    BY <2>1, <1>2, SettledStream DEF wire, sent
<1> QED
  BY <1>4, <1>5

(* Refused, or broken off *)
LEMMA RejectedStream ==
  ASSUME TalkInv, RespInv, StreamInv, NEW t \in DOMAIN turns, Reject(t, 0)
  PROVE  StreamInv' /\ \A u \in DOMAIN turns : Progress(u)
<1>1. Settled(t, "failed", 0) /\ turns[t].got \in Nat /\ turns[t].got + 0 = turns[t].got
  BY TurnFacts DEF Reject
<1>2. turns[t].pc = "reading" =>
        turns[t].got <= Cardinality(DeltaLines(responses[t].wire, Len(responses[t].wire)))
  BY TurnFacts, ReadingBounds DEF StreamInv, StreamOf
<1> QED
  BY <1>1, <1>2, SettledStream

LEMMA AskedStream ==
  ASSUME TalkInv, RespInv, StreamInv, Send \/ SendTooEarly
  PROVE  StreamInv' /\ \A u \in DOMAIN turns : Progress(u)
<1>1. turns \in Seq(Turn) /\ responses \in Seq(Response) /\ Len(responses) = Len(turns)
      /\ Len(turns) \in Nat /\ Len(messages) \in Nat
  BY DEF TalkInv, TalkTypes, RespInv
<1>2. PICK pc \in {"posted", "failed"}, index \in Nat :
        turns' = Append(turns, NewTurn(pc, index)) /\ responses' = Append(responses, Unread(<<>>))
  <2>1. Len(messages) + 2 \in Nat
    BY <1>1
  <2> DEFINE place == Len(messages) + 2
  <2>2. /\ responses' = Append(responses, Unread(<<>>))
        /\ \/ turns' = Append(turns, NewTurn("posted", place))
           \/ turns' = Append(turns, NewTurn("failed", place))
    BY DEF Send, SendTooEarly
  <2> HIDE DEF place
  <2>3. place \in Nat
    BY <2>1 DEF place
  <2> QED
    BY <2>2, <2>3
<1> DEFINE one == NewTurn(pc, index)
           r == Unread(<<>>)
<1>3. one \in Turn /\ one.got = 0 /\ one.pc = pc
  BY DEF NewTurn, Turn
<1>4. r \in Response
  <2>1. <<>> \in Seq(Pieces)
    OBVIOUS
  <2> QED
    BY <2>1, UnreadType
<1>5. turns' = Append(turns, one) /\ responses' = Append(responses, r)
  BY <1>2
<1> HIDE DEF one, r
<1>6. /\ DOMAIN turns = 1..Len(turns) /\ DOMAIN turns' = 1..(Len(turns) + 1)
      /\ turns'[Len(turns) + 1] = one /\ \A u \in DOMAIN turns : turns'[u] = turns[u]
  BY <1>1, <1>3, <1>5
<1>7. \A u \in DOMAIN turns : responses'[u] = responses[u]
  BY <1>1, <1>4, <1>5
<1>8. \A u \in DOMAIN turns : StreamOf(u)' /\ Progress(u)
  BY <1>6, <1>7, TurnKept
<1>9. ASSUME NEW u, u = Len(turns) + 1
      PROVE  StreamOf(u)'
  <2>1. turns'[u].pc \in {"posted", "failed"} /\ turns'[u].got = 0
    BY <1>3, <1>6, <1>9
  <2> QED
    BY <2>1 DEF StreamOf
<1>10. \A u \in DOMAIN turns' : u \in DOMAIN turns \/ u = Len(turns) + 1
  BY <1>1, <1>6
<1> QED
  BY <1>8, <1>9, <1>10 DEF StreamInv

(* The body comes to an end: nothing was read by that. *)
LEMMA BodyEndsStream ==
  ASSUME TalkInv, RespInv, StreamInv, NEW t \in DOMAIN turns, BodyEnds(t)
  PROVE  StreamInv' /\ \A u \in DOMAIN turns : Progress(u)
<1>1. turns' = turns /\ turns[t].pc = "reading"
  BY BodyEndsResponse DEF BodyEnds
<1>2. PICK end \in {"closed", "broken"} :
        responses' = [responses EXCEPT ![t] = Ended(responses[t], end)]
  BY BodyEndsResponse
<1> DEFINE r2 == Ended(responses[t], end)
<1>3. r2 \in Response /\ (Reading(responses[t], turns[t].got) => Reading(r2, turns[t].got))
  BY TurnFacts, EndedFacts
<1>4. responses' = [responses EXCEPT ![t] = r2]
  BY <1>2
<1> HIDE DEF r2
<1>5. responses'[t] = r2 /\ \A u \in DOMAIN turns : u # t => responses'[u] = responses[u]
  BY <1>1, <1>3, <1>4, OneResponse
<1>6. Reading(responses[t], turns[t].got)
  BY <1>1 DEF StreamInv, StreamOf
<1>7. StreamOf(t)'
  BY <1>1, <1>3, <1>5, <1>6 DEF StreamOf
<1>8. Progress(t)
  BY <1>1, <1>6, TurnFacts, ReadingBounds DEF Progress
<1> QED
  BY <1>1, <1>5, <1>7, <1>8, OneTurn

(* Every step keeps the stream of every turn. *)
LEMMA StreamNext ==
  ASSUME TalkInv, RespInv, StreamInv, [Next]_vars
  PROVE  StreamInv' /\ \A u \in DOMAIN turns : Progress(u)
<1>1. CASE Send \/ SendTooEarly
  BY <1>1, AskedStream
<1>2. ASSUME NEW t \in DOMAIN turns, OfTurn(t)
      PROVE  StreamInv' /\ \A u \in DOMAIN turns : Progress(u)
  <2>1. CASE Respond(t)
    BY <2>1, RespondStream
  <2>2. CASE Reads(t)
    BY <2>2, ReadOnStream, ReadsStream DEF Reads
  <2>3. CASE Refuse(t) \/ Ends(t)
    BY <2>3, EndsStream, RejectedStream DEF Ends, Refuse, Break
  <2>4. CASE BodyEnds(t)
    BY <2>4, BodyEndsStream
  <2> QED
    BY <1>2, <2>1, <2>2, <2>3, <2>4 DEF OfTurn
<1>3. CASE UNCHANGED turnVars
  <2>1. turns' = turns /\ responses' = responses
    BY <1>3 DEF turnVars
  <2>2. \A u \in DOMAIN turns : StreamOf(u)' /\ Progress(u)
    BY <2>1, TurnKept
  <2> QED
    BY <2>1, <2>2 DEF StreamInv
<1>4. \/ StartOK \/ StartFails \/ Attach \/ \E c \in capturing : Captured(c) \/ CaptureFails(c)
      \/ MouseDown \/ MouseUp \/ ClearAll \/ Cancel
      \/ \E size \in Sizes : Save(size) \/ SaveRefused(size)
      \/ \E i \in DOMAIN pending : RemoveAttachment(i)
      \/ Submit \/ SubmitOK \/ SubmitFails \/ UNCHANGED vars
      => UNCHANGED turnVars
  BY DEF StartOK, StartFails, Attach, Captured, CaptureFails, MouseDown, MouseUp, ClearAll,
         Cancel, Save, SaveRefused, RemoveAttachment, Submit, SubmitOK, SubmitFails, vars
<1> QED
  BY <1>1, <1>2, <1>3, <1>4 DEF Next

(* No turn is forgotten. *)
LEMMA TurnsStay ==
  ASSUME TalkInv, [Next]_vars
  PROVE  \A t \in DOMAIN turns : t \in DOMAIN turns'
<1>1. turns \in Seq(Turn)
  BY DEF TalkInv, TalkTypes
<1>2. ASSUME NEW one, turns' = Append(turns, one)
      PROVE  \A t \in DOMAIN turns : t \in DOMAIN turns'
  BY <1>1, <1>2
<1>3. CASE Send \/ SendTooEarly
  BY <1>2, <1>3 DEF Send, SendTooEarly
<1>4. CASE \E t \in DOMAIN turns : OfTurn(t)
  <2>1. PICK t \in DOMAIN turns : OfTurn(t)
    BY <1>4
  <2>2. turns' = turns \/ \E one : turns' = [turns EXCEPT ![t] = one]
    BY <2>1 DEF OfTurn, BodyEnds, Respond, Reads, ReadOn, ReadDone, ReadError, Ends, Refuse, EndDone, EndNotDone,
                Break, Resolve, Reject, Settled
  <2> QED
    BY <2>2
<1>5. CASE UNCHANGED turns
  BY <1>5
<1>6. \/ StartOK \/ StartFails \/ Attach \/ \E c \in capturing : Captured(c) \/ CaptureFails(c)
      \/ MouseDown \/ MouseUp \/ ClearAll \/ Cancel
      \/ \E size \in Sizes : Save(size) \/ SaveRefused(size)
      \/ \E i \in DOMAIN pending : RemoveAttachment(i)
      \/ Submit \/ SubmitOK \/ SubmitFails \/ UNCHANGED vars
      => UNCHANGED turns
  BY DEF StartOK, StartFails, Attach, Captured, CaptureFails, MouseDown, MouseUp, ClearAll,
         Cancel, Save, SaveRefused, RemoveAttachment, Submit, SubmitOK, SubmitFails, vars, turnVars
<1> QED
  BY <1>3, <1>4, <1>5, <1>6 DEF Next

(* What a turn has handed on, at every step *)
LEMMA Hidden ==
  ASSUME TalkInv, RespInv, StreamInv, TalkInv', RespInv', StreamInv',
         NEW t \in DOMAIN turns, t \in DOMAIN turns', Progress(t)
  PROVE  LET wire == responses[t].wire IN
         /\ turns[t].pc = "reading" =>
              turns'[t].got <= Cardinality(DeltaLines(wire, Len(wire)))
         /\ turns'[t].pc = "reading" =>
              turns'[t].got \in Cardinality(WholeDeltas(responses'[t].wire, responses'[t].at))
                                  ..Cardinality(DeltaLines(responses'[t].wire, responses'[t].at))
         /\ turns[t].pc = "reading" /\ turns'[t].pc = "done" =>
              /\ turns'[t].got = Cardinality(DeltaLines(wire, Len(wire)))
              /\ \E i \in DOMAIN wire : wire[i] = "done"
<1>1. turns[t].pc = "reading" =>
        /\ turns'[t].got <= Cardinality(DeltaLines(responses[t].wire, Len(responses[t].wire)))
        /\ turns'[t].pc = "done" =>
             /\ turns'[t].got = Cardinality(DeltaLines(responses[t].wire, Len(responses[t].wire)))
             /\ \E i \in DOMAIN responses[t].wire : responses[t].wire[i] = "done"
  BY DEF Progress
<1>2. ASSUME turns'[t].pc = "reading"
      PROVE  turns'[t].got \in Cardinality(WholeDeltas(responses'[t].wire, responses'[t].at))
                                 ..Cardinality(DeltaLines(responses'[t].wire, responses'[t].at))
  <2>1. StreamOf(t)'
    BY <1>2 DEF StreamInv
  <2>2. Reading(responses'[t], turns'[t].got)
    BY <1>2, <2>1 DEF StreamOf
  <2>3. responses'[t] \in Response /\ turns'[t].got \in Nat
    <3>1. turns' \in Seq(Turn) /\ responses' \in Seq(Response) /\ Len(responses') = Len(turns')
      BY DEF TalkInv, TalkTypes, RespInv
    <3>2. turns'[t] \in Turn /\ responses'[t] \in Response
      BY <1>2, <3>1
    <3> QED
      BY <3>2 DEF Turn
  <2> QED
    BY <2>2, <2>3, ReadingBounds
<1> QED
  BY <1>1, <1>2

(* The stream of every turn is right for ever. *)
LEMMA StreamAlways == Spec => [](TalkInv /\ RespInv /\ StreamInv)
<1>1. Init => StreamInv
  BY DEF Init, StreamInv
<1>2. TalkInv /\ RespInv /\ StreamInv /\ [Next]_vars => StreamInv'
  BY StreamNext
<1> QED
  BY <1>1, <1>2, TalkAlways, PTL DEF Spec

(* No chunking, with either line end, loses, repeats or invents a delta.   *)
THEOREM ChunksHold == Spec => ChunksHidden
<1>1. TalkInv /\ RespInv /\ StreamInv /\ (TalkInv /\ RespInv /\ StreamInv)' /\ [Next]_vars =>
        [\A t \in DOMAIN turns :
           LET wire == responses[t].wire IN
           /\ turns[t].pc = "reading" =>
                turns'[t].got <= Cardinality(DeltaLines(wire, Len(wire)))
           /\ turns'[t].pc = "reading" =>
                turns'[t].got \in Cardinality(WholeDeltas(responses'[t].wire, responses'[t].at))
                                    ..Cardinality(DeltaLines(responses'[t].wire, responses'[t].at))
           /\ turns[t].pc = "reading" /\ turns'[t].pc = "done" =>
                /\ turns'[t].got = Cardinality(DeltaLines(wire, Len(wire)))
                /\ \E i \in DOMAIN wire : wire[i] = "done"]_vars
  BY StreamNext, TurnsStay, Hidden
<1> QED
  BY <1>1, StreamAlways, PTL DEF Spec, ChunksHidden

-----------------------------------------------------------------------------
(* Screenshots, inductively: the list and the strip are the same; what is  *)
(* in the redactor or still being captured is in neither of them nor in a  *)
(* submission; what landed on the picture in the redactor is in rects, and *)
(* nothing has if the drag in progress began on an earlier one.            *)

On(m, c) == {box \in m : box.on = c}

Boxed(shots, m) == \A i \in DOMAIN shots : shots[i].boxes = On(m, shots[i].capture)

(* On every picture there is at most one box begun on another.             *)
OneStray(m) ==
  \A box, other \in m :
    box.on = other.on /\ box.from # box.on /\ other.from # other.on => box = other

ShotTypes ==
  /\ submitting \in BOOLEAN /\ result \in BOOLEAN
  /\ captures \in Nat /\ capturing \subseteq 1..captures
  /\ source \in 0..captures /\ source \notin capturing
  /\ drag \in 0..captures
  /\ rects \subseteq [from : 1..captures, on : 1..captures]
  /\ marked \subseteq [from : 1..captures, on : 1..captures]
  /\ list \in Seq(Shot) /\ pending \in Seq(Shot) /\ body \in Seq(Shot)
  /\ owed \subseteq 1..captures /\ late \subseteq 1..captures

StripInv ==
  /\ list = pending
  /\ owed \subseteq Captures(pending)
  /\ submitting => owed \ late \subseteq Captures(body)

RedactorInv ==
  /\ Captures(pending) \subseteq 1..captures /\ Captures(body) \subseteq 1..captures
  /\ capturing \cap (Captures(pending) \cup Captures(body)) = {}
  /\ source \notin Captures(pending) /\ source \notin Captures(body)
  /\ \A c \in capturing : On(marked, c) = {}
  /\ source # 0 => rects = On(marked, source)
  /\ source # 0 /\ drag \notin {0, source} => rects = {}

BoxInv == Boxed(pending, marked) /\ Boxed(body, marked) /\ OneStray(marked)

ShotInv == ShotTypes /\ StripInv /\ RedactorInv /\ BoxInv

LEMMA BoxedKept ==
  ASSUME NEW shots, NEW m, NEW m2, Boxed(shots, m),
         \A c \in Captures(shots) : On(m2, c) = On(m, c)
  PROVE  Boxed(shots, m2)
BY DEF Boxed, Captures

LEMMA NoShots == Captures(<<>>) = {} /\ (\A m : Boxed(<<>>, m)) /\ <<>> \in Seq(Shot)
BY DEF Captures, Boxed

LEMMA OneMore ==
  ASSUME NEW shots \in Seq(Shot), NEW shot \in Shot, NEW m,
         Boxed(shots, m), shot.boxes = On(m, shot.capture)
  PROVE  /\ Append(shots, shot) \in Seq(Shot)
         /\ Captures(Append(shots, shot)) = Captures(shots) \cup {shot.capture}
         /\ Boxed(Append(shots, shot), m)
<1> DEFINE more == Append(shots, shot)
<1>1. /\ more \in Seq(Shot) /\ DOMAIN more = 1..(Len(shots) + 1) /\ Len(shots) \in Nat
      /\ DOMAIN shots = 1..Len(shots)
      /\ \A i \in 1..Len(shots) : more[i] = shots[i] /\ more[Len(shots) + 1] = shot
      /\ more[Len(shots) + 1] = shot
  OBVIOUS
<1> HIDE DEF more
<1>2. DOMAIN more = DOMAIN shots \cup {Len(shots) + 1}
  BY <1>1
<1>3. Captures(more) = Captures(shots) \cup {shot.capture}
  BY <1>1, <1>2 DEF Captures
<1>4. Boxed(more, m)
  BY <1>1, <1>2 DEF Boxed
<1> QED
  BY <1>1, <1>3, <1>4 DEF more

LEMMA OneLess ==
  ASSUME NEW shots \in Seq(Shot), NEW k \in DOMAIN shots, NEW m, Boxed(shots, m)
  PROVE  /\ RemoveAt(shots, k) \in Seq(Shot)
         /\ Captures(RemoveAt(shots, k)) \subseteq Captures(shots)
         /\ Captures(shots) \subseteq Captures(RemoveAt(shots, k)) \cup {shots[k].capture}
         /\ Boxed(RemoveAt(shots, k), m)
<1> DEFINE less == RemoveAt(shots, k)
<1>1. /\ less \in Seq(Shot) /\ Len(less) = Len(shots) - 1
      /\ \A i \in 1..(Len(shots) - 1) : less[i] = shots[IF i < k THEN i ELSE i + 1]
  BY Removed
<1>2. Len(shots) \in Nat /\ k \in 1..Len(shots) /\ DOMAIN shots = 1..Len(shots)
  OBVIOUS
<1> HIDE DEF less
<1>5. DOMAIN less = 1..(Len(shots) - 1)
  BY <1>1, <1>2
<1>6. \A i \in DOMAIN less : \E j \in DOMAIN shots : less[i] = shots[j]
  <2> SUFFICES ASSUME NEW i \in 1..(Len(shots) - 1)
              PROVE  \E j \in DOMAIN shots : less[i] = shots[j]
    BY <1>5
  <2>1. i \in 1..Len(shots) /\ i + 1 \in 1..Len(shots)
    BY <1>2
  <2> QED
    BY <2>1, <1>2, <1>1
<1>7. \A j \in DOMAIN shots : j # k => \E i \in DOMAIN less : less[i] = shots[j]
  <2> SUFFICES ASSUME NEW j \in 1..Len(shots), j # k
              PROVE  \E i \in 1..(Len(shots) - 1) : less[i] = shots[j]
    BY <1>2, <1>5
  <2>1. CASE j < k
    BY <2>1, <1>2, <1>1
  <2>2. CASE j > k
    <3>1. j - 1 \in 1..(Len(shots) - 1) /\ ~(j - 1 < k) /\ (j - 1) + 1 = j
      BY <2>2, <1>2
    <3>2. less[j - 1] = shots[j]
      BY <3>1, <1>1
    <3> QED
      BY <3>1, <3>2
  <2> QED
    BY <2>1, <2>2, <1>2
<1>8. Boxed(less, m)
  <2> SUFFICES ASSUME NEW i \in DOMAIN less PROVE less[i].boxes = On(m, less[i].capture)
    BY DEF Boxed
  <2>1. PICK j \in DOMAIN shots : less[i] = shots[j]
    BY <1>6
  <2> QED
    BY <2>1 DEF Boxed
<1>9. Captures(less) \subseteq Captures(shots)
  BY <1>6 DEF Captures
<1>10. Captures(shots) \subseteq Captures(less) \cup {shots[k].capture}
  BY <1>7 DEF Captures
<1> QED
  BY <1>1, <1>8, <1>9, <1>10 DEF less

LEMMA ShotInit == Init => ShotInv
<1> SUFFICES ASSUME Init PROVE ShotInv
  OBVIOUS
<1>1. ShotTypes
  <2>1. 0 \in Nat /\ 0 \in 0..0
    OBVIOUS
  <2> QED
    BY <2>1, NoShots DEF Init, ShotTypes
<1>2. StripInv
  BY DEF Init, StripInv
<1>3. RedactorInv
  BY NoShots DEF Init, RedactorInv
<1>4. BoxInv
  BY NoShots DEF Init, BoxInv, OneStray
<1> QED
  BY <1>1, <1>2, <1>3, <1>4 DEF ShotInv

LEMMA ShotKept ==
  ShotInv /\ UNCHANGED <<redactorVars, stripVars, submitVars>> => ShotInv'
BY DEF ShotInv, ShotTypes, StripInv, RedactorInv, BoxInv, redactorVars, stripVars, submitVars

(* What the redactor holds becomes boxes of a screenshot. *)
LEMMA RectsAreBoxes == ShotInv => rects \in SUBSET Box
<1> SUFFICES ASSUME ShotInv, NEW box \in rects PROVE box \in Box
  OBVIOUS
<1>1. captures \in Nat /\ box \in [from : 1..captures, on : 1..captures]
  BY DEF ShotInv, ShotTypes
<1>2. 1..captures \subseteq Nat
  BY <1>1
<1> QED
  BY <1>1, <1>2 DEF Box

LEMMA AttachShots == ShotInv /\ Attach => ShotInv'
<1> SUFFICES ASSUME ShotInv, Attach PROVE ShotInv'
  OBVIOUS
<1>1. /\ captures \in Nat /\ captures' = captures + 1
      /\ capturing' = capturing \cup {captures + 1}
      /\ UNCHANGED <<source, rects, drag, marked, list, pending, owed, late,
                     submitting, body, result>>
  BY DEF Attach, ShotInv, ShotTypes, stripVars, submitVars
<1>2. 1..captures \subseteq 1..captures' /\ captures + 1 \notin 0..captures
      /\ captures + 1 \in 1..captures' /\ 0..captures \subseteq 0..captures' /\ captures' \in Nat
      /\ 1..captures \subseteq 0..captures
  BY <1>1
<1>3. ShotTypes'
  <2>1. [from : 1..captures, on : 1..captures] \subseteq [from : 1..captures', on : 1..captures']
    BY <1>2
  <2>2. rects' \subseteq [from : 1..captures', on : 1..captures']
    BY <1>1, <2>1 DEF ShotInv, ShotTypes
  <2>3. marked' \subseteq [from : 1..captures', on : 1..captures']
    BY <1>1, <2>1 DEF ShotInv, ShotTypes
  <2> QED
    BY <1>1, <1>2, <2>2, <2>3 DEF ShotInv, ShotTypes
<1>4. StripInv'
  BY <1>1 DEF ShotInv, StripInv
<1>5. RedactorInv'
  <2>1. On(marked, captures + 1) = {}
    BY <1>1, <1>2 DEF On, ShotInv, ShotTypes
  <2> QED
    BY <1>1, <1>2, <2>1 DEF ShotInv, ShotTypes, RedactorInv
<1>6. BoxInv'
  BY <1>1 DEF ShotInv, BoxInv
<1> QED
  BY <1>3, <1>4, <1>5, <1>6 DEF ShotInv

(* The boxes of what is kept do not change when those in the redactor do. *)
LEMMA MarksOfSource ==
  ASSUME ShotInv, UNCHANGED <<pending, body>>, OneStray(marked'),
         \A c : c # source => On(marked', c) = On(marked, c)
  PROVE  BoxInv'
<1>1. source \notin Captures(pending) /\ source \notin Captures(body)
  BY DEF ShotInv, RedactorInv
<1>2. \A c \in Captures(pending) : On(marked', c) = On(marked, c)
  BY <1>1
<1>3. \A c \in Captures(body) : On(marked', c) = On(marked, c)
  BY <1>1
<1>4. Boxed(pending, marked) /\ Boxed(body, marked)
  BY DEF ShotInv, BoxInv
<1>5. Boxed(pending, marked')
  BY <1>2, <1>4, BoxedKept
<1>6. Boxed(body, marked')
  BY <1>3, <1>4, BoxedKept
<1> QED
  BY <1>5, <1>6 DEF BoxInv

(* The picture in the redactor goes, and the boxes on it. *)
LEMMA DiscardedMarks ==
  ASSUME ShotInv, marked' = marked \ Discarded
  PROVE  /\ OneStray(marked') /\ marked' \subseteq marked
         /\ On(marked', source) = {}
         /\ \A c : c # source => On(marked', c) = On(marked, c)
         /\ \A c \in capturing : On(marked', c) = {}
<1>1. marked' \subseteq marked
  OBVIOUS
<1>2. OneStray(marked')
  BY <1>1 DEF ShotInv, BoxInv, OneStray
<1>3. On(marked', source) = {}
  BY DEF On, Discarded
<1>4. \A c : c # source => On(marked', c) = On(marked, c)
  BY DEF On, Discarded
<1>5. \A c \in capturing : On(marked', c) = {}
  BY <1>1 DEF On, ShotInv, RedactorInv
<1> QED
  BY <1>1, <1>2, <1>3, <1>4, <1>5

LEMMA CapturedShots == ShotInv => \A c \in capturing : Captured(c) => ShotInv'
<1> SUFFICES ASSUME ShotInv, NEW c \in capturing, Captured(c) PROVE ShotInv'
  OBVIOUS
<1>1. /\ capturing' = capturing \ {c} /\ source' = c /\ rects' = {}
      /\ marked' = marked \ Discarded
      /\ UNCHANGED <<captures, drag, list, pending, owed, late, submitting, body, result>>
  BY DEF Captured, stripVars, submitVars
<1>2. c \in 0..captures /\ c \notin capturing'
      /\ c \notin Captures(pending) /\ c \notin Captures(body)
  BY <1>1 DEF ShotInv, ShotTypes, RedactorInv
<1>3. ShotTypes'
  BY <1>1, <1>2, DiscardedMarks DEF ShotInv, ShotTypes
<1>4. StripInv'
  BY <1>1 DEF ShotInv, StripInv
<1>5. RedactorInv'
  <2>1. On(marked', c) = {} /\ \A d \in capturing' : On(marked', d) = {}
    BY <1>1, DiscardedMarks
  <2> QED
    BY <1>1, <1>2, <2>1 DEF ShotInv, RedactorInv
<1>6. BoxInv'
  BY <1>1, DiscardedMarks, MarksOfSource
<1> QED
  BY <1>3, <1>4, <1>5, <1>6 DEF ShotInv

LEMMA CaptureFailsShots == ShotInv => \A c \in capturing : CaptureFails(c) => ShotInv'
<1> SUFFICES ASSUME ShotInv, NEW c \in capturing, CaptureFails(c) PROVE ShotInv'
  OBVIOUS
<1>1. /\ capturing' = capturing \ {c}
      /\ UNCHANGED <<captures, source, rects, drag, marked, list, pending, owed, late,
                     submitting, body, result>>
  BY DEF CaptureFails, stripVars, submitVars
<1>2. ShotTypes' /\ StripInv' /\ BoxInv'
  BY <1>1 DEF ShotInv, ShotTypes, StripInv, BoxInv
<1>3. RedactorInv'
  BY <1>1 DEF ShotInv, RedactorInv
<1> QED
  BY <1>2, <1>3 DEF ShotInv

LEMMA MouseDownShots == ShotInv /\ MouseDown => ShotInv'
<1> SUFFICES ASSUME ShotInv, MouseDown PROVE ShotInv'
  OBVIOUS
<1>1. /\ source # 0 /\ drag' = source
      /\ UNCHANGED <<captures, capturing, source, rects, marked, list, pending, owed, late,
                     submitting, body, result>>
  BY DEF MouseDown, stripVars, submitVars
<1>2. ShotTypes' /\ StripInv' /\ BoxInv'
  BY <1>1 DEF ShotInv, ShotTypes, StripInv, BoxInv
<1>3. RedactorInv'
  BY <1>1 DEF ShotInv, RedactorInv
<1> QED
  BY <1>2, <1>3 DEF ShotInv

(* A box lands on the picture in the redactor: if it was begun elsewhere,  *)
(* it is the first.                                                        *)
LEMMA MouseUpShots == ShotInv /\ MouseUp => ShotInv'
<1> SUFFICES ASSUME ShotInv, MouseUp PROVE ShotInv'
  OBVIOUS
<1>1. /\ source # 0 /\ drag # 0 /\ drag' = 0
      /\ UNCHANGED <<captures, capturing, source, list, pending, owed, late,
                     submitting, body, result>>
  BY DEF MouseUp, stripVars, submitVars
<1> DEFINE box == [from |-> drag, on |-> source]
<1>2. PICK boxes \in {{}, {box}} : rects' = rects \cup boxes /\ marked' = marked \cup boxes
  BY DEF MouseUp
<1>3. source \in 1..captures /\ drag \in 1..captures /\ 0 \in 0..captures /\ source \notin capturing
  BY <1>1 DEF ShotInv, ShotTypes
<1>4. box \in [from : 1..captures, on : 1..captures] /\ box.from = drag /\ box.on = source
  BY <1>3
<1> HIDE DEF box
<1>5. ShotTypes'
  BY <1>1, <1>2, <1>3, <1>4 DEF ShotInv, ShotTypes
<1>6. StripInv'
  BY <1>1 DEF ShotInv, StripInv
<1>7. \A c : c # source => On(marked', c) = On(marked, c)
  BY <1>2, <1>4 DEF On
<1>8. On(marked', source) = On(marked, source) \cup boxes
  BY <1>2, <1>4 DEF On
<1>9. RedactorInv'
  BY <1>1, <1>2, <1>3, <1>7, <1>8 DEF ShotInv, RedactorInv
<1>10. drag # source => On(marked, source) = {}
  BY <1>1 DEF ShotInv, RedactorInv
<1>11. OneStray(marked')
  <2>1. OneStray(marked)
    BY DEF ShotInv, BoxInv
  <2>2. box.from # box.on => \A other \in marked : other.on # box.on
    BY <1>4, <1>10 DEF On
  <2> QED
    BY <1>2, <2>1, <2>2 DEF OneStray
<1>12. BoxInv'
  BY <1>1, <1>7, <1>11, MarksOfSource
<1> QED
  BY <1>5, <1>6, <1>9, <1>12 DEF ShotInv

LEMMA ClearAllShots == ShotInv /\ ClearAll => ShotInv'
<1> SUFFICES ASSUME ShotInv, ClearAll PROVE ShotInv'
  OBVIOUS
<1>1. /\ rects' = {} /\ marked' = marked \ Discarded
      /\ UNCHANGED <<captures, capturing, source, drag, list, pending, owed, late,
                     submitting, body, result>>
  BY DEF ClearAll, stripVars, submitVars
<1>2. ShotTypes' /\ StripInv'
  BY <1>1 DEF ShotInv, ShotTypes, StripInv
<1>3. RedactorInv'
  BY <1>1, DiscardedMarks DEF ShotInv, RedactorInv
<1>4. BoxInv'
  BY <1>1, DiscardedMarks, MarksOfSource
<1> QED
  BY <1>2, <1>3, <1>4 DEF ShotInv

(* The redactor closes and its picture is dropped. *)
LEMMA ClosedShots ==
  ASSUME ShotInv, source' = 0, marked' = marked \ Discarded,
         UNCHANGED <<captures, capturing, rects, drag, list, pending, owed, late,
                     submitting, body, result>>
  PROVE  ShotInv'
<1>1. 0 \notin 1..captures /\ 0 \in 0..captures
  BY DEF ShotInv, ShotTypes
<1>2. ShotTypes' /\ StripInv'
  BY <1>1 DEF ShotInv, ShotTypes, StripInv
<1>3. RedactorInv'
  <2>1. \A c \in capturing : On(marked', c) = {}
    BY DiscardedMarks
  <2>2. 0 \notin Captures(pending) /\ 0 \notin Captures(body)
    BY <1>1 DEF ShotInv, RedactorInv
  <2> QED
    BY <2>1, <2>2 DEF ShotInv, RedactorInv
<1>4. BoxInv'
  BY DiscardedMarks, MarksOfSource
<1> QED
  BY <1>2, <1>3, <1>4 DEF ShotInv

LEMMA CancelShots == ShotInv /\ Cancel => ShotInv'
BY ClosedShots DEF Cancel, stripVars, submitVars

LEMMA SaveRefusedShots == ShotInv => \A size \in Sizes : SaveRefused(size) => ShotInv'
BY ClosedShots DEF SaveRefused, stripVars, submitVars

LEMMA SaveShots == ShotInv => \A size \in Sizes : Save(size) => ShotInv'
<1> SUFFICES ASSUME ShotInv, NEW size \in Sizes, Save(size) PROVE ShotInv'
  OBVIOUS
<1> DEFINE shot == Flattened(size)
<1>1. /\ source # 0 /\ list' = Append(list, shot) /\ pending' = list' /\ source' = 0
      /\ owed' = owed \cup {source}
      /\ late' = IF submitting THEN late \cup {source} ELSE late
      /\ UNCHANGED <<captures, capturing, rects, drag, marked, submitting, body, result>>
  BY DEF Save, submitVars
<1>2. source \in 1..captures /\ 0 \in 0..captures /\ 0 \notin 1..captures /\ captures \in Nat
  BY <1>1 DEF ShotInv, ShotTypes
<1>3. shot.capture = source /\ shot.boxes = rects
  BY DEF Flattened
<1>4. shot \in Shot
  <2>1. source \in Nat /\ rects \in SUBSET Box
    BY <1>2, RectsAreBoxes
  <2> QED
    BY <2>1 DEF Flattened, Shot
<1>5. list = pending /\ pending \in Seq(Shot) /\ Boxed(pending, marked)
      /\ rects = On(marked, source)
  BY <1>1 DEF ShotInv, ShotTypes, StripInv, RedactorInv, BoxInv
<1> HIDE DEF shot
<1>6. /\ pending' \in Seq(Shot) /\ Captures(pending') = Captures(pending) \cup {source}
      /\ Boxed(pending', marked)
  BY <1>1, <1>3, <1>4, <1>5, OneMore
<1>7. ShotTypes'
  BY <1>1, <1>2, <1>6 DEF ShotInv, ShotTypes
<1>8. StripInv'
  BY <1>1, <1>6 DEF ShotInv, StripInv
<1>9. RedactorInv'
  BY <1>1, <1>2, <1>6 DEF ShotInv, ShotTypes, RedactorInv
<1>10. BoxInv'
  BY <1>1, <1>6 DEF ShotInv, BoxInv
<1> QED
  BY <1>7, <1>8, <1>9, <1>10 DEF ShotInv

LEMMA RemoveShots == ShotInv => \A i \in DOMAIN pending : RemoveAttachment(i) => ShotInv'
<1> SUFFICES ASSUME ShotInv, NEW i \in DOMAIN pending, RemoveAttachment(i) PROVE ShotInv'
  OBVIOUS
<1>1. /\ list' = RemoveAt(list, i) /\ pending' = list'
      /\ owed' = owed \ {pending[i].capture}
      /\ UNCHANGED <<captures, capturing, source, rects, drag, marked, late, submitting, body, result>>
  BY DEF RemoveAttachment, redactorVars, submitVars
<1>2. list = pending /\ pending \in Seq(Shot) /\ Boxed(pending, marked)
  BY DEF ShotInv, ShotTypes, StripInv, BoxInv
<1>3. /\ pending' \in Seq(Shot) /\ Captures(pending') \subseteq Captures(pending)
      /\ Captures(pending) \subseteq Captures(pending') \cup {pending[i].capture}
      /\ Boxed(pending', marked)
  BY <1>1, <1>2, OneLess
<1>4. ShotTypes'
  BY <1>1, <1>3 DEF ShotInv, ShotTypes
<1>5. StripInv'
  BY <1>1, <1>3 DEF ShotInv, StripInv
<1>6. RedactorInv'
  BY <1>1, <1>3 DEF ShotInv, RedactorInv
<1>7. BoxInv'
  BY <1>1, <1>3 DEF ShotInv, BoxInv
<1> QED
  BY <1>4, <1>5, <1>6, <1>7 DEF ShotInv

LEMMA SubmitShots == ShotInv /\ (Submit \/ SubmitOK \/ SubmitFails) => ShotInv'
<1>1. ASSUME ShotInv, Submit
      PROVE  ShotInv'
  <2>1. /\ submitting' = TRUE /\ body' = pending
        /\ UNCHANGED <<captures, capturing, source, rects, drag, marked, list, pending, owed,
                       late, result>>
    BY <1>1 DEF Submit, redactorVars, stripVars
  <2> QED
    BY <1>1, <2>1 DEF ShotInv, ShotTypes, StripInv, RedactorInv, BoxInv
<1>2. ASSUME ShotInv, SubmitOK
      PROVE  ShotInv'
  <2>1. /\ submitting = TRUE /\ submitting' = FALSE /\ body' = <<>> /\ result' = TRUE
        /\ owed' = owed \ (Captures(body) \cup late) /\ late' = {}
        /\ list' = <<>> /\ pending' = <<>>
        /\ UNCHANGED <<captures, capturing, source, rects, drag, marked>>
    BY <1>2 DEF SubmitOK, redactorVars, ShotInv, ShotTypes
  <2>2. ShotTypes'
    BY <1>2, <2>1, NoShots DEF ShotInv, ShotTypes
  <2>3. StripInv'
    BY <1>2, <2>1, NoShots DEF ShotInv, StripInv
  <2>4. RedactorInv'
    BY <1>2, <2>1, NoShots DEF ShotInv, RedactorInv
  <2>5. BoxInv'
    BY <1>2, <2>1, NoShots DEF ShotInv, BoxInv
  <2> QED
    BY <2>2, <2>3, <2>4, <2>5 DEF ShotInv
<1>3. ASSUME ShotInv, SubmitFails
      PROVE  ShotInv'
  <2>1. /\ submitting' = FALSE /\ body' = <<>> /\ late' = {}
        /\ UNCHANGED <<captures, capturing, source, rects, drag, marked, list, pending, owed, result>>
    BY <1>3 DEF SubmitFails, redactorVars
  <2>2. ShotTypes' /\ StripInv' /\ BoxInv'
    BY <1>3, <2>1, NoShots DEF ShotInv, ShotTypes, StripInv, BoxInv
  <2>3. RedactorInv'
    BY <1>3, <2>1, NoShots DEF ShotInv, RedactorInv
  <2> QED
    BY <2>2, <2>3 DEF ShotInv
<1> QED
  BY <1>1, <1>2, <1>3

(* While init is asked for there is nothing to lose. *)
EarlyInv ==
  init = "asking" => pending = <<>> /\ owed = {} /\ source = 0 /\ capturing = {}

LEMMA EarlyNext == EarlyInv /\ [Next]_vars => EarlyInv'
<1> SUFFICES ASSUME EarlyInv, [Next]_vars, init' = "asking"
            PROVE  pending' = <<>> /\ owed' = {} /\ source' = 0 /\ capturing' = {}
  BY DEF EarlyInv
<1>1. ~StartOK /\ ~StartFails
  BY DEF StartOK, StartFails
<1>2. init = "asking"
  BY <1>1 DEF Next, vars, Send, SendTooEarly, Respond, Reads, ReadOn, ReadDone, ReadError,
     OfTurn, BodyEnds, Ends, Refuse, EndDone, EndNotDone, Break, Resolve, Reject, Attach, Captured, CaptureFails,
     MouseDown, MouseUp, ClearAll, Cancel, Save, SaveRefused, RemoveAttachment, Submit, SubmitOK, SubmitFails
<1>3. pending = <<>> /\ owed = {} /\ source = 0 /\ capturing = {} /\ init # "ready"
  BY <1>2 DEF EarlyInv
<1>4. /\ ~Send /\ ~Attach /\ ~MouseDown /\ ~MouseUp /\ ~ClearAll /\ ~Cancel /\ ~Submit
      /\ \A size \in Sizes : ~Save(size) /\ ~SaveRefused(size)
      /\ ~\E c \in capturing : Captured(c) \/ CaptureFails(c)
      /\ ~\E i \in DOMAIN pending : RemoveAttachment(i)
  BY <1>3 DEF Send, Attach, MouseDown, MouseUp, ClearAll, Cancel, Submit, Save, SaveRefused
<1>5. \/ SendTooEarly \/ \E t \in DOMAIN turns : OfTurn(t)
      \/ SubmitOK \/ SubmitFails \/ UNCHANGED vars
  BY <1>1, <1>4 DEF Next
<1>6. CASE SubmitOK
  BY <1>3, <1>6 DEF SubmitOK, redactorVars
<1>7. CASE SubmitFails
  BY <1>3, <1>7 DEF SubmitFails, redactorVars
<1>8. CASE UNCHANGED <<redactorVars, stripVars>>
  BY <1>3, <1>8 DEF redactorVars, stripVars
<1>9. SendTooEarly \/ (\E t \in DOMAIN turns : OfTurn(t))
      \/ UNCHANGED vars => UNCHANGED <<redactorVars, stripVars>>
  BY DEF vars, SendTooEarly, Respond, Reads, ReadOn, ReadDone, ReadError,
     OfTurn, BodyEnds, Ends, Refuse, EndDone, EndNotDone, Break, Resolve, Reject
<1> QED
  BY <1>5, <1>6, <1>7, <1>8, <1>9

LEMMA StartShots == ShotInv /\ EarlyInv /\ StartOK => ShotInv'
<1> SUFFICES ASSUME ShotInv, EarlyInv, StartOK PROVE ShotInv'
  OBVIOUS
<1>1. /\ list' = <<>> /\ pending = <<>> /\ owed = {}
      /\ UNCHANGED <<captures, capturing, source, rects, drag, marked, pending, owed, late,
                     submitting, body, result>>
  BY DEF StartOK, EarlyInv, redactorVars, submitVars
<1>2. ShotTypes' /\ StripInv'
  BY <1>1, NoShots DEF ShotInv, ShotTypes, StripInv
<1>3. RedactorInv' /\ BoxInv'
  BY <1>1 DEF ShotInv, RedactorInv, BoxInv
<1> QED
  BY <1>2, <1>3 DEF ShotInv

LEMMA ShotNext == ShotInv /\ EarlyInv /\ [Next]_vars => ShotInv'
<1> SUFFICES ASSUME ShotInv, EarlyInv, [Next]_vars PROVE ShotInv'
  OBVIOUS
<1>1. CASE UNCHANGED <<redactorVars, stripVars, submitVars>>
  BY <1>1, ShotKept
<1>2. StartFails \/ Send \/ SendTooEarly \/ UNCHANGED vars
      \/ (\E t \in DOMAIN turns : OfTurn(t))
      => UNCHANGED <<redactorVars, stripVars, submitVars>>
  BY DEF vars, StartFails, Send, SendTooEarly, Respond, Reads, ReadOn, ReadDone, ReadError,
     OfTurn, BodyEnds, Ends, Refuse, EndDone, EndNotDone, Break, Resolve, Reject
<1>3. CASE StartOK
  BY <1>3, StartShots
<1>4. CASE Attach
  BY <1>4, AttachShots
<1>5. CASE (\E c \in capturing : Captured(c) \/ CaptureFails(c))
           \/ MouseDown \/ MouseUp \/ ClearAll \/ Cancel
  BY <1>5, CapturedShots, CaptureFailsShots, MouseDownShots, MouseUpShots, ClearAllShots,
     CancelShots
<1>6. CASE \E size \in Sizes : Save(size) \/ SaveRefused(size)
  BY <1>6, SaveShots, SaveRefusedShots
<1>7. CASE \E i \in DOMAIN pending : RemoveAttachment(i)
  BY <1>7, RemoveShots
<1>8. CASE Submit \/ SubmitOK \/ SubmitFails
  BY <1>8, SubmitShots
<1> QED
  BY <1>1, <1>2, <1>3, <1>4, <1>5, <1>6, <1>7, <1>8 DEF Next

(* What is pending has passed the list's tests, one capture after another. *)
FitInv == FitTogether(pending)

LEMMA FitNext == ShotInv /\ EarlyInv /\ FitInv /\ [Next]_vars => FitInv'
<1> SUFFICES ASSUME ShotInv, EarlyInv, FitInv, [Next]_vars PROVE FitInv'
  OBVIOUS
<1>1. list = pending /\ pending \in Seq(Shot) /\ FitTogether(pending)
  BY DEF ShotInv, StripInv, ShotTypes, FitInv
<1>2. ASSUME NEW size \in Sizes, Save(size)
      PROVE  FitInv'
  <2> DEFINE shot == Flattened(size)
  <2>1. source # 0 /\ Taken(shot) /\ pending' = Append(pending, shot)
    BY <1>1, <1>2 DEF Save
  <2>2. shot \in Shot
    <3>1. source \in Nat /\ rects \in SUBSET Box
      BY RectsAreBoxes DEF ShotInv, ShotTypes
    <3> QED
      BY <3>1 DEF Flattened, Shot
  <2> HIDE DEF shot
  <2>3. Fits(shot) /\ Total(pending, Len(pending)) + shot.size <= MaxTotalBytes
    BY <1>1, <2>1 DEF Taken, Fits
  <2>4. FitTogether(Append(pending, shot))
    BY <1>1, <2>2, <2>3, FitOneMore
  <2> QED
    BY <2>1, <2>4 DEF FitInv
<1>3. ASSUME NEW i \in DOMAIN pending, RemoveAttachment(i)
      PROVE  FitInv'
  <2>1. pending' = RemoveAt(pending, i)
    BY <1>1, <1>3 DEF RemoveAttachment
  <2>2. FitTogether(RemoveAt(pending, i))
    BY <1>1, FitOneLess
  <2> QED
    BY <2>1, <2>2 DEF FitInv
<1>4. CASE SubmitOK
  <2>1. pending' = <<>>
    BY <1>4 DEF SubmitOK
  <2> QED
    BY <2>1, FitNone DEF FitInv
<1>5. CASE UNCHANGED pending
  BY <1>5 DEF FitInv
<1>6. \/ StartOK \/ StartFails \/ Send \/ SendTooEarly
      \/ (\E t \in DOMAIN turns : OfTurn(t))
      \/ Attach \/ (\E c \in capturing : Captured(c) \/ CaptureFails(c))
      \/ MouseDown \/ MouseUp \/ ClearAll \/ Cancel \/ (\E size \in Sizes : SaveRefused(size))
      \/ Submit \/ SubmitFails \/ UNCHANGED vars
      => UNCHANGED pending
  BY DEF StartOK, StartFails, Send, SendTooEarly, Respond, Reads, ReadOn, ReadDone, ReadError,
         OfTurn, BodyEnds, Ends, Refuse, EndDone, EndNotDone, Break, Resolve, Reject, Attach, Captured,
         CaptureFails, MouseDown, MouseUp, ClearAll, Cancel, SaveRefused, Submit, SubmitFails, stripVars, vars
<1> QED
  BY <1>2, <1>3, <1>4, <1>5, <1>6 DEF Next

LEMMA ShotAlways == Spec => [](ShotInv /\ FitInv)
<1>1. Init => ShotInv /\ EarlyInv /\ FitInv
  BY ShotInit, FitNone DEF Init, EarlyInv, FitInv
<1> QED
  BY <1>1, ShotNext, EarlyNext, FitNext, PTL DEF Spec

-----------------------------------------------------------------------------

(* Every variable keeps its type, a turn that is not settled has its place *)
(* in the conversation, and every turn has a response of its own.          *)
THEOREM TypeCorrect == Spec => []TypeOK
<1>1. TalkInv /\ RespInv /\ ShotInv => TypeOK
  <2> SUFFICES ASSUME TalkInv, RespInv, ShotInv PROVE TypeOK
    OBVIOUS
  <2>1. \A t \in Unsettled : turns[t].index \in DOMAIN messages
    BY DEF TalkInv, TalkTypes, Writing, Open
  <2>2. WidgetTypeOK
    BY <2>1 DEF TalkInv, TalkTypes, ShotInv, ShotTypes, WidgetTypeOK
  <2> QED
    BY <2>2 DEF TypeOK, RespInv
<1> QED
  BY <1>1, TalkAlways, ShotAlways, PTL

(* What the list has taken the relay accepts, however captures were added  *)
(* and removed, and the strip shows what the list counts.                  *)
THEOREM PendingHolds == Spec => []PendingAcceptable
<1>1. ShotInv /\ FitInv => PendingAcceptable
  BY FitAccepted DEF ShotInv, StripInv, ShotTypes, FitInv, PendingAcceptable
<1> QED
  BY <1>1, ShotAlways, PTL

(* So the relay's loop over the attachments ends in "ok" for whatever the  *)
(* widget has pending: a user is never refused what the strip let him add. *)
THEOREM PendingPasses == Spec => [](ValidateAll(Wire(pending)) = "ok")
<1>1. ShotInv /\ FitInv => ValidateAll(Wire(pending)) = "ok"
  BY FitAccepted, WireType, AcceptableSuffices
     DEF ShotInv, StripInv, ShotTypes, FitInv
<1> QED
  BY <1>1, ShotAlways, PTL

(* Every screenshot the user saved, also while a submission was in flight,  *)
(* is in the strip until a submission that had it, or in whose flight it    *)
(* was saved, succeeds or the user removes it.                              *)
THEOREM KeptHolds == Spec => []KeptUntilSent
<1>1. ShotInv => KeptUntilSent
  BY DEF ShotInv, StripInv, KeptUntilSent
<1> QED
  BY <1>1, ShotAlways, PTL

(* Every screenshot has the boxes whose drag ended on it, at most one of    *)
(* them begun on an earlier picture, wherever captures replace each other.  *)
THEOREM RedactedHolds == Spec => []Redacted
<1>1. ShotInv => Redacted
  BY DEF ShotInv, BoxInv, Boxed, On, OneStray, Redacted
<1> QED
  BY <1>1, ShotAlways, PTL

=============================================================================
