---------------------------- MODULE ValuesProofs ----------------------------
(***************************************************************************)
(* That the typechecker and the compiler see the same static tokens, for   *)
(* every file and whatever the evaluation of a construct comes to.         *)
(*                                                                         *)
(* Both walks are at places of the same tree.  What a token stands for at  *)
(* a place is settled by the assignments before it, in the bodies it is    *)
(* in: the scopes of the typechecker hold what these were resolved to, and *)
(* so do the nodes from the compiler's current one up to the root.         *)
(*                                                                         *)
(* On that rests what is said of the two sides: that what is resolved is   *)
(* what is stored, that properties fit, and that silent tweens compile.    *)
(* Sequences of keypoints need only what is evaluated, and the arithmetic  *)
(* of their times.                                                         *)
(***************************************************************************)
EXTENDS StoredValues, FiniteSetTheorems, WellFoundedInduction, TLAPS

(* The j-th construct of the i-th body that p is in.                       *)
Sibling(p, i, j) == Append(SubSeq(p, 1, i - 1), j)

IsPlace(p) == p \in Seq(Nat \ {0}) /\ p # <<>>

(* Where a walk may be: in rules, behind constructs that there are.        *)
Reached(p) ==
  /\ IsPlace(p)
  /\ \A i \in 1 .. Len(p) - 1 : At(SubSeq(p, 1, i), "Rule")
  /\ \A i \in 1 .. Len(p) : \A j \in 1 .. p[i] - 1 : ~BodyOver(Sibling(p, i, j))

(* q comes before p, and is not a rule that p is in.                       *)
Passed(q, p) ==
  \E i \in 1 .. Len(p) : i <= Len(q) /\ (\A k \in 1 .. i - 1 : q[k] = p[k]) /\ q[i] < p[i]

(* There is a construct at q, and it is not a rule.                        *)
Stands(q) == Reached(q) /\ ~BodyOver(q) /\ ~At(q, "Rule")

Assigns(q) == Reached(q) /\ At(q, "Assignment") /\ ConstructAt(q).right # <<>>

-----------------------------------------------------------------------------
LEMMA LeastExists ==
  ASSUME NEW S \in SUBSET Nat, S # {}
  PROVE  \E m \in S : \A k \in S : m <= k
<1>1. PICK m \in S : \A k \in S : ~ (<<k, m>> \in OpToRel(<, Nat))
  BY NatLessThanWellFounded, WFMin, Zenon
<1>2. \A k \in S : m <= k
  <2> TAKE k \in S
  <2>1. ~ (<<k, m>> \in OpToRel(<, Nat))
    BY <1>1
  <2>2. <<k, m>> \in Nat \X Nat
    OBVIOUS
  <2>3. ~ (k < m)
    BY <2>1, <2>2 DEF OpToRel
  <2> QED BY <2>3
<1> QED BY <1>2

LEMMA MaxFacts ==
  ASSUME NEW n \in Nat, NEW S \in SUBSET (1 .. n), S # {}
  PROVE  /\ Max(S) \in S
         /\ \A k \in S : k <= Max(S)
<1> DEFINE T == {m \in Nat : \A k \in S : k <= m}
<1>1. PICK m \in T : \A k \in T : m <= k
  <2>1. n \in T
    OBVIOUS
  <2> QED BY <2>1, LeastExists
<1>2. m \in S
  <2>1. SUFFICES ASSUME m \notin S PROVE FALSE
    OBVIOUS
  <2>2. PICK k \in S : TRUE
    OBVIOUS
  <2>3. m \in Nat /\ k <= m /\ k >= 1
    BY <1>1, <2>2
  <2>4. m - 1 \in T
    BY <1>1, <2>1, <2>3
  <2> QED BY <1>1, <2>3, <2>4
<1>3. \E x \in S : \A y \in S : x >= y
  BY <1>1, <1>2
<1> QED BY <1>3 DEF Max

-----------------------------------------------------------------------------
(* Places.                                                                 *)

LEMMA SiblingFacts ==
  ASSUME NEW p, IsPlace(p), NEW i \in 1 .. Len(p), NEW j \in Nat \ {0}
  PROVE  /\ IsPlace(Sibling(p, i, j))
         /\ Len(Sibling(p, i, j)) = i
         /\ Sibling(p, i, j)[i] = j
         /\ \A k \in 1 .. i - 1 : Sibling(p, i, j)[k] = p[k]
         /\ \A k \in 1 .. i - 1 : SubSeq(Sibling(p, i, j), 1, k) = SubSeq(p, 1, k)
         /\ \A k \in 1 .. i : \A m \in Nat \ {0} : Sibling(Sibling(p, i, j), k, m) = Sibling(p, k, m)
<1> DEFINE b == SubSeq(p, 1, i - 1)
           s == Append(b, j)
<1>1. p \in Seq(Nat \ {0}) /\ Len(p) \in Nat /\ i \in Nat
  BY DEF IsPlace
<1>2. b \in Seq(Nat \ {0}) /\ Len(b) = i - 1 /\ \A k \in 1 .. i - 1 : b[k] = p[k]
  BY <1>1
<1>3. s \in Seq(Nat \ {0}) /\ Len(s) = i /\ s[i] = j /\ \A k \in 1 .. i - 1 : s[k] = p[k]
  BY <1>2
<1>4. \A k \in 0 .. i - 1 : SubSeq(s, 1, k) = SubSeq(p, 1, k)
  BY <1>1, <1>3
<1>5. \A k \in 1 .. i : \A m \in Nat \ {0} : Append(SubSeq(s, 1, k - 1), m) = Append(SubSeq(p, 1, k - 1), m)
  BY <1>1, <1>4
<1>6. s # <<>>
  BY <1>1, <1>3
<1> HIDE DEF b, s
<1>7. s = Sibling(p, i, j)
  BY DEF s, b, Sibling
<1>8. IsPlace(s)
  BY <1>3, <1>6 DEF IsPlace
<1>9. \A k \in 1 .. i : \A m \in Nat \ {0} : Sibling(s, k, m) = Sibling(p, k, m)
  BY <1>5 DEF Sibling
<1> QED BY <1>3, <1>4, <1>7, <1>8, <1>9

(* Places in the same bodies down to the i-th.                             *)
LEMMA SameBodies ==
  ASSUME NEW p, IsPlace(p), NEW q, IsPlace(q), NEW i \in 1 .. Len(p), i <= Len(q),
         \A k \in 1 .. i - 1 : q[k] = p[k]
  PROVE  /\ \A k \in 0 .. i - 1 : SubSeq(q, 1, k) = SubSeq(p, 1, k)
         /\ \A k \in 1 .. i : \A j : Sibling(q, k, j) = Sibling(p, k, j)
<1>1. p \in Seq(Nat \ {0}) /\ q \in Seq(Nat \ {0}) /\ Len(p) \in Nat /\ Len(q) \in Nat
  BY DEF IsPlace
<1>2. \A k \in 0 .. i - 1 : SubSeq(q, 1, k) = SubSeq(p, 1, k)
  BY <1>1
<1>3. \A k \in 1 .. i : SubSeq(q, 1, k - 1) = SubSeq(p, 1, k - 1)
  BY <1>1, <1>2
<1> QED BY <1>2, <1>3 DEF Sibling

LEMMA SamePlace ==
  ASSUME NEW p, IsPlace(p)
  PROVE  /\ p = Sibling(p, Len(p), p[Len(p)])
         /\ SubSeq(p, 1, Len(p)) = p
         /\ Len(p) \in Nat \ {0}
         /\ \A i \in 1 .. Len(p) : p[i] \in Nat \ {0}
BY DEF IsPlace, Sibling

LEMMA BehindFacts ==
  ASSUME NEW p, IsPlace(p)
  PROVE  Behind(p) = Sibling(p, Len(p), p[Len(p)] + 1)
BY DEF Behind, Front, Last, Sibling

LEMMA OutFacts ==
  ASSUME NEW p, IsPlace(p), Len(p) > 1
  PROVE  OutOfBody(p) = Sibling(p, Len(p) - 1, p[Len(p) - 1] + 1)
<1>1. p \in Seq(Nat \ {0}) /\ Len(p) \in Nat
  BY DEF IsPlace
<1>2. Front(p) = SubSeq(p, 1, Len(p) - 1)
  BY DEF Front
<1>3. Front(p) \in Seq(Nat \ {0}) /\ Len(Front(p)) = Len(p) - 1 /\ Front(p)[Len(p) - 1] = p[Len(p) - 1]
  BY <1>1, <1>2
<1>4. SubSeq(Front(p), 1, Len(p) - 2) = SubSeq(p, 1, Len(p) - 2)
  BY <1>1, <1>2
<1>5. Len(Front(p)) - 1 = Len(p) - 2 /\ (Len(p) - 1) - 1 = Len(p) - 2
  BY <1>1, <1>3
<1> QED BY <1>3, <1>4, <1>5 DEF OutOfBody, Behind, Front, Last, Sibling

LEMMA IntoFacts ==
  ASSUME NEW p, IsPlace(p)
  PROVE  /\ IsPlace(IntoBody(p))
         /\ Len(IntoBody(p)) = Len(p) + 1
         /\ IntoBody(p)[Len(p) + 1] = 1
         /\ \A k \in 1 .. Len(p) : IntoBody(p)[k] = p[k]
         /\ \A k \in 1 .. Len(p) : SubSeq(IntoBody(p), 1, k) = SubSeq(p, 1, k)
         /\ \A k \in 1 .. Len(p) : \A m : Sibling(IntoBody(p), k, m) = Sibling(p, k, m)
<1> DEFINE s == Append(p, 1)
<1>1. p \in Seq(Nat \ {0}) /\ Len(p) \in Nat
  BY DEF IsPlace
<1>2. s \in Seq(Nat \ {0}) /\ Len(s) = Len(p) + 1 /\ s[Len(p) + 1] = 1 /\ \A k \in 1 .. Len(p) : s[k] = p[k]
  BY <1>1
<1>3. \A k \in 0 .. Len(p) : SubSeq(s, 1, k) = SubSeq(p, 1, k)
  BY <1>1, <1>2
<1>4. \A k \in 1 .. Len(p) : SubSeq(s, 1, k - 1) = SubSeq(p, 1, k - 1)
  BY <1>1, <1>3
<1>5. s # <<>>
  BY <1>1, <1>2
<1>6. s = IntoBody(p)
  BY DEF IntoBody
<1> HIDE DEF s
<1>7. IsPlace(s)
  BY <1>2, <1>5 DEF IsPlace
<1>8. \A k \in 1 .. Len(p) : \A m : Sibling(s, k, m) = Sibling(p, k, m)
  BY <1>4 DEF Sibling
<1> QED BY <1>2, <1>3, <1>6, <1>7, <1>8

LEMMA SubSeqSibling ==
  ASSUME NEW p, IsPlace(p), NEW i \in 1 .. Len(p)
  PROVE  Sibling(p, i, p[i]) = SubSeq(p, 1, i)
<1>1. p \in Seq(Nat \ {0}) /\ Len(p) \in Nat
  BY DEF IsPlace
<1> QED BY <1>1 DEF Sibling

(* Where a walk may be it may be earlier in the same body.                 *)
LEMMA SiblingReached ==
  ASSUME NEW p, Reached(p), NEW i \in 1 .. Len(p), NEW j \in 1 .. p[i] - 1
  PROVE  Reached(Sibling(p, i, j)) /\ ~BodyOver(Sibling(p, i, j))
<1> DEFINE s == Sibling(p, i, j)
<1>1. IsPlace(p) /\ Len(p) \in Nat /\ i \in Nat /\ p[i] \in Nat \ {0} /\ j \in Nat \ {0}
  BY SamePlace DEF Reached
<1>2. /\ IsPlace(s) /\ Len(s) = i /\ s[i] = j
      /\ \A k \in 1 .. i - 1 : s[k] = p[k]
      /\ \A k \in 1 .. i - 1 : SubSeq(s, 1, k) = SubSeq(p, 1, k)
      /\ \A k \in 1 .. i : \A m \in Nat \ {0} : Sibling(s, k, m) = Sibling(p, k, m)
  BY <1>1, SiblingFacts
<1> HIDE DEF s
<1>3. ASSUME NEW k \in 1 .. Len(s) - 1 PROVE At(SubSeq(s, 1, k), "Rule")
  <2>1. k \in 1 .. i - 1 /\ k \in 1 .. Len(p) - 1
    BY <1>1, <1>2
  <2>2. SubSeq(s, 1, k) = SubSeq(p, 1, k)
    BY <1>2, <2>1
  <2> QED BY <2>1, <2>2 DEF Reached
<1>4. ASSUME NEW k \in 1 .. Len(s), NEW m \in 1 .. s[k] - 1 PROVE ~BodyOver(Sibling(s, k, m))
  <2>1. s[k] \in Nat \ {0} /\ p[k] \in Nat \ {0} /\ s[k] <= p[k]
    BY <1>1, <1>2, SamePlace
  <2>2. m \in Nat \ {0} /\ m \in 1 .. p[k] - 1 /\ k \in 1 .. Len(p)
    BY <1>1, <1>2, <2>1
  <2>3. Sibling(s, k, m) = Sibling(p, k, m)
    BY <1>2, <2>2
  <2> QED BY <2>2, <2>3 DEF Reached
<1>5. ~BodyOver(s)
  BY <1>1 DEF Reached, s
<1> QED BY <1>2, <1>3, <1>4, <1>5 DEF Reached, s

LEMMA AssignsStands ==
  ASSUME NEW q, Assigns(q)
  PROVE  Stands(q)
BY DEF Assigns, Stands, At

(* What there is in a body is before its end.                              *)
LEMMA BeforeTheEnd ==
  ASSUME NEW p, IsPlace(p), BodyOver(p),
         NEW q, Reached(q), ~BodyOver(q), Len(p) <= Len(q), \A k \in 1 .. Len(p) - 1 : q[k] = p[k]
  PROVE  q[Len(p)] < p[Len(p)]
<1> DEFINE n == Len(p)
<1>1. IsPlace(q) /\ Len(q) \in Nat /\ n \in Nat \ {0} /\ p[n] \in Nat \ {0} /\ q[n] \in Nat \ {0}
  BY SamePlace DEF Reached
<1>2. SUFFICES ASSUME p[n] <= q[n] PROVE FALSE
  BY <1>1
<1>3. Sibling(q, n, p[n]) = Sibling(p, n, p[n]) /\ Sibling(p, n, p[n]) = p
  <2>1. n \in 1 .. Len(p) /\ n \in 1 .. n /\ n <= Len(q)
    BY <1>1
  <2>2. \A k \in 1 .. n : \A j : Sibling(q, k, j) = Sibling(p, k, j)
    BY <1>1, <2>1, SameBodies
  <2> QED BY <2>1, <2>2, SamePlace
<1>4. CASE p[n] < q[n]
  <2>1. p[n] \in 1 .. q[n] - 1 /\ n \in 1 .. Len(q)
    BY <1>1, <1>4
  <2> QED BY <1>3, <2>1 DEF Reached
<1>5. CASE p[n] = q[n]
  <2>1. SubSeq(q, 1, n) = p
    BY <1>1, <1>3, <1>5, SubSeqSibling
  <2>2. CASE Len(q) = n
    <3>1. q = p
      BY <1>1, <2>1, <2>2, SamePlace
    <3> QED BY <3>1
  <2>3. CASE n < Len(q)
    <3>1. At(SubSeq(q, 1, n), "Rule")
      BY <1>1, <2>3 DEF Reached
    <3> QED BY <2>1, <3>1 DEF At
  <2> QED BY <1>1, <2>2, <2>3
<1> QED BY <1>1, <1>2, <1>4, <1>5

-----------------------------------------------------------------------------
(* The steps of a walk.                                                    *)

LEMMA StepBehind ==
  ASSUME NEW p, Reached(p), ~BodyOver(p)
  PROVE  Reached(Behind(p))
<1> DEFINE n == Len(p)
           s == Behind(p)
<1>1. IsPlace(p) /\ n \in Nat \ {0} /\ \A i \in 1 .. n : p[i] \in Nat \ {0}
  BY SamePlace DEF Reached
<1>2. s = Sibling(p, n, p[n] + 1)
  BY <1>1, BehindFacts
<1>3. /\ IsPlace(s) /\ Len(s) = n /\ s[n] = p[n] + 1
      /\ \A k \in 1 .. n - 1 : s[k] = p[k]
      /\ \A k \in 1 .. n - 1 : SubSeq(s, 1, k) = SubSeq(p, 1, k)
      /\ \A k \in 1 .. n : \A m \in Nat \ {0} : Sibling(s, k, m) = Sibling(p, k, m)
  <2>1. n \in 1 .. Len(p) /\ p[n] + 1 \in Nat \ {0}
    BY <1>1
  <2> QED BY <1>1, <1>2, <2>1, SiblingFacts
<1> HIDE DEF s
<1>4. \A k \in 1 .. Len(s) - 1 : At(SubSeq(s, 1, k), "Rule")
  BY <1>3 DEF Reached
<1>5. ASSUME NEW k \in 1 .. Len(s), NEW m \in 1 .. s[k] - 1 PROVE ~BodyOver(Sibling(s, k, m))
  <2>1. m \in Nat \ {0} /\ Sibling(s, k, m) = Sibling(p, k, m)
    BY <1>1, <1>3
  <2>2. CASE m < p[k]
    <3>1. k \in 1 .. Len(p) /\ m \in 1 .. p[k] - 1
      BY <1>1, <1>3, <2>1, <2>2
    <3> QED BY <2>1, <3>1 DEF Reached
  <2>3. CASE k = n /\ m = p[n]
    <3>1. Sibling(p, k, m) = p
      BY <1>1, <2>3, SamePlace
    <3> QED BY <2>1, <3>1
  <2> QED BY <1>1, <1>3, <2>1, <2>2, <2>3
<1> QED BY <1>3, <1>4, <1>5 DEF Reached, s

LEMMA PassedBehind ==
  ASSUME NEW p, Reached(p), ~At(p, "Rule"), NEW q, Stands(q)
  PROVE  Passed(q, Behind(p)) <=> Passed(q, p) \/ q = p
<1> DEFINE n == Len(p)
           s == Behind(p)
<1>1. IsPlace(p) /\ n \in Nat \ {0} /\ \A i \in 1 .. n : p[i] \in Nat \ {0}
  BY SamePlace DEF Reached
<1>2. IsPlace(q) /\ Len(q) \in Nat \ {0} /\ \A i \in 1 .. Len(q) : q[i] \in Nat \ {0}
  BY SamePlace DEF Stands, Reached
<1>3. Len(s) = n /\ s[n] = p[n] + 1 /\ \A k \in 1 .. n - 1 : s[k] = p[k]
  <2>1. n \in 1 .. Len(p) /\ p[n] + 1 \in Nat \ {0}
    BY <1>1
  <2>2. s = Sibling(p, n, p[n] + 1)
    BY <1>1, BehindFacts
  <2> HIDE DEF s
  <2> QED BY <1>1, <2>1, <2>2, SiblingFacts
<1> HIDE DEF s
<1>4. ASSUME Passed(q, p) \/ q = p PROVE Passed(q, s)
  <2>1. CASE q = p
    BY <1>1, <1>2, <1>3, <2>1 DEF Passed
  <2>2. CASE Passed(q, p)
    <3>1. PICK i \in 1 .. n : i <= Len(q) /\ (\A k \in 1 .. i - 1 : q[k] = p[k]) /\ q[i] < p[i]
      BY <2>2 DEF Passed
    <3>2. (\A k \in 1 .. i - 1 : q[k] = s[k]) /\ q[i] < s[i]
      BY <1>1, <1>2, <1>3, <3>1
    <3> QED BY <1>3, <3>1, <3>2 DEF Passed
  <2> QED BY <1>4, <2>1, <2>2
<1>5. ASSUME Passed(q, s) PROVE Passed(q, p) \/ q = p
  <2>1. PICK i \in 1 .. n : i <= Len(q) /\ (\A k \in 1 .. i - 1 : q[k] = s[k]) /\ q[i] < s[i]
    BY <1>3, <1>5 DEF Passed
  <2>2. \A k \in 1 .. i - 1 : q[k] = p[k]
    BY <1>1, <1>3, <2>1
  <2>3. CASE q[i] < p[i]
    BY <2>1, <2>2, <2>3 DEF Passed
  <2>4. CASE i = n /\ q[n] = p[n]
    <3>1. Sibling(q, n, q[n]) = p
      <4>1. n \in 1 .. Len(p) /\ n \in 1 .. n /\ n <= Len(q)
        BY <1>1, <2>1, <2>4
      <4>2. \A k \in 1 .. n : \A j : Sibling(q, k, j) = Sibling(p, k, j)
        BY <1>1, <1>2, <2>2, <2>4, <4>1, SameBodies
      <4> QED BY <1>1, <2>4, <4>1, <4>2, SamePlace
    <3>2. SubSeq(q, 1, n) = p
      BY <1>1, <1>2, <2>1, <2>4, <3>1, SubSeqSibling
    <3>3. Len(q) = n
      <4>1. SUFFICES ASSUME n < Len(q) PROVE FALSE
        BY <1>1, <1>2, <2>1, <2>4
      <4>2. n \in 1 .. Len(q) - 1
        BY <1>1, <1>2, <4>1
      <4> QED BY <3>2, <4>2 DEF Stands, Reached
    <3>4. SubSeq(q, 1, Len(q)) = q
      BY <1>2, SamePlace
    <3> QED BY <3>2, <3>3, <3>4
  <2> QED BY <1>1, <1>2, <1>3, <2>1, <2>3, <2>4
<1> QED BY <1>4, <1>5 DEF s

LEMMA StepInto ==
  ASSUME NEW p, Reached(p), At(p, "Rule")
  PROVE  /\ Reached(IntoBody(p))
         /\ \A q : IsPlace(q) => (Passed(q, IntoBody(p)) <=> Passed(q, p))
<1> DEFINE n == Len(p)
           s == IntoBody(p)
<1>1. IsPlace(p) /\ n \in Nat \ {0} /\ \A i \in 1 .. n : p[i] \in Nat \ {0}
  BY SamePlace DEF Reached
<1>2. /\ IsPlace(s) /\ Len(s) = n + 1 /\ s[n + 1] = 1
      /\ \A k \in 1 .. n : s[k] = p[k]
      /\ \A k \in 1 .. n : SubSeq(s, 1, k) = SubSeq(p, 1, k)
      /\ \A k \in 1 .. n : \A m : Sibling(s, k, m) = Sibling(p, k, m)
  BY <1>1, IntoFacts
<1> HIDE DEF s
<1>3. ASSUME NEW k \in 1 .. Len(s) - 1 PROVE At(SubSeq(s, 1, k), "Rule")
  <2>1. k \in 1 .. n /\ SubSeq(s, 1, k) = SubSeq(p, 1, k)
    BY <1>1, <1>2
  <2>2. CASE k = n
    BY <1>1, <2>1, <2>2, SamePlace
  <2>3. CASE k < n
    <3>1. k \in 1 .. Len(p) - 1
      BY <1>1, <2>1, <2>3
    <3> QED BY <2>1, <3>1 DEF Reached
  <2> QED BY <1>1, <2>1, <2>2, <2>3
<1>4. ASSUME NEW k \in 1 .. Len(s), NEW m \in 1 .. s[k] - 1 PROVE ~BodyOver(Sibling(s, k, m))
  <2>1. k \in 1 .. Len(p) /\ m \in 1 .. p[k] - 1
    BY <1>1, <1>2
  <2> QED BY <1>2, <2>1 DEF Reached
<1>5. Reached(s)
  BY <1>2, <1>3, <1>4 DEF Reached
<1>6. ASSUME NEW q, IsPlace(q) PROVE Passed(q, s) <=> Passed(q, p)
  <2>1. Len(q) \in Nat \ {0} /\ \A i \in 1 .. Len(q) : q[i] \in Nat \ {0}
    BY <1>6, SamePlace
  <2>2. ASSUME Passed(q, s) PROVE Passed(q, p)
    <3>1. PICK i \in 1 .. n + 1 : i <= Len(q) /\ (\A k \in 1 .. i - 1 : q[k] = s[k]) /\ q[i] < s[i]
      BY <1>2, <2>2 DEF Passed
    <3>2. i \in 1 .. n
      BY <1>1, <1>2, <2>1, <3>1
    <3>3. q[i] < p[i] /\ \A k \in 1 .. i - 1 : q[k] = p[k]
      BY <1>1, <1>2, <3>1, <3>2
    <3> QED BY <3>1, <3>2, <3>3 DEF Passed
  <2>3. ASSUME Passed(q, p) PROVE Passed(q, s)
    <3>1. PICK i \in 1 .. n : i <= Len(q) /\ (\A k \in 1 .. i - 1 : q[k] = p[k]) /\ q[i] < p[i]
      BY <2>3 DEF Passed
    <3>2. i \in 1 .. Len(s) /\ q[i] < s[i] /\ \A k \in 1 .. i - 1 : q[k] = s[k]
      BY <1>1, <1>2, <3>1
    <3> QED BY <3>1, <3>2 DEF Passed
  <2> QED BY <2>2, <2>3
<1> QED BY <1>5, <1>6 DEF s

LEMMA StepOut ==
  ASSUME NEW p, Reached(p), Len(p) > 1, BodyOver(p)
  PROVE  /\ Reached(OutOfBody(p))
         /\ \A q : Stands(q) => (Passed(q, OutOfBody(p)) <=> Passed(q, p))
<1> DEFINE n == Len(p) - 1
           s == OutOfBody(p)
           r == SubSeq(p, 1, n)
<1>1. /\ IsPlace(p) /\ n \in Nat \ {0} /\ Len(p) = n + 1 /\ n = Len(p) - 1
      /\ \A i \in 1 .. n + 1 : p[i] \in Nat \ {0}
  BY SamePlace DEF Reached
<1> HIDE DEF n
<1>2. /\ IsPlace(s) /\ Len(s) = n /\ s[n] = p[n] + 1
      /\ \A k \in 1 .. n - 1 : s[k] = p[k]
      /\ \A k \in 1 .. n - 1 : SubSeq(s, 1, k) = SubSeq(p, 1, k)
      /\ \A k \in 1 .. n : \A m \in Nat \ {0} : Sibling(s, k, m) = Sibling(p, k, m)
  <2> DEFINE j == p[n] + 1
  <2>1. n \in 1 .. Len(p) /\ j \in Nat \ {0}
    BY <1>1
  <2>2. s = Sibling(p, n, j)
    BY <1>1, OutFacts
  <2> HIDE DEF s, j
  <2>3. /\ IsPlace(s) /\ Len(s) = n /\ s[n] = j
        /\ \A k \in 1 .. n - 1 : s[k] = p[k]
        /\ \A k \in 1 .. n - 1 : SubSeq(s, 1, k) = SubSeq(p, 1, k)
        /\ \A k \in 1 .. n : \A m \in Nat \ {0} : Sibling(s, k, m) = Sibling(p, k, m)
    <3>1. IsPlace(p)
      BY <1>1
    <3> QED BY <2>1, <2>2, <3>1, SiblingFacts
  <2> QED BY <2>3 DEF j
<1> HIDE DEF s
<1>3. At(r, "Rule") /\ Sibling(p, n, p[n]) = r
  <2>1. n \in 1 .. Len(p) - 1 /\ n \in 1 .. Len(p)
    BY <1>1
  <2> QED BY <1>1, <2>1, SubSeqSibling DEF Reached
<1> HIDE DEF r
<1>4. ASSUME NEW k \in 1 .. Len(s) - 1 PROVE At(SubSeq(s, 1, k), "Rule")
  <2>1. k \in 1 .. n - 1 /\ k \in 1 .. Len(p) - 1
    BY <1>1, <1>2
  <2>2. SubSeq(s, 1, k) = SubSeq(p, 1, k)
    BY <1>2, <2>1
  <2> QED BY <2>1, <2>2 DEF Reached
<1>5. ASSUME NEW k \in 1 .. Len(s), NEW m \in 1 .. s[k] - 1 PROVE ~BodyOver(Sibling(s, k, m))
  <2>1. k \in 1 .. n /\ s[k] \in Nat
    BY <1>1, <1>2
  <2>2. m \in Nat \ {0} /\ Sibling(s, k, m) = Sibling(p, k, m)
    BY <1>2, <2>1
  <2>3. CASE m < p[k]
    <3>1. k \in 1 .. Len(p) /\ m \in 1 .. p[k] - 1
      BY <1>1, <2>1, <2>2, <2>3
    <3> QED BY <2>2, <3>1 DEF Reached
  <2>4. CASE k = n /\ m = p[n]
    <3>1. Sibling(s, k, m) = r
      BY <1>3, <2>2, <2>4
    <3> QED BY <1>3, <3>1 DEF At
  <2> QED BY <1>1, <1>2, <2>1, <2>2, <2>3, <2>4
<1>6. Reached(s)
  BY <1>2, <1>4, <1>5 DEF Reached
<1>7. ASSUME NEW q, Stands(q) PROVE Passed(q, s) <=> Passed(q, p)
  <2>1. IsPlace(q) /\ Len(q) \in Nat \ {0} /\ \A i \in 1 .. Len(q) : q[i] \in Nat \ {0}
    BY <1>7, SamePlace DEF Stands, Reached
  <2>2. ASSUME Passed(q, p) PROVE Passed(q, s)
    <3>1. PICK i \in 1 .. n + 1 : i <= Len(q) /\ (\A k \in 1 .. i - 1 : q[k] = p[k]) /\ q[i] < p[i]
      BY <1>1, <2>2 DEF Passed
    <3>2. CASE i < n
      <4>1. i \in 1 .. Len(s) /\ q[i] < s[i] /\ \A k \in 1 .. i - 1 : q[k] = s[k]
        BY <1>1, <1>2, <3>1, <3>2
      <4> QED BY <3>1, <4>1 DEF Passed
    <3>3. CASE i >= n
      <4>1. n \in 1 .. Len(s) /\ n <= Len(q) /\ q[n] <= p[n]
        BY <1>1, <1>2, <2>1, <3>1, <3>3
      <4>2. q[n] < s[n] /\ \A k \in 1 .. n - 1 : q[k] = s[k]
        BY <1>1, <1>2, <2>1, <3>1, <3>3, <4>1
      <4> QED BY <4>1, <4>2 DEF Passed
    <3> QED BY <1>1, <3>1, <3>2, <3>3
  <2>3. ASSUME Passed(q, s) PROVE Passed(q, p)
    <3>1. PICK i \in 1 .. n : i <= Len(q) /\ (\A k \in 1 .. i - 1 : q[k] = s[k]) /\ q[i] < s[i]
      BY <1>2, <2>3 DEF Passed
    <3>2. i \in 1 .. Len(p) /\ \A k \in 1 .. i - 1 : q[k] = p[k]
      BY <1>1, <1>2, <3>1
    <3>3. CASE q[i] < p[i]
      BY <3>1, <3>2, <3>3 DEF Passed
    <3>4. CASE i = n /\ q[n] = p[n]
      <4>1. \A k \in 1 .. n : q[k] = p[k]
        BY <1>1, <3>2, <3>4
      <4>2. n < Len(q)
        <5>1. SUFFICES ASSUME Len(q) = n PROVE FALSE
          BY <1>1, <2>1, <3>1, <3>4
        <5>2. n \in 1 .. Len(p) /\ n \in 1 .. n /\ n <= Len(q)
          BY <1>1, <5>1
        <5>3. \A j : Sibling(q, n, j) = Sibling(p, n, j)
          BY <1>1, <2>1, <4>1, <5>2, SameBodies
        <5>4. q = r
          BY <1>3, <2>1, <3>4, <5>1, <5>3, SamePlace
        <5> QED BY <1>3, <1>7, <5>4 DEF Stands
      <4>3. q[n + 1] < p[n + 1]
        <5>1. Reached(q) /\ ~BodyOver(q) /\ Len(p) <= Len(q) /\ \A k \in 1 .. Len(p) - 1 : q[k] = p[k]
          BY <1>1, <1>7, <2>1, <4>1, <4>2 DEF Stands
        <5> QED BY <1>1, <5>1, BeforeTheEnd
      <4>4. n + 1 \in 1 .. Len(p) /\ n + 1 <= Len(q) /\ \A k \in 1 .. (n + 1) - 1 : q[k] = p[k]
        BY <1>1, <2>1, <4>1, <4>2
      <4> QED BY <4>3, <4>4 DEF Passed
    <3> QED BY <1>1, <1>2, <2>1, <3>1, <3>3, <3>4
  <2> QED BY <2>2, <2>3
<1> QED BY <1>6, <1>7 DEF s

(* At the end of the file every construct but the rules is passed.         *)
LEMMA AllPassed ==
  ASSUME NEW p, Reached(p), WalkOver(p), NEW q, Stands(q)
  PROVE  Passed(q, p)
<1>1. IsPlace(p) /\ Len(p) = 1 /\ BodyOver(p)
  BY DEF Reached, WalkOver
<1>2. Reached(q) /\ ~BodyOver(q) /\ Len(q) \in Nat \ {0}
  BY SamePlace DEF Stands, Reached
<1>3. q[1] < p[1]
  BY <1>1, <1>2, BeforeTheEnd
<1> QED BY <1>1, <1>2, <1>3 DEF Passed

(* Nothing is passed at the start, and no place passes itself.             *)
LEMMA NothingPassed ==
  ASSUME NEW p, IsPlace(p)
  PROVE  ~Passed(p, p) /\ ~Passed(p, Beginning)
BY SamePlace DEF Passed, Beginning

-----------------------------------------------------------------------------
(* Sequences of whatever values.                                           *)

IsASeq(s) == \E S : s \in Seq(S)

LEMMA SeqFacts ==
  ASSUME NEW s, IsASeq(s)
  PROVE  /\ Len(s) \in Nat /\ DOMAIN s = 1 .. Len(s)
         /\ s # <<>> <=> Len(s) > 0
         /\ Last(s) = s[Len(s)]
BY DEF IsASeq, Last

LEMMA AppendFacts ==
  ASSUME NEW s, IsASeq(s), NEW v
  PROVE  /\ IsASeq(Append(s, v))
         /\ Len(Append(s, v)) = Len(s) + 1
         /\ Append(s, v)[Len(s) + 1] = v
         /\ \A i \in 1 .. Len(s) : Append(s, v)[i] = s[i]
<1>1. PICK S : s \in Seq(S)
  BY DEF IsASeq
<1>2. s \in Seq(S \cup {v})
  BY <1>1
<1>3. Append(s, v) \in Seq(S \cup {v})
  BY <1>2
<1> QED BY <1>2, <1>3 DEF IsASeq

LEMMA FrontFacts ==
  ASSUME NEW s, IsASeq(s), Len(s) > 0
  PROVE  /\ IsASeq(Front(s))
         /\ Len(Front(s)) = Len(s) - 1
         /\ \A i \in 1 .. Len(s) - 1 : Front(s)[i] = s[i]
<1>1. PICK S : s \in Seq(S)
  BY DEF IsASeq
<1>2. Front(s) = SubSeq(s, 1, Len(s) - 1)
  BY DEF Front
<1>3. ASSUME NEW n \in Nat, n <= Len(s)
      PROVE  SubSeq(s, 1, n) \in Seq(S) /\ Len(SubSeq(s, 1, n)) = n /\ \A i \in 1 .. n : SubSeq(s, 1, n)[i] = s[i]
  BY <1>1, <1>3
<1>4. Len(s) - 1 \in Nat /\ Len(s) - 1 <= Len(s)
  BY <1>1
<1> QED BY <1>2, <1>3, <1>4 DEF IsASeq

-----------------------------------------------------------------------------
(* The assignments that a token's value may come from.                     *)

(* The assignment at q is one to the static token n.                       *)
Holds(q, n) ==
  /\ At(q, "Assignment") /\ ConstructAt(q).right # <<>>
  /\ IsStatic(ConstructAt(q).left) /\ ConstructAt(q).left.name = n

(* Those before p in the i-th body that it is in.                          *)
Before(p, i, n) == {j \in 1 .. p[i] - 1 : Holds(Sibling(p, i, j), n)}

LastBefore(p, i, n) == Sibling(p, i, Max(Before(p, i, n)))

(* The bodies around p with such an assignment before p.                   *)
Having(p, n) == {i \in 1 .. Len(p) : Before(p, i, n) # {}}

LEMMA SameBefore ==
  ASSUME NEW p, IsPlace(p), NEW s, IsPlace(s), NEW i \in 1 .. Len(p), i <= Len(s), s[i] = p[i],
         \A k \in 1 .. i - 1 : s[k] = p[k]
  PROVE  \A n : Before(s, i, n) = Before(p, i, n) /\ LastBefore(s, i, n) = LastBefore(p, i, n)
<1>1. i \in 1 .. i /\ Len(p) \in Nat
  BY SamePlace
<1>2. \A j : Sibling(s, i, j) = Sibling(p, i, j)
  BY <1>1, SameBodies
<1> QED BY <1>2 DEF Before, LastBefore

LEMMA BeforeBehind ==
  ASSUME NEW p, Reached(p)
  PROVE  LET s == Behind(p)
             m == Len(p)
         IN  /\ \A i \in 1 .. m - 1 : \A n :
                  Before(s, i, n) = Before(p, i, n) /\ LastBefore(s, i, n) = LastBefore(p, i, n)
             /\ \A n : ~Holds(p, n) =>
                  Before(s, m, n) = Before(p, m, n) /\ LastBefore(s, m, n) = LastBefore(p, m, n)
             /\ \A n : Holds(p, n) => Before(s, m, n) # {} /\ LastBefore(s, m, n) = p
<1> DEFINE s == Behind(p)
           m == Len(p)
<1>1. IsPlace(p) /\ m \in Nat \ {0} /\ \A i \in 1 .. m : p[i] \in Nat \ {0}
  BY SamePlace DEF Reached
<1>2. IsPlace(s) /\ Len(s) = m /\ s[m] = p[m] + 1 /\ \A k \in 1 .. m - 1 : s[k] = p[k]
  <2>1. m \in 1 .. Len(p) /\ p[m] + 1 \in Nat \ {0}
    BY <1>1
  <2>2. s = Sibling(p, m, p[m] + 1)
    BY <1>1, BehindFacts
  <2> HIDE DEF s
  <2> QED BY <1>1, <2>1, <2>2, SiblingFacts
<1> HIDE DEF s
<1>3. ASSUME NEW i \in 1 .. m - 1
      PROVE  \A n : Before(s, i, n) = Before(p, i, n) /\ LastBefore(s, i, n) = LastBefore(p, i, n)
  <2>1. i \in 1 .. Len(p) /\ i <= Len(s) /\ s[i] = p[i] /\ \A k \in 1 .. i - 1 : s[k] = p[k]
    BY <1>1, <1>2
  <2> QED BY <1>1, <1>2, <2>1, SameBefore
<1>4. \A j : Sibling(s, m, j) = Sibling(p, m, j)
  <2>1. m \in 1 .. Len(p) /\ m \in 1 .. m /\ m <= Len(s)
    BY <1>1, <1>2
  <2> QED BY <1>1, <1>2, <2>1, SameBodies
<1>5. Sibling(s, m, p[m]) = p
  BY <1>1, <1>4, SamePlace
<1>6. ASSUME NEW n, ~Holds(p, n)
      PROVE  Before(s, m, n) = Before(p, m, n) /\ LastBefore(s, m, n) = LastBefore(p, m, n)
  <2>1. ASSUME NEW j \in Nat PROVE j \in Before(s, m, n) <=> j \in Before(p, m, n)
    <3>1. CASE j = p[m]
      <4>1. ~Holds(Sibling(s, m, j), n)
        BY <1>5, <1>6, <3>1
      <4> QED BY <1>1, <3>1, <4>1 DEF Before
    <3>2. CASE j # p[m]
      BY <1>1, <1>2, <1>4, <3>2 DEF Before
    <3> QED BY <3>1, <3>2
  <2>2. Before(s, m, n) \subseteq Nat /\ Before(p, m, n) \subseteq Nat
    BY DEF Before
  <2>3. Before(s, m, n) = Before(p, m, n)
    BY <2>1, <2>2
  <2> QED BY <1>4, <2>3 DEF LastBefore
<1>7. ASSUME NEW n, Holds(p, n) PROVE Before(s, m, n) # {} /\ LastBefore(s, m, n) = p
  <2>1. p[m] \in Before(s, m, n)
    BY <1>1, <1>2, <1>5, <1>7 DEF Before
  <2>2. Before(s, m, n) \in SUBSET (1 .. p[m])
    BY <1>1, <1>2 DEF Before
  <2>3. Max(Before(s, m, n)) \in 1 .. p[m] /\ p[m] <= Max(Before(s, m, n))
    <3> DEFINE B == Before(s, m, n)
               last == p[m]
    <3>1. last \in Nat /\ last \in B /\ B \in SUBSET (1 .. last)
      BY <1>1, <2>1, <2>2
    <3> HIDE DEF B, last
    <3>2. Max(B) \in B /\ \A k \in B : k <= Max(B)
      BY <3>1, MaxFacts
    <3>3. Max(B) \in 1 .. last /\ last <= Max(B)
      BY <3>1, <3>2
    <3> QED BY <3>3 DEF B, last
  <2>4. Max(Before(s, m, n)) = p[m]
    BY <1>1, <2>3
  <2> QED BY <1>5, <2>1, <2>4 DEF LastBefore
<1> QED BY <1>3, <1>6, <1>7 DEF s

LEMMA BeforeInto ==
  ASSUME NEW p, Reached(p)
  PROVE  LET s == IntoBody(p)
         IN  /\ \A i \in 1 .. Len(p) : \A n :
                  Before(s, i, n) = Before(p, i, n) /\ LastBefore(s, i, n) = LastBefore(p, i, n)
             /\ \A n : Before(s, Len(p) + 1, n) = {}
<1> DEFINE s == IntoBody(p)
<1>1. IsPlace(p) /\ Len(p) \in Nat
  BY SamePlace DEF Reached
<1>2. IsPlace(s) /\ Len(s) = Len(p) + 1 /\ s[Len(p) + 1] = 1 /\ \A k \in 1 .. Len(p) : s[k] = p[k]
  BY <1>1, IntoFacts
<1> HIDE DEF s
<1>3. ASSUME NEW i \in 1 .. Len(p)
      PROVE  \A n : Before(s, i, n) = Before(p, i, n) /\ LastBefore(s, i, n) = LastBefore(p, i, n)
  <2>1. i <= Len(s) /\ s[i] = p[i] /\ \A k \in 1 .. i - 1 : s[k] = p[k]
    BY <1>1, <1>2
  <2> QED BY <1>1, <1>2, <2>1, SameBefore
<1>4. \A n : Before(s, Len(p) + 1, n) = {}
  BY <1>2 DEF Before
<1> QED BY <1>3, <1>4 DEF s

(* A rule that is left assigns nothing.                                    *)
LEMMA BeforeOut ==
  ASSUME NEW p, Reached(p), Len(p) > 1
  PROVE  \A i \in 1 .. Len(p) - 1 : \A n :
           /\ Before(OutOfBody(p), i, n) = Before(p, i, n)
           /\ LastBefore(OutOfBody(p), i, n) = LastBefore(p, i, n)
<1> DEFINE r == Front(p)
           m == Len(p) - 1
<1>1. IsPlace(p) /\ m \in Nat \ {0} /\ Len(p) = m + 1 /\ m = Len(p) - 1
  BY SamePlace DEF Reached
<1> HIDE DEF m
<1>2. r = SubSeq(p, 1, m) /\ r = Sibling(p, m, p[m]) /\ p[m] \in Nat \ {0}
  <2>1. r = SubSeq(p, 1, m)
    BY <1>1 DEF Front
  <2>2. m \in 1 .. Len(p)
    BY <1>1
  <2> HIDE DEF r
  <2> QED BY <1>1, <2>1, <2>2, SubSeqSibling, SamePlace
<1>3. IsPlace(r) /\ Len(r) = m /\ r[m] = p[m] /\ \A k \in 1 .. m - 1 : r[k] = p[k]
  <2> DEFINE j == p[m]
  <2>1. m \in 1 .. Len(p) /\ j \in Nat \ {0} /\ r = Sibling(p, m, j)
    BY <1>1, <1>2
  <2>2. IsPlace(p)
    BY <1>1
  <2> HIDE DEF r, j
  <2>3. IsPlace(r) /\ Len(r) = m /\ r[m] = j /\ \A k \in 1 .. m - 1 : r[k] = p[k]
    BY <2>1, <2>2, SiblingFacts
  <2> QED BY <2>3 DEF j
<1>4. Reached(r) /\ At(r, "Rule")
  <2>1. At(r, "Rule")
    BY <1>1, <1>2 DEF Reached
  <2> HIDE DEF r
  <2>2. \A i \in 1 .. m : r[i] = p[i]
    BY <1>1, <1>3
  <2>3. ASSUME NEW i \in 1 .. m PROVE SubSeq(r, 1, i) = SubSeq(p, 1, i)
    BY <1>1, <1>3, <2>2 DEF IsPlace
  <2>4. ASSUME NEW i \in 1 .. m PROVE \A j : Sibling(r, i, j) = Sibling(p, i, j)
    <3>1. i \in 1 .. Len(p) /\ i <= Len(r) /\ i \in 1 .. i /\ \A k \in 1 .. i - 1 : r[k] = p[k]
      BY <1>1, <1>3, <2>2
    <3> QED BY <1>1, <1>3, <3>1, SameBodies
  <2>5. ASSUME NEW i \in 1 .. Len(r) - 1 PROVE At(SubSeq(r, 1, i), "Rule")
    <3>1. i \in 1 .. m /\ i \in 1 .. Len(p) - 1
      BY <1>1, <1>3
    <3> QED BY <2>3, <3>1 DEF Reached
  <2>6. \A i \in 1 .. Len(r) : \A j \in 1 .. r[i] - 1 : ~BodyOver(Sibling(r, i, j))
    BY <1>1, <1>3, <2>2, <2>4 DEF Reached
  <2> QED BY <1>3, <2>1, <2>5, <2>6 DEF Reached
<1>5. \A n : ~Holds(r, n)
  BY <1>4 DEF Holds, At
<1>6. ASSUME NEW i \in 1 .. m
      PROVE  \A n : Before(Behind(r), i, n) = Before(r, i, n) /\ LastBefore(Behind(r), i, n) = LastBefore(r, i, n)
  <2> HIDE DEF r
  <2>1. CASE i = m
    BY <1>3, <1>4, <1>5, <2>1, BeforeBehind
  <2>2. CASE i \in 1 .. m - 1
    BY <1>3, <1>4, <2>2, BeforeBehind
  <2> QED BY <1>1, <2>1, <2>2
<1>7. ASSUME NEW i \in 1 .. m
      PROVE  \A n : Before(r, i, n) = Before(p, i, n) /\ LastBefore(r, i, n) = LastBefore(p, i, n)
  <2> HIDE DEF r
  <2>1. i \in 1 .. Len(p) /\ i <= Len(r) /\ r[i] = p[i] /\ \A k \in 1 .. i - 1 : r[k] = p[k]
    BY <1>1, <1>3
  <2> QED BY <1>1, <1>3, <2>1, SameBefore
<1>8. OutOfBody(p) = Behind(r)
  BY DEF OutOfBody
<1> HIDE DEF r
<1> QED BY <1>1, <1>6, <1>7, <1>8

(* The assignment that has the last word is one of those before.           *)
LEMMA LastBeforeFacts ==
  ASSUME NEW p, Reached(p), NEW i \in 1 .. Len(p), NEW n, Before(p, i, n) # {}
  PROVE  /\ Assigns(LastBefore(p, i, n))
         /\ Holds(LastBefore(p, i, n), n)
         /\ \E j \in 1 .. p[i] - 1 : LastBefore(p, i, n) = Sibling(p, i, j)
<1>1. IsPlace(p) /\ p[i] \in Nat \ {0}
  BY SamePlace DEF Reached
<1> DEFINE B == Before(p, i, n)
           m == p[i] - 1
<1>2. m \in Nat /\ B \in SUBSET (1 .. m) /\ B # {}
  BY <1>1 DEF Before
<1>3. Max(B) \in B
  <2> HIDE DEF B, m
  <2> QED BY <1>2, MaxFacts
<1>4. Max(B) \in 1 .. p[i] - 1 /\ Holds(Sibling(p, i, Max(B)), n)
  BY <1>3 DEF Before
<1>5. LastBefore(p, i, n) = Sibling(p, i, Max(B))
  BY DEF LastBefore
<1> HIDE DEF B, m
<1>6. Reached(Sibling(p, i, Max(B)))
  BY <1>4, SiblingReached
<1> QED BY <1>4, <1>5, <1>6 DEF Assigns, Holds

LEMMA SiblingPassed ==
  ASSUME NEW p, Reached(p), NEW i \in 1 .. Len(p), NEW j \in 1 .. p[i] - 1
  PROVE  Passed(Sibling(p, i, j), p)
<1>1. IsPlace(p) /\ p[i] \in Nat \ {0} /\ j \in Nat \ {0} /\ i \in Nat /\ Len(p) \in Nat
  BY SamePlace DEF Reached
<1> DEFINE s == Sibling(p, i, j)
<1>2. Len(s) = i /\ s[i] = j /\ \A k \in 1 .. i - 1 : s[k] = p[k]
  BY <1>1, SiblingFacts
<1> HIDE DEF s
<1>3. i <= Len(s) /\ s[i] < p[i]
  BY <1>1, <1>2
<1> QED BY <1>2, <1>3 DEF Passed, s

(* What is before a place that is passed is passed.                        *)
LEMMA PassedBefore ==
  ASSUME NEW p, IsPlace(p), NEW q, Reached(q), Passed(q, p), NEW i \in 1 .. Len(q), NEW j \in 1 .. q[i] - 1
  PROVE  Passed(Sibling(q, i, j), p)
<1>1. /\ IsPlace(q) /\ j \in Nat \ {0} /\ i \in Nat /\ Len(q) \in Nat /\ Len(p) \in Nat
      /\ (\A k \in 1 .. Len(q) : q[k] \in Nat \ {0}) /\ (\A k \in 1 .. Len(p) : p[k] \in Nat \ {0})
  BY SamePlace DEF Reached
<1> DEFINE s == Sibling(q, i, j)
<1>2. Len(s) = i /\ s[i] = j /\ \A k \in 1 .. i - 1 : s[k] = q[k]
  BY <1>1, SiblingFacts
<1> HIDE DEF s
<1>3. PICK d \in 1 .. Len(p) : d <= Len(q) /\ (\A k \in 1 .. d - 1 : q[k] = p[k]) /\ q[d] < p[d]
  BY DEF Passed
<1>4. CASE i < d
  <2>1. i \in 1 .. Len(p) /\ i <= Len(s) /\ s[i] < p[i] /\ \A k \in 1 .. i - 1 : s[k] = p[k]
    BY <1>1, <1>2, <1>3, <1>4
  <2> QED BY <2>1 DEF Passed, s
<1>5. CASE d <= i
  <2>1. s[d] < p[d]
    BY <1>1, <1>2, <1>3, <1>5
  <2>2. d <= Len(s) /\ \A k \in 1 .. d - 1 : s[k] = p[k]
    BY <1>1, <1>2, <1>3, <1>5
  <2> QED BY <2>1, <2>2 DEF Passed, s
<1> QED BY <1>1, <1>3, <1>4, <1>5

-----------------------------------------------------------------------------
(* The classes at a place.                                                 *)

Selecting(p) == {i \in 1 .. Len(p) - 1 : ConstructAt(SubSeq(p, 1, i)).selects # <<>>}

LEMMA ClassesAre ==
  ASSUME NEW p
  PROVE  ClassesAt(p) = IF Selecting(p) = {} THEN <<>>
                        ELSE ConstructAt(SubSeq(p, 1, Max(Selecting(p)))).selects[1]
BY DEF ClassesAt, Selecting

LEMMA SameClasses ==
  ASSUME NEW p, IsPlace(p), NEW s, IsPlace(s), Len(s) = Len(p),
         \A i \in 1 .. Len(p) - 1 : SubSeq(s, 1, i) = SubSeq(p, 1, i)
  PROVE  ClassesAt(s) = ClassesAt(p)
<1>1. Selecting(s) = Selecting(p)
  BY DEF Selecting
<1>2. CASE Selecting(p) = {}
  BY <1>1, <1>2, ClassesAre
<1>3. CASE Selecting(p) # {}
  <2> DEFINE S == Selecting(p)
             m == Len(p) - 1
  <2>1. m \in Nat /\ S \in SUBSET (1 .. m) /\ S # {}
    BY <1>3, SamePlace DEF Selecting
  <2> HIDE DEF S, m
  <2>2. Max(S) \in S
    BY <2>1, MaxFacts
  <2>3. SubSeq(s, 1, Max(S)) = SubSeq(p, 1, Max(S))
    BY <2>1, <2>2 DEF m
  <2> QED BY <1>1, <2>3, ClassesAre DEF S
<1> QED BY <1>2, <1>3

LEMMA ClassesInto ==
  ASSUME NEW p, IsPlace(p)
  PROVE  ClassesAt(IntoBody(p)) =
           IF ConstructAt(p).selects = <<>> THEN ClassesAt(p) ELSE ConstructAt(p).selects[1]
<1> DEFINE s == IntoBody(p)
           m == Len(p)
           S == Selecting(p)
           T == Selecting(s)
<1>1. m \in Nat \ {0} /\ SubSeq(p, 1, m) = p
  BY SamePlace
<1>2. Len(s) = m + 1 /\ \A k \in 1 .. m : SubSeq(s, 1, k) = SubSeq(p, 1, k)
  BY IntoFacts
<1> HIDE DEF s, m
<1>3. S \in SUBSET (1 .. m) /\ T \in SUBSET (1 .. m)
  <2>1. Len(p) - 1 \in Nat /\ Len(p) - 1 <= m /\ Len(s) - 1 = m
    BY <1>1, <1>2 DEF m
  <2> QED BY <1>1, <2>1 DEF Selecting
<1>4. ASSUME NEW i \in 1 .. m PROVE i \in T <=> ConstructAt(SubSeq(p, 1, i)).selects # <<>>
  <2>1. i \in 1 .. Len(s) - 1
    BY <1>1, <1>2
  <2> QED BY <1>2, <2>1 DEF Selecting
<1>5. ASSUME NEW i \in 1 .. m PROVE i \in S <=> i # m /\ ConstructAt(SubSeq(p, 1, i)).selects # <<>>
  <2>1. m = Len(p)
    BY DEF m
  <2>2. m \in Nat
    BY <1>1
  <2>3. (i # m => i \in 1 .. m - 1) /\ (i = m => i \notin 1 .. m - 1)
    BY <2>2
  <2> QED BY <2>1, <2>3 DEF Selecting
<1> HIDE DEF S, T
<1>6. CASE ConstructAt(p).selects = <<>>
  <2>1. T = S
    <3>1. \A i \in 1 .. m : i \in T <=> i \in S
      BY <1>1, <1>4, <1>5, <1>6
    <3> QED BY <1>3, <3>1
  <2>2. CASE S = {}
    BY <2>1, <2>2, <1>6, ClassesAre DEF S, T, s
  <2>3. CASE S # {}
    <3>1. Max(S) \in 1 .. m
      BY <1>1, <1>3, <2>3, MaxFacts
    <3> QED BY <1>2, <1>6, <2>1, <2>3, <3>1, ClassesAre DEF S, T, s
  <2> QED BY <2>2, <2>3
<1>7. CASE ConstructAt(p).selects # <<>>
  <2>1. m \in T /\ T \in SUBSET (1 .. m)
    <3>1. m \in 1 .. m
      BY <1>1
    <3>2. m \in T
      BY <1>1, <1>4, <1>7, <3>1
    <3> QED BY <1>3, <3>2
  <2>2. Max(T) \in 1 .. m /\ m <= Max(T)
    BY <1>1, <2>1, MaxFacts
  <2>3. Max(T) = m
    BY <1>1, <2>2
  <2>4. SubSeq(s, 1, Max(T)) = p
    BY <1>1, <1>2, <2>3
  <2> QED BY <1>7, <2>1, <2>4, ClassesAre DEF T, s
<1> QED BY <1>6, <1>7

-----------------------------------------------------------------------------
(* The file stays the same.                                                *)

LEMMA FileFixed ==
  ASSUME code' = code
  PROVE  /\ \A q : BodyOver(q)' = BodyOver(q) /\ ConstructAt(q)' = ConstructAt(q) /\ RightOf(q)' = RightOf(q)
         /\ \A q, kind : At(q, kind)' = At(q, kind)
         /\ \A q : Reached(q)' = Reached(q)
         /\ \A q : Assigns(q)' = Assigns(q)
         /\ \A q, n : Holds(q, n)' = Holds(q, n)
         /\ \A p, i, n : Before(p, i, n)' = Before(p, i, n) /\ LastBefore(p, i, n)' = LastBefore(p, i, n)
         /\ \A p, n : Having(p, n)' = Having(p, n)
         /\ \A p : ClassesAt(p)' = ClassesAt(p)
         /\ \A p : WalkOver(p)' = WalkOver(p)
<1>1. \A q : BodyOver(q)' = BodyOver(q)
  BY DEF BodyOver, ContentAround
<1>2. \A q : ConstructAt(q)' = ConstructAt(q)
  BY DEF ConstructAt, ContentAround
<1>3. \A q, kind : At(q, kind)' = At(q, kind)
  BY <1>1, <1>2 DEF At
<1>4. \A q : Reached(q)' = Reached(q)
  BY <1>1, <1>3 DEF Reached
<1>5. \A q : Assigns(q)' = Assigns(q)
  BY <1>2, <1>3, <1>4 DEF Assigns
<1>6. \A q, n : Holds(q, n)' = Holds(q, n)
  BY <1>2, <1>3 DEF Holds
<1>7. \A p, i, n : Before(p, i, n)' = Before(p, i, n)
  BY <1>6 DEF Before
<1>8. \A p, i, n : LastBefore(p, i, n)' = LastBefore(p, i, n)
  BY <1>7 DEF LastBefore
<1>9. \A p, n : Having(p, n)' = Having(p, n)
  BY <1>7 DEF Having
<1>10. \A p : Selecting(p)' = Selecting(p)
  BY <1>2 DEF Selecting
<1>11. \A p : ClassesAt(p)' = ClassesAt(p)
  <2>1. \A p : (ClassesAt(p) = IF Selecting(p) = {} THEN <<>>
                              ELSE ConstructAt(SubSeq(p, 1, Max(Selecting(p)))).selects[1])'
    BY DEF ClassesAt, Selecting
  <2> QED BY <1>2, <1>10, <2>1, ClassesAre
<1>12. \A q : RightOf(q)' = RightOf(q)
  BY <1>2 DEF RightOf
<1>13. \A p : WalkOver(p)' = WalkOver(p)
  BY <1>1 DEF WalkOver
<1> QED BY <1>1, <1>2, <1>3, <1>4, <1>5, <1>6, <1>7, <1>8, <1>9, <1>11, <1>12, <1>13

-----------------------------------------------------------------------------
(* The typechecker's walk.                                                 *)

(* What a static token stands for at p: the last assignment before p in    *)
(* the innermost body around that has one.                                 *)
Visible(p, n) ==
  IF Having(p, n) = {} THEN None ELSE resolved[LastBefore(p, Max(Having(p, n)), n)]

(* The tokens of c, as they are at q.                                      *)
LookupOf(c, q) ==
  [static  |-> [n \in TokensIn(c, "StaticToken") |-> Visible(q, n)],
   dynamic |-> [n \in TokensIn(c, "Token") |-> None]]

LookupAt(q) == LookupOf(RightOf(q), q)

EvaluatedAt(q) ==
  IF EnumRefErrors(ConstructAt(q).left.name, RightOf(q)) = {}
  THEN Evaluated(ConstructAt(q).left, RightOf(q), LookupAt(q)) ELSE <<>>

ResolvedAt(q) == ResolvedType(ConstructAt(q).left, EvaluatedAt(q))

PlaceInv ==
  /\ Reached(place)
  /\ \A q : q \in DOMAIN resolved <=> Assigns(q) /\ Passed(q, place)

(* Each scope has the tokens assigned to so far in its body.               *)
ScopesInv ==
  /\ IsASeq(scopes) /\ Len(scopes) = Len(place)
  /\ \A i \in 1 .. Len(place) : \A n :
       /\ n \in DOMAIN scopes[i] <=> Before(place, i, n) # {}
       /\ Before(place, i, n) # {} => scopes[i][n] = resolved[LastBefore(place, i, n)]

(* What was resolved then is what would be resolved now.                   *)
ResolvedInv == \A q \in DOMAIN resolved : resolved[q] = ResolvedAt(q)

ClassesInv ==
  /\ IsASeq(classes) /\ Len(classes) = Len(place) - 1
  /\ \A i \in 1 .. Len(place) - 1 : classes[i] = ClassesAt(SubSeq(place, 1, i + 1))

CheckedWell(q) ==
  /\ EnumRefErrors(ConstructAt(q).left.name, RightOf(q)) = {}
  /\ ConstructAt(q).left.kind = "Property" =>
       Len(q) > 1 /\ CheckProperty(ConstructAt(q).left.name, resolved[q], ClassesAt(q)) = {}

ErrorsInv == errors = {} => \A q \in DOMAIN resolved : CheckedWell(q)

CheckInv == PlaceInv /\ ScopesInv /\ ResolvedInv /\ ClassesInv /\ ErrorsInv

-----------------------------------------------------------------------------
(* The compiler's walk.                                                    *)

(* The static tokens that have the same value on both sides.               *)
Known == UNION {names \in SUBSET TokenNames : Settled(names)}

(* The nodes from the root to the current one, one for each body around.   *)
Chain(chain) ==
  /\ \A i \in 1 .. Len(cursor) : chain[i] \in DOMAIN nodes
  /\ chain[1] = Root
  /\ chain[Len(cursor)] = current
  /\ \A i \in 1 .. Len(cursor) : i # 1 => nodes[chain[i]].parent = chain[i - 1]
  /\ \A i \in 1 .. Len(cursor) : \A j \in 1 .. i - 1 : chain[j] < chain[i]
  /\ \A i \in 1 .. Len(cursor) : \A n \in Known :
       /\ n \in DOMAIN nodes[chain[i]].statics <=> Before(cursor, i, n) # {}
       /\ Before(cursor, i, n) # {} => nodes[chain[i]].statics[n] = resolved[LastBefore(cursor, i, n)]

NodesInv ==
  /\ IsASeq(nodes) /\ current \in DOMAIN nodes
  /\ \A n \in DOMAIN nodes :
       /\ DOMAIN nodes[n] = {"parent", "properties", "attributes", "statics", "tweens", "priority"}
       /\ n # Root => nodes[n].parent \in 1 .. n - 1

(* What has a value has it stored, and what a property has stored is what  *)
(* was resolved.                                                           *)
StoredAsResolved(q) ==
  /\ /\ resolved[q].type \notin {"None", "IncompleteEnumShorthand"}
     /\ ConstructAt(q).left.kind = "Property" => Len(q) > 1
     => q \in DOMAIN stored /\ stored[q] = resolved[q]
  /\ /\ q \in DOMAIN stored
     /\ ConstructAt(q).left.kind = "Property"
     /\ EnumRefErrors(ConstructAt(q).left.name, RightOf(q)) = {}
     => stored[q] = resolved[q]

StoredInv ==
  /\ \A q \in DOMAIN stored : Assigns(q) => Passed(q, cursor)
  /\ \A q : Assigns(q) /\ Passed(q, cursor) /\ MadeOf(RightOf(q), Known) => StoredAsResolved(q)

CompileInv ==
  /\ Reached(cursor)
  /\ NodesInv
  /\ \E chain : Chain(chain)
  /\ StoredInv

Inv ==
  /\ CheckInv
  /\ phase = "check" => CompileInit
  /\ phase # "check" => WalkOver(place) /\ CompileInv
  /\ phase = "done" => WalkOver(cursor)

-----------------------------------------------------------------------------
(* The typechecker's invariant is inductive.                               *)

LEMMA HavingFacts ==
  ASSUME NEW p, Reached(p), NEW n, Having(p, n) # {}
  PROVE  /\ Max(Having(p, n)) \in 1 .. Len(p)
         /\ Before(p, Max(Having(p, n)), n) # {}
<1> DEFINE H == Having(p, n)
           m == Len(p)
<1>1. m \in Nat /\ H \in SUBSET (1 .. m) /\ H # {}
  BY SamePlace DEF Having, Reached
<1> HIDE DEF H, m
<1>2. Max(H) \in H
  BY <1>1, MaxFacts
<1> QED BY <1>2 DEF H, Having

(* The scopes have what is visible.                                        *)
LEMMA ScopesAgree ==
  ASSUME PlaceInv, ScopesInv, NEW n
  PROVE  ResolveStatic(n) = Visible(place, n)
<1>1. Reached(place) /\ DOMAIN scopes = 1 .. Len(place)
  BY SeqFacts DEF PlaceInv, ScopesInv
<1>2. {i \in DOMAIN scopes : n \in DOMAIN scopes[i]} = Having(place, n)
  BY <1>1 DEF Having, ScopesInv
<1>3. CASE Having(place, n) = {}
  BY <1>2, <1>3 DEF ResolveStatic, Visible
<1>4. CASE Having(place, n) # {}
  <2>1. /\ Max(Having(place, n)) \in 1 .. Len(place)
        /\ Before(place, Max(Having(place, n)), n) # {}
    BY <1>1, <1>4, HavingFacts
  <2>2. scopes[Max(Having(place, n))][n] = resolved[LastBefore(place, Max(Having(place, n)), n)]
    BY <2>1 DEF ScopesInv
  <2> QED BY <1>2, <1>4, <2>2 DEF ResolveStatic, Visible
<1> QED BY <1>3, <1>4

LEMMA CheckedAsVisible ==
  ASSUME PlaceInv, ScopesInv, NEW c
  PROVE  CheckerLookup(c) = LookupOf(c, place)
<1>1. ASSUME NEW n \in TokensIn(c, "StaticToken") PROVE ResolveStatic(n) = Visible(place, n)
  BY ScopesAgree
<1> QED BY <1>1 DEF CheckerLookup, LookupOf

(* What was resolved stays, and so does what follows from it.              *)
LEMMA VisibleStays ==
  ASSUME PlaceInv, code' = code, \A x \in DOMAIN resolved : resolved'[x] = resolved[x],
         NEW q, Reached(q), Passed(q, place) \/ q = place, NEW n
  PROVE  Visible(q, n)' = Visible(q, n)
<1>1. Having(q, n)' = Having(q, n) /\ \A i : LastBefore(q, i, n)' = LastBefore(q, i, n)
  BY FileFixed
<1>2. CASE Having(q, n) = {}
  BY <1>1, <1>2 DEF Visible
<1>3. CASE Having(q, n) # {}
  <2> DEFINE m == Max(Having(q, n))
             x == LastBefore(q, m, n)
  <2>1. m \in 1 .. Len(q) /\ Before(q, m, n) # {}
    BY <1>3, HavingFacts
  <2>2. Assigns(x) /\ \E j \in 1 .. q[m] - 1 : x = Sibling(q, m, j)
    BY <2>1, LastBeforeFacts
  <2>3. Passed(x, place)
    <3>1. PICK j \in 1 .. q[m] - 1 : x = Sibling(q, m, j)
      BY <2>2
    <3>2. Passed(q, place) => Passed(Sibling(q, m, j), place)
      BY <2>1, PassedBefore DEF PlaceInv, Reached
    <3>3. Passed(Sibling(q, m, j), q)
      BY <2>1, SiblingPassed
    <3> QED BY <3>1, <3>2, <3>3
  <2>4. resolved'[x] = resolved[x]
    BY <2>2, <2>3 DEF PlaceInv
  <2> QED BY <1>1, <1>3, <2>4 DEF Visible
<1> QED BY <1>2, <1>3

LEMMA LookupStays ==
  ASSUME PlaceInv, code' = code, \A x \in DOMAIN resolved : resolved'[x] = resolved[x],
         NEW q, Reached(q), Passed(q, place) \/ q = place, NEW c
  PROVE  LookupOf(c, q)' = LookupOf(c, q)
<1>1. \A n : Visible(q, n)' = Visible(q, n)
  BY VisibleStays
<1> QED BY <1>1 DEF LookupOf

LEMMA ResolvedStays ==
  ASSUME PlaceInv, code' = code, \A x \in DOMAIN resolved : resolved'[x] = resolved[x],
         NEW q, Reached(q), Passed(q, place) \/ q = place
  PROVE  ResolvedAt(q)' = ResolvedAt(q)
<1>2. RightOf(q)' = RightOf(q) /\ ConstructAt(q)' = ConstructAt(q)
  BY FileFixed
<1>3. LookupAt(q)' = LookupAt(q)
  <2>1. \A n : Visible(q, n)' = Visible(q, n)
    BY VisibleStays
  <2> QED BY <1>2, <2>1 DEF LookupAt, LookupOf
<1>4. EvaluatedAt(q)' = EvaluatedAt(q)
  BY <1>2, <1>3 DEF EvaluatedAt
<1> QED BY <1>2, <1>4 DEF ResolvedAt

LEMMA CheckFixed ==
  ASSUME strict' = strict
  PROVE  \A property, value, ofClasses :
           CheckProperty(property, value, ofClasses)' = CheckProperty(property, value, ofClasses)
BY DEF CheckProperty

(* Nothing is resolved in this step.                                       *)
LEMMA ResolvedKept ==
  ASSUME PlaceInv, ResolvedInv, ErrorsInv, UNCHANGED <<code, strict, resolved>>, errors \subseteq errors'
  PROVE  ResolvedInv' /\ ErrorsInv'
<1>1. ASSUME NEW q \in DOMAIN resolved PROVE resolved'[q] = ResolvedAt(q)'
  <2>1. Reached(q) /\ Passed(q, place)
    BY DEF PlaceInv, Assigns
  <2>2. ResolvedAt(q)' = ResolvedAt(q)
    BY <2>1, ResolvedStays
  <2> QED BY <2>2 DEF ResolvedInv
<1>2. ASSUME NEW q PROVE CheckedWell(q)' = CheckedWell(q)
  <2>1. ConstructAt(q)' = ConstructAt(q) /\ RightOf(q)' = RightOf(q) /\ ClassesAt(q)' = ClassesAt(q)
    BY FileFixed
  <2> QED BY <2>1, CheckFixed DEF CheckedWell
<1>3. errors' = {} => errors = {}
  OBVIOUS
<1> QED BY <1>1, <1>2, <1>3 DEF ResolvedInv, ErrorsInv

(* A construct is passed.                                                  *)
LEMMA CheckedBehind ==
  ASSUME PlaceInv, ClassesInv, ~BodyOver(place), ~At(place, "Rule"),
         place' = Behind(place), UNCHANGED <<code, classes>>
  PROVE  Reached(place)' /\ Len(place') = Len(place) /\ ClassesInv'
<1> DEFINE s == Behind(place)
<1>1. Reached(place) /\ Reached(s)
  BY StepBehind DEF PlaceInv
<1>2. Reached(place)'
  BY <1>1, FileFixed
<1>3. /\ IsPlace(place) /\ IsPlace(s) /\ Len(place) \in Nat \ {0} /\ Len(s) = Len(place)
      /\ \A k \in 1 .. Len(place) - 1 : SubSeq(s, 1, k) = SubSeq(place, 1, k)
  <2> DEFINE m == Len(place)
             j == place[m] + 1
  <2>1. IsPlace(place) /\ m \in Nat \ {0} /\ m \in 1 .. Len(place) /\ j \in Nat \ {0}
    BY <1>1, SamePlace DEF Reached
  <2>2. s = Sibling(place, m, j)
    BY <2>1, BehindFacts
  <2> HIDE DEF s, j
  <2> QED BY <2>1, <2>2, SiblingFacts
<1> HIDE DEF s
<1>4. ASSUME NEW i \in 1 .. Len(place) - 1 PROVE ClassesAt(SubSeq(s, 1, i + 1)) = ClassesAt(SubSeq(place, 1, i + 1))
  <2>1. CASE i + 1 \in 1 .. Len(place) - 1
    BY <1>3, <2>1
  <2>2. CASE i + 1 = Len(place)
    <3>1. SubSeq(s, 1, i + 1) = s /\ SubSeq(place, 1, i + 1) = place
      BY <1>3, <2>2, SamePlace
    <3> QED BY <1>3, <3>1, SameClasses
  <2> QED BY <1>3, <2>1, <2>2
<1>5. \A i \in 1 .. Len(place) - 1 : classes'[i] = ClassesAt(SubSeq(place, 1, i + 1))'
  BY <1>4, FileFixed DEF ClassesInv, s
<1> QED BY <1>2, <1>3, <1>5 DEF ClassesInv, s

(* One that assigns nothing.                                               *)
LEMMA NothingAssigned ==
  ASSUME CheckInv, ~BodyOver(place), ~At(place, "Rule"), ~Assigns(place),
         place' = Behind(place), UNCHANGED <<code, strict, scopes, classes, resolved>>, errors \subseteq errors'
  PROVE  CheckInv'
<1>1. PlaceInv /\ ScopesInv /\ ResolvedInv /\ ClassesInv /\ ErrorsInv /\ Reached(place)
  BY DEF CheckInv, PlaceInv
<1>2. Reached(place)' /\ Len(place') = Len(place) /\ ClassesInv'
  BY <1>1, CheckedBehind
<1>3. ASSUME NEW q PROVE q \in DOMAIN resolved' <=> Assigns(q)' /\ Passed(q, place')
  <2>1. Assigns(q)' = Assigns(q)
    BY FileFixed
  <2>2. Assigns(q) => (Passed(q, place') <=> Passed(q, place) \/ q = place)
    BY <1>1, PassedBehind, AssignsStands
  <2> QED BY <1>1, <2>1, <2>2 DEF PlaceInv
<1>4. PlaceInv'
  BY <1>2, <1>3 DEF PlaceInv
<1>5. \A n : ~Holds(place, n)
  BY <1>1 DEF Assigns, Holds
<1>6. ASSUME NEW i \in 1 .. Len(place), NEW n
      PROVE  Before(place, i, n)' = Before(place, i, n) /\ LastBefore(place, i, n)' = LastBefore(place, i, n)
  <2>1. Len(place) \in Nat \ {0}
    BY <1>1, SamePlace DEF Reached
  <2>2. Before(place', i, n) = Before(place, i, n) /\ LastBefore(place', i, n) = LastBefore(place, i, n)
    <3>1. CASE i = Len(place)
      BY <1>1, <1>5, <3>1, BeforeBehind
    <3>2. CASE i \in 1 .. Len(place) - 1
      BY <1>1, <3>2, BeforeBehind
    <3> QED BY <2>1, <3>1, <3>2
  <2> QED BY <2>2, FileFixed
<1>7. ScopesInv'
  BY <1>1, <1>2, <1>6 DEF ScopesInv
<1>8. ResolvedInv' /\ ErrorsInv'
  BY <1>1, ResolvedKept
<1> QED BY <1>2, <1>4, <1>7, <1>8 DEF CheckInv

LEMMA ClassesHere ==
  ASSUME PlaceInv, ClassesInv
  PROVE  (IF classes = <<>> THEN <<>> ELSE Last(classes)) = ClassesAt(place)
<1> DEFINE m == Len(place)
<1>1. IsPlace(place) /\ m \in Nat \ {0} /\ SubSeq(place, 1, m) = place
  BY SamePlace DEF PlaceInv, Reached
<1>2. Len(classes) = m - 1 /\ (classes # <<>> <=> Len(classes) > 0) /\ Last(classes) = classes[Len(classes)]
  BY SeqFacts DEF ClassesInv
<1>3. CASE m = 1
  <2>1. Selecting(place) = {}
    BY <1>3 DEF Selecting
  <2> QED BY <1>2, <1>3, <2>1, ClassesAre
<1>4. CASE m > 1
  <2>1. m - 1 \in 1 .. Len(place) - 1 /\ (m - 1) + 1 = m
    BY <1>1, <1>4
  <2>2. classes[m - 1] = ClassesAt(SubSeq(place, 1, (m - 1) + 1))
    BY <2>1 DEF ClassesInv
  <2>3. classes # <<>>
    BY <1>1, <1>2, <1>4
  <2> QED BY <1>1, <1>2, <2>1, <2>2, <2>3
<1> QED BY <1>1, <1>3, <1>4

(* What the step does with an assignment.                                  *)
LEMMA AssignmentChecked ==
  ASSUME CheckInv, CheckAssignment, Assigns(place)
  PROVE  LET left == ConstructAt(place).left
             value == ResolvedAt(place)
         IN  /\ resolved' = Inserted(resolved, place, value)
             /\ scopes' = IF IsStatic(left)
                          THEN [scopes EXCEPT ![Len(scopes)] = Inserted(@, left.name, value)] ELSE scopes
             /\ errors \subseteq errors'
             /\ errors' = {} =>
                  /\ EnumRefErrors(left.name, RightOf(place)) = {}
                  /\ left.kind = "Property" => Len(place) > 1 /\ CheckProperty(left.name, value, ClassesAt(place)) = {}
<1> DEFINE left == ConstructAt(place).left
           right == RightOf(place)
           here == IF classes = <<>> THEN <<>> ELSE Last(classes)
           enumErrors == EnumRefErrors(left.name, right)
           evaluated == IF enumErrors = {} THEN Evaluated(left, right, CheckerLookup(right)) ELSE <<>>
           value == ResolvedType(left, evaluated)
           property == IF left.kind = "Property" THEN CheckProperty(left.name, value, here) ELSE {}
           misplaced == IF left.kind = "Property" /\ GlobalScope THEN {"NotAllowedInContext"} ELSE {}
           kinds == misplaced \cup TokenRefErrors(right, Scope(right)) \cup AnnotationErrors(right, Scope(right))
                      \cup enumErrors \cup property
<1>1. PlaceInv /\ ScopesInv /\ ClassesInv
  BY DEF CheckInv
<1>2. /\ Report(kinds)
      /\ resolved' = Inserted(resolved, place, value)
      /\ scopes' = IF IsStatic(left) THEN [scopes EXCEPT ![Len(scopes)] = Inserted(@, left.name, value)] ELSE scopes
  BY DEF CheckAssignment, Assigns, RightOf
<1>3. here = ClassesAt(place)
  BY <1>1, ClassesHere
<1>4. evaluated = EvaluatedAt(place)
  BY <1>1, CheckedAsVisible DEF EvaluatedAt, LookupAt
<1>5. value = ResolvedAt(place)
  BY <1>4 DEF ResolvedAt
<1>6. errors \subseteq errors' /\ (errors' = {} => kinds = {})
  <2> HIDE DEF kinds
  <2> QED BY <1>2 DEF Report
<1>7. kinds = {} => enumErrors = {} /\ property = {} /\ misplaced = {}
  <2> HIDE DEF enumErrors, property, misplaced
  <2> QED OBVIOUS
<1>8. Len(place) \in Nat \ {0}
  BY <1>1, SamePlace DEF PlaceInv, Reached
<1>9. misplaced = {} /\ left.kind = "Property" => Len(place) > 1
  <2>1. Len(place) # 1 => Len(place) > 1
    BY <1>8
  <2> HIDE DEF left
  <2> QED BY <2>1 DEF GlobalScope
<1>10. property = {} /\ left.kind = "Property" => CheckProperty(left.name, value, ClassesAt(place)) = {}
  BY <1>3
<1> HIDE DEF value, kinds, property, misplaced, evaluated, here
<1> QED BY <1>2, <1>5, <1>6, <1>7, <1>9, <1>10

LEMMA LastBeforeResolved ==
  ASSUME PlaceInv, NEW i \in 1 .. Len(place), NEW n, Before(place, i, n) # {}
  PROVE  LastBefore(place, i, n) \in DOMAIN resolved
<1>1. Reached(place)
  BY DEF PlaceInv
<1>2. PICK j \in 1 .. place[i] - 1 : LastBefore(place, i, n) = Sibling(place, i, j)
  BY <1>1, LastBeforeFacts
<1>3. Passed(LastBefore(place, i, n), place)
  BY <1>1, <1>2, SiblingPassed
<1>4. Assigns(LastBefore(place, i, n))
  BY <1>1, LastBeforeFacts
<1> QED BY <1>3, <1>4 DEF PlaceInv

LEMMA AssignmentStep ==
  ASSUME CheckInv, CheckAssignment, Assigns(place), code' = code
  PROVE  CheckInv'
<1> DEFINE left == ConstructAt(place).left
           value == ResolvedAt(place)
<1>1. PlaceInv /\ ScopesInv /\ ResolvedInv /\ ClassesInv /\ ErrorsInv /\ Reached(place)
  BY DEF CheckInv, PlaceInv
<1>2. /\ ~BodyOver(place) /\ ~At(place, "Rule") /\ place' = Behind(place) /\ UNCHANGED <<strict, classes>>
      /\ ConstructAt(place).right # <<>>
  BY DEF CheckAssignment, At, Assigns
<1>3. /\ resolved' = Inserted(resolved, place, value)
      /\ scopes' = IF IsStatic(left)
                   THEN [scopes EXCEPT ![Len(scopes)] = Inserted(@, left.name, value)] ELSE scopes
      /\ errors \subseteq errors'
      /\ errors' = {} =>
           /\ EnumRefErrors(left.name, RightOf(place)) = {}
           /\ left.kind = "Property" => Len(place) > 1 /\ CheckProperty(left.name, value, ClassesAt(place)) = {}
  BY AssignmentChecked
<1>4. place \notin DOMAIN resolved
  <2>1. IsPlace(place)
    BY <1>1 DEF Reached
  <2> QED BY <1>1, <2>1, NothingPassed DEF PlaceInv
<1>5. /\ DOMAIN resolved' = DOMAIN resolved \cup {place}
      /\ resolved'[place] = value
      /\ \A x \in DOMAIN resolved : resolved'[x] = resolved[x]
  <2>1. resolved' = Inserted(resolved, place, value)
    BY <1>3
  <2> HIDE DEF value
  <2> QED BY <1>4, <2>1 DEF Inserted
<1>6. Reached(place)' /\ Len(place') = Len(place) /\ ClassesInv'
  BY <1>1, <1>2, CheckedBehind
<1>7. ASSUME NEW q PROVE q \in DOMAIN resolved' <=> Assigns(q)' /\ Passed(q, place')
  <2>1. Assigns(q)' = Assigns(q)
    BY FileFixed
  <2>2. Assigns(q) => (Passed(q, place') <=> Passed(q, place) \/ q = place)
    BY <1>1, <1>2, PassedBehind, AssignsStands
  <2> QED BY <1>1, <1>5, <2>1, <2>2 DEF PlaceInv
<1>8. PlaceInv'
  BY <1>6, <1>7 DEF PlaceInv
<1>9. ASSUME NEW q \in DOMAIN resolved'
      PROVE  Reached(q) /\ ResolvedAt(q)' = ResolvedAt(q) /\ resolved'[q] = ResolvedAt(q)
  <2>1. Reached(q) /\ (Passed(q, place) \/ q = place)
    BY <1>1, <1>5 DEF PlaceInv, Assigns
  <2>2. ResolvedAt(q)' = ResolvedAt(q)
    BY <1>1, <1>5, <2>1, ResolvedStays
  <2>3. resolved'[q] = ResolvedAt(q)
    BY <1>1, <1>5 DEF ResolvedInv
  <2> QED BY <2>1, <2>2, <2>3
<1>10. ResolvedInv'
  BY <1>9 DEF ResolvedInv
<1>11. ErrorsInv'
  <2>1. SUFFICES ASSUME errors' = {}, NEW q \in DOMAIN resolved' PROVE CheckedWell(q)'
    BY DEF ErrorsInv
  <2>2. ConstructAt(q)' = ConstructAt(q) /\ RightOf(q)' = RightOf(q) /\ ClassesAt(q)' = ClassesAt(q)
    BY FileFixed
  <2>3. \A a, b, c : CheckProperty(a, b, c)' = CheckProperty(a, b, c)
    BY <1>2, CheckFixed
  <2>4. CASE q = place
    BY <1>3, <1>5, <2>1, <2>2, <2>3, <2>4 DEF CheckedWell
  <2>5. CASE q \in DOMAIN resolved
    <3>1. errors = {}
      BY <1>3, <2>1
    <3>2. CheckedWell(q)
      BY <1>1, <2>5, <3>1 DEF ErrorsInv
    <3> QED BY <1>5, <2>2, <2>3, <2>5, <3>2 DEF CheckedWell
  <2> QED BY <1>5, <2>4, <2>5
<1>12. ScopesInv'
  <2> DEFINE m == Len(place)
  <2>1. m \in Nat \ {0} /\ IsASeq(scopes) /\ Len(scopes) = m
    BY <1>1, SamePlace DEF Reached, ScopesInv
  <2>2. /\ IsASeq(scopes') /\ Len(scopes') = m
        /\ \A i \in 1 .. m - 1 : scopes'[i] = scopes[i]
        /\ scopes'[m] = IF IsStatic(left) THEN Inserted(scopes[m], left.name, value) ELSE scopes[m]
    <3>1. CASE ~IsStatic(left)
      BY <1>3, <2>1, <3>1
    <3>2. CASE IsStatic(left)
      <4> DEFINE v == Inserted(scopes[m], left.name, value)
      <4>1. scopes' = [scopes EXCEPT ![m] = v]
        BY <1>3, <2>1, <3>2
      <4>2. m \in 1 .. Len(scopes) /\ Len(scopes) = m
        BY <2>1
      <4> HIDE DEF v, m
      <4>5. IsASeq(scopes)
        BY <2>1
      <4>3. /\ IsASeq(scopes') /\ Len(scopes') = Len(scopes) /\ scopes'[m] = v
            /\ \A i \in 1 .. Len(scopes) : i # m => scopes'[i] = scopes[i]
        <5>1. PICK S : scopes \in Seq(S)
          BY <4>5 DEF IsASeq
        <5>2. scopes \in Seq(S \cup {v})
          BY <5>1
        <5>3. scopes' \in Seq(S \cup {v}) /\ Len(scopes') = Len(scopes)
          BY <4>1, <4>2, <5>2
        <5>4. scopes'[m] = v /\ \A i \in 1 .. Len(scopes) : i # m => scopes'[i] = scopes[i]
          BY <4>1, <4>2, <5>2
        <5> QED BY <5>3, <5>4 DEF IsASeq
      <4>4. \A i \in 1 .. m - 1 : i \in 1 .. m /\ i # m
        BY <2>1
      <4> QED BY <3>2, <4>2, <4>3, <4>4 DEF v
    <3> QED BY <3>1, <3>2
  <2>3. \A n : Holds(place, n) <=> IsStatic(left) /\ n = left.name
    BY <1>2 DEF Holds, Assigns
  <2>4. ASSUME NEW i \in 1 .. m, NEW n
        PROVE  /\ n \in DOMAIN scopes'[i] <=> Before(place', i, n) # {}
               /\ Before(place', i, n) # {} => scopes'[i][n] = resolved'[LastBefore(place', i, n)]
    <3>1. /\ n \in DOMAIN scopes[i] <=> Before(place, i, n) # {}
          /\ Before(place, i, n) # {} => scopes[i][n] = resolved'[LastBefore(place, i, n)]
      <4>1. Before(place, i, n) # {} => LastBefore(place, i, n) \in DOMAIN resolved
        BY <1>1, LastBeforeResolved
      <4> QED BY <1>1, <1>5, <4>1 DEF ScopesInv
    <3>2. CASE i = m /\ Holds(place, n)
      <4>1. Before(place', m, n) # {} /\ LastBefore(place', m, n) = place
        BY <1>1, <1>2, <3>2, BeforeBehind
      <4>2. n \in DOMAIN scopes'[m] /\ scopes'[m][n] = value
        <5>1. n = left.name /\ scopes'[m] = Inserted(scopes[m], n, value)
          BY <2>2, <2>3, <3>2
        <5> HIDE DEF value
        <5> QED BY <5>1 DEF Inserted
      <4> QED BY <1>5, <3>2, <4>1, <4>2
    <3>3. CASE i = m /\ ~Holds(place, n)
      <4>1. Before(place', m, n) = Before(place, m, n) /\ LastBefore(place', m, n) = LastBefore(place, m, n)
        BY <1>1, <1>2, <3>3, BeforeBehind
      <4>2. (n \in DOMAIN scopes'[m] <=> n \in DOMAIN scopes[m])
            /\ (n \in DOMAIN scopes[m] => scopes'[m][n] = scopes[m][n])
        <5>1. CASE IsStatic(left)
          <6>1. n # left.name /\ scopes'[m] = Inserted(scopes[m], left.name, value)
            BY <2>2, <2>3, <3>3, <5>1
          <6> HIDE DEF value, left
          <6> QED BY <6>1 DEF Inserted
        <5>2. CASE ~IsStatic(left)
          BY <2>2, <5>2
        <5> QED BY <5>1, <5>2
      <4> QED BY <3>1, <3>3, <4>1, <4>2
    <3>4. CASE i \in 1 .. m - 1
      <4>1. Before(place', i, n) = Before(place, i, n) /\ LastBefore(place', i, n) = LastBefore(place, i, n)
        BY <1>1, <1>2, <3>4, BeforeBehind
      <4> QED BY <2>2, <3>1, <3>4, <4>1
    <3> QED BY <2>1, <3>2, <3>3, <3>4
  <2>5. \A p, i, n : Before(p, i, n)' = Before(p, i, n) /\ LastBefore(p, i, n)' = LastBefore(p, i, n)
    BY FileFixed
  <2> QED BY <1>6, <2>2, <2>4, <2>5 DEF ScopesInv
<1> QED BY <1>6, <1>8, <1>10, <1>11, <1>12 DEF CheckInv

LEMMA EnterStep ==
  ASSUME CheckInv, EnterCheckedRule, code' = code
  PROVE  CheckInv'
<1> DEFINE s == IntoBody(place)
           m == Len(place)
<1>1. PlaceInv /\ ScopesInv /\ ResolvedInv /\ ClassesInv /\ ErrorsInv /\ Reached(place)
  BY DEF CheckInv, PlaceInv
<1>2. At(place, "Rule") /\ place' = s /\ scopes' = Append(scopes, NoValues) /\ UNCHANGED <<strict, errors, resolved>>
  BY DEF EnterCheckedRule
<1>3. IsPlace(place) /\ m \in Nat \ {0}
  BY <1>1, SamePlace DEF Reached
<1>4. Len(s) = m + 1 /\ \A k \in 1 .. m : SubSeq(s, 1, k) = SubSeq(place, 1, k)
  BY <1>3, IntoFacts
<1>5. Reached(s) /\ \A q : IsPlace(q) => (Passed(q, s) <=> Passed(q, place))
  BY <1>1, <1>2, StepInto
<1>6. PlaceInv'
  <2>1. ASSUME NEW q PROVE q \in DOMAIN resolved' <=> Assigns(q)' /\ Passed(q, place')
    BY <1>1, <1>2, <1>5, FileFixed DEF PlaceInv, Assigns, Reached
  <2>2. Reached(place)'
    BY <1>2, <1>5, FileFixed
  <2> QED BY <2>1, <2>2 DEF PlaceInv
<1>7. ScopesInv'
  <2>1. IsASeq(scopes) /\ Len(scopes) = m
    BY <1>1 DEF ScopesInv
  <2>2. IsASeq(scopes') /\ Len(scopes') = m + 1 /\ scopes'[m + 1] = NoValues /\ \A i \in 1 .. m : scopes'[i] = scopes[i]
    BY <1>2, <2>1, AppendFacts
  <2>3. ASSUME NEW i \in 1 .. m + 1, NEW n
        PROVE  /\ n \in DOMAIN scopes'[i] <=> Before(place', i, n) # {}
               /\ Before(place', i, n) # {} => scopes'[i][n] = resolved'[LastBefore(place', i, n)]
    <3>1. CASE i = m + 1
      <4>1. Before(place', i, n) = {}
        BY <1>1, <1>2, <3>1, BeforeInto
      <4>2. n \notin DOMAIN scopes'[i]
        BY <2>2, <3>1 DEF NoValues
      <4> QED BY <4>1, <4>2
    <3>2. CASE i \in 1 .. m
      <4>1. Before(place', i, n) = Before(place, i, n) /\ LastBefore(place', i, n) = LastBefore(place, i, n)
        BY <1>1, <1>2, <3>2, BeforeInto
      <4> QED BY <1>1, <1>2, <2>2, <3>2, <4>1 DEF ScopesInv
    <3> QED BY <1>3, <3>1, <3>2
  <2>4. \A p, i, n : Before(p, i, n)' = Before(p, i, n) /\ LastBefore(p, i, n)' = LastBefore(p, i, n)
    BY FileFixed
  <2> QED BY <1>2, <1>4, <2>2, <2>3, <2>4 DEF ScopesInv
<1>8. ClassesInv'
  <2> DEFINE v == IF ConstructAt(place).selects = <<>> THEN ClassesAt(place) ELSE ConstructAt(place).selects[1]
  <2>1. classes' = Append(classes, v)
    <3>1. (IF classes = <<>> THEN <<>> ELSE Last(classes)) = ClassesAt(place)
      BY <1>1, ClassesHere
    <3> QED BY <3>1 DEF EnterCheckedRule
  <2>2. IsASeq(classes) /\ Len(classes) = m - 1
    BY <1>1 DEF ClassesInv
  <2> HIDE DEF v
  <2>3. IsASeq(classes') /\ Len(classes') = (m - 1) + 1 /\ classes'[(m - 1) + 1] = v
        /\ \A i \in 1 .. m - 1 : classes'[i] = classes[i]
    BY <2>1, <2>2, AppendFacts
  <2>4. (m - 1) + 1 = m
    BY <1>3
  <2>5. ClassesAt(s) = v /\ SubSeq(s, 1, m + 1) = s
    <3>1. IsPlace(s)
      BY <1>5 DEF Reached
    <3> QED BY <1>3, <1>4, <3>1, ClassesInto, SamePlace DEF v
  <2>6. ASSUME NEW i \in 1 .. m PROVE classes'[i] = ClassesAt(SubSeq(s, 1, i + 1))
    <3>1. CASE i = m
      BY <2>3, <2>4, <2>5, <3>1
    <3>2. CASE i \in 1 .. m - 1
      <4>1. i + 1 \in 1 .. m
        BY <1>3, <3>2
      <4> QED BY <1>1, <1>4, <2>3, <3>2, <4>1 DEF ClassesInv
    <3> QED BY <1>3, <3>1, <3>2
  <2>7. \A p : ClassesAt(p)' = ClassesAt(p)
    BY FileFixed
  <2>8. Len(place') - 1 = m /\ Len(classes') = m
    BY <1>2, <1>3, <1>4, <2>3, <2>4
  <2> QED BY <1>2, <2>3, <2>6, <2>7, <2>8 DEF ClassesInv
<1>9. ResolvedInv' /\ ErrorsInv'
  BY <1>1, <1>2, ResolvedKept
<1> QED BY <1>6, <1>7, <1>8, <1>9 DEF CheckInv

LEMMA LeaveStep ==
  ASSUME CheckInv, LeaveCheckedRule, code' = code
  PROVE  CheckInv'
<1> DEFINE s == OutOfBody(place)
           m == Len(place)
<1>1. PlaceInv /\ ScopesInv /\ ResolvedInv /\ ClassesInv /\ ErrorsInv /\ Reached(place)
  BY DEF CheckInv, PlaceInv
<1>2. /\ m > 1 /\ BodyOver(place) /\ place' = s /\ scopes' = Front(scopes) /\ classes' = Front(classes)
      /\ UNCHANGED <<strict, errors, resolved>>
  BY DEF LeaveCheckedRule
<1>3. IsPlace(place) /\ m \in Nat \ {0} /\ m - 1 \in Nat \ {0}
  BY <1>1, <1>2, SamePlace DEF Reached
<1>4. Reached(s) /\ \A q : Assigns(q) => (Passed(q, s) <=> Passed(q, place))
  BY <1>1, <1>2, StepOut, AssignsStands
<1>5. Len(s) = m - 1 /\ \A k \in 1 .. m - 2 : SubSeq(s, 1, k) = SubSeq(place, 1, k)
  <2> DEFINE i == m - 1
             j == place[m - 1] + 1
  <2>1. s = Sibling(place, i, j)
    BY <1>2, <1>3, OutFacts
  <2>2. i \in 1 .. Len(place) /\ j \in Nat \ {0} /\ i - 1 = m - 2
    <3>1. i \in 1 .. Len(place) /\ i - 1 = m - 2
      <4>1. m \in Nat /\ m - 1 \in Nat \ {0} /\ m = Len(place)
        BY <1>3
      <4> HIDE DEF m
      <4>2. m - 1 \in 1 .. m /\ (m - 1) - 1 = m - 2
        BY <4>1
      <4> QED BY <4>1, <4>2
    <3>2. place[i] \in Nat \ {0}
      BY <1>3, <3>1, SamePlace
    <3> QED BY <3>1, <3>2
  <2> HIDE DEF s, i, j
  <2>3. Len(s) = i /\ \A k \in 1 .. i - 1 : SubSeq(s, 1, k) = SubSeq(place, 1, k)
    BY <1>3, <2>1, <2>2, SiblingFacts
  <2> QED BY <2>2, <2>3 DEF i
<1>6. PlaceInv'
  <2>1. ASSUME NEW q PROVE q \in DOMAIN resolved' <=> Assigns(q)' /\ Passed(q, place')
    BY <1>1, <1>2, <1>4, FileFixed DEF PlaceInv
  <2>2. Reached(place)'
    BY <1>2, <1>4, FileFixed
  <2> QED BY <2>1, <2>2 DEF PlaceInv
<1>7. ScopesInv'
  <2>1. IsASeq(scopes) /\ Len(scopes) = m /\ Len(scopes) > 0
    BY <1>1, <1>2, <1>3 DEF ScopesInv
  <2>2. IsASeq(scopes') /\ Len(scopes') = m - 1 /\ \A i \in 1 .. m - 1 : scopes'[i] = scopes[i]
    BY <1>2, <2>1, FrontFacts
  <2>3. ASSUME NEW i \in 1 .. m - 1, NEW n
        PROVE  /\ n \in DOMAIN scopes'[i] <=> Before(place', i, n) # {}
               /\ Before(place', i, n) # {} => scopes'[i][n] = resolved'[LastBefore(place', i, n)]
    <3>1. Before(place', i, n) = Before(place, i, n) /\ LastBefore(place', i, n) = LastBefore(place, i, n)
      BY <1>1, <1>2, BeforeOut
    <3>2. i \in 1 .. m
      BY <1>3
    <3> QED BY <1>1, <1>2, <2>2, <3>1, <3>2 DEF ScopesInv
  <2>4. \A p, i, n : Before(p, i, n)' = Before(p, i, n) /\ LastBefore(p, i, n)' = LastBefore(p, i, n)
    BY FileFixed
  <2> QED BY <1>2, <1>5, <2>2, <2>3, <2>4 DEF ScopesInv
<1>8. ClassesInv'
  <2>1. IsASeq(classes) /\ Len(classes) = m - 1 /\ Len(classes) > 0
    BY <1>1, <1>3 DEF ClassesInv
  <2>2. IsASeq(classes') /\ Len(classes') = (m - 1) - 1 /\ \A i \in 1 .. (m - 1) - 1 : classes'[i] = classes[i]
    BY <1>2, <2>1, FrontFacts
  <2>3. ASSUME NEW i \in 1 .. (m - 1) - 1 PROVE classes'[i] = ClassesAt(SubSeq(s, 1, i + 1))
    <3>1. classes'[i] = ClassesAt(SubSeq(place, 1, i + 1))
      <4>1. i \in 1 .. m - 1
        BY <1>3
      <4> QED BY <1>1, <2>2, <4>1 DEF ClassesInv
    <3>2. CASE i + 1 \in 1 .. m - 2
      BY <1>5, <3>1, <3>2
    <3>3. CASE i + 1 = m - 1
      <4> DEFINE r == SubSeq(place, 1, m - 1)
                 k == m - 1
      <4>1. IsPlace(r) /\ Len(r) = m - 1 /\ \A j \in 1 .. m - 2 : SubSeq(r, 1, j) = SubSeq(place, 1, j)
        <5>1. k \in 1 .. Len(place) /\ place[k] \in Nat \ {0} /\ k - 1 = m - 2
          BY <1>3, SamePlace
        <5>2. r = Sibling(place, k, place[k])
          BY <1>3, <5>1, SubSeqSibling
        <5> DEFINE j == place[k]
        <5> HIDE DEF r, k, j
        <5>3. IsPlace(Sibling(place, k, j)) /\ Len(Sibling(place, k, j)) = k
              /\ \A d \in 1 .. k - 1 : SubSeq(Sibling(place, k, j), 1, d) = SubSeq(place, 1, d)
          <6>1. k \in 1 .. Len(place) /\ j \in Nat \ {0}
            BY <5>1 DEF j
          <6> QED BY <1>3, <6>1, SiblingFacts
        <5>4. k = m - 1
          BY DEF k
        <5> QED BY <5>1, <5>2, <5>3, <5>4 DEF j
      <4> HIDE DEF r
      <4>2. IsPlace(s) /\ SubSeq(s, 1, m - 1) = s
        BY <1>4, <1>5, SamePlace DEF Reached
      <4> HIDE DEF s
      <4>3. Len(r) - 1 = m - 2 /\ Len(s) = Len(r)
        BY <1>3, <1>5, <4>1
      <4>4. ClassesAt(s) = ClassesAt(r)
        BY <1>5, <4>1, <4>2, <4>3, SameClasses
      <4> QED BY <3>1, <3>3, <4>2, <4>4 DEF r
    <3> QED BY <1>3, <3>2, <3>3
  <2>4. \A p : ClassesAt(p)' = ClassesAt(p)
    BY FileFixed
  <2> QED BY <1>2, <1>5, <2>2, <2>3, <2>4 DEF ClassesInv
<1>9. ResolvedInv' /\ ErrorsInv'
  BY <1>1, <1>2, ResolvedKept
<1> QED BY <1>6, <1>7, <1>8, <1>9 DEF CheckInv

LEMMA CheckStep ==
  ASSUME CheckInv, CheckNext, code' = code
  PROVE  CheckInv'
<1>1. ASSUME At(place, "Assignment") \/ At(place, "Tween") \/ At(place, "Priority")
      PROVE  ~BodyOver(place) /\ ~At(place, "Rule")
  BY <1>1 DEF At
<1>2. CASE CheckAssignment
  <2>1. CASE Assigns(place)
    BY <1>2, <2>1, AssignmentStep
  <2>2. CASE ~Assigns(place)
    <3>1. ConstructAt(place).right = <<>>
      BY <1>2, <2>2 DEF CheckAssignment, Assigns, CheckInv, PlaceInv
    <3>2. place' = Behind(place) /\ UNCHANGED <<strict, scopes, classes, errors, resolved>> /\ At(place, "Assignment")
      BY <1>2, <3>1 DEF CheckAssignment
    <3> QED BY <1>1, <2>2, <3>2, NothingAssigned
  <2> QED BY <2>1, <2>2
<1>3. CASE CheckTween
  <2>1. ~Assigns(place)
    BY <1>3 DEF CheckTween, Assigns, At
  <2>2. place' = Behind(place) /\ UNCHANGED <<strict, scopes, classes, resolved>> /\ At(place, "Tween")
        /\ errors \subseteq errors'
    BY <1>3 DEF CheckTween, Report
  <2> QED BY <1>1, <2>1, <2>2, NothingAssigned
<1>4. CASE CheckPriority
  <2>1. ~Assigns(place)
    BY <1>4 DEF CheckPriority, Assigns, At
  <2>2. place' = Behind(place) /\ UNCHANGED <<strict, scopes, classes, resolved>> /\ At(place, "Priority")
        /\ errors \subseteq errors'
    BY <1>4 DEF CheckPriority, Report
  <2> QED BY <1>1, <2>1, <2>2, NothingAssigned
<1>5. CASE EnterCheckedRule
  BY <1>5, EnterStep
<1>6. CASE LeaveCheckedRule
  BY <1>6, LeaveStep
<1> QED BY <1>2, <1>3, <1>4, <1>5, <1>6 DEF CheckNext

-----------------------------------------------------------------------------
(* Going up from a node finds what the scopes have.                        *)

(* A search through parents ends with the first node of own, for which     *)
(* value has something, or with the root.                                  *)
Searches(f, N, own, value, up) ==
  /\ f = [n \in 1 .. N |-> f[n]]
  /\ \A n \in 1 .. N : f[n] = IF n \in own THEN value[n] ELSE IF n = Root THEN None ELSE f[up[n]]

SearchEnds(N, own, value, up) == \E f : Searches(f, N, own, value, up)

LEMMA SearchExists ==
  ASSUME NEW N \in Nat, NEW own, NEW value, NEW up, \A n \in 1 .. N : n # Root => up[n] \in 1 .. n - 1
  PROVE  SearchEnds(N, own, value, up)
<1> DEFINE Found(f, n) == IF n \in own THEN value[n] ELSE IF n = Root THEN None ELSE f[up[n]]
           Upto(k) == SearchEnds(k, own, value, up)
           Wrong == {k \in 0 .. N : ~Upto(k)}
<1>1. SUFFICES ASSUME Wrong # {} PROVE FALSE
  OBVIOUS
<1>2. PICK k \in Wrong : \A l \in Wrong : k <= l
  <2>1. Wrong \in SUBSET Nat
    OBVIOUS
  <2> HIDE DEF Wrong
  <2> QED BY <1>1, <2>1, LeastExists
<1>3. k \in 0 .. N /\ ~Upto(k)
  OBVIOUS
<1>4. k # 0
  <2>1. Upto(0)
    <3> DEFINE f == [n \in 1 .. 0 |-> None]
    <3>1. Searches(f, 0, own, value, up)
      BY DEF Searches
    <3> QED BY <3>1 DEF SearchEnds
  <2> HIDE DEF Upto
  <2> QED BY <1>3, <2>1
<1>5. k - 1 \in 0 .. N /\ ~(k <= k - 1) /\ k \in 1 .. N
  BY <1>3, <1>4
<1>6. Upto(k - 1)
  <2>1. k - 1 \notin Wrong
    <3> HIDE DEF Wrong
    <3> QED BY <1>2, <1>5
  <2> HIDE DEF Upto
  <2> QED BY <1>5, <2>1
<1>7. PICK f : \A n \in 1 .. k - 1 : f[n] = Found(f, n)
  BY <1>6 DEF SearchEnds, Searches
<1> DEFINE g == [n \in 1 .. k |-> IF n = k THEN Found(f, k) ELSE f[n]]
<1>8. ASSUME NEW n \in 1 .. k PROVE g[n] = Found(g, n)
  <2>1. n # Root => up[n] \in 1 .. n - 1
    BY <1>5
  <2>2. n # Root => g[up[n]] = f[up[n]]
    BY <1>5, <2>1
  <2>3. Found(g, n) = Found(f, n)
    <3> HIDE DEF g
    <3> QED BY <2>2
  <2>4. CASE n = k
    BY <2>3, <2>4
  <2>5. CASE n # k
    <3>1. n \in 1 .. k - 1
      BY <1>5, <2>5
    <3>2. f[n] = Found(f, n)
      BY <1>7, <3>1
    <3> HIDE DEF Found
    <3> QED BY <2>3, <2>5, <3>2
  <2> QED BY <2>4, <2>5
<1>9. g = [n \in 1 .. k |-> g[n]]
  OBVIOUS
<1> HIDE DEF g
<1> QED BY <1>3, <1>8, <1>9 DEF SearchEnds, Searches

LEMMA SearchUp ==
  ASSUME NodesInv, NEW name, NEW node \in DOMAIN nodes
  PROVE  ResolveStaticAttribute(name, node) =
           IF name \in DOMAIN nodes[node].statics THEN nodes[node].statics[name]
           ELSE IF node = Root THEN None ELSE ResolveStaticAttribute(name, nodes[node].parent)
<1> DEFINE Found(f, n) == IF name \in DOMAIN nodes[n].statics THEN nodes[n].statics[name]
                          ELSE IF n = Root THEN None ELSE f[nodes[n].parent]
           F(f) == [n \in DOMAIN nodes |-> Found(f, n)]
           found == CHOOSE f : f = F(f)
<1>1. Len(nodes) \in Nat /\ DOMAIN nodes = 1 .. Len(nodes)
  BY SeqFacts DEF NodesInv
<1>2. \E f : f = F(f)
  <2> DEFINE own == {n \in DOMAIN nodes : name \in DOMAIN nodes[n].statics}
             value == [n \in DOMAIN nodes |-> nodes[n].statics[name]]
             up == [n \in DOMAIN nodes |-> nodes[n].parent]
  <2>1. \A n \in 1 .. Len(nodes) : n # Root => up[n] \in 1 .. n - 1
    BY <1>1 DEF NodesInv
  <2>2. SearchEnds(Len(nodes), own, value, up)
    <3> HIDE DEF own, value, up
    <3> QED BY <1>1, <2>1, SearchExists
  <2>3. PICK f : Searches(f, Len(nodes), own, value, up)
    BY <2>2 DEF SearchEnds
  <2>4. \A n \in 1 .. Len(nodes) : f[n] = Found(f, n)
    BY <1>1, <2>3 DEF Searches
  <2>5. f = F(f)
    <3> HIDE DEF own, value, up, Found
    <3> QED BY <1>1, <2>3, <2>4 DEF Searches
  <2> QED BY <2>5
<1>3. found = F(found)
  <2> HIDE DEF F
  <2> QED BY <1>2, Zenon
<1>4. \A n : ResolveStaticAttribute(name, n) = found[n]
  BY DEF ResolveStaticAttribute
<1>5. found[node] = Found(found, node)
  <2> HIDE DEF found, Found
  <2> QED BY <1>3
<1> HIDE DEF found
<1> QED BY <1>4, <1>5

LEMMA KnownSettled == Settled(Known)
<1> SUFFICES ASSUME NEW q \in DOMAIN resolved, IsStatic(ConstructAt(q).left), ConstructAt(q).left.name \in Known
             PROVE  MadeOf(RightOf(q), Known) /\ resolved[q].type \notin {"None", "IncompleteEnumShorthand"}
  BY DEF Settled
<1>1. PICK names \in SUBSET TokenNames : Settled(names) /\ ConstructAt(q).left.name \in names
  BY DEF Known
<1>2. MadeOf(RightOf(q), names) /\ resolved[q].type \notin {"None", "IncompleteEnumShorthand"}
  BY <1>1 DEF Settled
<1>3. names \subseteq Known
  BY <1>1 DEF Known
<1> QED BY <1>2, <1>3 DEF MadeOf

(* The nodes of the chain have what is visible.                            *)
LEMMA ChainAgrees ==
  ASSUME Reached(cursor), NodesInv, NEW chain, Chain(chain), NEW n \in Known
  PROVE  ResolveStaticAttribute(n, current) = Visible(cursor, n)
<1> DEFINE m == Len(cursor)
           H(k) == {i \in 1 .. k : Before(cursor, i, n) # {}}
           Found(k) == IF H(k) = {} THEN None ELSE resolved[LastBefore(cursor, Max(H(k)), n)]
           Wrong == {k \in 1 .. m : ResolveStaticAttribute(n, chain[k]) # Found(k)}
<1>1. m \in Nat \ {0}
  BY SamePlace DEF Reached
<1>2. SUFFICES ASSUME Wrong # {} PROVE FALSE
  <2>1. m \in 1 .. m /\ chain[m] = current
    BY <1>1 DEF Chain
  <2>2. Found(m) = Visible(cursor, n)
    BY DEF Visible, Having
  <2> HIDE DEF Found, m
  <2> QED BY <2>1, <2>2
<1>3. PICK k \in Wrong : \A l \in Wrong : k <= l
  <2>1. Wrong \in SUBSET Nat
    OBVIOUS
  <2> HIDE DEF Wrong
  <2> QED BY <1>2, <2>1, LeastExists
<1>4. k \in 1 .. m /\ ResolveStaticAttribute(n, chain[k]) # Found(k)
  OBVIOUS
<1>5. /\ chain[k] \in DOMAIN nodes
      /\ n \in DOMAIN nodes[chain[k]].statics <=> Before(cursor, k, n) # {}
      /\ Before(cursor, k, n) # {} => nodes[chain[k]].statics[n] = resolved[LastBefore(cursor, k, n)]
  BY <1>4 DEF Chain
<1>6. ResolveStaticAttribute(n, chain[k]) =
        IF n \in DOMAIN nodes[chain[k]].statics THEN nodes[chain[k]].statics[n]
        ELSE IF chain[k] = Root THEN None ELSE ResolveStaticAttribute(n, nodes[chain[k]].parent)
  BY <1>5, SearchUp
<1>7. CASE Before(cursor, k, n) # {}
  <2>1. k \in H(k) /\ H(k) \in SUBSET (1 .. k) /\ k \in Nat
    BY <1>4, <1>7
  <2> HIDE DEF H
  <2>2. Max(H(k)) \in 1 .. k /\ k <= Max(H(k))
    <3> DEFINE S == H(k)
    <3>1. k \in Nat /\ S \in SUBSET (1 .. k) /\ k \in S
      BY <2>1
    <3> HIDE DEF S
    <3>2. Max(S) \in S /\ \A i \in S : i <= Max(S)
      BY <3>1, MaxFacts
    <3> QED BY <3>1, <3>2 DEF S
  <2>3. Max(H(k)) = k
    BY <2>1, <2>2
  <2>4. Found(k) = resolved[LastBefore(cursor, k, n)]
    BY <2>1, <2>3
  <2> HIDE DEF Found
  <2> QED BY <1>4, <1>5, <1>6, <1>7, <2>4
<1>8. CASE Before(cursor, k, n) = {} /\ k = 1
  <2>1. chain[k] = Root
    BY <1>8 DEF Chain
  <2>2. Found(k) = None
    BY <1>8
  <2> HIDE DEF Found
  <2> QED BY <1>4, <1>5, <1>6, <1>8, <2>1, <2>2
<1>9. CASE Before(cursor, k, n) = {} /\ k # 1
  <2>1. k - 1 \in 1 .. m /\ ~(k <= k - 1) /\ k - 1 \in 1 .. k - 1 /\ 1 \in 1 .. k - 1
    BY <1>1, <1>4, <1>9
  <2>2. nodes[chain[k]].parent = chain[k - 1] /\ chain[k] # Root
    <3>1. chain[1] < chain[k] /\ chain[1] = Root
      BY <1>4, <2>1 DEF Chain
    <3>2. chain[k] # Root
      BY <3>1 DEF Root
    <3> QED BY <1>4, <1>9, <3>2 DEF Chain
  <2>3. k - 1 \notin Wrong
    <3> HIDE DEF Wrong
    <3> QED BY <1>3, <2>1
  <2>4. ResolveStaticAttribute(n, chain[k - 1]) = Found(k - 1)
    <3> HIDE DEF Found, m
    <3> QED BY <2>1, <2>3
  <2>5. H(k) = H(k - 1)
    <3>1. \A i \in 1 .. k : i # k => i \in 1 .. k - 1
      BY <1>4
    <3>2. \A i \in 1 .. k - 1 : i \in 1 .. k
      BY <1>4
    <3> QED BY <1>9, <3>1, <3>2
  <2>6. Found(k) = Found(k - 1)
    <3> HIDE DEF H
    <3> QED BY <2>5
  <2> HIDE DEF Found
  <2> QED BY <1>4, <1>5, <1>6, <1>9, <2>2, <2>4, <2>6
<1> QED BY <1>7, <1>8, <1>9

LEMMA CompiledAsVisible ==
  ASSUME CompileInv, NEW c, MadeOf(c, Known)
  PROVE  CompilerLookup(c) = LookupOf(c, cursor)
<1>1. PICK chain : Chain(chain)
  BY DEF CompileInv
<1>2. ASSUME NEW n \in TokensIn(c, "StaticToken") PROVE ResolveStaticAttribute(n, current) = Visible(cursor, n)
  BY <1>1, ChainAgrees DEF CompileInv, MadeOf
<1>3. TokensIn(c, "Token") = {}
  BY DEF MadeOf
<1>4. [n \in TokensIn(c, "StaticToken") |-> ResolveStaticAttribute(n, current)]
        = [n \in TokensIn(c, "StaticToken") |-> Visible(cursor, n)]
  BY <1>2
<1>5. [n \in TokensIn(c, "Token") |-> String("$" \o n)] = [n \in TokensIn(c, "Token") |-> None]
  BY <1>3
<1> QED BY <1>4, <1>5 DEF CompilerLookup, LookupOf

-----------------------------------------------------------------------------
(* The compiler's invariant is inductive, once the file is checked.        *)

(* An assignment is the same on both sides, made of tokens that are.       *)
LEMMA SameValue ==
  ASSUME CheckInv, WalkOver(place), CompileInv, Assigns(cursor), MadeOf(RightOf(cursor), Known)
  PROVE  LET left == ConstructAt(cursor).left
             c == RightOf(cursor)
             value == EvaluateConstruct(c, left.name, CompilerLookup(c))
             variant == ToVariant(value[1], left.name)
         IN  /\ resolved[cursor].type \notin {"None", "IncompleteEnumShorthand"} =>
                  /\ value # <<>>
                  /\ IsStatic(left) => resolved[cursor] = value[1]
                  /\ ~IsStatic(left) => variant # <<>> /\ resolved[cursor] = variant[1]
             /\ /\ left.kind = "Property" /\ EnumRefErrors(left.name, c) = {}
                /\ value # <<>> /\ variant # <<>>
                => resolved[cursor] = variant[1]
<1> DEFINE left == ConstructAt(cursor).left
           c == RightOf(cursor)
           value == EvaluateConstruct(c, left.name, CompilerLookup(c))
           variant == ToVariant(value[1], left.name)
           evaluated == EvaluatedAt(cursor)
           checked == ToVariant(evaluated[1], left.name)
<1>1. cursor \in DOMAIN resolved
  BY AllPassed, AssignsStands DEF CheckInv, PlaceInv
<1>2. resolved[cursor] = ResolvedType(left, evaluated)
  BY <1>1 DEF CheckInv, ResolvedInv, ResolvedAt
<1>3. value = EvaluateConstruct(c, left.name, LookupAt(cursor))
  BY CompiledAsVisible DEF LookupAt
<1>4. evaluated = IF EnumRefErrors(left.name, c) = {}
                  THEN IF left.kind # "Property" /\ c.kind = "Shorthand" THEN <<Shorthand(c.name)>> ELSE value
                  ELSE <<>>
  BY <1>3 DEF EvaluatedAt, Evaluated
<1>5. left.kind = "Property" => ~IsStatic(left)
  BY DEF IsStatic
<1> HIDE DEF left, c, value, evaluated
<1>6. evaluated = <<>> => resolved[cursor] = None
  BY <1>2 DEF ResolvedType
<1>7. evaluated # <<>> /\ left.kind # "Property" /\ evaluated[1].type = "IncompleteEnumShorthand"
        => resolved[cursor] = evaluated[1]
  BY <1>2 DEF ResolvedType
<1>8. evaluated # <<>> /\ IsStatic(left) => resolved[cursor] = evaluated[1]
  BY <1>2 DEF ResolvedType
<1>9. evaluated # <<>> /\ ~IsStatic(left)
        /\ ~(left.kind # "Property" /\ evaluated[1].type = "IncompleteEnumShorthand")
        => resolved[cursor] = IF checked = <<>> THEN None ELSE checked[1]
  BY <1>2 DEF ResolvedType
<1>10. None.type = "None"
  BY DEF None
<1>11. ASSUME resolved[cursor].type \notin {"None", "IncompleteEnumShorthand"}
       PROVE  /\ value # <<>>
              /\ IsStatic(left) => resolved[cursor] = value[1]
              /\ ~IsStatic(left) => variant # <<>> /\ resolved[cursor] = variant[1]
  <2>1. evaluated # <<>>
    BY <1>6, <1>10, <1>11
  <2>2. ~(left.kind # "Property" /\ evaluated[1].type = "IncompleteEnumShorthand")
    BY <1>7, <1>11, <2>1
  <2>3. evaluated = value
    <3>1. ASSUME left.kind # "Property", evaluated = <<Shorthand(c.name)>> PROVE FALSE
      <4>1. evaluated[1].type = "IncompleteEnumShorthand"
        BY <3>1 DEF Shorthand
      <4> QED BY <2>2, <3>1, <4>1
    <3> QED BY <1>4, <2>1, <3>1
  <2> HIDE DEF checked
  <2>4. CASE IsStatic(left)
    BY <1>8, <2>1, <2>3, <2>4
  <2>5. CASE ~IsStatic(left)
    <3>1. resolved[cursor] = IF checked = <<>> THEN None ELSE checked[1]
      BY <1>9, <2>1, <2>2, <2>5
    <3>2. checked # <<>> /\ resolved[cursor] = checked[1]
      BY <1>10, <1>11, <3>1
    <3>3. checked = variant
      BY <2>3 DEF checked
    <3> QED BY <2>1, <2>3, <2>5, <3>2, <3>3
  <2> QED BY <2>4, <2>5
<1>12. ASSUME left.kind = "Property", EnumRefErrors(left.name, c) = {}, value # <<>>, variant # <<>>
       PROVE  resolved[cursor] = variant[1]
  <2>1. evaluated = value
    BY <1>4, <1>12
  <2>2. checked = variant
    BY <2>1
  <2> HIDE DEF checked, variant
  <2> QED BY <1>5, <1>9, <1>12, <2>1, <2>2
<1> QED BY <1>11, <1>12 DEF left, c, value

(* The nodes and their parents are the same, and their static tokens but   *)
(* for the current node's.                                                 *)
NodesKept ==
  /\ IsASeq(nodes') /\ DOMAIN nodes' = DOMAIN nodes
  /\ \A n \in DOMAIN nodes :
       /\ DOMAIN nodes'[n] = DOMAIN nodes[n]
       /\ nodes'[n].parent = nodes[n].parent
       /\ n # current => nodes'[n].statics = nodes[n].statics

LEMMA PartStored ==
  ASSUME NodesInv, NEW part \in {"properties", "attributes", "statics", "tweens", "priority"}, NEW v,
         nodes' = [nodes EXCEPT ![current][part] = v]
  PROVE  /\ NodesKept
         /\ nodes'[current][part] = v
         /\ part # "statics" => nodes'[current].statics = nodes[current].statics
<1> DEFINE w == [nodes[current] EXCEPT ![part] = v]
<1>1. nodes' = [nodes EXCEPT ![current] = w]
  OBVIOUS
<1>2. /\ DOMAIN w = DOMAIN nodes[current]
      /\ w.parent = nodes[current].parent
      /\ w[part] = v
      /\ part # "statics" => w.statics = nodes[current].statics
  BY DEF NodesInv
<1>3. PICK S : nodes \in Seq(S)
  BY DEF NodesInv, IsASeq
<1> HIDE DEF w
<1>4. nodes \in Seq(S \cup {w}) /\ current \in DOMAIN nodes
  BY <1>3 DEF NodesInv
<1>5. nodes' \in Seq(S \cup {w}) /\ DOMAIN nodes' = DOMAIN nodes
  BY <1>1, <1>4
<1>6. nodes'[current] = w /\ \A n \in DOMAIN nodes : n # current => nodes'[n] = nodes[n]
  BY <1>1, <1>4
<1> QED BY <1>2, <1>4, <1>5, <1>6 DEF NodesKept, IsASeq

LEMMA KnownFixed ==
  ASSUME UNCHANGED <<code, resolved>>
  PROVE  Known' = Known
<1>1. ASSUME NEW names PROVE Settled(names)' = Settled(names)
  <2>1. \A q : ConstructAt(q)' = ConstructAt(q) /\ RightOf(q)' = RightOf(q)
    BY FileFixed
  <2> QED BY <2>1 DEF Settled
<1> QED BY <1>1 DEF Known

(* A construct is passed: what it may do to the tree.                      *)
LEMMA CompiledBehind ==
  ASSUME CompileInv, ~BodyOver(cursor), ~At(cursor, "Rule"),
         cursor' = Behind(cursor), UNCHANGED <<code, resolved, current>>, NodesKept,
         \A n \in Known :
           /\ n \in DOMAIN nodes'[current].statics <=> n \in DOMAIN nodes[current].statics \/ Holds(cursor, n)
           /\ Holds(cursor, n) => nodes'[current].statics[n] = resolved[cursor]
           /\ ~Holds(cursor, n) /\ n \in DOMAIN nodes[current].statics =>
                nodes'[current].statics[n] = nodes[current].statics[n],
         DOMAIN stored \subseteq DOMAIN stored', DOMAIN stored' \subseteq DOMAIN stored \cup {cursor},
         \A q \in DOMAIN stored : q # cursor => stored'[q] = stored[q],
         \A q : q = cursor /\ Assigns(q) /\ MadeOf(RightOf(q), Known) => StoredAsResolved(q)'
  PROVE  CompileInv'
<1> DEFINE m == Len(cursor)
           s == Behind(cursor)
<1>1. Reached(cursor) /\ NodesInv /\ StoredInv
  BY DEF CompileInv
<1>2. IsPlace(cursor) /\ m \in Nat \ {0}
  BY <1>1, SamePlace DEF Reached
<1>3. Reached(s) /\ Reached(cursor)' /\ Len(s) = m
  <2>1. Reached(s)
    BY <1>1, StepBehind
  <2>2. Reached(cursor)'
    BY <2>1, FileFixed
  <2>3. Len(s) = m
    <3> DEFINE j == cursor[m] + 1
    <3>1. m \in 1 .. Len(cursor) /\ j \in Nat \ {0} /\ s = Sibling(cursor, m, j)
      BY <1>2, SamePlace, BehindFacts
    <3> HIDE DEF s, j
    <3> QED BY <1>2, <3>1, SiblingFacts
  <2> QED BY <2>1, <2>2, <2>3
<1> HIDE DEF s
<1>4. NodesInv'
  BY <1>1 DEF NodesInv, NodesKept
<1>5. Known' = Known
  BY KnownFixed
<1>6. \E chain : Chain(chain)'
  <2>1. PICK chain : Chain(chain)
    BY DEF CompileInv
  <2>2. m \in 1 .. m /\ chain[m] = current
    BY <1>2, <2>1 DEF Chain
  <2>3. ASSUME NEW i \in 1 .. m, NEW n \in Known
        PROVE  /\ n \in DOMAIN nodes'[chain[i]].statics <=> Before(s, i, n) # {}
               /\ Before(s, i, n) # {} => nodes'[chain[i]].statics[n] = resolved[LastBefore(s, i, n)]
    <3>1. /\ n \in DOMAIN nodes[chain[i]].statics <=> Before(cursor, i, n) # {}
          /\ Before(cursor, i, n) # {} => nodes[chain[i]].statics[n] = resolved[LastBefore(cursor, i, n)]
      BY <2>1, <2>3 DEF Chain
    <3>2. CASE i \in 1 .. m - 1
      <4>1. Before(s, i, n) = Before(cursor, i, n) /\ LastBefore(s, i, n) = LastBefore(cursor, i, n)
        BY <1>1, <3>2, BeforeBehind DEF s
      <4>2. nodes'[chain[i]].statics = nodes[chain[i]].statics
        <5>1. chain[i] < current
          BY <2>1, <2>2, <3>2 DEF Chain
        <5>2. chain[i] \in DOMAIN nodes /\ DOMAIN nodes = 1 .. Len(nodes) /\ current \in DOMAIN nodes /\ Len(nodes) \in Nat
          BY <1>1, <2>1, SeqFacts DEF Chain, NodesInv
        <5>3. chain[i] # current
          BY <5>1, <5>2
        <5> QED BY <5>2, <5>3 DEF NodesKept
      <4> QED BY <3>1, <4>1, <4>2
    <3>3. CASE i = m /\ Holds(cursor, n)
      <4>1. Before(s, m, n) # {} /\ LastBefore(s, m, n) = cursor
        BY <1>1, <3>3, BeforeBehind DEF s
      <4> QED BY <2>2, <3>3, <4>1
    <3>4. CASE i = m /\ ~Holds(cursor, n)
      <4>1. Before(s, m, n) = Before(cursor, m, n) /\ LastBefore(s, m, n) = LastBefore(cursor, m, n)
        BY <1>1, <3>4, BeforeBehind DEF s
      <4> QED BY <2>2, <3>1, <3>4, <4>1
    <3> QED BY <1>2, <3>2, <3>3, <3>4
  <2>4. /\ \A i \in 1 .. m : chain[i] \in DOMAIN nodes'
        /\ chain[1] = Root
        /\ \A i \in 1 .. m : i # 1 => nodes'[chain[i]].parent = chain[i - 1]
        /\ \A i \in 1 .. m : \A j \in 1 .. i - 1 : chain[j] < chain[i]
    BY <2>1 DEF Chain, NodesKept
  <2>5. \A p, i, n : Before(p, i, n)' = Before(p, i, n) /\ LastBefore(p, i, n)' = LastBefore(p, i, n)
    BY FileFixed
  <2>6. Len(cursor') = m /\ cursor' = s
    BY <1>3 DEF s
  <2>7. chain[Len(cursor')] = current'
    BY <2>2, <2>6
  <2>8. Chain(chain)'
    BY <1>5, <2>3, <2>4, <2>5, <2>6, <2>7 DEF Chain
  <2> QED BY <2>8
<1>7. StoredInv'
  <2>1. \A q : Assigns(q)' = Assigns(q) /\ ConstructAt(q)' = ConstructAt(q) /\ RightOf(q)' = RightOf(q)
    BY FileFixed
  <2>2. ASSUME NEW q, Assigns(q) PROVE Passed(q, cursor') <=> Passed(q, cursor) \/ q = cursor
    BY <1>1, <2>2, PassedBehind, AssignsStands
  <2>3. \A q \in DOMAIN stored' : Assigns(q)' => Passed(q, cursor')
    BY <1>1, <2>1, <2>2 DEF StoredInv
  <2>4. ASSUME NEW q, Assigns(q), Passed(q, cursor'), MadeOf(RightOf(q), Known)
        PROVE  StoredAsResolved(q)'
    <3>1. CASE q = cursor
      BY <2>4, <3>1
    <3>2. CASE q # cursor
      <4>1. StoredAsResolved(q)
        BY <1>1, <2>2, <2>4, <3>2 DEF StoredInv
      <4>2. q \in DOMAIN stored' <=> q \in DOMAIN stored
        BY <3>2
      <4>3. q \in DOMAIN stored => stored'[q] = stored[q]
        BY <3>2
      <4> QED BY <2>1, <4>1, <4>2, <4>3 DEF StoredAsResolved
    <3> QED BY <3>1, <3>2
  <2> QED BY <1>5, <2>1, <2>3, <2>4 DEF StoredInv
<1> QED BY <1>3, <1>4, <1>6, <1>7 DEF CompileInv

LEMMA NothingStored ==
  ASSUME CompileInv, ~BodyOver(cursor), ~At(cursor, "Rule"),
         cursor' = Behind(cursor), UNCHANGED <<code, resolved, current, nodes, stored>>,
         \A n \in Known : ~Holds(cursor, n),
         Assigns(cursor) /\ MadeOf(RightOf(cursor), Known) =>
           \/ resolved[cursor].type \in {"None", "IncompleteEnumShorthand"}
           \/ ConstructAt(cursor).left.kind = "Property" /\ Len(cursor) = 1
  PROVE  CompileInv'
<1>1. Reached(cursor) /\ NodesInv /\ StoredInv
  BY DEF CompileInv
<1>2. NodesKept
  BY <1>1 DEF NodesKept, NodesInv
<1>3. ASSUME NEW q, q = cursor, Assigns(q), MadeOf(RightOf(q), Known) PROVE StoredAsResolved(q)'
  <2>1. q \notin DOMAIN stored
    BY <1>1, <1>3, NothingPassed DEF StoredInv, Reached
  <2>2. ConstructAt(q)' = ConstructAt(q)
    BY FileFixed
  <2>3. Len(q) = 1 => ~(Len(q) > 1)
    OBVIOUS
  <2> QED BY <1>3, <2>1, <2>2, <2>3 DEF StoredAsResolved
<1> QED BY <1>2, <1>3, CompiledBehind

Stores(part, w, v) == nodes' = [nodes EXCEPT ![current][part] = w] /\ stored' = Inserted(stored, cursor, v)

LEMMA ValueStored ==
  ASSUME CompileInv, ~BodyOver(cursor), ~At(cursor, "Rule"),
         cursor' = Behind(cursor), UNCHANGED <<code, resolved, current>>,
         NEW part \in {"properties", "attributes", "statics", "tweens", "priority"}, NEW name, NEW v, NEW w,
         Stores(part, w, v),
         part = "statics" => w = Inserted(nodes[current].statics, name, v),
         \A n \in Known : Holds(cursor, n) <=> part = "statics" /\ n = name,
         \A n \in Known : Holds(cursor, n) => v = resolved[cursor],
         Assigns(cursor) /\ MadeOf(RightOf(cursor), Known) =>
           \/ v = resolved[cursor]
           \/ /\ resolved[cursor].type \in {"None", "IncompleteEnumShorthand"}
              /\ ConstructAt(cursor).left.kind = "Property" =>
                   EnumRefErrors(ConstructAt(cursor).left.name, RightOf(cursor)) # {}
  PROVE  CompileInv'
<1>1. Reached(cursor) /\ NodesInv /\ StoredInv
  BY DEF CompileInv
<1>2. /\ NodesKept
      /\ nodes'[current][part] = w
      /\ part # "statics" => nodes'[current].statics = nodes[current].statics
  BY <1>1, PartStored DEF Stores
<1>3. /\ DOMAIN stored' = DOMAIN stored \cup {cursor}
      /\ stored'[cursor] = v
      /\ \A q \in DOMAIN stored : q # cursor => stored'[q] = stored[q]
  BY DEF Inserted, Stores
<1>4. ASSUME NEW n \in Known
      PROVE  /\ n \in DOMAIN nodes'[current].statics <=> n \in DOMAIN nodes[current].statics \/ Holds(cursor, n)
             /\ Holds(cursor, n) => nodes'[current].statics[n] = resolved[cursor]
             /\ ~Holds(cursor, n) /\ n \in DOMAIN nodes[current].statics =>
                  nodes'[current].statics[n] = nodes[current].statics[n]
  <2>1. CASE part = "statics"
    <3>1. nodes'[current].statics = Inserted(nodes[current].statics, name, v)
      BY <1>2, <2>1
    <3>2. Holds(cursor, n) <=> n = name
      BY <1>4, <2>1
    <3>3. n = name => v = resolved[cursor]
      BY <1>4, <2>1
    <3> QED BY <3>1, <3>2, <3>3 DEF Inserted
  <2>2. CASE part # "statics"
    BY <1>2, <1>4, <2>2
  <2> QED BY <2>1, <2>2
<1>5. ASSUME NEW q, q = cursor, Assigns(q), MadeOf(RightOf(q), Known) PROVE StoredAsResolved(q)'
  <2>1. ConstructAt(q)' = ConstructAt(q) /\ RightOf(q)' = RightOf(q)
    BY FileFixed
  <2> QED BY <1>3, <1>5, <2>1 DEF StoredAsResolved
<1> QED BY <1>2, <1>3, <1>4, <1>5, CompiledBehind

(* The current node is the root outside of every rule.                     *)
LEMMA RootFacts ==
  ASSUME CompileInv
  PROVE  current = Root <=> Len(cursor) = 1
<1>1. PICK chain : Chain(chain)
  BY DEF CompileInv
<1>2. Len(cursor) \in Nat \ {0}
  BY SamePlace DEF CompileInv, Reached
<1>3. CASE Len(cursor) = 1
  BY <1>1, <1>3 DEF Chain
<1>4. CASE Len(cursor) # 1
  <2>1. Len(cursor) \in 1 .. Len(cursor) /\ 1 \in 1 .. Len(cursor) - 1
    <3> DEFINE m == Len(cursor)
    <3>1. m \in Nat \ {0} /\ m # 1
      BY <1>2, <1>4
    <3> HIDE DEF m
    <3>2. m \in 1 .. m /\ 1 \in 1 .. m - 1
      BY <3>1
    <3> QED BY <3>2 DEF m
  <2>2. Root < current
    BY <1>1, <2>1 DEF Chain
  <2> QED BY <1>4, <2>2 DEF Root
<1> QED BY <1>3, <1>4

LEMMA CompileAssignmentStep ==
  ASSUME CheckInv, WalkOver(place), CompileInv, CompileAssignment, UNCHANGED <<code, resolved>>
  PROVE  CompileInv'
<1> DEFINE left == ConstructAt(cursor).left
           right == ConstructAt(cursor).right
           c == RightOf(cursor)
           value == Then(right, LAMBDA r : EvaluateConstruct(r, left.name, CompilerLookup(r)))
           variant == Then(value, LAMBDA d : ToVariant(d, left.name))
           static == Then(value, LAMBDA d : CoerceToStatic(d, left.name))
           e == EvaluateConstruct(c, left.name, CompilerLookup(c))
           known == Assigns(cursor) /\ MadeOf(c, Known)
           absent == resolved[cursor].type \in {"None", "IncompleteEnumShorthand"}
           sound == EnumRefErrors(left.name, c) = {}
<1>1. /\ ~BodyOver(cursor) /\ ~At(cursor, "Rule") /\ At(cursor, "Assignment")
      /\ cursor' = Behind(cursor) /\ UNCHANGED <<code, resolved, current>>
  BY DEF CompileAssignment, At
<1>2. /\ right = <<>> => value = <<>>
      /\ right # <<>> => value = e
      /\ value = <<>> => variant = <<>> /\ static = <<>>
      /\ value # <<>> => variant = ToVariant(value[1], left.name) /\ static = CoerceToStatic(value[1], left.name)
  BY DEF Then, RightOf
<1>3. /\ left.kind = "Property" /\ current = Root => UNCHANGED <<nodes, stored>>
      /\ left.kind = "Property" /\ current # Root => Store("properties", left.name, variant)
      /\ left.kind = "Token" => Store("attributes", left.name, variant)
      /\ IsStatic(left) => Store("statics", left.name, static)
  <2> HIDE DEF variant, static, value
  <2>1. left.kind = "Property" \/ left.kind = "Token" \/ IsStatic(left)
    BY DEF IsStatic
  <2>2. IsStatic(left) => left.kind # "Property" /\ left.kind # "Token"
    BY DEF IsStatic
  <2> QED BY <2>1, <2>2 DEF CompileAssignment, variant, static, value
<1>4. IsStatic(left) <=> left.kind # "Property" /\ left.kind # "Token"
  BY DEF IsStatic
<1>5. known /\ ~absent =>
        /\ e # <<>>
        /\ IsStatic(left) => resolved[cursor] = e[1]
        /\ ~IsStatic(left) => ToVariant(e[1], left.name) # <<>>
                              /\ resolved[cursor] = ToVariant(e[1], left.name)[1]
  BY SameValue
<1>6. known /\ left.kind = "Property" /\ sound /\ e # <<>> /\ ToVariant(e[1], left.name) # <<>>
        => resolved[cursor] = ToVariant(e[1], left.name)[1]
  BY SameValue
<1>7. known => right # <<>>
  BY DEF Assigns
<1>8. \A n : Holds(cursor, n) <=> right # <<>> /\ IsStatic(left) /\ n = left.name
  BY <1>1 DEF Holds
<1>9. ASSUME NEW n \in Known, Holds(cursor, n) PROVE known /\ ~absent
  <2>1. Assigns(cursor)
    BY <1>9 DEF Assigns, Holds, CompileInv
  <2>2. cursor \in DOMAIN resolved
    BY <2>1, AllPassed, AssignsStands DEF CheckInv, PlaceInv, CompileInv
  <2>3. IsStatic(left) /\ left.name \in Known
    BY <1>8, <1>9
  <2> QED BY <2>1, <2>2, <2>3, KnownSettled DEF Settled
<1>10. (IsStatic(left) => left.kind # "Property") /\ (current = Root <=> Len(cursor) = 1)
  BY <1>4, RootFacts
<1>11. CASE left.kind = "Property" /\ current = Root
  <2>1. UNCHANGED <<nodes, stored>> /\ \A n \in Known : ~Holds(cursor, n)
    BY <1>3, <1>8, <1>10, <1>11
  <2> QED BY <1>1, <1>10, <1>11, <2>1, NothingStored
<1>12. CASE IsStatic(left)
  <2>1. CASE static = <<>>
    <3>1. UNCHANGED <<nodes, stored>>
      BY <1>3, <1>12, <2>1 DEF Store
    <3>2. known => absent
      <4>1. ASSUME known, ~absent PROVE FALSE
        <5>1. value = e /\ e # <<>> /\ resolved[cursor] = e[1] /\ static = CoerceToStatic(e[1], left.name)
          BY <1>2, <1>5, <1>7, <1>12, <4>1
        <5>2. CoerceToStatic(e[1], left.name) = <<e[1]>>
          <6>1. e[1].type \notin {"None", "IncompleteEnumShorthand"}
            BY <4>1, <5>1
          <6> HIDE DEF e, left
          <6> QED BY <6>1 DEF CoerceToStatic
        <5> HIDE DEF e, static, left
        <5> QED BY <2>1, <5>1, <5>2
      <4> QED BY <4>1
    <3>3. \A n \in Known : ~Holds(cursor, n)
      BY <1>9, <3>2
    <3> QED BY <1>1, <3>1, <3>2, <3>3, NothingStored
  <2>2. CASE static # <<>>
    <3> DEFINE v == static[1]
               w == Inserted(nodes[current].statics, left.name, v)
    <3>1. Stores("statics", w, v)
      BY <1>3, <1>12, <2>2 DEF Store, Stores
    <3>2. known => absent \/ v = resolved[cursor]
      <4>1. ASSUME known, ~absent PROVE v = resolved[cursor]
        <5>1. value = e /\ e # <<>> /\ resolved[cursor] = e[1] /\ static = CoerceToStatic(e[1], left.name)
          BY <1>2, <1>5, <1>7, <1>12, <4>1
        <5>2. CoerceToStatic(e[1], left.name) = <<e[1]>>
          <6>1. e[1].type \notin {"None", "IncompleteEnumShorthand"}
            BY <4>1, <5>1
          <6> HIDE DEF e, left
          <6> QED BY <6>1 DEF CoerceToStatic
        <5> HIDE DEF e, static, left
        <5> QED BY <5>1, <5>2
      <4> QED BY <4>1
    <3>3. right # <<>>
      BY <1>2, <2>2
    <3>4. \A n \in Known : (Holds(cursor, n) <=> n = left.name) /\ (Holds(cursor, n) => v = resolved[cursor])
      BY <1>8, <1>9, <1>12, <3>2, <3>3
    <3>5. left.kind # "Property"
      BY <1>10, <1>12
    <3> HIDE DEF v
    <3>6. w = Inserted(nodes[current].statics, left.name, v)
      OBVIOUS
    <3> HIDE DEF w, known, static, value, variant, e
    <3> QED BY <1>1, <3>1, <3>2, <3>4, <3>5, <3>6, ValueStored DEF known
  <2> QED BY <2>1, <2>2
<1>13. CASE left.kind \in {"Property", "Token"} /\ ~(left.kind = "Property" /\ current = Root)
  <2> DEFINE part == IF left.kind = "Property" THEN "properties" ELSE "attributes"
  <2>1. Store(part, left.name, variant) /\ ~IsStatic(left) /\ part # "statics"
    BY <1>3, <1>4, <1>13
  <2>2. \A n \in Known : ~Holds(cursor, n)
    BY <1>8, <2>1
  <2>3. CASE variant = <<>>
    <3>1. UNCHANGED <<nodes, stored>>
      BY <2>1, <2>3 DEF Store
    <3>2. known => absent
      BY <1>2, <1>5, <1>7, <2>1, <2>3
    <3> HIDE DEF absent, variant, value, e
    <3> QED BY <1>1, <2>2, <3>1, <3>2, NothingStored DEF absent
  <2>4. CASE variant # <<>>
    <3> DEFINE v == variant[1]
               w == Inserted(nodes[current][part], left.name, v)
    <3>1. Stores(part, w, v)
      BY <2>1, <2>4 DEF Store, Stores
    <3>2. known => v = resolved[cursor] \/ (absent /\ (left.kind = "Property" => ~sound))
      <4>1. ASSUME known PROVE value = e /\ e # <<>> /\ variant = ToVariant(e[1], left.name)
        BY <1>2, <1>7, <2>4, <4>1
      <4>2. ASSUME known, ~absent PROVE v = resolved[cursor]
        BY <1>5, <2>1, <4>1, <4>2
      <4>3. ASSUME known, left.kind = "Property", sound PROVE v = resolved[cursor]
        BY <1>6, <2>4, <4>1, <4>3
      <4> QED BY <4>2, <4>3
    <3>3. part \in {"properties", "attributes", "statics", "tweens", "priority"}
      OBVIOUS
    <3> HIDE DEF v, w, part, variant, value, static, e
    <3>4. /\ \A n \in Known : Holds(cursor, n) <=> part = "statics" /\ n = left.name
          /\ \A n \in Known : Holds(cursor, n) => v = resolved[cursor]
          /\ part = "statics" => w = Inserted(nodes[current].statics, left.name, v)
      BY <2>1, <2>2
    <3>5. known => v = resolved[cursor]
                   \/ (absent /\ (left.kind = "Property" => EnumRefErrors(left.name, c) # {}))
      BY <3>2
    <3> QED BY <1>1, <3>1, <3>3, <3>4, <3>5, ValueStored
  <2> QED BY <2>3, <2>4
<1> QED BY <1>4, <1>11, <1>12, <1>13

LEMMA PriorityStep ==
  ASSUME CompileInv, CompilePriority, UNCHANGED <<code, resolved>>
  PROVE  CompileInv'
<1>1. /\ ~BodyOver(cursor) /\ ~At(cursor, "Rule") /\ At(cursor, "Priority")
      /\ cursor' = Behind(cursor) /\ UNCHANGED <<code, resolved, current>>
  BY DEF CompilePriority, At
<1>2. ~Assigns(cursor) /\ \A n : ~Holds(cursor, n)
  BY <1>1 DEF Assigns, Holds, At
<1>3. CASE UNCHANGED <<nodes, stored>>
  BY <1>1, <1>2, <1>3, NothingStored
<1>4. CASE ~UNCHANGED <<nodes, stored>>
  <2>1. PICK v, w : Stores("priority", w, v)
    <3> DEFINE value == Then(ConstructAt(cursor).body, LAMBDA c : EvaluateConstruct(c, NoKey, CompilerLookup(c)))
    <3> HIDE DEF value
    <3>1. /\ nodes' = [nodes EXCEPT ![current]["priority"] = <<Truncated(value[1].n)>>]
          /\ stored' = Inserted(stored, cursor, value[1])
      BY <1>4 DEF CompilePriority, value
    <3> QED BY <3>1 DEF Stores
  <2> QED BY <1>1, <1>2, <2>1, ValueStored
<1> QED BY <1>3, <1>4

LEMMA TweenStep ==
  ASSUME CompileInv, CompileTween, UNCHANGED <<code, resolved>>
  PROVE  CompileInv'
<1>1. /\ ~BodyOver(cursor) /\ ~At(cursor, "Rule") /\ At(cursor, "Tween")
      /\ cursor' = Behind(cursor) /\ UNCHANGED <<code, resolved, current>>
  BY DEF CompileTween, At
<1>2. ~Assigns(cursor) /\ \A n : ~Holds(cursor, n)
  BY <1>1 DEF Assigns, Holds, At
<1>3. CASE UNCHANGED <<nodes, stored>>
  BY <1>1, <1>2, <1>3, NothingStored
<1>4. CASE ~UNCHANGED <<nodes, stored>>
  <2>1. PICK v, w : Stores("tweens", w, v)
    <3> DEFINE tween == ConstructAt(cursor)
               value == Then(tween.body, LAMBDA c : TweenInfoOf(c, CompilerLookup(c)))
               w == Inserted(nodes[current]["tweens"], tween.name[1], value[1])
    <3> HIDE DEF value
    <3>1. Store("tweens", tween.name[1], value)
      BY <1>4 DEF CompileTween, value
    <3>2. nodes' = [nodes EXCEPT ![current]["tweens"] = w] /\ stored' = Inserted(stored, cursor, value[1])
      BY <1>4, <3>1 DEF Store
    <3> HIDE DEF w
    <3> QED BY <3>2 DEF Stores
  <2> QED BY <1>1, <1>2, <2>1, ValueStored
<1> QED BY <1>3, <1>4

(* What has been passed stays passed, and nothing is stored.               *)
LEMMA StoredKept ==
  ASSUME StoredInv, UNCHANGED <<code, resolved, stored>>,
         \A q : Assigns(q) => (Passed(q, cursor') <=> Passed(q, cursor))
  PROVE  StoredInv'
<1>1. \A q : Assigns(q)' = Assigns(q) /\ ConstructAt(q)' = ConstructAt(q) /\ RightOf(q)' = RightOf(q)
  BY FileFixed
<1>2. Known' = Known
  BY KnownFixed
<1>3. ASSUME NEW q PROVE StoredAsResolved(q)' = StoredAsResolved(q)
  BY <1>1 DEF StoredAsResolved
<1> QED BY <1>1, <1>2, <1>3 DEF StoredInv

LEMMA EnterCompiledStep ==
  ASSUME CompileInv, EnterCompiledRule, UNCHANGED <<code, resolved>>
  PROVE  CompileInv'
<1> DEFINE m == Len(cursor)
           s == IntoBody(cursor)
           N == Len(nodes)
<1>1. Reached(cursor) /\ NodesInv /\ StoredInv
  BY DEF CompileInv
<1>2. /\ At(cursor, "Rule") /\ cursor' = s /\ nodes' = Append(nodes, TreeNode(current)) /\ current' = N + 1
      /\ UNCHANGED stored
  BY DEF EnterCompiledRule
<1>3. IsPlace(cursor) /\ m \in Nat \ {0}
  BY <1>1, SamePlace DEF Reached
<1>4. Reached(s) /\ \A q : IsPlace(q) => (Passed(q, s) <=> Passed(q, cursor))
  BY <1>1, <1>2, StepInto
<1>5. Len(s) = m + 1
  BY <1>3, IntoFacts
<1>6. IsASeq(nodes) /\ N \in Nat /\ DOMAIN nodes = 1 .. N /\ current \in 1 .. N
  BY <1>1, SeqFacts DEF NodesInv
<1> DEFINE t == TreeNode(current)
<1>7. /\ IsASeq(nodes') /\ Len(nodes') = N + 1
      /\ nodes'[N + 1] = t
      /\ \A n \in 1 .. N : nodes'[n] = nodes[n]
  <2>1. nodes' = Append(nodes, t)
    BY <1>2
  <2> HIDE DEF t
  <2> QED BY <1>6, <2>1, AppendFacts
<1>8. DOMAIN nodes' = 1 .. N + 1
  BY <1>7, SeqFacts
<1>9. /\ DOMAIN t = {"parent", "properties", "attributes", "statics", "tweens", "priority"}
      /\ t.parent = current /\ DOMAIN t.statics = {}
  BY DEF TreeNode, Nothing
<1> HIDE DEF t, s, N
<1>10. NodesInv'
  <2>1. ASSUME NEW n \in 1 .. N + 1
        PROVE  /\ DOMAIN nodes'[n] = {"parent", "properties", "attributes", "statics", "tweens", "priority"}
               /\ n # Root => nodes'[n].parent \in 1 .. n - 1
    <3>1. CASE n = N + 1
      BY <1>6, <1>7, <1>9, <3>1
    <3>2. CASE n \in 1 .. N
      BY <1>1, <1>6, <1>7, <3>2 DEF NodesInv
    <3> QED BY <1>6, <3>1, <3>2
  <2>2. current' \in DOMAIN nodes'
    BY <1>2, <1>6, <1>8
  <2> QED BY <1>7, <1>8, <2>1, <2>2 DEF NodesInv
<1>11. \E chain : Chain(chain)'
  <2>1. PICK chain : Chain(chain)
    BY DEF CompileInv
  <2>0. PICK more : more = [i \in 1 .. m + 1 |-> IF i = m + 1 THEN N + 1 ELSE chain[i]]
    OBVIOUS
  <2>2. more[m + 1] = N + 1 /\ \A i \in 1 .. m : more[i] = chain[i] /\ chain[i] \in 1 .. N
    BY <1>3, <1>6, <2>0, <2>1 DEF Chain
  <2>3. m \in 1 .. m /\ 1 \in 1 .. m /\ (m + 1) - 1 = m
    BY <1>3
  <2>4. more[1] = Root
    BY <2>1, <2>2, <2>3 DEF Chain
  <2>5. ASSUME NEW i \in 1 .. m + 1
        PROVE  /\ more[i] \in 1 .. N + 1
               /\ i # 1 => nodes'[more[i]].parent = more[i - 1]
               /\ \A j \in 1 .. i - 1 : more[j] < more[i]
    <3>1. CASE i = m + 1
      <4>1. nodes'[more[i]].parent = chain[m]
        BY <1>7, <1>9, <2>1, <2>2, <3>1 DEF Chain
      <4>2. \A j \in 1 .. m : more[j] < N + 1
        BY <1>6, <2>2
      <4>3. N + 1 \in 1 .. N + 1
        BY <1>6
      <4> QED BY <2>2, <2>3, <3>1, <4>1, <4>2, <4>3
    <3>2. CASE i \in 1 .. m
      <4>1. more[i] = chain[i] /\ chain[i] \in 1 .. N /\ chain[i] \in 1 .. N + 1
        BY <1>6, <2>2, <3>2
      <4>2. nodes'[chain[i]] = nodes[chain[i]]
        BY <1>7, <4>1
      <4>3. i # 1 => nodes[chain[i]].parent = chain[i - 1] /\ i - 1 \in 1 .. m
        BY <1>3, <2>1, <3>2 DEF Chain
      <4>4. \A j \in 1 .. i - 1 : j \in 1 .. m /\ chain[j] < chain[i]
        BY <1>3, <2>1, <3>2 DEF Chain
      <4> QED BY <2>2, <4>1, <4>2, <4>3, <4>4
    <3> QED BY <1>3, <3>1, <3>2
  <2>6. ASSUME NEW i \in 1 .. m + 1, NEW n \in Known
        PROVE  /\ n \in DOMAIN nodes'[more[i]].statics <=> Before(s, i, n) # {}
               /\ Before(s, i, n) # {} => nodes'[more[i]].statics[n] = resolved[LastBefore(s, i, n)]
    <3>1. CASE i = m + 1
      <4>1. Before(s, i, n) = {}
        BY <1>1, <3>1, BeforeInto DEF s
      <4> QED BY <1>7, <1>9, <2>2, <3>1, <4>1
    <3>2. CASE i \in 1 .. m
      <4>1. Before(s, i, n) = Before(cursor, i, n) /\ LastBefore(s, i, n) = LastBefore(cursor, i, n)
        BY <1>1, <3>2, BeforeInto DEF s
      <4>2. nodes'[more[i]] = nodes[chain[i]]
        BY <1>7, <2>2, <3>2
      <4> QED BY <2>1, <2>6, <3>2, <4>1, <4>2 DEF Chain
    <3> QED BY <1>3, <3>1, <3>2
  <2>7. Len(cursor') = m + 1 /\ cursor' = s
    BY <1>2, <1>5
  <2>8. \A p, i, n : Before(p, i, n)' = Before(p, i, n) /\ LastBefore(p, i, n)' = LastBefore(p, i, n)
    BY FileFixed
  <2>9. Known' = Known /\ more[Len(cursor')] = current'
    BY <1>2, <2>2, <2>7, KnownFixed
  <2>10. /\ \A i \in 1 .. Len(cursor') : more[i] \in DOMAIN nodes'
         /\ \A i \in 1 .. Len(cursor') : i # 1 => nodes'[more[i]].parent = more[i - 1]
         /\ \A i \in 1 .. Len(cursor') : \A j \in 1 .. i - 1 : more[j] < more[i]
    BY <1>8, <2>5, <2>7
  <2>11. \A i \in 1 .. Len(cursor') : \A n \in Known' :
           /\ n \in DOMAIN nodes'[more[i]].statics <=> Before(cursor, i, n)' # {}
           /\ Before(cursor, i, n)' # {} => nodes'[more[i]].statics[n] = resolved'[LastBefore(cursor, i, n)']
    BY <2>6, <2>7, <2>8, <2>9
  <2>12. Chain(more)'
    BY <2>4, <2>9, <2>10, <2>11 DEF Chain
  <2> QED BY <2>12
<1>12. StoredInv'
  <2>1. \A q : Assigns(q) => (Passed(q, cursor') <=> Passed(q, cursor))
    BY <1>2, <1>4 DEF Assigns, Reached
  <2> QED BY <1>1, <1>2, <2>1, StoredKept
<1>13. Reached(cursor)'
  BY <1>2, <1>4, FileFixed
<1> QED BY <1>10, <1>11, <1>12, <1>13 DEF CompileInv

LEMMA LeaveCompiledStep ==
  ASSUME CompileInv, LeaveCompiledRule, UNCHANGED <<code, resolved>>
  PROVE  CompileInv'
<1> DEFINE m == Len(cursor)
           s == OutOfBody(cursor)
<1>1. Reached(cursor) /\ NodesInv /\ StoredInv
  BY DEF CompileInv
<1>2. m > 1 /\ BodyOver(cursor) /\ cursor' = s /\ current' = nodes[current].parent /\ UNCHANGED <<nodes, stored>>
  BY DEF LeaveCompiledRule
<1>3. IsPlace(cursor) /\ m \in Nat \ {0} /\ m - 1 \in Nat \ {0}
  BY <1>1, <1>2, SamePlace DEF Reached
<1>4. Reached(s) /\ \A q : Assigns(q) => (Passed(q, s) <=> Passed(q, cursor))
  BY <1>1, <1>2, StepOut, AssignsStands
<1>5. Len(s) = m - 1
  <2> DEFINE i == m - 1
             j == cursor[m - 1] + 1
  <2>1. s = Sibling(cursor, i, j)
    BY <1>2, <1>3, OutFacts
  <2>2. i \in 1 .. Len(cursor)
    <3>1. m \in Nat /\ m - 1 \in Nat \ {0} /\ m = Len(cursor)
      BY <1>3
    <3> HIDE DEF m
    <3>2. m - 1 \in 1 .. m
      BY <3>1
    <3> QED BY <3>1, <3>2
  <2>3. j \in Nat \ {0}
    BY <1>3, <2>2, SamePlace
  <2> HIDE DEF s, i, j
  <2>4. Len(s) = i
    BY <1>3, <2>1, <2>2, <2>3, SiblingFacts
  <2> QED BY <2>4 DEF i
<1>6. PICK chain : Chain(chain)
  BY DEF CompileInv
<1>7. /\ m \in 1 .. m /\ m # 1 /\ m - 1 \in 1 .. m
      /\ \A i \in 1 .. m - 1 : i \in 1 .. m
      /\ chain[m] = current
  <2>1. chain[m] = current
    BY <1>6 DEF Chain
  <2> HIDE DEF m
  <2> QED BY <1>2, <1>3, <2>1
<1>8. current' = chain[m - 1]
  BY <1>2, <1>6, <1>7 DEF Chain
<1> HIDE DEF s
<1>9. NodesInv'
  <2>1. current' \in DOMAIN nodes
    BY <1>6, <1>7, <1>8 DEF Chain
  <2> QED BY <1>1, <1>2, <2>1 DEF NodesInv
<1>10. Chain(chain)'
  <2>1. ASSUME NEW i \in 1 .. m - 1, NEW n \in Known
        PROVE  /\ n \in DOMAIN nodes[chain[i]].statics <=> Before(s, i, n) # {}
               /\ Before(s, i, n) # {} => nodes[chain[i]].statics[n] = resolved[LastBefore(s, i, n)]
    <3>1. Before(s, i, n) = Before(cursor, i, n) /\ LastBefore(s, i, n) = LastBefore(cursor, i, n)
      BY <1>1, <1>2, BeforeOut DEF s
    <3> QED BY <1>6, <1>7, <2>1, <3>1 DEF Chain
  <2>2. /\ \A i \in 1 .. m - 1 : chain[i] \in DOMAIN nodes
        /\ chain[1] = Root
        /\ \A i \in 1 .. m - 1 : i # 1 => nodes[chain[i]].parent = chain[i - 1]
        /\ \A i \in 1 .. m - 1 : \A j \in 1 .. i - 1 : chain[j] < chain[i]
    BY <1>6, <1>7 DEF Chain
  <2>3. Len(cursor') = m - 1 /\ cursor' = s
    BY <1>2, <1>5
  <2>4. \A p, i, n : Before(p, i, n)' = Before(p, i, n) /\ LastBefore(p, i, n)' = LastBefore(p, i, n)
    BY FileFixed
  <2>5. Known' = Known /\ chain[Len(cursor')] = current'
    BY <1>8, <2>3, KnownFixed
  <2> QED BY <1>2, <2>1, <2>2, <2>3, <2>4, <2>5 DEF Chain
<1>11. StoredInv'
  BY <1>1, <1>2, <1>4, StoredKept
<1>12. Reached(cursor)'
  BY <1>2, <1>4, FileFixed
<1> QED BY <1>9, <1>10, <1>11, <1>12 DEF CompileInv

LEMMA CompileStep ==
  ASSUME CheckInv, WalkOver(place), CompileInv, CompileNext, UNCHANGED <<code, resolved>>
  PROVE  CompileInv'
<1>1. CASE CompileAssignment
  BY <1>1, CompileAssignmentStep
<1>2. CASE CompilePriority
  BY <1>2, PriorityStep
<1>3. CASE CompileTween
  BY <1>3, TweenStep
<1>4. CASE EnterCompiledRule
  BY <1>4, EnterCompiledStep
<1>5. CASE LeaveCompiledRule
  BY <1>5, LeaveCompiledStep
<1> QED BY <1>1, <1>2, <1>3, <1>4, <1>5 DEF CompileNext

-----------------------------------------------------------------------------
(* Both walks together.                                                    *)

LEMMA AtBeginning ==
  /\ Reached(Beginning) /\ Len(Beginning) = 1
  /\ \A n : Before(Beginning, 1, n) = {}
<1>1. Beginning \in Seq(Nat \ {0}) /\ Beginning # <<>> /\ Len(Beginning) = 1 /\ Beginning[1] = 1
  BY DEF Beginning
<1> QED BY <1>1 DEF Reached, IsPlace, Before

LEMMA CompileStart ==
  ASSUME CompileInit
  PROVE  CompileInv
<1> DEFINE t == TreeNode(NoNode)
<1>1. cursor = Beginning /\ nodes = <<t>> /\ current = Root /\ stored = Nothing
  BY DEF CompileInit
<1>2. /\ DOMAIN t = {"parent", "properties", "attributes", "statics", "tweens", "priority"}
      /\ DOMAIN t.statics = {}
  BY DEF TreeNode, Nothing
<1> HIDE DEF t
<1>3. nodes \in Seq({t}) /\ DOMAIN nodes = {1} /\ nodes[1] = t
  BY <1>1
<1>4. NodesInv
  BY <1>1, <1>2, <1>3 DEF NodesInv, IsASeq, Root
<1>5. Reached(cursor) /\ Len(cursor) = 1 /\ (\A n : Before(cursor, 1, n) = {})
      /\ \A q : Assigns(q) => ~Passed(q, cursor)
  BY <1>1, AtBeginning, NothingPassed DEF Assigns, Reached
<1>6. \E chain : Chain(chain)
  <2>1. PICK chain : chain = [i \in {1} |-> 1]
    OBVIOUS
  <2>2. Chain(chain)
    BY <1>1, <1>2, <1>3, <1>5, <2>1 DEF Chain, Root
  <2> QED BY <2>2
<1>7. StoredInv
  BY <1>1, <1>5 DEF StoredInv, Nothing
<1> QED BY <1>4, <1>5, <1>6, <1>7 DEF CompileInv

LEMMA InvInit == Init => Inv
<1> SUFFICES ASSUME Init PROVE Inv
  OBVIOUS
<1>1. /\ place = Beginning /\ scopes = <<NoValues>> /\ classes = <<>> /\ resolved = NoValues
      /\ CompileInit /\ phase = "check"
  BY DEF Init, CheckInit
<1>2. PlaceInv
  <2>1. \A q : Assigns(q) => ~Passed(q, Beginning)
    BY NothingPassed DEF Assigns, Reached
  <2> QED BY <1>1, <2>1, AtBeginning DEF PlaceInv, NoValues
<1>3. ScopesInv
  <2>1. scopes \in Seq({NoValues}) /\ Len(scopes) = 1 /\ scopes[1] = NoValues
    BY <1>1
  <2>2. DOMAIN NoValues = {}
    BY DEF NoValues
  <2>3. IsASeq(scopes)
    BY <2>1 DEF IsASeq
  <2>4. \A i \in 1 .. 1 : i = 1
    OBVIOUS
  <2>5. Len(place) = 1 /\ \A n : Before(place, 1, n) = {}
    BY <1>1, AtBeginning
  <2> QED BY <2>1, <2>2, <2>3, <2>4, <2>5 DEF ScopesInv
<1>4. ResolvedInv /\ ErrorsInv
  BY <1>1 DEF ResolvedInv, ErrorsInv, NoValues
<1>5. ClassesInv
  BY <1>1, AtBeginning DEF ClassesInv, IsASeq
<1> QED BY <1>1, <1>2, <1>3, <1>4, <1>5 DEF Inv, CheckInv

LEMMA InvStep == Inv /\ [Next]_vars => Inv'
<1> SUFFICES ASSUME Inv, [Next]_vars PROVE Inv'
  OBVIOUS
<1>1. ASSUME UNCHANGED <<code, checkVars>> PROVE CheckInv' /\ WalkOver(place)' = WalkOver(place)
  <2>1. UNCHANGED <<code, strict, place, scopes, classes, errors, resolved>>
    BY <1>1 DEF checkVars
  <2>2. CheckInv
    BY DEF Inv
  <2>3. /\ \A q : Assigns(q)' = Assigns(q)
        /\ \A q : Reached(q)' = Reached(q)
        /\ \A p, i, n : Before(p, i, n)' = Before(p, i, n) /\ LastBefore(p, i, n)' = LastBefore(p, i, n)
        /\ \A p : ClassesAt(p)' = ClassesAt(p)
        /\ \A p : WalkOver(p)' = WalkOver(p)
    BY <2>1, FileFixed
  <2>4. PlaceInv'
    BY <2>1, <2>2, <2>3 DEF CheckInv, PlaceInv
  <2>5. ScopesInv'
    BY <2>1, <2>2, <2>3 DEF CheckInv, ScopesInv
  <2>6. ClassesInv'
    BY <2>1, <2>2, <2>3 DEF CheckInv, ClassesInv
  <2>7. ResolvedInv' /\ ErrorsInv'
    BY <2>1, <2>2, ResolvedKept DEF CheckInv
  <2> QED BY <2>1, <2>3, <2>4, <2>5, <2>6, <2>7 DEF CheckInv
<1>2. ASSUME UNCHANGED <<code, resolved, cursor, nodes, current, stored>>, CompileInv PROVE CompileInv'
  <2>1. /\ \A q : Assigns(q)' = Assigns(q) /\ ConstructAt(q)' = ConstructAt(q) /\ RightOf(q)' = RightOf(q)
        /\ \A q : Reached(q)' = Reached(q)
        /\ \A p, i, n : Before(p, i, n)' = Before(p, i, n) /\ LastBefore(p, i, n)' = LastBefore(p, i, n)
    BY <1>2, FileFixed
  <2>2. Known' = Known
    BY <1>2, KnownFixed
  <2>3. NodesInv'
    BY <1>2 DEF CompileInv, NodesInv
  <2>4. ASSUME NEW chain, Chain(chain) PROVE Chain(chain)'
    BY <1>2, <2>1, <2>2, <2>4 DEF Chain
  <2>5. StoredInv'
    BY <1>2, StoredKept DEF CompileInv
  <2> QED BY <1>2, <2>1, <2>3, <2>4, <2>5 DEF CompileInv
<1>3. CASE Check
  <2>1. CheckInv' /\ UNCHANGED <<code, phase>> /\ phase = "check"
    BY <1>3, CheckStep DEF Check, Inv
  <2>2. CompileInit'
    BY <1>3, <2>1 DEF Check, Inv, compileVars, CompileInit
  <2> QED BY <2>1, <2>2 DEF Inv
<1>4. CASE Checked
  <2>1. UNCHANGED <<code, checkVars>> /\ phase' = "compile" /\ WalkOver(place) /\ CompileInit
    BY <1>4 DEF Checked, Inv
  <2>2. UNCHANGED <<code, resolved, cursor, nodes, current, stored>>
    BY <1>4 DEF Checked, checkVars, compileVars
  <2> QED BY <1>1, <1>2, <2>1, <2>2, CompileStart DEF Inv
<1>5. CASE Compile
  <2>1. UNCHANGED <<code, checkVars, phase, resolved>> /\ phase = "compile" /\ CompileNext
    BY <1>5 DEF Compile, checkVars
  <2>2. CompileInv'
    BY <2>1, CompileStep DEF Inv
  <2> QED BY <1>1, <2>1, <2>2 DEF Inv
<1>6. CASE Compiled
  <2>1. UNCHANGED <<code, checkVars, compileVars>> /\ phase = "compile" /\ phase' = "done" /\ WalkOver(cursor)
    BY <1>6 DEF Compiled
  <2>2. UNCHANGED <<code, resolved, cursor, nodes, current, stored>>
    BY <2>1 DEF checkVars, compileVars
  <2>3. WalkOver(cursor)' = WalkOver(cursor)
    BY <2>2, FileFixed
  <2> QED BY <1>1, <1>2, <2>1, <2>2, <2>3 DEF Inv
<1>7. CASE UNCHANGED vars
  <2>1. UNCHANGED <<code, checkVars, compileVars, phase>>
    BY <1>7 DEF vars
  <2>2. UNCHANGED <<code, resolved, cursor, nodes, current, stored, aborted, phase>>
    BY <2>1 DEF checkVars, compileVars
  <2>3. WalkOver(cursor)' = WalkOver(cursor)
    BY <2>2, FileFixed
  <2>4. CompileInit' = CompileInit
    BY <2>2 DEF CompileInit
  <2> QED BY <1>1, <1>2, <2>1, <2>2, <2>3, <2>4 DEF Inv
<1>8. CASE Terminated
  BY <1>7, <1>8 DEF Terminated
<1> QED BY <1>3, <1>4, <1>5, <1>6, <1>7, <1>8 DEF Next

(* In every state the scopes, the nodes and all that is resolved, reported *)
(* and stored come from the assignments that the two walks have passed.    *)
THEOREM Invariance == Spec => []Inv
BY InvInit, InvStep, PTL DEF Spec

LEMMA AllStored ==
  ASSUME Inv, Done, NEW names \in SUBSET TokenNames, Settled(names),
         NEW at \in DOMAIN resolved, MadeOf(RightOf(at), names)
  PROVE  StoredAsResolved(at)
<1>1. CheckInv /\ CompileInv /\ WalkOver(cursor)
  BY DEF Inv, Done
<1>2. names \subseteq Known
  BY DEF Known
<1>3. MadeOf(RightOf(at), Known)
  BY <1>2 DEF MadeOf
<1>4. Assigns(at)
  BY <1>1 DEF CheckInv, PlaceInv
<1>5. Passed(at, cursor)
  BY <1>1, <1>4, AllPassed, AssignsStands DEF CompileInv
<1> QED BY <1>1, <1>3, <1>4, <1>5 DEF CompileInv, StoredInv

(* Whatever an evaluation comes to, what the typechecker resolves an       *)
(* assignment to is what the compiler stores for it, if it is made of      *)
(* tokens that have a value on both sides.                                 *)
THEOREM CompiledAsResolved == Spec => []ResolvedIsCompiled
<1>1. Inv => ResolvedIsCompiled
  <2> SUFFICES ASSUME Inv, Done, NEW names \in SUBSET TokenNames, Settled(names), NEW at \in DOMAIN resolved,
                      MadeOf(RightOf(at), names),
                      resolved[at].type \notin {"None", "IncompleteEnumShorthand"},
                      ConstructAt(at).left.kind = "Property" => Len(at) > 1
               PROVE  at \in DOMAIN stored /\ stored[at] = resolved[at]
    BY DEF ResolvedIsCompiled
  <2>1. StoredAsResolved(at)
    BY AllStored
  <2> QED BY <2>1 DEF StoredAsResolved
<1> QED BY <1>1, Invariance, PTL

(* Where nothing is reported, what is stored for a property has a type     *)
(* that the property takes, for the classes of the nearest rule around     *)
(* that has selectors.                                                     *)
THEOREM PropertiesFit == Spec => []SilentPropertiesFit
<1>1. Inv => SilentPropertiesFit
  <2> SUFFICES ASSUME Inv, Done, Silent, NEW names \in SUBSET TokenNames, Settled(names),
                      NEW at \in Assigned("Property") \cap DOMAIN stored,
                      MadeOf(RightOf(at), names), IsVariant(stored[at])
               PROVE  Fits(at)
    BY DEF SilentPropertiesFit
  <2> DEFINE property == ConstructAt(at).left.name
             ofClasses == ClassesAt(at)
             found == [i \in DOMAIN ofClasses |-> LookupProperty(ofClasses[i], property)]
             missing == {i \in DOMAIN found : found[i] = <<>>}
             having == {i \in DOMAIN found : found[i] # <<>>}
             unknown == IF strict THEN missing # {} ELSE missing = DOMAIN found
             matches == VariantMatches(found[Min(having)][1], stored[at])
  <2>1. at \in DOMAIN resolved /\ ConstructAt(at).left.kind = "Property"
    BY DEF Assigned
  <2>2. CheckedWell(at)
    BY <2>1 DEF Inv, CheckInv, ErrorsInv, Silent
  <2>3. stored[at] = resolved[at]
    BY <2>1, <2>2, AllStored DEF StoredAsResolved, CheckedWell
  <2>4. CheckProperty(property, stored[at], ofClasses) = {}
    BY <2>1, <2>2, <2>3 DEF CheckedWell
  <2>5. DOMAIN found = DOMAIN ofClasses /\ having = DOMAIN found \ missing
    OBVIOUS
  <2> HIDE DEF ofClasses, missing, having
  <2>6. ofClasses # <<>> => ~unknown /\ matches
    <3>1. ASSUME ofClasses # <<>>, unknown PROVE FALSE
      <4>1. CheckProperty(property, stored[at], ofClasses) = {"UnknownProperty"}
        BY <3>1 DEF CheckProperty, missing
      <4> QED BY <2>4, <4>1
    <3>2. ASSUME ofClasses # <<>>, ~unknown, ~matches PROVE FALSE
      <4>1. CheckProperty(property, stored[at], ofClasses) = {"PropertyTypeMismatch"}
        BY <2>5, <3>2 DEF CheckProperty, missing
      <4> QED BY <2>4, <4>1
    <3> QED BY <3>1, <3>2
  <2>7. ASSUME DOMAIN found # {}
        PROVE  having # {} /\ (strict => having = DOMAIN found) /\ matches
    <3>1. ofClasses # <<>>
      BY <2>5, <2>7
    <3>2. ~unknown /\ matches
      BY <2>6, <3>1
    <3>3. CASE strict
      BY <2>5, <2>7, <3>2, <3>3
    <3>4. CASE ~strict
      <4>1. missing \subseteq DOMAIN found
        BY DEF missing
      <4> QED BY <2>5, <3>2, <3>4, <4>1
    <3> QED BY <3>3, <3>4
  <2> QED BY <2>7 DEF Fits, ofClasses, having
<1> QED BY <1>1, Invariance, PTL

(***************************************************************************)
(* Keypoints.                                                              *)
(***************************************************************************)

Clock == 0 .. Unit

(* A sequence of which each item is untimed or has a time.                 *)
Timeable(items) ==
  /\ IsASeq(items)
  /\ \A i \in DOMAIN items : items[i].time = <<>> \/ \E t \in Clock : items[i].time = <<t>>

(* The times that are given are times.                                     *)
LEMMA TimedFacts ==
  ASSUME NEW items, Timeable(items)
  PROVE  /\ Len(items) \in Nat /\ DOMAIN items = 1 .. Len(items)
         /\ TimedOnes(items) \in SUBSET (1 .. Len(items))
         /\ IsFiniteSet(TimedOnes(items))
         /\ \A i \in TimedOnes(items) : items[i].time[1] \in Clock /\ items[i].time = <<items[i].time[1]>>
         /\ \A i \in DOMAIN items : i \notin TimedOnes(items) => items[i].time = <<>>
<1>1. Len(items) \in Nat /\ DOMAIN items = 1 .. Len(items)
  BY SeqFacts DEF Timeable
<1>2. TimedOnes(items) \in SUBSET (1 .. Len(items))
  BY <1>1 DEF TimedOnes
<1>3. IsFiniteSet(TimedOnes(items))
  <2>1. IsFiniteSet(1 .. Len(items))
    BY <1>1, FS_Interval
  <2> QED BY <1>2, <2>1, FS_Subset
<1>4. ASSUME NEW i \in TimedOnes(items)
      PROVE  items[i].time[1] \in Clock /\ items[i].time = <<items[i].time[1]>>
  <2>1. i \in DOMAIN items /\ items[i].time # <<>>
    BY DEF TimedOnes, GivenTime
  <2>2. PICK t \in Clock : items[i].time = <<t>>
    BY <2>1 DEF Timeable
  <2> QED BY <2>2
<1>5. \A i \in DOMAIN items : i \notin TimedOnes(items) => items[i].time = <<>>
  BY DEF TimedOnes, GivenTime
<1> QED BY <1>1, <1>2, <1>3, <1>4, <1>5

(* Numbers can be put in the order of the times they have.                 *)
Orderable(T, time) ==
  \E o \in [1 .. Cardinality(T) -> T] :
    \A j, k \in 1 .. Cardinality(T) : j < k => o[j] # o[k] /\ time[o[j]] <= time[o[k]]

LEMMA OrderExists ==
  ASSUME NEW n \in Nat, NEW time \in [1 .. n -> Clock], NEW S \in SUBSET (1 .. n)
  PROVE  Orderable(S, time)
<1> DEFINE Worst == {T \in SUBSET (1 .. n) : ~Orderable(T, time)}
           Sizes == {Cardinality(T) : T \in Worst}
<1>0. \A T \in SUBSET (1 .. n) : IsFiniteSet(T) /\ Cardinality(T) \in Nat
  <2>1. IsFiniteSet(1 .. n)
    BY FS_Interval
  <2>2. \A T \in SUBSET (1 .. n) : IsFiniteSet(T)
    BY <2>1, FS_Subset
  <2> QED BY <2>2, FS_CardinalityType
<1>1. SUFFICES ASSUME Worst # {} PROVE FALSE
  OBVIOUS
<1>2. Sizes \in SUBSET Nat
  BY <1>0
<1>3. Sizes # {}
  BY <1>1
<1>4. PICK m \in Sizes : \A k \in Sizes : m <= k
  <2> HIDE DEF Sizes
  <2> QED BY <1>2, <1>3, LeastExists
<1>5. PICK T \in Worst : Cardinality(T) = m
  BY <1>4
<1>6. m \in Nat /\ T \in SUBSET (1 .. n) /\ IsFiniteSet(T)
  BY <1>0, <1>2, <1>4
<1>7. CASE T = {}
  <2>1. Cardinality(T) = 0
    BY <1>7, FS_EmptySet
  <2>2. PICK o : o \in [1 .. 0 -> T]
    <3>1. [i \in 1 .. 0 |-> 0] \in [1 .. 0 -> T]
      OBVIOUS
    <3> QED BY <3>1
  <2>3. o \in [1 .. Cardinality(T) -> T]
    BY <2>1, <2>2
  <2>4. \A j, k \in 1 .. Cardinality(T) : ~ (j < k)
    BY <2>1
  <2>5. Orderable(T, time)
    BY <2>3, <2>4 DEF Orderable
  <2> QED BY <1>5, <2>5
<1>8. CASE T # {}
  <2>1. PICK f \in T : \A k \in T : time[f] <= time[k]
    <3> DEFINE times == {time[k] : k \in T}
    <3>0. \A k \in T : time[k] \in Nat
      BY <1>6 DEF Clock, Unit
    <3>1. times \in SUBSET Nat /\ times # {}
      BY <1>8, <3>0
    <3>2. PICK t \in times : \A s \in times : t <= s
      <4> HIDE DEF times
      <4> QED BY <3>1, LeastExists
    <3> QED BY <3>2
  <2>2. PICK U : U = T \ {f}
    OBVIOUS
  <2>3. IsFiniteSet(U) /\ Cardinality(U) = m - 1 /\ U \in SUBSET (1 .. n)
    BY <1>5, <1>6, <2>1, <2>2, FS_RemoveElement
  <2>4. m - 1 \in Nat
    BY <1>0, <2>3
  <2>5. Orderable(U, time)
    <3>1. SUFFICES ASSUME U \in Worst PROVE FALSE
      BY <2>3
    <3>2. Cardinality(U) \in Sizes
      BY <3>1
    <3>3. m <= m - 1
      BY <2>3, <3>2, <1>4
    <3> QED BY <3>3, <1>6
  <2>6. PICK o \in [1 .. m - 1 -> U] : \A j, k \in 1 .. m - 1 : j < k => o[j] # o[k] /\ time[o[j]] <= time[o[k]]
    BY <2>3, <2>5 DEF Orderable
  <2>7. PICK g : g = [i \in 1 .. m |-> IF i = 1 THEN f ELSE o[i - 1]]
    OBVIOUS
  <2>8. \A i \in 1 .. m : i # 1 => i - 1 \in 1 .. m - 1 /\ g[i] = o[i - 1] /\ o[i - 1] \in U
    BY <1>6, <2>6, <2>7
  <2>9. g \in [1 .. m -> T]
    BY <2>1, <2>2, <2>7, <2>8
  <2>10. ASSUME NEW j \in 1 .. m, NEW k \in 1 .. m, j < k PROVE g[j] # g[k] /\ time[g[j]] <= time[g[k]]
    <3>1. k # 1 /\ g[k] = o[k - 1] /\ o[k - 1] \in U /\ k - 1 \in 1 .. m - 1
      BY <1>6, <2>8, <2>10
    <3>2. CASE j = 1
      <4>1. g[j] = f
        BY <2>7, <3>2
      <4> QED BY <2>1, <2>2, <3>1, <4>1
    <3>3. CASE j # 1
      <4>1. g[j] = o[j - 1] /\ j - 1 \in 1 .. m - 1 /\ j - 1 < k - 1
        BY <1>6, <2>8, <2>10, <3>3
      <4> QED BY <2>6, <3>1, <4>1
    <3> QED BY <3>2, <3>3
  <2>11. Orderable(T, time)
    BY <1>5, <2>9, <2>10 DEF Orderable
  <2> QED BY <1>5, <2>11
<1> QED BY <1>7, <1>8

(* Then every one of them has its place.                                   *)
LEMMA OrderOnto ==
  ASSUME NEW T, IsFiniteSet(T), NEW o \in [1 .. Cardinality(T) -> T],
         \A j, k \in 1 .. Cardinality(T) : j < k => o[j] # o[k]
  PROVE  \A t \in T : \E i \in 1 .. Cardinality(T) : o[i] = t
<1>1. PICK n : n = Cardinality(T) /\ n \in Nat
  BY FS_CardinalityType
<1>2. o \in Injection(1 .. n, T)
  <2>1. ASSUME NEW i \in 1 .. n, NEW j \in 1 .. n, o[i] = o[j] PROVE i = j
    <3>1. ~ (i < j) /\ ~ (j < i)
      BY <1>1, <2>1
    <3> QED BY <1>1, <3>1
  <2> QED BY <1>1, <2>1 DEF Injection, IsInjective
<1>3. IsFiniteSet(1 .. n) /\ Cardinality(1 .. n) = n
  BY <1>1, FS_Interval
<1>4. o \in Surjection(1 .. n, T)
  BY <1>1, <1>2, <1>3, FS_Injection
<1> QED BY <1>1, <1>4 DEF Surjection

(* A function on the first numbers is a sequence.                          *)
LEMMA FunctionIsSeq ==
  ASSUME NEW n \in Nat, NEW f, f = [i \in 1 .. n |-> f[i]]
  PROVE  IsASeq(f) /\ Len(f) = n /\ DOMAIN f = 1 .. n
<1>1. PICK S : S = {f[i] : i \in 1 .. n}
  OBVIOUS
<1>2. f \in [1 .. n -> S]
  BY <1>1
<1>3. f \in Seq(S) /\ Len(f) = n
  BY <1>2
<1> QED BY <1>3 DEF IsASeq

(* How many numbers of T there are up to i.                                *)
Rank(T, i) == Cardinality({k \in T : k <= i})

(* Ranks grow by one at each number of the set.                            *)
LEMMA RankFacts ==
  ASSUME NEW n \in Nat, NEW T \in SUBSET (1 .. n)
  PROVE  /\ \A i \in T : Rank(T, i) \in 1 .. Cardinality(T)
         /\ \A i, j \in T : i < j => Rank(T, i) < Rank(T, j)
         /\ 1 \in T => Rank(T, 1) = 1
         /\ n \in T => Rank(T, n) = Cardinality(T)
<1>1. \A S \in SUBSET (1 .. n) : IsFiniteSet(S) /\ Cardinality(S) \in Nat
  <2>1. IsFiniteSet(1 .. n)
    BY FS_Interval
  <2>2. \A S \in SUBSET (1 .. n) : IsFiniteSet(S)
    BY <2>1, FS_Subset
  <2> QED BY <2>2, FS_CardinalityType
<1>2. ASSUME NEW i \in T PROVE Rank(T, i) \in 1 .. Cardinality(T)
  <2>1. PICK S : S = {k \in T : k <= i}
    OBVIOUS
  <2>2. S \in SUBSET T /\ i \in S
    BY <1>2, <2>1
  <2>3. Cardinality(S) <= Cardinality(T)
    BY <1>1, <2>2, FS_Subset
  <2>4. Cardinality(S) # 0
    BY <1>1, <2>2, FS_EmptySet
  <2> QED BY <1>1, <2>1, <2>2, <2>3, <2>4 DEF Rank
<1>3. ASSUME NEW i \in T, NEW j \in T, i < j PROVE Rank(T, i) < Rank(T, j)
  <2>1. PICK S, U : S = {k \in T : k <= i} /\ U = {k \in T : k <= j}
    OBVIOUS
  <2>a. \A k \in T : k \in Nat
    OBVIOUS
  <2>b. j \in U /\ j \notin S
    BY <1>3, <2>1, <2>a
  <2>c. \A k \in T : k <= i => k <= j
    BY <1>3, <2>a
  <2>2. S \in SUBSET U /\ j \in U /\ j \notin S
    BY <2>1, <2>b, <2>c
  <2>3. Cardinality(S) <= Cardinality(U) /\ Cardinality(S) # Cardinality(U)
    BY <1>1, <2>1, <2>2, FS_Subset
  <2> QED BY <1>1, <2>1, <2>3 DEF Rank
<1>4. ASSUME 1 \in T PROVE Rank(T, 1) = 1
  <2>a. \A k \in T : k <= 1 <=> k = 1
    OBVIOUS
  <2>1. {k \in T : k <= 1} = {1}
    BY <1>4, <2>a
  <2> QED BY <2>1, FS_Singleton DEF Rank
<1>5. Rank(T, n) = Cardinality(T)
  <2>a. \A k \in T : k <= n
    OBVIOUS
  <2>1. {k \in T : k <= n} = T
    BY <2>a
  <2> QED BY <2>1 DEF Rank
<1> QED BY <1>2, <1>3, <1>4, <1>5

(* The untimed items are where they were, and the others in order of time. *)
WellPlaced(P, items) ==
  LET timed == TimedOnes(items)
  IN  /\ Timeable(P) /\ Len(P) = Len(items) /\ TimedOnes(P) = timed
      /\ \A i \in DOMAIN items : i \notin timed => P[i] = items[i]
      /\ \A i \in timed : \E k \in timed : P[i] = items[k]
      /\ \A i, j \in timed : i < j => P[i].time[1] <= P[j].time[1]
      /\ 1 \in timed => \A k \in timed : P[1].time[1] <= items[k].time[1]
      /\ Len(items) \in timed => \A k \in timed : items[k].time[1] <= P[Len(items)].time[1]

(* So they are in Placed, whichever order it chooses.                      *)
LEMMA PlacedFacts ==
  ASSUME NEW items, Timeable(items), NEW P, P = Placed(items)
  PROVE  WellPlaced(P, items)
<1>1. PICK n, T, m : n = Len(items) /\ T = TimedOnes(items) /\ m = Cardinality(T)
  OBVIOUS
<1>2. /\ n \in Nat /\ DOMAIN items = 1 .. n /\ T \in SUBSET (1 .. n) /\ IsFiniteSet(T)
      /\ \A i \in T : items[i].time[1] \in Clock /\ items[i].time = <<items[i].time[1]>>
      /\ \A i \in 1 .. n : i \notin T => items[i].time = <<>>
  BY <1>1, TimedFacts
<1>3. m \in Nat
  BY <1>1, <1>2, FS_CardinalityType
<1>4. PICK o : o = CHOOSE order \in [1 .. Cardinality(T) -> T] : InOrder(items, order)
  OBVIOUS
<1>5. o \in [1 .. m -> T] /\ \A j, k \in 1 .. m : j < k => o[j] # o[k] /\ items[o[j]].time[1] <= items[o[k]].time[1]
  <2>1. \E order \in [1 .. m -> T] : InOrder(items, order)
    <3>1. PICK time : time = [i \in 1 .. n |-> IF i \in T THEN items[i].time[1] ELSE 0]
      OBVIOUS
    <3>2. time \in [1 .. n -> Clock] /\ \A i \in T : time[i] = items[i].time[1]
      BY <1>2, <3>1 DEF Clock, Unit
    <3>3. Orderable(T, time)
      BY <1>2, <3>2, OrderExists
    <3>4. PICK order \in [1 .. m -> T] :
            \A j, k \in 1 .. m : j < k => order[j] # order[k] /\ time[order[j]] <= time[order[k]]
      BY <1>1, <3>3 DEF Orderable
    <3>5. \A j, k \in 1 .. m : j < k => order[j] # order[k] /\ items[order[j]].time[1] <= items[order[k]].time[1]
      BY <3>2, <3>4
    <3>6. InOrder(items, order)
      BY <3>5 DEF InOrder
    <3> QED BY <3>6
  <2>2. o \in [1 .. m -> T] /\ InOrder(items, o)
    BY <1>1, <1>4, <2>1
  <2> QED BY <2>2 DEF InOrder
<1>6. \A t \in T : \E i \in 1 .. m : o[i] = t
  <2>1. o \in [1 .. Cardinality(T) -> T] /\ \A j, k \in 1 .. Cardinality(T) : j < k => o[j] # o[k]
    BY <1>1, <1>5
  <2>2. IsFiniteSet(T)
    BY <1>2
  <2>3. \A t \in T : \E i \in 1 .. Cardinality(T) : o[i] = t
    BY <2>1, <2>2, OrderOnto
  <2> QED BY <1>1, <2>3
<1>7. P = [i \in 1 .. n |-> IF i \in T THEN items[o[Rank(T, i)]] ELSE items[i]]
  BY <1>1, <1>2, <1>4 DEF Placed, Rank
<1>8. \A i \in T : Rank(T, i) \in 1 .. m /\ o[Rank(T, i)] \in T /\ P[i] = items[o[Rank(T, i)]]
  BY <1>1, <1>2, <1>5, <1>7, RankFacts
<1>9. IsASeq(P) /\ Len(P) = n /\ DOMAIN P = 1 .. n
  <2>1. P = [i \in 1 .. n |-> P[i]]
    BY <1>7
  <2> QED BY <1>2, <2>1, FunctionIsSeq
<1>10. \A i \in 1 .. n : i \notin T => P[i] = items[i]
  BY <1>7
<1>11. Timeable(P)
  <2>1. ASSUME NEW i \in 1 .. n PROVE P[i].time = <<>> \/ \E t \in Clock : P[i].time = <<t>>
    <3>1. PICK k \in 1 .. n : P[i] = items[k]
      BY <1>2, <1>8, <1>10
    <3> QED BY <1>2, <3>1
  <2> QED BY <1>9, <2>1 DEF Timeable
<1>12. TimedOnes(P) = T
  <2>1. ASSUME NEW i \in 1 .. n PROVE P[i].time # <<>> <=> i \in T
    <3>1. CASE i \in T
      <4>1. PICK k \in T : P[i] = items[k]
        BY <1>8, <3>1
      <4> QED BY <1>2, <3>1, <4>1
    <3>2. CASE i \notin T
      BY <1>2, <1>10, <3>2
    <3> QED BY <3>1, <3>2
  <2> QED BY <1>2, <1>9, <2>1 DEF TimedOnes, GivenTime
<1>13. ASSUME NEW j \in 1 .. m, NEW k \in 1 .. m, j <= k PROVE items[o[j]].time[1] <= items[o[k]].time[1]
  <2>1. o[j] \in T /\ items[o[j]].time[1] \in Clock
    BY <1>2, <1>5
  <2>2. CASE j = k
    BY <2>1, <2>2 DEF Clock, Unit
  <2>3. CASE j < k
    BY <1>5, <2>3
  <2> QED BY <1>3, <1>13, <2>2, <2>3
<1>14. ASSUME NEW i \in T, NEW j \in T, i < j PROVE P[i].time[1] <= P[j].time[1]
  <2>1. Rank(T, i) < Rank(T, j)
    BY <1>2, <1>14, RankFacts
  <2> QED BY <1>3, <1>8, <1>13, <2>1
<1>15. ASSUME 1 \in T, NEW k \in T PROVE P[1].time[1] <= items[k].time[1]
  <2>1. Rank(T, 1) = 1
    BY <1>2, <1>15, RankFacts
  <2>2. PICK i \in 1 .. m : o[i] = k
    BY <1>6
  <2>3. 1 \in 1 .. m /\ 1 <= i /\ P[1] = items[o[1]]
    BY <1>3, <1>8, <1>15, <2>1
  <2> QED BY <1>13, <2>2, <2>3
<1>16. ASSUME n \in T, NEW k \in T PROVE items[k].time[1] <= P[n].time[1]
  <2>1. Rank(T, n) = m
    BY <1>1, <1>2, <1>16, RankFacts
  <2>2. PICK i \in 1 .. m : o[i] = k
    BY <1>6
  <2>3. m \in 1 .. m /\ i <= m /\ P[n] = items[o[m]]
    BY <1>3, <1>8, <1>16, <2>1
  <2> QED BY <1>13, <2>2, <2>3
<1> QED BY <1>1, <1>2, <1>8, <1>9, <1>10, <1>11, <1>12, <1>14, <1>15, <1>16 DEF WellPlaced

(* f is made by G, each value of the one before it, from v on.             *)
Made(f, G, n, v) == \A i \in 1 .. n : f[i] = G[i][IF i = 1 THEN v ELSE f[i - 1]]

(* There is a function over 1 .. n of which each value is made of the one  *)
(* before it.                                                              *)
LEMMA EachOfTheLast ==
  ASSUME NEW n \in Nat, NEW V, NEW v \in V, NEW G \in [1 .. n -> [V -> V]]
  PROVE  \E f \in [1 .. n -> V] : Made(f, G, n, v)
<1> DEFINE Good(k) == \E f \in [1 .. k -> V] : \A i \in 1 .. k : f[i] = G[i][IF i = 1 THEN v ELSE f[i - 1]]
           Bad == {k \in 0 .. n : ~ Good(k)}
<1>1. SUFFICES ASSUME n \in Bad PROVE FALSE
  BY DEF Made
<1>2. PICK k \in Bad : \A j \in Bad : k <= j
  <2>a. Bad # {}
    <3> HIDE DEF Bad
    <3> QED BY <1>1
  <2>b. Bad \in SUBSET Nat
    <3> HIDE DEF Good
    <3> QED OBVIOUS
  <2>1. Bad \in SUBSET Nat /\ Bad # {}
    BY <2>a, <2>b
  <2> HIDE DEF Bad
  <2> QED BY <2>1, LeastExists
<1>3. k # 0
  <2>1. Good(0)
    <3>1. [i \in 1 .. 0 |-> v] \in [1 .. 0 -> V] /\ \A i \in 1 .. 0 : FALSE
      OBVIOUS
    <3> QED BY <3>1
  <2> QED BY <1>2, <2>1
<1>4. k \in 1 .. n /\ k - 1 \in 0 .. n /\ k - 1 \in Nat /\ ~ (k <= k - 1)
  BY <1>2, <1>3
<1>5. Good(k - 1)
  <2>1. k - 1 \notin Bad
    BY <1>2, <1>4
  <2> QED BY <1>4, <2>1
<1>6. PICK f \in [1 .. k - 1 -> V] : \A i \in 1 .. k - 1 : f[i] = G[i][IF i = 1 THEN v ELSE f[i - 1]]
  BY <1>5
<1>7. PICK x : x = IF k = 1 THEN v ELSE f[k - 1]
  OBVIOUS
<1>8. x \in V /\ G[k][x] \in V
  BY <1>4, <1>6, <1>7
<1>9. PICK g : g = [i \in 1 .. k |-> IF i = k THEN G[k][x] ELSE f[i]]
  OBVIOUS
<1>10. g[k] = G[k][x] /\ \A i \in 1 .. k - 1 : g[i] = f[i]
  BY <1>4, <1>9
<1>11. \A i \in 1 .. k : i # k => i \in 1 .. k - 1 /\ f[i] \in V
  BY <1>4, <1>6
<1>12. g \in [1 .. k -> V]
  BY <1>8, <1>9, <1>11
<1>13. ASSUME NEW i \in 1 .. k PROVE g[i] = G[i][IF i = 1 THEN v ELSE g[i - 1]]
  <2>1. i # 1 => i - 1 \in 1 .. k - 1 /\ g[i - 1] = f[i - 1]
    BY <1>4, <1>10
  <2>2. CASE i = k
    BY <1>7, <1>10, <2>1, <2>2
  <2>3. CASE i # k
    <3>1. i \in 1 .. k - 1 /\ g[i] = f[i]
      BY <1>10, <1>11, <2>3
    <3> QED BY <1>6, <2>1, <3>1
  <2> QED BY <2>2, <2>3
<1>14. Good(k)
  BY <1>12, <1>13
<1> QED BY <1>2, <1>14

(* A share of a stretch of time is within it.                              *)
LEMMA Share ==
  ASSUME NEW a \in Nat, NEW d \in Nat, d >= 1
  PROVE  a \div d \in 0 .. a
OBVIOUS

(* The least is the one that CHOOSE takes.                                 *)
LEMMA TheLeast ==
  ASSUME NEW S \in SUBSET Nat, S # {}
  PROVE  Min(S) \in S /\ \A k \in S : Min(S) <= k
<1>1. PICK x \in S : \A k \in S : x <= k
  BY LeastExists
<1> QED BY <1>1 DEF Min

(* What an item is given for a time is a number.                           *)
LEMMA TimeAtType ==
  ASSUME NEW P, Timeable(P), NEW i \in 1 .. Len(P), NEW x \in Int
  PROVE  TimeAt(P, i, x) \in Int
<1>1. PICK n, T : n = Len(P) /\ T = TimedOnes(P)
  OBVIOUS
<1>2. /\ n \in Nat /\ T \in SUBSET (1 .. n) /\ \A k \in T : P[k].time[1] \in Int
  <2>1. Clock \in SUBSET Int
    BY DEF Clock, Unit
  <2> QED BY <1>1, <2>1, TimedFacts
<1>3. PICK next : next = Min({k \in T : k >= i} \cup {n})
  OBVIOUS
<1>4. next \in Nat /\ i <= next
  <2>1. PICK S : S = {k \in T : k >= i} \cup {n}
    OBVIOUS
  <2>2. \A k \in S : k \in Nat /\ i <= k
    BY <1>1, <1>2, <2>1
  <2>3. S \in SUBSET Nat /\ S # {}
    BY <2>1, <2>2
  <2>4. next \in S
    BY <1>3, <2>1, <2>3, TheLeast
  <2> QED BY <2>2, <2>4
<1>5. PICK end : end = IF next \in T THEN P[next].time[1] ELSE Unit
  OBVIOUS
<1>6. end \in Int
  <2>1. Unit \in Int
    BY DEF Unit
  <2> QED BY <1>2, <1>5, <2>1
<1>7. x + (end - x) \div (next - (i - 1)) \in Int
  <2>1. next - (i - 1) \in Int /\ next - (i - 1) > 0
    BY <1>1, <1>2, <1>4
  <2> QED BY <1>6, <2>1
<1>8. TimeAt(P, i, x) = CASE i \in T -> P[i].time[1]
                          [] i \notin T /\ i = 1 -> 0
                          [] OTHER -> x + (end - x) \div (next - (i - 1))
  BY <1>1, <1>3, <1>5 DEF TimeAt
<1> QED BY <1>2, <1>7, <1>8

(* One step of the walk that gives the untimed ones a time.                *)
LEMMA TimeAtFacts ==
  ASSUME NEW P, Timeable(P), NEW i \in 1 .. Len(P), NEW x \in Clock,
         i = 1 => x = 0,
         \A j, k \in TimedOnes(P) : j < k => P[j].time[1] <= P[k].time[1],
         \A k \in TimedOnes(P) : k >= i => x <= P[k].time[1],
         NEW y, y = TimeAt(P, i, x)
  PROVE  /\ y \in Clock /\ x <= y
         /\ \A k \in TimedOnes(P) : k >= i => y <= P[k].time[1]
         /\ i \in TimedOnes(P) => y = P[i].time[1]
         /\ i = 1 /\ i \notin TimedOnes(P) => y = 0
         /\ i = Len(P) /\ i # 1 /\ i \notin TimedOnes(P) => y = Unit
<1>1. PICK n, T : n = Len(P) /\ T = TimedOnes(P)
  OBVIOUS
<1>2. n \in Nat /\ T \in SUBSET (1 .. n) /\ \A k \in T : P[k].time[1] \in Clock
  BY <1>1, TimedFacts
<1>3. PICK next : next = Min({k \in T : k >= i} \cup {n})
  OBVIOUS
<1>4. next \in {k \in T : k >= i} \cup {n} /\ \A k \in {k \in T : k >= i} \cup {n} : next <= k
  <2>1. PICK S : S = {k \in T : k >= i} \cup {n}
    OBVIOUS
  <2>a. \A k \in S : k \in Nat
    BY <1>2, <2>1
  <2>2. S \in SUBSET Nat /\ S # {}
    BY <2>1, <2>a
  <2>3. next \in S /\ \A k \in S : next <= k
    BY <1>3, <2>1, <2>2, TheLeast
  <2> QED BY <2>1, <2>3
<1>5. /\ next \in Nat /\ i <= next /\ next <= n /\ \A k \in T : k >= i => next <= k
      /\ next \notin T => next = n
  BY <1>1, <1>2, <1>4
<1>6. PICK end : end = IF next \in T THEN P[next].time[1] ELSE Unit
  OBVIOUS
<1>7. end \in Clock /\ x <= end
  <2>1. x <= Unit /\ Unit \in Clock
    BY DEF Clock, Unit
  <2> QED BY <1>1, <1>2, <1>5, <1>6, <2>1
<1>8. \A k \in T : k >= i => end <= P[k].time[1]
  <2> SUFFICES ASSUME NEW k \in T, k >= i PROVE end <= P[k].time[1]
    OBVIOUS
  <2>1. next <= k
    BY <1>5
  <2>2. next \in T
    BY <1>2, <1>5, <2>1
  <2>3. CASE next = k
    BY <1>2, <1>6, <2>2, <2>3 DEF Clock, Unit
  <2>4. CASE next < k
    BY <1>1, <1>6, <2>2, <2>4
  <2> QED BY <1>2, <1>5, <2>1, <2>3, <2>4
<1>9. y = CASE i \in T -> P[i].time[1]
            [] i \notin T /\ i = 1 -> 0
            [] OTHER -> x + (end - x) \div (next - (i - 1))
  BY <1>1, <1>3, <1>6 DEF TimeAt
<1>10. CASE i \in T
  <2>1. y = P[i].time[1] /\ y \in Clock /\ x <= y
    BY <1>1, <1>2, <1>9, <1>10
  <2>2. ASSUME NEW k \in T, k >= i PROVE y <= P[k].time[1]
    <3>1. CASE k = i
      BY <2>1, <3>1 DEF Clock, Unit
    <3>2. CASE k > i
      BY <1>1, <1>10, <2>1, <3>2
    <3> QED BY <1>2, <2>2, <3>1, <3>2
  <2> QED BY <1>1, <1>10, <2>1, <2>2
<1>11. CASE i \notin T /\ i = 1
  <2>1. y = 0 /\ x = 0
    BY <1>9, <1>11
  <2>2. 0 \in Clock /\ \A z \in Clock : 0 <= z
    BY DEF Clock, Unit
  <2> QED BY <1>1, <1>2, <1>11, <2>1, <2>2
<1>12. CASE i \notin T /\ i # 1
  <2>1. PICK a, d : a = end - x /\ d = next - (i - 1)
    OBVIOUS
  <2>2. a \in Nat /\ d \in Nat /\ d >= 1
    BY <1>1, <1>2, <1>5, <1>7, <2>1 DEF Clock, Unit
  <2>3. y = x + a \div d
    BY <1>9, <1>12, <2>1
  <2>4. a \div d \in 0 .. a
    BY <2>2, Share
  <2>5. y \in Clock /\ x <= y /\ y <= end
    <3>1. PICK q : q = a \div d
      OBVIOUS
    <3>2. y = x + q /\ q \in 0 .. end - x
      BY <2>1, <2>3, <2>4, <3>1
    <3> QED BY <1>7, <3>2 DEF Clock, Unit
  <2>6. ASSUME NEW k \in T, k >= i PROVE y <= P[k].time[1]
    <3>1. end <= P[k].time[1] /\ P[k].time[1] \in Clock
      BY <1>2, <1>8, <2>6
    <3>2. PICK t : t = P[k].time[1]
      OBVIOUS
    <3>3. y \in Int /\ end \in Int /\ t \in Int /\ y <= end /\ end <= t
      BY <1>7, <2>5, <3>1, <3>2 DEF Clock, Unit
    <3>4. y <= t
      BY <3>3
    <3> QED BY <3>2, <3>4
  <2>7. ASSUME i = n PROVE y = Unit
    <3>1. next = n /\ n \notin T
      BY <1>1, <1>2, <1>5, <1>12, <2>7
    <3>2. d = 1 /\ end = Unit
      BY <1>2, <1>6, <2>1, <2>7, <3>1
    <3>3. a \div d = a
      BY <2>2, <3>2
    <3>4. y = x + a
      BY <2>3, <3>3
    <3> QED BY <2>1, <3>2, <3>4 DEF Clock, Unit
  <2> QED BY <1>1, <1>12, <2>5, <2>6, <2>7
<1> QED BY <1>10, <1>11, <1>12

(* The times the items are given.                                          *)
LEMMA WithTimesFacts ==
  ASSUME NEW P, Timeable(P),
         \A j, k \in TimedOnes(P) : j < k => P[j].time[1] <= P[k].time[1]
  PROVE  \E f \in [1 .. Len(P) -> Clock] :
           /\ WithTimes(P) = [i \in 1 .. Len(P) |-> [time |-> f[i], value |-> P[i].value]]
           /\ \A i, j \in 1 .. Len(P) : i < j => f[i] <= f[j]
           /\ \A i \in TimedOnes(P) : f[i] = P[i].time[1]
           /\ 1 \notin TimedOnes(P) /\ 1 <= Len(P) => f[1] = 0
           /\ Len(P) \notin TimedOnes(P) /\ 1 < Len(P) => f[Len(P)] = Unit
<1>1. PICK n, T : n = Len(P) /\ T = TimedOnes(P)
  OBVIOUS
<1>2. n \in Nat /\ DOMAIN P = 1 .. n /\ T \in SUBSET (1 .. n)
  BY <1>1, TimedFacts
<1>3. PICK f : f = CHOOSE time : time = [i \in DOMAIN P |-> TimeAt(P, i, IF i = 1 THEN 0 ELSE time[i - 1])]
  OBVIOUS
<1>4. f = [i \in 1 .. n |-> TimeAt(P, i, IF i = 1 THEN 0 ELSE f[i - 1])]
  <2>1. PICK G : G = [i \in 1 .. n |-> [x \in Int |-> TimeAt(P, i, x)]]
    OBVIOUS
  <2>2. G \in [1 .. n -> [Int -> Int]]
    <3>1. \A i \in 1 .. n, x \in Int : TimeAt(P, i, x) \in Int
      BY <1>1, TimeAtType
    <3> QED BY <2>1, <3>1
  <2>3. PICK g \in [1 .. n -> Int] : \A i \in 1 .. n : g[i] = G[i][IF i = 1 THEN 0 ELSE g[i - 1]]
    <3>1. 0 \in Int
      OBVIOUS
    <3>2. \E g \in [1 .. n -> Int] : Made(g, G, n, 0)
      BY <1>2, <2>2, <3>1, EachOfTheLast, Zenon
    <3> QED BY <3>2 DEF Made
  <2>4. ASSUME NEW i \in 1 .. n PROVE g[i] = TimeAt(P, i, IF i = 1 THEN 0 ELSE g[i - 1])
    <3>1. PICK x : x = IF i = 1 THEN 0 ELSE g[i - 1]
      OBVIOUS
    <3>2. x \in Int
      BY <1>2, <2>3, <3>1
    <3> QED BY <2>1, <2>3, <3>1, <3>2
  <2>5. g = [i \in 1 .. n |-> g[i]]
    BY <2>3
  <2>6. g = [i \in 1 .. n |-> TimeAt(P, i, IF i = 1 THEN 0 ELSE g[i - 1])]
    BY <2>4, <2>5, Zenon
  <2>7. g = [i \in DOMAIN P |-> TimeAt(P, i, IF i = 1 THEN 0 ELSE g[i - 1])]
    BY <1>2, <2>6, Zenon
  <2>8. f = [i \in DOMAIN P |-> TimeAt(P, i, IF i = 1 THEN 0 ELSE f[i - 1])]
    BY <1>3, <2>7, Zenon
  <2> QED BY <1>2, <2>8
<1>5. WithTimes(P) = [i \in 1 .. n |-> [time |-> f[i], value |-> P[i].value]]
  BY <1>2, <1>3, Zenon DEF WithTimes
<1>6. \A i \in 1 .. n : f[i] = TimeAt(P, i, IF i = 1 THEN 0 ELSE f[i - 1])
  BY <1>4, Zenon
<1> DEFINE LastTime(i) == IF i = 1 THEN 0 ELSE f[i - 1]
           Good(i) == f[i] \in Clock /\ \A k \in T : k >= i => f[i] <= P[k].time[1]
           Bad == {i \in 1 .. n : ~ Good(i)}
<1>7. ASSUME NEW i \in 1 .. n, i = 1 \/ Good(i - 1)
      PROVE  /\ Good(i) /\ LastTime(i) \in Clock /\ LastTime(i) <= f[i]
             /\ i \in T => f[i] = P[i].time[1]
             /\ i = 1 /\ i \notin T => f[i] = 0
             /\ i = n /\ i # 1 /\ i \notin T => f[i] = Unit
  <2>0. \A k \in T : k \in Nat /\ P[k].time[1] \in Clock
    BY <1>1, <1>2, TimedFacts
  <2>1. PICK x : x = LastTime(i)
    OBVIOUS
  <2>2. x \in Clock /\ (i = 1 => x = 0)
    <3>1. 0 \in Clock
      BY DEF Clock, Unit
    <3> QED BY <1>7, <2>1, <3>1
  <2>3. \A k \in T : k >= i => x <= P[k].time[1]
    <3>1. CASE i = 1
      <4>1. \A y \in Clock : 0 <= y
        BY DEF Clock
      <4> QED BY <2>0, <2>2, <3>1, <4>1
    <3>2. CASE i # 1
      <4>1. \A k \in T : k >= i => k >= i - 1
        BY <1>2, <2>0
      <4> QED BY <1>7, <2>1, <3>2, <4>1
    <3> QED BY <3>1, <3>2
  <2>4. f[i] = TimeAt(P, i, x)
    BY <1>6, <2>1
  <2>5. PICK y : y = f[i]
    OBVIOUS
  <2>6. /\ y \in Clock /\ x <= y
        /\ \A k \in T : k >= i => y <= P[k].time[1]
        /\ i \in T => y = P[i].time[1]
        /\ i = 1 /\ i \notin T => y = 0
        /\ i = n /\ i # 1 /\ i \notin T => y = Unit
    <3> HIDE DEF LastTime, Good
    <3> QED BY <1>1, <2>2, <2>3, <2>4, <2>5, TimeAtFacts
  <2> QED BY <2>1, <2>2, <2>5, <2>6
<1>8. \A i \in 1 .. n : Good(i)
  <2>1. SUFFICES ASSUME Bad # {} PROVE FALSE
    <3> HIDE DEF Good
    <3> QED OBVIOUS
  <2>2. Bad \in SUBSET Nat
    <3> HIDE DEF Good
    <3> QED BY <1>2
  <2>3. PICK i \in Bad : \A j \in Bad : i <= j
    <3> HIDE DEF Bad
    <3> QED BY <2>1, <2>2, LeastExists
  <2>4. i \in 1 .. n /\ ~ Good(i)
    <3> HIDE DEF Good
    <3> QED BY <2>3
  <2>5. i = 1 \/ Good(i - 1)
    <3> HIDE DEF Good
    <3> SUFFICES ASSUME i # 1, ~ Good(i - 1) PROVE FALSE
      OBVIOUS
    <3>1. i - 1 \in 1 .. n /\ ~ (i <= i - 1)
      BY <1>2, <2>4
    <3>2. i - 1 \in Bad
      BY <3>1
    <3> QED BY <2>3, <3>1, <3>2
  <2> HIDE DEF Good
  <2> QED BY <1>7, <2>4, <2>5
<1>9. ASSUME NEW i \in 1 .. n PROVE i = 1 \/ Good(i - 1)
  <2> HIDE DEF Good
  <2>1. i # 1 => i - 1 \in 1 .. n
    BY <1>2
  <2> QED BY <1>8, <2>1
<1>10. /\ f \in [1 .. n -> Clock]
       /\ \A i \in T : f[i] = P[i].time[1]
       /\ 1 \notin T /\ 1 <= n => f[1] = 0
       /\ n \notin T /\ 1 < n => f[n] = Unit
  <2>1. \A i \in 1 .. n : f[i] \in Clock
    BY <1>8
  <2>2. f \in [1 .. n -> Clock]
    BY <1>4, <2>1
  <2>3. \A i \in 1 .. n : /\ i \in T => f[i] = P[i].time[1]
                          /\ i = 1 /\ i \notin T => f[i] = 0
                          /\ i = n /\ i # 1 /\ i \notin T => f[i] = Unit
    <3> HIDE DEF Good, LastTime
    <3> QED BY <1>7, <1>9
  <2> HIDE DEF Good, LastTime
  <2> QED BY <1>2, <2>2, <2>3
<1>11. ASSUME NEW i \in 1 .. n, i # 1 PROVE f[i - 1] <= f[i]
  <2>1. LastTime(i) <= f[i]
    <3> HIDE DEF Good, LastTime
    <3> QED BY <1>7, <1>9
  <2> QED BY <1>11, <2>1
<1>12. ASSUME NEW i \in 1 .. n, NEW j \in 1 .. n, i < j PROVE f[i] <= f[j]
  <2> DEFINE Down == {k \in i .. n : ~ (f[i] <= f[k])}
  <2>0. \A k \in 1 .. n : f[k] \in Int
    BY <1>10 DEF Clock, Unit
  <2>1. SUFFICES ASSUME Down # {} PROVE FALSE
    <3>1. j \in i .. n
      BY <1>2, <1>12
    <3> QED BY <3>1
  <2>2. Down \in SUBSET Nat
    BY <1>2
  <2>3. PICK k \in Down : \A h \in Down : k <= h
    <3> HIDE DEF Down
    <3> QED BY <2>1, <2>2, LeastExists
  <2>4. k \in i .. n /\ ~ (f[i] <= f[k])
    BY <2>3
  <2>5. k # i
    BY <2>0, <2>4
  <2>6. k - 1 \in i .. n /\ k \in 1 .. n /\ k # 1 /\ k - 1 \in 1 .. n /\ ~ (k <= k - 1)
    BY <1>2, <2>4, <2>5
  <2>7. f[i] <= f[k - 1]
    BY <2>3, <2>6
  <2>8. f[k - 1] <= f[k]
    BY <1>11, <2>6
  <2> QED BY <2>0, <2>4, <2>6, <2>7, <2>8
<1> QED BY <1>1, <1>5, <1>10, <1>12

(* Times are numbers from 0 to 1.                                          *)
LEMMA ClockFacts ==
  /\ Unit \in Int /\ 0 <= Unit /\ 0 \in Clock /\ Unit \in Clock
  /\ \A t \in Clock : t \in Int /\ 0 <= t /\ t <= Unit
BY DEF Clock, Unit

(* C begins with o, is in order of time and ends at the end, with w if it  *)
(* is asked to.                                                            *)
WellClosed(C, o, asked, w) ==
  /\ C[1] = o[1] /\ C[Len(C)].time = Unit
  /\ \A i, k \in DOMAIN C : i < k => C[i].time <= C[k].time
  /\ asked => C[Len(C)].value = w

(* h has times in order.                                                   *)
Timely(h, m) ==
  /\ \A i \in 1 .. m : h[i] \in Int /\ h[i] <= Unit
  /\ \A i, j \in 1 .. m : i < j => h[i] <= h[j]

Listed(o, h, v, m) == o = [i \in 1 .. m |-> [time |-> h[i], value |-> v[i]]]

(* A list of m keypoints with times h and values v, closed.                *)
LEMMA ClosedFacts ==
  ASSUME NEW m \in Nat, m >= 1, NEW h, NEW v, NEW o, NEW last \in 1 .. m,
         Listed(o, h, v, m), Timely(h, m)
  PROVE  WellClosed(Closed(o, o[last]), o, last = m, v[m])
<1>a. PICK C : C = Closed(o, o[last])
  OBVIOUS
<1> SUFFICES WellClosed(C, o, last = m, v[m])
  BY <1>a
<1>b. o = [i \in 1 .. m |-> [time |-> h[i], value |-> v[i]]]
  BY DEF Listed
<1>0. /\ \A i \in 1 .. m : h[i] \in Int /\ h[i] <= Unit
      /\ \A i, j \in 1 .. m : i < j => h[i] <= h[j]
  BY DEF Timely
<1>1. ASSUME NEW i \in 1 .. m PROVE o[i] = [time |-> h[i], value |-> v[i]]
  BY <1>b
<1>2. ASSUME NEW i \in 1 .. m PROVE o[i].time = h[i] /\ o[i].value = v[i]
  <2>1. PICK r : r = [time |-> h[i], value |-> v[i]]
    OBVIOUS
  <2>2. r.time = h[i] /\ r.value = v[i]
    BY <2>1
  <2>3. o[i] = r
    BY <1>1, <2>1
  <2> QED BY <2>2, <2>3
<1>3. Len(o) = m /\ DOMAIN o = 1 .. m /\ IsASeq(o)
  <2>1. o = [i \in 1 .. m |-> o[i]]
    BY <1>b
  <2> QED BY <2>1, FunctionIsSeq
<1>4. PICK S : o \in Seq(S)
  BY <1>3 DEF IsASeq
<1>5. 1 \in 1 .. m /\ m \in 1 .. m /\ (last = m \/ last < m)
  OBVIOUS
<1>6. CASE h[last] = Unit
  <2>1. C = o
    BY <1>a, <1>2, <1>6 DEF Closed
  <2>2. h[m] = Unit
    <3>1. h[m] \in Int /\ h[m] <= Unit /\ h[last] <= h[m]
      <4>1. h[m] \in Int /\ h[m] <= Unit
        BY <1>0, <1>5
      <4>2. CASE last = m
        BY <4>1, <4>2
      <4>3. CASE last < m
        BY <1>0, <1>5, <4>3
      <4> QED BY <1>5, <4>1, <4>2, <4>3
    <3>2. Unit \in Int
      BY DEF Unit
    <3> QED BY <1>6, <3>1, <3>2
  <2>3. C[Len(C)].time = Unit /\ C[Len(C)].value = v[m]
    BY <1>2, <1>3, <1>5, <2>1, <2>2
  <2>4. ASSUME NEW i \in 1 .. m, NEW k \in 1 .. m, i < k PROVE C[i].time <= C[k].time
    BY <1>0, <1>2, <2>1, <2>4
  <2> QED BY <1>3, <2>1, <2>3, <2>4 DEF WellClosed
<1>7. CASE h[last] # Unit
  <2>1. PICK e : e = [o[last] EXCEPT !.time = Unit]
    OBVIOUS
  <2>2. e.time = Unit /\ e.value = v[last]
    <3>1. PICK r : r = [time |-> h[last], value |-> v[last]]
      OBVIOUS
    <3>2. o[last] = r
      BY <1>1, <3>1
    <3>3. e = [r EXCEPT !.time = Unit]
      BY <2>1, <3>2
    <3> QED BY <3>1, <3>3
  <2>3. C = Append(o, e)
    BY <1>a, <1>2, <1>7, <2>1 DEF Closed
  <2>4. Len(C) = m + 1 /\ DOMAIN C = 1 .. m + 1 /\ C[m + 1] = e /\ \A i \in 1 .. m : C[i] = o[i]
    <3>1. PICK V : V = S \cup {e}
      OBVIOUS
    <3>2. o \in Seq(V) /\ e \in V
      BY <1>4, <3>1
    <3>3. C \in Seq(V) /\ Len(C) = m + 1 /\ C[m + 1] = e /\ \A i \in 1 .. m : C[i] = o[i]
      <4>1. /\ Append(o, e) \in Seq(V) /\ Len(Append(o, e)) = Len(o) + 1 /\ Append(o, e)[Len(o) + 1] = e
            /\ \A i \in 1 .. Len(o) : Append(o, e)[i] = o[i]
        <5>1. Append(o, e) \in Seq(V) /\ Len(Append(o, e)) = Len(o) + 1
          BY <3>2
        <5>2. Append(o, e)[Len(o) + 1] = e
          BY <3>2
        <5>3. \A i \in 1 .. Len(o) : Append(o, e)[i] = o[i]
          BY <3>2
        <5> QED BY <5>1, <5>2, <5>3
      <4> QED BY <1>3, <2>3, <4>1
    <3>4. DOMAIN C = 1 .. m + 1
      BY <3>3
    <3> QED BY <3>3, <3>4
  <2>5. ASSUME NEW i \in 1 .. m + 1, NEW k \in 1 .. m + 1, i < k PROVE C[i].time <= C[k].time
    <3>1. i \in 1 .. m
      BY <2>5
    <3>2. C[i].time = h[i] /\ h[i] <= Unit
      BY <1>0, <1>2, <2>4, <3>1
    <3>3. CASE k = m + 1
      BY <2>2, <2>4, <3>2, <3>3
    <3>4. CASE k # m + 1
      <4>1. k \in 1 .. m
        BY <3>4
      <4>2. C[k].time = h[k]
        BY <1>2, <2>4, <4>1
      <4> QED BY <1>0, <2>5, <3>1, <3>2, <4>1, <4>2
    <3> QED BY <3>3, <3>4
  <2>6. C[1] = o[1]
    BY <1>5, <2>4
  <2>7. last = m => C[Len(C)].value = v[m]
    BY <2>2, <2>4
  <2>8. C[Len(C)].time = Unit
    BY <2>2, <2>4
  <2>9. \A i, k \in DOMAIN C : i < k => C[i].time <= C[k].time
    <3>1. \A i, k \in 1 .. m + 1 : i < k => C[i].time <= C[k].time
      BY <2>5
    <3>2. DOMAIN C = 1 .. m + 1
      BY <2>4
    <3> QED BY <3>1, <3>2
  <2> QED BY <2>6, <2>7, <2>8, <2>9 DEF WellClosed
<1> QED BY <1>6, <1>7

(* The keypoints that are added at the two ends.                           *)
WellEnded(K, f, w, n) ==
  /\ K[1].time = 0 /\ K[Len(K)].time = Unit
  /\ \A i, k \in DOMAIN K : i < k => K[i].time <= K[k].time
  /\ K[1].value = w[1]
  /\ f[1] = 0 => K[Len(K)].value = w[n]

(* One is added at the start, or none; then one at the end, or none.       *)
LEMMA EndedFacts ==
  ASSUME NEW n \in Nat, n >= 2, NEW f \in [1 .. n -> Clock], NEW w,
         \A i, j \in 1 .. n : i < j => f[i] <= f[j],
         NEW given, given = [i \in 1 .. n |-> [time |-> f[i], value |-> w[i]]],
         NEW K, K = Ended(Opened(given), n)
  PROVE  WellEnded(K, f, w, n)
<1>0. \A i \in 1 .. n : f[i] \in Int /\ 0 <= f[i] /\ f[i] <= Unit
  BY ClockFacts
<1>a. \A i \in 1 .. n : given[i] = [time |-> f[i], value |-> w[i]]
  OBVIOUS
<1>1. \A i \in 1 .. n : f[i] \in Int /\ 0 <= f[i] /\ f[i] <= Unit /\ given[i] = [time |-> f[i], value |-> w[i]]
  BY <1>0, <1>a
<1>2. Len(given) = n /\ DOMAIN given = 1 .. n /\ IsASeq(given)
  <2>1. given = [i \in 1 .. n |-> given[i]]
    OBVIOUS
  <2> QED BY <2>1, FunctionIsSeq
<1>3. PICK S : given \in Seq(S)
  BY <1>2 DEF IsASeq
<1>4. 1 \in 1 .. n /\ n \in 1 .. n /\ n - 1 \in 1 .. n /\ 1 < n /\ n - 1 < n
  OBVIOUS
<1>5. PICK opened : opened = Opened(given)
  OBVIOUS
<1>7. CASE f[1] = 0
  <2>1. opened = given
    BY <1>1, <1>4, <1>5, <1>7 DEF Opened
  <2>2. K = Closed(given, given[n])
    BY <1>5, <2>1 DEF Ended
  <2>3. /\ K[1] = given[1] /\ K[Len(K)].time = Unit
        /\ \A i, k \in DOMAIN K : i < k => K[i].time <= K[k].time
        /\ K[Len(K)].value = w[n]
    <3>1. Timely(f, n)
      BY <1>0 DEF Timely
    <3>2. n \in Nat /\ n >= 1 /\ n \in 1 .. n /\ given = [i \in 1 .. n |-> [time |-> f[i], value |-> w[i]]]
      BY <1>4
    <3>3. WellClosed(K, given, n = n, w[n])
      <4>1. Listed(given, f, w, n)
        BY DEF Listed
      <4>2. WellClosed(Closed(given, given[n]), given, n = n, w[n])
        BY <3>1, <3>2, <4>1, ClosedFacts, Zenon
      <4> QED BY <2>2, <4>2
    <3> QED BY <3>3 DEF WellClosed
  <2>4. given[1].time = 0 /\ given[1].value = w[1]
    BY <1>a, <1>4, <1>7
  <2> QED BY <2>3, <2>4 DEF WellEnded
<1>8. CASE f[1] # 0
  <2>1. PICK e : e = [given[1] EXCEPT !.time = 0]
    OBVIOUS
  <2>2. e = [time |-> 0, value |-> w[1]]
    BY <1>1, <1>4, <2>1
  <2>3. opened = <<e>> \o given
    BY <1>1, <1>4, <1>5, <1>8, <2>1 DEF Opened
  <2>4. PICK h : h = [i \in 1 .. n + 1 |-> IF i = 1 THEN 0 ELSE f[i - 1]]
    OBVIOUS
  <2>5. PICK v : v = [i \in 1 .. n + 1 |-> IF i = 1 THEN w[1] ELSE w[i - 1]]
    OBVIOUS
  <2>6. opened = [i \in 1 .. n + 1 |-> [time |-> h[i], value |-> v[i]]]
    <3>1. opened = [i \in 1 .. n + 1 |-> IF i = 1 THEN e ELSE given[i - 1]]
      <4>1. <<e>> \in Seq(S \cup {e}) /\ given \in Seq(S \cup {e}) /\ Len(<<e>>) = 1 /\ <<e>>[1] = e
        BY <1>3
      <4>2. <<e>> \o given = [i \in 1 .. n + 1 |-> IF i <= 1 THEN <<e>>[i] ELSE given[i - 1]]
        BY <1>2, <4>1
      <4>3. \A i \in 1 .. n + 1 : i <= 1 <=> i = 1
        OBVIOUS
      <4> QED BY <2>3, <4>1, <4>2, <4>3
    <3>2. ASSUME NEW i \in 1 .. n + 1
          PROVE  (IF i = 1 THEN e ELSE given[i - 1]) = [time |-> h[i], value |-> v[i]]
      <4>1. i # 1 => i - 1 \in 1 .. n
        OBVIOUS
      <4>2. h[i] = (IF i = 1 THEN 0 ELSE f[i - 1]) /\ v[i] = (IF i = 1 THEN w[1] ELSE w[i - 1])
        BY <2>4, <2>5
      <4> QED BY <1>1, <2>2, <4>1, <4>2
    <3>3. PICK g : g = [i \in 1 .. n + 1 |-> [time |-> h[i], value |-> v[i]]]
      OBVIOUS
    <3>4. \A i \in 1 .. n + 1 : opened[i] = g[i]
      BY <3>1, <3>2, <3>3
    <3>5. opened = [i \in 1 .. n + 1 |-> opened[i]] /\ g = [i \in 1 .. n + 1 |-> g[i]]
      BY <3>1, <3>3
    <3>6. opened = g
      BY <3>4, <3>5
    <3> QED BY <3>3, <3>6
  <2>7. \A i \in 1 .. n + 1 : h[i] \in Int /\ 0 <= h[i] /\ h[i] <= Unit
    <3>1. ASSUME NEW i \in 1 .. n + 1 PROVE h[i] \in Int /\ 0 <= h[i] /\ h[i] <= Unit
      <4>1. i # 1 => i - 1 \in 1 .. n
        OBVIOUS
      <4>2. CASE i = 1
        BY <2>4, <4>2 DEF Unit
      <4>3. CASE i # 1
        BY <1>1, <2>4, <4>1, <4>3
      <4> QED BY <4>2, <4>3
    <3> QED BY <3>1
  <2>8. ASSUME NEW i \in 1 .. n + 1, NEW j \in 1 .. n + 1, i < j PROVE h[i] <= h[j]
    <3>1. CASE i = 1
      BY <2>4, <2>7, <3>1
    <3>2. CASE i # 1
      <4>1. i - 1 \in 1 .. n /\ j - 1 \in 1 .. n /\ i - 1 < j - 1 /\ j # 1
        BY <2>8, <3>2
      <4> QED BY <2>4, <3>2, <4>1
    <3> QED BY <3>1, <3>2
  <2>9. h[1] = 0 /\ v[1] = w[1] /\ opened[1] = [time |-> 0, value |-> w[1]]
    <3>1. h[1] = 0 /\ v[1] = w[1]
      BY <2>4, <2>5
    <3> QED BY <2>6, <3>1
  <2>10. K = Closed(opened, opened[n])
    BY <1>5 DEF Ended
  <2>11. n + 1 \in Nat /\ n + 1 >= 1 /\ n \in 1 .. n + 1
    OBVIOUS
  <2>12. /\ K[1] = opened[1] /\ K[Len(K)].time = Unit
         /\ \A i, k \in DOMAIN K : i < k => K[i].time <= K[k].time
    <3>1. PICK m : m = n + 1
      OBVIOUS
    <3>2. m \in Nat /\ m >= 1 /\ n \in 1 .. m
      BY <2>11, <3>1
    <3>3. opened = [i \in 1 .. m |-> [time |-> h[i], value |-> v[i]]]
      BY <2>6, <3>1
    <3>4. \A i \in 1 .. m : h[i] \in Int /\ h[i] <= Unit
      BY <2>7, <3>1
    <3>5. \A i, j \in 1 .. m : i < j => h[i] <= h[j]
      BY <2>8, <3>1
    <3>6. Timely(h, m)
      BY <3>4, <3>5 DEF Timely
    <3>7. WellClosed(K, opened, n = m, v[m])
      <4>1. Listed(opened, h, v, m)
        BY <3>3 DEF Listed
      <4>2. WellClosed(Closed(opened, opened[n]), opened, n = m, v[m])
        BY <3>2, <3>6, <4>1, ClosedFacts, Zenon
      <4> QED BY <2>10, <4>2
    <3> QED BY <3>7 DEF WellClosed
  <2>13. opened[1].time = 0 /\ opened[1].value = w[1]
    BY <2>9
  <2> QED BY <1>8, <2>12, <2>13 DEF WellEnded
<1> QED BY <1>7, <1>8

(* The keypoints of items that are given a time or none span them.         *)
LEMMA KeypointsSpan ==
  ASSUME NEW items, Timeable(items), items # <<>>
  PROVE  Spans(Keypoints(items), items)
<1>1. PICK n, T, K : n = Len(items) /\ T = TimedOnes(items) /\ K = Keypoints(items)
  OBVIOUS
<1>2. /\ n \in Nat /\ DOMAIN items = 1 .. n /\ T \in SUBSET (1 .. n)
      /\ \A i \in T : items[i].time[1] \in Clock /\ items[i].time = <<items[i].time[1]>>
      /\ \A i \in 1 .. n : i \notin T => items[i].time = <<>>
  BY <1>1, TimedFacts
<1>3. n # 0
  BY <1>1, SeqFacts DEF Timeable
<1>4. 1 \in 1 .. n /\ n \in 1 .. n
  BY <1>2, <1>3
<1>5. \A i \in 1 .. n : GivenTime(items[i]) <=> i \in T
  BY <1>1, <1>2 DEF TimedOnes, GivenTime
<1>6. PICK timed, first, last, earliest, latest :
        /\ timed = {items[i] : i \in T} /\ first = items[1] /\ last = items[n]
        /\ earliest = IF 1 \notin T THEN {first}
                      ELSE {item \in timed : \A other \in timed : item.time[1] <= other.time[1]}
        /\ latest = IF n \notin T THEN {last}
                    ELSE {item \in timed : \A other \in timed : item.time[1] >= other.time[1]}
  OBVIOUS
<1>7. SUFFICES
        /\ K[1].time = 0 /\ K[Len(K)].time = Unit
        /\ \A i, k \in DOMAIN K : i < k => K[i].time <= K[k].time
        /\ K[1].value \in {item.value : item \in earliest}
        /\ (\A item \in earliest : item.time \in {<<>>, <<0>>}) \/ n = 1
             => K[Len(K)].value \in {item.value : item \in latest}
  BY <1>1, <1>4, <1>5, <1>6 DEF Spans
<1>8. CASE n = 1
  <2>1. K = <<[time |-> 0, value |-> first.value], [time |-> Unit, value |-> first.value]>>
    BY <1>1, <1>6, <1>8 DEF Keypoints
  <2>2. Len(K) = 2 /\ DOMAIN K = 1 .. 2 /\ K[1] = [time |-> 0, value |-> first.value]
        /\ K[2] = [time |-> Unit, value |-> first.value]
    BY <2>1
  <2>3. first \in earliest /\ first \in latest
    <3>1. CASE 1 \in T
      <4>1. timed = {first}
        BY <1>2, <1>6, <1>8, <3>1
      <4>2. first.time[1] <= first.time[1]
        BY <1>2, <1>6, <3>1 DEF Clock, Unit
      <4> QED BY <1>6, <1>8, <3>1, <4>1, <4>2
    <3>2. CASE 1 \notin T
      BY <1>6, <1>8, <3>2
    <3> QED BY <3>1, <3>2
  <2>4. \A i, k \in DOMAIN K : i < k => K[i].time <= K[k].time
    <3>1. \A i, k \in 1 .. 2 : i < k => i = 1 /\ k = 2
      OBVIOUS
    <3>2. 0 <= Unit
      BY DEF Unit
    <3> QED BY <2>2, <3>1, <3>2
  <2> QED BY <2>2, <2>3, <2>4
<1>9. CASE n # 1
  <2>1. PICK P : P = Placed(items)
    OBVIOUS
  <2>2. /\ Timeable(P) /\ Len(P) = n /\ TimedOnes(P) = T
        /\ \A i \in 1 .. n : i \notin T => P[i] = items[i]
        /\ \A i \in T : \E k \in T : P[i] = items[k]
        /\ \A i, j \in T : i < j => P[i].time[1] <= P[j].time[1]
        /\ 1 \in T => \A k \in T : P[1].time[1] <= items[k].time[1]
        /\ n \in T => \A k \in T : items[k].time[1] <= P[n].time[1]
    <3>1. DOMAIN items = 1 .. n
      BY <1>2
    <3>2. WellPlaced(P, items)
      BY <2>1, PlacedFacts, Zenon
    <3> QED BY <1>1, <3>1, <3>2 DEF WellPlaced
  <2>3. PICK f \in [1 .. n -> Clock] :
          /\ WithTimes(P) = [i \in 1 .. n |-> [time |-> f[i], value |-> P[i].value]]
          /\ \A i, j \in 1 .. n : i < j => f[i] <= f[j]
          /\ \A i \in T : f[i] = P[i].time[1]
          /\ 1 \notin T => f[1] = 0
          /\ n \notin T => f[n] = Unit
    <3>1. 1 <= n /\ 1 < n
      BY <1>2, <1>3, <1>9
    <3> QED BY <2>2, <3>1, WithTimesFacts
  <2>4. PICK w : w = [i \in 1 .. n |-> P[i].value]
    OBVIOUS
  <2>5. PICK given : given = WithTimes(P)
    OBVIOUS
  <2>6. given = [i \in 1 .. n |-> [time |-> f[i], value |-> w[i]]]
    BY <2>3, <2>4, <2>5
  <2>7. K = Ended(Opened(given), n)
    BY <1>1, <1>9, <2>1, <2>5 DEF Keypoints
  <2>8. /\ K[1].time = 0 /\ K[Len(K)].time = Unit
        /\ \A i, k \in DOMAIN K : i < k => K[i].time <= K[k].time
        /\ K[1].value = w[1]
        /\ f[1] = 0 => K[Len(K)].value = w[n]
    <3>1. n >= 2
      BY <1>2, <1>3, <1>9
    <3>2. /\ n \in Nat /\ f \in [1 .. n -> Clock] /\ (\A i, j \in 1 .. n : i < j => f[i] <= f[j])
          /\ given = [i \in 1 .. n |-> [time |-> f[i], value |-> w[i]]]
      BY <1>2, <2>3, <2>6
    <3>3. WellEnded(K, f, w, n)
      BY <2>7, <3>1, <3>2, EndedFacts, Zenon
    <3> QED BY <3>3 DEF WellEnded
  <2>9. P[1] \in earliest
    <3>1. CASE 1 \in T
      <4>1. PICK k \in T : P[1] = items[k]
        BY <2>2, <3>1
      <4>2. P[1] \in timed
        BY <1>6, <4>1
      <4>3. \A other \in timed : P[1].time[1] <= other.time[1]
        BY <1>6, <2>2, <3>1
      <4> QED BY <1>6, <3>1, <4>2, <4>3
    <3>2. CASE 1 \notin T
      BY <1>4, <1>6, <2>2, <3>2
    <3> QED BY <3>1, <3>2
  <2>10. P[n] \in latest
    <3>1. CASE n \in T
      <4>1. PICK k \in T : P[n] = items[k]
        BY <2>2, <3>1
      <4>2. P[n] \in timed
        BY <1>6, <4>1
      <4>3. \A j \in T : P[n].time[1] >= items[j].time[1]
        <5>1. P[n].time[1] \in Int /\ \A j \in T : items[j].time[1] \in Int
          BY <1>2, <4>1, ClockFacts
        <5>2. \A j \in T : items[j].time[1] <= P[n].time[1]
          BY <2>2, <3>1
        <5> QED BY <5>1, <5>2
      <4> QED BY <1>6, <3>1, <4>2, <4>3
    <3>2. CASE n \notin T
      BY <1>4, <1>6, <2>2, <3>2
    <3> QED BY <3>1, <3>2
  <2>11. ASSUME \A item \in earliest : item.time \in {<<>>, << 0 >>} PROVE f[1] = 0
    <3>1. CASE 1 \in T
      <4>1. PICK k \in T : P[1] = items[k]
        BY <2>2, <3>1
      <4>2. P[1].time = <<P[1].time[1]>>
        BY <1>2, <4>1
      <4>3. P[1].time[1] = 0
        BY <2>9, <2>11, <4>2
      <4> QED BY <2>3, <3>1, <4>3
    <3>2. CASE 1 \notin T
      BY <2>3, <3>2
    <3> QED BY <3>1, <3>2
  <2>12. w[1] = P[1].value /\ w[n] = P[n].value
    BY <1>4, <2>4
  <2> QED BY <1>9, <2>8, <2>9, <2>10, <2>11, <2>12
<1> QED BY <1>8, <1>9

-----------------------------------------------------------------------------
(* Of what is evaluated a list loses only what has no value.               *)

IsOption(o) == o = <<>> \/ \E v : o = <<v>>

(* No more than what has no value is lost from a list of options.          *)
LEMMA FlattenedFacts ==
  ASSUME NEW n \in Nat, NEW s, s = [i \in 1 .. n |-> s[i]], \A i \in 1 .. n : IsOption(s[i])
  PROVE  /\ IsASeq(FlattenSeq(s))
         /\ (\A i \in 1 .. n : s[i] # <<>>) => Len(FlattenSeq(s)) = n
<1>1. Len(s) = n /\ IsASeq(s)
  BY FunctionIsSeq
<1>2. CASE n = 0
  <2>1. FlattenSeq(s) = s
    BY <1>1, <1>2 DEF FlattenSeq
  <2> QED BY <1>1, <1>2, <2>1
<1>3. CASE n # 0
  <2>1. PICK V : V = {s[i][1] : i \in 1 .. n}
    OBVIOUS
  <2>2. ASSUME NEW i \in 1 .. n PROVE s[i] \in Seq(V) /\ (s[i] # <<>> => Len(s[i]) = 1)
    <3>1. CASE s[i] = <<>>
      BY <3>1
    <3>2. CASE s[i] # <<>>
      <4>1. PICK v : s[i] = <<v>>
        BY <3>2 DEF IsOption
      <4>2. v = s[i][1]
        BY <4>1
      <4>3. v \in V
        BY <2>1, <4>2
      <4>4. <<v>> \in Seq(V) /\ Len(<<v>>) = 1
        BY <4>3
      <4> QED BY <4>1, <4>4
    <3> QED BY <3>1, <3>2
  <2>3. PICK f : f = CHOOSE flatten : flatten = [i \in 1 .. Len(s) |-> IF i = 1 THEN s[i] ELSE flatten[i - 1] \o s[i]]
    OBVIOUS
  <2>4. FlattenSeq(s) = f[n]
    <3>1. FlattenSeq(s) = f[Len(s)]
      BY <1>1, <1>3, <2>3, Zenon DEF FlattenSeq
    <3> QED BY <1>1, <3>1
  <2>5. \A i \in 1 .. n : f[i] = IF i = 1 THEN s[i] ELSE f[i - 1] \o s[i]
    <3>1. PICK G : G = [i \in 1 .. n |-> [x \in Seq(V) |-> IF i = 1 THEN s[i] ELSE x \o s[i]]]
      OBVIOUS
    <3>2. G \in [1 .. n -> [Seq(V) -> Seq(V)]]
      <4>1. \A i \in 1 .. n, x \in Seq(V) : (IF i = 1 THEN s[i] ELSE x \o s[i]) \in Seq(V)
        BY <2>2
      <4> QED BY <3>1, <4>1
    <3>3. <<>> \in Seq(V)
      OBVIOUS
    <3>4. \E g \in [1 .. n -> Seq(V)] : Made(g, G, n, <<>>)
      BY <3>2, <3>3, EachOfTheLast, Zenon
    <3>5. PICK g \in [1 .. n -> Seq(V)] : \A i \in 1 .. n : g[i] = G[i][IF i = 1 THEN <<>> ELSE g[i - 1]]
      BY <3>4 DEF Made
    <3>6. ASSUME NEW i \in 1 .. n PROVE g[i] = IF i = 1 THEN s[i] ELSE g[i - 1] \o s[i]
      <4>1. PICK x : x = IF i = 1 THEN <<>> ELSE g[i - 1]
        OBVIOUS
      <4>2. i # 1 => i - 1 \in 1 .. n
        OBVIOUS
      <4>3. x \in Seq(V)
        BY <3>5, <4>1, <4>2
      <4>4. g[i] = G[i][x]
        BY <3>5, <4>1
      <4>5. G[i][x] = IF i = 1 THEN s[i] ELSE x \o s[i]
        BY <3>1, <4>3
      <4> QED BY <4>1, <4>4, <4>5
    <3>7. g = [i \in 1 .. n |-> g[i]]
      BY <3>5
    <3>8. g = [i \in 1 .. n |-> IF i = 1 THEN s[i] ELSE g[i - 1] \o s[i]]
      BY <3>6, <3>7, Zenon
    <3>9. f = [i \in 1 .. n |-> IF i = 1 THEN s[i] ELSE f[i - 1] \o s[i]]
      BY <1>1, <2>3, <3>8, Zenon
    <3> QED BY <3>9, Zenon
  <2> DEFINE Good(i) == f[i] \in Seq(V) /\ ((\A k \in 1 .. n : s[k] # <<>>) => Len(f[i]) = i)
             Bad == {i \in 1 .. n : ~ Good(i)}
  <2>6. ASSUME NEW i \in 1 .. n, i = 1 \/ Good(i - 1) PROVE Good(i)
    <3>1. CASE i = 1
      BY <2>2, <2>5, <3>1
    <3>2. CASE i # 1
      <4>1. f[i] = f[i - 1] \o s[i] /\ f[i - 1] \in Seq(V) /\ s[i] \in Seq(V)
        BY <2>2, <2>5, <2>6, <3>2
      <4>2. f[i] \in Seq(V) /\ Len(f[i]) = Len(f[i - 1]) + Len(s[i])
        BY <4>1
      <4>3. ASSUME \A k \in 1 .. n : s[k] # <<>> PROVE Len(f[i]) = i
        <5>1. Len(s[i]) = 1
          BY <2>2, <4>3
        <5>2. Len(f[i - 1]) = i - 1
          <6>1. Good(i - 1)
            BY <2>6, <3>2
          <6> QED BY <4>3, <6>1
        <5>3. i \in Int
          OBVIOUS
        <5>4. Len(f[i]) = (i - 1) + 1
          BY <4>2, <5>1, <5>2
        <5> HIDE DEF Good
        <5> QED BY <5>3, <5>4
      <4> QED BY <4>2, <4>3
    <3> QED BY <3>1, <3>2
  <2>7. \A i \in 1 .. n : Good(i)
    <3>1. SUFFICES ASSUME Bad # {} PROVE FALSE
      <4> HIDE DEF Good
      <4> QED OBVIOUS
    <3>2. Bad \in SUBSET Nat
      <4> HIDE DEF Good
      <4> QED OBVIOUS
    <3>3. PICK i \in Bad : \A j \in Bad : i <= j
      <4> HIDE DEF Bad
      <4> QED BY <3>1, <3>2, LeastExists
    <3>4. i \in 1 .. n /\ ~ Good(i)
      <4> HIDE DEF Good
      <4> QED BY <3>3
    <3>5. i = 1 \/ Good(i - 1)
      <4> HIDE DEF Good
      <4> SUFFICES ASSUME i # 1, ~ Good(i - 1) PROVE FALSE
        OBVIOUS
      <4>1. i - 1 \in 1 .. n /\ ~ (i <= i - 1)
        BY <3>4
      <4>2. i - 1 \in Bad
        BY <4>1
      <4> QED BY <3>3, <4>1, <4>2
    <3> HIDE DEF Good
    <3> QED BY <2>6, <3>4, <3>5
  <2>8. n \in 1 .. n
    BY <1>3
  <2>9. Good(n)
    <3> HIDE DEF Good
    <3> QED BY <2>7, <2>8
  <2> QED BY <2>4, <2>9 DEF IsASeq
<1> QED BY <1>2, <1>3

LEMMA OperateOption ==
  ASSUME NEW operator, NEW left, NEW right
  PROVE  IsOption(Operate(operator, left, right))
BY DEF Operate, IsOption

LEMMA NegatedOption ==
  ASSUME NEW d
  PROVE  IsOption(Negated(d))
BY DEF Negated, IsOption

LEMMA ItemOption ==
  ASSUME NEW enum, NEW item
  PROVE  IsOption(FromNameAndValueName(enum, item))
BY DEF FromNameAndValueName, IsOption

LEMMA TokenOption ==
  ASSUME NEW c, NEW key, NEW lookup
  PROVE  IsOption(EvaluateToken(c, key, lookup))
<1>1. c.kind = "Shorthand" => IsOption(EvaluateToken(c, key, lookup))
  BY ItemOption DEF EvaluateToken, IsOption
<1>2. c.kind # "Shorthand" => IsOption(EvaluateToken(c, key, lookup))
  BY DEF EvaluateToken, IsOption
<1> QED BY <1>1, <1>2

LEMMA TupleOption ==
  ASSUME NEW name, NEW data
  PROVE  IsOption(TupleValue(name, data))
BY DEF TupleValue, IsOption

(* What a construct evaluates to is an option.                             *)
LEMMA ConstructOption ==
  ASSUME EvaluatedAsHere, NEW c, NEW key, NEW lookup
  PROVE  IsOption(EvaluateConstruct(c, key, lookup))
<1>1. EvaluateConstruct(c, key, lookup) = Evaluate(EvaluateConstruct, c, key, lookup)
  BY Zenon DEF EvaluatedAsHere, ConstructsEvaluated
<1>2. CASE c.kind = "Math"
  <2>1. Evaluate(EvaluateConstruct, c, key, lookup) =
          Then(EvaluateConstruct(c.left, key, lookup), LAMBDA left :
            LET right == Then(c.right, LAMBDA operand : EvaluateConstruct(operand, key, lookup))
            IN  IF Panic \in {left} \cup ToSet(right) THEN <<Panic>>
                ELSE IF right = <<>> THEN <<left>>
                ELSE Then(ToVariant(left, key), LAMBDA one :
                       Then(ToVariant(right[1], key), LAMBDA other : Operate(c.operators[1], one, other))))
    BY <1>2 DEF Evaluate
  <2> QED BY <1>1, <2>1, OperateOption DEF Then, IsOption
<1>3. CASE c.kind = "UnaryMinus"
  <2>1. Evaluate(EvaluateConstruct, c, key, lookup) =
          Then(EvaluateConstruct(c.operand, key, lookup), LAMBDA d : Then(ToVariant(d, key), Negated))
    BY <1>3 DEF Evaluate
  <2> QED BY <1>1, <2>1, NegatedOption DEF Then, IsOption
<1>4. CASE c.kind \in {"Table", "AnnotatedTable"}
  <2>1. Evaluate(EvaluateConstruct, c, key, lookup) =
          TupleValue(c.name, FlattenSeq([i \in DOMAIN c.body |-> EvaluateConstruct(c.body[i], NoKey, lookup)]))
    BY <1>4 DEF Evaluate
  <2> QED BY <1>1, <2>1, TupleOption
<1>5. CASE c.kind = "Enum"
  <2>1. PICK item : item = IF c.sigil = "." THEN FromNameAndValueName(c.name, c.item) ELSE <<>>
    OBVIOUS
  <2>2. IsOption(item)
    BY <2>1, ItemOption DEF IsOption
  <2>3. Evaluate(EvaluateConstruct, c, key, lookup) = IF item = <<>> THEN <<None>> ELSE item
    BY <1>5, <2>1 DEF Evaluate
  <2> QED BY <1>1, <2>2, <2>3 DEF IsOption
<1>6. CASE c.kind \notin {"Math", "UnaryMinus", "Table", "AnnotatedTable", "Enum"}
  <2>1. Evaluate(EvaluateConstruct, c, key, lookup) = EvaluateToken(c, key, lookup)
    BY <1>6 DEF Evaluate
  <2> QED BY <1>1, <2>1, TokenOption
<1> QED BY <1>2, <1>3, <1>4, <1>5, <1>6

-----------------------------------------------------------------------------
(* Sequences of keypoints, as they are stored.                             *)

(* The arguments of an annotation and those of a tween are a list.         *)
ArgumentsListed ==
  \A q :
    /\ Assigns(q) /\ RightOf(q).kind = "AnnotatedTable" => IsASeq(RightOf(q).body)
    /\ /\ Reached(q) /\ At(q, "Tween") /\ ConstructAt(q).body # <<>>
       /\ ConstructAt(q).body[1].kind = "Table"
       => IsASeq(ConstructAt(q).body[1].body) /\ ConstructAt(q).body[1].name = NoKey

LEMMA TimedItem ==
  ASSUME NEW d, NEW plain, NEW Value(_)
  PROVE  LET item == Timed(d, plain, Value)
         IN  item.time = <<>> \/ \E t : item.time = <<t>>
BY DEF Timed

(* What is made of the arguments is a list of items, timed or not.         *)
LEMMA ItemsFacts ==
  ASSUME EvaluatedAsHere, NEW c, IsASeq(c.body), NEW lookup,
         NEW data, data = FlattenSeq([i \in DOMAIN c.body |-> EvaluateConstruct(c.body[i], NoKey, lookup)])
  PROVE  /\ IsASeq(data)
         /\ IsASeq(ItemsOf(c, lookup)) /\ DOMAIN ItemsOf(c, lookup) = DOMAIN data
         /\ ItemsOf(c, lookup) = IF c.name = "numseq"
                                 THEN [i \in DOMAIN data |-> Timed(data[i], "Float64", NumberAndEnvelope)]
                                 ELSE [i \in DOMAIN data |-> Timed(data[i], "Color3", ColorOf)]
         /\ \A i \in DOMAIN data : LET item == ItemsOf(c, lookup)[i]
                                   IN  item.time = <<>> \/ \E t : item.time = <<t>>
<1>1. PICK n : n = Len(c.body) /\ n \in Nat /\ DOMAIN c.body = 1 .. n
  BY SeqFacts
<1>2. IsASeq(data)
  <2>1. PICK s : s = [i \in 1 .. n |-> EvaluateConstruct(c.body[i], NoKey, lookup)]
    OBVIOUS
  <2>2. \A i \in 1 .. n : IsOption(s[i])
    BY <2>1, ConstructOption
  <2>3. s = [i \in 1 .. n |-> s[i]]
    BY <2>1
  <2>4. data = FlattenSeq(s)
    BY <1>1, <2>1
  <2> QED BY <1>1, <2>2, <2>3, <2>4, FlattenedFacts
<1>3. PICK m : m = Len(data) /\ m \in Nat /\ DOMAIN data = 1 .. m
  BY <1>2, SeqFacts
<1>4. PICK items : items = ItemsOf(c, lookup)
  OBVIOUS
<1>5. items = [i \in DOMAIN data |->
                 IF c.name = "numseq" THEN Timed(data[i], "Float64", NumberAndEnvelope)
                 ELSE Timed(data[i], "Color3", ColorOf)]
  BY <1>4 DEF ItemsOf
<1>6. IsASeq(items)
  <2>1. items = [i \in 1 .. m |-> items[i]]
    BY <1>3, <1>5
  <2> QED BY <1>3, <2>1, FunctionIsSeq
<1>7. DOMAIN items = DOMAIN data
  BY <1>5
<1>8. items = IF c.name = "numseq"
              THEN [i \in DOMAIN data |-> Timed(data[i], "Float64", NumberAndEnvelope)]
              ELSE [i \in DOMAIN data |-> Timed(data[i], "Color3", ColorOf)]
  BY <1>5
<1>9. ASSUME NEW i \in DOMAIN data PROVE items[i].time = <<>> \/ \E t : items[i].time = <<t>>
  <2>1. CASE c.name = "numseq"
    <3>1. items[i] = Timed(data[i], "Float64", NumberAndEnvelope)
      BY <1>8, <2>1
    <3> QED BY <3>1, TimedItem
  <2>2. CASE c.name # "numseq"
    <3>1. items[i] = Timed(data[i], "Color3", ColorOf)
      BY <1>8, <2>2
    <3> QED BY <3>1, TimedItem
  <2> QED BY <2>1, <2>2
<1> QED BY <1>2, <1>4, <1>6, <1>7, <1>8, <1>9

(* A sequence is stored as it is evaluated.                                *)
LEMMA KeypointsStored ==
  ASSUME EvaluatedAsHere, CompileAssignment, ConstructAt(cursor).right # <<>>,
         NEW c, c = RightOf(cursor), NEW lookup, lookup = CompilerLookup(c),
         c.kind = "AnnotatedTable", c.name \in {"numseq", "colorseq"}, IsASeq(c.body),
         cursor \in DOMAIN stored' \ DOMAIN stored, ~aborted'
  PROVE  ItemsOf(c, lookup) # <<>> /\ stored'[cursor].keypoints = Keypoints(ItemsOf(c, lookup))
<1>1. PICK left, value, variant, d0 :
        /\ left = ConstructAt(cursor).left /\ value = EvaluateConstruct(c, left.name, lookup)
        /\ variant = Then(value, LAMBDA d : ToVariant(d, left.name))
        /\ d0 = Then(value, LAMBDA d : CoerceToStatic(d, left.name))
  OBVIOUS
<1>2. value = Then(ConstructAt(cursor).right, LAMBDA x : EvaluateConstruct(x, left.name, CompilerLookup(x)))
  BY <1>1 DEF Then, RightOf
<1>3. /\ aborted' = (value = <<Panic>>)
      /\ \/ left.kind = "Property" /\ Store("properties", left.name, variant)
         \/ left.kind = "Token" /\ Store("attributes", left.name, variant)
         \/ IsStatic(left) /\ Store("statics", left.name, d0)
  <2>1. ~ (left.kind = "Property" /\ current = Root)
    BY <1>1 DEF CompileAssignment
  <2> DEFINE l == ConstructAt(cursor).left
             v == Then(ConstructAt(cursor).right, LAMBDA x : EvaluateConstruct(x, l.name, CompilerLookup(x)))
             w == Then(v, LAMBDA d : ToVariant(d, l.name))
             u == Then(v, LAMBDA d : CoerceToStatic(d, l.name))
  <2>2. l = left /\ v = value /\ w = variant /\ u = d0
    BY <1>1, <1>2
  <2>3. /\ aborted' = (v = <<Panic>>)
        /\ l.kind = "Property" => Store("properties", l.name, w)
        /\ l.kind = "Token" => Store("attributes", l.name, w)
        /\ IsStatic(l) => Store("statics", l.name, u)
    <3>1. ~ (l.kind = "Property" /\ current = Root)
      BY <2>1, <2>2
    <3>2. IsStatic(l) => l.kind # "Property" /\ l.kind # "Token"
      BY DEF IsStatic
    <3> HIDE DEF v, w, u
    <3> QED BY <3>1, <3>2 DEF CompileAssignment, v, w, u
  <2>4. left.kind = "Property" \/ left.kind = "Token" \/ IsStatic(left)
    BY DEF IsStatic
  <2> HIDE DEF l, v, w, u
  <2> QED BY <2>2, <2>3, <2>4
<1>4. PICK option \in {variant, d0} : stored' = IF option = <<>> THEN stored ELSE Inserted(stored, cursor, option[1])
  BY <1>3 DEF Store
<1>5. option # <<>> /\ stored'[cursor] = option[1]
  BY <1>4 DEF Inserted
<1>6. value # <<>> /\ value # <<Panic>>
  BY <1>1, <1>3, <1>4, <1>5 DEF Then
<1>7. PICK data : data = FlattenSeq([i \in DOMAIN c.body |-> EvaluateConstruct(c.body[i], NoKey, lookup)])
  OBVIOUS
<1>8. value = TupleValue(c.name, data)
  <2>1. EvaluateConstruct(c, left.name, lookup) = Evaluate(EvaluateConstruct, c, left.name, lookup)
    BY Zenon DEF EvaluatedAsHere, ConstructsEvaluated
  <2>2. Evaluate(EvaluateConstruct, c, left.name, lookup) =
          TupleValue(c.name, FlattenSeq([i \in DOMAIN c.body |-> EvaluateConstruct(c.body[i], NoKey, lookup)]))
    BY DEF Evaluate
  <2> QED BY <1>1, <1>7, <2>1, <2>2
<1>9. PICK items : items = ItemsOf(c, lookup)
  OBVIOUS
<1>10. /\ IsASeq(data) /\ IsASeq(items) /\ DOMAIN items = DOMAIN data
       /\ items = IF c.name = "numseq"
                  THEN [i \in DOMAIN data |-> Timed(data[i], "Float64", NumberAndEnvelope)]
                  ELSE [i \in DOMAIN data |-> Timed(data[i], "Color3", ColorOf)]
  BY <1>7, <1>9, ItemsFacts
<1>11. PICK result : result = Annotated(c.name, data)
  OBVIOUS
<1>12. value = <<result>> /\ result # None /\ result # Panic
  <2>1. c.name \in AnnotationNames
    BY DEF AnnotationNames
  <2>2. Panic # None
    BY DEF Panic, None
  <2>3. Panic \notin ToSet(data)
    <3>1. SUFFICES ASSUME Panic \in ToSet(data) PROVE FALSE
      OBVIOUS
    <3>2. TupleValue(c.name, data) = <<Panic>>
      BY <2>2, <3>1 DEF TupleValue
    <3> QED BY <1>6, <1>8, <3>2
  <2>4. TupleValue(c.name, data) = IF result = None THEN <<>> ELSE <<result>>
    BY <1>11, <2>1, <2>3 DEF TupleValue
  <2> QED BY <1>6, <1>8, <2>4
<1>13. result = IF c.name = "numseq" THEN NumseqAnnotation(data) ELSE ColorseqAnnotation(data)
  <2>1. CASE c.name = "numseq"
    BY <1>11, <2>1 DEF Annotated
  <2>2. CASE c.name = "colorseq"
    BY <1>11, <2>2 DEF Annotated
  <2> QED BY <2>1, <2>2
<1>14. data # <<>>
  BY <1>12, <1>13 DEF NumseqAnnotation, ColorseqAnnotation
<1>15. /\ result.keypoints = Keypoints(items)
       /\ result.type \in {"NumberSequence", "ColorSequence"}
  BY <1>10, <1>13, <1>14 DEF NumseqAnnotation, ColorseqAnnotation
<1>16. items # <<>>
  <2>1. Len(data) \in Nat \ {0} /\ DOMAIN data = 1 .. Len(data)
    BY <1>10, <1>14, SeqFacts
  <2>2. 1 \in DOMAIN items
    BY <1>10, <2>1
  <2> QED BY <2>2
<1>17. variant = <<result>>
  <2>1. ToVariant(result, left.name) = CoerceToVariant(ToVariant, result, left.name)
    BY Zenon DEF EvaluatedAsHere, VariantsCoerced
  <2>2. CoerceToVariant(ToVariant, result, left.name) = <<result>>
    BY <1>15 DEF CoerceToVariant
  <2> QED BY <1>1, <1>12, <2>1, <2>2 DEF Then
<1>18. d0 = <<result>>
  <2>1. CoerceToStatic(result, left.name) = <<result>>
    BY <1>15 DEF CoerceToStatic
  <2> QED BY <1>1, <1>12, <2>1 DEF Then
<1> QED BY <1>4, <1>5, <1>9, <1>15, <1>16, <1>17, <1>18

LEMMA SequenceStep ==
  ASSUME EvaluatedAsHere, Inv, ArgumentsListed, Next
  PROVE  SequenceSpans
<1>1. PICK c, lookup, items : c = RightOf(cursor) /\ lookup = CompilerLookup(c) /\ items = ItemsOf(c, lookup)
  OBVIOUS
<1>2. SUFFICES ASSUME Compiles("Assignment"), ConstructAt(cursor).right # <<>>,
                      c.kind = "AnnotatedTable", c.name \in {"numseq", "colorseq"},
                      cursor \in DOMAIN stored' \ DOMAIN stored, ~aborted',
                      \A i \in TimedOnes(items) : items[i].time[1] \in 0 .. Unit
               PROVE  Spans(stored'[cursor].keypoints, items)
  BY <1>1 DEF SequenceSpans
<1>3. CompileAssignment
  <2>1. phase = "compile" /\ At(cursor, "Assignment") /\ ~BodyOver(cursor) /\ cursor' # cursor
    BY <1>2 DEF Compiles, At
  <2>2. Compile
    BY <2>1 DEF Next, Check, Checked, Compiled, Terminated, vars, compileVars
  <2> QED BY <2>1, <2>2 DEF Compile, CompileNext, CompilePriority, CompileTween, EnterCompiledRule,
                            LeaveCompiledRule, At
<1>4. IsASeq(c.body)
  <2>1. Reached(cursor)
    BY <1>2 DEF Inv, CompileInv, Compiles
  <2>2. Assigns(cursor)
    BY <1>2, <2>1 DEF Assigns, Compiles
  <2> QED BY <1>1, <1>2, <2>2 DEF ArgumentsListed
<1>5. items # <<>> /\ stored'[cursor].keypoints = Keypoints(items)
  BY <1>1, <1>2, <1>3, <1>4, KeypointsStored
<1>6. Timeable(items)
  <2>1. PICK data : data = FlattenSeq([i \in DOMAIN c.body |-> EvaluateConstruct(c.body[i], NoKey, lookup)])
    OBVIOUS
  <2>2. /\ IsASeq(items) /\ DOMAIN items = DOMAIN data
        /\ \A i \in DOMAIN data : items[i].time = <<>> \/ \E t : items[i].time = <<t>>
    BY <1>1, <1>4, <2>1, ItemsFacts
  <2>3. ASSUME NEW i \in DOMAIN items PROVE items[i].time = <<>> \/ \E t \in Clock : items[i].time = <<t>>
    <3>1. CASE items[i].time = <<>>
      BY <3>1
    <3>2. CASE items[i].time # <<>>
      <4>1. PICK t : items[i].time = <<t>>
        BY <2>2, <3>2
      <4>2. i \in TimedOnes(items)
        BY <3>2 DEF TimedOnes, GivenTime
      <4>3. items[i].time[1] \in Clock
        BY <1>2, <4>2 DEF Clock
      <4>4. t = items[i].time[1]
        BY <4>1
      <4> QED BY <4>1, <4>3, <4>4
    <3> QED BY <3>1, <3>2
  <2> QED BY <2>2, <2>3 DEF Timeable
<1> QED BY <1>5, <1>6, KeypointsSpan

LEMMA ListedStays ==
  ASSUME ArgumentsListed, code' = code
  PROVE  ArgumentsListed'
BY FileFixed DEF ArgumentsListed

(* For every file and whatever else is evaluated: a numseq or a colorseq   *)
(* that the compiler stores spans its items.  Sorting keeps the untimed    *)
(* ones in place, a time that is shared out lies between its neighbours,   *)
(* and those put in front and at the end complete the sequence.            *)
THEOREM SequencesSpanned ==
  ASSUME EvaluatedAsHere
  PROVE  Spec /\ ArgumentsListed => SequencesSpan
<1>1. ArgumentsListed /\ [Next]_vars => ArgumentsListed'
  <2> SUFFICES ASSUME ArgumentsListed, [Next]_vars PROVE ArgumentsListed'
    OBVIOUS
  <2>1. code' = code
    BY DEF Next, Check, Checked, Compile, Compiled, Terminated, vars
  <2> QED BY <2>1, ListedStays
<1>2. Inv /\ ArgumentsListed /\ [Next]_vars => [SequenceSpans]_vars
  BY SequenceStep
<1> QED BY <1>1, <1>2, Invariance, PTL DEF Spec, SequencesSpan

-----------------------------------------------------------------------------
(* Tweens, which the typechecker looks at and the compiler stores.         *)

Tweens(q) == Reached(q) /\ At(q, "Tween") /\ ConstructAt(q).body # <<>>

TweenBody(q) == ConstructAt(q).body[1]

(* Nothing was reported of it, with the tokens as they are at its place.   *)
TweenCheckedWell(q) == Len(q) > 1 /\ TypecheckTween(TweenBody(q), LookupOf(TweenBody(q), q)) = {}

(* As long as nothing is reported, of no tween passed was there anything.  *)
TweensInv == errors = {} => \A q : Tweens(q) /\ Passed(q, place) => TweenCheckedWell(q)

LEMMA TweensStand ==
  ASSUME NEW q, Tweens(q)
  PROVE  Stands(q)
BY DEF Tweens, Stands, At

LEMMA TweensFixed ==
  ASSUME code' = code
  PROVE  \A q : Tweens(q)' = Tweens(q) /\ TweenBody(q)' = TweenBody(q)
<1>1. \A q : Reached(q)' = Reached(q) /\ ConstructAt(q)' = ConstructAt(q) /\ \A kind : At(q, kind)' = At(q, kind)
  BY FileFixed
<1> QED BY <1>1 DEF Tweens, TweenBody

(* What was silent then is silent now.                                     *)
LEMMA TweenStays ==
  ASSUME PlaceInv, code' = code, \A x \in DOMAIN resolved : resolved'[x] = resolved[x],
         NEW q, Reached(q), Passed(q, place) \/ q = place
  PROVE  TweenCheckedWell(q)' = TweenCheckedWell(q)
<1>1. TweenBody(q)' = TweenBody(q)
  BY TweensFixed
<1>2. \A n : Visible(q, n)' = Visible(q, n)
  BY VisibleStays
<1>3. LookupOf(TweenBody(q), q)' = LookupOf(TweenBody(q), q)
  BY <1>1, <1>2 DEF LookupOf
<1> QED BY <1>1, <1>3 DEF TweenCheckedWell, TypecheckTween, IsNumber, TweenArgFits

(* Tweens that are passed already, or whose walk passes one that is silent.*)
LEMMA TweensKept ==
  ASSUME PlaceInv, TweensInv, code' = code, \A x \in DOMAIN resolved : resolved'[x] = resolved[x],
         errors \subseteq errors',
         \A q : Tweens(q) /\ Passed(q, place') =>
           Passed(q, place) \/ (q = place /\ (errors' = {} => TweenCheckedWell(q)))
  PROVE  TweensInv'
<1>1. SUFFICES ASSUME errors' = {}, NEW q, Tweens(q)', Passed(q, place') PROVE TweenCheckedWell(q)'
  BY DEF TweensInv
<1>2. Tweens(q) /\ Reached(q)
  BY <1>1, TweensFixed DEF Tweens
<1>3. errors = {} /\ (Passed(q, place) \/ q = place) /\ TweenCheckedWell(q)
  BY <1>1, <1>2 DEF TweensInv
<1> QED BY <1>2, <1>3, TweenStays

LEMMA TweenChecked ==
  ASSUME CheckInv, CheckTween, Tweens(place), errors' = {}
  PROVE  TweenCheckedWell(place)
<1> DEFINE body == ConstructAt(place).body
           kinds == (IF GlobalScope THEN {"NotAllowedInContext"} ELSE {})
                      \cup TypecheckTween(body[1], CheckerLookup(body[1]))
<1>1. Report(kinds)
  BY DEF CheckTween, Tweens
<1>2. kinds = {}
  <2> HIDE DEF kinds
  <2> QED BY <1>1 DEF Report
<1>3. ~GlobalScope /\ TypecheckTween(body[1], CheckerLookup(body[1])) = {}
  BY <1>2
<1>4. CheckerLookup(body[1]) = LookupOf(body[1], place)
  BY CheckedAsVisible DEF CheckInv
<1>5. Len(place) > 1
  <2>1. PICK m : m = Len(place)
    OBVIOUS
  <2>2. m \in Nat \ {0} /\ m # 1
    BY <1>3, <2>1, SamePlace DEF GlobalScope, Tweens, Reached
  <2>3. m > 1
    BY <2>2
  <2> QED BY <2>1, <2>3
<1> QED BY <1>3, <1>4, <1>5 DEF TweenCheckedWell, TweenBody

LEMMA TweensCheckStep ==
  ASSUME CheckInv, TweensInv, CheckNext, code' = code
  PROVE  TweensInv'
<1>1. PlaceInv /\ Reached(place)
  BY DEF CheckInv, PlaceInv
<1>2. \A q : Tweens(q) => Stands(q) /\ IsPlace(q)
  BY TweensStand DEF Tweens, Reached
<1>3. CASE CheckAssignment
  <2>1. /\ At(place, "Assignment") /\ ~At(place, "Rule") /\ ~At(place, "Tween")
        /\ place' = Behind(place) /\ errors \subseteq errors'
    BY <1>3 DEF CheckAssignment, At, Report
  <2>2. \A x \in DOMAIN resolved : resolved'[x] = resolved[x]
    <3>1. resolved' = resolved \/ \E v : resolved' = Inserted(resolved, place, v)
      BY <1>3 DEF CheckAssignment
    <3>2. place \notin DOMAIN resolved
      BY <1>1, NothingPassed DEF PlaceInv, Reached
    <3> QED BY <3>1, <3>2 DEF Inserted
  <2>3. \A q : Tweens(q) /\ Passed(q, place') => Passed(q, place)
    BY <1>1, <1>2, <2>1, PassedBehind DEF Tweens
  <2> QED BY <1>1, <2>1, <2>2, <2>3, TweensKept
<1>4. CASE CheckTween
  <2>1. /\ At(place, "Tween") /\ ~At(place, "Rule")
        /\ place' = Behind(place) /\ errors \subseteq errors' /\ resolved' = resolved
    BY <1>4 DEF CheckTween, At, Report
  <2>2. \A q : Tweens(q) /\ Passed(q, place') => Passed(q, place) \/ q = place
    BY <1>1, <1>2, <2>1, PassedBehind
  <2>3. Tweens(place) /\ errors' = {} => TweenCheckedWell(place)
    BY <1>4, TweenChecked
  <2> QED BY <1>1, <2>1, <2>2, <2>3, TweensKept
<1>5. CASE CheckPriority
  <2>1. /\ At(place, "Priority") /\ ~At(place, "Rule") /\ ~At(place, "Tween")
        /\ place' = Behind(place) /\ errors \subseteq errors' /\ resolved' = resolved
    BY <1>5 DEF CheckPriority, At, Report
  <2>2. \A q : Tweens(q) /\ Passed(q, place') => Passed(q, place)
    BY <1>1, <1>2, <2>1, PassedBehind DEF Tweens
  <2> QED BY <1>1, <2>1, <2>2, TweensKept
<1>6. CASE EnterCheckedRule
  <2>1. At(place, "Rule") /\ place' = IntoBody(place) /\ UNCHANGED <<errors, resolved>>
    BY <1>6 DEF EnterCheckedRule
  <2>2. \A q : Tweens(q) /\ Passed(q, place') => Passed(q, place)
    BY <1>1, <1>2, <2>1, StepInto
  <2> QED BY <1>1, <2>1, <2>2, TweensKept
<1>7. CASE LeaveCheckedRule
  <2>1. Len(place) > 1 /\ BodyOver(place) /\ place' = OutOfBody(place) /\ UNCHANGED <<errors, resolved>>
    BY <1>7 DEF LeaveCheckedRule
  <2>2. \A q : Tweens(q) /\ Passed(q, place') => Passed(q, place)
    BY <1>1, <1>2, <2>1, StepOut
  <2> QED BY <1>1, <2>1, <2>2, TweensKept
<1> QED BY <1>3, <1>4, <1>5, <1>6, <1>7 DEF CheckNext

LEMMA TweensStep == Inv /\ TweensInv /\ [Next]_vars => TweensInv'
<1> SUFFICES ASSUME Inv, TweensInv, [Next]_vars PROVE TweensInv'
  OBVIOUS
<1>1. CASE Check
  BY <1>1, TweensCheckStep DEF Check, Inv
<1>2. CASE ~Check
  <2>1. UNCHANGED <<code, place, resolved, errors>>
    BY <1>2 DEF Next, Checked, Compile, Compiled, Terminated, vars, checkVars
  <2> QED BY <2>1, TweensKept DEF Inv, CheckInv
<1> QED BY <1>1, <1>2

LEMMA TweensInit == Init => TweensInv
<1> SUFFICES ASSUME Init PROVE TweensInv
  OBVIOUS
<1>1. place = Beginning
  BY DEF Init, CheckInit
<1> QED BY <1>1, NothingPassed DEF TweensInv, Tweens, Reached

LEMMA TweensInvariance == Spec => [](Inv /\ TweensInv)
BY InvInit, InvStep, TweensInit, TweensStep, PTL DEF Spec

-----------------------------------------------------------------------------
(* Of one option the list is that option.                                  *)
LEMMA FlattenedOne ==
  ASSUME NEW o, IsOption(o)
  PROVE  FlattenSeq([i \in 1 .. 1 |-> o]) = o
<1>1. PICK s : s = [i \in 1 .. 1 |-> o]
  OBVIOUS
<1>2. Len(s) = 1 /\ s # <<>> /\ s[1] = o
  <2>1. s = [i \in 1 .. 1 |-> s[i]] /\ 1 \in Nat /\ 1 \in 1 .. 1
    BY <1>1
  <2>2. Len(s) = 1 /\ IsASeq(s)
    BY <2>1, FunctionIsSeq
  <2> QED BY <1>1, <2>1, <2>2, SeqFacts
<1>3. PICK f : f = CHOOSE flatten : flatten = [i \in 1 .. Len(s) |-> IF i = 1 THEN s[i] ELSE flatten[i - 1] \o s[i]]
  OBVIOUS
<1>4. FlattenSeq(s) = f[1]
  <2>1. Len(s) # 0
    BY <1>2
  <2>2. FlattenSeq(s) = f[Len(s)]
    BY <2>1, <1>2, <1>3, Zenon DEF FlattenSeq
  <2> QED BY <1>2, <2>2
<1>5. PICK g : g = [i \in 1 .. 1 |-> o]
  OBVIOUS
<1>6. \A i \in 1 .. 1 : i = 1
  OBVIOUS
<1>7. \A i \in 1 .. 1 : g[i] = IF i = 1 THEN s[i] ELSE g[i - 1] \o s[i]
  BY <1>2, <1>5, <1>6
<1>8. g = [i \in 1 .. 1 |-> IF i = 1 THEN s[i] ELSE g[i - 1] \o s[i]]
  <2>1. g = [i \in 1 .. 1 |-> g[i]]
    BY <1>5
  <2> QED BY <1>7, <2>1, Zenon
<1>9. f = [i \in 1 .. 1 |-> IF i = 1 THEN s[i] ELSE f[i - 1] \o s[i]]
  BY <1>2, <1>3, <1>8, Zenon
<1>10. 1 \in 1 .. 1
  OBVIOUS
<1>11. f[1] = IF 1 = 1 THEN s[1] ELSE f[1 - 1] \o s[1]
  BY <1>9, <1>10, Zenon
<1>12. f[1] = o
  BY <1>2, <1>11
<1> QED BY <1>1, <1>4, <1>12

(* A number is the variant that it is.                                     *)
LEMMA VariantOf ==
  ASSUME EvaluatedAsHere, NEW d, d.type \in {"Float64", "Bool"}
  PROVE  ToVariant(d, NoKey) = <<d>>
<1>1. ToVariant(d, NoKey) = CoerceToVariant(ToVariant, d, NoKey)
  BY Zenon DEF EvaluatedAsHere, VariantsCoerced
<1>2. CoerceToVariant(ToVariant, d, NoKey) = <<d>>
  BY DEF CoerceToVariant
<1> QED BY <1>1, <1>2

(* Arguments that the typechecker takes, as the compiler takes them.       *)
LEMMA NumberPart ==
  ASSUME EvaluatedAsHere, NEW i, i \in {1, 4, 6}, NEW c, NEW lookup, IsNumber(c, lookup)
  PROVE  \E d : TweenPart(i, c, lookup) = <<d>>
<1>1. PICK d : EvaluateConstruct(c, NoKey, lookup) = <<d>> /\ d.type = "Float64"
  <2>1. IsOption(EvaluateConstruct(c, NoKey, lookup))
    BY ConstructOption
  <2> QED BY <2>1 DEF IsNumber, IsOption
<1>2. ToVariant(d, NoKey) = <<d>>
  BY <1>1, VariantOf
<1>3. i \notin {2, 3} /\ i # 2 /\ i # 3 /\ i # 5
  OBVIOUS
<1>4. TweenPart(i, c, lookup) = <<d>>
  BY <1>1, <1>2, <1>3 DEF TweenPart, Then
<1> QED BY <1>4

LEMMA BooleanPart ==
  ASSUME EvaluatedAsHere, NEW c, NEW lookup, c.kind = "Boolean"
  PROVE  \E d : TweenPart(5, c, lookup) = <<d>>
<1>1. EvaluateConstruct(c, NoKey, lookup) = Evaluate(EvaluateConstruct, c, NoKey, lookup)
  BY Zenon DEF EvaluatedAsHere, ConstructsEvaluated
<1>2. PICK d : d = [type |-> "Bool", is |-> c.name = "true"]
  OBVIOUS
<1>3. Evaluate(EvaluateConstruct, c, NoKey, lookup) = EvaluateToken(c, NoKey, lookup)
  BY DEF Evaluate
<1>4. EvaluateToken(c, NoKey, lookup) = <<d>>
  BY <1>2 DEF EvaluateToken
<1>5. d.type = "Bool"
  BY <1>2
<1>6. ToVariant(d, NoKey) = <<d>>
  BY <1>5, VariantOf
<1>7. EvaluateConstruct(c, NoKey, lookup) = <<d>>
  BY <1>1, <1>3, <1>4
<1>8. TweenPart(5, c, lookup) = <<d>>
  BY <1>5, <1>6, <1>7 DEF TweenPart, Then
<1> QED BY <1>8

LEMMA ItemPart ==
  ASSUME EvaluatedAsHere, NEW enum, enum \in {"EasingStyle", "EasingDirection"}, NEW c, NEW lookup,
         IsItemOf(c, enum), ValidateEnumVariant(ItemName(c), enum), c.kind = "Enum" => c.sigil = "."
  PROVE  \E d, item : /\ EvaluateConstruct(c, enum, lookup) = <<d>> /\ d.type = "EnumItem"
                      /\ item \in DOMAIN Enums[enum] /\ d.value = Enums[enum][item]
                      /\ d.value % 256 = d.value
<1>1. EvaluateConstruct(c, enum, lookup) = Evaluate(EvaluateConstruct, c, enum, lookup)
  BY Zenon DEF EvaluatedAsHere, ConstructsEvaluated
<1>2. enum \in DOMAIN Enums /\ enum \notin DOMAIN Rebinds /\ enum # NoKey
  BY EasingAssumption DEF NoKey
<1>3. PICK item : item = ItemName(c)
  OBVIOUS
<1>4. item \in DOMAIN Enums[enum]
  BY <1>2, <1>3 DEF ValidateEnumVariant
<1>5. PICK d : d = EnumItem(enum, Enums[enum][item])
  OBVIOUS
<1>6. FromNameAndValueName(enum, item) = <<d>>
  BY <1>2, <1>4, <1>5 DEF FromNameAndValueName
<1>7. d.type = "EnumItem" /\ d.value = Enums[enum][item]
  BY <1>5 DEF EnumItem
<1>8. Evaluate(EvaluateConstruct, c, enum, lookup) = <<d>>
  <2>1. CASE c.kind = "Shorthand"
    <3>1. Evaluate(EvaluateConstruct, c, enum, lookup) = EvaluateToken(c, enum, lookup)
      BY <2>1 DEF Evaluate
    <3>2. ShorthandRebind(enum) = enum /\ c.name = item
      BY <1>2, <1>3, <2>1 DEF ShorthandRebind, ItemName
    <3>3. EvaluateToken(c, enum, lookup) = <<d>>
      BY <1>2, <1>6, <2>1, <3>2 DEF EvaluateToken
    <3> QED BY <3>1, <3>3
  <2>2. CASE c.kind = "Enum"
    <3>1. c.name = enum /\ c.item = item /\ c.sigil = "."
      BY <1>3, <2>2 DEF IsItemOf, ItemName
    <3>2. PICK found : found = IF c.sigil = "." THEN FromNameAndValueName(c.name, c.item) ELSE <<>>
      OBVIOUS
    <3>3. found = <<d>>
      BY <1>6, <3>1, <3>2
    <3>4. Evaluate(EvaluateConstruct, c, enum, lookup) = IF found = <<>> THEN <<None>> ELSE found
      BY <2>2, <3>2 DEF Evaluate
    <3> QED BY <3>3, <3>4
  <2> QED BY <2>1, <2>2 DEF IsItemOf
<1>9. d.value % 256 = d.value
  <2>1. d.value \in 0 .. 255
    BY <1>4, <1>7, EasingAssumption
  <2> QED BY <2>1
<1> QED BY <1>1, <1>4, <1>7, <1>8, <1>9

LEMMA EasingPart ==
  ASSUME EvaluatedAsHere, NEW i, i \in {2, 3}, NEW c, NEW lookup,
         TweenArgFits(i, c, lookup), c.kind = "Enum" => c.sigil = "."
  PROVE  \E d : TweenPart(i, c, lookup) = <<d>>
<1>1. PICK enum : enum = IF i = 2 THEN "EasingStyle" ELSE "EasingDirection"
  OBVIOUS
<1>2. /\ enum \in {"EasingStyle", "EasingDirection"}
      /\ IsItemOf(c, enum) /\ ValidateEnumVariant(ItemName(c), enum)
  BY <1>1 DEF TweenArgFits
<1>3. PICK d, item : /\ EvaluateConstruct(c, enum, lookup) = <<d>> /\ d.type = "EnumItem"
                     /\ item \in DOMAIN Enums[enum] /\ d.value = Enums[enum][item]
                     /\ d.value % 256 = d.value
  BY <1>2, ItemPart
<1>4. TweenPart(i, c, lookup) = <<d.value>>
  <2>1. CASE i = 2
    BY <1>1, <1>3, <2>1 DEF TweenPart, Then
  <2>2. CASE i = 3
    BY <1>1, <1>3, <2>2 DEF TweenPart, Then
  <2> QED BY <2>1, <2>2
<1> QED BY <1>4

LEMMA PartMade ==
  ASSUME EvaluatedAsHere, NEW i, NEW c, NEW lookup, TweenArgFits(i, c, lookup), c.kind = "Enum" => c.sigil = "."
  PROVE  i \in 1 .. 6 /\ \E d : TweenPart(i, c, lookup) = <<d>>
<1>1. i \in {1, 2, 3, 4, 5, 6}
  BY DEF TweenArgFits
<1>2. CASE i \in {1, 4, 6}
  BY <1>2, NumberPart DEF TweenArgFits
<1>3. CASE i \in {2, 3}
  BY <1>3, EasingPart
<1>4. CASE i = 5
  BY <1>4, BooleanPart DEF TweenArgFits
<1> QED BY <1>1, <1>2, <1>3, <1>4

PartsOf(body) == IF body.kind = "Table" THEN body.body ELSE <<body>>

(* All that is written of a tween has a value.                             *)
Valued(body, lookup) ==
  \A i \in DOMAIN PartsOf(body) :
    /\ EvaluateConstruct(PartsOf(body)[i], NoKey, lookup) # <<>>
    /\ PartsOf(body)[i].kind = "Enum" => PartsOf(body)[i].sigil = "."

(* A tween info with a part for each argument.                             *)
IsMade(body, lookup) ==
  \E info : /\ TweenInfo(body, lookup) = <<info>> /\ info.type = "TweenInfo"
            /\ Len(info.parts) = Len(PartsOf(body))

LEMMA BareMade ==
  ASSUME EvaluatedAsHere, NEW body, NEW lookup, body.kind # "Table", IsNumber(body, lookup)
  PROVE  IsMade(body, lookup)
<1>1. PICK d : EvaluateConstruct(body, NoKey, lookup) = <<d>> /\ d.type = "Float64"
  <2>1. IsOption(EvaluateConstruct(body, NoKey, lookup))
    BY ConstructOption
  <2> QED BY <2>1 DEF IsNumber, IsOption
<1>2. ToVariant(d, NoKey) = <<d>>
  BY <1>1, VariantOf
<1>3. PICK info : info = [type |-> "TweenInfo", parts |-> <<d>>]
  OBVIOUS
<1>4. TweenInfo(body, lookup) = <<info>>
  BY <1>1, <1>2, <1>3 DEF TweenInfo, Then
<1>5. info.type = "TweenInfo" /\ Len(info.parts) = 1 /\ Len(<<body>>) = 1
  BY <1>3
<1> QED BY <1>4, <1>5 DEF IsMade, PartsOf

LEMMA ListMade ==
  ASSUME NEW body, NEW lookup, body.kind = "Table", IsASeq(body.body), Len(body.body) \in 1 .. 6,
         \A i \in DOMAIN body.body : \E d : TweenPart(i, body.body[i], lookup) = <<d>>
  PROVE  IsMade(body, lookup)
<1>1. PICK n : n = Len(body.body) /\ n \in 1 .. 6 /\ n \in Nat /\ DOMAIN body.body = 1 .. n
  BY SeqFacts
<1>2. PICK parts : parts = [i \in 1 .. n |-> TweenPart(i, body.body[i], lookup)]
  OBVIOUS
<1>3. \A i \in 1 .. n : IsOption(parts[i]) /\ parts[i] # <<>>
  <2> TAKE i \in 1 .. n
  <2>1. PICK d : TweenPart(i, body.body[i], lookup) = <<d>>
    BY <1>1
  <2>2. parts[i] = <<d>>
    BY <1>2, <2>1
  <2> QED BY <2>2 DEF IsOption
<1>4. Len(FlattenSeq(parts)) = n
  <2>1. parts = [i \in 1 .. n |-> parts[i]]
    BY <1>2
  <2> QED BY <1>1, <1>3, <2>1, FlattenedFacts
<1>5. <<>> \notin ToSet(parts)
  <2>1. DOMAIN parts = 1 .. n
    BY <1>2
  <2> QED BY <1>3, <2>1 DEF ToSet
<1>6. PICK info : info = [type |-> "TweenInfo", parts |-> FlattenSeq(parts)]
  OBVIOUS
<1>7. TweenInfo(body, lookup) = <<info>>
  <2>1. parts = [i \in DOMAIN body.body |-> TweenPart(i, body.body[i], lookup)]
    BY <1>1, <1>2
  <2> QED BY <1>1, <1>5, <1>6, <2>1 DEF TweenInfo
<1>8. info.type = "TweenInfo" /\ Len(info.parts) = n
  BY <1>4, <1>6
<1> QED BY <1>1, <1>7, <1>8 DEF IsMade, PartsOf

(* A tuple taken for a number is a tuple of one.                           *)
LEMMA NumberAlone ==
  ASSUME EvaluatedAsHere, NEW body, NEW lookup, body.kind = "Table", body.name = NoKey, IsASeq(body.body),
         Valued(body, lookup), IsNumber(body, lookup)
  PROVE  Len(body.body) = 1 /\ IsNumber(body.body[1], lookup)
<1>1. PICK n : n = Len(body.body) /\ n \in Nat /\ DOMAIN body.body = 1 .. n
  BY SeqFacts
<1>2. PICK s : s = [i \in 1 .. n |-> EvaluateConstruct(body.body[i], NoKey, lookup)]
  OBVIOUS
<1>3. PICK data : data = FlattenSeq(s)
  OBVIOUS
<1>4. EvaluateConstruct(body, NoKey, lookup) = TupleValue(NoKey, data)
  <2>1. EvaluateConstruct(body, NoKey, lookup) = Evaluate(EvaluateConstruct, body, NoKey, lookup)
    BY Zenon DEF EvaluatedAsHere, ConstructsEvaluated
  <2>2. Evaluate(EvaluateConstruct, body, NoKey, lookup) =
          TupleValue(body.name,
                     FlattenSeq([i \in DOMAIN body.body |-> EvaluateConstruct(body.body[i], NoKey, lookup)]))
    BY DEF Evaluate
  <2> QED BY <1>1, <1>2, <1>3, <2>1, <2>2
<1>5. \A i \in 1 .. n : IsOption(s[i]) /\ s[i] # <<>>
  BY <1>1, <1>2, ConstructOption DEF Valued, PartsOf
<1>6. IsASeq(data) /\ Len(data) = n
  <2>1. s = [i \in 1 .. n |-> s[i]]
    BY <1>2
  <2> QED BY <1>1, <1>3, <1>5, <2>1, FlattenedFacts
<1>7. PICK d : TupleValue(NoKey, data) = <<d>> /\ d.type = "Float64"
  <2>1. IsOption(TupleValue(NoKey, data))
    BY TupleOption
  <2> QED BY <1>4, <2>1 DEF IsNumber, IsOption
<1>8. n = 1 /\ data[1] = d
  <2>1. NoKey \notin AnnotationNames
    BY DEF NoKey, AnnotationNames
  <2>2. Panic.type # "Float64" /\ None.type # "Float64" /\ \A x : TupleData(x).type # "Float64"
    BY DEF Panic, None, TupleData
  <2>3. PICK result : result = IF Len(data) = 0 THEN None ELSE IF Len(data) = 1 THEN data[1] ELSE TupleData(data)
    OBVIOUS
  <2>4. PICK whole : whole = IF Panic \in ToSet(data) THEN Panic ELSE result
    OBVIOUS
  <2>5. TupleValue(NoKey, data) = IF whole = None THEN <<>> ELSE <<whole>>
    BY <2>1, <2>3, <2>4 DEF TupleValue
  <2>6. d = whole
    <3>1. <<d>> = IF whole = None THEN <<>> ELSE <<whole>>
      BY <1>7, <2>5
    <3>2. <<d>> = <<whole>>
      BY <3>1
    <3> QED BY <3>2
  <2>7. d = result
    BY <1>7, <2>2, <2>4, <2>6
  <2> QED BY <1>6, <1>7, <2>2, <2>3, <2>7
<1>9. PICK x : s[1] = <<x>>
  <2>1. 1 \in 1 .. n
    BY <1>8
  <2> QED BY <1>5, <2>1 DEF IsOption
<1>10. data = <<x>>
  <2>1. \A i \in 1 .. 1 : i = 1
    OBVIOUS
  <2>2. s = [i \in 1 .. 1 |-> s[i]]
    BY <1>2, <1>8
  <2>3. s = [i \in 1 .. 1 |-> <<x>>]
    BY <1>9, <2>1, <2>2
  <2>4. IsOption(<<x>>)
    BY DEF IsOption
  <2> QED BY <1>3, <2>3, <2>4, FlattenedOne
<1>11. EvaluateConstruct(body.body[1], NoKey, lookup) = <<d>>
  <2>1. x = d
    BY <1>8, <1>10
  <2>2. 1 \in 1 .. n
    BY <1>8
  <2> QED BY <1>2, <1>9, <2>1, <2>2
<1> QED BY <1>1, <1>7, <1>8, <1>11 DEF IsNumber

(* What the typechecker reports nothing of is made into a tween info.      *)
LEMMA TweenMade ==
  ASSUME EvaluatedAsHere, NEW body, NEW lookup, TypecheckTween(body, lookup) = {}, Valued(body, lookup),
         body.kind = "Table" => IsASeq(body.body) /\ body.name = NoKey
  PROVE  IsMade(body, lookup)
<1>1. CASE body.kind # "Table"
  <2>1. IsNumber(body, lookup)
    BY <1>1 DEF TypecheckTween
  <2> QED BY <1>1, <2>1, BareMade
<1>2. CASE body.kind = "Table" /\ IsNumber(body, lookup)
  <2>1. IsASeq(body.body) /\ Len(body.body) = 1 /\ IsNumber(body.body[1], lookup)
    BY <1>2, NumberAlone
  <2>2. \A i \in DOMAIN body.body : i = 1
    BY <2>1, SeqFacts
  <2>3. \E d : TweenPart(1, body.body[1], lookup) = <<d>>
    BY <2>1, NumberPart
  <2> QED BY <1>2, <2>1, <2>2, <2>3, ListMade
<1>3. CASE body.kind = "Table" /\ ~IsNumber(body, lookup)
  <2>1. PICK n : /\ n = Len(body.body) /\ n \in Nat /\ DOMAIN body.body = 1 .. n
                 /\ (body.body # <<>> => n > 0) /\ IsASeq(body.body)
    BY <1>3, SeqFacts
  <2>2. body.body # <<>> /\ \A i \in DOMAIN body.body : TweenArgFits(i, body.body[i], lookup)
    BY <1>3 DEF TypecheckTween
  <2>3. \A i \in DOMAIN body.body : body.body[i].kind = "Enum" => body.body[i].sigil = "."
    BY <1>3 DEF Valued, PartsOf
  <2>4. \A i \in DOMAIN body.body : i \in 1 .. 6 /\ \E d : TweenPart(i, body.body[i], lookup) = <<d>>
    BY <2>2, <2>3, PartMade
  <2>5. n \in 1 .. 6
    <3>1. n > 0
      BY <2>1, <2>2
    <3>2. n \in DOMAIN body.body
      BY <2>1, <3>1
    <3> QED BY <2>4, <3>2
  <2> QED BY <1>3, <2>1, <2>4, <2>5, ListMade
<1> QED BY <1>1, <1>2, <1>3

(* The compiler has the tokens that the typechecker had.                   *)
LEMMA TweenCompileStep ==
  ASSUME EvaluatedAsHere, Inv, TweensInv, ArgumentsListed, Next
  PROVE  TweenCompiles
<1>1. PICK tween, body, lookup :
        tween = ConstructAt(cursor) /\ body = TweenBody(cursor) /\ lookup = CompilerLookup(body)
  OBVIOUS
<1>2. SUFFICES ASSUME NEW names \in SUBSET TokenNames,
                      Compiles("Tween"), tween.name # <<>>, tween.body # <<>>, Silent, Settled(names),
                      MadeOf(body, names), Valued(body, lookup)
               PROVE  /\ cursor \in DOMAIN stored' /\ stored'[cursor].type = "TweenInfo"
                      /\ Len(stored'[cursor].parts) = Len(PartsOf(body))
  BY <1>1 DEF TweenCompiles, TweenBody, Valued, PartsOf
<1>3. CompileTween
  <2>1. phase = "compile" /\ At(cursor, "Tween") /\ ~BodyOver(cursor) /\ cursor' # cursor
    BY <1>2 DEF Compiles, At
  <2>2. Compile
    BY <2>1 DEF Next, Check, Checked, Compiled, Terminated, vars, compileVars
  <2> QED BY <2>1, <2>2 DEF Compile, CompileNext, CompileAssignment, CompilePriority, EnterCompiledRule,
                            LeaveCompiledRule, At
<1>4. WalkOver(place) /\ CompileInv /\ Reached(cursor) /\ Reached(place) /\ errors = {}
  BY <1>2 DEF Inv, CompileInv, CheckInv, PlaceInv, Compiles, Silent
<1>5. Tweens(cursor)
  BY <1>1, <1>2, <1>4 DEF Tweens, Compiles
<1>6. TweenCheckedWell(cursor)
  BY <1>4, <1>5, AllPassed, TweensStand DEF TweensInv
<1>7. lookup = LookupOf(body, cursor)
  <2>1. names \subseteq Known
    BY <1>2 DEF Known
  <2>2. MadeOf(body, Known)
    BY <1>2, <2>1 DEF MadeOf
  <2> QED BY <1>1, <1>4, <2>2, CompiledAsVisible
<1>8. TypecheckTween(body, lookup) = {} /\ current # Root
  <2>1. Len(cursor) # 1
    BY <1>6, SamePlace, <1>4 DEF TweenCheckedWell, Reached
  <2> QED BY <1>1, <1>4, <1>6, <1>7, <2>1, RootFacts DEF TweenCheckedWell
<1>9. IsMade(body, lookup)
  <2>1. body.kind = "Table" => IsASeq(body.body) /\ body.name = NoKey
    BY <1>1, <1>5 DEF ArgumentsListed, Tweens, TweenBody
  <2> QED BY <1>2, <1>8, <2>1, TweenMade
<1>10. PICK info : /\ TweenInfo(body, lookup) = <<info>> /\ info.type = "TweenInfo"
                   /\ Len(info.parts) = Len(PartsOf(body))
  BY <1>9 DEF IsMade
<1>11. stored' = Inserted(stored, cursor, info)
  <2>1. TweenInfoOf(body, lookup) = TweenInfo(body, lookup)
    BY Zenon DEF EvaluatedAsHere
  <2> DEFINE t == ConstructAt(cursor)
             v == Then(t.body, LAMBDA c : TweenInfoOf(c, CompilerLookup(c)))
  <2>2. v = <<info>>
    BY <1>1, <1>2, <1>10, <2>1 DEF Then, TweenBody
  <2>3. Store("tweens", t.name[1], v)
    <3>1. t.name # <<>>
      BY <1>1, <1>2
    <3> HIDE DEF v
    <3> QED BY <1>3, <1>8, <3>1 DEF CompileTween, v
  <2> HIDE DEF t, v
  <2> QED BY <2>2, <2>3 DEF Store
<1> QED BY <1>10, <1>11 DEF Inserted

(* For every file and whatever else is evaluated: a tween that the         *)
(* typechecker reports nothing of, looking at the arguments as they        *)
(* are written, is one that the compiler makes a tween info of from what   *)
(* they evaluate to, with a part for each of them.                         *)
THEOREM TweensCompile ==
  ASSUME EvaluatedAsHere
  PROVE  Spec /\ ArgumentsListed => SilentTweensCompile
<1>1. ArgumentsListed /\ [Next]_vars => ArgumentsListed'
  <2> SUFFICES ASSUME ArgumentsListed, [Next]_vars PROVE ArgumentsListed'
    OBVIOUS
  <2>1. code' = code
    BY DEF Next, Check, Checked, Compile, Compiled, Terminated, vars
  <2> QED BY <2>1, ListedStays
<1>2. Inv /\ TweensInv /\ ArgumentsListed /\ [Next]_vars => [TweenCompiles]_vars
  BY TweenCompileStep
<1> QED BY <1>1, <1>2, TweensInvariance, PTL DEF Spec, SilentTweensCompile
=============================================================================
