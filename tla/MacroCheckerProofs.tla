------------------------- MODULE MacroCheckerProofs -------------------------
(***************************************************************************)
(* Proofs about MacroChecker: its recursive definitions are definitions,   *)
(* for constructs nested to any depth, and a file without errors is known  *)
(* as it was written and free of errors by all its macros.                 *)
(***************************************************************************)
EXTENDS MacroChecker, WellFoundedInduction, SequenceTheorems, TLAPS

LEMMA LeastExists ==
  ASSUME NEW S \in SUBSET Nat, S # {}
  PROVE  \E m \in S : \A k \in S : m <= k
<1>1. PICK m \in S : \A k \in S : ~ (<<k, m>> \in OpToRel(<, Nat))
  BY NatLessThanWellFounded, WFMin, Zenon
<1>2. \A k \in S : m <= k
  <2> TAKE k \in S
  <2>1. ~ (<<k, m>> \in OpToRel(<, Nat))
    BY <1>1
  <2>2. <<k, m>> \in Nat \X Nat
    OBVIOUS
  <2>3. ~ (k < m)
    BY <2>1, <2>2 DEF OpToRel
  <2> QED BY <2>3
<1> QED BY <1>2

-----------------------------------------------------------------------------
(* Recursion over nested constructs.  A definition f[c] == G[c][...] may   *)
(* use f at the constructs inside c.  The constructs of depth less than n  *)
(* have such a function for every n, any two of these agree where both are *)
(* defined, and so they are all parts of one.                              *)

Shallow(n) == {c \in Item : Levels[c] < n}

Fits(f, n, G) ==
  /\ DOMAIN f = Shallow(n)
  /\ \A c \in Shallow(n) : f[c] = G[c][[i \in Inner(c) |-> f[i]]]

LEMMA InnerShallow ==
  ASSUME NEW n \in Nat, NEW c \in Shallow(n + 1)
  PROVE  Inner(c) \subseteq Shallow(n)
<1>1. c \in Item /\ Levels[c] \in Nat /\ Levels[c] < n + 1
  BY NestingAssumption DEF Shallow
<1>2. ASSUME NEW i \in Inner(c) PROVE i \in Shallow(n)
  <2>1. i \in Item /\ Levels[i] < Levels[c]
    BY <1>1, NestingAssumption
  <2>2. Levels[i] \in Nat
    BY <2>1, NestingAssumption
  <2>3. Levels[i] < n
    BY <1>1, <2>1, <2>2
  <2> QED BY <2>1, <2>3 DEF Shallow
<1> QED BY <1>2

LEMMA FitsNext ==
  ASSUME NEW G, NEW n \in Nat, NEW f, Fits(f, n, G)
  PROVE  \E g : Fits(g, n + 1, G)
<1> DEFINE g == [c \in Shallow(n + 1) |-> G[c][[i \in Inner(c) |-> f[i]]]]
<1>1. ASSUME NEW c \in Shallow(n + 1)
      PROVE  g[c] = G[c][[i \in Inner(c) |-> g[i]]]
  <2>1. ASSUME NEW i \in Inner(c) PROVE g[i] = f[i]
    <3>1. i \in Shallow(n)
      BY InnerShallow
    <3>2. i \in Shallow(n + 1)
      BY <3>1, NestingAssumption DEF Shallow
    <3>3. f[i] = G[i][[j \in Inner(i) |-> f[j]]]
      BY <3>1 DEF Fits
    <3> QED BY <3>2, <3>3
  <2>2. [i \in Inner(c) |-> g[i]] = [i \in Inner(c) |-> f[i]]
    <3> HIDE DEF g
    <3> QED BY <2>1
  <2>3. g[c] = G[c][[i \in Inner(c) |-> f[i]]]
    OBVIOUS
  <2> HIDE DEF g
  <2> QED BY <2>2, <2>3
<1>2. DOMAIN g = Shallow(n + 1)
  OBVIOUS
<1> HIDE DEF g
<1> QED BY <1>1, <1>2 DEF Fits

LEMMA FitsExists ==
  ASSUME NEW G, NEW n \in Nat
  PROVE  \E f : Fits(f, n, G)
<1> DEFINE Undefined == {m \in Nat : ~ \E f : Fits(f, m, G)}
<1>1. SUFFICES ASSUME Undefined # {} PROVE FALSE
  OBVIOUS
<1>2. PICK m \in Undefined : \A k \in Undefined : m <= k
  <2>1. Undefined \in SUBSET Nat
    OBVIOUS
  <2> HIDE DEF Undefined
  <2> QED BY <1>1, <2>1, LeastExists
<1>3. CASE m = 0
  <2>1. Shallow(0) = {}
    BY NestingAssumption DEF Shallow
  <2>2. Fits([c \in Shallow(0) |-> c], 0, G)
    BY <2>1 DEF Fits
  <2> QED BY <1>2, <1>3, <2>2
<1>4. CASE m # 0
  <2>1. m - 1 \in Nat /\ ~(m <= m - 1) /\ (m - 1) + 1 = m
    BY <1>4
  <2>2. m - 1 \notin Undefined
    BY <1>2, <2>1
  <2>3. PICK f : Fits(f, m - 1, G)
    BY <2>1, <2>2
  <2>4. \E g : Fits(g, (m - 1) + 1, G)
    BY <2>1, <2>3, FitsNext
  <2> QED BY <1>2, <2>1, <2>4
<1> QED BY <1>3, <1>4

LEMMA FitsUnique ==
  ASSUME NEW G, NEW n \in Nat, NEW m \in Nat, NEW f, NEW g, Fits(f, n, G), Fits(g, m, G),
         NEW c \in Shallow(n) \cap Shallow(m)
  PROVE  f[c] = g[c]
<1> DEFINE Apart == {k \in Nat : \E d \in Shallow(n) \cap Shallow(m) : Levels[d] = k /\ f[d] # g[d]}
<1>1. SUFFICES ASSUME Apart # {} PROVE FALSE
  <2>1. Levels[c] \in Nat
    BY NestingAssumption DEF Shallow
  <2>2. SUFFICES ASSUME f[c] # g[c] PROVE Apart # {}
    OBVIOUS
  <2> QED BY <2>1, <2>2
<1>2. PICK k \in Apart : \A l \in Apart : k <= l
  <2>1. Apart \in SUBSET Nat
    OBVIOUS
  <2> HIDE DEF Apart
  <2> QED BY <1>1, <2>1, LeastExists
<1>3. PICK d \in Shallow(n) \cap Shallow(m) : Levels[d] = k /\ f[d] # g[d]
  BY <1>2
<1>4. ASSUME NEW i \in Inner(d) PROVE f[i] = g[i]
  <2>1. d \in Item /\ i \in Item /\ Levels[i] < Levels[d] /\ Levels[i] \in Nat /\ Levels[d] \in Nat
    BY NestingAssumption DEF Shallow
  <2>2. i \in Shallow(n) \cap Shallow(m)
    BY <2>1 DEF Shallow
  <2>3. Levels[i] \notin Apart
    <3>1. ~(k <= Levels[i])
      BY <1>3, <2>1
    <3> HIDE DEF Apart
    <3> QED BY <1>2, <3>1
  <2> QED BY <2>1, <2>2, <2>3
<1>5. [i \in Inner(d) |-> f[i]] = [i \in Inner(d) |-> g[i]]
  BY <1>4
<1>6. f[d] = G[d][[i \in Inner(d) |-> f[i]]] /\ g[d] = G[d][[i \in Inner(d) |-> g[i]]]
  BY DEF Fits
<1> QED BY <1>3, <1>5, <1>6

LEMMA RecursionExists ==
  ASSUME NEW G
  PROVE  \E f : f = [c \in Item |-> G[c][[i \in Inner(c) |-> f[i]]]]
<1> DEFINE Of(c) == CHOOSE f : Fits(f, Levels[c] + 1, G)
           f == [c \in Item |-> Of(c)[c]]
<1>1. ASSUME NEW c \in Item
      PROVE  Levels[c] \in Nat /\ Fits(Of(c), Levels[c] + 1, G) /\ c \in Shallow(Levels[c] + 1)
  <2>1. Levels[c] \in Nat /\ Levels[c] + 1 \in Nat /\ Levels[c] < Levels[c] + 1
    BY NestingAssumption
  <2>2. \E h : Fits(h, Levels[c] + 1, G)
    BY <2>1, FitsExists
  <2> QED BY <2>1, <2>2 DEF Shallow
<1>2. ASSUME NEW c \in Item
      PROVE  f[c] = G[c][[i \in Inner(c) |-> f[i]]]
  <2> HIDE DEF Of
  <2>1. ASSUME NEW i \in Inner(c) PROVE f[i] = Of(c)[i]
    <3>1. i \in Item /\ i \in Shallow(Levels[c])
      BY <1>1, InnerShallow, NestingAssumption
    <3>2. i \in Shallow(Levels[c] + 1)
      BY <3>1, <1>1, NestingAssumption DEF Shallow
    <3>3. Of(i)[i] = Of(c)[i]
      <4>1. Levels[i] + 1 \in Nat /\ Levels[c] + 1 \in Nat
        BY <1>1, <3>1
      <4> QED BY <1>1, <3>1, <3>2, <4>1, FitsUnique
    <3> QED BY <3>1, <3>3
  <2>2. [i \in Inner(c) |-> f[i]] = [i \in Inner(c) |-> Of(c)[i]]
    <3> HIDE DEF f
    <3> QED BY <2>1
  <2>3. Of(c)[c] = G[c][[i \in Inner(c) |-> Of(c)[i]]]
    BY <1>1 DEF Fits
  <2>4. f[c] = Of(c)[c]
    OBVIOUS
  <2> HIDE DEF f
  <2> QED BY <2>2, <2>3, <2>4
<1>3. f = [c \in Item |-> f[c]]
  OBVIOUS
<1> HIDE DEF f
<1>4. f = [c \in Item |-> G[c][[i \in Inner(c) |-> f[i]]]]
  BY <1>2, <1>3
<1> QED BY <1>4

LEMMA TypedRecursion ==
  ASSUME NEW G, NEW T, \A c \in Item : \A h \in [Inner(c) -> T] : G[c][h] \in T
  PROVE  \E f \in [Item -> T] : \A c \in Item : f[c] = G[c][[i \in Inner(c) |-> f[i]]]
<1>1. PICK f : f = [c \in Item |-> G[c][[i \in Inner(c) |-> f[i]]]]
  BY RecursionExists
<1>2. \A c \in Item : f[c] = G[c][[i \in Inner(c) |-> f[i]]]
  BY <1>1
<1>3. \A c \in Item : f[c] \in T
  <2> DEFINE Wrong == {k \in Nat : \E c \in Item : Levels[c] = k /\ f[c] \notin T}
  <2>1. SUFFICES ASSUME Wrong # {} PROVE FALSE
    BY NestingAssumption
  <2>2. PICK k \in Wrong : \A l \in Wrong : k <= l
    <3>1. Wrong \in SUBSET Nat
      OBVIOUS
    <3> HIDE DEF Wrong
    <3> QED BY <2>1, <3>1, LeastExists
  <2>3. PICK c \in Item : Levels[c] = k /\ f[c] \notin T
    BY <2>2
  <2>4. ASSUME NEW i \in Inner(c) PROVE f[i] \in T
    <3>1. i \in Item /\ Levels[i] \in Nat /\ Levels[c] \in Nat /\ Levels[i] < Levels[c]
      BY NestingAssumption
    <3>2. Levels[i] \notin Wrong
      <4>1. ~(k <= Levels[i])
        BY <2>3, <3>1
      <4> HIDE DEF Wrong
      <4> QED BY <2>2, <4>1
    <3> QED BY <3>1, <3>2
  <2>5. [i \in Inner(c) |-> f[i]] \in [Inner(c) -> T]
    BY <2>4
  <2>6. G[c][[i \in Inner(c) |-> f[i]]] \in T
    BY <2>5
  <2> QED BY <1>2, <2>3, <2>6
<1>4. f = [c \in Item |-> f[c]]
  BY <1>1
<1>5. f \in [Item -> T]
  BY <1>3, <1>4
<1> QED BY <1>2, <1>5

-----------------------------------------------------------------------------
(* A construct with all that is nested in it.                              *)

LEMMA NestedDef ==
  /\ Nested \in [Item -> SUBSET Item]
  /\ \A c \in Item : Nested[c] = {c} \cup UNION {Nested[i] : i \in Inner(c)}
<1> DEFINE F(f) == [c \in Item |-> {c} \cup UNION {f[i] : i \in Inner(c)}]
           G == [c \in Item |-> [h \in [Inner(c) -> SUBSET Item] |-> {c} \cup UNION {h[i] : i \in Inner(c)}]]
<1>1. ASSUME NEW c \in Item, NEW h \in [Inner(c) -> SUBSET Item]
      PROVE  G[c][h] = {c} \cup UNION {h[i] : i \in Inner(c)} /\ G[c][h] \in SUBSET Item
  OBVIOUS
<1>2. PICK f \in [Item -> SUBSET Item] : \A c \in Item : f[c] = G[c][[i \in Inner(c) |-> f[i]]]
  <2> HIDE DEF G
  <2>1. \A c \in Item : \A h \in [Inner(c) -> SUBSET Item] : G[c][h] \in SUBSET Item
    BY <1>1
  <2> QED BY <2>1, TypedRecursion
<1>3. ASSUME NEW c \in Item PROVE f[c] = {c} \cup UNION {f[i] : i \in Inner(c)}
  <2>1. \A i \in Inner(c) : i \in Item
    BY NestingAssumption
  <2> DEFINE h == [i \in Inner(c) |-> f[i]]
  <2>2. h \in [Inner(c) -> SUBSET Item] /\ \A i \in Inner(c) : h[i] = f[i]
    BY <2>1
  <2>3. {h[i] : i \in Inner(c)} = {f[i] : i \in Inner(c)}
    BY <2>2
  <2>4. f[c] = G[c][h]
    BY <1>2
  <2> HIDE DEF G, h
  <2> QED BY <1>1, <2>2, <2>3, <2>4
<1>4. f = F(f)
  <2>1. f = [c \in Item |-> f[c]]
    OBVIOUS
  <2> QED BY <1>3, <2>1
<1>5. Nested = CHOOSE g : g = F(g)
  BY DEF Nested
<1>6. Nested = F(Nested)
  <2> HIDE DEF F
  <2> QED BY <1>4, <1>5, Zenon
<1>7. \A c \in Item : Nested[c] = {c} \cup UNION {Nested[i] : i \in Inner(c)}
  BY <1>6
<1>8. Nested \in [Item -> SUBSET Item]
  <2> DEFINE Wrong == {k \in Nat : \E c \in Item : Levels[c] = k /\ Nested[c] \notin SUBSET Item}
  <2>1. SUFFICES ASSUME Wrong # {} PROVE FALSE
    <3>1. Nested = [c \in Item |-> Nested[c]]
      BY <1>6
    <3>2. SUFFICES ASSUME NEW c \in Item PROVE Nested[c] \in SUBSET Item
      BY <3>1
    <3> QED BY NestingAssumption
  <2>2. PICK k \in Wrong : \A l \in Wrong : k <= l
    <3>1. Wrong \in SUBSET Nat
      OBVIOUS
    <3> HIDE DEF Wrong
    <3> QED BY <2>1, <3>1, LeastExists
  <2>3. PICK c \in Item : Levels[c] = k /\ Nested[c] \notin SUBSET Item
    BY <2>2
  <2>4. ASSUME NEW i \in Inner(c) PROVE Nested[i] \in SUBSET Item
    <3>1. i \in Item /\ Levels[i] \in Nat /\ Levels[c] \in Nat /\ Levels[i] < Levels[c]
      BY NestingAssumption
    <3>2. Levels[i] \notin Wrong
      <4>1. ~(k <= Levels[i])
        BY <2>3, <3>1
      <4> HIDE DEF Wrong
      <4> QED BY <2>2, <4>1
    <3> QED BY <3>1, <3>2
  <2>5. Nested[c] \in SUBSET Item
    BY <1>7, <2>4
  <2> QED BY <2>3, <2>5
<1> QED BY <1>7, <1>8

(* Whatever stands in a nested construct is nested too.                    *)
LEMMA NestedClosed ==
  ASSUME NEW c \in Item
  PROVE  /\ c \in Nested[c] /\ Nested[c] \subseteq Item
         /\ \A d \in Nested[c] : Inner(d) \subseteq Nested[c]
<1>1. \A e \in Item : e \in Nested[e] /\ Nested[e] \subseteq Item
  BY NestedDef
<1> DEFINE Open == {k \in Nat : \E e \in Item : Levels[e] = k /\ \E d \in Nested[e] : ~(Inner(d) \subseteq Nested[e])}
<1>2. SUFFICES ASSUME Open # {} PROVE FALSE
  BY <1>1, NestingAssumption
<1>3. PICK k \in Open : \A l \in Open : k <= l
  <2>1. Open \in SUBSET Nat
    OBVIOUS
  <2> HIDE DEF Open
  <2> QED BY <1>2, <2>1, LeastExists
<1>4. PICK e \in Item : Levels[e] = k /\ \E d \in Nested[e] : ~(Inner(d) \subseteq Nested[e])
  BY <1>3
<1>5. PICK d \in Nested[e] : ~(Inner(d) \subseteq Nested[e])
  BY <1>4
<1>6. Nested[e] = {e} \cup UNION {Nested[i] : i \in Inner(e)}
  BY NestedDef
<1>7. Inner(e) \subseteq Nested[e]
  BY <1>1, <1>6, NestingAssumption
<1>8. PICK i \in Inner(e) : d \in Nested[i]
  BY <1>5, <1>6, <1>7
<1>9. Inner(d) \subseteq Nested[i]
  <2>1. i \in Item /\ Levels[i] \in Nat /\ Levels[e] \in Nat /\ Levels[i] < Levels[e]
    BY NestingAssumption
  <2>2. Levels[i] \notin Open
    <3>1. ~(k <= Levels[i])
      BY <1>4, <2>1
    <3> HIDE DEF Open
    <3> QED BY <1>3, <3>1
  <2> QED BY <1>8, <2>1, <2>2
<1> QED BY <1>5, <1>6, <1>8, <1>9

-----------------------------------------------------------------------------
(* FlattenSeq, which is defined by recursion too: it is the sequence of    *)
(* all elements of all sequences.                                          *)

Flattens(f, ss, m) == f = [i \in 1 .. m |-> IF i = 1 THEN ss[i] ELSE f[i - 1] \o ss[i]]

LEMMA FlattensNext ==
  ASSUME NEW ss, NEW m \in Nat \ {0}, NEW f, Flattens(f, ss, m - 1)
  PROVE  \E g : Flattens(g, ss, m)
<1> DEFINE g == [i \in 1 .. m |-> IF i < m THEN f[i] ELSE IF m = 1 THEN ss[1] ELSE f[m - 1] \o ss[m]]
<1>1. ASSUME NEW i \in 1 .. m
      PROVE  g[i] = IF i = 1 THEN ss[i] ELSE g[i - 1] \o ss[i]
  <2>1. CASE i = m
    BY <2>1
  <2>2. CASE i # m
    <3>1. i \in 1 .. m - 1 /\ i < m /\ i - 1 < m
      BY <2>2
    <3>2. f[i] = IF i = 1 THEN ss[i] ELSE f[i - 1] \o ss[i]
      BY <3>1 DEF Flattens
    <3>3. i # 1 => i - 1 \in 1 .. m
      BY <3>1
    <3> QED BY <3>1, <3>2, <3>3
  <2> QED BY <2>1, <2>2
<1>2. g = [i \in 1 .. m |-> g[i]]
  OBVIOUS
<1> HIDE DEF g
<1>3. g = [i \in 1 .. m |-> IF i = 1 THEN ss[i] ELSE g[i - 1] \o ss[i]]
  <2>1. [i \in 1 .. m |-> g[i]] = [i \in 1 .. m |-> IF i = 1 THEN ss[i] ELSE g[i - 1] \o ss[i]]
    BY <1>1
  <2> QED BY <1>2, <2>1
<1>4. Flattens(g, ss, m)
  BY <1>3 DEF Flattens
<1> QED BY <1>4

LEMMA FlattensExists ==
  ASSUME NEW ss, NEW n \in Nat
  PROVE  \E f : Flattens(f, ss, n)
<1> DEFINE Undefined == {m \in Nat : ~ \E f : Flattens(f, ss, m)}
<1>1. SUFFICES ASSUME Undefined # {} PROVE FALSE
  OBVIOUS
<1>2. PICK m \in Undefined : \A k \in Undefined : m <= k
  <2>1. Undefined \in SUBSET Nat
    OBVIOUS
  <2> HIDE DEF Undefined
  <2> QED BY <1>1, <2>1, LeastExists
<1>3. CASE m = 0
  <2>1. Flattens([i \in 1 .. 0 |-> i], ss, 0)
    BY DEF Flattens
  <2> QED BY <1>2, <1>3, <2>1
<1>4. CASE m # 0
  <2>1. m \in Nat \ {0} /\ m - 1 \in Nat /\ ~(m <= m - 1)
    BY <1>4
  <2>2. m - 1 \notin Undefined
    BY <1>2, <2>1
  <2>3. PICK f : Flattens(f, ss, m - 1)
    BY <2>1, <2>2
  <2>4. \E g : Flattens(g, ss, m)
    BY <2>1, <2>3, FlattensNext
  <2> QED BY <1>2, <2>4
<1> QED BY <1>3, <1>4

LEMMA ConcatFacts ==
  ASSUME NEW S, NEW p \in Seq(S), NEW q \in Seq(S)
  PROVE  p \o q \in Seq(S) /\ Range(p \o q) = Range(p) \cup Range(q)
<1> DEFINE r == p \o q
<1>1. /\ r \in Seq(S) /\ Len(r) = Len(p) + Len(q) /\ Len(p) \in Nat /\ Len(q) \in Nat
      /\ DOMAIN p = 1 .. Len(p) /\ DOMAIN q = 1 .. Len(q) /\ DOMAIN r = 1 .. Len(r)
  OBVIOUS
<1>2. \A i \in 1 .. Len(p) + Len(q) : r[i] = IF i <= Len(p) THEN p[i] ELSE q[i - Len(p)]
  OBVIOUS
<1> HIDE DEF r
<1>3. ASSUME NEW x \in Range(r) PROVE x \in Range(p) \cup Range(q)
  <2>1. PICK i \in 1 .. Len(p) + Len(q) : x = r[i]
    BY <1>1 DEF Range
  <2>2. CASE i <= Len(p)
    <3>1. i \in 1 .. Len(p) /\ x = p[i]
      BY <1>1, <1>2, <2>1, <2>2
    <3> QED BY <1>1, <3>1 DEF Range
  <2>3. CASE ~(i <= Len(p))
    <3>1. i - Len(p) \in 1 .. Len(q) /\ x = q[i - Len(p)]
      BY <1>1, <1>2, <2>1, <2>3
    <3> QED BY <1>1, <3>1 DEF Range
  <2> QED BY <2>2, <2>3
<1>4. ASSUME NEW x \in Range(p) PROVE x \in Range(r)
  <2>1. PICK i \in 1 .. Len(p) : x = p[i]
    BY <1>1 DEF Range
  <2>2. i \in 1 .. Len(p) + Len(q) /\ i <= Len(p)
    BY <1>1
  <2> QED BY <1>1, <1>2, <2>1, <2>2 DEF Range
<1>5. ASSUME NEW x \in Range(q) PROVE x \in Range(r)
  <2>1. PICK i \in 1 .. Len(q) : x = q[i]
    BY <1>1 DEF Range
  <2>2. /\ Len(p) + i \in 1 .. Len(p) + Len(q) /\ ~(Len(p) + i <= Len(p))
        /\ (Len(p) + i) - Len(p) = i
    BY <1>1
  <2>3. r[Len(p) + i] = x
    BY <1>2, <2>1, <2>2
  <2> QED BY <1>1, <2>2, <2>3 DEF Range
<1>6. Range(r) = Range(p) \cup Range(q)
  BY <1>3, <1>4, <1>5
<1> QED BY <1>1, <1>6 DEF r

LEMMA FlattenFacts ==
  ASSUME NEW S, NEW ss \in Seq(Seq(S))
  PROVE  /\ FlattenSeq(ss) \in Seq(S)
         /\ Range(FlattenSeq(ss)) = UNION {Range(ss[i]) : i \in DOMAIN ss}
<1>0. Len(ss) \in Nat /\ DOMAIN ss = 1 .. Len(ss) /\ \A i \in 1 .. Len(ss) : ss[i] \in Seq(S)
  OBVIOUS
<1>1. CASE Len(ss) = 0
  <2>1. ss = <<>> /\ FlattenSeq(ss) = ss
    BY <1>1 DEF FlattenSeq
  <2>2. <<>> \in Seq(S) /\ DOMAIN <<>> = {}
    OBVIOUS
  <2> QED BY <2>1, <2>2 DEF Range
<1>2. CASE Len(ss) # 0
  <2> DEFINE F(f) == [i \in 1 .. Len(ss) |-> IF i = 1 THEN ss[i] ELSE f[i - 1] \o ss[i]]
             f == CHOOSE g : g = F(g)
  <2>1. FlattenSeq(ss) = f[Len(ss)]
    BY <1>2 DEF FlattenSeq
  <2>2. f = F(f)
    <3>1. \E g : g = F(g)
      BY <1>0, FlattensExists DEF Flattens
    <3> HIDE DEF F
    <3> QED BY <3>1, Zenon
  <2> HIDE DEF f
  <2>3. \A i \in 1 .. Len(ss) : f[i] = IF i = 1 THEN ss[i] ELSE f[i - 1] \o ss[i]
    BY <2>2
  <2> DEFINE Upto(n) == UNION {Range(ss[i]) : i \in 1 .. n}
             Good(n) == f[n] \in Seq(S) /\ Range(f[n]) = Upto(n)
             Bad == {n \in 1 .. Len(ss) : ~Good(n)}
  <2>4. Bad = {}
    <3>1. SUFFICES ASSUME Bad # {} PROVE FALSE
      OBVIOUS
    <3>2. PICK n \in Bad : \A k \in Bad : n <= k
      <4>1. Bad \in SUBSET Nat
        BY <1>0
      <4> HIDE DEF Bad
      <4> QED BY <3>1, <4>1, LeastExists
    <3>3. n \in 1 .. Len(ss) /\ ~Good(n) /\ n \in Nat
      BY <1>0, <3>2
    <3>4. CASE n = 1
      <4>1. f[n] = ss[1] /\ 1 \in 1 .. Len(ss)
        BY <2>3, <3>3, <3>4
      <4>2. 1 .. n = {1}
        BY <3>4
      <4>3. Upto(n) = Range(ss[1])
        BY <4>2
      <4> QED BY <1>0, <3>3, <4>1, <4>3
    <3>5. CASE n # 1
      <4>1. n - 1 \in 1 .. Len(ss) /\ ~(n <= n - 1)
        BY <1>0, <3>3, <3>5
      <4>2. Good(n - 1)
        <5>1. n - 1 \notin Bad
          <6> HIDE DEF Bad
          <6> QED BY <3>2, <4>1
        <5> HIDE DEF Good
        <5> QED BY <4>1, <5>1
      <4>3. f[n] = f[n - 1] \o ss[n] /\ ss[n] \in Seq(S)
        BY <1>0, <2>3, <3>3, <3>5
      <4>4. f[n] \in Seq(S) /\ Range(f[n]) = Range(f[n - 1]) \cup Range(ss[n])
        BY <4>2, <4>3, ConcatFacts
      <4>5. 1 .. n = (1 .. n - 1) \cup {n}
        BY <3>3
      <4>6. Upto(n) = Upto(n - 1) \cup Range(ss[n])
        BY <4>5
      <4> QED BY <3>3, <4>2, <4>4, <4>6
    <3> QED BY <3>4, <3>5
  <2>5. Good(Len(ss))
    <3>1. Len(ss) \in 1 .. Len(ss) /\ Len(ss) \notin Bad
      <4> HIDE DEF Bad
      <4> QED BY <1>0, <1>2, <2>4
    <3> HIDE DEF Good
    <3> QED BY <3>1
  <2> QED BY <1>0, <2>1, <2>5
<1> QED BY <1>1, <1>2
-----------------------------------------------------------------------------
(* A registry that grows keeps what has been found free of errors so, as   *)
(* long as it takes no builtin's key.                                      *)

Extends(new, reg) ==
  /\ \A k \in DOMAIN reg : k \in DOMAIN new /\ new[k].returns = reg[k].returns
  /\ \A k \in DOMAIN Builtins : k \in DOMAIN new => k \in DOMAIN reg

LEMMA CallFound ==
  ASSUME NEW reg, NEW call, NEW context
  PROVE  CallErrors(reg, call, context) = {} <=>
           /\ CheckedKey(call) \in DOMAIN reg \cup DOMAIN Builtins
           /\ ReturnContext(reg, CheckedKey(call)) = context
<1> DEFINE key == CheckedKey(call)
           overloads == {k \in DOMAIN reg \cup DOMAIN Builtins : k.name = key.name}
           kind == CASE overloads = {} -> {"UndefinedMacro"}
                     [] overloads # {} /\ key \notin overloads -> {"WrongMacroArgCount"}
                     [] key \in overloads ->
                          IF ReturnContext(reg, key) = context THEN {} ELSE {"WrongMacroContext"}
<1>1. CallErrors(reg, call, context) = {[kind |-> k, key |-> key] : k \in kind}
  BY DEF CallErrors
<1>2. CallErrors(reg, call, context) = {} <=> kind = {}
  <2> HIDE DEF kind, key
  <2> QED BY <1>1
<1>3. key \in overloads <=> key \in DOMAIN reg \cup DOMAIN Builtins
  <2> HIDE DEF key
  <2> QED OBVIOUS
<1> HIDE DEF key, overloads
<1>4. CASE overloads = {}
  BY <1>2, <1>3, <1>4 DEF key
<1>5. CASE overloads # {} /\ key \notin overloads
  <2>1. kind = {"WrongMacroArgCount"}
    BY <1>5
  <2> QED BY <1>2, <1>3, <1>5, <2>1 DEF key
<1>6. CASE overloads # {} /\ key \in overloads
  <2>1. kind = IF ReturnContext(reg, key) = context THEN {} ELSE {"WrongMacroContext"}
    BY <1>6
  <2> QED BY <1>2, <1>3, <1>6, <2>1 DEF key
<1> QED BY <1>4, <1>5, <1>6

LEMMA CallStaysFound ==
  ASSUME NEW reg, NEW new, Extends(new, reg), NEW call, NEW context,
         CallErrors(reg, call, context) = {}
  PROVE  CallErrors(new, call, context) = {}
<1>1. /\ CheckedKey(call) \in DOMAIN reg \cup DOMAIN Builtins
      /\ ReturnContext(reg, CheckedKey(call)) = context
  BY CallFound
<1>2. /\ CheckedKey(call) \in DOMAIN new \cup DOMAIN Builtins
      /\ ReturnContext(new, CheckedKey(call)) = context
  BY <1>1 DEF Extends, ReturnContext
<1> QED BY <1>2, CallFound

LEMMA ExprStaysClean ==
  ASSUME NEW reg, NEW new, Extends(new, reg), NEW expr, NEW args, ExprErrors(reg, expr, args) = {}
  PROVE  ExprErrors(new, expr, args) = {}
BY CallStaysFound DEF ExprErrors

LEMMA OutsideStaysClean ==
  ASSUME NEW reg, NEW new, Extends(new, reg), NEW c, OutsideErrors(reg, c) = {}
  PROVE  OutsideErrors(new, c) = {}
<1>1. ASSUME c.kind = "rule" PROVE OutsideErrors(new, c) = {}
  <2>1. \A s \in Reached(c.selectors) : CallErrors(reg, s, "selector") = {}
    BY <1>1 DEF OutsideErrors, SelectorErrors
  <2>2. \A s \in Reached(c.selectors) : CallErrors(new, s, "selector") = {}
    BY <2>1, CallStaysFound
  <2> QED BY <1>1, <2>2 DEF OutsideErrors, SelectorErrors
<1>2. ASSUME c.kind # "rule", c.kind = "set", c.store \notin {"priority", "tween"}
      PROVE  OutsideErrors(new, c) = {}
  BY <1>2, ExprStaysClean DEF OutsideErrors
<1>3. ASSUME c.kind # "rule", c.kind # "set", c.kind = "call" PROVE OutsideErrors(new, c) = {}
  BY <1>3, CallStaysFound DEF OutsideErrors
<1>4. c.kind # "macro"
  BY DEF OutsideErrors
<1>5. ASSUME c.kind # "rule", ~(c.kind = "set" /\ c.store \notin {"priority", "tween"}), c.kind # "call"
      PROVE  OutsideErrors(new, c) = {}
  BY <1>4, <1>5 DEF OutsideErrors
<1> QED BY <1>1, <1>2, <1>3, <1>5

LEMMA InsideStaysClean ==
  ASSUME NEW reg, NEW new, Extends(new, reg), NEW c, NEW args, InsideErrors(reg, c, args) = {}
  PROVE  InsideErrors(new, c, args) = {}
<1>1. ASSUME c.kind = "set", c.store = "tween" PROVE InsideErrors(new, c, args) = {}
  BY <1>1 DEF InsideErrors
<1>2. ASSUME c.kind = "set", c.store # "tween", c.store # "priority" PROVE InsideErrors(new, c, args) = {}
  BY <1>2, ExprStaysClean DEF InsideErrors
<1>3. ASSUME c.kind = "call" PROVE InsideErrors(new, c, args) = {}
  BY <1>3, CallStaysFound DEF InsideErrors
<1>4. c.kind # "macro"
  BY DEF InsideErrors
<1>5. ASSUME ~(c.kind = "set" /\ c.store # "priority"), c.kind # "call"
      PROVE  InsideErrors(new, c, args) = {}
  BY <1>4, <1>5 DEF InsideErrors
<1> QED BY <1>1, <1>2, <1>3, <1>5

LEMMA RuleStaysClean ==
  ASSUME NEW reg, NEW new, Extends(new, reg), NEW c, RuleErrors(reg, c) = {}
  PROVE  RuleErrors(new, c) = {}
<1>1. \A i \in Nested[c] : OutsideErrors(reg, i) = {}
  BY DEF RuleErrors
<1>2. \A i \in Nested[c] : OutsideErrors(new, i) = {}
  BY <1>1, OutsideStaysClean
<1> QED BY <1>2 DEF RuleErrors

LEMMA ContentStaysClean ==
  ASSUME NEW reg, NEW new, Extends(new, reg), NEW c, NEW args, ContentErrors(reg, c, args) = {}
  PROVE  ContentErrors(new, c, args) = {}
<1>1. \A i \in Nested[c] : InsideErrors(reg, i, args) = {}
  BY DEF ContentErrors
<1>2. \A i \in Nested[c] : InsideErrors(new, i, args) = {}
  BY <1>1, InsideStaysClean
<1> QED BY <1>2 DEF ContentErrors

LEMMA BodyStaysClean ==
  ASSUME NEW reg, NEW new, Extends(new, reg), NEW macro, BodyErrors(reg, macro) = {}
  PROVE  BodyErrors(new, macro) = {}
<1>1. ASSUME macro.body.kind = "construct" PROVE BodyErrors(new, macro) = {}
  <2>1. \A c \in Range(macro.body.content) : ContentErrors(reg, c, Range(macro.args)) = {}
    BY <1>1 DEF BodyErrors
  <2>2. \A c \in Range(macro.body.content) : ContentErrors(new, c, Range(macro.args)) = {}
    BY <2>1, ContentStaysClean
  <2> QED BY <1>1, <2>2 DEF BodyErrors
<1>2. ASSUME macro.body.kind = "selector" PROVE BodyErrors(new, macro) = {}
  <2>1. \A s \in {t \in Range(macro.body.content) : t.kind = "call"} : CallErrors(reg, s, "selector") = {}
    BY <1>2 DEF BodyErrors
  <2>2. \A s \in {t \in Range(macro.body.content) : t.kind = "call"} : CallErrors(new, s, "selector") = {}
    BY <2>1, CallStaysFound
  <2> QED BY <1>2, <2>2 DEF BodyErrors
<1>3. ASSUME macro.body.kind = "datatype" PROVE BodyErrors(new, macro) = {}
  BY <1>3, ExprStaysClean DEF BodyErrors
<1>4. ASSUME macro.body.kind \notin {"construct", "datatype", "selector"} PROVE BodyErrors(new, macro) = {}
  BY <1>4 DEF BodyErrors
<1> QED BY <1>1, <1>2, <1>3, <1>4
-----------------------------------------------------------------------------
(* A file without errors is known as it was written.                       *)

LEMMA CodeFacts ==
  ASSUME IInv
  PROVE  Len(file.code) \in Nat /\ DOMAIN file.code = 1 .. Len(file.code)
BY CodeAssumption DEF IInv

LEMMA InitIInv == Init => IInv
<1> SUFFICES ASSUME Init PROVE IInv
  OBVIOUS
<1>1. file \in Files /\ at = 1 /\ known = <<>> /\ DOMAIN known = {}
  BY DEF Init
<1>2. \A i \in DOMAIN file.code : ~(i < at)
  <2>1. DOMAIN file.code = 1 .. Len(file.code) /\ Len(file.code) \in Nat
    BY <1>1, CodeAssumption
  <2> QED BY <1>1, <2>1
<1>3. Passed = {}
  BY <1>2 DEF Passed
<1> QED BY <1>1, <1>2, <1>3 DEF IInv, KnownFromFile, KnownAsDefined, PassedIsClean

(* The construct at hand joins those passed, if it is a macro.             *)
LEMMA PassedNext ==
  ASSUME IInv, AtConstruct, at' = at + 1, UNCHANGED file
  PROVE  /\ at \in DOMAIN file.code /\ at \notin Passed
         /\ \A i \in DOMAIN file.code : i < at' <=> i < at \/ i = at
         /\ Passed' = IF Here.kind = "macro" THEN Passed \cup {at} ELSE Passed
<1>1. at \in DOMAIN file.code /\ at \in Nat
  BY CodeFacts DEF IInv, AtConstruct
<1>2. \A i \in DOMAIN file.code : i < at + 1 <=> i < at \/ i = at
  BY <1>1, CodeFacts
<1>3. Passed' = {i \in DOMAIN file.code : i < at + 1 /\ file.code[i].kind = "macro"}
  BY DEF Passed
<1> QED BY <1>1, <1>2, <1>3 DEF Passed, Here

(* Registering a macro keeps what is known of the others.                  *)
LEMMA RegisterFacts ==
  ASSUME RegisterMacro
  PROVE  /\ DOMAIN known' = DOMAIN known \cup {Here.key}
         /\ known'[Here.key].body = Here.macro.body /\ known'[Here.key].returns = Here.returns
         /\ \A k \in DOMAIN known : k # Here.key => known'[k] = known[k]
<1> DEFINE entry == [body |-> Here.macro.body, returns |-> Here.returns]
<1>1. known' = [k \in DOMAIN known \cup {Here.key} |-> IF k = Here.key THEN entry ELSE known[k]]
  BY DEF RegisterMacro
<1>2. entry.body = Here.macro.body /\ entry.returns = Here.returns
  OBVIOUS
<1> HIDE DEF entry
<1>3. /\ DOMAIN known' = DOMAIN known \cup {Here.key}
      /\ known'[Here.key] = entry
      /\ \A k \in DOMAIN known : k # Here.key => known'[k] = known[k]
  BY <1>1
<1> QED BY <1>2, <1>3

LEMMA FromFileNext ==
  ASSUME IInv, [Next]_vars
  PROVE  KnownFromFile'
<1> DEFINE Defined(k, c) == c.kind = "macro" /\ c.key = k
           Told(e, c) == e.body = c.macro.body /\ e.returns = c.returns
<1>1. \A k \in DOMAIN known : \E c \in Range(file.code) : Defined(k, c) /\ Told(known[k], c)
  BY DEF IInv, KnownFromFile
<1>2. CASE RegisterMacro
  <2>1. UNCHANGED file /\ Here \in Range(file.code) /\ Here.kind = "macro"
    BY <1>2, CodeFacts DEF IInv, RegisterMacro, AtConstruct, Here, Range
  <2>2. Defined(Here.key, Here) /\ Told(known'[Here.key], Here)
    BY <1>2, <2>1, RegisterFacts
  <2>3. \A k \in DOMAIN known' : \E c \in Range(file.code) : Defined(k, c) /\ Told(known'[k], c)
    <3> HIDE DEF Defined, Told
    <3> QED BY <1>1, <1>2, <2>1, <2>2, RegisterFacts
  <2> QED BY <2>1, <2>3 DEF KnownFromFile
<1>3. CASE UNCHANGED <<file, known>>
  BY <1>1, <1>3 DEF KnownFromFile
<1> QED BY <1>2, <1>3 DEF Next, DuplicateMacro, CheckConstruct, vars

LEMMA KnownNext ==
  ASSUME IInv, [Next]_vars
  PROVE  KnownAsDefined'
<1> SUFFICES ASSUME errors' = {}, ~file'.nobuiltins PROVE KnownAsDefined'
  BY DEF KnownAsDefined
<1>1. CASE RegisterMacro
  <2>1. /\ errors = {} /\ ~file.nobuiltins /\ UNCHANGED file /\ at' = at + 1 /\ AtConstruct
        /\ Here.kind = "macro" /\ Here.key \notin DOMAIN known /\ Here.key \notin DOMAIN Builtins
    BY <1>1 DEF RegisterMacro, Taken
  <2>2. Passed' = Passed \cup {at} /\ at \notin Passed
    BY <2>1, PassedNext
  <2>3. /\ DOMAIN known = {file.code[i].key : i \in Passed}
        /\ DOMAIN known \cap DOMAIN Builtins = {}
        /\ \A i \in Passed :
             /\ known[file.code[i].key].body = file.code[i].macro.body
             /\ known[file.code[i].key].returns = file.code[i].returns
             /\ \A j \in Passed : file.code[i].key = file.code[j].key => i = j
    BY <2>1 DEF IInv, KnownAsDefined
  <2>4. DOMAIN known' = {file.code[i].key : i \in Passed \cup {at}}
    BY <1>1, <2>3, RegisterFacts DEF Here
  <2>5. DOMAIN known' \cap DOMAIN Builtins = {}
    BY <1>1, <2>1, <2>3, RegisterFacts
  <2>6. ASSUME NEW i \in Passed \cup {at}
        PROVE  /\ known'[file.code[i].key].body = file.code[i].macro.body
               /\ known'[file.code[i].key].returns = file.code[i].returns
               /\ \A j \in Passed \cup {at} : file.code[i].key = file.code[j].key => i = j
    <3>1. \A j \in Passed : file.code[j].key \in DOMAIN known /\ file.code[j].key # Here.key
      BY <2>1, <2>3
    <3>2. CASE i = at
      BY <1>1, <3>1, <3>2, RegisterFacts DEF Here
    <3>3. CASE i \in Passed
      BY <1>1, <2>3, <3>1, <3>3, RegisterFacts DEF Here
    <3> QED BY <3>2, <3>3
  <2> QED BY <2>1, <2>2, <2>4, <2>5, <2>6 DEF KnownAsDefined
<1>2. CASE DuplicateMacro
  BY <1>2 DEF DuplicateMacro
<1>3. CASE CheckConstruct
  <2>1. /\ errors = {} /\ ~file.nobuiltins /\ UNCHANGED <<file, known>> /\ at' = at + 1 /\ AtConstruct
        /\ Here.kind # "macro"
    BY <1>3 DEF CheckConstruct
  <2>2. Passed' = Passed
    BY <2>1, PassedNext
  <2> QED BY <2>1, <2>2 DEF IInv, KnownAsDefined
<1>4. CASE UNCHANGED vars
  <2>1. UNCHANGED <<file, at, known, errors>> /\ Passed' = Passed
    BY <1>4 DEF vars, Passed
  <2> QED BY <2>1 DEF IInv, KnownAsDefined
<1> QED BY <1>1, <1>2, <1>3, <1>4 DEF Next

(* What is wrong with a construct at the top of a file.                    *)
Clean(reg, c) == IF c.kind = "macro" THEN BodyErrors(reg, c.macro) = {} ELSE RuleErrors(reg, c) = {}

LEMMA CleanNext ==
  ASSUME IInv, [Next]_vars, errors' = {}, ~file'.nobuiltins
  PROVE  /\ UNCHANGED file
         /\ \A i \in DOMAIN file.code : i < at' => Clean(known', file.code[i])
<1>1. errors = {} /\ UNCHANGED file
  BY DEF Next, RegisterMacro, DuplicateMacro, CheckConstruct, vars
<1>2. \A i \in DOMAIN file.code : i < at => Clean(known, file.code[i])
  BY <1>1 DEF IInv, PassedIsClean, Clean
<1>3. CASE RegisterMacro
  <2>1. /\ at' = at + 1 /\ AtConstruct
        /\ Here.kind = "macro" /\ Here.key \notin DOMAIN known /\ Here.key \notin DOMAIN Builtins
        /\ BodyErrors(known', Here.macro) = {}
    BY <1>1, <1>3 DEF RegisterMacro, Taken
  <2>2. Extends(known', known)
    BY <1>3, <2>1, RegisterFacts DEF Extends
  <2>3. \A i \in DOMAIN file.code : i < at => Clean(known', file.code[i])
    BY <1>2, <2>2, BodyStaysClean, RuleStaysClean DEF Clean
  <2>4. Clean(known', file.code[at])
    BY <2>1 DEF Clean, Here
  <2>5. \A i \in DOMAIN file.code : i < at' <=> i < at \/ i = at
    BY <1>1, <2>1, PassedNext
  <2> QED BY <1>1, <2>3, <2>4, <2>5
<1>4. CASE DuplicateMacro
  BY <1>4 DEF DuplicateMacro
<1>5. CASE CheckConstruct
  <2>1. /\ at' = at + 1 /\ AtConstruct /\ known' = known
        /\ Here.kind # "macro" /\ RuleErrors(known, Here) = {}
    BY <1>1, <1>5 DEF CheckConstruct
  <2>2. Clean(known', file.code[at])
    BY <2>1 DEF Clean, Here
  <2>3. \A i \in DOMAIN file.code : i < at' <=> i < at \/ i = at
    BY <1>1, <2>1, PassedNext
  <2> QED BY <1>1, <1>2, <2>1, <2>2, <2>3
<1>6. CASE UNCHANGED vars
  BY <1>1, <1>2, <1>6 DEF vars
<1> QED BY <1>3, <1>4, <1>5, <1>6 DEF Next

LEMMA NextIInv == IInv /\ [Next]_vars => IInv'
<1> SUFFICES ASSUME IInv, [Next]_vars PROVE IInv'
  OBVIOUS
<1>1. file' \in Files /\ at' \in Nat \ {0}
  BY DEF IInv, Next, RegisterMacro, DuplicateMacro, CheckConstruct, vars
<1>2. KnownAsDefined' /\ KnownFromFile'
  BY KnownNext, FromFileNext
<1>3. PassedIsClean'
  <2>1. ASSUME errors' = {}, ~file'.nobuiltins
        PROVE  \A i \in DOMAIN file'.code : i < at' => Clean(known', file'.code[i])
    BY <2>1, CleanNext
  <2> QED BY <2>1 DEF PassedIsClean, Clean
<1> QED BY <1>1, <1>2, <1>3 DEF IInv
-----------------------------------------------------------------------------
(* The calls the search for recursion gets are all there are in a body.    *)

LEMMA SelectorCallsFacts ==
  ASSUME NEW q \in Seq(Selector)
  PROVE  /\ SelectorCalls(q) \in Seq(Key)
         /\ \A s \in Range(q) : s.kind = "call" => CheckedKey(s) \in Range(SelectorCalls(q))
<1> DEFINE ss == [i \in DOMAIN q |-> IF q[i].kind = "call" THEN <<CheckedKey(q[i])>> ELSE <<>>]
<1>1. Len(q) \in Nat /\ DOMAIN q = 1 .. Len(q) /\ \A i \in DOMAIN q : q[i] \in Selector
  OBVIOUS
<1>2. \A i \in DOMAIN q : ss[i] \in Seq(Key)
  <2> SUFFICES ASSUME NEW i \in DOMAIN q PROVE ss[i] \in Seq(Key)
    OBVIOUS
  <2>1. CASE q[i].kind = "call"
    <3>1. CheckedKey(q[i]) \in Key
      BY <1>1, <2>1, CallsAssumption
    <3>2. ss[i] = <<CheckedKey(q[i])>>
      BY <2>1
    <3> QED BY <3>1, <3>2
  <2>2. CASE q[i].kind # "call"
    BY <2>2
  <2> QED BY <2>1, <2>2
<1>3. ss \in Seq(Seq(Key)) /\ DOMAIN ss = DOMAIN q
  <2>1. ss = [i \in 1 .. Len(q) |-> ss[i]]
    BY <1>1
  <2> HIDE DEF ss
  <2>2. [i \in 1 .. Len(q) |-> ss[i]] \in Seq(Seq(Key))
    BY <1>1, <1>2
  <2> QED BY <1>1, <2>1, <2>2
<1>4. SelectorCalls(q) = FlattenSeq(ss)
  BY DEF SelectorCalls
<1>5. ASSUME NEW i \in DOMAIN q, q[i].kind = "call" PROVE CheckedKey(q[i]) \in Range(ss[i])
  <2>1. ss[i] = <<CheckedKey(q[i])>>
    BY <1>5
  <2>2. DOMAIN ss[i] = {1} /\ ss[i][1] = CheckedKey(q[i])
    BY <2>1
  <2> QED BY <2>2 DEF Range
<1> HIDE DEF ss
<1>6. /\ FlattenSeq(ss) \in Seq(Key)
      /\ Range(FlattenSeq(ss)) = UNION {Range(ss[i]) : i \in DOMAIN ss}
  BY <1>3, FlattenFacts
<1>7. ASSUME NEW s \in Range(q), s.kind = "call" PROVE CheckedKey(s) \in Range(SelectorCalls(q))
  <2>1. PICK i \in DOMAIN q : s = q[i]
    BY DEF Range
  <2> QED BY <1>3, <1>4, <1>5, <1>6, <1>7, <2>1
<1> QED BY <1>4, <1>6, <1>7

(* The calls of the constructs of a sequence, one after the other.         *)
LEMMA JoinedCalls ==
  ASSUME NEW f \in [Item -> Seq(Key)], NEW q \in Seq(Item)
  PROVE  /\ FlattenSeq([i \in DOMAIN q |-> f[q[i]]]) \in Seq(Key)
         /\ \A i \in DOMAIN q : Range(f[q[i]]) \subseteq Range(FlattenSeq([j \in DOMAIN q |-> f[q[j]]]))
<1> DEFINE ss == [i \in DOMAIN q |-> f[q[i]]]
<1>1. Len(q) \in Nat /\ DOMAIN q = 1 .. Len(q) /\ \A i \in DOMAIN q : q[i] \in Item
  OBVIOUS
<1>2. DOMAIN ss = 1 .. Len(q) /\ \A i \in 1 .. Len(q) : ss[i] = f[q[i]] /\ ss[i] \in Seq(Key)
  BY <1>1
<1>3. ss = [i \in 1 .. Len(q) |-> ss[i]]
  BY <1>1
<1> HIDE DEF ss
<1>4. ss \in Seq(Seq(Key))
  <2>1. [i \in 1 .. Len(q) |-> ss[i]] \in Seq(Seq(Key))
    BY <1>1, <1>2
  <2> QED BY <1>3, <2>1
<1>5. /\ FlattenSeq(ss) \in Seq(Key)
      /\ Range(FlattenSeq(ss)) = UNION {Range(ss[i]) : i \in DOMAIN ss}
  BY <1>4, FlattenFacts
<1>6. \A i \in DOMAIN q : Range(f[q[i]]) \subseteq Range(FlattenSeq(ss))
  BY <1>1, <1>2, <1>5
<1> QED BY <1>5, <1>6 DEF ss

LEMMA CallsGivenType ==
  ASSUME NEW c \in Item, NEW inner, c.kind = "rule" => FlattenSeq(inner) \in Seq(Key)
  PROVE  CallsGiven(c, inner) \in Seq(Key)
<1>1. CASE c.kind = "call"
  <2>1. CallsGiven(c, inner) = <<CheckedKey(c)>>
    BY <1>1 DEF CallsGiven
  <2> QED BY <1>1, <2>1, CallsAssumption
<1>2. CASE c.kind = "set"
  <2>1. CASE c.store \notin {"priority", "tween"} /\ c.right.kind = "call"
    <3>1. CallsGiven(c, inner) = <<CheckedKey(c.right)>>
      BY <1>2, <2>1 DEF CallsGiven
    <3> QED BY <1>2, <2>1, <3>1, CallsAssumption
  <2>2. CASE ~(c.store \notin {"priority", "tween"} /\ c.right.kind = "call")
    <3>1. CallsGiven(c, inner) = <<>>
      BY <1>2, <2>2 DEF CallsGiven
    <3> QED BY <3>1
  <2> QED BY <2>1, <2>2
<1>3. CASE c.kind = "rule"
  <2>1. CallsGiven(c, inner) = SelectorCalls(c.selectors) \o FlattenSeq(inner)
    BY <1>3 DEF CallsGiven
  <2>2. SelectorCalls(c.selectors) \in Seq(Key)
    BY <1>3, CallsAssumption, SelectorCallsFacts
  <2> QED BY <1>3, <2>1, <2>2, ConcatFacts
<1>4. CASE c.kind \notin {"call", "set", "rule"}
  <2>1. CallsGiven(c, inner) = <<>>
    BY <1>4 DEF CallsGiven
  <2> QED BY <2>1
<1> QED BY <1>1, <1>2, <1>3, <1>4

CallsFrom(c, f) == CallsGiven(c, [i \in DOMAIN c.body |-> f[c.body[i]]])

LEMMA CallsInDef ==
  /\ CallsIn \in [Item -> Seq(Key)]
  /\ \A c \in Item : CallsIn[c] = CallsFrom(c, CallsIn)
<1> DEFINE F(f) == [c \in Item |-> CallsFrom(c, f)]
           G == [c \in Item |-> [h \in [Inner(c) -> Seq(Key)] |-> CallsFrom(c, h)]]
<1>1. ASSUME NEW c \in Item, NEW f, \A i \in Inner(c) : f[i] \in Seq(Key)
      PROVE  /\ CallsFrom(c, f) \in Seq(Key)
             /\ CallsFrom(c, f) = CallsFrom(c, [i \in Inner(c) |-> f[i]])
  <2>1. CASE c.kind = "rule"
    <3> DEFINE h == [i \in Inner(c) |-> f[i]]
               q == c.body
    <3>1. q \in Seq(Item) /\ Inner(c) = Range(q)
      BY <2>1, CallsAssumption DEF Inner
    <3>2. Len(q) \in Nat /\ DOMAIN q = 1 .. Len(q) /\ \A i \in DOMAIN q : q[i] \in Inner(c)
      BY <3>1 DEF Range
    <3>3. [i \in DOMAIN q |-> f[q[i]]] = [i \in DOMAIN q |-> h[q[i]]]
      BY <3>2
    <3> DEFINE g == [d \in Item |-> IF d \in Inner(c) THEN f[d] ELSE <<>>]
    <3>4. g \in [Item -> Seq(Key)]
      BY <1>1
    <3>5. \A i \in DOMAIN q : g[q[i]] = f[q[i]]
      BY <3>1, <3>2, NestingAssumption
    <3> HIDE DEF g
    <3>6. [i \in DOMAIN q |-> g[q[i]]] = [i \in DOMAIN q |-> f[q[i]]]
      BY <3>5
    <3>7. FlattenSeq([i \in DOMAIN q |-> f[q[i]]]) \in Seq(Key)
      BY <3>1, <3>4, <3>6, JoinedCalls
    <3> QED BY <2>1, <3>3, <3>7, CallsGivenType DEF CallsFrom
  <2>2. CASE c.kind # "rule"
    <3>1. \A inner : CallsGiven(c, inner) \in Seq(Key)
      BY <2>2, CallsGivenType
    <3>2. \A x, y : CallsGiven(c, x) = CallsGiven(c, y)
      BY <2>2 DEF CallsGiven
    <3> QED BY <3>1, <3>2 DEF CallsFrom
  <2> QED BY <2>1, <2>2
<1>2. PICK f \in [Item -> Seq(Key)] : \A c \in Item : f[c] = G[c][[i \in Inner(c) |-> f[i]]]
  <2>1. \A c \in Item : \A h \in [Inner(c) -> Seq(Key)] : G[c][h] \in Seq(Key)
    BY <1>1
  <2> HIDE DEF G
  <2> QED BY <2>1, TypedRecursion
<1>3. ASSUME NEW c \in Item PROVE f[c] = CallsFrom(c, f)
  <2> DEFINE h == [i \in Inner(c) |-> f[i]]
  <2>1. h \in [Inner(c) -> Seq(Key)] /\ \A i \in Inner(c) : f[i] \in Seq(Key)
    BY NestingAssumption
  <2>2. f[c] = G[c][h]
    BY <1>2
  <2>3. CallsFrom(c, f) = CallsFrom(c, h)
    BY <1>1, <2>1
  <2> HIDE DEF h
  <2>4. G[c][h] = CallsFrom(c, h)
    BY <2>1
  <2> QED BY <2>2, <2>3, <2>4
<1>4. f = F(f)
  <2>1. f = [c \in Item |-> f[c]]
    OBVIOUS
  <2> QED BY <1>3, <2>1
<1>5. CallsIn = CHOOSE g : g = F(g)
  BY DEF CallsIn, CallsFrom
<1>6. CallsIn = F(CallsIn)
  <2> HIDE DEF F
  <2> QED BY <1>4, <1>5, Zenon
<1>7. \A c \in Item : CallsIn[c] = CallsFrom(c, CallsIn)
  <2>1. CallsIn = [c \in Item |-> CallsFrom(c, CallsIn)]
    BY <1>6
  <2> QED BY <2>1
<1>8. CallsIn \in [Item -> Seq(Key)]
  <2> DEFINE Wrong == {k \in Nat : \E c \in Item : Levels[c] = k /\ CallsIn[c] \notin Seq(Key)}
  <2>1. SUFFICES ASSUME Wrong # {} PROVE FALSE
    <3>1. CallsIn = [c \in Item |-> CallsIn[c]]
      BY <1>6
    <3>2. SUFFICES ASSUME NEW c \in Item PROVE CallsIn[c] \in Seq(Key)
      BY <3>1
    <3> QED BY NestingAssumption
  <2>2. PICK k \in Wrong : \A l \in Wrong : k <= l
    <3>1. Wrong \in SUBSET Nat
      OBVIOUS
    <3> HIDE DEF Wrong
    <3> QED BY <2>1, <3>1, LeastExists
  <2>3. PICK c \in Item : Levels[c] = k /\ CallsIn[c] \notin Seq(Key)
    BY <2>2
  <2>4. ASSUME NEW i \in Inner(c) PROVE CallsIn[i] \in Seq(Key)
    <3>1. i \in Item /\ Levels[i] \in Nat /\ Levels[c] \in Nat /\ Levels[i] < Levels[c]
      BY NestingAssumption
    <3>2. Levels[i] \notin Wrong
      <4>1. ~(k <= Levels[i])
        BY <2>3, <3>1
      <4> HIDE DEF Wrong
      <4> QED BY <2>2, <4>1
    <3> QED BY <3>1, <3>2
  <2>5. CallsIn[c] \in Seq(Key)
    BY <1>1, <1>7, <2>4
  <2> QED BY <2>3, <2>5
<1> QED BY <1>7, <1>8
(* The search is given every call that is nested in a construct.           *)
LEMMA NestedCallsGiven ==
  ASSUME NEW c \in Item, NEW d \in Nested[c], d.kind = "call"
  PROVE  CheckedKey(d) \in Range(CallsIn[c])
<1> DEFINE Missed(e) == \E x \in Nested[e] : x.kind = "call" /\ CheckedKey(x) \notin Range(CallsIn[e])
           Wrong == {k \in Nat : \E e \in Item : Levels[e] = k /\ Missed(e)}
<1>1. SUFFICES ASSUME Wrong # {} PROVE FALSE
  <2>1. SUFFICES ASSUME Missed(c) PROVE FALSE
    OBVIOUS
  <2>2. Levels[c] \in Wrong
    BY <2>1, NestingAssumption
  <2> QED BY <1>1, <2>2
<1>2. PICK k \in Wrong : \A l \in Wrong : k <= l
  <2>1. Wrong \in SUBSET Nat
    OBVIOUS
  <2> HIDE DEF Wrong
  <2> QED BY <1>1, <2>1, LeastExists
<1>3. PICK e \in Item : Levels[e] = k /\ Missed(e)
  BY <1>2
<1>4. PICK x \in Nested[e] : x.kind = "call" /\ CheckedKey(x) \notin Range(CallsIn[e])
  BY <1>3
<1>5. ASSUME NEW i \in Inner(e) PROVE i \in Item /\ ~Missed(i)
  <2>1. i \in Item /\ Levels[i] \in Nat /\ Levels[e] \in Nat /\ Levels[i] < Levels[e]
    BY NestingAssumption
  <2>2. Levels[i] \notin Wrong
    <3>1. ~(k <= Levels[i])
      BY <1>3, <2>1
    <3> HIDE DEF Wrong
    <3> QED BY <1>2, <3>1
  <2> QED BY <2>1, <2>2
<1> HIDE DEF Missed
<1>6. CallsIn[e] = CallsGiven(e, [i \in DOMAIN e.body |-> CallsIn[e.body[i]]])
  BY CallsInDef DEF CallsFrom
<1>7. CASE x = e
  <2>1. CallsIn[e] = <<CheckedKey(e)>>
    BY <1>4, <1>6, <1>7 DEF CallsGiven
  <2> QED BY <1>4, <1>7, <2>1 DEF Range
<1>8. CASE x # e
  <2>1. PICK i \in Inner(e) : x \in Nested[i]
    BY <1>8, NestedDef
  <2>2. CheckedKey(x) \in Range(CallsIn[i])
    BY <1>4, <1>5, <2>1 DEF Missed
  <2>3. e.kind = "rule" /\ e.selectors \in Seq(Selector) /\ e.body \in Seq(Item)
    BY <2>1, CallsAssumption DEF Inner
  <2>4. PICK n \in DOMAIN e.body : i = e.body[n]
    BY <2>1, <2>3 DEF Inner, Range
  <2> DEFINE joined == FlattenSeq([m \in DOMAIN e.body |-> CallsIn[e.body[m]]])
  <2>5. joined \in Seq(Key) /\ Range(CallsIn[i]) \subseteq Range(joined)
    BY <2>3, <2>4, CallsInDef, JoinedCalls
  <2>6. CallsIn[e] = SelectorCalls(e.selectors) \o joined
    BY <1>6, <2>3 DEF CallsGiven
  <2>7. SelectorCalls(e.selectors) \in Seq(Key)
    BY <2>3, SelectorCallsFacts
  <2> HIDE DEF joined
  <2>8. Range(joined) \subseteq Range(CallsIn[e])
    BY <2>5, <2>6, <2>7, ConcatFacts
  <2> QED BY <1>4, <2>2, <2>5, <2>8
<1> QED BY <1>7, <1>8

(* And so every call of a macro's body, however deep.                      *)
LEMMA BodyCallsFacts ==
  ASSUME NEW body,
         body.kind = "construct" => body.content \in Seq(Item),
         body.kind = "selector" => body.content \in Seq(Selector),
         body.kind = "datatype" /\ body.content.kind = "call" => CheckedKey(body.content) \in Key
  PROVE  /\ BodyCalls(body) \in Seq(Key)
         /\ body.kind = "construct" =>
              \A c \in Range(body.content) : \A d \in Nested[c] :
                d.kind = "call" => CheckedKey(d) \in Range(BodyCalls(body))
         /\ body.kind = "selector" =>
              \A s \in Range(body.content) : s.kind = "call" => CheckedKey(s) \in Range(BodyCalls(body))
<1>1. CASE body.kind = "construct"
  <2> DEFINE q == body.content
             joined == FlattenSeq([i \in DOMAIN q |-> CallsIn[q[i]]])
  <2>1. BodyCalls(body) = joined
    BY <1>1 DEF BodyCalls
  <2>2. joined \in Seq(Key) /\ \A i \in DOMAIN q : Range(CallsIn[q[i]]) \subseteq Range(joined)
    BY <1>1, CallsInDef, JoinedCalls
  <2> HIDE DEF joined
  <2>3. ASSUME NEW c \in Range(q), NEW d \in Nested[c], d.kind = "call"
        PROVE  CheckedKey(d) \in Range(joined)
    <3>1. PICK i \in DOMAIN q : c = q[i]
      BY DEF Range
    <3>2. c \in Item
      BY <1>1, <3>1
    <3> QED BY <2>2, <2>3, <3>1, <3>2, NestedCallsGiven
  <2> QED BY <1>1, <2>1, <2>2, <2>3
<1>2. CASE body.kind = "selector"
  <2>1. BodyCalls(body) = SelectorCalls(body.content)
    BY <1>2 DEF BodyCalls
  <2> QED BY <1>2, <2>1, SelectorCallsFacts
<1>3. CASE body.kind = "datatype" /\ body.content.kind = "call"
  <2>1. BodyCalls(body) = <<CheckedKey(body.content)>>
    BY <1>3 DEF BodyCalls
  <2> QED BY <1>3, <2>1
<1>4. CASE /\ body.kind \notin {"construct", "selector"}
           /\ ~(body.kind = "datatype" /\ body.content.kind = "call")
  <2>1. BodyCalls(body) = <<>>
    BY <1>4 DEF BodyCalls
  <2> QED BY <1>4, <2>1
<1> QED BY <1>1, <1>2, <1>3, <1>4
(* Of a file in which nothing has been reported so far, while builtins are *)
(* on, every macro passed is known as it was defined, once, and every call *)
(* passed finds a macro of its kind among those known now.                 *)
THEOREM Invariance == Init /\ [][Next]_vars => [](KnownAsDefined /\ PassedIsClean)
<1>1. IInv => KnownAsDefined /\ PassedIsClean
  BY DEF IInv
<1> QED BY <1>1, InitIInv, NextIInv, PTL
=============================================================================
