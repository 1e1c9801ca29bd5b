--------------------------- MODULE DerivesProofs ---------------------------
(***************************************************************************)
(* What Derives promises of the files, the aliases and the dependants, for *)
(* any of them: a file is listed under the aliases its check met, diff     *)
(* yields exactly the aliases that differ, and no edit, no new .luaurc and *)
(* no file that comes or goes leaves a result behind that a check would    *)
(* not give.                                                               *)
(***************************************************************************)
EXTENDS Derives, FiniteSetTheorems, TLAPS

-----------------------------------------------------------------------------
(* The keys of a table in order.                                           *)

LEMMA LeastExists ==
  ASSUME NEW S \in SUBSET Nat, S # {}
  PROVE  \E m \in S : \A k \in S : m <= k
<1>1. PICK m \in S : \A k \in S : ~ (<<k, m>> \in OpToRel(<, Nat))
  BY NatLessThanWellFounded, WFMin, Zenon
<1>2. \A k \in S : m <= k
  <2> TAKE k \in S
  <2>1. ~ (<<k, m>> \in OpToRel(<, Nat))
    BY <1>1
  <2>2. <<k, m>> \in Nat \X Nat
    OBVIOUS
  <2>3. ~ (k < m)
    BY <2>1, <2>2 DEF OpToRel
  <2> QED BY <2>3
<1> QED BY <1>2

Increasing(f) == \A i, j \in DOMAIN f : i < j => f[i] < f[j]
Ordered(S) == \E f \in [1 .. Cardinality(S) -> S] : Increasing(f)

(* A finite set of numbers can be put in order: its least element, and     *)
(* then the others.  A set that cannot be has no fewest elements.          *)
LEMMA FiniteOrdered ==
  ASSUME NEW S \in SUBSET Nat, IsFiniteSet(S)
  PROVE  Ordered(S)
<1> DEFINE Worst == {T \in SUBSET Nat : IsFiniteSet(T) /\ ~Ordered(T)}
           Sizes == {Cardinality(T) : T \in Worst}
<1>1. SUFFICES ASSUME Worst # {} PROVE FALSE
  OBVIOUS
<1>2. Sizes \in SUBSET Nat
  BY FS_CardinalityType
<1>3. Sizes # {}
  BY <1>1
<1>4. PICK n \in Sizes : \A k \in Sizes : n <= k
  BY <1>2, <1>3, LeastExists
<1>5. PICK T \in Worst : Cardinality(T) = n
  BY <1>4
<1>6. n \in Nat
  BY <1>2, <1>4
<1>7. CASE T = {}
  <2>1. Cardinality(T) = 0
    BY <1>7, FS_EmptySet
  <2>2. [i \in 1 .. 0 |-> 0] \in [1 .. Cardinality(T) -> T] /\ Increasing([i \in 1 .. 0 |-> 0])
    BY <2>1 DEF Increasing
  <2>3. Ordered(T)
    BY <2>2 DEF Ordered
  <2> QED BY <1>5, <2>3
<1>8. CASE T # {}
  <2>1. PICK m \in T : \A k \in T : m <= k
    BY <1>8, LeastExists
  <2> DEFINE U == T \ {m}
  <2>2. IsFiniteSet(U) /\ Cardinality(U) = n - 1 /\ U \in SUBSET Nat
    BY <1>5, FS_RemoveElement
  <2>3. n - 1 \in Nat
    BY <2>2, FS_CardinalityType
  <2>4. Ordered(U)
    <3>1. U \notin Worst
      <4>1. SUFFICES ASSUME U \in Worst PROVE FALSE
        OBVIOUS
      <4>2. Cardinality(U) \in Sizes
        BY <4>1
      <4>3. n <= n - 1
        BY <4>2, <2>2, <1>4
      <4> QED BY <4>3, <1>6
    <3> QED BY <3>1, <2>2
  <2>5. PICK f \in [1 .. n - 1 -> U] : Increasing(f)
    BY <2>2, <2>4 DEF Ordered
  <2> DEFINE g == [i \in 1 .. n |-> IF i = 1 THEN m ELSE f[i - 1]]
  <2>6. \A i \in 1 .. n : i # 1 => i - 1 \in 1 .. n - 1
    BY <1>6
  <2>7. \A i \in 1 .. n : i # 1 => f[i - 1] \in U
    BY <2>5, <2>6
  <2>8. g \in [1 .. n -> T]
    BY <2>7
  <2>9. Increasing(g)
    <3> SUFFICES ASSUME NEW i \in 1 .. n, NEW j \in 1 .. n, i < j PROVE g[i] < g[j]
      BY DEF Increasing
    <3>1. j # 1 /\ f[j - 1] \in U /\ j - 1 \in 1 .. n - 1
      BY <1>6, <2>6, <2>7
    <3>2. CASE i = 1
      <4>1. m <= f[j - 1] /\ m # f[j - 1] /\ m \in Nat /\ f[j - 1] \in Nat
        BY <3>1, <2>1, <2>2
      <4> QED BY <3>1, <3>2, <4>1
    <3>3. CASE i # 1
      <4>1. i - 1 \in 1 .. n - 1 /\ i - 1 < j - 1
        BY <3>3, <2>6
      <4>2. f[i - 1] < f[j - 1]
        BY <4>1, <3>1, <2>5 DEF Increasing
      <4> QED BY <3>1, <3>3, <4>2
    <3> QED BY <3>2, <3>3
  <2>10. Ordered(T)
    BY <1>5, <2>8, <2>9 DEF Ordered
  <2> QED BY <1>5, <2>10
<1> QED BY <1>7, <1>8

(* In order, every element has its place.                                  *)
LEMMA IncreasingOnto ==
  ASSUME NEW S \in SUBSET Nat, IsFiniteSet(S),
         NEW f \in [1 .. Cardinality(S) -> S], Increasing(f)
  PROVE  \A k \in S : \E i \in 1 .. Cardinality(S) : f[i] = k
<1> DEFINE n == Cardinality(S)
<1>1. n \in Nat
  BY FS_CardinalityType
<1>2. f \in Injection(1 .. n, S)
  <2>1. ASSUME NEW i \in 1 .. n, NEW j \in 1 .. n, f[i] = f[j] PROVE i = j
    <3>1. f[i] \in Nat /\ f[j] \in Nat
      OBVIOUS
    <3>2. ~ (i < j) /\ ~ (j < i)
      BY <2>1, <3>1 DEF Increasing
    <3> QED BY <1>1, <3>2
  <2> QED BY <2>1 DEF Injection, IsInjective
<1>3. IsFiniteSet(1 .. n) /\ Cardinality(1 .. n) = n
  BY <1>1, FS_Interval
<1>4. f \in Surjection(1 .. n, S)
  BY <1>2, <1>3, FS_Injection
<1> QED BY <1>4 DEF Surjection

LEMMA KeysOrdered ==
  ASSUME NEW table, DOMAIN table \subseteq Nat, IsFiniteSet(DOMAIN table)
  PROVE  /\ Len(Keys(table)) \in Nat
         /\ DOMAIN Keys(table) = 1 .. Len(Keys(table))
         /\ \A i \in 1 .. Len(Keys(table)) : Keys(table)[i] \in DOMAIN table
         /\ \A i, j \in 1 .. Len(Keys(table)) : i < j => Keys(table)[i] < Keys(table)[j]
         /\ \A k \in DOMAIN table : \E i \in 1 .. Len(Keys(table)) : Keys(table)[i] = k
<1> DEFINE n == Cardinality(DOMAIN table)
           keys == Keys(table)
<1>1. n \in Nat
  BY FS_CardinalityType
<1>2. Ordered(DOMAIN table)
  BY FiniteOrdered
<1>3. keys \in [1 .. n -> DOMAIN table] /\ \A i, j \in DOMAIN keys : i < j => keys[i] < keys[j]
  BY <1>2 DEF Ordered, Increasing, Keys
<1>4. \A k \in DOMAIN table : \E i \in 1 .. n : keys[i] = k
  BY <1>3, IncreasingOnto DEF Increasing
<1>5. keys \in Seq(DOMAIN table) /\ Len(keys) = n /\ DOMAIN keys = 1 .. n
  BY <1>1, <1>3
<1> HIDE DEF keys
<1> QED BY <1>1, <1>3, <1>4, <1>5 DEF keys

-----------------------------------------------------------------------------
(* The dependants, as MultiBiMapProofs has them.                           *)

Map == INSTANCE MultiBiMapProofs WITH
  Left <- Alias, Right <- File, left_to_right <- by_alias, right_to_left <- by_file

Dependent(a) == Dependants!Bucket(by_alias, a)

LEMMA InsertDependants ==
  ASSUME Map!IInv, NEW a \in Alias, NEW f \in File, Dependants!Insert(a, f)
  PROVE  Map!IInv' /\ \A b : Dependent(b)' = Dependent(b) \cup (IF b = a THEN {f} ELSE {})
<1>1. Map!Insert(a, f)
  BY DEF Dependants!Insert, Map!Insert, Dependants!With, Map!With, Dependants!Bucket, Map!Bucket
<1>2. Map!Next
  BY <1>1 DEF Map!Next
<1>3. Map!IInv'
  BY <1>2, Map!NextIInv
<1>4. \A b : Map!Bucket(by_alias', b) =
               IF b = a THEN Map!Bucket(by_alias, a) \cup {f} ELSE Map!Bucket(by_alias, b)
  BY <1>1, Map!InsertBuckets
<1>5. \A b : Dependent(b) = Map!Bucket(by_alias, b) /\ Dependent(b)' = Map!Bucket(by_alias', b)
  BY DEF Dependent, Dependants!Bucket, Map!Bucket
<1> QED BY <1>3, <1>4, <1>5

LEMMA RemoveDependants ==
  ASSUME Map!IInv, NEW f \in File, Dependants!RemoveByRight(f)
  PROVE  Map!IInv' /\ \A b : Dependent(b) \ {f} \subseteq Dependent(b)'
<1>1. Map!RemoveByRight(f)
  <2>0. \A S : Dependants!Cardinality(S) = Map!Cardinality(S)
    BY Zenon DEF Dependants!Cardinality, Map!Cardinality
  <2>1. \A m, k : Dependants!Bucket(m, k) = Map!Bucket(m, k)
    BY DEF Dependants!Bucket, Map!Bucket
  <2>2. \A m, keys, x : Dependants!Pruned(m, keys, x) = Map!Pruned(m, keys, x)
    BY <2>0, Zenon DEF Dependants!Pruned, Map!Pruned
  <2>3. \A m, k : Dependants!Without(m, k) = Map!Without(m, k)
    BY DEF Dependants!Without, Map!Without
  <2> QED BY <2>1, <2>2, <2>3 DEF Dependants!RemoveByRight, Map!RemoveByRight
<1>2. Map!Next
  BY <1>1 DEF Map!Next
<1>3. Map!IInv'
  BY <1>2, Map!NextIInv
<1>4. \A b : Map!Bucket(by_alias', b) =
               IF b \in Map!Bucket(by_file, f)
               THEN Map!Bucket(by_alias, b) \ {f} ELSE Map!Bucket(by_alias, b)
  BY <1>1, Map!RemoveRightBuckets
<1>5. \A b : Dependent(b) = Map!Bucket(by_alias, b) /\ Dependent(b)' = Map!Bucket(by_alias', b)
  BY DEF Dependent, Dependants!Bucket, Map!Bucket
<1> QED BY <1>3, <1>4, <1>5

LEMMA SameDependants ==
  ASSUME Map!IInv, UNCHANGED <<by_alias, by_file>>
  PROVE  Map!IInv' /\ \A b : Dependent(b)' = Dependent(b)
<1>1. Map!IInv'
  BY Map!NextIInv DEF Map!vars
<1> QED BY <1>1 DEF Dependent, Dependants!Bucket

-----------------------------------------------------------------------------
(* The invariant.                                                          *)

TypeOK ==
  /\ source \in [File -> Seq(Items)]
  /\ located \in Disks
  /\ aliases \in Tables
  /\ result = [f \in File |-> result[f]]
  /\ stale \subseteq File
  /\ checking \in File \cup {None} /\ at \in Nat \ {0}
  /\ incoming \in Tables \cup {None}
  /\ self_at \in Nat \ {0} /\ other_at \in Nat \ {0} /\ changed \in Seq(Alias)
  /\ checking = None \/ incoming = None

(* The first n derives of f lead to targets: what a check has found then.  *)
Found(f, targets, found, wrong, n) ==
  /\ DOMAIN found = {targets[i] : i \in 1 .. n} \ {f, None}
  /\ \A g \in DOMAIN found :
       /\ found[g] \in 1 .. n /\ targets[found[g]] = g
       /\ \A j \in 1 .. n : targets[j] = g => j <= found[g]
  /\ {e[2] : e \in wrong} = {i \in 1 .. n : targets[i] \in {f, None}}

(* f is listed under the aliases of its first n derives.                   *)
Listed(f, n) ==
  \A i \in 1 .. n : source[f][i].kind = "alias" => f \in Dependent(source[f][i].alias)

(* A check going on has done with the derives before the one it is at.     *)
CheckSoFar ==
  IF checking = None
  THEN at = 1 /\ derives = Nothing /\ errors = {}
  ELSE /\ checking \in stale
       /\ at <= Len(source[checking]) + 1
       /\ Found(checking, Targets(checking), derives, errors, at - 1)
       /\ Listed(checking, at - 1)

(* diff has yielded the keys that differ of those it is past, and all of   *)
(* those come before the others.                                           *)
Past == {SelfKeys[i] : i \in 1 .. self_at - 1} \cup {OtherKeys[i] : i \in 1 .. other_at - 1}
Ahead == {SelfKeys[i] : i \in self_at .. Len(SelfKeys)}
           \cup {OtherKeys[i] : i \in other_at .. Len(OtherKeys)}

DiffSoFar ==
  IF incoming = None
  THEN self_at = 1 /\ other_at = 1 /\ changed = <<>>
  ELSE /\ self_at <= Len(SelfKeys) + 1 /\ other_at <= Len(OtherKeys) + 1
       /\ \A p \in Past, k \in Ahead : p < k
       /\ Range(changed) = Past \cap Differ(aliases, incoming)
       /\ Increasing(changed)

(* A file that is not to be checked has been, and a check would give the   *)
(* same again.                                                             *)
SettledAt(f) ==
  result[f] # None =>
    /\ Found(f, Targets(f), result[f].derives, result[f].errors, Len(source[f]))
    /\ Listed(f, Len(source[f]))
Settled == \A f \in File \ stale : SettledAt(f)

IInv == TypeOK /\ Map!IInv /\ CheckSoFar /\ DiffSoFar /\ Settled

-----------------------------------------------------------------------------
(* What the types give.                                                    *)

LEMMA SourceType ==
  ASSUME TypeOK, NEW f \in File
  PROVE  /\ Len(source[f]) \in Nat
         /\ DOMAIN source[f] = 1 .. Len(source[f])
         /\ \A i \in 1 .. Len(source[f]) : source[f][i] \in Items
  BY DEF TypeOK

LEMMA ItemsType ==
  ASSUME NEW item \in Items
  PROVE  /\ item.kind \in {"path", "alias", "invalid"}
         /\ item.kind = "alias" => item.alias \in Alias /\ item.place \in Place
         /\ item.kind = "path" => item.place \in Place
  BY DEF Items

LEMMA TableType ==
  ASSUME NEW table \in Tables
  PROVE  DOMAIN table \subseteq Nat /\ IsFiniteSet(DOMAIN table)
  BY DerivesAssumption

LEMMA NoneApart ==
  /\ \A f \in File : f # None
  /\ \A table \in Tables : table # None
  BY DerivesAssumption

-----------------------------------------------------------------------------
(* A file that a step leaves alone stays settled.                          *)

LEMMA SameTargets ==
  ASSUME NEW f, source'[f] = source[f], located' = located,
         \A i \in DOMAIN source[f] :
           source[f][i].kind = "alias" => source[f][i].alias \notin Differ(aliases, aliases')
  PROVE  Targets(f)' = Targets(f)
<1>1. ASSUME NEW i \in DOMAIN source[f] PROVE PlaceOf(source[f][i])' = PlaceOf(source[f][i])
  BY DEF PlaceOf, Differ
<1> QED BY <1>1 DEF Targets

LEMMA StaysSettled ==
  ASSUME TypeOK, NEW f \in File, SettledAt(f),
         source'[f] = source[f], result'[f] = result[f], located' = located,
         \A i \in DOMAIN source[f] :
           source[f][i].kind = "alias" => source[f][i].alias \notin Differ(aliases, aliases'),
         \A a : f \in Dependent(a) => f \in Dependent(a)'
  PROVE  SettledAt(f)'
<1>1. Targets(f)' = Targets(f)
  BY SameTargets
<1>2. Listed(f, Len(source[f])) => Listed(f, Len(source[f]))'
  BY DEF Listed
<1> QED BY <1>1, <1>2 DEF SettledAt

LEMMA SettledUnless ==
  ASSUME TypeOK, Settled, UNCHANGED <<located, aliases, by_alias, by_file>>,
         NEW f, f \in stale' \/ f \notin File \/ SettledAt(f)', stale \subseteq stale' \cup {f},
         \A g \in File \ {f} : source'[g] = source[g] /\ result'[g] = result[g]
  PROVE  Settled'
<1> SUFFICES ASSUME NEW g \in File \ stale', g # f PROVE SettledAt(g)'
  BY DEF Settled
<1>1. g \notin stale /\ SettledAt(g)
  BY DEF Settled
<1>2. Differ(aliases, aliases') = {}
  BY DEF Differ
<1>3. \A a : Dependent(a)' = Dependent(a)
  BY DEF Dependent, Dependants!Bucket
<1> QED BY <1>1, <1>2, <1>3, StaysSettled

-----------------------------------------------------------------------------
(* The steps of a check.                                                   *)

(* Reading derive n + 1, to a target that is derived or in error.          *)
LEMMA FoundNext ==
  ASSUME NEW f, NEW targets, NEW found, NEW wrong, NEW n \in Nat,
         Found(f, targets, found, wrong, n),
         NEW found2, NEW wrong2,
         \/ /\ targets[n + 1] \in {f, None} /\ found2 = found
            /\ \E kind : wrong2 = wrong \cup {<<kind, n + 1>>}
         \/ /\ targets[n + 1] \notin {f, None} /\ wrong2 = wrong
            /\ found2 = Dependants!With(found, targets[n + 1], n + 1)
  PROVE  Found(f, targets, found2, wrong2, n + 1)
<1> DEFINE t == targets[n + 1]
<1>1. 1 .. n + 1 = (1 .. n) \cup {n + 1} /\ n + 1 \notin 1 .. n
  OBVIOUS
<1>2. {targets[i] : i \in 1 .. n + 1} = {targets[i] : i \in 1 .. n} \cup {t}
  BY <1>1
<1>3. CASE t \in {f, None} /\ found2 = found /\ \E kind : wrong2 = wrong \cup {<<kind, n + 1>>}
  <2>1. DOMAIN found2 = {targets[i] : i \in 1 .. n + 1} \ {f, None}
    BY <1>2, <1>3 DEF Found
  <2>2. ASSUME NEW g \in DOMAIN found2
        PROVE  /\ found2[g] \in 1 .. n + 1 /\ targets[found2[g]] = g
               /\ \A j \in 1 .. n + 1 : targets[j] = g => j <= found2[g]
    <3>1. g # t
      BY <1>3, <2>1
    <3> QED BY <1>1, <1>3, <3>1 DEF Found
  <2>3. {e[2] : e \in wrong2} = {e[2] : e \in wrong} \cup {n + 1}
    <3>1. PICK kind : wrong2 = wrong \cup {<<kind, n + 1>>}
      BY <1>3
    <3> DEFINE last == <<kind, n + 1>>
    <3>2. last[2] = n + 1
      OBVIOUS
    <3> HIDE DEF last
    <3>3. {e[2] : e \in wrong \cup {last}} = {e[2] : e \in wrong} \cup {last[2]}
      BY Zenon
    <3> QED BY <3>1, <3>2, <3>3 DEF last
  <2>4. {e[2] : e \in wrong2} = {i \in 1 .. n + 1 : targets[i] \in {f, None}}
    BY <1>1, <1>3, <2>3 DEF Found
  <2> QED BY <2>1, <2>2, <2>4 DEF Found
<1>4. CASE t \notin {f, None} /\ wrong2 = wrong /\ found2 = Dependants!With(found, t, n + 1)
  <2>1. /\ DOMAIN found2 = DOMAIN found \cup {t}
        /\ found2[t] = n + 1
        /\ \A g \in DOMAIN found \ {t} : found2[g] = found[g]
    BY <1>4 DEF Dependants!With
  <2>2. DOMAIN found2 = {targets[i] : i \in 1 .. n + 1} \ {f, None}
    BY <1>2, <1>4, <2>1 DEF Found
  <2>3. ASSUME NEW g \in DOMAIN found2
        PROVE  /\ found2[g] \in 1 .. n + 1 /\ targets[found2[g]] = g
               /\ \A j \in 1 .. n + 1 : targets[j] = g => j <= found2[g]
    <3>1. CASE g = t
      BY <2>1, <3>1
    <3>2. CASE g # t
      BY <1>1, <2>1, <3>2 DEF Found
    <3> QED BY <3>1, <3>2
  <2>4. {e[2] : e \in wrong2} = {i \in 1 .. n + 1 : targets[i] \in {f, None}}
    BY <1>1, <1>4 DEF Found
  <2> QED BY <2>2, <2>3, <2>4 DEF Found
<1> QED BY <1>3, <1>4

(* The derive a check is at has been read.                                 *)
Reads ==
  LET target == Targets(checking)[at]
  IN  \/ /\ target \in {checking, None} /\ derives' = derives
         /\ \E kind : errors' = errors \cup {<<kind, at>>}
      \/ /\ target \notin {checking, None} /\ errors' = errors
         /\ derives' = Dependants!With(derives, target, at)

LEMMA ResolveReads ==
  ASSUME checking # None, at \in DOMAIN source[checking], Item.kind # "invalid", Resolve(Item)
  PROVE  Reads
<1>1. Targets(checking)[at] = located[PlaceOf(Item)]
  BY DEF Targets, Item
<1> HIDE DEF Item
<1>2. CASE located[PlaceOf(Item)] = None
  BY <1>1, <1>2 DEF Resolve, Reads
<1>3. CASE located[PlaceOf(Item)] = checking
  BY <1>1, <1>3 DEF Resolve, Reads
<1>4. CASE located[PlaceOf(Item)] \notin {checking, None}
  BY <1>1, <1>4 DEF Resolve, Reads
<1> QED BY <1>2, <1>3, <1>4

LEMMA CheckStep ==
  ASSUME IInv, NEW f \in File, f = checking, NEW n \in Nat, n = at - 1, at <= Len(source[f]),
         NEW item, item = Item,
         Map!IInv', \A b : Dependent(b) \subseteq Dependent(b)',
         item.kind = "alias" => f \in Dependent(item.alias)',
         Reads, at' = at + 1,
         UNCHANGED <<checking, source, located, aliases, result, stale, diff>>
  PROVE  IInv'
<1>1. /\ at \in Nat \ {0} /\ at = n + 1 /\ incoming = None /\ f # None
      /\ Len(source[f]) \in Nat /\ DOMAIN source[f] = 1 .. Len(source[f])
  BY SourceType, NoneApart DEF IInv, TypeOK
<1>2. TypeOK'
  BY <1>1 DEF IInv, TypeOK, diff
<1>3. f \in stale /\ Listed(f, n) /\ Found(f, Targets(f), derives, errors, n)
  BY <1>1 DEF IInv, CheckSoFar
<1>4. Differ(aliases, aliases') = {}
  BY DEF Differ
<1>5. Targets(f)' = Targets(f)
  BY <1>4, SameTargets
<1>6. Found(f, Targets(f), derives', errors', n + 1)
  BY <1>1, <1>3, FoundNext DEF Reads
<1>7. Listed(f, n + 1)'
  <2> SUFFICES ASSUME NEW i \in 1 .. n + 1, source[f][i].kind = "alias",
                      NEW a, a = source[f][i].alias
               PROVE  f \in Dependent(a)'
    BY DEF Listed
  <2>1. CASE i = n + 1
    BY <1>1, <2>1 DEF Item
  <2>2. CASE i # n + 1
    <3>1. i \in 1 .. n
      BY <2>2
    <3> QED BY <1>3, <3>1 DEF Listed
  <2> QED BY <2>1, <2>2
<1>8. CheckSoFar'
  <2>1. at' - 1 = n + 1 /\ at' <= Len(source[f]) + 1
    BY <1>1
  <2> QED BY <1>1, <1>3, <1>5, <1>6, <1>7, <2>1 DEF CheckSoFar
<1>9. DiffSoFar'
  BY <1>1 DEF IInv, DiffSoFar, diff
<1>10. Settled'
  <2> SUFFICES ASSUME NEW g \in File \ stale PROVE SettledAt(g)'
    BY DEF Settled
  <2> QED BY <1>4, StaysSettled DEF IInv, Settled
<1> QED BY <1>2, <1>8, <1>9, <1>10 DEF IInv

LEMMA CheckingFacts ==
  ASSUME IInv, NEW kind, Checking(kind)
  PROVE  /\ checking \in File /\ checking # None /\ at <= Len(source[checking])
         /\ at - 1 \in Nat /\ at \in DOMAIN source[checking]
         /\ Item \in Items /\ Item.kind = kind
  BY SourceType DEF IInv, TypeOK, Checking, Item

LEMMA CheckPathStep == IInv /\ CheckPath => IInv'
<1> SUFFICES ASSUME IInv, CheckPath PROVE IInv'
  OBVIOUS
<1>1. /\ checking \in File /\ checking # None /\ at <= Len(source[checking])
      /\ at - 1 \in Nat /\ at \in DOMAIN source[checking] /\ Item.kind = "path"
  BY CheckingFacts DEF CheckPath
<1>2. Reads
  BY <1>1, ResolveReads DEF CheckPath
<1>3. Map!IInv' /\ \A b : Dependent(b)' = Dependent(b)
  BY SameDependants DEF CheckPath, IInv
<1> QED BY <1>1, <1>2, <1>3, CheckStep DEF CheckPath

LEMMA CheckAliasStep == IInv /\ CheckAlias => IInv'
<1> SUFFICES ASSUME IInv, CheckAlias PROVE IInv'
  OBVIOUS
<1>1. /\ checking \in File /\ checking # None /\ at <= Len(source[checking])
      /\ at - 1 \in Nat /\ at \in DOMAIN source[checking] /\ Item \in Items /\ Item.kind = "alias"
  BY CheckingFacts DEF CheckAlias
<1>2. Item.alias \in Alias
  BY <1>1, ItemsType
<1>3. Reads
  BY <1>1, ResolveReads DEF CheckAlias
<1>4. PICK item, f : item = Item /\ f = checking
  OBVIOUS
<1>5. Map!IInv' /\ \A b : Dependent(b)' = Dependent(b) \cup (IF b = item.alias THEN {f} ELSE {})
  BY <1>1, <1>2, <1>4, InsertDependants DEF CheckAlias, IInv
<1>6. f \in Dependent(item.alias)' /\ \A b : Dependent(b) \subseteq Dependent(b)'
  BY <1>5
<1> QED BY <1>1, <1>3, <1>4, <1>5, <1>6, CheckStep DEF CheckAlias

LEMMA CheckInvalidStep == IInv /\ CheckInvalid => IInv'
<1> SUFFICES ASSUME IInv, CheckInvalid PROVE IInv'
  OBVIOUS
<1>1. /\ checking \in File /\ checking # None /\ at <= Len(source[checking])
      /\ at - 1 \in Nat /\ at \in DOMAIN source[checking] /\ Item.kind = "invalid"
  BY CheckingFacts DEF CheckInvalid
<1>2. Targets(checking)[at] = None
  BY <1>1 DEF Targets, Item
<1>3. Reads
  BY <1>2 DEF CheckInvalid, Reads
<1>4. Map!IInv' /\ \A b : Dependent(b)' = Dependent(b)
  BY SameDependants DEF CheckInvalid, IInv
<1> QED BY <1>1, <1>3, <1>4, CheckStep DEF CheckInvalid

(* The check is over: what it found becomes the result.                    *)
LEMMA EndCheckStep == IInv /\ EndCheck => IInv'
<1> SUFFICES ASSUME IInv, EndCheck PROVE IInv'
  OBVIOUS
<1>1. PICK f \in File : f = checking /\ f # None
  BY NoneApart DEF IInv, TypeOK, EndCheck
<1>2. /\ incoming = None /\ at \in Nat \ {0} /\ Len(source[f]) \in Nat
      /\ at <= Len(source[f]) + 1 /\ at > Len(source[f])
  BY <1>1, SourceType DEF IInv, TypeOK, CheckSoFar, EndCheck
<1>3. at - 1 = Len(source[f])
  BY <1>2
<1>4. Found(f, Targets(f), derives, errors, Len(source[f])) /\ Listed(f, Len(source[f]))
  BY <1>1, <1>3 DEF IInv, CheckSoFar
<1>5. result'[f] = [derives |-> derives, errors |-> errors]
      /\ result' = [g \in File |-> result'[g]]
      /\ \A g \in File \ {f} : result'[g] = result[g]
  BY <1>1 DEF IInv, TypeOK, EndCheck
<1>6. TypeOK'
  BY <1>2, <1>5 DEF IInv, TypeOK, EndCheck, diff
<1>7. Map!IInv' /\ \A b : Dependent(b)' = Dependent(b)
  BY SameDependants DEF IInv, EndCheck
<1>8. CheckSoFar' /\ DiffSoFar'
  BY <1>2 DEF IInv, EndCheck, CheckSoFar, DiffSoFar, diff
<1>9. SettledAt(f)'
  <2>1. Differ(aliases, aliases') = {}
    BY DEF Differ, EndCheck
  <2>2. Targets(f)' = Targets(f)
    BY <2>1, SameTargets DEF EndCheck
  <2>3. Listed(f, Len(source[f]))'
    BY <1>4, <1>7 DEF Listed, EndCheck
  <2> QED BY <1>4, <1>5, <2>2, <2>3 DEF SettledAt, EndCheck
<1>10. Settled'
  BY <1>1, <1>5, <1>9, SettledUnless DEF IInv, EndCheck
<1> QED BY <1>6, <1>7, <1>8, <1>10 DEF IInv

LEMMA BeginCheckStep == IInv /\ (\E f \in File : BeginCheck(f)) => IInv'
<1> SUFFICES ASSUME IInv, NEW f \in File, BeginCheck(f) PROVE IInv'
  OBVIOUS
<1>1. checking = None /\ incoming = None /\ f # None /\ f \in stale
  BY NoneApart DEF BeginCheck, Idle
<1>2. at = 1 /\ derives = Nothing /\ errors = {}
  BY <1>1 DEF IInv, CheckSoFar
<1>3. TypeOK'
  BY <1>1 DEF IInv, TypeOK, BeginCheck, diff
<1>4. Map!IInv'
  BY SameDependants DEF IInv, BeginCheck
<1>5. \A targets : Found(f, targets, Nothing, {}, 0)
  BY DEF Found, Nothing
<1>6. CheckSoFar'
  <2>1. Listed(f, 0)'
    BY DEF Listed
  <2>2. Len(source[f]) \in Nat
    BY SourceType DEF IInv
  <2> QED BY <1>1, <1>2, <1>5, <2>1, <2>2 DEF CheckSoFar, BeginCheck
<1>7. DiffSoFar'
  BY <1>1 DEF IInv, DiffSoFar, BeginCheck, diff
<1>8. Settled'
  BY <1>1, SettledUnless DEF IInv, BeginCheck
<1> QED BY <1>3, <1>4, <1>6, <1>7, <1>8 DEF IInv

-----------------------------------------------------------------------------
(* A file is edited or closed.                                             *)

LEMMA EditStep == IInv /\ (\E f \in File : Edit(f)) => IInv'
<1> SUFFICES ASSUME IInv, NEW f \in File, Edit(f) PROVE IInv'
  OBVIOUS
<1>1. checking = None /\ incoming = None
  BY DEF Edit, Idle
<1>2. PICK s \in Seq(Items) : source' = [source EXCEPT ![f] = s]
  BY DerivesAssumption DEF Edit
<1>3. TypeOK'
  BY <1>2 DEF IInv, TypeOK, Edit, check, diff
<1>4. Map!IInv'
  BY SameDependants DEF IInv, Edit
<1>5. CheckSoFar' /\ DiffSoFar'
  BY <1>1 DEF IInv, CheckSoFar, DiffSoFar, Edit, check, diff
<1>6. \A g \in File \ {f} : source'[g] = source[g]
  BY <1>2 DEF IInv, TypeOK
<1>7. Settled'
  BY <1>6, SettledUnless DEF IInv, Edit
<1> QED BY <1>3, <1>4, <1>5, <1>7 DEF IInv

(* Closing a file takes it, and no other, out of the dependants.           *)
LEMMA CloseStep == IInv /\ (\E f \in File : Close(f)) => IInv'
<1> SUFFICES ASSUME IInv, NEW f \in File, Close(f) PROVE IInv'
  OBVIOUS
<1>1. checking = None /\ incoming = None
  BY DEF Close, Idle
<1>2. TypeOK'
  <2>1. <<>> \in Seq(Items)
    OBVIOUS
  <2>2. source' \in [File -> Seq(Items)]
    BY <2>1 DEF IInv, TypeOK, Close
  <2>3. result' = [g \in File |-> result'[g]]
    BY DEF IInv, TypeOK, Close
  <2> QED BY <2>2, <2>3 DEF IInv, TypeOK, Close, check, diff
<1>3. Map!IInv' /\ \A b : Dependent(b) \ {f} \subseteq Dependent(b)'
  BY RemoveDependants DEF IInv, Close
<1>4. CheckSoFar' /\ DiffSoFar'
  BY <1>1 DEF IInv, CheckSoFar, DiffSoFar, Close, check, diff
<1>5. SettledAt(f)'
  BY DEF SettledAt, IInv, TypeOK, Close
<1>6. ASSUME NEW g \in File \ stale', g # f PROVE SettledAt(g)'
  <2>1. g \notin stale /\ SettledAt(g) /\ source'[g] = source[g] /\ result'[g] = result[g]
    BY <1>6 DEF IInv, TypeOK, Settled, Close
  <2>2. Differ(aliases, aliases') = {} /\ located' = located
    BY DEF Differ, Close
  <2>3. \A a : g \in Dependent(a) => g \in Dependent(a)'
    BY <1>3, <1>6
  <2> QED BY <2>1, <2>2, <2>3, StaysSettled DEF IInv
<1>7. Settled'
  BY <1>5, <1>6 DEF Settled
<1> QED BY <1>2, <1>3, <1>4, <1>7 DEF IInv

(* Files come and go on the disk: a file that derives none of those that   *)
(* did and has no errors has the targets it had.                           *)
LEMMA MoveFilesStep == IInv /\ MoveFiles => IInv'
<1> SUFFICES ASSUME IInv, MoveFiles PROVE IInv'
  OBVIOUS
<1> DEFINE moved == {located[p] : p \in {q \in Place : located'[q] # located[q]}}
           Concerned(f) == DOMAIN result[f].derives \cap moved # {} \/ result[f].errors # {}
<1>1. checking = None /\ incoming = None
  BY DEF MoveFiles, Idle
<1>2. /\ UNCHANGED <<source, aliases, by_alias, by_file, check, result, diff>>
      /\ located' \in Disks
      /\ stale' = stale \cup {f \in File : result[f] # None /\ Concerned(f)}
  BY DEF MoveFiles
<1>3. TypeOK'
  BY <1>2 DEF IInv, TypeOK, check, diff
<1>4. Map!IInv' /\ \A b : Dependent(b)' = Dependent(b)
  BY <1>2, SameDependants DEF IInv
<1>5. CheckSoFar' /\ DiffSoFar'
  BY <1>1, <1>2 DEF IInv, CheckSoFar, DiffSoFar, check, diff
<1>6. ASSUME NEW f \in File \ stale', result[f] # None
      PROVE  Targets(f)' = Targets(f)
  <2>1. /\ ~Concerned(f) /\ f \notin stale
        /\ Found(f, Targets(f), result[f].derives, result[f].errors, Len(source[f]))
    BY <1>2, <1>6 DEF IInv, Settled, SettledAt
  <2>2. ASSUME NEW i \in DOMAIN source[f], source[f][i].kind # "invalid"
        PROVE  located'[PlaceOf(source[f][i])] = located[PlaceOf(source[f][i])]
    <3>1. i \in 1 .. Len(source[f]) /\ source[f][i] \in Items
      BY SourceType DEF IInv
    <3>2. PICK p : p = PlaceOf(source[f][i])
      OBVIOUS
    <3>3. p \in Place
      <4>1. aliases \in Tables
        BY DEF IInv, TypeOK
      <4>2. aliases \in [DOMAIN aliases -> Place]
        BY <4>1, DerivesAssumption
      <4> QED BY <2>2, <3>1, <3>2, <4>2, ItemsType DEF PlaceOf
    <3>4. Targets(f)[i] = located[p]
      BY <2>2, <3>2 DEF Targets
    <3>5. located[p] \notin {f, None}
      <4>1. {e[2] : e \in result[f].errors} = {}
        BY <2>1
      <4> QED BY <2>1, <3>1, <3>4, <4>1 DEF Found
    <3>6. located[p] \in DOMAIN result[f].derives
      BY <2>1, <3>1, <3>4, <3>5 DEF Found
    <3>7. located'[p] = located[p]
      BY <2>1, <3>3, <3>6
    <3> QED BY <3>2, <3>7
  <2>3. \A i \in DOMAIN source[f] : PlaceOf(source[f][i])' = PlaceOf(source[f][i])
    BY <1>2 DEF PlaceOf
  <2> QED BY <1>2, <2>2, <2>3 DEF Targets
<1>7. Settled'
  <2> SUFFICES ASSUME NEW f \in File \ stale' PROVE SettledAt(f)'
    BY DEF Settled
  <2>1. CASE result[f] # None
    <3>1. SettledAt(f)
      BY <1>2 DEF IInv, Settled
    <3>2. Listed(f, Len(source[f])) => Listed(f, Len(source[f]))'
      BY <1>2, <1>4 DEF Listed
    <3> QED BY <1>2, <1>6, <2>1, <3>1, <3>2 DEF SettledAt
  <2>2. CASE result[f] = None
    BY <1>2, <2>2 DEF SettledAt
  <2> QED BY <2>1, <2>2
<1> QED BY <1>3, <1>4, <1>5, <1>7 DEF IInv

-----------------------------------------------------------------------------
(* The steps of diff.                                                      *)

LEMMA BeginReloadStep == IInv /\ BeginReload => IInv'
<1> SUFFICES ASSUME IInv, BeginReload PROVE IInv'
  OBVIOUS
<1>1. checking = None /\ incoming = None /\ incoming' # None
  BY NoneApart DEF BeginReload, Idle
<1>2. self_at = 1 /\ other_at = 1 /\ changed = <<>>
  BY <1>1 DEF IInv, DiffSoFar
<1>3. TypeOK'
  BY <1>1 DEF IInv, TypeOK, BeginReload, check
<1>4. Map!IInv'
  BY SameDependants DEF IInv, BeginReload
<1>5. CheckSoFar'
  BY <1>1 DEF IInv, CheckSoFar, BeginReload, check
<1>6. DiffSoFar'
  <2>1. Len(SelfKeys') \in Nat /\ Len(OtherKeys') \in Nat
    BY TableType, KeysOrdered DEF IInv, TypeOK, BeginReload, SelfKeys, OtherKeys
  <2>2. Past' = {}
    BY <1>2 DEF Past, BeginReload
  <2>3. Range(changed') = {} /\ Increasing(changed')
    BY <1>2 DEF Range, Increasing, BeginReload
  <2> QED BY <1>1, <1>2, <2>1, <2>2, <2>3 DEF DiffSoFar, BeginReload
<1>7. Settled'
  BY SettledUnless, NoneApart DEF IInv, BeginReload, check
<1> QED BY <1>3, <1>4, <1>5, <1>6, <1>7 DEF IInv

(* The keys of both tables while diff goes on.                             *)
LEMMA DiffKeys ==
  ASSUME IInv, incoming # None
  PROVE  /\ aliases \in Tables /\ incoming \in Tables /\ checking = None
         /\ self_at \in Nat \ {0} /\ other_at \in Nat \ {0} /\ changed \in Seq(Alias)
         /\ Len(SelfKeys) \in Nat /\ Len(OtherKeys) \in Nat
         /\ \A i \in 1 .. Len(SelfKeys) : SelfKeys[i] \in DOMAIN aliases /\ SelfKeys[i] \in Nat
         /\ \A i \in 1 .. Len(OtherKeys) : OtherKeys[i] \in DOMAIN incoming /\ OtherKeys[i] \in Nat
         /\ \A i, j \in 1 .. Len(SelfKeys) : i < j => SelfKeys[i] < SelfKeys[j]
         /\ \A i, j \in 1 .. Len(OtherKeys) : i < j => OtherKeys[i] < OtherKeys[j]
         /\ \A k \in DOMAIN aliases : \E i \in 1 .. Len(SelfKeys) : SelfKeys[i] = k
         /\ \A k \in DOMAIN incoming : \E i \in 1 .. Len(OtherKeys) : OtherKeys[i] = k
<1>1. aliases \in Tables /\ incoming \in Tables /\ checking = None
      /\ self_at \in Nat \ {0} /\ other_at \in Nat \ {0} /\ changed \in Seq(Alias)
  BY DEF IInv, TypeOK
<1>2. DOMAIN aliases \subseteq Nat /\ DOMAIN incoming \subseteq Nat
      /\ IsFiniteSet(DOMAIN aliases) /\ IsFiniteSet(DOMAIN incoming)
  BY <1>1, TableType
<1> QED BY <1>1, <1>2, KeysOrdered DEF SelfKeys, OtherKeys

(* What is past is before what is ahead, and together they are all keys.   *)
LEMMA PastAhead ==
  ASSUME IInv, incoming # None
  PROVE  /\ Past \subseteq Nat /\ Ahead \subseteq Nat
         /\ Past \cup Ahead = DOMAIN aliases \cup DOMAIN incoming
         /\ \A p \in Past, k \in Ahead : p < k
<1>1. self_at <= Len(SelfKeys) + 1 /\ other_at <= Len(OtherKeys) + 1 /\ \A p \in Past, k \in Ahead : p < k
  BY DEF IInv, DiffSoFar
<1>2. /\ 1 .. Len(SelfKeys) = (1 .. self_at - 1) \cup (self_at .. Len(SelfKeys))
      /\ 1 .. Len(OtherKeys) = (1 .. other_at - 1) \cup (other_at .. Len(OtherKeys))
  BY <1>1, DiffKeys
<1>3. ASSUME NEW k \in Past \cup Ahead
      PROVE  k \in Nat /\ k \in DOMAIN aliases \cup DOMAIN incoming
  <2>1. (\E i \in 1 .. Len(SelfKeys) : k = SelfKeys[i]) \/ (\E i \in 1 .. Len(OtherKeys) : k = OtherKeys[i])
    BY <1>2 DEF Past, Ahead
  <2> QED BY <2>1, DiffKeys
<1>4. /\ Past \subseteq Nat /\ Ahead \subseteq Nat
      /\ Past \cup Ahead \subseteq DOMAIN aliases \cup DOMAIN incoming
  BY <1>3
<1>5. DOMAIN aliases \subseteq Past \cup Ahead /\ DOMAIN incoming \subseteq Past \cup Ahead
  BY <1>2, DiffKeys DEF Past, Ahead
<1> QED BY <1>1, <1>4, <1>5

LEMMA AppendRange ==
  ASSUME NEW S, NEW q \in Seq(S), NEW x \in S
  PROVE  Range(Append(q, x)) = Range(q) \cup {x}
<1> DEFINE r == Append(q, x)
<1>1. /\ Len(q) \in Nat /\ DOMAIN q = 1 .. Len(q) /\ DOMAIN r = (1 .. Len(q)) \cup {Len(q) + 1}
      /\ r[Len(q) + 1] = x /\ \A i \in 1 .. Len(q) : r[i] = q[i]
  OBVIOUS
<1> HIDE DEF r
<1>2. Range(r) = Range(q) \cup {x}
  BY <1>1 DEF Range
<1> QED BY <1>2 DEF r

(* diff goes past the least key that is ahead, and yields it if it differs. *)
LEMMA DiffStep ==
  ASSUME IInv, Differing, NEW k \in Ahead,
         self_at' \in Nat \ {0} /\ self_at' <= Len(SelfKeys) + 1,
         other_at' \in Nat \ {0} /\ other_at' <= Len(OtherKeys) + 1,
         Past' = Past \cup {k}, Ahead' \subseteq Ahead, \A j \in Ahead' : k < j,
         changed' = IF k \in Differ(aliases, incoming) THEN Append(changed, k) ELSE changed
  PROVE  IInv'
<1>1. incoming # None /\ UNCHANGED <<source, located, aliases, by_alias, by_file, check, result, stale, incoming>>
  BY DEF Differing
<1>2. k \in Nat /\ k \in Alias
  BY <1>1, DiffKeys, PastAhead, DerivesAssumption
<1>3. changed \in Seq(Alias) /\ checking = None
  BY <1>1, DiffKeys
<1>4. changed' \in Seq(Alias)
  BY <1>2, <1>3
<1>5. TypeOK'
  BY <1>1, <1>3, <1>4 DEF IInv, TypeOK, check
<1>6. Map!IInv'
  BY <1>1, SameDependants DEF IInv
<1>7. CheckSoFar'
  BY <1>1, <1>3 DEF IInv, CheckSoFar, check
<1>8. Settled'
  BY <1>1, SettledUnless, NoneApart DEF IInv, check
<1>9. Range(changed) = Past \cap Differ(aliases, incoming) /\ Increasing(changed)
  BY <1>1 DEF IInv, DiffSoFar
<1>10. Range(changed') = Past' \cap Differ(aliases, incoming)
  <2>1. Range(Append(changed, k)) = Range(changed) \cup {k}
    BY <1>2, <1>3, AppendRange
  <2> QED BY <1>9, <2>1
<1>11. Increasing(changed')
  <2>1. \A i \in DOMAIN changed : changed[i] < k
    BY <1>1, <1>9, PastAhead DEF Range
  <2>2. Increasing(Append(changed, k))
    BY <1>2, <1>3, <1>9, <2>1 DEF Increasing
  <2> QED BY <1>9, <2>2
<1>12. \A p \in Past', j \in Ahead' : p < j
  BY <1>1, PastAhead
<1>13. DiffSoFar'
  BY <1>1, <1>10, <1>11, <1>12 DEF DiffSoFar, SelfKeys, OtherKeys
<1> QED BY <1>5, <1>6, <1>7, <1>8, <1>13 DEF IInv

LEMMA UpTo ==
  ASSUME NEW q, NEW n \in Nat \ {0}
  PROVE  {q[i] : i \in 1 .. (n + 1) - 1} = {q[i] : i \in 1 .. n - 1} \cup {q[n]}
<1>1. 1 .. (n + 1) - 1 = (1 .. n - 1) \cup {n}
  OBVIOUS
<1> QED BY <1>1

LEMMA DiffSelfStep == IInv /\ DiffSelf => IInv'
<1> SUFFICES ASSUME IInv, DiffSelf PROVE IInv'
  OBVIOUS
<1>1. PICK k : k = SelfKeys[self_at]
  OBVIOUS
<1>2. /\ incoming # None /\ self_at <= Len(SelfKeys) /\ self_at \in 1 .. Len(SelfKeys)
      /\ SelfKeys' = SelfKeys /\ OtherKeys' = OtherKeys
      /\ self_at' = self_at + 1 /\ other_at' = other_at /\ changed' = Append(changed, k)
      /\ other_at \in Nat \ {0} /\ self_at \in Nat \ {0} /\ Len(SelfKeys) \in Nat /\ Len(OtherKeys) \in Nat
  BY <1>1, DiffKeys DEF DiffSelf, Differing, SelfDone, SelfKeys, OtherKeys
<1>3. k \in Ahead /\ k \in DOMAIN aliases /\ k \in Nat
  BY <1>1, <1>2, DiffKeys DEF Ahead
<1>4. Past' = Past \cup {k}
  <2>1. {SelfKeys[i] : i \in 1 .. (self_at + 1) - 1} = {SelfKeys[i] : i \in 1 .. self_at - 1} \cup {k}
    BY <1>1, <1>2, UpTo
  <2> QED BY <1>2, <2>1 DEF Past
<1>5. \A i \in other_at .. Len(OtherKeys) : k < OtherKeys[i]
  <2> TAKE i \in other_at .. Len(OtherKeys)
  <2>1. /\ i \in 1 .. Len(OtherKeys) /\ other_at \in 1 .. Len(OtherKeys)
        /\ OtherKeys[i] \in Nat /\ OtherKeys[other_at] \in Nat
    BY <1>2, DiffKeys
  <2>2. k < OtherKeys[other_at]
    BY <1>1, <1>2, <2>1 DEF DiffSelf, OtherDone
  <2>3. i = other_at \/ OtherKeys[other_at] < OtherKeys[i]
    BY <1>2, <2>1, DiffKeys
  <2> QED BY <1>3, <2>1, <2>2, <2>3
<1>6. \A i \in self_at + 1 .. Len(SelfKeys) : k < SelfKeys[i]
  BY <1>1, <1>2, DiffKeys
<1>7. Ahead' \subseteq Ahead /\ \A j \in Ahead' : k < j
  <2>1. self_at + 1 .. Len(SelfKeys) \subseteq self_at .. Len(SelfKeys)
    BY <1>2
  <2> QED BY <1>2, <1>5, <1>6, <2>1 DEF Ahead
<1>8. k \notin DOMAIN incoming
  <2> SUFFICES ASSUME k \in DOMAIN incoming PROVE FALSE
    OBVIOUS
  <2>1. PICK i \in 1 .. Len(OtherKeys) : OtherKeys[i] = k
    BY <1>2, DiffKeys
  <2>2. CASE i < other_at
    <3>1. k \in Past
      BY <1>2, <2>1, <2>2 DEF Past
    <3> QED BY <1>2, <1>3, <3>1, PastAhead
  <2>3. CASE i >= other_at
    <3>1. k < k
      BY <1>2, <1>5, <2>1, <2>3
    <3> QED BY <1>3, <3>1
  <2> QED BY <1>2, <2>2, <2>3
<1>9. k \in Differ(aliases, incoming)
  BY <1>3, <1>8 DEF Differ
<1>10. self_at' <= Len(SelfKeys) + 1 /\ other_at' <= Len(OtherKeys) + 1 /\ self_at' \in Nat \ {0}
  BY <1>2 DEF IInv, DiffSoFar
<1> QED BY <1>2, <1>3, <1>4, <1>7, <1>9, <1>10, DiffStep DEF DiffSelf

LEMMA DiffOtherStep == IInv /\ DiffOther => IInv'
<1> SUFFICES ASSUME IInv, DiffOther PROVE IInv'
  OBVIOUS
<1>1. PICK k : k = OtherKeys[other_at]
  OBVIOUS
<1>2. /\ incoming # None /\ other_at <= Len(OtherKeys) /\ other_at \in 1 .. Len(OtherKeys)
      /\ SelfKeys' = SelfKeys /\ OtherKeys' = OtherKeys
      /\ other_at' = other_at + 1 /\ self_at' = self_at /\ changed' = Append(changed, k)
      /\ other_at \in Nat \ {0} /\ self_at \in Nat \ {0} /\ Len(SelfKeys) \in Nat /\ Len(OtherKeys) \in Nat
  BY <1>1, DiffKeys DEF DiffOther, Differing, OtherDone, SelfKeys, OtherKeys
<1>3. k \in Ahead /\ k \in DOMAIN incoming /\ k \in Nat
  <2>1. k \in DOMAIN incoming /\ k \in Nat
    BY <1>1, <1>2, DiffKeys
  <2>2. other_at \in other_at .. Len(OtherKeys)
    BY <1>2
  <2> QED BY <1>1, <2>1, <2>2 DEF Ahead
<1>4. Past' = Past \cup {k}
  <2>1. {OtherKeys[i] : i \in 1 .. (other_at + 1) - 1} = {OtherKeys[i] : i \in 1 .. other_at - 1} \cup {k}
    BY <1>1, <1>2, UpTo
  <2> QED BY <1>2, <2>1 DEF Past
<1>5. \A i \in self_at .. Len(SelfKeys) : k < SelfKeys[i]
  <2> TAKE i \in self_at .. Len(SelfKeys)
  <2>1. /\ i \in 1 .. Len(SelfKeys) /\ self_at \in 1 .. Len(SelfKeys)
        /\ SelfKeys[i] \in Nat /\ SelfKeys[self_at] \in Nat
    BY <1>2, DiffKeys
  <2>2. k < SelfKeys[self_at]
    BY <1>1, <1>2, <2>1 DEF DiffOther, SelfDone
  <2>3. i = self_at \/ SelfKeys[self_at] < SelfKeys[i]
    BY <1>2, <2>1, DiffKeys
  <2> QED BY <1>3, <2>1, <2>2, <2>3
<1>6. \A i \in other_at + 1 .. Len(OtherKeys) : k < OtherKeys[i]
  BY <1>1, <1>2, DiffKeys
<1>7. Ahead' \subseteq Ahead /\ \A j \in Ahead' : k < j
  <2>1. other_at + 1 .. Len(OtherKeys) \subseteq other_at .. Len(OtherKeys)
    BY <1>2
  <2> QED BY <1>2, <1>5, <1>6, <2>1 DEF Ahead
<1>8. k \notin DOMAIN aliases
  <2> SUFFICES ASSUME k \in DOMAIN aliases PROVE FALSE
    OBVIOUS
  <2>1. PICK i \in 1 .. Len(SelfKeys) : SelfKeys[i] = k
    BY <1>2, DiffKeys
  <2>2. CASE i < self_at
    <3>1. k \in Past
      BY <1>2, <2>1, <2>2 DEF Past
    <3> QED BY <1>2, <1>3, <3>1, PastAhead
  <2>3. CASE i >= self_at
    <3>1. k < k
      BY <1>2, <1>5, <2>1, <2>3
    <3> QED BY <1>3, <3>1
  <2> QED BY <1>2, <2>2, <2>3
<1>9. k \in Differ(aliases, incoming)
  BY <1>3, <1>8 DEF Differ
<1>10. self_at' <= Len(SelfKeys) + 1 /\ other_at' <= Len(OtherKeys) + 1 /\ other_at' \in Nat \ {0}
  BY <1>2 DEF IInv, DiffSoFar
<1> QED BY <1>2, <1>3, <1>4, <1>7, <1>9, <1>10, DiffStep DEF DiffOther

LEMMA DiffBothStep == IInv /\ DiffBoth => IInv'
<1> SUFFICES ASSUME IInv, DiffBoth PROVE IInv'
  OBVIOUS
<1>1. PICK k : k = SelfKeys[self_at] /\ k = OtherKeys[other_at]
  BY DEF DiffBoth
<1>2. /\ incoming # None
      /\ self_at <= Len(SelfKeys) /\ self_at \in 1 .. Len(SelfKeys)
      /\ other_at <= Len(OtherKeys) /\ other_at \in 1 .. Len(OtherKeys)
      /\ SelfKeys' = SelfKeys /\ OtherKeys' = OtherKeys
      /\ other_at' = other_at + 1 /\ self_at' = self_at + 1
      /\ changed' = IF aliases[k] = incoming[k] THEN changed ELSE Append(changed, k)
      /\ other_at \in Nat \ {0} /\ self_at \in Nat \ {0} /\ Len(SelfKeys) \in Nat /\ Len(OtherKeys) \in Nat
  BY <1>1, DiffKeys DEF DiffBoth, Differing, SelfDone, OtherDone, SelfKeys, OtherKeys
<1>3. k \in Ahead /\ k \in DOMAIN incoming /\ k \in DOMAIN aliases
  <2>1. k \in DOMAIN incoming /\ k \in DOMAIN aliases
    BY <1>1, <1>2, DiffKeys
  <2>2. other_at \in other_at .. Len(OtherKeys)
    BY <1>2
  <2> QED BY <1>1, <2>1, <2>2 DEF Ahead
<1>4. Past' = Past \cup {k}
  <2>1. {SelfKeys[i] : i \in 1 .. (self_at + 1) - 1} = {SelfKeys[i] : i \in 1 .. self_at - 1} \cup {k}
    BY <1>1, <1>2, UpTo
  <2>2. {OtherKeys[i] : i \in 1 .. (other_at + 1) - 1} = {OtherKeys[i] : i \in 1 .. other_at - 1} \cup {k}
    BY <1>1, <1>2, UpTo
  <2>3. Past' = {SelfKeys[i] : i \in 1 .. (self_at + 1) - 1} \cup {OtherKeys[i] : i \in 1 .. (other_at + 1) - 1}
    BY <1>2 DEF Past
  <2> QED BY <2>1, <2>2, <2>3, Zenon DEF Past
<1>5. \A i \in self_at + 1 .. Len(SelfKeys) : k < SelfKeys[i]
  <2> TAKE i \in self_at + 1 .. Len(SelfKeys)
  <2>1. i \in 1 .. Len(SelfKeys) /\ self_at < i
    BY <1>2
  <2> QED BY <1>1, <1>2, <2>1, DiffKeys
<1>6. \A i \in other_at + 1 .. Len(OtherKeys) : k < OtherKeys[i]
  <2> TAKE i \in other_at + 1 .. Len(OtherKeys)
  <2>1. i \in 1 .. Len(OtherKeys) /\ other_at < i
    BY <1>2
  <2> QED BY <1>1, <1>2, <2>1, DiffKeys
<1>7. Ahead' \subseteq Ahead /\ \A j \in Ahead' : k < j
  <2>1. /\ self_at + 1 .. Len(SelfKeys) \subseteq self_at .. Len(SelfKeys)
        /\ other_at + 1 .. Len(OtherKeys) \subseteq other_at .. Len(OtherKeys)
    BY <1>2
  <2> QED BY <1>2, <1>5, <1>6, <2>1 DEF Ahead
<1>8. k \in Differ(aliases, incoming) <=> aliases[k] # incoming[k]
  BY <1>3 DEF Differ
<1>9. /\ self_at' <= Len(SelfKeys) + 1 /\ other_at' <= Len(OtherKeys) + 1
      /\ self_at' \in Nat \ {0} /\ other_at' \in Nat \ {0}
  BY <1>2
<1> QED BY <1>2, <1>3, <1>4, <1>7, <1>8, <1>9, DiffStep DEF DiffBoth

(* The files that met an alias that differs are to be checked; to the      *)
(* others the new table says what the old one did.                         *)
LEMMA EndReloadStep == IInv /\ EndReload => IInv'
<1> SUFFICES ASSUME IInv, EndReload PROVE IInv'
  OBVIOUS
<1>1. incoming # None /\ checking = None /\ incoming \in Tables
  BY DiffKeys DEF EndReload
<1>2. Range(changed) = Differ(aliases, incoming)
  <2>1. Ahead = {}
    BY <1>1, DiffKeys DEF EndReload, SelfDone, OtherDone, Ahead
  <2>2. Past = DOMAIN aliases \cup DOMAIN incoming
    BY <1>1, <2>1, PastAhead
  <2>3. Range(changed) = Past \cap Differ(aliases, incoming)
    BY <1>1 DEF IInv, DiffSoFar
  <2> QED BY <2>2, <2>3 DEF Differ
<1>3. stale' = stale \cup UNION {Dependent(a) : a \in Differ(aliases, incoming)}
  BY <1>2 DEF EndReload, Dependent
<1>4. Map!IInv' /\ \A b : Dependent(b)' = Dependent(b)
  BY SameDependants DEF IInv, EndReload
<1>5. TypeOK'
  <2>1. \A b : Dependent(b) \subseteq File
    <3> TAKE b
    <3>1. Map!TypeOK
      BY DEF IInv, Map!IInv
    <3> QED BY <3>1 DEF Map!TypeOK, Map!Buckets, Dependent, Dependants!Bucket
  <2>2. stale' \subseteq File
    BY <1>3, <2>1 DEF IInv, TypeOK
  <2>3. <<>> \in Seq(Alias)
    OBVIOUS
  <2> QED BY <1>1, <2>2, <2>3 DEF IInv, TypeOK, EndReload, check
<1>6. CheckSoFar' /\ DiffSoFar'
  BY <1>1 DEF IInv, CheckSoFar, DiffSoFar, EndReload, check
<1>7. Settled'
  <2> SUFFICES ASSUME NEW f \in File \ stale' PROVE SettledAt(f)'
    BY DEF Settled
  <2>1. f \notin stale /\ SettledAt(f) /\ \A a \in Differ(aliases, incoming) : f \notin Dependent(a)
    BY <1>3 DEF IInv, Settled
  <2>2. source' = source /\ result' = result /\ located' = located /\ aliases' = incoming
    BY DEF EndReload, check
  <2>3. CASE result[f] # None
    <3>1. Listed(f, Len(source[f])) /\ DOMAIN source[f] = 1 .. Len(source[f])
      BY <2>1, <2>3, SourceType DEF SettledAt, IInv
    <3>2. \A i \in DOMAIN source[f] :
            source[f][i].kind = "alias" => source[f][i].alias \notin Differ(aliases, aliases')
      BY <2>1, <2>2, <3>1 DEF Listed
    <3>3. TypeOK
      BY DEF IInv
    <3> QED BY <1>4, <2>1, <2>2, <3>2, <3>3, StaysSettled
  <2>4. CASE result[f] = None
    BY <2>2, <2>4 DEF SettledAt
  <2> QED BY <2>3, <2>4
<1> QED BY <1>4, <1>5, <1>6, <1>7 DEF IInv

-----------------------------------------------------------------------------
(* The invariant holds in every behaviour.                                 *)

LEMMA InitIInv == Init => IInv
<1> SUFFICES ASSUME Init PROVE IInv
  OBVIOUS
<1>1. TypeOK
  <2>1. <<>> \in Seq(Items) /\ <<>> \in Seq(Alias)
    OBVIOUS
  <2> QED BY <2>1 DEF Init, TypeOK
<1>2. Map!IInv
  <2>1. Map!Init
    BY DEF Init, Dependants!Init, Map!Init
  <2> QED BY <2>1, Map!InitIInv
<1>3. CheckSoFar /\ DiffSoFar
  BY DEF Init, CheckSoFar, DiffSoFar
<1>4. Settled
  BY DEF Init, Settled, SettledAt
<1> QED BY <1>1, <1>2, <1>3, <1>4 DEF IInv

LEMMA NextIInv == IInv /\ [Next]_vars => IInv'
<1> SUFFICES ASSUME IInv, [Next]_vars PROVE IInv'
  OBVIOUS
<1>1. CASE External
  BY <1>1, BeginReloadStep, MoveFilesStep, EditStep, CloseStep, BeginCheckStep DEF External
<1>2. CASE Internal
  BY <1>2, CheckPathStep, CheckAliasStep, CheckInvalidStep, EndCheckStep,
     DiffBothStep, DiffSelfStep, DiffOtherStep, EndReloadStep DEF Internal
<1>3. CASE UNCHANGED vars
  <2>1. Map!IInv'
    BY <1>3, SameDependants DEF IInv, vars
  <2>2. TypeOK'
    BY <1>3 DEF IInv, vars, check, diff, TypeOK
  <2>3. CheckSoFar'
    <3>1. \A f : Targets(f)' = Targets(f)
      BY <1>3 DEF vars, Targets, PlaceOf
    <3>2. \A f, n : Listed(f, n)' <=> Listed(f, n)
      BY <1>3 DEF vars, Listed, Dependent
    <3> QED BY <1>3, <3>1, <3>2 DEF IInv, vars, check, CheckSoFar
  <2>4. DiffSoFar'
    <3>1. SelfKeys' = SelfKeys /\ OtherKeys' = OtherKeys
      BY <1>3 DEF vars, diff, SelfKeys, OtherKeys
    <3>2. Past' = Past /\ Ahead' = Ahead
      BY <1>3, <3>1 DEF vars, diff, Past, Ahead
    <3> QED BY <1>3, <3>1, <3>2 DEF IInv, vars, diff, DiffSoFar
  <2>5. Settled'
    BY <1>3, SettledUnless, NoneApart DEF IInv, vars, check
  <2> QED BY <2>1, <2>2, <2>3, <2>4, <2>5 DEF IInv
<1> QED BY <1>1, <1>2, <1>3 DEF Next

(* What has been checked and what diff has gone past are as they should be *)
(* after every step.                                                       *)
THEOREM Invariance == Spec => []IInv
  BY InitIInv, NextIInv, PTL DEF Spec

(* A file whose result stands is a dependant of every alias its derives    *)
(* name, known or not: typecheck_derive enters it before it looks the      *)
(* alias up, and no other file that is closed or checked takes it out.     *)
THEOREM UsersAreListed == Spec => []UsersListed
<1>1. IInv => UsersListed
  <2> SUFFICES ASSUME IInv, NEW f \in File \ stale, result[f] # None,
                      NEW i \in DOMAIN source[f], source[f][i].kind = "alias"
               PROVE  f \in Dependent(source[f][i].alias)
    BY DEF UsersListed, Dependent
  <2>1. DOMAIN source[f] = 1 .. Len(source[f])
    BY SourceType DEF IInv
  <2>2. Listed(f, Len(source[f]))
    BY DEF IInv, Settled, SettledAt
  <2> QED BY <2>1, <2>2 DEF Listed
<1> QED BY <1>1, Invariance, PTL

(* Aliases::diff yields the aliases that differ, each once and in order,   *)
(* and none when it ends that it has not yielded, for any two tables.      *)
THEOREM DiffIsExact == Spec => []DiffExact
<1>1. IInv => DiffExact
  <2> SUFFICES ASSUME IInv, incoming # None
               PROVE  /\ \A i, j \in DOMAIN changed : i < j => changed[i] < changed[j]
                      /\ Range(changed) \subseteq Differ(aliases, incoming)
                      /\ SelfDone /\ OtherDone => Range(changed) = Differ(aliases, incoming)
    BY DEF DiffExact
  <2>1. Increasing(changed) /\ Range(changed) = Past \cap Differ(aliases, incoming)
    BY DEF IInv, DiffSoFar
  <2>2. ASSUME SelfDone, OtherDone PROVE Range(changed) = Differ(aliases, incoming)
    <3>1. Ahead = {}
      BY <2>2, DiffKeys DEF SelfDone, OtherDone, Ahead
    <3>2. Past = DOMAIN aliases \cup DOMAIN incoming
      BY <3>1, PastAhead
    <3> QED BY <2>1, <3>2 DEF Differ
  <2> QED BY <2>1, <2>2 DEF Increasing
<1> QED BY <1>1, Invariance, PTL

(* The result of a file that is not to be checked is the one that a check  *)
(* would give with the aliases and the files there are now: Dependants and *)
(* diff together find every file that a change of .luaurc concerns, and    *)
(* what a check returns tells which ones a change of the disk concerns.    *)
THEOREM ResultsAreFresh == Spec => []ResultsFresh
<1>1. IInv => ResultsFresh
  <2> SUFFICES ASSUME IInv, NEW f \in File \ stale, result[f] # None
               PROVE  LET targets == Targets(f)
                      IN  /\ DOMAIN result[f].derives = Range(targets) \ {f, None}
                          /\ \A g \in DOMAIN result[f].derives :
                               LET i == result[f].derives[g]
                               IN  targets[i] = g /\ \A j \in DOMAIN targets : targets[j] = g => j <= i
                          /\ {e[2] : e \in result[f].errors}
                               = {i \in DOMAIN targets : targets[i] \in {f, None}}
    BY DEF ResultsFresh
  <2>1. DOMAIN Targets(f) = 1 .. Len(source[f])
    BY SourceType DEF IInv, Targets
  <2>2. Found(f, Targets(f), result[f].derives, result[f].errors, Len(source[f]))
    BY DEF IInv, Settled, SettledAt
  <2> QED BY <2>1, <2>2 DEF Found, Range
<1> QED BY <1>1, Invariance, PTL
=============================================================================
