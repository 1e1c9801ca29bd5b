-------------------------- MODULE MultiBiMapProofs --------------------------
(***************************************************************************)
(* The two sides of a MultiBiMap agree, removals leave no bucket empty,    *)
(* and the map implements a set of pairs, for any keys.  TypeOK and        *)
(* BothWaysAgree together are inductive; the removals need the agreement:  *)
(* they drop a bucket that has one member without looking whether that     *)
(* member is the one to be removed.                                        *)
(***************************************************************************)
EXTENDS MultiBiMap, FiniteSetTheorems, TLAPS

-----------------------------------------------------------------------------
(* What the helpers do to the bucket of one key.                           *)

LEMMA BucketWith ==
  ASSUME NEW m, NEW k, NEW b, NEW x
  PROVE  Bucket(With(m, k, b), x) = IF x = k THEN b ELSE Bucket(m, x)
  BY DEF Bucket, With

LEMMA BucketWithout ==
  ASSUME NEW m, NEW k, NEW x
  PROVE  Bucket(Without(m, k), x) = IF x = k THEN {} ELSE Bucket(m, x)
  BY DEF Bucket, Without

(* A bucket of one member that holds x loses x when it is dropped.         *)
LEMMA BucketPruned ==
  ASSUME NEW K, NEW V, NEW m, Buckets(m, K, V), NEW keys, NEW x,
         \A k \in keys : x \in Bucket(m, k),
         NEW y
  PROVE  Bucket(Pruned(m, keys, x), y) = IF y \in keys THEN Bucket(m, y) \ {x} ELSE Bucket(m, y)
<1>1. CASE y \in DOMAIN m /\ y \in keys /\ Cardinality(m[y]) = 1
  <2>1. x \in m[y] /\ IsFiniteSet(m[y])
    BY <1>1 DEF Bucket, Buckets
  <2>2. PICK z : m[y] = {z}
    BY <1>1, <2>1, FS_Singleton
  <2>3. Bucket(m, y) \ {x} = {}
    BY <1>1, <2>1, <2>2 DEF Bucket
  <2>4. Bucket(Pruned(m, keys, x), y) = {}
    BY <1>1 DEF Bucket, Pruned
  <2> QED BY <1>1, <2>3, <2>4
<1>2. CASE ~(y \in DOMAIN m /\ y \in keys /\ Cardinality(m[y]) = 1)
  BY <1>2 DEF Bucket, Pruned
<1> QED BY <1>1, <1>2

(* The helpers keep a map a map of finite buckets.                         *)
LEMMA BucketsWith ==
  ASSUME NEW K, NEW V, NEW m, Buckets(m, K, V), NEW k \in K, NEW b, b \subseteq V, IsFiniteSet(b)
  PROVE  Buckets(With(m, k, b), K, V)
  BY DEF Buckets, With

LEMMA BucketsWithout ==
  ASSUME NEW K, NEW V, NEW m, Buckets(m, K, V), NEW k
  PROVE  Buckets(Without(m, k), K, V)
  BY DEF Buckets, Without

LEMMA BucketsPruned ==
  ASSUME NEW K, NEW V, NEW m, Buckets(m, K, V), NEW keys, NEW x
  PROVE  Buckets(Pruned(m, keys, x), K, V)
<1> DEFINE p == Pruned(m, keys, x)
<1>1. p = [k \in DOMAIN p |-> p[k]] /\ DOMAIN p \subseteq DOMAIN m
  BY DEF Pruned
<1>2. ASSUME NEW k \in DOMAIN p
      PROVE  p[k] = m[k] \/ p[k] = m[k] \ {x}
  BY DEF Pruned
<1>3. ASSUME NEW k \in DOMAIN p
      PROVE  p[k] \subseteq V /\ IsFiniteSet(p[k])
  <2>1. m[k] \subseteq V /\ IsFiniteSet(m[k])
    BY <1>1 DEF Buckets
  <2>2. IsFiniteSet(m[k] \ {x})
    BY <2>1, FS_RemoveElement
  <2> QED BY <1>2, <2>1, <2>2
<1>4. DOMAIN p \subseteq K
  BY <1>1 DEF Buckets
<1> HIDE DEF p
<1>5. Buckets(p, K, V)
  BY <1>1, <1>3, <1>4 DEF Buckets
<1> QED BY <1>5 DEF p

LEMMA BucketFinite ==
  ASSUME NEW K, NEW V, NEW m, Buckets(m, K, V), NEW k
  PROVE  Bucket(m, k) \subseteq V /\ IsFiniteSet(Bucket(m, k))
  BY FS_EmptySet DEF Bucket, Buckets

-----------------------------------------------------------------------------
(* The invariant.                                                          *)
IInv == TypeOK /\ BothWaysAgree

LEMMA InitIInv == Init => IInv
  BY DEF Init, IInv, TypeOK, Buckets, BothWaysAgree, Bucket

(* What each operation does to the buckets of every key.                   *)
LEMMA InsertBuckets ==
  ASSUME NEW l \in Left, NEW r \in Right, Insert(l, r)
  PROVE  /\ \A k : Bucket(left_to_right', k) =
              IF k = l THEN Bucket(left_to_right, l) \cup {r} ELSE Bucket(left_to_right, k)
         /\ \A k : Bucket(right_to_left', k) =
              IF k = r THEN Bucket(right_to_left, r) \cup {l} ELSE Bucket(right_to_left, k)
  BY BucketWith DEF Insert

LEMMA OpenedBuckets ==
  ASSUME (\E l \in Left : InsertByLeft(l)) \/ (\E r \in Right : InsertByRight(r))
  PROVE  /\ \A k : Bucket(left_to_right', k) = Bucket(left_to_right, k)
         /\ \A k : Bucket(right_to_left', k) = Bucket(right_to_left, k)
<1>1. ASSUME NEW l \in Left, InsertByLeft(l)
      PROVE  \A k : Bucket(left_to_right', k) = Bucket(left_to_right, k)
  BY <1>1, BucketWith DEF InsertByLeft
<1>2. ASSUME NEW r \in Right, InsertByRight(r)
      PROVE  \A k : Bucket(right_to_left', k) = Bucket(right_to_left, k)
  BY <1>2, BucketWith DEF InsertByRight
<1>3. (\E l \in Left : InsertByLeft(l)) => right_to_left' = right_to_left
  BY DEF InsertByLeft
<1>4. (\E r \in Right : InsertByRight(r)) => left_to_right' = left_to_right
  BY DEF InsertByRight
<1> QED BY <1>1, <1>2, <1>3, <1>4

LEMMA RemoveLeftBuckets ==
  ASSUME IInv, NEW l \in Left, RemoveByLeft(l)
  PROVE  /\ \A k : Bucket(left_to_right', k) = IF k = l THEN {} ELSE Bucket(left_to_right, k)
         /\ \A k : Bucket(right_to_left', k) =
              IF k \in Bucket(left_to_right, l)
              THEN Bucket(right_to_left, k) \ {l} ELSE Bucket(right_to_left, k)
<1>1. \A k \in Bucket(left_to_right, l) : l \in Bucket(right_to_left, k)
  BY BucketFinite DEF IInv, TypeOK, BothWaysAgree
<1>2. \A k : Bucket(Pruned(right_to_left, Bucket(left_to_right, l), l), k) =
              IF k \in Bucket(left_to_right, l)
              THEN Bucket(right_to_left, k) \ {l} ELSE Bucket(right_to_left, k)
  BY <1>1, BucketPruned DEF IInv, TypeOK
<1> QED BY <1>2, BucketWithout DEF RemoveByLeft

LEMMA RemoveRightBuckets ==
  ASSUME IInv, NEW r \in Right, RemoveByRight(r)
  PROVE  /\ \A k : Bucket(right_to_left', k) = IF k = r THEN {} ELSE Bucket(right_to_left, k)
         /\ \A k : Bucket(left_to_right', k) =
              IF k \in Bucket(right_to_left, r)
              THEN Bucket(left_to_right, k) \ {r} ELSE Bucket(left_to_right, k)
<1>1. \A k \in Bucket(right_to_left, r) : r \in Bucket(left_to_right, k)
  BY BucketFinite DEF IInv, TypeOK, BothWaysAgree
<1>2. \A k : Bucket(Pruned(left_to_right, Bucket(right_to_left, r), r), k) =
              IF k \in Bucket(right_to_left, r)
              THEN Bucket(left_to_right, k) \ {r} ELSE Bucket(left_to_right, k)
  BY <1>1, BucketPruned DEF IInv, TypeOK
<1> QED BY <1>2, BucketWithout DEF RemoveByRight

LEMMA NextIInv == IInv /\ [Next]_vars => IInv'
<1> SUFFICES ASSUME IInv, [Next]_vars PROVE IInv'
  OBVIOUS
<1>1. Buckets(left_to_right, Left, Right) /\ Buckets(right_to_left, Right, Left)
  BY DEF IInv, TypeOK
<1>2. \A k : Bucket(left_to_right, k) \subseteq Right /\ IsFiniteSet(Bucket(left_to_right, k))
  BY <1>1, BucketFinite
<1>3. \A k : Bucket(right_to_left, k) \subseteq Left /\ IsFiniteSet(Bucket(right_to_left, k))
  BY <1>1, BucketFinite
<1>4. ASSUME NEW l \in Left, NEW r \in Right, Insert(l, r) PROVE IInv'
  <2>1. IsFiniteSet(Bucket(left_to_right, l) \cup {r}) /\ IsFiniteSet(Bucket(right_to_left, r) \cup {l})
    BY <1>2, <1>3, FS_AddElement
  <2>2. TypeOK'
    BY <1>1, <1>2, <1>3, <1>4, <2>1, BucketsWith DEF Insert, TypeOK
  <2>3. BothWaysAgree'
    BY <1>4, InsertBuckets DEF IInv, BothWaysAgree
  <2> QED BY <2>2, <2>3 DEF IInv
<1>5. ASSUME NEW l \in Left, InsertByLeft(l) PROVE IInv'
  <2>1. TypeOK'
    BY <1>1, <1>2, <1>5, BucketsWith DEF InsertByLeft, TypeOK
  <2>2. BothWaysAgree'
    BY <1>5, OpenedBuckets DEF IInv, BothWaysAgree
  <2> QED BY <2>1, <2>2 DEF IInv
<1>6. ASSUME NEW r \in Right, InsertByRight(r) PROVE IInv'
  <2>1. TypeOK'
    BY <1>1, <1>3, <1>6, BucketsWith DEF InsertByRight, TypeOK
  <2>2. BothWaysAgree'
    BY <1>6, OpenedBuckets DEF IInv, BothWaysAgree
  <2> QED BY <2>1, <2>2 DEF IInv
<1>7. ASSUME NEW l \in Left, RemoveByLeft(l) PROVE IInv'
  <2>1. TypeOK'
    BY <1>1, <1>7, BucketsWithout, BucketsPruned DEF RemoveByLeft, TypeOK
  <2>2. BothWaysAgree'
    BY <1>7, RemoveLeftBuckets DEF IInv, BothWaysAgree
  <2> QED BY <2>1, <2>2 DEF IInv
<1>8. ASSUME NEW r \in Right, RemoveByRight(r) PROVE IInv'
  <2>1. TypeOK'
    BY <1>1, <1>8, BucketsWithout, BucketsPruned DEF RemoveByRight, TypeOK
  <2>2. BothWaysAgree'
    BY <1>8, RemoveRightBuckets DEF IInv, BothWaysAgree
  <2> QED BY <2>1, <2>2 DEF IInv
<1>9. CASE UNCHANGED vars
  BY <1>9 DEF vars, IInv, TypeOK, BothWaysAgree
<1> QED BY <1>4, <1>5, <1>6, <1>7, <1>8, <1>9 DEF Next

(* The invariant holds whatever operations are called.                     *)
THEOREM Invariance == Spec => []IInv
  BY InitIInv, NextIInv, PTL DEF Spec

(* The state of the map is well formed.                                    *)
THEOREM TypeCorrect == Spec => []TypeOK
<1>1. IInv => TypeOK
  BY DEF IInv
<1> QED BY <1>1, Invariance, PTL

(* Both sides of the map hold the same pairs.                              *)
THEOREM SidesAgree == Spec => []BothWaysAgree
<1>1. IInv => BothWaysAgree
  BY DEF IInv
<1> QED BY <1>1, Invariance, PTL

-----------------------------------------------------------------------------
(* No operation empties a bucket and leaves it.                            *)
StepEmptiesNone ==
  /\ \A l \in DOMAIN left_to_right' : left_to_right'[l] = {} => Bucket(left_to_right, l) = {}
  /\ \A r \in DOMAIN right_to_left' : right_to_left'[r] = {} => Bucket(right_to_left, r) = {}

LEMMA PrunedNoneEmptied ==
  ASSUME NEW K, NEW V, NEW m, Buckets(m, K, V), NEW keys, NEW x,
         \A k \in keys : x \in Bucket(m, k),
         NEW y \in DOMAIN Pruned(m, keys, x), Pruned(m, keys, x)[y] = {}
  PROVE  Bucket(m, y) = {}
<1>1. y \in DOMAIN m /\ ~(y \in keys /\ Cardinality(m[y]) = 1)
  BY DEF Pruned
<1>2. CASE y \in keys
  <2>1. m[y] \ {x} = {} /\ x \in m[y]
    BY <1>1, <1>2 DEF Pruned, Bucket
  <2>2. m[y] = {x}
    BY <2>1
  <2>3. Cardinality(m[y]) = 1
    BY <2>2, FS_Singleton
  <2> QED BY <1>1, <1>2, <2>3
<1>3. CASE y \notin keys
  BY <1>1, <1>3 DEF Pruned, Bucket
<1> QED BY <1>2, <1>3

LEMMA NextEmptiesNone ==
  ASSUME IInv, Next
  PROVE  StepEmptiesNone
<1>1. Buckets(left_to_right, Left, Right) /\ Buckets(right_to_left, Right, Left)
  BY DEF IInv, TypeOK
<1>2. ASSUME NEW l \in Left, NEW r \in Right, Insert(l, r) PROVE StepEmptiesNone
  BY <1>2 DEF Insert, With, Bucket, StepEmptiesNone
<1>3. ASSUME NEW l \in Left, InsertByLeft(l) PROVE StepEmptiesNone
  BY <1>3 DEF InsertByLeft, With, Bucket, StepEmptiesNone
<1>4. ASSUME NEW r \in Right, InsertByRight(r) PROVE StepEmptiesNone
  BY <1>4 DEF InsertByRight, With, Bucket, StepEmptiesNone
<1>5. ASSUME NEW l \in Left, RemoveByLeft(l) PROVE StepEmptiesNone
  <2>1. \A k \in Bucket(left_to_right, l) : l \in Bucket(right_to_left, k)
    BY <1>1, BucketFinite DEF IInv, BothWaysAgree
  <2>2. \A r \in DOMAIN right_to_left' : right_to_left'[r] = {} => Bucket(right_to_left, r) = {}
    BY <1>1, <1>5, <2>1, PrunedNoneEmptied DEF RemoveByLeft
  <2>3. \A k \in DOMAIN left_to_right' : left_to_right'[k] = {} => Bucket(left_to_right, k) = {}
    BY <1>5 DEF RemoveByLeft, Without, Bucket
  <2> QED BY <2>2, <2>3 DEF StepEmptiesNone
<1>6. ASSUME NEW r \in Right, RemoveByRight(r) PROVE StepEmptiesNone
  <2>1. \A k \in Bucket(right_to_left, r) : r \in Bucket(left_to_right, k)
    BY <1>1, BucketFinite DEF IInv, BothWaysAgree
  <2>2. \A l \in DOMAIN left_to_right' : left_to_right'[l] = {} => Bucket(left_to_right, l) = {}
    BY <1>1, <1>6, <2>1, PrunedNoneEmptied DEF RemoveByRight
  <2>3. \A k \in DOMAIN right_to_left' : right_to_left'[k] = {} => Bucket(right_to_left, k) = {}
    BY <1>6 DEF RemoveByRight, Without, Bucket
  <2> QED BY <2>2, <2>3 DEF StepEmptiesNone
<1> QED BY <1>2, <1>3, <1>4, <1>5, <1>6 DEF Next

(* A removal takes every bucket it empties away.                           *)
THEOREM RemovalsTidy == Spec => NoneEmptied
<1>1. IInv /\ [Next]_vars => [StepEmptiesNone]_vars
  BY NextEmptiesNone
<1> QED BY <1>1, Invariance, PTL DEF Spec, NoneEmptied, StepEmptiesNone

-----------------------------------------------------------------------------
(* The refinement: each operation is one on the set of pairs.              *)

LEMMA InitPairs == Init => Relation!Init
  BY DEF Init, Relation!Init, Pairs, Bucket

LEMMA NextPairs == IInv /\ [Next]_vars => [Relation!Next]_Pairs
<1> SUFFICES ASSUME IInv, [Next]_vars PROVE [Relation!Next]_Pairs
  OBVIOUS
<1>1. ASSUME NEW l \in Left, NEW r \in Right, Insert(l, r) PROVE Relation!Next
  <2>1. Relation!Pair(l, r)
    BY <1>1, InsertBuckets DEF Relation!Pair, Pairs
  <2> QED BY <2>1 DEF Relation!Next
<1>2. CASE (\E l \in Left : InsertByLeft(l)) \/ (\E r \in Right : InsertByRight(r))
  <2>1. Pairs' = Pairs
    BY <1>2, OpenedBuckets DEF Pairs
  <2> QED BY <2>1
<1>3. ASSUME NEW l \in Left, RemoveByLeft(l) PROVE Relation!Next
  <2>1. Relation!DropLeft(l)
    BY <1>3, RemoveLeftBuckets DEF Relation!DropLeft, Pairs
  <2> QED BY <2>1 DEF Relation!Next
<1>4. ASSUME NEW r \in Right, RemoveByRight(r) PROVE Relation!Next
  <2>1. \A l \in Left, q \in Right : q \in Bucket(left_to_right', l)
                                   <=> q \in Bucket(left_to_right, l) /\ q # r
    BY <1>4, RemoveRightBuckets DEF IInv, BothWaysAgree
  <2>2. Relation!DropRight(r)
    BY <2>1 DEF Relation!DropRight, Pairs
  <2> QED BY <2>2 DEF Relation!Next
<1>5. CASE UNCHANGED vars
  BY <1>5 DEF vars, Pairs
<1> QED BY <1>1, <1>2, <1>3, <1>4, <1>5 DEF Next

(* The map behaves as a set of pairs.                                      *)
THEOREM Implements == Spec => IsRelation
  BY InitPairs, NextPairs, Invariance, PTL DEF Spec, IsRelation, Relation!Spec
=============================================================================
