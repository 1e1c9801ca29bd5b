----------------------------- MODULE MultiBiMap -----------------------------
(***************************************************************************)
(* MultiBiMap: a relation kept twice, as the sets of rights of every left  *)
(* and the sets of lefts of every right.  Each operation has to update     *)
(* both, and a removal also tidies up the buckets it empties on the other  *)
(* side.                                                                   *)
(***************************************************************************)
EXTENDS Naturals, FiniteSets

CONSTANTS
  Left,
  Right

VARIABLES
  left_to_right,   (* the bucket of rights of every left that is a key      *)
  right_to_left    (* the bucket of lefts of every right that is a key      *)

vars == <<left_to_right, right_to_left>>

Bucket(m, k) == IF k \in DOMAIN m THEN m[k] ELSE {}
With(m, k, bucket) == [x \in DOMAIN m \cup {k} |-> IF x = k THEN bucket ELSE m[x]]
Without(m, k) == [x \in DOMAIN m \ {k} |-> m[x]]

(* Mistake: an emptied bucket stays.                                       *)
PrunedToEmpty(m, keys, x) == [k \in DOMAIN m |-> IF k \in keys THEN m[k] \ {x} ELSE m[k]]

(* Mistake: a bucket goes with the first member it loses.                  *)
PrunedWhole(m, keys, x) == [k \in DOMAIN m \ keys |-> m[k]]

(* x leaves the buckets of keys; one that has a single member goes, whoever *)
(* that member is.                                                         *)
Pruned(m, keys, x) ==
  LET gone == {k \in DOMAIN m \cap keys : Cardinality(m[k]) = 1}
  IN  [k \in DOMAIN m \ gone |-> IF k \in keys THEN m[k] \ {x} ELSE m[k]]

Init ==
  /\ left_to_right = [l \in {} |-> {}]
  /\ right_to_left = [r \in {} |-> {}]

(* Mistake: the key and the member change places.                          *)
InsertSwapped(l, r) ==
  /\ left_to_right' = With(left_to_right, r, Bucket(left_to_right, r) \cup {l})
  /\ right_to_left' = With(right_to_left, l, Bucket(right_to_left, l) \cup {r})

Insert(l, r) ==
  /\ left_to_right' = With(left_to_right, l, Bucket(left_to_right, l) \cup {r})
  /\ right_to_left' = With(right_to_left, r, Bucket(right_to_left, r) \cup {l})

InsertByLeft(l) ==
  /\ left_to_right' = With(left_to_right, l, Bucket(left_to_right, l))
  /\ UNCHANGED right_to_left

InsertByRight(r) ==
  /\ right_to_left' = With(right_to_left, r, Bucket(right_to_left, r))
  /\ UNCHANGED left_to_right

(* Mistake: only one side forgets the key.                                 *)
RemoveByLeftOnly(l) ==
  /\ left_to_right' = Without(left_to_right, l)
  /\ UNCHANGED right_to_left

RemoveByLeft(l) ==
  /\ right_to_left' = Pruned(right_to_left, Bucket(left_to_right, l), l)
  /\ left_to_right' = Without(left_to_right, l)

RemoveByRight(r) ==
  /\ left_to_right' = Pruned(left_to_right, Bucket(right_to_left, r), r)
  /\ right_to_left' = Without(right_to_left, r)

Next ==
  \/ \E l \in Left, r \in Right : Insert(l, r)
  \/ \E l \in Left : InsertByLeft(l)
  \/ \E r \in Right : InsertByRight(r)
  \/ \E l \in Left : RemoveByLeft(l)
  \/ \E r \in Right : RemoveByRight(r)

Spec == Init /\ [][Next]_vars

-----------------------------------------------------------------------------
(* A map from keys to finite buckets.                                      *)
Buckets(m, K, V) ==
  /\ m = [k \in DOMAIN m |-> m[k]]
  /\ DOMAIN m \subseteq K
  /\ \A k \in DOMAIN m : m[k] \subseteq V /\ IsFiniteSet(m[k])

(* The two maps are such maps, one over the lefts and one over the rights. *)
TypeOK ==
  /\ Buckets(left_to_right, Left, Right)
  /\ Buckets(right_to_left, Right, Left)

(* Both sides hold the same pairs, whatever was inserted and removed, and  *)
(* on whichever side.                                                      *)
BothWaysAgree ==
  \A l \in Left, r \in Right :
    r \in Bucket(left_to_right, l) <=> l \in Bucket(right_to_left, r)

(* A removal takes an emptied bucket away with its key, so that a lookup   *)
(* finds nothing and not an empty set; the only empty buckets are those    *)
(* that insert_by_left and insert_by_right open.                           *)
NoneEmptied ==
  [][/\ \A l \in DOMAIN left_to_right' :
          left_to_right'[l] = {} => Bucket(left_to_right, l) = {}
     /\ \A r \in DOMAIN right_to_left' :
          right_to_left'[r] = {} => Bucket(right_to_left, r) = {}]_vars

(* Seen from the left, the map is a set of pairs: an insertion adds one,   *)
(* a removal takes exactly those of the key removed.                       *)
Pairs == {p \in Left \X Right : p[2] \in Bucket(left_to_right, p[1])}
Relation == INSTANCE Pairing WITH pairs <- Pairs
IsRelation == Relation!Spec
=============================================================================
