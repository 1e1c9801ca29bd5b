------------------------------ MODULE Pairing ------------------------------
(* What a two-way map promises: a set of pairs, to which a pair is added   *)
(* and from which all the pairs of one of its members are taken.           *)
CONSTANTS Left, Right

VARIABLE pairs

Init == pairs = {}

Pair(l, r) == pairs' = pairs \cup {<<l, r>>}
DropLeft(l) == pairs' = {p \in pairs : p[1] # l}
DropRight(r) == pairs' = {p \in pairs : p[2] # r}

Next ==
  \/ \E l \in Left, r \in Right : Pair(l, r)
  \/ \E l \in Left : DropLeft(l)
  \/ \E r \in Right : DropRight(r)

Spec == Init /\ [][Next]_pairs
=============================================================================
