----------------------------- MODULE MCDerives -----------------------------
(* Two files and a base file they derive by path, or through one of two    *)
(* aliases; aliases that lead to the base or nowhere, or do not exist; a   *)
(* base that comes and goes, and one of the files turning up where there   *)
(* was none.                                                               *)
EXTENDS Derives

CONSTANTS f1, f2, base, nowhere, none

MCFile == {f1, f2, base}
MCAlias == {1, 2}
MCPlace == {f1, f2, base, nowhere}
MCLocated == [p \in MCPlace |-> IF p = nowhere THEN none ELSE p]
MCDisks == {MCLocated, [MCLocated EXCEPT ![base] = none, ![nowhere] = f2]}

Path(p) == [kind |-> "path", place |-> p]
By(a) == [kind |-> "alias", alias |-> a, place |-> nowhere]
Invalid == [kind |-> "invalid"]
MCSources ==
  {<<By(1)>>, <<By(2), Path(base)>>, <<By(1), By(2)>>, <<Path(f1), Invalid, By(1)>>}

MCTables == UNION {[A -> {base, nowhere}] : A \in SUBSET MCAlias}
=============================================================================
