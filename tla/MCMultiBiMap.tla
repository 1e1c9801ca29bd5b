---------------------------- MODULE MCMultiBiMap ----------------------------
(* Three aliases and three files: enough for a bucket to lose one of two   *)
(* members while another loses its only one.                               *)
EXTENDS MultiBiMap, TLC

CONSTANTS a1, a2, a3, f1, f2, f3

MCLeft == {a1, a2, a3}
MCRight == {f1, f2, f3}
=============================================================================
