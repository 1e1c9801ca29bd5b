--------------------------- MODULE MCMacroCycles ---------------------------
(* Every call graph over three macros in which a body makes at most two    *)
(* calls; any subset of the macros may be registered.                      *)
EXTENDS MacroCycles, SequencesExt

CONSTANTS a, b, c
MCKey == {a, b, c}
MCCallLists == SeqOf(MCKey, 2)
=============================================================================
