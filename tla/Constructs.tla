----------------------------- MODULE Constructs -----------------------------
(***************************************************************************)
(* The constructs of a file as the parser leaves them, as far as macros go *)
(* and the typechecker reads them.                                         *)
(*                                                                         *)
(* A call carries the key the compiler computes from its arguments, and    *)
(* trailing, for a comma kept after the last of them: the parser keeps one *)
(* only in a call it has reported an error in, as in `A!(1, =)`.           *)
(***************************************************************************)
EXTENDS Naturals, Sequences, SequencesExt

CONSTANTS
  Key,         (* MacroKeys: records of a name and an arity                 *)
  Item,        (* the constructs that may stand in a body                   *)
  Levels,      (* Levels[c]: how deep the rules in the construct c nest      *)
  Selector,    (* the nodes of a selector list                              *)
  Builtins,    (* the registry of the embedded builtins.rsml                *)
  Files        (* the files considered: constructs in order, nobuiltins     *)

(* The constructs nested in a construct, if any: those of a rule's body.   *)
Inner(c) == IF c.kind = "rule" THEN Range(c.body) ELSE {}

(* A construct with all that is nested in it.                              *)
Nested[c \in Item] == {c} \cup UNION {Nested[i] : i \in Inner(c)}

(* count_macro_call_args counts commas, so a trailing one adds an argument. *)
CheckedKey(call) ==
  IF call.trailing THEN [call.key EXCEPT !.arity = @ + 1] ELSE call.key

(* What the parser returns is a tree: no construct is nested in itself.    *)
ASSUME NestingAssumption ==
  \A c \in Item : Levels[c] \in Nat /\ \A i \in Inner(c) : i \in Item /\ Levels[i] < Levels[c]
ASSUME CallsAssumption ==
  /\ \A s \in Selector : s.kind = "call" => CheckedKey(s) \in Key
  /\ \A c \in Item :
       /\ c.kind = "call" => CheckedKey(c) \in Key
       /\ c.kind = "set" /\ c.right.kind = "call" => CheckedKey(c.right) \in Key
       /\ c.kind = "rule" => c.selectors \in Seq(Selector) /\ c.body \in Seq(Item)
ASSUME CodeAssumption ==
  \A f \in Files :
    /\ f.code \in Seq(Range(f.code))
    /\ \A c \in Range(f.code) :
         /\ c.kind # "macro" => c \in Item
         /\ c.kind = "macro" /\ c.macro.body.kind = "construct" => c.macro.body.content \in Seq(Item)
         /\ c.kind = "macro" /\ c.macro.body.kind = "selector" => c.macro.body.content \in Seq(Selector)
         /\ c.kind = "macro" /\ c.macro.body.kind = "datatype" /\ c.macro.body.content.kind = "call" =>
              CheckedKey(c.macro.body.content) \in Key
=============================================================================
