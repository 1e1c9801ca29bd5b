-------------------------------- MODULE Data --------------------------------
(***************************************************************************)
(* The values of a style sheet.                                            *)
(*                                                                         *)
(* A number is counted in twelfths, so that a half and a third are exact.  *)
(* A colour is a point together with the space it was given in; changing   *)
(* its type does not move it.  An Option is a sequence of at most one      *)
(* value, and Then is the ? operator.                                      *)
(***************************************************************************)
EXTENDS Integers, FiniteSets, Sequences, SequencesExt, TLC

CONSTANTS
  Enums,       (* the enums of the reflection database: item to value       *)
  Rebinds      (* SHORTHAND_REBINDS                                         *)

Unit == 12
NoKey == ""

Then(option, Rest(_)) == IF option = <<>> THEN <<>> ELSE Rest(option[1])

(* HashMap::insert: over what there is of the key.                         *)
Inserted(map, key, value) == [k \in DOMAIN map \cup {key} |-> IF k = key THEN value ELSE map[k]]

-----------------------------------------------------------------------------
(* Datatype: Variants of the types used here, and what is not a Variant.   *)

Float64(n) == [type |-> "Float64", n |-> n]
UDim(scale, offset) == [type |-> "UDim", scale |-> scale, offset |-> offset]
String(text) == [type |-> "String", text |-> text]
Content(text) == [type |-> "Content", text |-> text]
Colored(type, space, at) == [type |-> type, space |-> space, at |-> at]
EnumItem(enum, value) == [type |-> "EnumItem", enum |-> enum, value |-> value]
TupleData(data) == [type |-> "TupleData", data |-> data]
Shorthand(item) == [type |-> "IncompleteEnumShorthand", item |-> item]
None == [type |-> "None"]

(* Not a value: the evaluation indexes an empty list and panics.           *)
Panic == [type |-> "Panic"]

IsVariant(d) == d.type \notin {"TupleData", "IncompleteEnumShorthand", "Oklab", "Oklch", "None", "Panic"}

(* A colour in another type.                                               *)
Recolored(d, type) == [d EXCEPT !.type = type]

FromNameAndValueName(enum, item) ==
  IF enum \in DOMAIN Enums /\ item \in DOMAIN Enums[enum]
  THEN <<EnumItem(enum, Enums[enum][item])>>
  ELSE <<>>

ValidateEnumVariant(item, enum) == enum \in DOMAIN Enums => item \in DOMAIN Enums[enum]

ShorthandRebind(key) == IF key \in DOMAIN Rebinds THEN Rebinds[key] ELSE key

CoerceToStatic(d, key) ==
  CASE d.type = "None" -> <<>>
    [] d.type = "IncompleteEnumShorthand" ->
         IF key = NoKey THEN <<>> ELSE FromNameAndValueName(key, d.item)
    [] OTHER -> <<d>>

(* A number cast to an integer loses its fraction, and stops at the ends.  *)
Truncated(n) == IF n < 0 THEN -((-n) \div Unit) ELSE n \div Unit
=============================================================================
