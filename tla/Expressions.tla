----------------------------- MODULE Expressions -----------------------------
(***************************************************************************)
(* What the compiler makes of an operation the parser has read:            *)
(* evaluate_construct over numbers, and the value the operation has by the *)
(* usual rules.                                                            *)
(***************************************************************************)
EXTENDS Parser

Number == ("1" :> 1) @@ ("2" :> 2) @@ ("3" :> 3) @@ ("4" :> 4)

(* apply_operator.                                                         *)
ApplyOperator(operator, left, right) ==
  CASE operator = "+" -> left + right
    [] operator = "-" -> left - right
    [] operator = "*" -> left * right

(* evaluate_construct: the set of the value, empty for None.  Of several   *)
(* operators in a row only the first counts, and without a right side the  *)
(* left one is the value.                                                  *)
RECURSIVE EvaluateConstruct(_)
EvaluateConstruct(c) ==
  CASE c.kind = "Node" -> {Number[word] : word \in {Word(c.at)} \cap DOMAIN Number}
    [] c.kind = "UnaryMinus" -> {-v : v \in EvaluateConstruct(c.parts[2])}
    [] c.kind = "Math" ->
         LET left == EvaluateConstruct(c.parts[1])
             last == Last(c.parts)
             right == IF last.kind = "Node" /\ Is(last.at, Operators) THEN {}
                      ELSE EvaluateConstruct(last)
         IN  IF right = {} THEN left
             ELSE {ApplyOperator(Word(c.parts[2].at), l, r) : l \in left, r \in right}
    [] OTHER -> {}

(* The value by the usual rules: the last of the loosest operators is      *)
(* applied last.                                                           *)
RECURSIVE UsualValue(_)
UsualValue(words) ==
  LET At(operators) == {i \in DOMAIN words : words[i] \in operators}
      Split(i) == ApplyOperator(words[i], UsualValue(SubSeq(words, 1, i - 1)),
                                UsualValue(SubSeq(words, i + 1, Len(words))))
  IN  IF At(AddSub) # {} THEN Split(Max(At(AddSub)))
      ELSE IF At(MulDiv) # {} THEN Split(Max(At(MulDiv)))
      ELSE Number[words[1]]

(* The words between the = of the first assignment and its semicolon.      *)
OperationWritten == SubSeq(file, 3, SelectInSeq(file, LAMBDA word : word = ";") - 1)

(* A file is read as the code's own words have it.  The tests              *)
(* math_precedence_* and math_chained_add_sub, with the values in their    *)
(* snapshots, let the operators that bind more tightly go first, and equal *)
(* ones from left to right: so the operation of a first assignment has its *)
(* value by the usual rules.  And a parser that returns no node has no     *)
(* error to hand back or is at the end: so the parse ends there only.      *)
ReadAsDocumented ==
  Done => /\ EvaluateConstruct(Here.content[1].parts[3]) = {UsualValue(OperationWritten)}
          /\ EndIsEof
=============================================================================
