--------------------------- MODULE DatatypeParser ---------------------------
(***************************************************************************)
(* The parsing of values: literals, tables, enums, macro calls, and        *)
(* operations with their precedence.  A parse takes the state of the       *)
(* reader and a node, and results in the reader's state, the node it       *)
(* stopped at, and at most one construct in out.  The node is Exists when  *)
(* the construct ended without reading ahead (NodeStatus::Exists).         *)
(*                                                                         *)
(* A construct is its kind and its parts in the order of the source, the   *)
(* missing ones left out; a leaf is the place of a token.                  *)
(***************************************************************************)
EXTENDS TokenReader, SequencesExt

Exists == -1

AddSub == {"+", "-"}
MulDiv == {"*", "/", "//", "%", "^"}
Operators == AddSub \cup MulDiv

(* Mistake: every operator binds as tightly as any other.                  *)
FlatPrecedence(node) == 0

(* TOKEN_KIND_OPERATOR_PRECEDENCE.                                         *)
Precedence(node) == IF Is(node, AddSub) THEN 0 ELSE 1

(* "1" .. "4" stand for all the literals, "[[" is an open long string.     *)
Literals == {"1", "2", "3", "4", "[["}
DatatypeStart ==
  Identifiers \cup Literals
  \cup {"(", "Enum", ":name", "name!", "&name", "$name", "$!name", "-"}
EnumPart == {":name", ".name"}

Leaf(node) == [kind |-> "Node", at |-> node, parts |-> <<>>]
Tree(kind, parts) == [kind |-> kind, at |-> Nothing, parts |-> parts]
Leaves(nodes) == [i \in DOMAIN nodes |-> Leaf(nodes[i])]
Math(left, operators, right) == Tree("Math", <<left>> \o Leaves(operators) \o right)

Result(p, node, out) == [p |-> p, node |-> node, out |-> out]

(* parse_datatype_operators: a run of signs after the first sign.          *)
RECURSIVE MoreSigns(_, _)
MoreSigns(p, signs) ==
  With(Advance(p), LAMBDA next :
    CASE Is(next.node, AddSub) -> MoreSigns(next.p, Append(signs, next.node))
      [] Is(next.node, MulDiv) -> MoreSigns(Fail(next.p, "UnexpectedTokens"), signs)
      [] OTHER -> Result(next.p, next.node, signs))

DatatypeOperators(p, first) ==
  IF Is(first, AddSub) THEN MoreSigns(p, <<first>>)
  ELSE With(Advance(p), LAMBDA next : Result(next.p, next.node, <<first>>))

RECURSIVE Datatype(_, _, _), DatatypePart(_, _, _), Operation(_, _, _, _, _)
RECURSIVE TableArgs(_, _, _), Parens(_, _), MacroCallBody(_, _)

(* parse_datatype.                                                         *)
Datatype(p, node, delimiters) ==
  With(DatatypePart(p, node, delimiters), LAMBDA part :
    IF part.out = <<>> \/ part.node # Exists THEN part
    ELSE With(Advance(part.p), LAMBDA middle :
      IF ~Is(middle.node, Operators) THEN Result(middle.p, middle.node, part.out)
      ELSE With(DatatypeOperators(middle.p, middle.node), LAMBDA operators :
        IF Is(operators.node, {";"})
        THEN Result(Fail(operators.p, "MissingToken"), operators.node,
                    <<Math(part.out[1], operators.out, <<>>)>>)
        ELSE Operation(operators.p, operators.node, part.out[1], operators.out, delimiters))))

(* parse_datatype_operation, with an operand and the operators behind it.  *)
(* Behind an operator that binds more tightly than the last, everything    *)
(* that follows becomes the last one's right side.                         *)
Operation(p, node, last, lastOperators, delimiters) ==
  With(DatatypePart(p, node, delimiters), LAMBDA part :
    With(Math(last, lastOperators, part.out), LAMBDA joined :
      IF part.out = <<>> \/ part.node # Exists THEN Result(part.p, part.node, <<joined>>)
      ELSE With(Advance(part.p), LAMBDA middle :
        IF ~Is(middle.node, Operators) THEN Result(middle.p, middle.node, <<joined>>)
        ELSE With(DatatypeOperators(middle.p, middle.node), LAMBDA operators :
          LET tighter == Precedence(middle.node) > Precedence(lastOperators[1])
              InRight(right) == <<Math(last, lastOperators, right)>>
          IN  IF Is(operators.node, {";"})
              THEN Result(Fail(operators.p, "MissingToken"), operators.node,
                          IF tighter THEN InRight(<<Math(part.out[1], operators.out, <<>>)>>)
                          ELSE <<Math(joined, operators.out, <<>>)>>)
              ELSE With(Operation(operators.p, operators.node,
                                  IF tighter THEN part.out[1] ELSE joined,
                                  operators.out, delimiters),
                        LAMBDA rest : IF tighter THEN [rest EXCEPT !.out = InRight(@)] ELSE rest)))))

(* A name and a table.                                                     *)
AnnotatedTable(p, annotation) ==
  With(Advance(p), LAMBDA open :
    IF ~Is(open.node, {"("})
    THEN Result(Fail(open.p, "UnexpectedTokens"), open.node, <<>>)
    ELSE With(Parens(open.p, open.node), LAMBDA parens :
           [parens EXCEPT !.out = <<Tree("AnnotatedTable", <<Leaf(annotation)>> \o @)>>]))

EnumDatatype(p, keyword) ==
  LET Enum(nodes) == <<Tree("Enum", Leaves(nodes))>>
  IN  With(AdvanceUntil(p, EnumPart, ConstructDelimiters), LAMBDA name :
        IF ~name.ok THEN Result(name.p, name.node, Enum(<<keyword>>))
        ELSE With(AdvanceUntil(name.p, EnumPart, ConstructDelimiters), LAMBDA variant :
          IF ~variant.ok
          THEN Result(variant.p, variant.node, Enum(<<keyword, name.node>>))
          ELSE With(Advance(variant.p), LAMBDA next :
                 Result(next.p, next.node, Enum(<<keyword, name.node, variant.node>>)))))

UnaryMinus(p, minus, delimiters) ==
  With(Advance(p), LAMBDA next :
    With(DatatypePart(next.p, next.node, delimiters), LAMBDA operand :
      [operand EXCEPT !.out = IF @ = <<>> THEN <<Leaf(minus)>>
                              ELSE <<Tree("UnaryMinus", <<Leaf(minus)>> \o @)>>]))

(* parse_datatype_part.                                                    *)
DatatypePart(p, node, delimiters) ==
  With(NodeElseAdvanceUntil(p, node, DatatypeStart, delimiters), LAMBDA first :
    LET word == Word(first.node)
    IN  IF ~first.ok THEN Result(first.p, first.node, <<>>)
        ELSE CASE word \in Identifiers -> AnnotatedTable(first.p, first.node)
               [] word = "(" ->
                    With(Parens(first.p, first.node), LAMBDA parens :
                      [parens EXCEPT !.out = <<Tree("Table", @)>>])
               [] word = "Enum" -> EnumDatatype(first.p, first.node)
               [] word = "name!" -> MacroCallBody(first.p, first.node)
               [] word = "-" -> UnaryMinus(first.p, first.node, delimiters)
               [] word = "[[" -> Result(Fail(first.p, "MissingToken"), Exists, <<Leaf(first.node)>>)
               [] OTHER -> Result(first.p, Exists, <<Leaf(first.node)>>))

(* parse_table_datatype_arg_main, for the node behind an argument: what is *)
(* kept of the two, and the node the next argument starts with, if any.    *)
ArgMain(p, node, arg) ==
  LET Go(q, n, kept, more) == [p |-> q, node |-> n, out |-> kept, more |-> more]
  IN  CASE Is(node, {","}) ->
             With(Advance(p), LAMBDA next :
               IF Is(next.node, {")"})
               THEN Go(Fail(next.p, "UnexpectedTokens"), next.node, <<arg>>, FALSE)
               ELSE Go(next.p, next.node, <<arg, Leaf(node)>>, next.node # Nothing))
        [] node = Nothing \/ Is(node, InsideParens) -> Go(p, node, <<arg>>, FALSE)
        [] OTHER -> Go(Fail(p, "MissingToken"), node, <<arg>>, TRUE)

(* parse_table_datatype_args.  Without a first argument the node the parse *)
(* stopped at is lost: (None, None) is what it returns at the end of a     *)
(* file.                                                                   *)
TableArgs(p, node, args) ==
  With(Datatype(p, node, InsideParens), LAMBDA arg :
    IF arg.out = <<>> /\ args = <<>> THEN Result(arg.p, Nothing, <<>>)
    ELSE With(IF arg.node = Exists THEN Advance(arg.p) ELSE [p |-> arg.p, node |-> arg.node],
              LAMBDA behind :
      IF arg.out = <<>> THEN Result(behind.p, behind.node, args)
      ELSE With(ArgMain(behind.p, behind.node, arg.out[1]), LAMBDA main :
        IF main.more THEN TableArgs(main.p, main.node, args \o main.out)
        ELSE Result(main.p, main.node, args \o main.out))))

(* The arguments in parentheses, of a table, an annotation or a macro call *)
(* (parse_macro_call_args): Exists when they were closed.                  *)
Parens(p, open) ==
  LET Delimited(parts) == <<Tree("Delimited", <<Leaf(open)>> \o parts)>>
  IN  With(Advance(p), LAMBDA next :
        CASE next.node = Nothing -> Result(Fail(next.p, "MissingToken"), Nothing, Delimited(<<>>))
          [] Is(next.node, {")"}) -> Result(next.p, Exists, Delimited(<<Leaf(next.node)>>))
          [] OTHER ->
               With(TableArgs(next.p, next.node, <<>>), LAMBDA args :
                 IF Is(args.node, {")"})
                 THEN Result(args.p, Exists, Delimited(args.out \o <<Leaf(args.node)>>))
                 ELSE Result(Fail(args.p, "MissingToken"), args.node, Delimited(args.out))))

(* A macro call, up to its arguments, and what is made of them if they     *)
(* were closed.                                                            *)
CallWithArgs(p, name, Closed(_)) ==
  With(AdvanceUntil(p, {"("}, ConstructDelimiters), LAMBDA open :
    IF ~open.ok THEN Result(open.p, open.node, <<Tree("MacroCall", <<Leaf(name)>>)>>)
    ELSE With(Parens(open.p, open.node), LAMBDA args :
      LET call == [args EXCEPT !.out = <<Tree("MacroCall", <<Leaf(name)>> \o @)>>]
      IN  IF args.node = Exists THEN Closed(call) ELSE call))

(* parse_macro_call_body, which takes a semicolon as its own terminator.   *)
MacroCallBody(p, name) ==
  CallWithArgs(p, name, LAMBDA call :
    With(AdvanceUntil(call.p, {";", "{", ","}, MacroCallDelimiters), LAMBDA end :
      IF ~Is(end.node, {";"}) THEN Result(end.p, end.node, call.out)
      ELSE With(Advance(end.p), LAMBDA next :
             Result(next.p, next.node,
                    <<Tree("MacroCall", Append(call.out[1].parts, Leaf(end.node)))>>))))

(* parse_macro_call_in_selector, which takes no terminator.                *)
MacroCallInSelector(p, name) ==
  CallWithArgs(p, name, LAMBDA call :
    With(Advance(call.p), LAMBDA next : Result(next.p, next.node, call.out)))
=============================================================================
