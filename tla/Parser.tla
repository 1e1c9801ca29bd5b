------------------------------- MODULE Parser -------------------------------
(***************************************************************************)
(* RsmlParser::new: the directives at the head of the file, and the loops  *)
(* that parse the constructs of the file and of each body in braces.       *)
(*                                                                         *)
(* A turn of a loop hands its node to the parsers of the constructs one    *)
(* after another, in a fixed order; one that takes the node leaves the     *)
(* next node to those behind it.  A turn in which nothing advanced skips   *)
(* the node.  One step is one construct parsed, up to the brace that opens *)
(* its body, or the end of a turn, a body or the file.                     *)
(***************************************************************************)
EXTENDS DatatypeParser

CONSTANT
  Files        (* the files considered: their lexemes, and in meant the     *)
               (* set of trees they were written from, none or one          *)

VARIABLES
  meant,       (* the trees the file was written from                       *)
  phase,       (* directives, parse, done                                   *)
  p,           (* the reader                                                *)
  node,        (* the node the parsers are handed                           *)
  bodies,      (* the file and the bodies open in it, innermost last        *)
  directives   (* nobuiltins, and the language mode                         *)

vars == <<file, meant, phase, p, node, bodies, directives>>

-----------------------------------------------------------------------------
(* The parsers of constructs.  A parse results in the reader's state, the  *)
(* next node and at most one construct, or in a body it enters.            *)
Parsed(q, n, out) == [p |-> q, node |-> n, out |-> out, enter |-> <<>>]
Enter(q, n, kind, head) ==
  [p |-> q, node |-> n, out |-> <<>>, enter |-> <<[kind |-> kind, head |-> head]>>]

(* Mistake: a construct without its semicolon is not reported.             *)
TerminateLoosely(value, kind, parts) ==
  With(IF value.node = Exists THEN Advance(value.p) ELSE [p |-> value.p, node |-> value.node],
       LAMBDA end :
         IF Is(end.node, {";"})
         THEN With(Advance(end.p), LAMBDA next :
                Parsed(next.p, next.node, <<Tree(kind, Append(parts, Leaf(end.node)))>>))
         ELSE Parsed(end.p, end.node, <<Tree(kind, parts)>>))

(* The end of a construct that has a value and a semicolon.                *)
Terminate(value, kind, parts) ==
  With(IF value.node = Exists THEN AdvanceUntil(value.p, {";"}, ConstructDelimiters)
       ELSE IF Is(value.node, {";"}) THEN Found(value.p, value.node, {";"})
       ELSE Found(Fail(value.p, "MissingToken"), value.node, {";"}),
       LAMBDA end :
         IF ~end.ok THEN Parsed(end.p, end.node, <<Tree(kind, parts)>>)
         ELSE With(Advance(end.p), LAMBDA next :
                Parsed(next.p, next.node, <<Tree(kind, Append(parts, Leaf(end.node)))>>)))

(* A value, and what it is the value of.                                   *)
Value(q, Of(_)) ==
  With(Advance(q), LAMBDA first :
    With(Datatype(first.p, first.node, ConstructDelimiters), Of))

(* parse_declaration_with_datatype, of @derive and @priority.              *)
Declaration(q, n, kind) ==
  Value(q, LAMBDA value : Terminate(value, kind, <<Leaf(n)>> \o value.out))

(* parse_tween.                                                            *)
Tween(q, n) ==
  With(AdvanceUntil(q, Identifiers, ConstructDelimiters), LAMBDA name :
    IF ~name.ok THEN Parsed(name.p, name.node, <<Tree("Tween", <<Leaf(n)>>)>>)
    ELSE Value(name.p, LAMBDA value :
           Terminate(value, "Tween", Leaves(<<n, name.node>>) \o value.out)))

(* parse_assignment, of tokens.                                            *)
TokenAssignment(q, n) ==
  With(AdvanceUntil(q, {"="}, ConstructDelimiters), LAMBDA equals :
    IF ~equals.ok THEN Parsed(equals.p, equals.node, <<>>)
    ELSE Value(equals.p, LAMBDA value :
           Terminate(value, "Assignment", Leaves(<<n, equals.node>>) \o value.out)))

(* The right side of a property; the terminator of a call is the           *)
(* assignment's.                                                           *)
EndsWith(c, word) == Last(c.parts).kind = "Node" /\ Is(Last(c.parts).at, {word})

PropertyAssignment(q, n, equals) ==
  Value(q, LAMBDA value :
    LET left == Leaves(<<n, equals>>)
        call == value.out[1].parts
    IN  IF value.out # <<>> /\ value.out[1].kind = "MacroCall" /\ EndsWith(value.out[1], ";")
        THEN Parsed(value.p, value.node,
                    <<Tree("Assignment", left \o <<Tree("MacroCall", Front(call)), Last(call)>>)>>)
        ELSE Terminate(value, "Assignment", left \o value.out))

(* parse_rule_scope_body and parse_macro_body_construct, from the brace    *)
(* that opens the body to its first construct.                             *)
Body(q, kind, parts, open) ==
  LET head == Append(parts, Leaf(open))
  IN  With(Advance(q), LAMBDA first :
        CASE first.node = Nothing ->
               Parsed(Fail(first.p, "MissingToken"), Nothing, <<Tree(kind, head)>>)
          [] Is(first.node, {"}"}) ->
               With(Advance(first.p), LAMBDA next :
                 Parsed(next.p, next.node, <<Tree(kind, Append(head, Leaf(first.node)))>>))
          [] OTHER -> Enter(first.p, first.node, kind, head))

-----------------------------------------------------------------------------
(* Selector lists.                                                         *)
Hierarchy == {">", ">>"}
SelectorParts ==
  Identifiers \cup Hierarchy \cup {"#name", ".name", ":name", "::name", "@name", "name!"}

(* handle_hierarchy_selector_without_part, and a comma before a brace.     *)
PartErrors(last, word, comma) ==
  {e \in {"MissingToken", "UnexpectedTokens"} :
     \/ e = "MissingToken" /\ last \in Hierarchy /\ word \in Hierarchy \cup {",", "{", "}"}
     \/ e = "UnexpectedTokens" /\ word \in {"{", "}"} /\ last = "," /\ ~comma}

(* parse_selector_tokens: the selectors up to a brace.  A comma is allowed *)
(* unless one came last; what follows a macro call is taken as it is.      *)
RECURSIVE SelectorTokens(_, _, _, _)
SelectorTokens(q, last, selectors, comma) ==
  LET Allowed == SelectorParts \cup {"{", "}"} \cup (IF comma THEN {","} ELSE {})
      More(list) ==
        SelectorTokens(list.p, Word(list.node), Append(list.out, Leaf(list.node)),
                       ~(comma /\ Is(list.node, {","})))
  IN  With(AdvanceUntil(q, Allowed, ConstructDelimiters), LAMBDA part :
        IF ~part.ok THEN Result(part.p, part.node, selectors)
        ELSE With([part.p EXCEPT !.errors = @ \cup PartErrors(last, Word(part.node), comma)],
                  LAMBDA checked :
          With(IF Is(part.node, {"name!"})
               THEN With(MacroCallInSelector(checked, part.node), LAMBDA call :
                      [call EXCEPT !.out = selectors \o @])
               ELSE Result(checked, part.node, selectors),
               LAMBDA list :
                 IF list.node = Nothing \/ Is(list.node, {"{", "}"}) THEN list ELSE More(list))))

(* What follows the selectors of a rule.                                   *)
RuleAfter(list) ==
  IF Is(list.node, {"{"}) THEN Body(list.p, "Rule", list.out, list.node)
  ELSE Parsed(list.p, list.node, <<Tree("Rule", list.out)>>)

(* parse_rule_scope_selector.                                              *)
Rule(q, last, selectors, comma) == With(SelectorTokens(q, Word(last), selectors, comma), RuleAfter)

(* A rule whose first or second selector is a macro call.                  *)
RuleAfterCall(call, selectors, comma) ==
  IF call.node = Nothing \/ Is(call.node, {"{"}) THEN RuleAfter(Result(call.p, call.node, selectors))
  ELSE Rule(call.p, call.node, Append(selectors, Leaf(call.node)), comma)

(* parse_property_assignment_or_rule_scope.                                *)
PropertyOrRule(q, n) ==
  With(AdvanceUntil(q, (SelectorParts \ {"@name"}) \cup {"=", "{", ","}, ConstructDelimiters),
       LAMBDA middle :
    LET word == Word(middle.node)
    IN  IF ~middle.ok THEN Parsed(middle.p, middle.node, <<>>)
        ELSE CASE word = "=" -> PropertyAssignment(middle.p, n, middle.node)
               [] word = "{" -> Body(middle.p, "Rule", <<Leaf(n)>>, middle.node)
               [] word = "name!" ->
                    With(MacroCallInSelector(middle.p, middle.node), LAMBDA call :
                      RuleAfterCall(call, <<Leaf(n)>> \o call.out, TRUE))
               [] OTHER -> Rule(middle.p, middle.node, Leaves(<<n, middle.node>>), word # ","))

(* parse_rule_scope_selector_begin.                                        *)
SelectorBegin(q, n) ==
  IF Is(n, {"{"}) THEN Body(q, "Rule", <<>>, n) ELSE Rule(q, n, <<Leaf(n)>>, TRUE)

(* Mistake: a call that becomes a selector is forgotten.                   *)
MacroCallForgotten(q, n) ==
  With(MacroCallBody(q, n), LAMBDA call :
    IF Is(call.node, {"{", ","}) THEN RuleAfterCall(call, <<>>, FALSE)
    ELSE Parsed(call.p, call.node, call.out))

(* parse_macro_call: with a brace or a comma behind it, the call begins    *)
(* the selectors of a rule, and its terminator, if it has one, is lost.    *)
MacroCall(q, n) ==
  With(MacroCallBody(q, n), LAMBDA call :
    LET selector == SelectSeq(call.out[1].parts, LAMBDA c : c.kind = "Delimited" \/ c.at = n)
    IN  IF Is(call.node, {"{", ","})
        THEN RuleAfterCall(call, <<Tree("MacroCall", selector)>>, FALSE)
        ELSE Parsed(call.p, call.node, call.out))

-----------------------------------------------------------------------------
(* Macro definitions.                                                      *)

(* parse_macro_args, from the opening parenthesis: the arguments in out,   *)
(* and ok when they were closed.                                           *)
RECURSIVE MacroArgs(_, _)
MacroArgs(q, args) ==
  LET last == IF args = <<>> THEN "(" ELSE Word(Last(args).at)
      allowed == {"&name", ")"} \cup (IF last = "," THEN {} ELSE {","})
  IN  With(AdvanceUntil(q, allowed, InsideParens), LAMBDA arg :
        LET kept == IF arg.ok THEN Append(args, Leaf(arg.node)) ELSE args
            doubled == last = "&name" /\ Is(arg.node, {"&name"})
        IN  IF ~arg.ok \/ Is(arg.node, {")"})
            THEN [p |-> arg.p, node |-> arg.node, out |-> kept, ok |-> arg.ok]
            ELSE MacroArgs(IF doubled THEN Fail(arg.p, "MissingToken") ELSE arg.p, kept))

(* A body that holds one value: parse_macro_body_datatype.                 *)
DatatypeBody(q, parts, open) ==
  LET Macro(tail) == <<Tree("Macro", parts \o <<Leaf(open)>> \o tail)>>
  IN  With(Advance(q), LAMBDA first :
        IF first.node = Nothing
        THEN Parsed(Fail(first.p, "MissingToken"), Nothing, Macro(<<>>))
        ELSE With(IF Is(first.node, {"}"}) THEN Result(first.p, first.node, <<>>)
                  ELSE Datatype(first.p, first.node, ConstructDelimiters), LAMBDA value :
          With(IF value.node = Exists THEN AdvanceUntil(value.p, {"}"}, ConstructDelimiters)
               ELSE Found(value.p, value.node, {"}"}), LAMBDA close :
            IF ~close.ok /\ close.node # Nothing THEN Parsed(close.p, close.node, Macro(value.out))
            ELSE With(Advance(IF close.ok THEN close.p ELSE Fail(close.p, "MissingToken")), LAMBDA next :
                   Parsed(next.p, next.node,
                          Macro(value.out \o (IF close.ok THEN <<Leaf(close.node)>> ELSE <<>>)))))))

(* The selectors of such a body, from the first node in it.                *)
SelectorsOfBody(part) ==
  IF ~part.ok \/ Is(part.node, {"}"}) THEN Result(part.p, part.node, <<>>)
  ELSE IF ~Is(part.node, {"name!"})
  THEN SelectorTokens(part.p, Word(part.node), <<Leaf(part.node)>>, TRUE)
  ELSE With(MacroCallInSelector(part.p, part.node), LAMBDA call :
         IF call.node = Nothing \/ Is(call.node, {"{", "}"}) THEN call
         ELSE SelectorTokens(call.p, Word(call.node), Append(call.out, Leaf(call.node)),
                             ~Is(call.node, {","})))

(* A body that holds selectors: parse_macro_body_selector.  A delimiter in *)
(* place of the first one is passed over.                                  *)
SelectorBody(q, parts, open) ==
  LET Macro(tail) == <<Tree("Macro", parts \o <<Leaf(open)>> \o tail)>>
  IN  With(Advance(q), LAMBDA first :
        IF first.node = Nothing
        THEN Parsed(Fail(first.p, "MissingToken"), Nothing, Macro(<<>>))
        ELSE With(NodeElseAdvanceUntil(first.p, first.node, SelectorParts \cup {"}"}, ConstructDelimiters),
                  LAMBDA part :
          With(SelectorsOfBody(part), LAMBDA list :
            LET closed == Is(list.node, {"}"})
            IN  With(Advance(IF closed THEN list.p ELSE Fail(list.p, "MissingToken")), LAMBDA next :
                  Parsed(next.p, next.node,
                         Macro(list.out \o (IF closed THEN <<Leaf(list.node)>> ELSE <<>>)))))))

(* parse_macro_body, by the return type.                                   *)
MacroBody(q, returns, parts, open) ==
  CASE returns = "Datatype" -> DatatypeBody(q, parts, open)
    [] returns = "Selector" -> SelectorBody(q, parts, open)
    [] OTHER -> Body(q, "Macro", parts, open)

(* What follows "->": parse_macro_return_type and the body.  A delimiter   *)
(* in place of the type is lost.                                           *)
ReturnType(q, parts, arrow) ==
  With(AdvanceUntil(q, Identifiers, ConstructDelimiters), LAMBDA type :
    LET known == type.ok /\ Word(type.node) # "name"
        typed == parts \o Leaves(IF type.ok THEN <<arrow, type.node>> ELSE <<arrow>>)
    IN  With(AdvanceUntil(IF type.ok /\ ~known THEN Fail(type.p, "UnexpectedTokens") ELSE type.p,
                          {"{"}, ConstructDelimiters), LAMBDA open :
          IF open.ok
          THEN MacroBody(open.p, IF known THEN Word(type.node) ELSE "Construct", typed, open.node)
          ELSE Parsed(open.p, open.node, <<Tree("Macro", typed)>>)))

BodyOrReturnType(q, parts, found) ==
  IF Is(found, {"->"}) THEN ReturnType(q, parts, found) ELSE Body(q, "Macro", parts, found)

(* What follows the parenthesis that opens the arguments of a macro.       *)
ArgsAndBody(q, parts, open) ==
  With(MacroArgs(q, <<>>), LAMBDA args :
    LET withArgs == Append(parts, Tree("Delimited", <<Leaf(open)>> \o args.out))
    IN  IF ~args.ok THEN Parsed(args.p, args.node, <<Tree("Macro", withArgs)>>)
        ELSE With(AdvanceUntil(args.p, {"{", "->"}, ConstructDelimiters), LAMBDA behind :
               IF behind.ok THEN BodyOrReturnType(behind.p, withArgs, behind.node)
               ELSE Parsed(behind.p, behind.node, <<Tree("Macro", withArgs)>>)))

(* parse_macro and parse_macro_body_open.                                  *)
Macro(q, n) ==
  With(AdvanceUntil(q, Identifiers, ConstructDelimiters), LAMBDA name :
    IF ~name.ok
    THEN With(IF name.node # Nothing THEN [p |-> name.p, node |-> name.node] ELSE Advance(name.p),
              LAMBDA next : Parsed(next.p, next.node, <<Tree("Macro", <<Leaf(n)>>)>>))
    ELSE With(AdvanceUntil(name.p, {"{", "(", "->"}, ConstructDelimiters), LAMBDA middle :
      LET named == Leaves(<<n, name.node>>)
      IN  IF ~middle.ok THEN Parsed(middle.p, middle.node, <<Tree("Macro", named)>>)
          ELSE IF Is(middle.node, {"("}) THEN ArgsAndBody(middle.p, named, middle.node)
          ELSE BodyOrReturnType(middle.p, named, middle.node)))

-----------------------------------------------------------------------------
(* The file, and each body open in it: what was read of its construct, its *)
(* constructs so far, the parsers of this turn already passed (turn), and  *)
(* whether a node was skipped (error_span).  The did_advance from around a *)
(* body that parse_loop_inner puts back is overwritten by the advance that *)
(* follows each of its uses.                                               *)
NewBody(kind, head) ==
  [kind |-> kind, head |-> head, content |-> <<>>, turn |-> 0, skipped |-> FALSE]

Here == Last(bodies)
Inner == Len(bodies) > 1
WithHere(body) == Append(Front(bodies), body)
Parsing == phase = "parse"

(* The parsers of a turn, in their order, each with the tokens it takes.   *)
Turn ==
  << {"@macro"}, {"name!"}, {"@derive"}, {"@priority"}, {"@tween"}, {"$!name"}, {"$name"},
     Identifiers, (SelectorParts \ (Identifiers \cup {"name!"})) \cup {"{"}, {"None"} >>
Takes(i) == Here.turn < i /\ Is(node, Turn[i])
Untaken == node # Nothing /\ \A i \in DOMAIN Turn : ~Takes(i)

Init ==
  /\ \E f \in Files : file = f.file /\ meant = f.meant
  /\ phase = "directives"
  /\ p = [at |-> 1, pending |-> Nothing, past |-> FALSE, moved |-> FALSE, errors |-> {}]
  /\ node = Nothing
  /\ bodies = <<NewBody("File", <<>>)>>
  /\ directives = [nobuiltins |-> FALSE, mode |-> "none"]

(* apply_directive: the last language mode counts.                         *)
Mode(trivia) ==
  LET modes == SelectSeq(trivia, LAMBDA t : t \in {"--!strict", "--!nonstrict"})
  IN  IF modes = <<>> THEN "none" ELSE Last(modes)

DirectiveErrors(trivia) ==
  {e \in {"EmptyDirective", "UnknownDirective"} :
     \/ e = "EmptyDirective" /\ Contains(trivia, "--!")
     \/ e = "UnknownDirective" /\ Contains(trivia, "--!other")}

(* parse_directives: the trivia before the first node, which is kept for   *)
(* parse_loop to begin with.                                               *)
ParseDirectives ==
  /\ phase = "directives"
  /\ LET next == NextNode(p)
         trivia == SubSeq(file, 1, next.node - 1)
         first == AdvanceWithoutFlags(
                    [next.p EXCEPT !.pending = next.node, !.past = TRUE,
                                   !.errors = @ \cup DirectiveErrors(trivia)])
     IN  /\ directives' = [nobuiltins |-> Contains(trivia, "--!nobuiltins"), mode |-> Mode(trivia)]
         /\ p' = first.p
         /\ node' = first.node
  /\ phase' = "parse"
  /\ UNCHANGED <<file, meant, bodies>>

(* The parser at place i of the turn takes the node: its construct is kept *)
(* (handle_construct), or the body it enters becomes the innermost, whose  *)
(* loop begins with did_advance unset.                                     *)
Take(i, Parser(_, _)) ==
  /\ Parsing
  /\ Takes(i)
  /\ \E parsed \in {Parser(p, node)} :
       /\ node' = parsed.node
       /\ LET here == [Here EXCEPT !.turn = i, !.content = @ \o parsed.out]
          IN  IF parsed.enter = <<>>
              THEN p' = parsed.p /\ bodies' = WithHere(here)
              ELSE LET body == parsed.enter[1]
                   IN  /\ p' = [parsed.p EXCEPT !.moved = FALSE]
                       /\ bodies' = Append(WithHere(here), NewBody(body.kind, body.head))
  /\ UNCHANGED <<file, meant, phase, directives>>

ParseMacro == Take(1, Macro)
ParseMacroCall == Take(2, MacroCall)
ParseDerive == Take(3, LAMBDA q, n : Declaration(q, n, "Derive"))
ParsePriority == Take(4, LAMBDA q, n : Declaration(q, n, "Priority"))
ParseTween == Take(5, Tween)
ParseStaticTokenAssignment == Take(6, TokenAssignment)
ParseTokenAssignment == Take(7, TokenAssignment)
ParsePropertyOrRule == Take(8, PropertyOrRule)
ParseSelectorBegin == Take(9, SelectorBegin)
ParseNone ==
  Take(10, LAMBDA q, n : With(Advance(q), LAMBDA next : Parsed(next.p, next.node, <<Leaf(n)>>)))

(* Mistake: a turn that skips a node does not read the next one.           *)
EndTurnInPlace ==
  /\ Parsing
  /\ Untaken
  /\ ~(Inner /\ Is(node, {"}"}))
  /\ p' = [(IF Here.skipped THEN Fail(p, "UnexpectedTokens") ELSE p) EXCEPT !.moved = FALSE]
  /\ bodies' = WithHere([Here EXCEPT !.turn = 0, !.skipped = ~p.moved])
  /\ UNCHANGED <<node, file, meant, phase, directives>>

(* A turn after which the loop goes on: with the node it came to, if       *)
(* something advanced; a node that was skipped earlier is reported, once   *)
(* more after every turn.  Otherwise the node is skipped.                  *)
EndTurn ==
  /\ Parsing
  /\ Untaken
  /\ ~(Inner /\ Is(node, {"}"}))
  /\ LET next == AdvanceWithoutFlags(p)
         reported == Fail(next.p, "UnexpectedTokens")
     IN  IF p.moved
         THEN /\ p' = [(IF Here.skipped THEN Fail(p, "UnexpectedTokens") ELSE p)
                       EXCEPT !.moved = FALSE]
              /\ bodies' = WithHere([Here EXCEPT !.turn = 0])
              /\ UNCHANGED node
         ELSE /\ p' = IF next.node = Nothing THEN reported ELSE next.p
              /\ node' = next.node
              /\ bodies' = WithHere([Here EXCEPT !.turn = 0, !.skipped = TRUE])
  /\ UNCHANGED <<file, meant, phase, directives>>

(* The innermost body becomes a construct of the one around it, which goes *)
(* on with the parsers behind the one that entered the body.               *)
Leave(close) ==
  LET outer == bodies[Len(bodies) - 1]
      construct == Tree(Here.kind, Here.head \o Here.content \o close)
  IN  Append(SubSeq(bodies, 1, Len(bodies) - 2),
             [outer EXCEPT !.content = Append(@, construct)])

(* ParseEndedReason::Manual, at the brace that closes the body.            *)
CloseBody ==
  /\ Parsing
  /\ Inner
  /\ Is(node, {"}"})
  /\ LET next == Advance(IF Here.skipped THEN Fail(p, "UnexpectedTokens") ELSE p)
     IN  p' = next.p /\ node' = next.node
  /\ bodies' = Leave(<<Leaf(node)>>)
  /\ UNCHANGED <<file, meant, phase, directives>>

(* ParseEndedReason::Eof: a parser of the body has come to the end.        *)
EndBody ==
  /\ Parsing
  /\ Inner
  /\ node = Nothing
  /\ LET next == Advance(Fail(p, "MissingToken"))
     IN  p' = next.p /\ node' = next.node
  /\ bodies' = Leave(<<>>)
  /\ UNCHANGED <<file, meant, phase, directives>>

EndFile ==
  /\ Parsing
  /\ ~Inner
  /\ node = Nothing
  /\ p' = IF Here.skipped THEN Fail(p, "UnexpectedTokens") ELSE p
  /\ phase' = "done"
  /\ UNCHANGED <<file, meant, node, bodies, directives>>

Done == phase = "done"
Terminated == Done /\ UNCHANGED vars

Parse ==
  \/ ParseDirectives
  \/ ParseMacro \/ ParseMacroCall \/ ParseDerive \/ ParsePriority \/ ParseTween
  \/ ParseStaticTokenAssignment \/ ParseTokenAssignment
  \/ ParsePropertyOrRule \/ ParseSelectorBegin \/ ParseNone
  \/ EndTurn \/ CloseBody \/ EndBody \/ EndFile

Next == Parse \/ Terminated

Spec == Init /\ [][Next]_vars

-----------------------------------------------------------------------------
(* No error reported, and none waiting for the end of a turn.              *)
Silent == p.errors = {} /\ \A d \in DOMAIN bodies : ~bodies[d].skipped

(* The tokens in what was parsed so far, in the order of the tree.         *)
RECURSIVE TokensOf(_)
TokensOf(c) ==
  IF c.kind = "Node" THEN <<c.at>>
  ELSE FlattenSeq([i \in DOMAIN c.parts |-> TokensOf(c.parts[i])])

Kept ==
  FlattenSeq([d \in DOMAIN bodies |-> TokensOf(Tree("Body", bodies[d].head \o bodies[d].content))])
  \o (IF node = Nothing THEN <<>> ELSE <<node>>)

(* The shape of the state.  The tree never holds a token twice or out of   *)
(* its place, whatever the file.                                           *)
TypeOK ==
  /\ phase \in {"directives", "parse", "done"}
  /\ p.at \in 1 .. Len(file) + 2
  /\ p.pending = Nothing
  /\ p.errors \subseteq {"MissingToken", "UnexpectedTokens", "DirectiveNotAtTop",
                         "EmptyDirective", "UnknownDirective"}
  /\ \A d \in DOMAIN bodies : bodies[d].turn \in 0 .. Len(Turn)
  /\ LET kept == Kept IN \A i \in 2 .. Len(kept) : kept[i - 1] < kept[i]

(* The semicolon of a macro call that parse_macro_call takes for a selector*)
(* because of what follows.                                                *)
LostTerminators ==
  {i \in DOMAIN file :
     /\ file[i] = ";"
     /\ \E j \in (i + 1) .. Len(file) :
          file[j] \in {"{", ","} /\ \A k \in (i + 1) .. (j - 1) : file[k] \in Trivia}

(* Nothing the author wrote is lost without a word: as long as no error is *)
(* reported every token read is in the tree, and a parse that ends without *)
(* one has read the whole file.                                            *)
NothingLost ==
  Silent /\ phase # "directives" =>
    LET read == {i \in 1 .. Len(file) : i < p.at /\ file[i] \notin Trivia}
        kept == ToSet(Kept)
    IN  /\ read \ LostTerminators \subseteq kept
        /\ kept \subseteq read \cup {Len(file) + 1}
        /\ Done => p.at > Len(file)

(* The constructs in the braces of c; the body of a macro may hold a value *)
(* or selectors instead.                                                   *)
IsLeaf(c, word) == c.kind = "Node" /\ Is(c.at, {word})
Content(c) ==
  LET opens == {i \in DOMAIN c.parts : IsLeaf(c.parts[i], "{")}
      other == \E i \in 2 .. Len(c.parts) :
                 /\ IsLeaf(c.parts[i - 1], "->")
                 /\ IsLeaf(c.parts[i], "Datatype") \/ IsLeaf(c.parts[i], "Selector")
  IN  IF opens = {} \/ other THEN <<>>
      ELSE SelectSeq(SubSeq(c.parts, Min(opens) + 1, Len(c.parts)),
                     LAMBDA part : ~IsLeaf(part, "}"))

(* A construct with all its parts.  Only the last rule of a body or of the *)
(* file may lack its body: parse_selector_tokens takes the brace of the    *)
(* body around it for its end, and asks for nothing behind a macro call    *)
(* that ends the file.  And the value in the body of a macro may be        *)
(* followed by any construct in place of its brace.                        *)
MayLackBody(content, i, inner) ==
  /\ content[i].kind = "Rule"
  /\ i = Len(content)
  /\ inner \/ Last(content[i].parts).kind = "MacroCall"

MayLackBrace(c) ==
  c.kind = "Macro" /\ Last(c.parts).kind # "Node"
  /\ \E i \in 1 .. Len(c.parts) - 2 : IsLeaf(c.parts[i], "Datatype") /\ IsLeaf(c.parts[i + 1], "{")

RECURSIVE AllComplete(_, _)
AllComplete(content, inner) ==
  \A i \in DOMAIN content :
    LET c == content[i]
    IN  CASE c.kind \in {"Derive", "Priority"} -> Len(c.parts) = 3 /\ EndsWith(c, ";")
          [] c.kind \in {"Tween", "Assignment"} -> Len(c.parts) = 4 /\ EndsWith(c, ";")
          [] c.kind = "MacroCall" -> Len(c.parts) = 3 /\ EndsWith(c, ";")
          [] c.kind \in {"Rule", "Macro"} ->
               /\ EndsWith(c, "}") \/ MayLackBody(content, i, inner) \/ MayLackBrace(c)
               /\ AllComplete(Content(c), TRUE)
          [] OTHER -> c.kind = "Node" /\ Is(c.at, {"None"})

(* A parse that ends without an error has complete constructs only: what   *)
(* the compiler gets is what the author finished writing.                  *)
SilentComplete == Done /\ Silent => AllComplete(Here.content, FALSE)

(* The constructs with the lexemes of their leaves.                        *)
RECURSIVE Shape(_)
Shape(c) ==
  [kind |-> c.kind,
   word |-> IF c.kind = "Node" THEN Word(c.at) ELSE "",
   parts |-> [i \in DOMAIN c.parts |-> Shape(c.parts[i])]]

(* A file written from a tree is read as that tree, without an error.      *)
ReadAsMeant ==
  Done /\ meant # {} =>
    Silent /\ meant = {[i \in DOMAIN Here.content |-> Shape(Here.content[i])]}

(* The parse comes to an end on every file, well formed or not: with every *)
(* step the reader moves on, or the loops reach a later node or the end,   *)
(* or a body at the end is left, or a turn that advanced is over.          *)
Place == IF node = Nothing THEN Len(file) + 2 ELSE node
Progress ==
  [][\/ phase' # phase
     \/ p'.at > p.at
     \/ /\ p'.at = p.at
        /\ \/ Place' > Place
           \/ Place' = Place /\ Len(bodies') < Len(bodies)
           \/ Place' = Place /\ bodies' = WithHere([Here EXCEPT !.turn = 0])
              /\ p.moved /\ ~p'.moved]_vars

(* parse_macro_call_args: no node means "on success or EOF".  So a parse   *)
(* that finds no node, and ends, has come to the end of the file.          *)
EndIsEof == Done => p.at > Len(file)
=============================================================================
