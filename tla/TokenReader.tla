---------------------------- MODULE TokenReader ----------------------------
(***************************************************************************)
(* How the parser takes tokens from the lexer: past comments and           *)
(* directives, past tokens the lexer could not read, and, where only some  *)
(* tokens are welcome, past everything up to one of them or up to a token  *)
(* that starts or ends a construct.                                        *)
(*                                                                         *)
(* One lexeme stands for each kind of token, and a token is named by its   *)
(* place in the file.  The parser's own state is a record:                 *)
(*   at       the place the lexer has come to                              *)
(*   pending  a node read ahead (pending_node)                             *)
(*   past     no directive may follow (directives_phase_done)              *)
(*   moved    did_advance                                                  *)
(*   errors   the kinds of error reported, without their places            *)
(***************************************************************************)
EXTENDS Integers, Sequences, FiniteSetsExt

VARIABLE file                         (* the lexemes of the file            *)

Directives == {"--!strict", "--!nonstrict", "--!nobuiltins", "--!other", "--!"}
Trivia == Directives \cup {"--", "--[["}      (* "--[[" is never closed     *)
Identifiers == {"name", "Construct", "Datatype", "Selector"}
ConstructDelimiters == {")", "}", ";", "@derive", "@macro", "@priority", "@tween"}
MacroCallDelimiters == ConstructDelimiters \cup {"{"}
InsideParens == {")"}

Nothing == 0                          (* Option::None                       *)

(* After trailing trivia a node of kind None stands behind the last token. *)
Word(node) == IF node > Len(file) THEN "None" ELSE file[node]
Is(node, words) == node # Nothing /\ Word(node) \in words

Fail(p, error) == [p EXCEPT !.errors = @ \cup {error}]

(* The rest of a parse, for the result of a part of it, which is computed  *)
(* once.                                                                   *)
With(value, Rest(_)) == CHOOSE r \in {Rest(v) : v \in {value}} : TRUE

(* The node next_node finds behind the trivia at the lexer's place.        *)
Following(p) ==
  LET tokens == {i \in p.at .. Len(file) : file[i] \notin Trivia}
  IN  IF tokens # {} THEN Min(tokens)
      ELSE IF p.at <= Len(file) THEN Len(file) + 1 ELSE Nothing

(* What passing over trivia reports.                                       *)
TriviaErrors(p, trivia) ==
  {e \in {"MissingToken", "DirectiveNotAtTop"} :
     \/ e = "MissingToken" /\ "--[[" \in trivia
     \/ e = "DirectiveNotAtTop" /\ p.past /\ trivia \cap Directives # {}}

(* Mistake: a node that was read ahead is handed out again.                *)
NextNodeAgain(reader) ==
  With(reader, LAMBDA p :
    With(IF p.pending # Nothing THEN p.pending ELSE Following(p), LAMBDA node :
      [p |-> [p EXCEPT !.at = IF node = Nothing THEN @ ELSE node + 1, !.pending = node],
       node |-> node]))

(* next_node.                                                              *)
NextNode(reader) ==
  With(reader, LAMBDA p :
    IF p.pending # Nothing
    THEN [p |-> [p EXCEPT !.pending = Nothing], node |-> p.pending]
    ELSE With(Following(p), LAMBDA node :
           [p |-> [p EXCEPT !.at = IF node = Nothing THEN @ ELSE node + 1,
                            !.errors = @ \cup TriviaErrors(p, {file[i] : i \in p.at .. (node - 1)})],
            node |-> node]))

RECURSIVE PassErrors(_)
PassErrors(p) ==
  With(NextNode(p), LAMBDA next :
    IF Is(next.node, {"Error"}) THEN PassErrors(next.p) ELSE next)

(* advance_without_flags: past tokens that are no tokens, reported as one. *)
AdvanceWithoutFlags(p) ==
  With(NextNode(p), LAMBDA next :
    IF ~Is(next.node, {"Error"}) THEN next
    ELSE With(PassErrors(next.p), LAMBDA past :
           [p |-> Fail(past.p, "UnexpectedTokens"), node |-> past.node]))

Advance(p) == AdvanceWithoutFlags([p EXCEPT !.moved = TRUE])

(* What the searches below come to: ok, if the node is welcome; otherwise  *)
(* a delimiter, or the end of the file.                                    *)
Found(p, node, allowed) == [p |-> p, node |-> node, ok |-> Is(node, allowed)]

(* advance_until_core_loop, once a token has been passed over.             *)
RECURSIVE PassOver(_, _, _)
PassOver(p, allowed, delimiters) ==
  With(NextNode(p), LAMBDA next :
    IF next.node = Nothing \/ Is(next.node, allowed \cup delimiters)
    THEN Found(Fail(next.p, "UnexpectedTokens"), next.node, allowed)
    ELSE PassOver(next.p, allowed, delimiters))

(* node_is_kind_else_advance_until, and its optional form.                 *)
NodeElseAdvanceUntil(p, node, allowed, delimiters) ==
  IF Is(node, allowed) THEN Found(p, node, allowed)
  ELSE IF node = Nothing \/ Is(node, delimiters)
  THEN Found(Fail(p, "MissingToken"), node, allowed)
  ELSE PassOver(p, allowed, delimiters)

(* advance_until.                                                          *)
AdvanceUntil(p, allowed, delimiters) ==
  With(NextNode([p EXCEPT !.moved = TRUE]), LAMBDA next :
    NodeElseAdvanceUntil(next.p, next.node, allowed, delimiters))
=============================================================================
