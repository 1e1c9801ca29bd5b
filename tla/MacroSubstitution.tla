------------------------- MODULE MacroSubstitution -------------------------
(***************************************************************************)
(* What a file means: the body of a macro stands in place of its call,     *)
(* with the argument expressions of the call written in place of the       *)
(* argument names.  This is the reference the compiler is compared with.   *)
(* It follows the nesting of the text, it knows at every place which macro *)
(* bodies are around it, and it has no stacks, no scopes and no bindings.  *)
(***************************************************************************)
EXTENDS Compiler

(* The macro a key stands for in the file p: the last definition of it,    *)
(* unless that one has no body, and else the builtin.                      *)
MacroOf(p, key) ==
  LET own == {i \in DOMAIN p.macros : p.macros[i].key = key}
      last == p.macros[CHOOSE i \in own : \A j \in own : j <= i].macro
  IN  IF own # {} /\ last.body # NoBody THEN last
      ELSE IF ~p.nobuiltins /\ key \in DOMAIN Builtins THEN Builtins[key]
      ELSE NoMacro

-----------------------------------------------------------------------------
(* Selector lists.                                                         *)

(* A selector list, and the macros it stands in.                           *)
Selecting == [code : Seq(Selector), open : SUBSET Key]

(* The list with its calls replaced by the selectors of the macros.        *)
PlainSelectors(p) ==
  LET plain[v \in Selecting] ==
        IF v.code = <<>> THEN <<>>
        ELSE LET s == Head(v.code)
                 inside == [code |-> MacroOf(p, s.key).body.content, open |-> v.open \cup {s.key}]
                 here == IF s.kind # "call" THEN <<s>>
                         ELSE IF s.key \in v.open \/ MacroOf(p, s.key).body.kind # "selector" THEN <<>>
                         ELSE plain[inside]
             IN  here \o plain[[v EXCEPT !.code = Tail(@)]]
  IN  plain

WithoutLast(q) == SubSeq(q, 1, Len(q) - 1)
EndsInComma(q) == q # <<>> /\ q[Len(q)].kind = "comma"

(* A list without its empty places: of every comma it keeps only those     *)
(* that have a selector right before them.                                 *)
Places[q \in Seq(Selector)] ==
  IF q = <<>> THEN <<>>
  ELSE IF EndsInComma(q) /\ (WithoutLast(q) = <<>> \/ EndsInComma(WithoutLast(q))) THEN Places[WithoutLast(q)]
  ELSE Append(Places[WithoutLast(q)], q[Len(q)])

(* Nor is there a place after the last comma.                              *)
Normalised(q) == IF EndsInComma(Places[q]) THEN WithoutLast(Places[q]) ELSE Places[q]

-----------------------------------------------------------------------------
(* Constructs.                                                             *)

(* An expression with the arguments replaced by those of the call.         *)
Substitute(e, env) == IF e.kind = "argument" THEN env[e.name] ELSE e

(* What stands for the arguments in the body of a macro: an argument that  *)
(* the call does not give has no value.                                    *)
Environment(args, values, env) ==
  [n \in Name |->
     LET at == {i \in DOMAIN args \cap DOMAIN values : args[i] = n}
     IN  IF at = {} THEN NilExpr
         ELSE Substitute(values[CHOOSE i \in at : \A j \in at : j <= i], env)]

(* The value of an expression without arguments at the node n of a tree;   *)
(* a macro called for a value has none.                                    *)
StaticAt(tree, n, name) ==
  LET found[m \in DOMAIN tree] ==
        IF tree[m].data[<<"static", name>>] # Nil THEN tree[m].data[<<"static", name>>]
        ELSE IF m = Root THEN Nil
        ELSE found[tree[m].parent]
  IN  found[n]

ValueAt(tree, n, e) ==
  CASE e.kind = "literal" -> e.value
    [] e.kind = "static" -> StaticAt(tree, n, e.name)
    [] OTHER -> Nil

(* The tree with the assignment c made at its node n, of the value of e.   *)
Assigned(tree, n, c, e) ==
  LET value == ValueAt(tree, n, e)
      stored == Coerce[<<c.store, c.name, value>>]
      allowed == n = Root => c.store \in {"attribute", "static"}
  IN  IF allowed /\ value \in Value /\ stored # Nil
      THEN [tree EXCEPT ![n].data[<<c.store, c.name>>] = stored] ELSE tree

(* The tree with a new last child of its node n.                           *)
Grown(tree, n, selectors) ==
  Append([tree EXCEPT ![n].children = Append(@, Len(tree) + 1)], NewNode(n, selectors))

(* A body: constructs that go into a node of the tree that is built so     *)
(* far, what stands for the arguments in them, and the macros around.      *)
Work ==
  [code : Seq(Item), env : [Name -> Expr], open : SUBSET Key,
   tree : Seq(TreeNode), node : Nat \ {0}]

(* The tree after the first construct of a body, and after all of it.      *)
AfterFirst(p, after, w) ==
  LET c == Head(w.code)
      macro == MacroOf(p, c.key)
      selectors == Normalised(PlainSelectors(p)[[code |-> c.selectors, open |-> w.open]])
  IN  CASE c.kind = "set" -> Assigned(w.tree, w.node, c, Substitute(c.right, w.env))
        [] c.kind = "rule" ->
             after[[w EXCEPT !.code = c.body,
                             !.tree = Grown(w.tree, w.node, selectors),
                             !.node = Len(w.tree) + 1]]
        [] c.kind = "call" /\ c.key \notin w.open /\ macro.body.kind = "construct" ->
             after[[w EXCEPT !.code = macro.body.content,
                             !.env = Environment(macro.args, c.args, w.env),
                             !.open = w.open \cup {c.key}]]
        [] OTHER -> w.tree

Trees(p) ==
  LET after[w \in Work] ==
        IF w.code = <<>> THEN w.tree
        ELSE after[[w EXCEPT !.code = Tail(w.code), !.tree = AfterFirst(p, after, w)]]
  IN  after

WholeFile(p) ==
  [code |-> p.top, env |-> [n \in Name |-> NilExpr], open |-> {},
   tree |-> <<NewNode(Root, <<>>)>>, node |-> Root]

Meaning(p) == Trees(p)[WholeFile(p)]

(* The finished tree is the one the file means: scopes, bindings and the   *)
(* guard do together what substitution does.                               *)
CompilesToMeaning == Done => nodes = Meaning(program)

-----------------------------------------------------------------------------
(* Bodies are finite: what stands in a rule is nested less deep than it.   *)
Nesting(levels) ==
  /\ levels \in [Item -> Nat]
  /\ \A c \in Item : c.kind = "rule" => \A i \in DOMAIN c.body : levels[c.body[i]] < levels[c]
=============================================================================
