--------------------------- MODULE ValueCompiler ---------------------------
(***************************************************************************)
(* The compiler on assignments, priorities and tweens: what is stored at   *)
(* the nodes of the tree, and the static tokens found by going up from a   *)
(* node to its parents.                                                    *)
(*                                                                         *)
(* The tree itself, with the lists of child rules and the macros, is       *)
(* Compiler's.  Here a node is what is stored at it and its parent; the    *)
(* first one is the root, which has no parent and stores only tokens.      *)
(***************************************************************************)
EXTENDS Evaluation, FileWalk

VARIABLES
  cursor,  \* where the walk is
  nodes,   \* the root and the nodes
  current, \* current_idx
  stored,  \* what each assignment and tween stored, by its place
  aborted  \* the evaluation has panicked

compileVars == <<cursor, nodes, current, stored, aborted>>

Root == 1
NoNode == 0
Nothing == [name \in {} |-> None]

TreeNode(parent) ==
  [parent |-> parent, properties |-> Nothing, attributes |-> Nothing, statics |-> Nothing,
   tweens |-> Nothing, priority |-> <<>>]

(* resolve_static_attribute: the nearest node up the tree that has it.     *)
ResolveStaticAttribute(name, node) ==
  LET found[n \in DOMAIN nodes] ==
        IF name \in DOMAIN nodes[n].statics THEN nodes[n].statics[name]
        ELSE IF n = Root THEN None ELSE found[nodes[n].parent]
  IN  found[node]

(* CompilerLookup, for the tokens of c: a dynamic token is its name, for   *)
(* the style sheet.                                                        *)
CompilerLookup(c) ==
  [static  |-> [name \in TokensIn(c, "StaticToken") |-> ResolveStaticAttribute(name, current)],
   dynamic |-> [name \in TokensIn(c, "Token") |-> String("$" \o name)]]

(* A value is stored over the one of the same name; without a value what   *)
(* is there stays.                                                         *)
Store(part, name, value) ==
  /\ nodes' = IF value = <<>> THEN nodes ELSE [nodes EXCEPT ![current][part] = Inserted(@, name, value[1])]
  /\ stored' = IF value = <<>> THEN stored ELSE Inserted(stored, cursor, value[1])

-----------------------------------------------------------------------------
CompileInit ==
  /\ cursor = Beginning
  /\ nodes = <<TreeNode(NoNode)>>
  /\ current = Root
  /\ stored = Nothing
  /\ aborted = FALSE

CompileAssignment ==
  /\ At(cursor, "Assignment")
  /\ LET left == ConstructAt(cursor).left
         right == ConstructAt(cursor).right
         value == Then(right, LAMBDA c : EvaluateConstruct(c, left.name, CompilerLookup(c)))
         variant == Then(value, LAMBDA d : ToVariant(d, left.name))
     IN  IF left.kind = "Property" /\ current = Root THEN UNCHANGED <<nodes, stored, aborted>>
         ELSE /\ aborted' = (value = <<Panic>>)
              /\ CASE left.kind = "Property" -> Store("properties", left.name, variant)
                   [] left.kind = "Token" -> Store("attributes", left.name, variant)
                   [] IsStatic(left) ->
                        Store("statics", left.name, Then(value, LAMBDA d : CoerceToStatic(d, left.name)))
  /\ cursor' = Behind(cursor)
  /\ UNCHANGED current

CompilePriority ==
  /\ At(cursor, "Priority")
  /\ LET value == Then(ConstructAt(cursor).body, LAMBDA c : EvaluateConstruct(c, NoKey, CompilerLookup(c)))
     IN  IF current = Root THEN UNCHANGED <<nodes, stored, aborted>>
         ELSE /\ aborted' = (value = <<Panic>>)
              /\ IF value # <<>> /\ value[1].type = "Float64"
                 THEN /\ nodes' = [nodes EXCEPT ![current].priority = <<Truncated(value[1].n)>>]
                      /\ stored' = Inserted(stored, cursor, value[1])
                 ELSE UNCHANGED <<nodes, stored>>
  /\ cursor' = Behind(cursor)
  /\ UNCHANGED current

(* The typechecker evaluates every tween, and panics first if one does.    *)
CompileTween ==
  /\ At(cursor, "Tween")
  /\ LET tween == ConstructAt(cursor)
     IN  IF current = Root \/ tween.name = <<>> THEN UNCHANGED <<nodes, stored>>
         ELSE Store("tweens", tween.name[1], Then(tween.body, LAMBDA c : TweenInfoOf(c, CompilerLookup(c))))
  /\ cursor' = Behind(cursor)
  /\ UNCHANGED <<current, aborted>>

(* compile_rule: a node below the current one, and its body within it.     *)
EnterCompiledRule ==
  /\ At(cursor, "Rule")
  /\ nodes' = Append(nodes, TreeNode(current))
  /\ current' = Len(nodes) + 1
  /\ cursor' = IntoBody(cursor)
  /\ UNCHANGED <<stored, aborted>>

(* The end of compile_rule: the index saved is the one of the node around. *)
LeaveCompiledRule ==
  /\ Len(cursor) > 1 /\ BodyOver(cursor)
  /\ current' = nodes[current].parent
  /\ cursor' = OutOfBody(cursor)
  /\ UNCHANGED <<nodes, stored, aborted>>

CompileNext ==
  /\ ~aborted
  /\ CompileAssignment \/ CompilePriority \/ CompileTween \/ EnterCompiledRule \/ LeaveCompiledRule
=============================================================================
