------------------------------ MODULE Compiler ------------------------------
(***************************************************************************)
(* RsmlCompiler: one pass over the constructs of a file that builds the    *)
(* tree of style rules, expanding macro calls where they stand.            *)
(*                                                                         *)
(* compile_construct, compile_rule, compile_macro_call and                 *)
(* expand_selectors_into call each other; here their activations are kept  *)
(* on explicit stacks.  A scope is one activation of compile_macro_call    *)
(* (the first one is RsmlCompiler::new itself), and the blocks of a scope  *)
(* are the macro's body and the rule bodies open inside it.  Positions     *)
(* count from 1; tree node 1 is the root, tree node n + 1 is nodes[n - 1]. *)
(***************************************************************************)
EXTENDS Naturals, Sequences

CONSTANTS
  Key,         (* MacroKeys: a macro's name with its number of arguments    *)
  NoKey,       (* stands where a scope or selector list has no macro        *)
  Name,        (* names of properties, tokens, tweens and macro arguments   *)
  Value,       (* evaluated datatypes other than Datatype::None             *)
  Nil,         (* Datatype::None, or no datatype at all                     *)
  Expr,        (* right-hand sides and call arguments                       *)
  Item,        (* the constructs of a body                                  *)
  Selector,    (* the nodes of a selector list                              *)
  Coerce,      (* Coerce[store, name, v]: what v is stored as under name    *)
  Builtins,    (* the registry of the embedded builtins.rsml                *)
  Programs     (* the files considered                                      *)

Store == {"property", "attribute", "static", "priority", "tween"}

(* A macro's parsed body: its arguments' names, in order, and its content. *)
NoBody == [kind |-> "none", content |-> <<>>]
Body ==      [kind : {"construct"}, content : Seq(Item)]
        \cup [kind : {"selector"}, content : Seq(Selector)]
        \cup [kind : {"datatype"}, content : Expr]
        \cup {NoBody}
Macro == [args : Seq(Name), body : Body]
NoMacro == [args |-> <<>>, body |-> NoBody]

NilExpr == [kind |-> "literal", value |-> Nil]

ASSUME KeyAssumption == NoKey \notin Key
ASSUME NilAssumption == Nil \notin Value /\ NilExpr \in Expr
ASSUME CoerceAssumption == Coerce \in [Store \X Name \X Value -> Value \cup {Nil}]
ASSUME ExprAssumption ==
  \A e \in Expr :
    \/ e.kind = "literal" /\ e.value \in Value \cup {Nil}
    \/ e.kind \in {"static", "argument"} /\ e.name \in Name
    \/ e.kind = "call" /\ e.key \in Key
ASSUME SelectorAssumption ==
  \A s \in Selector : s.kind \in {"part", "comma"} \/ (s.kind = "call" /\ s.key \in Key)
ASSUME ItemAssumption ==
  \A c \in Item :
    \/ c.kind = "rule" /\ c.selectors \in Seq(Selector) /\ c.body \in Seq(Item)
    \/ c.kind = "set" /\ c.store \in Store /\ c.name \in Name /\ c.right \in Expr
    \/ c.kind = "call" /\ c.key \in Key /\ c.args \in Seq(Expr)
    \/ c.kind \in {"macro", "inert"}
ASSUME BuiltinsAssumption ==
  DOMAIN Builtins \subseteq Key /\ \A k \in DOMAIN Builtins : Builtins[k] \in Macro
ASSUME ProgramsAssumption ==
  \A p \in Programs :
    /\ p.top \in Seq(Item)
    /\ p.macros \in Seq([key : Key, macro : Macro])
    /\ p.nobuiltins \in BOOLEAN

VARIABLES
  program,     (* the parsed file                                           *)
  nodes,       (* CompiledRsml: the root and the nodes of the tree          *)
  current,     (* current_idx: the tree node constructs are compiled into   *)
  bindings,    (* macro_ctx.bindings: one frame of bound arguments a scope  *)
  active,      (* macro_ctx.active_expansions                               *)
  scopes,      (* the activations of compile_macro_call                     *)
  lists,       (* the activations of expand_selectors_into                  *)
  out,         (* the selector nodes expanded so far                        *)
  comma        (* last_was_comma                                            *)

vars == <<program, nodes, current, bindings, active, scopes, lists, out, comma>>

Root == 1

(* An argument a frame does not bind, and a tree node with nothing in it.  *)
Unbound == [construct |-> NilExpr, scope |-> 0]
EmptyFrame == [n \in Name |-> Unbound]
NewNode(parent, selector) ==
  [parent |-> parent, children |-> <<>>, selector |-> selector,
   data |-> [x \in Store \X Name |-> Nil]]

-----------------------------------------------------------------------------
(* Looking a macro up.                                                     *)

(* collect_user_macros: a later definition of a key replaces an earlier.   *)
Local(key) ==
  LET defs == {i \in DOMAIN program.macros : program.macros[i].key = key}
  IN  IF defs = {} THEN NoMacro
      ELSE program.macros[CHOOSE i \in defs : \A j \in defs : j <= i].macro

(* A definition whose body is missing counts as none, so that the builtin  *)
(* of the same key shows through.                                          *)
Resolve(key) ==
  IF Local(key).body # NoBody THEN Local(key)
  ELSE IF ~program.nobuiltins /\ key \in DOMAIN Builtins THEN Builtins[key]
  ELSE NoMacro

-----------------------------------------------------------------------------
(* Evaluating an expression in a scope, at the current tree node.          *)

(* resolve_static_attribute: the nearest node up the tree that has it.     *)
ResolveStatic(name) ==
  LET found[n \in DOMAIN nodes] ==
        IF nodes[n].data[<<"static", name>>] # Nil THEN nodes[n].data[<<"static", name>>]
        ELSE IF n = Root THEN Nil
        ELSE found[nodes[n].parent]
  IN  found[current]

(* evaluate_construct over CompilerLookup: an argument is evaluated in the *)
(* scope it was bound in, but at the tree node of the place that uses it.  *)
(* value[d][e] is what e evaluates to in the scope d.                      *)
EvaluateIn(value, d, expr) ==
  CASE expr.kind = "literal" -> expr.value
    [] expr.kind = "static" -> ResolveStatic(expr.name)
    [] expr.kind = "argument" ->
         IF bindings[d][expr.name] = Unbound THEN Nil
         ELSE value[bindings[d][expr.name].scope][bindings[d][expr.name].construct]
    [] expr.kind = "call" -> Nil

Evaluate(expr) ==
  LET value[d \in DOMAIN bindings] == [e \in Expr |-> EvaluateIn(value, d, e)]
  IN  value[Len(bindings)][expr]

-----------------------------------------------------------------------------
(* The construct being compiled.                                           *)

Scope == scopes[Len(scopes)]
Block == Scope.blocks[Len(Scope.blocks)]
InBlock == lists = <<>> /\ Block.next <= Len(Block.code)
Current == Block.code[Block.next]

(* The stacks with the innermost block moved to its next construct.        *)
Advanced ==
  [scopes EXCEPT ![Len(scopes)].blocks[Len(Scope.blocks)].next = @ + 1]

Init ==
  /\ program \in Programs
  /\ nodes = <<NewNode(Root, <<>>)>>
  /\ current = Root
  /\ bindings = <<EmptyFrame>>
  /\ active = {}
  /\ scopes = <<[key |-> NoKey, blocks |-> <<[code |-> program.top, next |-> 1, saved |-> Root]>>]>>
  /\ lists = <<>>
  /\ out = <<>>
  /\ comma = TRUE

-----------------------------------------------------------------------------
(* Assignments, priorities and tweens.                                     *)

(* Properties, priorities and tweens belong to rules only, and a value     *)
(* that does not coerce to what the place holds is not assigned.           *)
Settable(c) ==
  /\ c.store \in {"property", "priority", "tween"} => current # Root
  /\ Evaluate(c.right) \in Value
  /\ Coerce[<<c.store, c.name, Evaluate(c.right)>>] # Nil

(* Mistake: the value lands in the rule around the current one.            *)
SetValueOutside ==
  /\ InBlock
  /\ Current.kind = "set"
  /\ Settable(Current)
  /\ nodes' = [nodes EXCEPT ![nodes[current].parent].data[<<Current.store, Current.name>>] =
                 Coerce[<<Current.store, Current.name, Evaluate(Current.right)>>]]
  /\ scopes' = Advanced
  /\ UNCHANGED <<program, current, bindings, active, lists, out, comma>>

(* HashMap::insert: the last assignment of a name wins.                    *)
SetValue ==
  /\ InBlock
  /\ Current.kind = "set"
  /\ Settable(Current)
  /\ nodes' = [nodes EXCEPT ![current].data[<<Current.store, Current.name>>] =
                 Coerce[<<Current.store, Current.name, Evaluate(Current.right)>>]]
  /\ scopes' = Advanced
  /\ UNCHANGED <<program, current, bindings, active, lists, out, comma>>

(* An assignment without effect, or a construct the compiler passes over.  *)
Ignore ==
  /\ InBlock
  /\ \/ Current.kind = "set" /\ ~Settable(Current)
     \/ Current.kind \in {"macro", "inert"}
  /\ scopes' = Advanced
  /\ UNCHANGED <<program, nodes, current, bindings, active, lists, out, comma>>

-----------------------------------------------------------------------------
(* Macro calls.                                                            *)

Expandable(key) == key \notin active /\ Resolve(key).body.kind = "construct"

(* Mistake: the argument is looked up in the frame of the macro called.    *)
FrameOfCallee(args, values) ==
  [n \in Name |->
     LET at == {i \in DOMAIN args \cap DOMAIN values : args[i] = n}
     IN  IF at = {} THEN Unbound
         ELSE [construct |-> values[CHOOSE i \in at : \A j \in at : j <= i],
               scope |-> Len(bindings) + 1]]

(* Mistake: an argument that is not bound keeps what it was for the caller. *)
FrameInherited(args, values) ==
  [n \in Name |->
     LET at == {i \in DOMAIN args \cap DOMAIN values : args[i] = n}
     IN  IF at = {} THEN bindings[Len(bindings)][n]
         ELSE [construct |-> values[CHOOSE i \in at : \A j \in at : j <= i],
               scope |-> Len(bindings)]]

(* The new frame: each argument with the scope of the caller.  A repeated  *)
(* argument name keeps the last binding.                                   *)
Frame(args, values) ==
  [n \in Name |->
     LET at == {i \in DOMAIN args \cap DOMAIN values : args[i] = n}
     IN  IF at = {} THEN Unbound
         ELSE [construct |-> values[CHOOSE i \in at : \A j \in at : j <= i],
               scope |-> Len(bindings)]]

ExpandCall ==
  /\ InBlock
  /\ Current.kind = "call"
  /\ Expandable(Current.key)
  /\ LET macro == Resolve(Current.key)
     IN  /\ bindings' = Append(bindings, Frame(macro.args, Current.args))
         /\ scopes' = Append(Advanced,
              [key |-> Current.key,
               blocks |-> <<[code |-> macro.body.content, next |-> 1, saved |-> current]>>])
  /\ active' = active \cup {Current.key}
  /\ UNCHANGED <<program, nodes, current, lists, out, comma>>

(* Mistake: the loop does not move past a call that expands to nothing.    *)
DropCallForever ==
  /\ InBlock
  /\ Current.kind = "call"
  /\ ~Expandable(Current.key)
  /\ UNCHANGED vars

(* A call inside its own expansion, of an unknown macro, or of a macro     *)
(* that does not return constructs, compiles to nothing.                   *)
DropCall ==
  /\ InBlock
  /\ Current.kind = "call"
  /\ ~Expandable(Current.key)
  /\ scopes' = Advanced
  /\ UNCHANGED <<program, nodes, current, bindings, active, lists, out, comma>>

(* Mistake: the frame of bindings is not popped.                           *)
EndCallKeepingFrame ==
  /\ lists = <<>>
  /\ Len(scopes) > 1
  /\ Len(Scope.blocks) = 1
  /\ Block.next > Len(Block.code)
  /\ active' = active \ {Scope.key}
  /\ scopes' = SubSeq(scopes, 1, Len(scopes) - 1)
  /\ UNCHANGED <<program, nodes, current, bindings, lists, out, comma>>

EndCall ==
  /\ lists = <<>>
  /\ Len(scopes) > 1
  /\ Len(Scope.blocks) = 1
  /\ Block.next > Len(Block.code)
  /\ active' = active \ {Scope.key}
  /\ bindings' = SubSeq(bindings, 1, Len(bindings) - 1)
  /\ scopes' = SubSeq(scopes, 1, Len(scopes) - 1)
  /\ UNCHANGED <<program, nodes, current, lists, out, comma>>

-----------------------------------------------------------------------------
(* Rules: first the selector list is expanded, then the node is added.     *)

List == lists[Len(lists)]
InList == lists # <<>> /\ List.next <= Len(List.code)
Node == List.code[List.next]
ListAdvanced == [lists EXCEPT ![Len(lists)].next = @ + 1]

BeginRule ==
  /\ InBlock
  /\ Current.kind = "rule"
  /\ lists' = <<[key |-> NoKey, code |-> Current.selectors, next |-> 1]>>
  /\ out' = <<>>
  /\ comma' = TRUE
  /\ UNCHANGED <<program, nodes, current, bindings, active, scopes>>

PushPart ==
  /\ InList
  /\ Node.kind = "part"
  /\ out' = Append(out, Node)
  /\ comma' = FALSE
  /\ lists' = ListAdvanced
  /\ UNCHANGED <<program, nodes, current, bindings, active, scopes>>

(* A comma at the start, or after another one, is dropped.                 *)
PushComma ==
  /\ InList
  /\ Node.kind = "comma"
  /\ out' = IF comma THEN out ELSE Append(out, Node)
  /\ comma' = TRUE
  /\ lists' = ListAdvanced
  /\ UNCHANGED <<program, nodes, current, bindings, active, scopes>>

SelectorExpandable(key) == key \notin active /\ Resolve(key).body.kind = "selector"

ExpandSelectorCall ==
  /\ InList
  /\ Node.kind = "call"
  /\ SelectorExpandable(Node.key)
  /\ active' = active \cup {Node.key}
  /\ lists' = Append(ListAdvanced,
                [key |-> Node.key, code |-> Resolve(Node.key).body.content, next |-> 1])
  /\ UNCHANGED <<program, nodes, current, bindings, scopes, out, comma>>

DropSelectorCall ==
  /\ InList
  /\ Node.kind = "call"
  /\ ~SelectorExpandable(Node.key)
  /\ lists' = ListAdvanced
  /\ UNCHANGED <<program, nodes, current, bindings, active, scopes, out, comma>>

(* Mistake: the guard stays set when the selectors are expanded.           *)
EndSelectorCallActive ==
  /\ Len(lists) > 1
  /\ List.next > Len(List.code)
  /\ lists' = SubSeq(lists, 1, Len(lists) - 1)
  /\ UNCHANGED <<program, nodes, current, bindings, active, scopes, out, comma>>

EndSelectorCall ==
  /\ Len(lists) > 1
  /\ List.next > Len(List.code)
  /\ active' = active \ {List.key}
  /\ lists' = SubSeq(lists, 1, Len(lists) - 1)
  /\ UNCHANGED <<program, nodes, current, bindings, scopes, out, comma>>

(* Mistake: the trailing comma stays.                                      *)
Untrimmed == out

(* expand_selector_macros pops one trailing comma.                         *)
Trimmed ==
  IF out # <<>> /\ out[Len(out)].kind = "comma" THEN SubSeq(out, 1, Len(out) - 1) ELSE out

(* Mistake: the index is taken without the root, which is not in the list. *)
AddRuleOffByOne ==
  /\ Len(lists) = 1
  /\ List.next > Len(List.code)
  /\ LET new == Len(nodes) + 1
     IN  /\ nodes' = Append([nodes EXCEPT ![current].children = Append(@, new - 1)],
                           NewNode(current, Trimmed))
         /\ scopes' = [Advanced EXCEPT ![Len(scopes)].blocks =
                         Append(@, [code |-> Current.body, next |-> 1, saved |-> current])]
         /\ current' = new
  /\ lists' = <<>>
  /\ UNCHANGED <<program, bindings, active, out, comma>>

(* The selectors are expanded: the node joins the tree as the last child   *)
(* of the current one, and its body is compiled into it.                   *)
AddRule ==
  /\ Len(lists) = 1
  /\ List.next > Len(List.code)
  /\ LET new == Len(nodes) + 1
     IN  /\ nodes' = Append([nodes EXCEPT ![current].children = Append(@, new)],
                           NewNode(current, Trimmed))
         /\ scopes' = [Advanced EXCEPT ![Len(scopes)].blocks =
                         Append(@, [code |-> Current.body, next |-> 1, saved |-> current])]
         /\ current' = new
  /\ lists' = <<>>
  /\ UNCHANGED <<program, bindings, active, out, comma>>

(* Mistake: the current node is not restored.                              *)
EndRuleInside ==
  /\ lists = <<>>
  /\ Len(Scope.blocks) > 1
  /\ Block.next > Len(Block.code)
  /\ scopes' = [scopes EXCEPT ![Len(scopes)].blocks = SubSeq(@, 1, Len(@) - 1)]
  /\ UNCHANGED <<program, nodes, current, bindings, active, lists, out, comma>>

(* Mistake: the body of a macro is ended as if it were a rule's.           *)
EndRuleOrBody ==
  /\ lists = <<>>
  /\ Block.next > Len(Block.code)
  /\ current' = Block.saved
  /\ scopes' = [scopes EXCEPT ![Len(scopes)].blocks = SubSeq(@, 1, Len(@) - 1)]
  /\ UNCHANGED <<program, nodes, bindings, active, lists, out, comma>>

EndRule ==
  /\ lists = <<>>
  /\ Len(Scope.blocks) > 1
  /\ Block.next > Len(Block.code)
  /\ current' = Block.saved
  /\ scopes' = [scopes EXCEPT ![Len(scopes)].blocks = SubSeq(@, 1, Len(@) - 1)]
  /\ UNCHANGED <<program, nodes, bindings, active, lists, out, comma>>

-----------------------------------------------------------------------------
Done ==
  /\ lists = <<>>
  /\ Len(scopes) = 1
  /\ Len(Scope.blocks) = 1
  /\ Block.next > Len(Block.code)

Terminated == Done /\ UNCHANGED vars

Next ==
  \/ SetValue
  \/ Ignore
  \/ ExpandCall
  \/ DropCall
  \/ EndCall
  \/ BeginRule
  \/ PushPart
  \/ PushComma
  \/ ExpandSelectorCall
  \/ DropSelectorCall
  \/ EndSelectorCall
  \/ AddRule
  \/ EndRule
  \/ Terminated

Spec == Init /\ [][Next]_vars

(* The compiler is a plain function call: it keeps running until it ends.  *)
FairSpec == Spec /\ WF_vars(Next)

-----------------------------------------------------------------------------
BoundArg == [construct : Expr, scope : Nat]
BlockType == [code : Seq(Item), next : Nat \ {0}, saved : Nat \ {0}]
ScopeType == [key : Key \cup {NoKey}, blocks : Seq(BlockType)]
ListType == [key : Key \cup {NoKey}, code : Seq(Selector), next : Nat \ {0}]
TreeNode ==
  [parent : Nat \ {0}, children : Seq(Nat \ {0}), selector : Seq(Selector),
   data : [Store \X Name -> Value \cup {Nil}]]

(* The shape of the compiler's state.                                      *)
TypeOK ==
  /\ program \in Programs
  /\ nodes \in Seq(TreeNode) /\ nodes # <<>>
  /\ current \in DOMAIN nodes
  /\ bindings \in Seq([Name -> BoundArg]) /\ bindings # <<>>
  /\ active \subseteq Key
  /\ scopes \in Seq(ScopeType) /\ scopes # <<>>
  /\ \A i \in DOMAIN scopes : scopes[i].blocks # <<>>
  /\ lists \in Seq(ListType)
  /\ lists # <<>> => Block.next <= Len(Block.code) /\ Current.kind = "rule"
  /\ out \in Seq(Selector)
  /\ comma \in BOOLEAN

(* An argument is bound one scope out from the scope that may use it, in a *)
(* frame that is still on the stack: a chain of arguments passed on from   *)
(* macro to macro always ends, and never sees a frame of another call.     *)
ArgumentsPointOutward ==
  /\ Len(bindings) = Len(scopes)
  /\ \A d \in DOMAIN bindings : \A n \in Name :
       bindings[d][n] # Unbound => bindings[d][n].scope \in DOMAIN bindings
                                   /\ bindings[d][n].scope = d - 1

(* The recursion guard holds exactly the macros whose expansion is under   *)
(* way, constructs and selectors together, and none of them twice.         *)
ActiveIsOpenExpansions ==
  /\ active = {scopes[i].key : i \in 2 .. Len(scopes)} \cup {lists[i].key : i \in 2 .. Len(lists)}
  /\ \A i, j \in 2 .. Len(scopes) : scopes[i].key = scopes[j].key => i = j
  /\ \A i, j \in 2 .. Len(lists) : lists[i].key = lists[j].key => i = j
  /\ \A i \in 2 .. Len(scopes), j \in 2 .. Len(lists) : scopes[i].key # lists[j].key

(* The nodes form one tree: a node comes after its parent, and is among    *)
(* the children of its parent, once, and of no other node.                 *)
TreeWellFormed ==
  /\ \A n \in DOMAIN nodes \ {Root} : nodes[n].parent \in 1 .. (n - 1)
  /\ \A p \in DOMAIN nodes : \A i \in DOMAIN nodes[p].children :
       /\ nodes[p].children[i] \in DOMAIN nodes \ {Root}
       /\ nodes[nodes[p].children[i]].parent = p
       /\ \A j \in 1 .. (i - 1) : nodes[p].children[j] < nodes[p].children[i]
  /\ \A n \in DOMAIN nodes \ {Root} :
       \E i \in DOMAIN nodes[nodes[n].parent].children : nodes[nodes[n].parent].children[i] = n

(* The tree node the constructs of a block are compiled into.              *)
Into(s, b) ==
  IF b < Len(scopes[s].blocks) THEN scopes[s].blocks[b + 1].saved
  ELSE IF s < Len(scopes) THEN scopes[s + 1].blocks[1].saved
  ELSE current

(* What a file or macro body holds is compiled into the node where it is   *)
(* expanded, and a rule's body into a child of the node around the rule.   *)
BlocksFollowTree ==
  \A s \in DOMAIN scopes : \A b \in DOMAIN scopes[s].blocks :
    LET at == scopes[s].blocks[b].saved
    IN  /\ at \in DOMAIN nodes
        /\ IF b = 1 THEN Into(s, b) = at
           ELSE Into(s, b) # Root /\ nodes[Into(s, b)].parent = at

(* A list of selectors without empty places between its commas.            *)
NoEmptyPlace(q) ==
  \A i \in DOMAIN q : q[i].kind = "comma" => i > 1 /\ q[i - 1].kind # "comma"

(* However macros contribute commas, no selector is followed by two of     *)
(* them, and no rule's selector list begins or ends with one.              *)
SelectorsNormal ==
  /\ NoEmptyPlace(out)
  /\ lists # <<>> => (comma <=> out = <<>> \/ out[Len(out)].kind = "comma")
  /\ \A n \in DOMAIN nodes :
       LET q == nodes[n].selector
       IN  NoEmptyPlace(q) /\ (q # <<>> => q[Len(q)].kind # "comma")

(* When the file is compiled every stack is unwound: the guard is empty,   *)
(* only the outermost frame of bindings is left, and the compiler is back  *)
(* at the root.                                                            *)
UnwindsCompletely ==
  Done => active = {} /\ bindings = <<EmptyFrame>> /\ current = Root

(* The conjunction of the above that every step preserves; the outermost   *)
(* block of all is the file's, compiled into the root.                     *)
IInv ==
  /\ TypeOK
  /\ ArgumentsPointOutward
  /\ ActiveIsOpenExpansions
  /\ TreeWellFormed
  /\ BlocksFollowTree
  /\ SelectorsNormal
  /\ scopes[1].blocks[1].saved = Root

(* Once a rule is in the tree its place and its selector are settled, and  *)
(* only the block that is being compiled changes its node: no assignment   *)
(* and no nested rule ever lands in another rule than the one it is in.    *)
OnlyCurrentChanges ==
  [][\A n \in DOMAIN nodes :
       /\ n \in DOMAIN nodes'
       /\ n # current => nodes'[n] = nodes[n]
       /\ nodes'[n].parent = nodes[n].parent
       /\ nodes'[n].selector = nodes[n].selector]_vars

(* Compilation ends for every file: recursion is cut by the guard.         *)
Termination == <>Done

-----------------------------------------------------------------------------
(* A file all of whose calls find their macros, told by the constructs of  *)
(* each macro, with all nested in them (ground[k] those of the macro k,    *)
(* ground[NoKey] those outside macros), and by a rank that falls from      *)
(* every macro to those it calls.                                          *)

Grounded(ground) ==
  /\ \A n \in DOMAIN program.top : program.top[n] \in ground[NoKey]
  /\ \A k \in Key : Resolve(k).body.kind = "construct" =>
       \A n \in DOMAIN Resolve(k).body.content : Resolve(k).body.content[n] \in ground[k]
  /\ \A k \in Key \cup {NoKey} : \A c \in ground[k] : c.kind = "rule" =>
       \A n \in DOMAIN c.body : c.body[n] \in ground[k]

CallsFound(ground, rank) ==
  /\ rank \in [Key -> Nat]
  /\ \A k \in Key \cup {NoKey} : \A c \in ground[k] : c.kind = "call" =>
       /\ Resolve(c.key).body.kind = "construct"
       /\ k # NoKey => rank[c.key] < rank[k]
  /\ \A k \in Key : Resolve(k).body.kind = "selector" =>
       \A n \in DOMAIN Resolve(k).body.content :
         LET s == Resolve(k).body.content[n]
         IN  s.kind = "call" => Resolve(s.key).body.kind = "selector" /\ rank[s.key] < rank[k]

SelectorsFound(ground) ==
  \A k \in Key \cup {NoKey} : \A c \in ground[k] : c.kind = "rule" =>
    \A n \in DOMAIN c.selectors :
      c.selectors[n].kind = "call" => Resolve(c.selectors[n].key).body.kind = "selector"

(* The arguments of a macro, and that nothing in it mentions another one.  *)
Own(key) == IF key = NoKey THEN {} ELSE {Resolve(key).args[n] : n \in DOMAIN Resolve(key).args}

ArgumentsOwned(ground) ==
  \A k \in Key \cup {NoKey} : \A c \in ground[k] :
    /\ c.kind = "call" =>
         /\ Len(c.args) = Len(Resolve(c.key).args)
         /\ \A n \in DOMAIN c.args : c.args[n].kind = "argument" => c.args[n].name \in Own(k)
    /\ c.kind = "set" /\ c.store # "priority" /\ c.right.kind = "argument" =>
         c.right.name \in Own(k)

(* What then holds of the stacks: every block holds constructs of the      *)
(* macro it stands in, which the macro around it calls, and ranks fall.    *)
ExpansionsStand(ground, rank) ==
  /\ scopes[1].key = NoKey
  /\ \A i \in DOMAIN scopes : \A b \in DOMAIN scopes[i].blocks :
       \A n \in DOMAIN scopes[i].blocks[b].code : scopes[i].blocks[b].code[n] \in ground[scopes[i].key]
  /\ \A i \in 2 .. Len(scopes) :
       /\ scopes[i].key \in Key
       /\ Resolve(scopes[i].key).body.kind = "construct"
       /\ \E c \in ground[scopes[i - 1].key] : c.kind = "call" /\ c.key = scopes[i].key
  /\ \A i, j \in 2 .. Len(scopes) : i < j => rank[scopes[j].key] < rank[scopes[i].key]

ListsStand(rank) ==
  /\ lists # <<>> => lists[1].code = Current.selectors
  /\ \A i \in 2 .. Len(lists) :
       /\ lists[i].key \in Key
       /\ Resolve(lists[i].key).body.kind = "selector"
       /\ lists[i].code = Resolve(lists[i].key).body.content
  /\ \A i, j \in 2 .. Len(lists) : i < j => rank[lists[j].key] < rank[lists[i].key]

(* Every argument of a macro under expansion is bound, to an expression    *)
(* whose own argument, if it is one, is bound where the call stands.       *)
ArgumentBound(expr, d) == expr.kind = "argument" => bindings[d][expr.name] # Unbound

ArgumentsStand ==
  /\ \A i \in 2 .. Len(scopes) : \A n \in Own(scopes[i].key) : bindings[i][n] # Unbound
  /\ \A d \in DOMAIN bindings : \A n \in Name :
       bindings[d][n] # Unbound => ArgumentBound(bindings[d][n].construct, bindings[d][n].scope)
=============================================================================
