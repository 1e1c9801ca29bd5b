------------------------------ MODULE Pipeline ------------------------------
(***************************************************************************)
(* A file on its way through the library: the typechecker validates its    *)
(* macro calls (MacroChecker), searches the registered macros for          *)
(* recursion (MacroCycles), and the compiler expands the same file         *)
(* (Compiler).  The two halves are separate entry points, Typechecker::new *)
(* and RsmlCompiler::new, that share nothing but the parsed file; a tool   *)
(* runs the first to tell the author what is wrong before the second.      *)
(* What is checked here is what the first one's silence promises about the *)
(* second.                                                                 *)
(***************************************************************************)
EXTENDS Constructs, TLC

CONSTANTS
  NoKey, Name, Value, Nil, Expr, Coerce, NoBodyCalls

VARIABLES
  phase,                                             (* check, search, compile *)
  file, at, known, errors,                           (* MacroChecker           *)
  graph, roots, color, frames, reports, finished,    (* MacroCycles            *)
  program, nodes, current, bindings, active, scopes, lists, out, comma  (* Compiler *)

checkVars == <<file, at, known, errors>>
searchVars == <<graph, roots, color, frames, reports, finished>>
compileVars == <<program, nodes, current, bindings, active, scopes, lists, out, comma>>
vars == <<phase, checkVars, searchVars, compileVars>>

(* The file as the compiler takes it: collect_user_macros gathers the      *)
(* macros first, and compile_construct passes over their definitions.      *)
Where(q, S) == FlattenSeq([i \in DOMAIN q |-> IF q[i] \in S THEN <<q[i]>> ELSE <<>>])
MacrosOf(f) == {c \in Range(f.code) : c.kind = "macro"}
Compiled(f) ==
  [top |-> Where(f.code, Range(f.code) \ MacrosOf(f)),
   macros |-> LET defs == Where(f.code, MacrosOf(f))
              IN  [i \in DOMAIN defs |-> [key |-> defs[i].key, macro |-> defs[i].macro]],
   nobuiltins |-> f.nobuiltins]

Programs == {Compiled(f) : f \in Files}

(* The three parts, with what is proved of each.                           *)
Check == INSTANCE MacroCheckerProofs
Search == INSTANCE MacroCyclesProofs
            WITH registry <- graph, CallLists <- Seq(Key), NoBody <- NoBodyCalls
Compile == INSTANCE CompilerProofs

(* The constructs of a sequence with all that is nested in them.           *)
NestedIn(q) == UNION {Nested[c] : c \in Range(q)}

(* What the parser returns: constructs, and at the top definitions of      *)
(* macros too, whose bodies are parsed as their return type says.          *)
Definition ==
  [kind : {"macro"}, key : Key, macro : Compile!Macro, returns : {"construct", "selector", "datatype"}]
ASSUME FilesAssumption ==
  \A f \in Files :
    /\ f.nobuiltins \in BOOLEAN
    /\ f.code \in Seq(Item \cup Definition)
    /\ \A c \in MacrosOf(f) :
         /\ c \in Definition
         /\ Len(c.macro.args) = c.key.arity
         /\ c.macro.body # Compile!NoBody => c.returns = c.macro.body.kind
ASSUME ArityAssumption == \A c \in Item : c.kind = "call" => Len(c.args) = c.key.arity

(* builtins.rsml: no macro there calls another, or mentions an argument    *)
(* that is not its own.                                                    *)
ASSUME BuiltinsFileAssumption ==
  \A k \in DOMAIN Builtins :
    /\ Len(Builtins[k].args) = k.arity
    /\ Builtins[k].body.kind = "selector" => \A s \in Range(Builtins[k].body.content) : s.kind # "call"
    /\ Builtins[k].body.kind = "construct" => \A c \in NestedIn(Builtins[k].body.content) :
         /\ c.kind # "call"
         /\ c.kind = "rule" => \A s \in Range(c.selectors) : s.kind # "call"
         /\ c.kind = "set" /\ c.right.kind = "argument" => c.right.name \in Range(Builtins[k].args)

(* What the search and the compiler assume of their constants.             *)
ASSUME PartsAssumption ==
  /\ Search!NoBodyAssumption
  /\ Compile!KeyAssumption /\ Compile!NilAssumption /\ Compile!CoerceAssumption
  /\ Compile!ExprAssumption /\ Compile!SelectorAssumption /\ Compile!ItemAssumption
  /\ Compile!BuiltinsAssumption

(* The calls of each registered macro, for the search.                     *)
CallGraph ==
  [k \in DOMAIN known |->
     IF known[k].body = Compile!NoBody THEN NoBodyCalls ELSE Check!BodyCalls(known[k].body)]

Init ==
  /\ phase = "check"
  /\ Check!Init
  /\ graph = <<>> /\ roots = {} /\ color = <<>>
  /\ frames = <<>> /\ reports = <<>> /\ finished = <<>>
  /\ program = Compiled(file)
  /\ Compile!Init

CheckStep ==
  /\ phase = "check"
  /\ Check!Next
  /\ UNCHANGED <<phase, searchVars, compileVars>>

BeginSearch ==
  /\ phase = "check"
  /\ Check!Done
  /\ phase' = "search"
  /\ graph' = CallGraph
  /\ roots' = DOMAIN known
  /\ color' = [k \in Key |-> "None"]
  /\ UNCHANGED <<checkVars, frames, reports, finished, compileVars>>

SearchStep ==
  /\ phase = "search"
  /\ ~Search!Done
  /\ Search!Next
  /\ UNCHANGED <<phase, checkVars, compileVars>>

BeginCompile ==
  /\ phase = "search"
  /\ Search!Done
  /\ phase' = "compile"
  /\ UNCHANGED <<checkVars, searchVars, compileVars>>

CompileStep ==
  /\ phase = "compile"
  /\ Compile!Next
  /\ UNCHANGED <<phase, checkVars, searchVars>>

Next == CheckStep \/ BeginSearch \/ SearchStep \/ BeginCompile \/ CompileStep

Spec == Init /\ [][Next]_vars

-----------------------------------------------------------------------------
(* No macro error, of either kind, was reported for the file.              *)
Silent == errors = {} /\ reports = <<>>

Compiling == phase = "compile"

Macros == MacrosOf(file)
Outside == NestedIn(program.top)
Inside(m) == IF m.macro.body.kind = "construct" THEN NestedIn(m.macro.body.content) ELSE {}
Everything == Outside \cup UNION {Inside(m) : m \in Macros}

CallsOf(c) ==
  CASE c.kind = "call" -> {c}
    [] c.kind = "rule" -> {s \in Range(c.selectors) : s.kind = "call"}
    [] OTHER -> {}
SelectorMacroCalls ==
  UNION {{s \in Range(m.macro.body.content) : s.kind = "call"} :
           m \in {n \in Macros : n.macro.body.kind = "selector"}}

(* A file the checker reads as the compiler does: builtins are on, no call *)
(* ends in a comma, and every macro parsed with a body (without one the    *)
(* parser has reported an error).                                          *)
Plain ==
  /\ ~file.nobuiltins
  /\ \A c \in Everything : \A call \in CallsOf(c) : ~call.trailing
  /\ \A call \in SelectorMacroCalls : ~call.trailing
  /\ \A m \in Macros : m.macro.body # Compile!NoBody

(* The selector calls the checker looks at are all there are.              *)
SelectorsReached ==
  /\ \A c \in Outside : c.kind = "rule" =>
       \A s \in Range(c.selectors) : s.kind = "call" => s \in Check!Reached(c.selectors)
  /\ \A m \in Macros : \A c \in Inside(m) : c.kind = "rule" =>
       \A s \in Range(c.selectors) : s.kind # "call"

(* A call hands on only arguments of the macro it stands in, and a tween   *)
(* outside macros mentions none.                                           *)
OwnArguments ==
  /\ \A c \in Outside : c.kind = "call" => \A e \in Range(c.args) : e.kind # "argument"
  /\ \A c \in Outside : c.kind = "set" /\ c.store = "tween" => c.right.kind # "argument"
  /\ \A m \in Macros : \A c \in Inside(m) : c.kind = "call" =>
       \A e \in Range(c.args) : e.kind = "argument" => e.name \in Range(m.macro.args)

(* Nothing the author wrote is dropped: in a file without macro errors     *)
(* every macro call that is compiled is expanded.  It finds a macro of     *)
(* constructs, the one the checker saw, and the recursion guard never      *)
(* stands in its way.                                                      *)
SilentCallsExpand ==
  Compiling /\ Silent /\ Plain =>
    (Compile!InBlock /\ Compile!Current.kind = "call" => Compile!Expandable(Compile!Current.key))

(* The same of macros in selectors, as far as the checker looks at them.   *)
SilentSelectorsExpand ==
  Compiling /\ Silent /\ Plain /\ SelectorsReached =>
    (Compile!InList /\ Compile!Node.kind = "call" => Compile!SelectorExpandable(Compile!Node.key))

(* Every argument an assignment mentions has been bound, all the way out   *)
(* to the call that gave it a value.                                       *)
SilentArgumentsBound ==
  Compiling /\ Silent /\ Plain /\ OwnArguments =>
    /\ Compile!InBlock /\ Compile!Current.kind = "set" /\ Compile!Current.store # "priority" =>
         Compile!ArgumentBound(Compile!Current.right, Len(bindings))
    /\ \A d \in DOMAIN bindings : \A n \in Name :
         bindings[d][n] # Compile!Unbound =>
           Compile!ArgumentBound(bindings[d][n].construct, bindings[d][n].scope)

(* The macros under expansion follow the calls the search has looked at:   *)
(* each one's body, as the search read it, holds the call of the next.     *)
SilentExpansionsFollowGraph ==
  Compiling /\ Silent /\ Plain =>
    \A i \in 2 .. (Len(scopes) - 1) :
      /\ scopes[i].key \in DOMAIN graph
      /\ \E n \in DOMAIN graph[scopes[i].key] : graph[scopes[i].key][n] = scopes[i + 1].key

(* CHANGELOG.md: an error is reported for every call of a macro that does  *)
(* not exist.  So a file without errors has no such call, in its bodies or *)
(* its selectors.                                                          *)
CallsExist ==
  Compiling /\ Silent =>
    \A call \in UNION {CallsOf(c) : c \in Outside} : Compile!Resolve(call.key) # Compile!NoMacro

-----------------------------------------------------------------------------
(* The inductive invariant behind the four properties.  In a file without  *)
(* errors the constructs of each macro, and the order in which the search  *)
(* finished the macros, are what Compiler asks of a file all of whose      *)
(* calls find their macros.                                                *)

Ground ==
  [k \in Key \cup {NoKey} |->
     IF k = NoKey THEN Outside
     ELSE IF Compile!Resolve(k).body.kind = "construct" THEN NestedIn(Compile!Resolve(k).body.content)
     ELSE {}]

Rank ==
  [k \in Key |->
     IF \E i \in DOMAIN finished : finished[i] = k
     THEN CHOOSE i \in DOMAIN finished : finished[i] = k
     ELSE 0]

IInv ==
  /\ phase \in {"check", "search", "compile"}
  /\ Check!IInv
  /\ program = Compiled(file)
  /\ Compile!IInv
  /\ phase # "compile" => Compile!Init
  /\ phase = "check" => frames = <<>> /\ reports = <<>> /\ finished = <<>>
  /\ phase # "check" => Check!Done /\ graph = CallGraph /\ Search!IInv
  /\ phase = "compile" => Search!Done
  /\ Compiling /\ Silent /\ Plain =>
       /\ Compile!ExpansionsStand(Ground, Rank)
       /\ Compile!ListsStand(Rank)
       /\ OwnArguments => Compile!ArgumentsStand

(* What a file without errors is, once it is compiled.                     *)
SilentFileSound ==
  Compiling /\ Silent /\ Plain =>
    /\ Compile!Grounded(Ground)
    /\ Compile!CallsFound(Ground, Rank)
    /\ SelectorsReached => Compile!SelectorsFound(Ground)
    /\ OwnArguments => Compile!ArgumentsOwned(Ground)
=============================================================================
