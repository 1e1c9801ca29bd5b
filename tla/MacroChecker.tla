---------------------------- MODULE MacroChecker ----------------------------
(***************************************************************************)
(* What Typechecker::new makes of macros: it walks the top-level           *)
(* constructs of a file in source order, registers the macros it meets,    *)
(* and validates every macro call and macro argument against the macros    *)
(* registered so far.  One step is one top-level construct with all that   *)
(* is nested in it.                                                        *)
(***************************************************************************)
EXTENDS Constructs

VARIABLES
  file,        (* the parsed file                                           *)
  at,          (* the next top-level construct                              *)
  known,       (* macro_registry: key -> body and return context            *)
  errors       (* the macro errors reported so far                          *)

vars == <<file, at, known, errors>>

(* return_context, of a local macro before a builtin.                      *)
ReturnContext(reg, key) ==
  IF key \in DOMAIN reg THEN reg[key].returns ELSE Builtins[key].body.kind

(* Mistake: an overload of the name is enough.                             *)
CallErrorsByName(reg, call, context) ==
  IF \E k \in DOMAIN reg \cup DOMAIN Builtins : k.name = call.key.name THEN {}
  ELSE {[kind |-> "UndefinedMacro", key |-> call.key]}

(* validate_macro_call and validate_selector_macro_call.  Builtins count   *)
(* whether or not the file has --!nobuiltins.                              *)
CallErrors(reg, call, context) ==
  LET key == CheckedKey(call)
      overloads == {k \in DOMAIN reg \cup DOMAIN Builtins : k.name = key.name}
      kind == CASE overloads = {} -> {"UndefinedMacro"}
                [] overloads # {} /\ key \notin overloads -> {"WrongMacroArgCount"}
                [] key \in overloads ->
                     IF ReturnContext(reg, key) = context THEN {} ELSE {"WrongMacroContext"}
  IN  {[kind |-> k, key |-> key] : k \in kind}

(* Mistake: arguments are not looked at.                                   *)
ArgumentsIgnored(expr, args) == {}

(* validate_macro_arg_refs: an argument must be one of the macro's, if     *)
(* there is one around it; those inside a call's parentheses are not       *)
(* looked at.                                                              *)
ArgumentErrors(expr, args) ==
  IF expr.kind = "argument" /\ expr.name \notin args
  THEN {[kind |-> "InvalidMacroArg", name |-> expr.name]}
  ELSE {}

(* The right-hand side of an assignment.                                   *)
ExprErrors(reg, expr, args) ==
  ArgumentErrors(expr, args)
    \cup (IF expr.kind = "call" THEN CallErrors(reg, expr, "datatype") ELSE {})

(* The calls of a selector list that TypecheckSelectors gets to: next      *)
(* validates the calls it passes over, but the walk ends at a place        *)
(* without a part of its own, which a call does not count as.  A part is a *)
(* class here; module SelectorChecker has the walk over the other parts.   *)
Reached(q) ==
  LET ends == {i \in DOMAIN q :
                 /\ q[i].kind = "comma"
                 /\ \A j \in 1 .. (i - 1) :
                      q[j].kind = "part" =>
                        \E k \in j .. (i - 1) : q[k].kind = "comma"}
  IN  {q[i] : i \in {n \in DOMAIN q : q[n].kind = "call" /\ \A e \in ends : n < e}}

SelectorErrors(reg, q) ==
  UNION {CallErrors(reg, s, "selector") : s \in Reached(q)}

(* typecheck_macro_body_content: a construct in a macro with the arguments *)
(* args.  The selectors of a rule are not looked at.                       *)
InsideErrors(reg, c, args) ==
  CASE c.kind = "set" /\ c.store = "tween" -> ArgumentErrors(c.right, args)
    [] c.kind = "set" /\ c.store \notin {"priority", "tween"} -> ExprErrors(reg, c.right, args)
    [] c.kind = "call" -> CallErrors(reg, c, "construct")
    [] c.kind = "macro" -> {[kind |-> "NotAllowedInContext", key |-> c.key]}
    [] OTHER -> {}

ContentErrors(reg, c, args) == UNION {InsideErrors(reg, i, args) : i \in Nested[c]}

(* typecheck_macro.                                                        *)
BodyErrors(reg, macro) ==
  CASE macro.body.kind = "construct" ->
         UNION {ContentErrors(reg, c, Range(macro.args)) : c \in Range(macro.body.content)}
    [] macro.body.kind = "datatype" -> ExprErrors(reg, macro.body.content, Range(macro.args))
    [] macro.body.kind = "selector" ->
         UNION {CallErrors(reg, s, "selector") : s \in {t \in Range(macro.body.content) : t.kind = "call"}}
    [] OTHER -> {}

(* typecheck_rule and Typechecker::new: a construct outside macros.        *)
(* Priorities are not looked at, nor are arguments in tweens.  A macro     *)
(* defined in a rule is checked but not registered.                        *)
OutsideErrors(reg, c) ==
  CASE c.kind = "rule" -> SelectorErrors(reg, c.selectors)
    [] c.kind = "set" /\ c.store \notin {"priority", "tween"} -> ExprErrors(reg, c.right, {})
    [] c.kind = "call" -> CallErrors(reg, c, "construct")
    [] c.kind = "macro" -> {[kind |-> "NotAllowedInContext", key |-> c.key]} \cup BodyErrors(reg, c.macro)
    [] OTHER -> {}

RuleErrors(reg, c) == UNION {OutsideErrors(reg, i) : i \in Nested[c]}

-----------------------------------------------------------------------------
Here == file.code[at]
AtConstruct == at <= Len(file.code)

Init ==
  /\ file \in Files
  /\ at = 1
  /\ known = <<>>
  /\ errors = {}

(* A key defined before, or a builtin's while builtins are on.             *)
Taken(key) == key \in DOMAIN known \/ (~file.nobuiltins /\ key \in DOMAIN Builtins)

(* The macro is registered before its body is checked, so that a call of   *)
(* itself is known.                                                        *)
RegisterMacro ==
  /\ AtConstruct
  /\ Here.kind = "macro"
  /\ ~Taken(Here.key)
  /\ known' = [k \in DOMAIN known \cup {Here.key} |->
                 IF k = Here.key THEN [body |-> Here.macro.body, returns |-> Here.returns]
                 ELSE known[k]]
  /\ errors' = errors \cup BodyErrors(known', Here.macro)
  /\ at' = at + 1
  /\ UNCHANGED file

(* Mistake: a definition of a key that is taken is dropped without a word. *)
DuplicateDropped ==
  /\ AtConstruct
  /\ Here.kind = "macro"
  /\ Taken(Here.key)
  /\ errors' = errors \cup BodyErrors(known, Here.macro)
  /\ at' = at + 1
  /\ UNCHANGED <<file, known>>

DuplicateMacro ==
  /\ AtConstruct
  /\ Here.kind = "macro"
  /\ Taken(Here.key)
  /\ errors' = errors \cup {[kind |-> "DuplicateMacro", key |-> Here.key]}
                      \cup BodyErrors(known, Here.macro)
  /\ at' = at + 1
  /\ UNCHANGED <<file, known>>

CheckConstruct ==
  /\ AtConstruct
  /\ Here.kind # "macro"
  /\ errors' = errors \cup RuleErrors(known, Here)
  /\ at' = at + 1
  /\ UNCHANGED <<file, known>>

Next == RegisterMacro \/ DuplicateMacro \/ CheckConstruct

Done == at > Len(file.code)

-----------------------------------------------------------------------------
(* The macros among the constructs passed.                                 *)
Passed == {i \in DOMAIN file.code : i < at /\ file.code[i].kind = "macro"}

(* Whatever is reported, what is known of a key is one of its definitions. *)
KnownFromFile ==
  \A k \in DOMAIN known : \E c \in Range(file.code) :
    /\ c.kind = "macro" /\ c.key = k
    /\ known[k].body = c.macro.body /\ known[k].returns = c.returns

(* Where nothing is reported and builtins are on, each macro passed is     *)
(* known as it was defined, once, and no builtin has its key.              *)
KnownAsDefined ==
  errors = {} /\ ~file.nobuiltins =>
    /\ DOMAIN known = {file.code[i].key : i \in Passed}
    /\ DOMAIN known \cap DOMAIN Builtins = {}
    /\ \A i \in Passed :
         /\ known[file.code[i].key].body = file.code[i].macro.body
         /\ known[file.code[i].key].returns = file.code[i].returns
         /\ \A j \in Passed : file.code[i].key = file.code[j].key => i = j

(* Then what has been passed is free of errors, judged by all the macros   *)
(* known now and not only by those known when it was checked.              *)
PassedIsClean ==
  errors = {} /\ ~file.nobuiltins =>
    \A i \in DOMAIN file.code : i < at =>
      IF file.code[i].kind = "macro" THEN BodyErrors(known, file.code[i].macro) = {}
      ELSE RuleErrors(known, file.code[i]) = {}

IInv ==
  /\ file \in Files
  /\ at \in Nat \ {0}
  /\ KnownFromFile
  /\ KnownAsDefined
  /\ PassedIsClean

-----------------------------------------------------------------------------
(* The calls the search for recursion gets for a body, in order:           *)
(* for_each_macro_call_in_body.                                            *)
SelectorCalls(q) ==
  FlattenSeq([i \in DOMAIN q |-> IF q[i].kind = "call" THEN <<CheckedKey(q[i])>> ELSE <<>>])

CallsGiven(c, inner) ==
  CASE c.kind = "call" -> <<CheckedKey(c)>>
    [] c.kind = "set" /\ c.store \notin {"priority", "tween"} /\ c.right.kind = "call" ->
         <<CheckedKey(c.right)>>
    [] c.kind = "rule" -> SelectorCalls(c.selectors) \o FlattenSeq(inner)
    [] OTHER -> <<>>

CallsIn[c \in Item] == CallsGiven(c, [i \in DOMAIN c.body |-> CallsIn[c.body[i]]])

BodyCalls(body) ==
  CASE body.kind = "construct" -> FlattenSeq([i \in DOMAIN body.content |-> CallsIn[body.content[i]]])
    [] body.kind = "datatype" /\ body.content.kind = "call" -> <<CheckedKey(body.content)>>
    [] body.kind = "selector" -> SelectorCalls(body.content)
    [] OTHER -> <<>>
=============================================================================
