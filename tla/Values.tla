------------------------------- MODULE Values -------------------------------
(***************************************************************************)
(* A file through the typechecker and, once it is checked, through the     *)
(* compiler: what is said of its values and what becomes of them.          *)
(***************************************************************************)
EXTENDS ValueChecker, ValueCompiler

CONSTANTS
  Files,     (* the files: the mode and the constructs                      *)
  TokenNames (* the names of static tokens                                  *)

VARIABLE phase

vars == <<code, checkVars, compileVars, phase>>

Init ==
  /\ \E file \in Files : strict = file.strict /\ code = file.code
  /\ CheckInit
  /\ CompileInit
  /\ phase = "check"

Check ==
  /\ phase = "check"
  /\ CheckNext
  /\ UNCHANGED <<code, compileVars, phase>>

Checked ==
  /\ phase = "check" /\ ~panicked /\ WalkOver(place)
  /\ phase' = "compile"
  /\ UNCHANGED <<code, checkVars, compileVars>>

Compile ==
  /\ phase = "compile"
  /\ CompileNext
  /\ UNCHANGED <<code, checkVars, phase>>

Compiled ==
  /\ phase = "compile" /\ ~aborted /\ WalkOver(cursor)
  /\ phase' = "done"
  /\ UNCHANGED <<code, checkVars, compileVars>>

Terminated ==
  /\ phase = "done" \/ panicked \/ aborted
  /\ UNCHANGED vars

Next == Check \/ Checked \/ Compile \/ Compiled \/ Terminated

Spec == Init /\ [][Next]_vars

-----------------------------------------------------------------------------
(* What the properties speak of.                                           *)

Silent == errors = {}
Done == phase = "done"

(* The value assigned at a place.                                          *)
RightOf(at) == ConstructAt(at).right[1]

Assigned(kind) == {at \in DOMAIN resolved : ConstructAt(at).left.kind = kind}

(* The classes of the nearest rule around that has selectors.              *)
ClassesAt(at) ==
  LET RuleAround(n) == ConstructAt(SubSeq(at, 1, n))
      selecting == {n \in 1 .. Len(at) - 1 : RuleAround(n).selects # <<>>}
  IN  IF selecting = {} THEN <<>> ELSE RuleAround(Max(selecting)).selects[1]

(* Static tokens whose values the compiler has too: what is assigned to    *)
(* them has a value, other than a shorthand, and is made of such tokens    *)
(* and of none of the style sheet ($name), for which the typechecker has   *)
(* no value.  A shorthand the typechecker keeps as one, and the compiler   *)
(* gives it the enum of the token's name; nothing at all hides the token   *)
(* of a rule around from the typechecker, and not from the compiler.       *)
MadeOf(c, names) == TokensIn(c, "Token") = {} /\ TokensIn(c, "StaticToken") \subseteq names

Settled(names) ==
  \A at \in DOMAIN resolved : IsStatic(ConstructAt(at).left) /\ ConstructAt(at).left.name \in names =>
    MadeOf(RightOf(at), names) /\ resolved[at].type \notin {"None", "IncompleteEnumShorthand"}

(* What the typechecker resolves an assignment to is what the compiler     *)
(* stores for it, though the one keeps a stack of scopes and the other     *)
(* goes up from node to parent.  Left out are what the typechecker has no  *)
(* value for, shorthands, and what is made of tokens that are not Settled. *)
(* No property belongs outside of a rule.                                  *)
ResolvedIsCompiled ==
  Done => \A names \in SUBSET TokenNames : Settled(names) =>
    \A at \in DOMAIN resolved :
      /\ MadeOf(RightOf(at), names)
      /\ resolved[at].type \notin {"None", "IncompleteEnumShorthand"}
      /\ ConstructAt(at).left.kind = "Property" => Len(at) > 1
      => at \in DOMAIN stored /\ stored[at] = resolved[at]

(* What is stored for a property has the type that the property has for    *)
(* the classes of the rule; in strict mode every one of them has it.       *)
Fits(at) ==
  LET ofClasses == ClassesAt(at)
      found == [i \in DOMAIN ofClasses |-> LookupProperty(ofClasses[i], ConstructAt(at).left.name)]
      having == {i \in DOMAIN found : found[i] # <<>>}
  IN  DOMAIN found # {} =>
        /\ having # {} /\ (strict => having = DOMAIN found)
        /\ VariantMatches(found[Min(having)][1], stored[at])

(* Where nothing is reported, what is stored for a property fits it, as    *)
(* long as it is made of tokens that are Settled.  It is a Variant by its  *)
(* type in the code.                                                       *)
SilentPropertiesFit ==
  Done /\ Silent => \A names \in SUBSET TokenNames : Settled(names) =>
    \A at \in Assigned("Property") \cap DOMAIN stored :
      MadeOf(RightOf(at), names) /\ IsVariant(stored[at]) => Fits(at)
=============================================================================
