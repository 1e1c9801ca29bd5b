---------------------------- MODULE ValueChecker ----------------------------
(***************************************************************************)
(* The typechecker on assignments, priorities and tweens: the scopes of    *)
(* static tokens, what each assignment is resolved to, and the properties  *)
(* against the classes of the rule.                                        *)
(*                                                                         *)
(* Selectors, macros and derives have modules of their own: a rule comes   *)
(* with the classes its selectors select, if it has selectors, and no      *)
(* macro is called.  Each error is kept with the place it is reported at,  *)
(* and what is resolved for a token is kept by place, where the code keeps *)
(* only the last one of each name, for the language server.                *)
(***************************************************************************)
EXTENDS Evaluation, FileWalk

CONSTANTS
  Superclasses,(* the class and its ancestors, for each class               *)
  Properties   (* for each class the properties it declares: their type,    *)
               (* and whether they are an alias or out of reach of scripts  *)

VARIABLES
  strict,   \* language_mode
  place,    \* where the walk is
  scopes,   \* static_scopes: the values of the static tokens, by scope
  declared, \* declared_tokens: the tokens assigned to, by scope
  classes,  \* the current classes of each rule around
  errors,   \* what is reported, and where
  resolved, \* resolved_types: what each assignment is resolved to
  panicked  \* the evaluation has panicked

checkVars == <<strict, place, scopes, declared, classes, errors, resolved, panicked>>

NoValues == [name \in {} |-> None]

-----------------------------------------------------------------------------
(* Mistake: the outermost scope wins.                                      *)
ResolveStaticOutermost(name) ==
  LET holding == {i \in DOMAIN scopes : name \in DOMAIN scopes[i]}
  IN  IF holding = {} THEN None ELSE scopes[Min(holding)][name]

(* TypecheckerLookup: the innermost scope that has the name.               *)
ResolveStatic(name) ==
  LET holding == {i \in DOMAIN scopes : name \in DOMAIN scopes[i]}
  IN  IF holding = {} THEN None ELSE scopes[Max(holding)][name]

(* For the tokens of c.                                                    *)
CheckerLookup(c) ==
  [static  |-> [name \in TokensIn(c, "StaticToken") |-> ResolveStatic(name)],
   dynamic |-> [name \in TokensIn(c, "Token") |-> None]]

Scope(c) == [static |-> CheckerLookup(c).static, declared |-> UNION ToSet(declared)]

-----------------------------------------------------------------------------
(* Properties.                                                             *)

LookupProperty(class, property) ==
  LET Declares(ancestor) ==
        /\ ancestor \in DOMAIN Properties
        /\ property \in DOMAIN Properties[ancestor]
        /\ ~Properties[ancestor][property].hidden
      line == IF class \in DOMAIN Superclasses THEN SelectSeq(Superclasses[class], Declares) ELSE <<>>
  IN  IF line = <<>> THEN <<>> ELSE <<Properties[line[1]][property]>>

NumberTypes == {"Float32", "Float64", "Int32", "Int64"}

(* The types that take each other's values.                                *)
Interchangeable == {NumberTypes, {"Color3", "Color3uint8"}, {"Content", "ContentId"}}
VariantAssignable(expected, got) == expected = got \/ \E types \in Interchangeable : {expected, got} \subseteq types

VariantMatches(descriptor, d) ==
  CASE descriptor.data = "Value" -> VariantAssignable(descriptor.type, d.type)
    [] descriptor.data = "Enum" -> d.type = "EnumItem" /\ d.enum = descriptor.type

(* check_property_against_reflection: the type is that of the first class  *)
(* that has the property.                                                  *)
CheckProperty(property, value, ofClasses) ==
  LET found == [i \in DOMAIN ofClasses |-> LookupProperty(ofClasses[i], property)]
      missing == {i \in DOMAIN found : found[i] = <<>>}
      unknown == IF strict THEN missing # {} ELSE missing = DOMAIN found
  IN  CASE ofClasses = <<>> -> {}
        [] ofClasses # <<>> /\ unknown -> {"UnknownProperty"}
        [] OTHER ->
             IF IsVariant(value) /\ ~VariantMatches(found[Min(DOMAIN found \ missing)][1], value)
             THEN {"PropertyTypeMismatch"} ELSE {}

-----------------------------------------------------------------------------
(* What the right side is for the left one: a token keeps a shorthand that *)
(* has no enum yet, and a static one keeps any value.                      *)
Evaluated(left, right, lookup) ==
  IF left.kind # "Property" /\ right.kind = "Shorthand" THEN <<Shorthand(right.name)>>
  ELSE EvaluateConstruct(right, left.name, lookup)

ResolvedType(left, evaluated) ==
  LET variant == ToVariant(evaluated[1], left.name)
  IN  CASE evaluated = <<>> -> None
        [] evaluated # <<>> /\ left.kind # "Property" /\ evaluated[1].type = "IncompleteEnumShorthand" -> evaluated[1]
        [] evaluated # <<>> /\ IsStatic(left) -> evaluated[1]
        [] OTHER -> IF variant = <<>> THEN None ELSE variant[1]

Report(kinds) == errors' = errors \cup {[at |-> place, error |-> kind] : kind \in kinds}

GlobalScope == Len(place) = 1

(* typecheck_tween.                                                        *)
IsNumber(c, lookup) ==
  LET value == EvaluateConstruct(c, NoKey, lookup)
  IN  value # <<>> /\ value[1].type = "Float64"

IsItemOf(c, enum) == c.kind = "Shorthand" \/ (c.kind = "Enum" /\ c.name = enum)
ItemName(c) == IF c.kind = "Shorthand" THEN c.name ELSE c.item

(* Mistake: an item of the right enum need not exist.                      *)
TweenArgFitsByEnum(i, c, lookup) ==
  CASE i \in {1, 4, 6} -> IsNumber(c, lookup)
    [] i = 2 -> IsItemOf(c, "EasingStyle")
    [] i = 3 -> IsItemOf(c, "EasingDirection")
    [] i = 5 -> c.kind = "Boolean"
    [] OTHER -> FALSE

TweenArgFits(i, c, lookup) ==
  CASE i \in {1, 4, 6} -> IsNumber(c, lookup)
    [] i = 2 -> IsItemOf(c, "EasingStyle") /\ ValidateEnumVariant(ItemName(c), "EasingStyle")
    [] i = 3 -> IsItemOf(c, "EasingDirection") /\ ValidateEnumVariant(ItemName(c), "EasingDirection")
    [] i = 5 -> c.kind = "Boolean"
    [] OTHER -> FALSE

TypecheckTween(body, lookup) ==
  CASE IsNumber(body, lookup) -> {}
    [] ~IsNumber(body, lookup) /\ body.kind = "Table" /\ body.body # <<>> ->
         {IF i \in 1 .. 6 THEN "InvalidTweenArg" ELSE "InvalidType" :
            i \in {k \in DOMAIN body.body : ~TweenArgFits(k, body.body[k], lookup)}}
    [] OTHER -> {"InvalidType"}

-----------------------------------------------------------------------------
CheckInit ==
  /\ place = Beginning
  /\ scopes = <<NoValues>>
  /\ declared = <<{}>>
  /\ classes = <<>>
  /\ errors = {}
  /\ resolved = NoValues
  /\ panicked = FALSE

CheckAssignment ==
  /\ At(place, "Assignment")
  /\ LET assignment == ConstructAt(place)
         left == assignment.left
         right == assignment.right[1]
         here == IF classes = <<>> THEN <<>> ELSE Last(classes)
         enumErrors == EnumRefErrors(left.name, right)
         evaluated == IF enumErrors = {} THEN Evaluated(left, right, CheckerLookup(right)) ELSE <<>>
         value == ResolvedType(left, evaluated)
         property == IF left.kind = "Property" THEN CheckProperty(left.name, value, here) ELSE {}
         misplaced == IF left.kind = "Property" /\ GlobalScope THEN {"NotAllowedInContext"} ELSE {}
     IN  IF assignment.right = <<>> THEN UNCHANGED <<scopes, declared, errors, resolved, panicked>>
         ELSE /\ Report(misplaced \cup TokenRefErrors(right, Scope(right))
                        \cup AnnotationErrors(right, Scope(right)) \cup enumErrors \cup property)
              /\ panicked' = (evaluated = <<Panic>>)
              /\ resolved' = Inserted(resolved, place, value)
              /\ scopes' = IF IsStatic(left)
                           THEN [scopes EXCEPT ![Len(scopes)] = Inserted(@, left.name, value)] ELSE scopes
              /\ declared' = IF left.kind = "Property" THEN declared
                             ELSE [declared EXCEPT ![Len(declared)] = @ \cup {<<left.kind, left.name>>}]
  /\ place' = Behind(place)
  /\ UNCHANGED <<strict, classes>>

CheckTween ==
  /\ At(place, "Tween")
  /\ LET body == ConstructAt(place).body
     IN  IF body = <<>> THEN UNCHANGED <<errors, panicked>>
         ELSE /\ Report((IF GlobalScope THEN {"NotAllowedInContext"} ELSE {}) \cup TypecheckTween(body[1], CheckerLookup(body[1])))
              /\ panicked' = (EvaluateConstruct(body[1], NoKey, CheckerLookup(body[1])) = <<Panic>>)
  /\ place' = Behind(place)
  /\ UNCHANGED <<strict, scopes, declared, classes, resolved>>

(* Of a priority nothing is checked but where it stands.                   *)
CheckPriority ==
  /\ At(place, "Priority")
  /\ Report(IF GlobalScope THEN {"NotAllowedInContext"} ELSE {})
  /\ place' = Behind(place)
  /\ UNCHANGED <<strict, scopes, declared, classes, resolved, panicked>>

(* Mistake: a rule without selectors starts without classes.               *)
EnterRuleUnclassed ==
  /\ At(place, "Rule")
  /\ LET selects == ConstructAt(place).selects
     IN  classes' = Append(classes, IF selects = <<>> THEN <<>> ELSE selects[1])
  /\ scopes' = Append(scopes, NoValues)
  /\ declared' = Append(declared, {})
  /\ place' = IntoBody(place)
  /\ UNCHANGED <<strict, errors, resolved, panicked>>

(* typecheck_rule: its classes are those of its selectors, or else those   *)
(* of the rule around; the scopes open.                                    *)
EnterCheckedRule ==
  /\ At(place, "Rule")
  /\ LET selects == ConstructAt(place).selects
         around == IF classes = <<>> THEN <<>> ELSE Last(classes)
     IN  classes' = Append(classes, IF selects = <<>> THEN around ELSE selects[1])
  /\ scopes' = Append(scopes, NoValues)
  /\ declared' = Append(declared, {})
  /\ place' = IntoBody(place)
  /\ UNCHANGED <<strict, errors, resolved, panicked>>

(* The end of typecheck_rule: the scopes close.                            *)
LeaveCheckedRule ==
  /\ Len(place) > 1 /\ BodyOver(place)
  /\ classes' = Front(classes)
  /\ scopes' = Front(scopes)
  /\ declared' = Front(declared)
  /\ place' = OutOfBody(place)
  /\ UNCHANGED <<strict, errors, resolved, panicked>>

CheckNext ==
  /\ ~panicked
  /\ CheckAssignment \/ CheckTween \/ CheckPriority \/ EnterCheckedRule \/ LeaveCheckedRule
=============================================================================
