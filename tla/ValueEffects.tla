---------------------------- MODULE ValueEffects ----------------------------
(***************************************************************************)
(* What becomes of all that is written in a file in which nothing is       *)
(* reported, as Datatypes and Annotations have the values and the checks.  *)
(***************************************************************************)
EXTENDS StoredValues, Annotations

CONSTANT
  Arguments  (* the constructs that arguments are taken from                *)

RECURSIVE PlacesIn(_, _)
PlacesIn(content, around) ==
  UNION {IF content[i].kind = "Rule" THEN PlacesIn(content[i].body, Append(around, i)) ELSE {Append(around, i)} :
           i \in DOMAIN content}

ValueOf(c) == EvaluateConstruct(c, NoKey, CheckerLookup(c))
HasValue(c) == ValueOf(c) # <<>>

(* The values that an annotation is allowed and makes nothing of, by their *)
(* type and, where the place matters, by the place.                        *)
Overlooked(name, i) ==
  CASE name = "udim" -> {"UDim"}
    [] name \in {"color3", "rgb"} -> {"Color3"}
    [] name = "oklab" -> {"Oklab", "BrickColor"}
    [] name = "oklch" -> {"Oklch", "BrickColor"}
    [] name = "colorseq" -> {"Oklab", "Oklch", "BrickColor"}
    [] name = "rect" /\ i = 1 -> {"Vector2int16"}
    [] name = "font" /\ i \in {2, 3} -> {"EnumItem"}
    [] name \in {"font", "content"} -> {"Content"}
    [] OTHER -> {}

TypeOf(c) == ValueOf(c)[1].type

(* With some other argument of its type in its place that is accepted, the *)
(* annotation has another value.                                           *)
ArgumentMatters(c, i) ==
  \E other \in Arguments :
    LET changed == [c EXCEPT !.body = [@ EXCEPT ![i] = other]]
    IN  /\ HasValue(other) /\ TypeOf(other) = TypeOf(c.body[i])
        /\ AnnotationErrors(changed, Scope(changed)) = {}
        /\ ValueOf(changed) # ValueOf(c)

(* Every argument of an annotation matters, where nothing is reported.     *)
(* Left out are the annotations with an argument that has no value or that *)
(* is Overlooked, and the mixture of two values that cannot be mixed,      *)
(* which is the first one.                                                 *)
ArgumentsUsed ==
  Done /\ Silent =>
    \A at \in DOMAIN resolved :
      LET c == RightOf(at)
          args == c.body
          plain == /\ \A i \in DOMAIN args :
                        HasValue(args[i]) /\ TypeOf(args[i]) \notin Overlooked(c.name, i) \cup {"None"}
                   /\ c.name = "rect" => \A i \in DOMAIN args : TypeOf(args[1]) # "Vector2int16"
                   /\ c.name = "lerp" =>
                        /\ TypeOf(args[1]) = TypeOf(args[2]) /\ args[1] # args[2]
                        /\ TypeOf(args[1]) \in Lerped
      IN  c.kind = "AnnotatedTable" /\ TokensIn(c, "Token") \cup TokensIn(c, "StaticToken") = {} /\ plain =>
            \A i \in DOMAIN args : ArgumentMatters(c, i)

-----------------------------------------------------------------------------
(* What the documents promise.  A token that does not exist, and arguments *)
(* that are no good, are reported, and so is a value that does not have    *)
(* the declared type; a tween is a number or a tuple of arguments; the     *)
(* parts of an enum may follow a dot or a colon; color3 takes a colour.  So*)
(* in a file without an error each property, tween and priority of a rule  *)
(* is stored, what is stored fits, and every argument matters.             *)
SilentFilesTakeEffect ==
  Done /\ Silent =>
    \A at \in PlacesIn(code, <<>>) :
      LET c == ConstructAt(at)
          property == c.kind = "Assignment" /\ c.left.kind = "Property"
      IN  /\ c.kind \in {"Tween", "Priority"} \/ property => at \in DOMAIN stored
          /\ property => Fits(at)
          /\ property /\ RightOf(at).kind = "AnnotatedTable" =>
               \A i \in DOMAIN RightOf(at).body : ArgumentMatters(RightOf(at), i)
=============================================================================
