---------------------------- MODULE Annotations ----------------------------
(***************************************************************************)
(* The typechecker's look at a value before it is evaluated: the arguments *)
(* of the tuple annotations against the signatures they are given, the     *)
(* names of enums and of their items, and the tokens a value refers to.    *)
(*                                                                         *)
(* What is said of a construct is the set of the kinds of error reported,  *)
(* without the argument, the range and the wording.                        *)
(***************************************************************************)
EXTENDS Datatypes

-----------------------------------------------------------------------------
(* Signatures: for each argument the types that it may have, and for those *)
(* beyond them the types of the tail, of which there are none if the       *)
(* signature has no tail.                                                  *)

ArgType(kind) == {[kind |-> kind]}
EnumOf(name) == {[kind |-> "Enum", of |-> name]}
Tuple(positions) == {[kind |-> "Tuple", of |-> positions]}

Fixed(head) == [head |-> head, tail |-> {}]
Variadic(types) == [head |-> <<types>>, tail |-> types]
Same(n, types) == Fixed([i \in 1 .. n |-> types])

Specs ==
  LET Number == ArgType("Number")
      Measurement == ArgType("Measurement")
      ScaleOrNumber == ArgType("Scale") \cup Number
      Color == ArgType("Color")
      Asset == ArgType("Asset")
      Anything == ArgType("Any")
      Weight == EnumOf("FontWeight")
      UpTo(n, types) == [i \in 1 .. n |-> Same(i, types)]
      Colors == <<Same(1, Color), Same(3, Number)>>
  IN  [udim |-> <<Same(1, Measurement), Same(2, Number)>>,
       udim2 |-> <<Same(1, Measurement), Same(2, Measurement), Same(4, Number)>>,
       rect |-> <<Same(2, ArgType("Vector2")), Same(4, Number)>>,
       vec2 |-> UpTo(2, Number),
       vec2i16 |-> UpTo(2, Number),
       vec3 |-> UpTo(3, Number),
       vec3i16 |-> UpTo(3, Number),
       cframe |-> <<Same(3, Number), Same(4, ArgType("Vector3")), Same(12, Number)>>,
       color3 |-> Colors,
       rgb |-> Colors,
       oklab |-> <<Same(1, Color), Same(3, ScaleOrNumber)>>,
       oklch |-> <<Same(1, Color), Fixed(<<ScaleOrNumber, ScaleOrNumber, Number>>)>>,
       brickcolor |-> <<Same(1, ArgType("String"))>>,
       colorseq |-> <<Variadic(Color \cup Tuple(<<Number, Color>>))>>,
       numseq |-> <<Variadic(Number \cup Tuple(<<Number, Number, Number>>))>>,
       numrange |-> UpTo(2, Number),
       font |-> <<Same(1, Asset), Fixed(<<Asset, Weight>>), Fixed(<<Asset, Weight, EnumOf("FontStyle")>>)>>,
       content |-> <<Same(1, Asset)>>,
       lerp |-> <<Same(2, Anything), Fixed(<<Anything, Anything, Number>>)>>,
       floor |-> <<Same(1, Anything)>>,
       ceil |-> <<Same(1, Anything)>>,
       round |-> <<Same(1, Anything)>>,
       abs |-> <<Same(1, Anything)>>]

AcceptsCount(signature, n) ==
  IF signature.tail = {} THEN n = Len(signature.head) ELSE n >= Len(signature.head)

AllowedAt(signature, i) == IF i \in DOMAIN signature.head THEN signature.head[i] ELSE signature.tail

-----------------------------------------------------------------------------
(* What fits a type: a construct by the look of it, a static token by what *)
(* it was resolved to.                                                     *)

RECURSIVE DatatypeMatches(_, _)
DatatypeMatches(d, type) ==
  CASE type.kind = "Any" -> d # None
    [] type.kind = "Number" -> d.type = "Float64"
    [] type.kind \in {"Scale", "Measurement"} -> d.type \in {"UDim", "Float64"}
    [] type.kind = "String" -> d.type = "String"
    [] type.kind = "Color" -> d.type \in {"Color3", "BrickColor", "Oklab", "Oklch"}
    [] type.kind = "Asset" -> d.type \in {"String", "Content", "Float64"}
    [] type.kind \in DOMAIN Int16Of -> d.type \in {type.kind, Int16Of[type.kind]}
    [] type.kind = "Enum" -> d.type = "IncompleteEnumShorthand" \/ (d.type = "EnumItem" /\ d.enum = type.of)
    [] type.kind = "Tuple" ->
         /\ d.type = "TupleData"
         /\ Len(d.data) = Len(type.of)
         /\ \A i \in DOMAIN d.data : \E allowed \in type.of[i] : DatatypeMatches(d.data[i], allowed)

EnumExists(enum) == enum \in DOMAIN Enums

(* A shorthand may stand for an item of any enum.                          *)
MatchesEnum(c, enum) ==
  \/ c.kind = "Shorthand"
  \/ c.kind = "Enum" /\ c.name = enum /\ ValidateEnumVariant(c.item, enum)

Annotates(c, names) == c.kind = "AnnotatedTable" /\ c.name \in names
IsArithmetic(c) == c.kind \in {"Math", "UnaryMinus"}

(* scope has the static tokens: those declared, and their values.          *)
RECURSIVE MatchesType(_, _, _)
MatchesType(c, type, scope) ==
  IF c.kind = "StaticToken"
  THEN <<"StaticToken", c.name>> \in scope.declared => DatatypeMatches(scope.static[c.name], type)
  ELSE CASE type.kind = "Any" -> TRUE
         [] type.kind = "Number" -> c.kind = "Number" \/ IsArithmetic(c)
         [] type.kind = "Scale" -> c.kind = "NumberScale"
         [] type.kind = "Measurement" -> c.kind \in {"Number", "NumberScale", "NumberOffset"} \/ IsArithmetic(c)
         [] type.kind = "String" -> c.kind = "String"
         [] type.kind = "Color" ->
              \/ c.kind \in {"ColorHex", "Color"}
              \/ Annotates(c, {"color3", "rgb", "oklab", "oklch", "brickcolor"})
         [] type.kind = "Asset" -> c.kind \in {"RbxAsset", "RbxContent", "Number", "String"}
         [] type.kind = "Vector2" -> Annotates(c, {"vec2", "vec2i16"})
         [] type.kind = "Vector3" -> Annotates(c, {"vec3", "vec3i16"})
         [] type.kind = "Tuple" ->
              /\ c.kind = "Table"
              /\ Len(c.body) = Len(type.of)
              /\ \A i \in DOMAIN c.body : \E allowed \in type.of[i] : MatchesType(c.body[i], allowed, scope)
         [] type.kind = "Enum" -> MatchesEnum(c, type.of)

MatchesAnyType(c, types, scope) == \E type \in types : MatchesType(c, type, scope)

SignatureFullyMatches(signature, args, scope) ==
  /\ AcceptsCount(signature, Len(args))
  /\ \A i \in DOMAIN args : MatchesAnyType(args[i], AllowedAt(signature, i), scope)

(* Types are reported against the first signature with as many arguments.  *)
CheckAnnotationArgs(name, args, scope) ==
  LET fitting == SelectSeq(Specs[name], LAMBDA signature : AcceptsCount(signature, Len(args)))
  IN  CASE \E i \in DOMAIN Specs[name] : SignatureFullyMatches(Specs[name][i], args, scope) -> {}
        [] fitting = <<>> -> {"WrongAnnotationArgCount"}
        [] OTHER -> {"WrongAnnotationArgType" : i \in
                       {k \in DOMAIN args : ~MatchesAnyType(args[k], AllowedAt(fitting[1], k), scope)}}

-----------------------------------------------------------------------------
(* The walks over a value.                                                 *)

Operands(c) ==
  CASE c.kind = "Math" -> <<c.left>> \o c.right
    [] c.kind = "UnaryMinus" -> <<c.operand>>
    [] c.kind \in {"Table", "AnnotatedTable"} -> c.body
    [] OTHER -> <<>>

(* What a construct is made of, down to its tokens and enums.              *)
RECURSIVE Atoms(_, _)
Atoms(c, intoAnnotations) ==
  IF c.kind = "AnnotatedTable" /\ ~intoAnnotations THEN {}
  ELSE {c} \cup UNION {Atoms(part, intoAnnotations) : part \in ToSet(Operands(c))}

AtomsOf(c, kinds, intoAnnotations) == {atom \in Atoms(c, intoAnnotations) : atom.kind \in kinds}

(* A dynamic token has no value yet when an annotation is evaluated.       *)
ReportTokensInAnnotation(c) == {"NotAllowedInContext" : atom \in AtomsOf(c, {"Token"}, FALSE)}

RECURSIVE ValidateAnnotation(_, _)
ValidateAnnotation(c, scope) ==
  LET inside == UNION {ValidateAnnotation(part, scope) : part \in ToSet(Operands(c))}
  IN  IF c.kind # "AnnotatedTable" THEN inside
      ELSE inside
           \cup UNION {ReportTokensInAnnotation(arg) : arg \in ToSet(c.body)}
           \cup (IF c.name \in DOMAIN Specs THEN CheckAnnotationArgs(c.name, c.body, scope) ELSE {"UnknownAnnotation"})

ValidateTokenRefs(c, scope) ==
  {"UndefinedToken" : atom \in
     {a \in AtomsOf(c, {"Token", "StaticToken"}, TRUE) : <<a.kind, a.name>> \notin scope.declared}}

CheckEnumNameAndVariant(enum, item) ==
  CASE ~EnumExists(enum) -> {"UnknownEnum"}
    [] EnumExists(enum) /\ ~ValidateEnumVariant(item, enum) -> {"UnknownEnumVariant"}
    [] OTHER -> {}

(* A shorthand alone belongs to the enum named like what is assigned to;   *)
(* inside of a table it is not looked at.                                  *)
ValidateEnumRefs(key, c) ==
  IF c.kind = "Shorthand" THEN CheckEnumNameAndVariant(ShorthandRebind(key), c.name)
  ELSE UNION {CheckEnumNameAndVariant(enum.name, enum.item) : enum \in AtomsOf(c, {"Enum"}, TRUE)}
=============================================================================
