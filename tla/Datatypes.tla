----------------------------- MODULE Datatypes -----------------------------
(***************************************************************************)
(* What a literal, a table, a tuple annotation or an operation evaluates   *)
(* to, what is made of a value where a variant is wanted, and the tween    *)
(* infos.  Commas between arguments are left out: evaluation drops them,   *)
(* and every check of arguments filters them.                              *)
(*                                                                         *)
(* A function of the code that calls itself is here what one call of it    *)
(* does, given what the calls within come to.  EvaluatedAsHere ties the    *)
(* operators that Evaluation leaves open to these.                         *)
(***************************************************************************)
EXTENDS Evaluation

CONSTANTS
  Palette,     (* the colours of the tables of CSS, Tailwind and so on      *)
  BrickColors, (* the colour of each BrickColor                             *)
  AssetTexts   (* the strings that begin with rbxasset:// or rbxassetid://  *)

-----------------------------------------------------------------------------
(* Of a tuple the first element counts.                                    *)
CoerceToVariant(Coerce(_, _), d, key) ==
  CASE d.type = "TupleData" -> IF d.data = <<>> THEN <<>> ELSE Coerce(d.data[1], key)
    [] d.type = "IncompleteEnumShorthand" ->
         IF key = NoKey THEN <<>> ELSE FromNameAndValueName(key, d.item)
    [] d.type \in {"Oklab", "Oklch"} -> <<Recolored(d, "Color3")>>
    [] d.type = "None" -> <<>>
    [] OTHER -> <<d>>

-----------------------------------------------------------------------------
(* Tuple annotations: a value for any data whatever, what is missing or of *)
(* another type being made up.                                             *)

Has(data, i, type) == i \in DOMAIN data /\ data[i].type = type

(* Stopped at the ends of the integers' range, a number loses its fraction.*)
Cast(n, low, high) == Max({low, Min({high, Truncated(n)})})

(* coerce_datatype_to_f64 and coerce_datatype_to_i32.                      *)
NumberAt(data, i, default) == IF Has(data, i, "Float64") THEN data[i].n ELSE default
IntegerAt(data, i, default) == IF Has(data, i, "Float64") THEN Truncated(data[i].n) ELSE default

(* n numbers from the i-th on, each the one before if it is not given.     *)
Numbers(data, i, n) ==
  LET number[k \in 1 .. n] == NumberAt(data, i + k - 1, IF k = 1 THEN 0 ELSE number[k - 1])
  IN  [k \in 1 .. n |-> number[k]]

Shorts(at) == [i \in DOMAIN at |-> Cast(at[i], -32768, 32767)]
Bytes(at) == [i \in DOMAIN at |-> Cast(at[i], 0, 255)]

Vector(type, at) == [type |-> type, at |-> at]

Int16Of == [Vector2 |-> "Vector2int16", Vector3 |-> "Vector3int16"]

(* coerce_datatype_to_vec2 and coerce_datatype_to_vec3.                    *)
VectorAt(data, i, type, default) ==
  CASE Has(data, i, type) -> data[i].at
    [] Has(data, i, Int16Of[type]) -> [k \in DOMAIN data[i].at |-> data[i].at[k] * Unit]
    [] OTHER -> default

UDimAt(data, i, default) ==
  CASE Has(data, i, "Float64") -> UDim(data[i].n, 0)
    [] Has(data, i, "UDim") -> data[i]
    [] OTHER -> default

UDimAnnotation(data) ==
  LET scale == NumberAt(data, 1, 0)
  IN  UDim(scale, Truncated(NumberAt(data, 2, scale * 100)))

UDim2Annotation(data) ==
  LET x == UDimAt(data, 1, UDim(0, 0))
      scale == NumberAt(data, 1, 0)
      offset == IntegerAt(data, 2, Truncated(scale * 100))
      UDim2(first, second) == [type |-> "UDim2", x |-> first, y |-> second]
  IN  IF Len(data) <= 2 THEN UDim2(x, UDimAt(data, 2, x))
      ELSE UDim2(UDim(scale, offset), UDim(NumberAt(data, 3, scale), IntegerAt(data, 4, offset)))

(* Mistake: the last number of four is not read.                           *)
RectAnnotationOfThree(data) ==
  LET min == Numbers(data, 1, 2)
      max == <<NumberAt(data, 3, min[1]), NumberAt(data, 3, min[2])>>
  IN  IF Has(data, 1, "Vector2")
      THEN [type |-> "Rect", min |-> data[1].at, max |-> VectorAt(data, 2, "Vector2", data[1].at)]
      ELSE [type |-> "Rect", min |-> min, max |-> max]

RectAnnotation(data) ==
  LET min == Numbers(data, 1, 2)
      max == <<NumberAt(data, 3, min[1]), NumberAt(data, 4, min[2])>>
  IN  IF Has(data, 1, "Vector2")
      THEN [type |-> "Rect", min |-> data[1].at, max |-> VectorAt(data, 2, "Vector2", data[1].at)]
      ELSE [type |-> "Rect", min |-> min, max |-> max]

(* Three numbers and the rows of a matrix, or vectors.                     *)
CFrameAnnotation(data) ==
  LET CFrame(position, axes) == [type |-> "CFrame", position |-> position, axes |-> axes]
      zero == <<0, 0, 0>>
      x == VectorAt(data, 2, "Vector3", zero)
      y == VectorAt(data, 3, "Vector3", x)
  IN  IF Has(data, 1, "Float64")
      THEN CFrame(Numbers(data, 1, 3), [row \in 1 .. 3 |-> Numbers(data, 1 + 3 * row, 3)])
      ELSE CFrame(VectorAt(data, 1, "Vector3", zero), <<x, y, VectorAt(data, 4, "Vector3", y)>>)

(* color3 and rgb, which take their numbers as parts of one and as bytes.  *)
ColorAnnotation(data, space) ==
  IF \E type \in {"BrickColor", "Oklab", "Oklch"} : Has(data, 1, type)
  THEN Recolored(data[1], "Color3")
  ELSE Colored("Color3", space, IF space = "bytes" THEN Bytes(Numbers(data, 1, 3)) ELSE Numbers(data, 1, 3))

(* A number, or the scale of a UDim, squeezed if it is not a lightness.    *)
Component(data, i, squeezed) ==
  IF Has(data, i, "UDim") THEN (IF squeezed THEN (2 * data[i].scale) \div 5 ELSE data[i].scale)
  ELSE NumberAt(data, i, 0)

OklabAnnotation(data) ==
  IF \E type \in {"Oklch", "Color3"} : Has(data, 1, type) THEN Recolored(data[1], "Oklab")
  ELSE Colored("Oklab", "oklab", <<Component(data, 1, FALSE), Component(data, 2, TRUE), Component(data, 3, TRUE)>>)

OklchAnnotation(data) ==
  IF \E type \in {"Oklab", "Color3"} : Has(data, 1, type) THEN Recolored(data[1], "Oklch")
  ELSE Colored("Oklch", "oklch", <<Component(data, 1, FALSE), Component(data, 2, TRUE), NumberAt(data, 3, 0)>>)

BrickColorAnnotation(data) ==
  LET name == IF Has(data, 1, "String") /\ data[1].text \in DOMAIN BrickColors
              THEN data[1].text ELSE "Medium stone grey"
  IN  Colored("BrickColor", "bytes", BrickColors[name])

ContentAnnotation(data) ==
  CASE Has(data, 1, "String") -> Content(<<data[1].text>>)
    [] Has(data, 1, "Float64") -> Content(<<"rbxassetid://", ToString(data[1].n)>>)
    [] OTHER -> Content(<<>>)

Weights == <<"Thin", "ExtraLight", "Light", "Regular", "Medium", "SemiBold", "Bold", "ExtraBold", "Heavy">>

(* A choice by name, alone or behind its enum's, or by number: the others  *)
(* stand for the default.                                                  *)
Named(data, i, enum, options, default) ==
  LET name == CASE Has(data, i, "String") -> data[i].text
                [] Has(data, i, "IncompleteEnumShorthand") -> data[i].item
                [] OTHER -> default
      meant == {option \in options : name \in {option, enum \o option}}
  IN  IF meant = {} THEN default ELSE CHOOSE option \in meant : TRUE

FontAnnotation(data) ==
  LET family == CASE Has(data, 1, "String") /\ data[1].text \in AssetTexts -> <<data[1].text>>
                  [] Has(data, 1, "String") -> <<"rbxasset://fonts/families/", data[1].text, ".json">>
                  [] Has(data, 1, "Float64") -> <<"rbxassetid://", ToString(data[1].n)>>
                  [] OTHER -> <<"rbxasset://fonts/families/", "SourceSansPro", ".json">>
      hundreds == NumberAt(data, 2, 0) \div (100 * Unit)
      weight == IF Has(data, 2, "Float64") /\ hundreds \in 1 .. 9 /\ data[2].n = hundreds * 100 * Unit
                THEN Weights[hundreds] ELSE Named(data, 2, "Enum.FontWeight.", ToSet(Weights), "Regular")
      style == IF Has(data, 3, "Float64") /\ data[3].n = Unit
               THEN "Italic" ELSE Named(data, 3, "Enum.FontStyle.", {"Italic"}, "Normal")
  IN  [type |-> "Font", family |-> family, weight |-> weight, style |-> style]

(* Lerp of the library: numbers are computed, of other values the mixture  *)
(* is kept as what it is made of.                                          *)
Mixed(from, to, time) ==
  IF from.type = "Float64" THEN Float64(from.n + ((to.n - from.n) * time) \div Unit)
  ELSE IF {from.type, to.type} \subseteq {"Color3", "Oklab", "Oklch"}
       THEN Colored(from.type, "mixed", from.at \o to.at \o <<time>>)
       ELSE [type |-> from.type, mixed |-> <<from, to, time>>]

Lerped == {"Float64", "UDim", "UDim2", "Rect", "Vector2", "Vector2int16", "Vector3", "Vector3int16",
           "CFrame", "Color3"}

LerpAnnotation(data) ==
  LET from == ToVariant(data[1], NoKey)
      to == ToVariant(data[2], NoKey)
      time == NumberAt(data, 3, Unit \div 2)
  IN  CASE Len(data) = 0 -> None
        [] Len(data) = 1 -> data[1]
        [] Len(data) > 1 /\ {data[1].type, data[2].type} \subseteq {"Oklab", "Oklch"} ->
             Mixed(data[1], data[2], time)
        [] OTHER ->
             IF from = <<>> THEN None
             ELSE IF to # <<>> /\ from[1].type \in Lerped /\ to[1].type = from[1].type
                  THEN Mixed(from[1], to[1], time)
                  ELSE from[1]

(* Floor, Ceil, Round and Abs of the library on a number; what they do to  *)
(* the parts of a vector is left out.                                      *)
Rounded(name, d) ==
  LET n == d.n
  IN  IF d.type # "Float64" THEN d
      ELSE Float64(CASE name = "floor" -> (n \div Unit) * Unit
                     [] name = "ceil" -> -((-n) \div Unit) * Unit
                     [] name = "round" -> Truncated(IF n < 0 THEN n - Unit \div 2 ELSE n + Unit \div 2) * Unit
                     [] name = "abs" -> IF n < 0 THEN -n ELSE n)

RoundingAnnotation(name, data) ==
  CASE data = <<>> -> None
    [] data # <<>> /\ IsVariant(data[1]) -> Rounded(name, data[1])
    [] OTHER -> data[1]

(* A keypoint of a sequence, with its time where it is given.              *)
Timed(d, plain, Value(_)) ==
  CASE d.type = "TupleData" ->
         [time |-> IF Has(d.data, 1, "Float64") THEN <<d.data[1].n>> ELSE <<>>, value |-> Value(Tail(d.data))]
    [] d.type = plain -> [time |-> <<>>, value |-> Value(<<d>>)]
    [] OTHER -> [time |-> <<>>, value |-> Value(<<>>)]

NumberAndEnvelope(data) == <<NumberAt(data, 1, 0), NumberAt(data, 2, 0)>>
ColorOf(data) == IF Has(data, 1, "Color3") THEN data[1] ELSE Colored("Color3", "unit", <<0, 0, 0>>)

GivenTime(item) == item.time # <<>>
TimedOnes(items) == {i \in DOMAIN items : GivenTime(items[i])}

(* Mistake: the timed ones stay in the order they are written in.          *)
PlacedAsWritten(items) == items

(* The timed ones in order of time fill the places of the untimed ones,    *)
(* which keep theirs.  Of those at the same time any may come first.       *)
InOrder(items, order) ==
  \A j, k \in DOMAIN order : j < k =>
    order[j] # order[k] /\ items[order[j]].time[1] <= items[order[k]].time[1]

Placed(items) ==
  LET timed == TimedOnes(items)
      order == CHOOSE o \in [1 .. Cardinality(timed) -> timed] : InOrder(items, o)
  IN  [i \in DOMAIN items |->
         IF i \in timed THEN items[order[Cardinality({k \in timed : k <= i})]] ELSE items[i]]

(* An untimed one shares the stretch from the one before it to the next    *)
(* timed one, or to the end.                                               *)
TimeAt(placed, i, before) ==
  LET timed == TimedOnes(placed)
      next == Min({k \in timed : k >= i} \cup {Len(placed)})
      end == IF next \in timed THEN placed[next].time[1] ELSE Unit
  IN  CASE i \in timed -> placed[i].time[1]
        [] i \notin timed /\ i = 1 -> 0
        [] OTHER -> before + (end - before) \div (next - (i - 1))

WithTimes(placed) ==
  LET time[i \in DOMAIN placed] == TimeAt(placed, i, IF i = 1 THEN 0 ELSE time[i - 1])
  IN  [i \in DOMAIN placed |-> [time |-> time[i], value |-> placed[i].value]]

(* A keypoint at the start and one at the end are added; whether the last  *)
(* one is at the end is asked of the place it had before the first.        *)
Opened(given) == IF given[1].time = 0 THEN given ELSE <<[given[1] EXCEPT !.time = 0]>> \o given
Closed(opened, last) == IF last.time = Unit THEN opened ELSE Append(opened, [last EXCEPT !.time = Unit])
Ended(opened, n) == Closed(opened, opened[n])

Keypoints(items) ==
  IF Len(items) = 1
  THEN <<[time |-> 0, value |-> items[1].value], [time |-> Unit, value |-> items[1].value]>>
  ELSE Ended(Opened(WithTimes(Placed(items))), Len(items))

NumseqAnnotation(data) ==
  IF data = <<>> THEN Panic
  ELSE [type |-> "NumberSequence",
        keypoints |-> Keypoints([i \in DOMAIN data |-> Timed(data[i], "Float64", NumberAndEnvelope)])]

ColorseqAnnotation(data) ==
  IF data = <<>> THEN None
  ELSE [type |-> "ColorSequence",
        keypoints |-> Keypoints([i \in DOMAIN data |-> Timed(data[i], "Color3", ColorOf)])]

(* TUPLE_ANNOTATIONS, by the names that have an entry.                     *)
Annotated(name, data) ==
  CASE name = "udim" -> UDimAnnotation(data)
    [] name = "udim2" -> UDim2Annotation(data)
    [] name = "rect" -> RectAnnotation(data)
    [] name = "vec2" -> Vector("Vector2", Numbers(data, 1, 2))
    [] name = "vec2i16" -> Vector("Vector2int16", Shorts(Numbers(data, 1, 2)))
    [] name = "vec3" -> Vector("Vector3", Numbers(data, 1, 3))
    [] name = "vec3i16" -> Vector("Vector3int16", Shorts(Numbers(data, 1, 3)))
    [] name = "cframe" -> CFrameAnnotation(data)
    [] name = "color3" -> ColorAnnotation(data, "unit")
    [] name = "rgb" -> ColorAnnotation(data, "bytes")
    [] name = "oklab" -> OklabAnnotation(data)
    [] name = "oklch" -> OklchAnnotation(data)
    [] name = "brickcolor" -> BrickColorAnnotation(data)
    [] name = "colorseq" -> ColorseqAnnotation(data)
    [] name = "numseq" -> NumseqAnnotation(data)
    [] name = "numrange" -> [type |-> "NumberRange", at |-> Numbers(data, 1, 2)]
    [] name = "font" -> FontAnnotation(data)
    [] name = "content" -> ContentAnnotation(data)
    [] name = "lerp" -> LerpAnnotation(data)
    [] name \in {"floor", "ceil", "round", "abs"} -> RoundingAnnotation(name, data)

AnnotationNames ==
  {"udim", "udim2", "rect", "vec2", "vec2i16", "vec3", "vec3i16", "cframe", "color3", "rgb", "oklab",
   "oklch", "brickcolor", "colorseq", "numseq", "numrange", "font", "content", "lerp", "floor", "ceil",
   "round", "abs"}

(* What a table is, by the annotation it has: a tuple of one is that one.  *)
TupleValue(name, data) ==
  LET result == CASE Panic \in ToSet(data) -> Panic
                  [] Panic \notin ToSet(data) /\ name \in AnnotationNames -> Annotated(name, data)
                  [] OTHER -> IF Len(data) = 0 THEN None ELSE IF Len(data) = 1 THEN data[1] ELSE TupleData(data)
  IN  IF result = None THEN <<>> ELSE <<result>>

-----------------------------------------------------------------------------
(* Constructs: a construct is a record with its kind and its parts.        *)

Table(body) == [kind |-> "Table", name |-> NoKey, body |-> body]
AnnotatedTable(name, body) == [kind |-> "AnnotatedTable", name |-> name, body |-> body]

(* Arithmetic of the library, on numbers and on UDims.                     *)
Operate(operator, left, right) ==
  LET sign == IF operator = "-" THEN -1 ELSE 1
  IN  CASE left.type = "Float64" /\ right.type = "Float64" ->
             <<Float64(CASE operator \in {"+", "-"} -> left.n + sign * right.n
                         [] operator = "*" -> (left.n * right.n) \div Unit)>>
        [] left.type = "UDim" /\ right.type = "UDim" /\ operator \in {"+", "-"} ->
             <<UDim(left.scale + sign * right.scale, left.offset + sign * right.offset)>>
        [] OTHER -> <<>>

Negated(d) ==
  CASE d.type = "Float64" -> <<Float64(-d.n)>>
    [] d.type = "UDim" -> <<UDim(-d.scale, -d.offset)>>
    [] d.type = "Panic" -> <<d>>
    [] OTHER -> <<>>

(* evaluate_token; lookup has the values of the static tokens and of the   *)
(* dynamic ones.                                                           *)
EvaluateToken(c, key, lookup) ==
  CASE c.kind = "Number" -> <<Float64(c.n)>>
    [] c.kind = "NumberOffset" -> <<UDim(0, Truncated(c.n))>>
    [] c.kind = "NumberScale" -> <<UDim(c.n \div 100, 0)>>
    [] c.kind \in {"String", "RbxAsset"} -> <<String(c.name)>>
    [] c.kind = "RbxContent" -> <<Content(<<c.name>>)>>
    [] c.kind = "Boolean" -> <<[type |-> "Bool", is |-> c.name = "true"]>>
    [] c.kind = "Nil" -> <<None>>
    [] c.kind = "ColorHex" -> <<Colored("Color3", "bytes", c.at)>>
    [] c.kind = "Color" -> IF c.name \in DOMAIN Palette THEN <<Colored("Oklab", "oklab", Palette[c.name])>> ELSE <<>>
    [] c.kind = "Token" -> <<lookup.dynamic[c.name]>>
    [] c.kind = "StaticToken" -> <<lookup.static[c.name]>>
    [] c.kind = "Shorthand" ->
         LET item == FromNameAndValueName(ShorthandRebind(key), c.name)
         IN  IF key = NoKey THEN <<Shorthand(c.name)>> ELSE IF item = <<>> THEN <<None>> ELSE item
    [] OTHER -> <<>>

(* evaluate_construct.  Both operands are evaluated before either is       *)
(* coerced, of several operators the first counts, and what has no value   *)
(* is left out of a table.                                                 *)
Evaluate(Value(_, _, _), c, key, lookup) ==
  CASE c.kind = "Math" ->
         Then(Value(c.left, key, lookup), LAMBDA left :
           LET right == Then(c.right, LAMBDA operand : Value(operand, key, lookup))
           IN  IF Panic \in {left} \cup ToSet(right) THEN <<Panic>>
               ELSE IF right = <<>> THEN <<left>>
               ELSE Then(ToVariant(left, key), LAMBDA one :
                      Then(ToVariant(right[1], key), LAMBDA other : Operate(c.operators[1], one, other))))
    [] c.kind = "UnaryMinus" ->
         Then(Value(c.operand, key, lookup), LAMBDA d : Then(ToVariant(d, key), Negated))
    [] c.kind \in {"Table", "AnnotatedTable"} ->
         TupleValue(c.name, FlattenSeq([i \in DOMAIN c.body |-> Value(c.body[i], NoKey, lookup)]))
    [] c.kind = "Enum" ->
         LET item == IF c.sigil = "." THEN FromNameAndValueName(c.name, c.item) ELSE <<>>
         IN  IF item = <<>> THEN <<None>> ELSE item
    [] OTHER -> EvaluateToken(c, key, lookup)

-----------------------------------------------------------------------------
(* Tween infos.                                                            *)

(* These enums are in the reflection database, are not rebound, and have   *)
(* values that fit a byte.                                                 *)
ASSUME EasingAssumption ==
  \A enum \in {"EasingStyle", "EasingDirection"} :
    /\ enum \in DOMAIN Enums \ DOMAIN Rebinds
    /\ \A item \in DOMAIN Enums[enum] : Enums[enum][item] \in 0 .. 255

(* The i-th argument of a tween.  from_u8 is asked of the lowest byte of   *)
(* an item's value.                                                        *)
TweenPart(i, c, lookup) ==
  LET key == CASE i = 2 -> "EasingStyle" [] i = 3 -> "EasingDirection" [] OTHER -> NoKey
      wanted == CASE i \in {2, 3} -> "EnumItem" [] i = 5 -> "Bool" [] OTHER -> "Float64"
      Wanted(d) == IF d.type = wanted THEN <<d>> ELSE <<>>
      Easing(d) == IF d.type = wanted /\ (\E item \in DOMAIN Enums[key] : Enums[key][item] = d.value % 256)
                   THEN <<d.value % 256>> ELSE <<>>
  IN  Then(EvaluateConstruct(c, key, lookup), LAMBDA d :
        IF i \in {2, 3} THEN Easing(d) ELSE Then(ToVariant(d, NoKey), Wanted))

(* tween_info_from_args and tween_info_from_bare.                          *)
TweenInfo(body, lookup) ==
  LET Info(parts) == [type |-> "TweenInfo", parts |-> parts]
      parts == [i \in DOMAIN body.body |-> TweenPart(i, body.body[i], lookup)]
      Bare(d) == CASE d.type = "Float64" -> <<Info(<<d>>)>>
                   [] d.type = "TweenInfo" -> <<d>>
                   [] OTHER -> <<>>
  IN  IF body.kind = "Table"
      THEN IF Len(body.body) \in 1 .. 6 /\ <<>> \notin ToSet(parts) THEN <<Info(FlattenSeq(parts))>> ELSE <<>>
      ELSE Then(EvaluateConstruct(body, NoKey, lookup), LAMBDA d : Then(ToVariant(d, NoKey), Bare))

-----------------------------------------------------------------------------
(* What Evaluation leaves open is what the definitions here make of it:    *)
(* evaluate_construct and coerce_to_variant, which call themselves, and    *)
(* the tween infos.                                                        *)
ConstructsEvaluated ==
  \A c, key, lookup : EvaluateConstruct(c, key, lookup) = Evaluate(EvaluateConstruct, c, key, lookup)

VariantsCoerced == \A d, key : ToVariant(d, key) = CoerceToVariant(ToVariant, d, key)

EvaluatedAsHere ==
  /\ ConstructsEvaluated
  /\ VariantsCoerced
  /\ \A body, lookup : TweenInfoOf(body, lookup) = TweenInfo(body, lookup)
=============================================================================
