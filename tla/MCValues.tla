------------------------------ MODULE MCValues ------------------------------
(* Files of one annotation each, over arguments of every kind; files with  *)
(* static tokens in rules within rules; tweens; properties of rules with   *)
(* several classes.                                                        *)
EXTENDS ValueEffects

(* What the passes ask of values, as Datatypes and Annotations have it.    *)
MCTokensIn(c, kind) == {token.name : token \in AtomsOf(c, {kind}, TRUE)}
RECURSIVE MCEvaluateConstruct(_, _, _)
MCEvaluateConstruct(c, key, lookup) == Evaluate(MCEvaluateConstruct, c, key, lookup)
RECURSIVE MCToVariant(_, _)
MCToVariant(d, key) == CoerceToVariant(MCToVariant, d, key)
MCTweenInfoOf(body, lookup) == TweenInfo(body, lookup)
MCTokenRefErrors(c, scope) == ValidateTokenRefs(c, scope)
MCAnnotationErrors(c, scope) == ValidateAnnotation(c, scope)
MCEnumRefErrors(key, c) == ValidateEnumRefs(key, c)

MCEnums ==
  [HorizontalAlignment |-> [Center |-> 0, Left |-> 1, Right |-> 2],
   TextXAlignment |-> [Left |-> 0, Right |-> 1, Center |-> 2],
   UIFlexAlignment |-> [None |-> 0, Fill |-> 1],
   FontWeight |-> [Thin |-> 100, Regular |-> 400, Bold |-> 700],
   FontStyle |-> [Normal |-> 0, Italic |-> 1],
   KeyCode |-> [KeypadZero |-> 256, KeypadThree |-> 259],
   EasingStyle |-> [Linear |-> 0, Quad |-> 3],
   EasingDirection |-> [In |-> 0, Out |-> 1]]
MCRebinds ==
  [FlexMode |-> "UIFlexMode", HorizontalFlex |-> "UIFlexAlignment", VerticalFlex |-> "UIFlexAlignment"]
MCPalette == [red |-> <<6, 2, 1>>, blue |-> <<4, 0, -3>>]
MCBrickColors == "Medium stone grey" :> <<163, 162, 165>> @@ "Really red" :> <<255, 0, 0>>
MCAssetTexts == {"rbxassetid://1"}

MCTokenNames == {"x", "HorizontalAlignment", "missing"}
MCSuperclasses ==
  [GuiObject |-> <<"GuiObject">>, Frame |-> <<"Frame", "GuiObject">>,
   TextLabel |-> <<"TextLabel", "GuiObject">>, UIListLayout |-> <<"UIListLayout">>]

MCProperties ==
  LET Value(type) == [data |-> "Value", type |-> type, hidden |-> FALSE]
      Enum(type) == [data |-> "Enum", type |-> type, hidden |-> FALSE]
  IN  [GuiObject |-> [ZIndex |-> Value("Int32"), BackgroundColor3 |-> Value("Color3"), Size |-> Value("UDim2")],
       TextLabel |-> [TextXAlignment |-> Enum("TextXAlignment"), Text |-> Value("String"),
                      ZIndex |-> [Value("String") EXCEPT !.hidden = TRUE]],
       UIListLayout |-> [HorizontalAlignment |-> Enum("HorizontalAlignment"),
                         HorizontalFlex |-> Enum("UIFlexAlignment")]]

-----------------------------------------------------------------------------
Number(n) == [kind |-> "Number", n |-> n]
Node(kind, name) == [kind |-> kind, name |-> name]
Text(name) == Node("String", name)
Css(name) == Node("Color", name)
Item(name) == Node("Shorthand", name)
Static(name) == Node("StaticToken", name)
Dynamic(name) == Node("Token", name)
Hex(at) == [kind |-> "ColorHex", at |-> at]
Scale(n) == [kind |-> "NumberScale", n |-> n]
Offset(n) == [kind |-> "NumberOffset", n |-> n]
EnumOfItem(sigil, name, item) == [kind |-> "Enum", sigil |-> sigil, name |-> name, item |-> item]
Minus(c) == [kind |-> "UnaryMinus", operand |-> c]
Plus(left, right) == [kind |-> "Math", operators |-> <<"+">>, left |-> left, right |-> <<right>>]

NilToken == [kind |-> "Nil"]
Half == Number(6)
One == Number(12)
Nought == Number(0)
Hundred == Number(1200)
Red == Hex(<<255, 0, 0>>)
Green == Hex(<<0, 255, 0>>)
Arial == Text("Arial")
Center == Item("Center")
True == Node("Boolean", "true")
False == Node("Boolean", "false")
BoldWeight == EnumOfItem(".", "FontWeight", "Bold")
ItalicStyle == EnumOfItem(".", "FontStyle", "Italic")
LeftOf(sigil, enum) == EnumOfItem(sigil, enum, "Left")

Call(name, arg) == AnnotatedTable(name, <<arg>>)
Three(one, two, three) == Table(<<one, two, three>>)
AtStart(c) == Table(<<Nought, c>>)
AtThird(c) == Table(<<Number(4), c>>)
AtHalf(c) == Table(<<Half, c>>)
AtEnd(c) == Table(<<One, c>>)

(* One for each thing that an argument can be.                             *)
Singles ==
  {Nought, Half, One, Hundred, Number(3600), Minus(One), Scale(600), Scale(1200),
   Offset(24), Offset(36),
   Text("Really red"), Arial, Node("RbxAsset", "rbxassetid://1"),
   Node("RbxContent", "contentid://1"), Node("RbxContent", "contentid://2"),
   True, False, NilToken,
   Red, Green, Css("red"), Css("blue"), Css("unknown"),
   Item("Bold"), Item("Italic"), BoldWeight, ItalicStyle}

Composed ==
  {Call("vec2", One), Call("vec2", Half), Call("vec2i16", One), Call("vec2i16", Hundred),
   Call("vec3", One), Call("vec3", Half), Call("vec3i16", One), Call("vec3i16", Hundred),
   Call("oklab", Red), Call("oklch", Green), Call("oklch", Red),
   Call("brickcolor", Text("Really red")), Call("brickcolor", Arial),
   Call("udim2", Half), Call("udim2", One), AnnotatedTable("rgb", <<One, One, One>>),
   AtHalf(Red), AtStart(Green), AtEnd(Red),
   Three(Nought, One, Nought), Three(Half, Nought, Nought), Three(One, Half, Half), Plus(Half, One), Minus(Arial)}

MCArguments == Singles \cup Composed

File(isStrict, content) == [strict |-> isStrict, code |-> content]
Assign(left, right) == [kind |-> "Assignment", left |-> left, right |-> <<right>>]
Property(name) == Node("Property", name)
Rule(selects, body) == [kind |-> "Rule", selects |-> selects, body |-> body]
Pseudo(body) == Rule(<< <<>> >>, body)
Of(class, body) == Rule(<< <<class>> >>, body)
Tween(body) == [kind |-> "Tween", name |-> <<"p">>, body |-> <<body>>]
Priority(body) == [kind |-> "Priority", body |-> <<body>>]

(* One annotation, assigned to a static token.                             *)
Alone(name, args) == File(FALSE, <<Assign(Static("x"), AnnotatedTable(name, args))>>)

(* Arguments by what the annotations of several arguments take.            *)
Scalars == {Nought, Half, Hundred, Minus(One), Scale(600)}
Vectors == {Call("vec3", One), Call("vec3", Half), Call("vec3i16", Hundred)}
Planar == {Call("vec2", One), Call("vec2", Half), Call("vec2i16", Hundred)}
Colors == {Red, Green, Css("red"), Call("oklch", Red), Call("brickcolor", Arial)}
ColorKeys == {Red, Css("blue"), AtHalf(Red), AtStart(Green), AtEnd(Green), AtThird(Red)}
NumberKeys ==
  {Half, Three(Half, Nought, Nought), Three(Nought, One, Nought), Three(One, Half, Half),
   Three(Number(4), One, Nought)}
Assets == {Hundred, Arial, Node("RbxAsset", "rbxassetid://1"), Node("RbxContent", "contentid://1")}
FontParts == {Item("Bold"), Item("Italic"), BoldWeight, ItalicStyle, Text("Enum.FontWeight.Bold")}
Plain == {Half, Hundred, Scale(600), Offset(24), Arial, Plus(Half, One)}

Annotating ==
  {Alone(name, args) :
     name \in AnnotationNames \cup {"nothing"}, args \in BoundedSeq(MCArguments, 1)}
  \cup {Alone(name, <<one, other>>) : name \in AnnotationNames, one, other \in Plain}
  \cup {Alone(name, args) :
          name \in {"vec3", "vec3i16", "cframe", "color3", "rgb", "oklab", "oklch"},
          args \in [1 .. 3 -> Scalars]}
  \cup {Alone("colorseq", args) : args \in [1 .. 2 -> ColorKeys] \cup [1 .. 3 -> ColorKeys]}
  \cup {Alone("numseq", args) :
          args \in [1 .. 2 -> NumberKeys] \cup [1 .. 3 -> NumberKeys]
                   \cup [1 .. 4 -> {Half, Hundred, Three(Half, Nought, Nought)}]}
  \cup {Alone("rect", args) : args \in [1 .. 2 -> Planar]}
  \cup {Alone(name, args) : name \in {"udim2", "rect"}, args \in [1 .. 4 -> {Half, Hundred}]}
  \cup {Alone("cframe", args) : args \in [1 .. 4 -> Vectors]}
  \cup {Alone("cframe", [i \in 1 .. 12 |-> IF i = k THEN Hundred ELSE Half]) : k \in 1 .. 12}
  \cup {Alone("lerp", <<one, other>>) : one, other \in Vectors \cup Planar \cup Colors}
  \cup {Alone("lerp", <<one, other, Half>>) : one, other \in Scalars \cup Colors}
  \cup {Alone("font", <<one, two>>) : one \in Assets, two \in FontParts}
  \cup {Alone("font", <<one, two, three>>) : one \in Assets, two, three \in FontParts}

(* Static tokens in two rules, one within the other: what is assigned to   *)
(* one before the rules, in the outer one and in the inner one, and where  *)
(* it is used after them.                                                  *)
Held == {Half, Arial, Table(<<One, Hundred>>), Minus(Static("x")), NilToken, Css("red")}

Shadowing ==
  LET use == Assign(Property("ZIndex"), Static("x"))
      Inner(held) == Rule(<<>>, <<Assign(Static("x"), held), use>>)
      After(name) == Of("TextLabel", <<Assign(Property(name), Static("x")), Assign(Dynamic("x"), Static("x"))>>)
  IN  {File(FALSE, <<Assign(Static("x"), one),
                     Of("Frame", <<Assign(Static("x"), two), Inner(three), use>>),
                     After(name)>>) :
         one, two, three \in Held, name \in {"ZIndex", "Text"}}

(* A token assigned anew within a rule, and then out of itself.            *)
Rebinding ==
  LET x == Static("x")
      Outer(assignments) == Of("Frame", assignments)
      Inner(name, use) == Rule(<<>>, <<Assign(Static(name), use), Assign(Property("ZIndex"), Static(name))>>)
  IN  {File(FALSE, <<Assign(x, one), Outer(<<Assign(x, two), Inner(name, use)>>)>>) :
         one, two \in Held, name \in {"x", "missing"},
         use \in {x, Table(<<One, x>>), Table(<<x, One>>)}}

(* A token of either kind, the values it may hold, and the ways to use it. *)
Using ==
  LET lefts == {Static("x"), Static("HorizontalAlignment"), Dynamic("x")}
      rights == {Half, Center, Table(<<Center>>), EnumOfItem(".", "TextXAlignment", "Center"),
                 Table(<<Center, Half>>), Dynamic("x"), Table(<<Half, Dynamic("x")>>)}
      uses == {Static("x"), Dynamic("x"), Table(<<Static("x"), One>>), Plus(One, Static("x")),
               AnnotatedTable("rgb", <<Static("x"), Half, Static("HorizontalAlignment")>>)}
      Outer(assignment, use) == Of("Frame", <<assignment, use, Rule(<<>>, <<use>>)>>)
  IN  {File(FALSE, <<Outer(Assign(left, right), Assign(Property(name), use)), Assign(Dynamic("x"), use)>>) :
         left \in lefts, right \in rights, name \in {"ZIndex", "BackgroundColor3"}, use \in uses}

(* Properties in rules of several classes, in both modes.                  *)
Assigning ==
  LET lists == {<<>>, <<"Frame">>, <<"TextLabel">>, <<"Frame", "TextLabel">>,
                <<"UIListLayout", "TextLabel">>, <<"UIListLayout">>, <<"Unknown", "Frame">>}
      names == {"ZIndex", "Text", "TextXAlignment", "HorizontalAlignment", "HorizontalFlex", "Size",
                "BackgroundColor3"}
      values == {Half, Arial, Center, Table(<<Center>>), Item("Fill"), Red, Css("red"),
                 LeftOf(".", "TextXAlignment"), LeftOf(":", "TextXAlignment"), LeftOf(".", "Unknown"),
                 Call("udim2", Half), NilToken, Table(<<EnumOfItem(".", "TextXAlignment", "Top")>>)}
      Twice(selects, assignment) == Rule(selects, <<assignment, Rule(<<>>, <<assignment>>)>>)
  IN  {File(isStrict, <<Twice(selects, Assign(Property(name), value))>>) :
         isStrict \in BOOLEAN, selects \in {<<>>} \cup {<<list>> : list \in lists},
         name \in names, value \in values}

Tweening ==
  LET numbers == {Half, Static("x"), Arial, Plus(Half, Static("x"))}
      linear == EnumOfItem(".", "EasingStyle", "Linear")
      styles == {Item("Quad"), Item("Bold"), linear, EnumOfItem(":", "EasingStyle", "Linear"),
                 EnumOfItem(".", "EasingDirection", "In"), Half}
      keys == {EnumOfItem(".", "KeyCode", "KeypadThree")}
      directions == {Item("In"), EnumOfItem(".", "EasingDirection", "Out"), linear}
      ends == {<<>>, <<One>>, <<One, True>>, <<One, Half>>, <<Half, True, Static("x")>>,
               <<One, False, Half, Half>>, <<Center>>}
      empty == AnnotatedTable("numseq", <<>>)
      bodies == {Half, Static("x"), Red, Table(<<>>), AnnotatedTable("lerp", <<Half, One>>),
                 Call("udim2", Half), empty, Plus(NilToken, empty)}
                \cup {Table(<<one>>) : one \in numbers \cup {Table(<<Half>>)}}
                \cup {Table(<<one, two>>) : one \in numbers, two \in styles \cup keys \cup {Css("unknown")}}
                \cup {Table(<<Half, two, three>> \o rest) :
                        two \in styles, three \in directions, rest \in ends}
  IN  {File(FALSE, <<Assign(Static("x"), held), Pseudo(<<Tween(body), Priority(priority)>>)>>) :
         held \in {Half, Table(<<Half, One>>)}, body \in bodies, priority \in {One, Static("x"), empty}}

(* What lacks a part, and what stands where it may not.                    *)
Unfinished ==
  {File(FALSE,
     <<Assign(Property("Size"), Half), Priority(One), Tween(Half),
       Pseudo(<<Tween(Half), [Tween(Half) EXCEPT !.body = <<>>], [Tween(Half) EXCEPT !.name = <<>>],
                [Assign(Static("x"), One) EXCEPT !.right = <<>>]>>)>>)}

MCFiles ==
  Annotating \cup Shadowing \cup Rebinding \cup Using \cup Assigning \cup Tweening \cup Unfinished

(* Nothing is reported of this file, and five things in it go astray.      *)
LostFile ==
  {File(FALSE,
     <<Assign(Static("x"), Arial),
       Of("TextLabel",
          <<Priority(Static("missing")),
            Tween(Table(<<Half, Css("unknown")>>)),
            Assign(Property("BackgroundColor3"), Call("color3", Red)),
            Assign(Property("TextXAlignment"), LeftOf(":", "TextXAlignment")),
            Rule(<<>>, <<Assign(Static("x"), NilToken), Assign(Property("ZIndex"), Static("x"))>>)>>)>>)}
=============================================================================
