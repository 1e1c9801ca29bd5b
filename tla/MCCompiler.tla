----------------------------- MODULE MCCompiler -----------------------------
(* Files with two local construct macros, a selector macro and a builtin,  *)
(* whose bodies assign, open rules, and call each other and themselves.    *)
EXTENDS MacroSubstitution, SequencesExt

CONSTANTS v1, v2,          \* values
          None, NoMacroKey \* Nil and NoKey

MCKey == {"A/1", "B/1", "S/0", "P/1"}
MCName == {"x", "y", "p"}
MCValue == {v1, v2}

(* v2 is stored as it is by static tokens only, like a table whose first   *)
(* entry, v1, is what a property gets; it is no priority and no tween.     *)
MCCoerce ==
  [x \in Store \X MCName \X MCValue |->
     IF x[3] = v1 \/ x[1] = "static" THEN x[3]
     ELSE IF x[1] \in {"property", "attribute"} THEN v1 ELSE None]

Lit(v) == [kind |-> "literal", value |-> v]
Arg(n) == [kind |-> "argument", name |-> n]
Static(n) == [kind |-> "static", name |-> n]
MCExpr == {Lit(v1), Lit(v2), Lit(None), Arg("x"), Arg("y"), Static("x"),
           [kind |-> "call", key |-> "B/1"]}

Part == [kind |-> "part"]
Comma == [kind |-> "comma"]
Sel(k) == [kind |-> "call", key |-> k]
MCSelector == {Part, Comma, Sel("S/0"), Sel("A/1")}

Assign(store, n, e) == [kind |-> "set", store |-> store, name |-> n, right |-> e]
Call(k, e) == [kind |-> "call", key |-> k, args |-> <<e>>]
Rule(sel, body) == [kind |-> "rule", selectors |-> sel, body |-> body]
Inert == [kind |-> "inert"]

Construct(q) == [kind |-> "construct", content |-> q]
InnerMacro == [kind |-> "macro", key |-> "P/1",
               macro |-> [args |-> <<"y">>, body |-> Construct(<<Assign("static", "x", Lit(v2))>>)]]
Def(k, args, body) == [key |-> k, macro |-> [args |-> args, body |-> body]]

(* Bodies of a macro whose argument is x, and which may call key.          *)
Bodies(key) ==
  { <<Assign("static", "x", Arg("x")), Call(key, Static("x"))>>,
    <<Rule(<<Part>>, <<Assign("static", "x", Lit(v2)), Call(key, Arg("x"))>>)>>,
    <<Call("P/1", Arg("x")), Rule(<<Sel("S/0"), Comma, Part>>, <<Call(key, Lit(v1))>>)>>,
    <<Call("A/1", Arg("x")), Assign("attribute", "p", Arg("y"))>> }

SelectorLists ==
  {<<Part, Comma, Part>>, <<Part, Comma, Sel("S/0")>>, <<Comma, Sel("A/1"), Part>>}
SelectorBodies == {[kind |-> "selector", content |-> q] : q \in SelectorLists} \cup {NoBody}

Tops ==
  { <<Assign("static", "x", Lit(v1)), Call("A/1", Static("x"))>>,
    <<Rule(<<Part, Comma, Sel("S/0"), Comma>>,
           <<Assign("static", "x", Lit(v1)), Call("A/1", Static("x")),
             InnerMacro, Assign("priority", "p", Static("x"))>>), Inert>>,
    <<Rule(<<Sel("S/0")>>,
           <<Rule(<<Comma, Part, Sel("S/0")>>, <<Call("B/1", Lit(None))>>),
             Assign("tween", "p", [kind |-> "call", key |-> "B/1"])>>),
      Call("A/1", Lit(v2))>> }

OwnP == <<Call("A/1", Arg("y"))>>

MCPrograms ==
  [top : Tops,
   macros : {<<Def("A/1", <<"x">>, Construct(a)), Def("B/1", <<n>>, Construct(b)), Def("S/0", <<>>, s)>> :
               a \in Bodies("B/1"), b \in Bodies("P/1"), n \in {"x", "y"}, s \in SelectorBodies}
            \cup
            {<<Def("P/1", <<"y">>, body), Def("A/1", <<"y">>, NoBody),
               Def("A/1", <<"x">>, Construct(a))>> :
               a \in Bodies("P/1"), body \in {NoBody, Construct(OwnP), [kind |-> "datatype", content |-> Arg("y")]}},
   nobuiltins : BOOLEAN]

(* One builtin, in the shape of CornerRadius: a rule with an assignment.   *)
BuiltinBody == <<Rule(<<Part>>, <<Assign("property", "p", Arg("x"))>>)>>
MCBuiltins == "P/1" :> [args |-> <<"x">>, body |-> Construct(BuiltinBody)]

(* Every construct that occurs in these files: rules nest two deep.        *)
Inside(items) == items \cup UNION {Range(c.body) : c \in {r \in items : r.kind = "rule"}}
MCItem ==
  Inside(Inside(UNION {Range(q) : q \in Tops \cup Bodies("B/1") \cup Bodies("P/1")
                                        \cup {OwnP, BuiltinBody}}))

(* Rules nest two deep, and what is in no rule's body is a level above.    *)
MCLevels ==
  [c \in MCItem |-> IF c.kind # "rule" THEN 0
                    ELSE IF \E i \in DOMAIN c.body : c.body[i].kind = "rule" THEN 2 ELSE 1]

ASSUME Finite == IsFiniteSet(DOMAIN Builtins) /\ Nesting(MCLevels)
=============================================================================
