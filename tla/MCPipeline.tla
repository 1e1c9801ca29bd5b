----------------------------- MODULE MCPipeline -----------------------------
(* Files that define two macros of constructs and one of selectors, in     *)
(* several orders, before or after the constructs that call them, next to  *)
(* one builtin; and files that define a value macro, or a macro in a rule. *)
EXTENDS Pipeline

CONSTANTS v1, v2, None, NoMacroKey

K(name, arity) == [name |-> name, arity |-> arity]
A1 == K("A", 1)
B1 == K("B", 1)
S0 == K("S", 0)
P1 == K("P", 1)
D1 == K("D", 1)
MCKey == {K(n, r) : n \in {"A", "B", "D", "S", "P", "T"}, r \in 0 .. 2}
MCName == {"x", "y", "p"}
MCValue == {v1, v2}

MCCoerce ==
  [q \in {"property", "attribute", "static", "priority", "tween"} \X MCName \X MCValue |->
     IF q[3] = v1 \/ q[1] = "static" THEN q[3] ELSE None]

Lit(v) == [kind |-> "literal", value |-> v]
Arg(n) == [kind |-> "argument", name |-> n]
Val(k) == [kind |-> "call", key |-> k, trailing |-> FALSE]
MCExpr == {Lit(v1), Lit(v2), Lit(None), Arg("x"), Arg("y"), Val(D1), Val(A1)}

Part == [kind |-> "part"]
Comma == [kind |-> "comma"]
Sel(k) == [kind |-> "call", key |-> k, trailing |-> FALSE]
MCSelector == {Part, Comma} \cup {Sel(k) : k \in {S0, A1, K("S", 1), K("T", 0)}}

Assign(store, n, e) == [kind |-> "set", store |-> store, name |-> n, right |-> e]
CallWith(k, e, t) == [kind |-> "call", key |-> k, args |-> <<e>>, trailing |-> t]
Call(k, e) == CallWith(k, e, FALSE)
Rule(sel, body) == [kind |-> "rule", selectors |-> sel, body |-> body]

Construct(q) == [kind |-> "construct", content |-> q]
Selectors(q) == [kind |-> "selector", content |-> q]
Datatype(e) == [kind |-> "datatype", content |-> e]
Def(k, args, body, returns) ==
  [kind |-> "macro", key |-> k, macro |-> [args |-> args, body |-> body], returns |-> returns]

ABodies == { <<Assign("static", "x", Arg("x"))>>,
             <<Call(B1, Arg("x")), Assign("tween", "p", Arg("x"))>>,
             <<Rule(<<Sel(S0)>>, <<Call(A1, Arg("x"))>>)>>,
             <<Rule(<<Part>>, <<Call(P1, Lit(v1)), Call(B1, Lit(v2))>>)>> }
BBodies == { <<Assign("attribute", "p", Arg("y"))>>,
             <<Call(A1, Arg("y")), Call(P1, Arg("y"))>>,
             <<Call(A1, Arg("x"))>>,
             <<Call(K("S", 1), Lit(v1))>>,
             <<Assign("attribute", "p", Arg("x"))>>,
             <<Rule(<<Part, Comma, Sel(S0)>>, <<Call(P1, Arg("y"))>>)>> }
SBodies == { <<Part, Comma, Part>>, <<Part, Comma, Sel(S0)>>, <<Sel(A1)>> }

Defs ==
  {<<Def(A1, <<"x">>, Construct(a), "construct"), Def(B1, <<"y">>, Construct(b), "construct"),
     Def(S0, <<>>, Selectors(s), "selector")>> : a \in ABodies, b \in BBodies, s \in SBodies}
  \cup {<<Def(A1, <<"x">>, Construct(a), "construct"),
          Def(S0, <<>>, Selectors(<<Part>>), "selector"),
          Def(A1, <<"x">>, Construct(<<Call(P1, Arg("x"))>>), "construct")>> : a \in ABodies}

(* A value macro next to a macro of constructs; the value is its argument, *)
(* another's, a constant, or a call of a macro of either kind.             *)
ValueDefs ==
  {<<Def(D1, <<"x">>, Datatype(e), "datatype"), Def(A1, <<"x">>, Construct(a), "construct")>> :
     e \in {Arg("x"), Arg("y"), Lit(v1), Val(D1), Val(A1)},
     a \in {<<Assign("attribute", "p", Val(D1))>>,
            <<Call(B1, Arg("x")), Assign("attribute", "p", Arg("x"))>>}}

(* A macro that is defined in a rule, where the compiler does not see it.  *)
InnerDefs == {Def(B1, <<"y">>, Construct(b), "construct") :
                b \in {<<Assign("attribute", "p", Arg("y"))>>, <<Call(A1, Arg("x"))>>}}

Orders == {<<1, 2, 3>>, <<3, 2, 1>>, <<2, 3, 1>>}
Ordered(q, order) == [i \in 1 .. 3 |-> q[order[i]]]

Tops ==
  { <<Call(A1, Lit(v1)), Rule(<<Part, Comma, Sel(S0), Comma>>, <<Call(B1, Lit(v1))>>)>>,
    <<Rule(<<Sel(S0)>>, <<Rule(<<Part>>, <<Call(A1, Arg("x"))>>), Call(P1, Lit(v2))>>)>>,
    <<Rule(<<Sel(S0), Comma, Sel(K("S", 1))>>, <<Call(B1, Lit(v2))>>)>> }

ValueTops ==
  { <<Assign("attribute", "p", Val(D1)), Call(A1, Lit(v2))>>,
    <<Rule(<<Part>>, <<Assign("attribute", "p", Val(A1))>>)>> }
InnerTops == {<<Rule(<<Part>>, <<d, Call(A1, Lit(v1))>>)>> : d \in InnerDefs}

MCFiles ==
  [code : {Ordered(d, o) \o t : d \in Defs, o \in Orders, t \in Tops}
          \cup {t \o d : d \in Defs, t \in Tops}
          \cup {d \o t : d \in ValueDefs, t \in ValueTops \cup InnerTops}
          \cup {t \o d : d \in ValueDefs, t \in ValueTops \cup InnerTops},
   nobuiltins : {FALSE}]

(* A file with --!nobuiltins: `S!(), T!() { P!(v1); }`, where S is defined,*)
(* T nowhere, and P only among the builtins.                               *)
LostCallsFiles ==
  [code : {<<Def(S0, <<>>, Selectors(<<Part, Comma, Part>>), "selector"),
             Rule(<<Sel(S0), Comma, Sel(K("T", 0))>>, <<Call(P1, Lit(v1))>>)>>},
   nobuiltins : {TRUE}]

(* The one builtin, in the shape of CornerRadius.                          *)
BuiltinBody == <<Rule(<<Part>>, <<Assign("property", "p", Arg("x"))>>)>>
MCBuiltins == P1 :> [args |-> <<"x">>, body |-> Construct(BuiltinBody)]

(* The constructs of a sequence with all that is nested in them, and how   *)
(* deep the rules of a construct nest.                                     *)
RECURSIVE All(_), LevelsOf(_)
All(q) ==
  UNION {CASE c.kind = "rule" -> {c} \cup All(c.body)
           [] c.kind = "macro" -> {c} \cup All(c.macro.body.content)
           [] OTHER -> {c} : c \in Range(q)}
LevelsOf(c) ==
  IF c.kind = "rule" THEN 1 + Max({0} \cup {LevelsOf(i) : i \in Range(c.body)}) ELSE 0

MCItem ==
  LET code == UNION {Range(f.code) : f \in MCFiles \cup LostCallsFiles}
      bodies == {c.macro.body.content : c \in {d \in code : d.kind = "macro" /\ d.returns = "construct"}}
  IN  All(BuiltinBody) \cup UNION {All(<<c>>) : c \in {d \in code : d.kind # "macro"}}
        \cup UNION {All(q) : q \in bodies}
MCLevels == [c \in MCItem |-> LevelsOf(c)]
=============================================================================
