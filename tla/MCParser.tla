------------------------------ MODULE MCParser ------------------------------
(* Files written from trees, the same files with a lexeme removed or added,*)
(* and every short sequence of lexemes.                                    *)
EXTENDS Parser

L(word) == [kind |-> "Node", word |-> word, parts |-> <<>>]
T(kind, parts) == [kind |-> kind, word |-> "", parts |-> parts]
Words(q) == [i \in DOMAIN q |-> L(q[i])]

RECURSIVE Written(_)
Written(c) ==
  IF c.kind = "Node" THEN <<c.word>>
  ELSE FlattenSeq([i \in DOMAIN c.parts |-> Written(c.parts[i])])
WrittenAll(q) == FlattenSeq([i \in DOMAIN q |-> Written(q[i])])

(* Values.                                                                 *)
In(parts) == T("Delimited", <<L("(")>> \o parts \o <<L(")")>>)
Product == T("Math", Words(<<"2", "*", "3">>))
Minus(word) == T("UnaryMinus", Words(<<"-", word>>))
Pair(a, b) == In(<<a, L(","), b>>)
Value1 == T("Math", <<L("1"), L("+"), Product>>)
Value2 == T("AnnotatedTable", <<L("name"), Pair(T("Table", <<Pair(L("1"), L("3"))>>), L("2"))>>)
Values ==
  { L("1"), Minus("1"), Value1,
    T("Math", <<Product, L("-"), L("-"), L("$name")>>),
    T("Math", <<T("Math", <<Product, L("+"), L("1")>>), L("+"), L("$!name")>>),
    T("Enum", Words(<<"Enum", ".name", ".name">>)),
    T("AnnotatedTable", <<L("name"), Pair(L("1"), T("Table", <<In(<<>>)>>))>>),
    T("Table", <<Pair(T("MacroCall", <<L("name!"), In(<<Minus("2")>>)>>), L(":name"))>>) }

(* Constructs without a body, and with one.                                *)
Set(left, value) == T("Assignment", <<L(left), L("="), value, L(";")>>)
Call == T("MacroCall", <<L("name!"), Pair(L("1"), L("&name")), L(";")>>)
CallSelector == T("MacroCall", <<L("name!"), In(<<>>)>>)
Plain ==
  {Set("name", v) : v \in Values \cup {CallSelector}}
  \cup {Set("$name", L("1")), Set("$!name", Value1), Call}
  \cup {T("Derive", <<L("@derive"), L("1"), L(";")>>),
        T("Priority", <<L("@priority"), Minus("1"), L(";")>>),
        T("Tween", <<L("@tween"), L("name"), T("Table", <<Pair(L("1"), L(":name"))>>), L(";")>>)}

Braces(content) == <<L("{")>> \o content \o <<L("}")>>
Heads ==
  { <<>>, <<L("name")>>, Words(<<"#name", ">", "name", ",", ".name", ":name">>),
    Words(<<"@name", ">>", "::name">>),
    <<CallSelector, L(","), L("name")>>, <<L("name"), CallSelector, L(","), L(".name")>>,
    <<L("name"), L(","), CallSelector>>, <<CallSelector>> }
MacroHeads ==
  { Words(<<"@macro", "name">>),
    Words(<<"@macro", "name", "->", "Construct">>),
    <<L("@macro"), L("name"), T("Delimited", Words(<<"(", "&name", ",", "&name", ")">>)),
      L("->"), L("Construct")>>,
    <<L("@macro"), L("name"), T("Delimited", Words(<<"(", ")">>))>> }
Rules(contents) == {T("Rule", h \o Braces(q)) : h \in Heads, q \in contents}
Macros(contents) == {T("Macro", h \o Braces(q)) : h \in MacroHeads, q \in contents}
OtherMacros ==
  { T("Macro", Words(<<"@macro", "name", "->", "Datatype">>) \o Braces(<<Value1>>)),
    T("Macro", Words(<<"@macro", "name", "->", "Selector">>)
                 \o Braces(<<L("name"), L(","), CallSelector>>)),
    T("Macro", Words(<<"@macro", "name", "->", "Selector">>) \o Braces(<<CallSelector, L(".name")>>)) }

A1 == Set("name", L("1"))
Shallow == {<<>>, <<A1>>, <<Call, A1>>, <<Set("$name", Minus("1")), Call>>}
Nested == {<<r, A1>> : r \in Rules({<<A1>>})} \cup {<<Call, T("Rule", <<L("name")>> \o Braces(<<>>))>>}
Trees ==
  {<<c>> : c \in Plain \cup Rules(Shallow \cup Nested) \cup Macros(Shallow \cup Nested) \cup OtherMacros}
  \cup {<<c, d>> : c \in Plain \cup OtherMacros \cup Rules({<<A1>>}),
                   d \in Plain \cup Macros({<<A1>>})}

Fresh(words) == [file |-> words, meant |-> {}]
WithTree(q) == [file |-> WrittenAll(q), meant |-> {q}]

(* Trivia at the head of a file or between two constructs.                 *)
Commented ==
  {[file |-> <<t, u>> \o WrittenAll(<<A1>>), meant |-> IF t \in {"--!", "--!other"} THEN {} ELSE {<<A1>>}] :
     t \in Directives \cup {"--"}, u \in {"--!strict", "--", "--!nobuiltins"}}
  \cup {Fresh(WrittenAll(<<A1>>) \o <<t>> \o WrittenAll(<<A1>>)) : t \in Trivia \ {"--[["}}
  \cup {Fresh(WrittenAll(<<A1>>) \o <<t>>) : t \in {"--", "--[[", "--!strict"}}
  \cup {Fresh(<<>>), Fresh(<<"--">>), Fresh(<<"name", "=", "[[">>)}

(* Files with one lexeme removed or added.                                 *)
Stray == {"{", "}", "(", ")", ";", ",", "Error", "name!", "-"}
Damaged ==
  LET bases == {WrittenAll(<<T("Rule", h \o Braces(<<Call, Set("name", Value2)>>)), A1>>) :
                  h \in Heads}
               \cup {WrittenAll(<<m, A1>>) : m \in Macros({<<A1>>}) \cup OtherMacros}
               \cup {WrittenAll(<<Set("$name", v), A1>>) : v \in Values}
               \cup {WrittenAll(<<T("Rule", <<L("name")>> \o Braces(<<c>>)), A1>>) : c \in Plain}
  IN  UNION {{RemoveAt(b, i) : i \in DOMAIN b}
             \cup {InsertAt(b, i, w) : i \in DOMAIN b, w \in Stray} : b \in bases}

(* Every file of up to four lexemes out of these.                          *)
Short == UNION {[1 .. n -> {"name", "name!", "{", "}", "(", ")", ";", "="}] : n \in 1 .. 4}

MCFiles ==
  {WithTree(q) : q \in Trees} \cup Commented
  \cup {Fresh(b) : b \in Damaged} \cup {Fresh(w) : w \in Short}
=============================================================================
