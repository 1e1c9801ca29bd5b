------------------------- MODULE MCSelectorChecker -------------------------
(* Every list of up to four nodes over a small alphabet, and every list of *)
(* two or three selectors as an author writes them, at the top and in a    *)
(* rule for two classes.                                                   *)
EXTENDS SelectorChecker

CONSTANTS frame, label, corner, unknown, inst, hover, nostate

MCName == {frame, label, corner, unknown, inst, hover, nostate}
MCKnown == {frame, label, corner, inst}
MCPseudo == {corner}
MCState == {hover}
MCParents == {<<>>, <<frame, label>>}

N(kind, name) == [kind |-> kind, name |-> name]
Nodes ==
  {N("class", frame), N("class", label), N("class", unknown),
   N("pseudo", corner), N("pseudo", frame), N("state", hover), N("state", nostate),
   N("named", inst), N("query", inst), N("colon", inst), N("comma", inst), N("combinator", inst), N("call", inst)}

Comma == <<N("comma", inst)>>
Child == <<N("combinator", inst)>>
Classes == {<<N("class", c)>> : c \in {frame, label}}
Corner == <<N("pseudo", corner)>>
Written ==
  {<<N("named", inst)>>, <<N("state", hover)>>, Corner}
  \cup Classes
  \cup {Child \o c : c \in Classes}
  \cup {c \o Corner : c \in Classes}
  \cup {Child \o c \o Corner : c \in Classes}

MCLists ==
  SeqOf(Nodes, 4)
  \cup {a \o Comma \o b : a, b \in Written}
  \cup {a \o Comma \o b \o Comma \o c : a, b, c \in Written}

(* In a rule for TextLabel: a state of it, a pseudo instance in a child of *)
(* the same class, and another class in a tag: `:hover,                    *)
(* > TextLabel::UICorner, .Hello > Frame`.                                 *)
LostLists ==
  {<<N("state", hover)>> \o Comma \o Child \o <<N("class", label)>> \o Corner \o Comma
     \o <<N("named", inst)>> \o Child \o <<N("class", frame)>>}
MCNestedOnly == {<<label>>}
=============================================================================
