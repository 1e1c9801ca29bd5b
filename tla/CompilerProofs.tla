--------------------------- MODULE CompilerProofs ---------------------------
(* Proofs about Compiler: for every file and every registry of builtins,   *)
(* the stacks, the guard, the bindings and the tree agree at every step,   *)
(* and what is built, with what the stacks still hold, is the meaning that *)
(* MacroSubstitution gives to the file.                                    *)
EXTENDS MacroSubstitution, SequenceTheorems, FiniteSetTheorems, WellFoundedInduction, TLAPS

(* The definitions of a macro are in positions, so one of them is last.    *)
LEMMA LastExists ==
  ASSUME NEW n \in Nat, NEW S \in SUBSET (1 .. n), S # {}
  PROVE  \E i \in S : \A j \in S : j <= i
<1> DEFINE T == {m \in Nat : n - m \in S}
<1>1. T \subseteq Nat /\ T # {}
  <2>1. PICK i \in S : TRUE
    OBVIOUS
  <2>2. n - i \in Nat /\ n - (n - i) = i
    OBVIOUS
  <2>. QED BY <2>1, <2>2
<1>2. PICK m \in T : \A k \in T : ~ (<<k, m>> \in OpToRel(<, Nat))
  BY <1>1, NatLessThanWellFounded, WFMin, Zenon
<1>3. \A k \in T : ~ (k < m)
  <2> TAKE k \in T
  <2>1. ~ (<<k, m>> \in OpToRel(<, Nat))
    BY <1>2
  <2>2. <<k, m>> \in Nat \X Nat
    OBVIOUS
  <2>. QED BY <2>1, <2>2 DEF OpToRel
<1>4. \A j \in S : j <= n - m
  <2> TAKE j \in S
  <2>1. n - j \in T
    OBVIOUS
  <2>. QED BY <2>1, <1>3
<1>. QED BY <1>4

LEMMA ElementFacts ==
  ASSUME NEW S, NEW q \in Seq(S)
  PROVE  /\ Len(q) \in Nat
         /\ DOMAIN q = 1 .. Len(q)
         /\ \A i \in DOMAIN q : q[i] \in S
OBVIOUS

(* Popping the last element of a stack.                                    *)
LEMMA PopFacts ==
  ASSUME NEW S, NEW q \in Seq(S), q # <<>>
  PROVE  /\ Len(q) \in Nat \ {0}
         /\ SubSeq(q, 1, Len(q) - 1) \in Seq(S)
         /\ Len(SubSeq(q, 1, Len(q) - 1)) = Len(q) - 1
         /\ \A i \in 1 .. Len(q) - 1 : SubSeq(q, 1, Len(q) - 1)[i] = q[i]
<1>1. Len(q) \in Nat \ {0} /\ \A i \in 1 .. Len(q) : q[i] \in S
  OBVIOUS
<1> DEFINE n == Len(q) - 1
<1>2. n \in Nat /\ n \in Int /\ 1 \in Int /\ \A i \in 1 .. n : q[i] \in S
  BY <1>1
<1> HIDE DEF n
<1>3. /\ SubSeq(q, 1, n) \in Seq(S)
      /\ Len(SubSeq(q, 1, n)) = IF 1 <= n THEN n - 1 + 1 ELSE 0
      /\ \A i \in 1 .. n - 1 + 1 : SubSeq(q, 1, n)[i] = q[1 + i - 1]
  BY <1>2, SubSeqProperties
<1>4. Len(SubSeq(q, 1, n)) = n
  BY <1>2, <1>3
<1>5. \A i \in 1 .. n : SubSeq(q, 1, n)[i] = q[i]
  <2> TAKE i \in 1 .. n
  <2>1. i \in 1 .. n - 1 + 1 /\ 1 + i - 1 = i
    BY <1>2
  <2>. QED BY <1>3, <2>1
<1>. QED BY <1>1, <1>3, <1>4, <1>5 DEF n

-----------------------------------------------------------------------------
(* What lookups return.                                                    *)

LEMMA ResolveType ==
  ASSUME TypeOK, NEW key
  PROVE  Resolve(key) \in Macro
<1>1. NoMacro \in Macro
  BY DEF NoMacro, Macro, Body
<1>2. program.macros \in Seq([key : Key, macro : Macro])
  BY ProgramsAssumption DEF TypeOK
<1>3. Local(key) \in Macro
  <2> DEFINE ms == program.macros
             defs == {i \in DOMAIN ms : ms[i].key = key}
  <2>1. CASE defs = {}
    BY <2>1, <1>1 DEF Local
  <2>2. CASE defs # {}
    <3>1. Len(ms) \in Nat /\ defs \in SUBSET (1 .. Len(ms))
      BY <1>2
    <3>2. \E i \in defs : \A j \in defs : j <= i
      BY <3>1, <2>2, LastExists
    <3>3. (CHOOSE i \in defs : \A j \in defs : j <= i) \in DOMAIN ms
      BY <3>2
    <3>4. \A i \in DOMAIN ms : ms[i] \in [key : Key, macro : Macro]
      BY <1>2, ElementFacts, Zenon
    <3>. QED BY <2>2, <3>3, <3>4 DEF Local
  <2>. QED BY <2>1, <2>2
<1>. QED BY <1>1, <1>3, BuiltinsAssumption DEF Resolve

(* A frame binds arguments to call arguments of the innermost scope.       *)
LEMMA FrameType ==
  ASSUME TypeOK, NEW args \in Seq(Name), NEW values \in Seq(Expr)
  PROVE  /\ Frame(args, values) \in [Name -> BoundArg]
         /\ \A n \in Name : Frame(args, values)[n] # Unbound
                              => Frame(args, values)[n].scope = Len(bindings)
<1>0. Len(bindings) \in Nat
  BY DEF TypeOK
<1>1. Unbound \in BoundArg
  BY NilAssumption DEF Unbound, BoundArg
<1> SUFFICES ASSUME NEW n \in Name
             PROVE  /\ Frame(args, values)[n] \in BoundArg
                    /\ Frame(args, values)[n] # Unbound
                         => Frame(args, values)[n].scope = Len(bindings)
  BY DEF Frame
<1> DEFINE at == {i \in DOMAIN args \cap DOMAIN values : args[i] = n}
           last == CHOOSE i \in at : \A j \in at : j <= i
<1>2. CASE at = {}
  BY <1>1, <1>2 DEF Frame
<1>3. CASE at # {}
  <2>1. Len(args) \in Nat /\ at \in SUBSET (1 .. Len(args))
    OBVIOUS
  <2>2. \E i \in at : \A j \in at : j <= i
    BY <2>1, <1>3, LastExists
  <2>3. last \in DOMAIN values
    BY <2>2
  <2>4. values[last] \in Expr
    BY <2>3
  <2>5. Frame(args, values)[n] = [construct |-> values[last], scope |-> Len(bindings)]
    BY <1>3 DEF Frame
  <2>. QED BY <2>4, <2>5, <1>0 DEF BoundArg
<1>. QED BY <1>2, <1>3

-----------------------------------------------------------------------------
(* The stacks.                                                             *)

LEMMA ScopeFacts ==
  ASSUME TypeOK
  PROVE  /\ Len(scopes) \in Nat \ {0}
         /\ DOMAIN scopes = 1 .. Len(scopes)
         /\ \A i \in 1 .. Len(scopes) :
              /\ scopes[i] \in ScopeType
              /\ scopes[i].key \in Key \cup {NoKey}
              /\ scopes[i].blocks \in Seq(BlockType)
              /\ Len(scopes[i].blocks) \in Nat \ {0}
              /\ \A b \in 1 .. Len(scopes[i].blocks) : scopes[i].blocks[b] \in BlockType
<1>1. scopes \in Seq(ScopeType) /\ scopes # <<>> /\ \A i \in DOMAIN scopes : scopes[i].blocks # <<>>
  BY DEF TypeOK
<1>2. Len(scopes) \in Nat \ {0} /\ DOMAIN scopes = 1 .. Len(scopes)
  BY <1>1
<1>3. \A i \in 1 .. Len(scopes) : scopes[i] \in ScopeType
  BY <1>1, <1>2, ElementFacts, Zenon
<1> SUFFICES ASSUME NEW i \in 1 .. Len(scopes)
             PROVE  /\ scopes[i] \in ScopeType
                    /\ scopes[i].key \in Key \cup {NoKey}
                    /\ scopes[i].blocks \in Seq(BlockType)
                    /\ Len(scopes[i].blocks) \in Nat \ {0}
                    /\ \A b \in 1 .. Len(scopes[i].blocks) : scopes[i].blocks[b] \in BlockType
  BY <1>2
<1>4. scopes[i].key \in Key \cup {NoKey} /\ scopes[i].blocks \in Seq(BlockType)
  BY <1>3 DEF ScopeType
<1>5. scopes[i].blocks # <<>>
  BY <1>1, <1>2
<1>6. Len(scopes[i].blocks) \in Nat \ {0} /\ DOMAIN scopes[i].blocks = 1 .. Len(scopes[i].blocks)
  BY <1>4, <1>5
<1>7. \A b \in 1 .. Len(scopes[i].blocks) : scopes[i].blocks[b] \in BlockType
  BY <1>4, <1>6, ElementFacts, Zenon
<1>. QED BY <1>3, <1>4, <1>6, <1>7

LEMMA BlockFacts ==
  ASSUME TypeOK
  PROVE  /\ Scope \in ScopeType
         /\ Scope.blocks \in Seq(BlockType)
         /\ Len(Scope.blocks) \in Nat \ {0}
         /\ Block \in BlockType
         /\ Block.code \in Seq(Item)
         /\ Len(Block.code) \in Nat
         /\ Block.next \in Nat \ {0}
         /\ Block.saved \in Nat \ {0}
         /\ Block.next <= Len(Block.code) => Current \in Item
<1>1. Scope \in ScopeType /\ Scope.blocks \in Seq(BlockType) /\ Len(Scope.blocks) \in Nat \ {0}
  BY ScopeFacts DEF Scope
<1>2. Block \in BlockType
  BY ScopeFacts DEF Scope, Block
<1>3. Block.code \in Seq(Item) /\ Block.next \in Nat \ {0} /\ Block.saved \in Nat \ {0}
  BY <1>2 DEF BlockType
<1>4. Len(Block.code) \in Nat /\ DOMAIN Block.code = 1 .. Len(Block.code)
  BY <1>3
<1>5. Block.next <= Len(Block.code) => Current \in Item
  BY <1>3, <1>4, ElementFacts DEF Current
<1>. QED BY <1>1, <1>2, <1>3, <1>4, <1>5

(* Moving on in the innermost block changes its position only.             *)
LEMMA AdvancedFacts ==
  ASSUME TypeOK
  PROVE  /\ Advanced \in Seq(ScopeType)
         /\ Len(Advanced) = Len(scopes)
         /\ \A i \in 1 .. Len(scopes) :
              /\ Advanced[i].key = scopes[i].key
              /\ Advanced[i].blocks \in Seq(BlockType)
              /\ Len(Advanced[i].blocks) = Len(scopes[i].blocks)
              /\ \A b \in 1 .. Len(scopes[i].blocks) :
                   /\ Advanced[i].blocks[b].saved = scopes[i].blocks[b].saved
                   /\ Advanced[i].blocks[b].code = scopes[i].blocks[b].code
<1> DEFINE n == Len(scopes)
           m == Len(Scope.blocks)
           b1 == [Block EXCEPT !.next = @ + 1]
           q1 == [Scope.blocks EXCEPT ![m] = b1]
           s1 == [Scope EXCEPT !.blocks = q1]
<1>1. Block.next + 1 \in Nat \ {0}
  BY BlockFacts
<1>2. b1 \in BlockType /\ b1.saved = Block.saved /\ b1.code = Block.code
  BY <1>1, BlockFacts DEF BlockType
<1>3. /\ q1 \in Seq(BlockType) /\ Len(q1) = m
      /\ \A b \in 1 .. m : /\ q1[b].saved = Scope.blocks[b].saved
                            /\ q1[b].code = Scope.blocks[b].code
  <2> HIDE DEF b1
  <2>1. q1 \in Seq(BlockType) /\ Len(q1) = m
    BY <1>2, BlockFacts
  <2>2. \A b \in 1 .. m : /\ q1[b].saved = Scope.blocks[b].saved
                          /\ q1[b].code = Scope.blocks[b].code
    BY <1>2, BlockFacts DEF Block
  <2>. QED BY <2>1, <2>2
<1>4. s1 \in ScopeType /\ s1.key = Scope.key /\ s1.blocks = q1
  <2> HIDE DEF q1
  <2>. QED BY <1>3, BlockFacts DEF ScopeType
<1>5. Advanced = [scopes EXCEPT ![n] = s1]
  BY DEF Advanced, Scope, Block
<1> HIDE DEF s1, q1, b1
<1>6. scopes \in Seq(ScopeType) /\ n \in 1 .. Len(scopes) /\ n \in DOMAIN scopes
  BY ScopeFacts DEF TypeOK
<1>7. Advanced \in Seq(ScopeType) /\ Len(Advanced) = n
  BY <1>4, <1>5, <1>6
<1>8. \A i \in 1 .. n : Advanced[i] = IF i = n THEN s1 ELSE scopes[i]
  BY <1>5, <1>6
<1>. QED BY <1>3, <1>4, <1>7, <1>8, ScopeFacts DEF Scope

LEMMA AppendFacts ==
  ASSUME NEW S, NEW q \in Seq(S), NEW x \in S
  PROVE  /\ Append(q, x) \in Seq(S) /\ Append(q, x) # <<>>
         /\ Len(Append(q, x)) = Len(q) + 1
         /\ \A i \in 1 .. Len(q) : Append(q, x)[i] = q[i]
         /\ Append(q, x)[Len(q) + 1] = x
OBVIOUS

LEMMA UpdateFacts ==
  ASSUME NEW S, NEW q \in Seq(S), NEW n \in 1 .. Len(q), NEW x \in S
  PROVE  /\ [q EXCEPT ![n] = x] \in Seq(S)
         /\ Len([q EXCEPT ![n] = x]) = Len(q)
         /\ \A i \in 1 .. Len(q) : [q EXCEPT ![n] = x][i] = IF i = n THEN x ELSE q[i]
OBVIOUS

(* Opening a block in the innermost scope, and closing it.                 *)
LEMMA PushBlockFacts ==
  ASSUME NEW q \in Seq(ScopeType), q # <<>>, NEW blk \in BlockType,
         NEW r, r = [q EXCEPT ![Len(q)].blocks = Append(@, blk)]
  PROVE  /\ r \in Seq(ScopeType)
         /\ Len(r) = Len(q)
         /\ \A i \in 1 .. Len(q) : /\ r[i].key = q[i].key
                                   /\ i < Len(q) => r[i] = q[i]
         /\ r[Len(q)].blocks = Append(q[Len(q)].blocks, blk)
<1> DEFINE n == Len(q)
           s1 == [q[n] EXCEPT !.blocks = Append(@, blk)]
<1>1. n \in Nat \ {0} /\ n \in 1 .. n /\ q[n] \in ScopeType
  OBVIOUS
<1>2. q[n].blocks \in Seq(BlockType)
  BY <1>1 DEF ScopeType
<1>3. Append(q[n].blocks, blk) \in Seq(BlockType)
  BY <1>2
<1>4. s1 \in ScopeType /\ s1.key = q[n].key /\ s1.blocks = Append(q[n].blocks, blk)
  BY <1>1, <1>3 DEF ScopeType
<1>5. r = [q EXCEPT ![n] = s1]
  OBVIOUS
<1> HIDE DEF s1
<1>6. r \in Seq(ScopeType) /\ Len(r) = n /\ \A i \in 1 .. n : r[i] = IF i = n THEN s1 ELSE q[i]
  <2>1. n \in 1 .. Len(q)
    BY <1>1
  <2> DEFINE u == [q EXCEPT ![n] = s1]
  <2>2. /\ u \in Seq(ScopeType) /\ Len(u) = Len(q)
        /\ \A i \in 1 .. Len(q) : u[i] = IF i = n THEN s1 ELSE q[i]
    BY <2>1, <1>4, UpdateFacts
  <2> HIDE DEF u
  <2>. QED BY <2>2, <1>5 DEF u
<1>. QED BY <1>1, <1>4, <1>6

(* The stacks with the innermost block closed.                             *)
PopBlock(q) == [q EXCEPT ![Len(q)].blocks = SubSeq(@, 1, Len(@) - 1)]

LEMMA PopBlockFacts ==
  ASSUME NEW q \in Seq(ScopeType), q # <<>>, q[Len(q)].blocks # <<>>
  PROVE  /\ PopBlock(q) \in Seq(ScopeType)
         /\ Len(PopBlock(q)) = Len(q)
         /\ \A i \in 1 .. Len(q) : /\ PopBlock(q)[i].key = q[i].key
                                   /\ i < Len(q) => PopBlock(q)[i] = q[i]
         /\ Len(q[Len(q)].blocks) \in Nat \ {0}
         /\ Len(PopBlock(q)[Len(q)].blocks) = Len(q[Len(q)].blocks) - 1
         /\ \A b \in 1 .. Len(q[Len(q)].blocks) - 1 : PopBlock(q)[Len(q)].blocks[b] = q[Len(q)].blocks[b]
<1> DEFINE n == Len(q)
           bs == q[n].blocks
           p == SubSeq(bs, 1, Len(bs) - 1)
           r == PopBlock(q)
           s1 == [q[n] EXCEPT !.blocks = p]
<1>1. n \in Nat \ {0} /\ n \in 1 .. n /\ q[n] \in ScopeType
  OBVIOUS
<1>2. bs \in Seq(BlockType)
  BY <1>1 DEF ScopeType
<1>3. /\ Len(bs) \in Nat \ {0} /\ p \in Seq(BlockType) /\ Len(p) = Len(bs) - 1
      /\ \A b \in 1 .. Len(bs) - 1 : p[b] = bs[b]
  BY <1>2, PopFacts
<1>5. r = [q EXCEPT ![n] = s1]
  BY DEF PopBlock
<1> HIDE DEF r
<1> HIDE DEF p
<1>4. s1 \in ScopeType /\ s1.key = q[n].key /\ s1.blocks = p
  BY <1>1, <1>3 DEF ScopeType
<1> HIDE DEF s1
<1>6. r \in Seq(ScopeType) /\ Len(r) = n /\ \A i \in 1 .. n : r[i] = IF i = n THEN s1 ELSE q[i]
  <2>1. n \in 1 .. Len(q)
    BY <1>1
  <2> DEFINE u == [q EXCEPT ![n] = s1]
  <2>2. /\ u \in Seq(ScopeType) /\ Len(u) = Len(q)
        /\ \A i \in 1 .. Len(q) : u[i] = IF i = n THEN s1 ELSE q[i]
    BY <2>1, <1>4, UpdateFacts
  <2> HIDE DEF u
  <2>. QED BY <2>2, <1>5 DEF u
<1>7. r[n] = s1 /\ \A i \in 1 .. n : i < n => r[i] = q[i]
  BY <1>1, <1>6
<1>8. \A i \in 1 .. n : r[i].key = q[i].key
  BY <1>1, <1>4, <1>6
<1>. QED BY <1>3, <1>4, <1>6, <1>7, <1>8 DEF r

LEMMA ListFacts ==
  ASSUME TypeOK, lists # <<>>
  PROVE  /\ Len(lists) \in Nat \ {0}
         /\ \A i \in 1 .. Len(lists) : lists[i] \in ListType
         /\ List \in ListType
         /\ List.code \in Seq(Selector)
         /\ Len(List.code) \in Nat
         /\ List.next \in Nat \ {0}
         /\ List.next <= Len(List.code) => Node \in Selector
         /\ ListAdvanced \in Seq(ListType)
         /\ Len(ListAdvanced) = Len(lists)
         /\ \A i \in 1 .. Len(lists) : ListAdvanced[i].key = lists[i].key
<1> DEFINE n == Len(lists)
           l1 == [List EXCEPT !.next = @ + 1]
<1>1. lists \in Seq(ListType)
  BY DEF TypeOK
<1>2. n \in Nat \ {0} /\ n \in 1 .. n /\ DOMAIN lists = 1 .. n
  BY <1>1
<1>3. \A i \in 1 .. n : lists[i] \in ListType
  BY <1>1, <1>2, ElementFacts, Zenon
<1>4. List \in ListType
  BY <1>2, <1>3 DEF List
<1>5. List.code \in Seq(Selector) /\ List.next \in Nat \ {0}
  BY <1>4 DEF ListType
<1>6. Len(List.code) \in Nat /\ (List.next <= Len(List.code) => Node \in Selector)
  BY <1>5, ElementFacts DEF Node
<1>7. l1 \in ListType /\ l1.key = List.key
  BY <1>4, <1>5 DEF ListType
<1>8. ListAdvanced = [lists EXCEPT ![n] = l1]
  BY DEF ListAdvanced, List
<1> HIDE DEF l1
<1>9. /\ ListAdvanced \in Seq(ListType) /\ Len(ListAdvanced) = n
      /\ \A i \in 1 .. n : ListAdvanced[i] = IF i = n THEN l1 ELSE lists[i]
  BY <1>1, <1>2, <1>7, <1>8
<1>. QED BY <1>2, <1>3, <1>4, <1>5, <1>6, <1>7, <1>9 DEF List

-----------------------------------------------------------------------------
(* Types.                                                                  *)

LEMMA NewNodeType ==
  ASSUME NEW p \in Nat \ {0}, NEW q \in Seq(Selector)
  PROVE  NewNode(p, q) \in TreeNode
BY DEF NewNode, TreeNode

(* The part of TypeOK that says a list is only open at a rule.             *)
ListAtRule == lists # <<>> => Block.next <= Len(Block.code) /\ Current.kind = "rule"

LEMMA TypeInit == Init => TypeOK
<1> SUFFICES ASSUME Init PROVE TypeOK
  OBVIOUS
<1>1. program \in Programs /\ program.top \in Seq(Item)
  BY ProgramsAssumption DEF Init
<1>2. <<>> \in Seq(Selector)
  OBVIOUS
<1>3. NewNode(Root, <<>>) \in TreeNode
  <2>1. Root \in Nat \ {0}
    BY DEF Root
  <2>. QED BY <1>2, <2>1, NewNodeType
<1>4. nodes \in Seq(TreeNode) /\ nodes # <<>> /\ current \in DOMAIN nodes
  BY <1>3 DEF Init, Root
<1>5. EmptyFrame \in [Name -> BoundArg]
  BY NilAssumption DEF EmptyFrame, Unbound, BoundArg
<1>6. bindings \in Seq([Name -> BoundArg]) /\ bindings # <<>>
  BY <1>5 DEF Init
<1> DEFINE blk == [code |-> program.top, next |-> 1, saved |-> Root]
           sc == [key |-> NoKey, blocks |-> <<blk>>]
<1>7. blk \in BlockType
  BY <1>1 DEF BlockType, Root
<1>8. sc \in ScopeType /\ sc.blocks # <<>>
  BY <1>7 DEF ScopeType
<1>9. scopes = <<sc>>
  BY DEF Init
<1> HIDE DEF sc
<1>10. scopes \in Seq(ScopeType) /\ scopes # <<>> /\ \A i \in DOMAIN scopes : scopes[i].blocks # <<>>
  BY <1>8, <1>9
<1>11. lists = <<>> /\ lists \in Seq(ListType) /\ out \in Seq(Selector) /\ comma \in BOOLEAN /\ active \subseteq Key
  BY DEF Init
<1>. QED BY <1>1, <1>4, <1>6, <1>10, <1>11 DEF TypeOK

(* A rule's list is expanded at the construct of the rule.                 *)
LEMMA AdvancedTyped ==
  ASSUME TypeOK, scopes' = Advanced
  PROVE  /\ scopes' \in Seq(ScopeType) /\ scopes' # <<>>
         /\ \A i \in DOMAIN scopes' : scopes'[i].blocks # <<>>
<1>1. Len(scopes') = Len(scopes) /\ scopes' \in Seq(ScopeType) /\ Len(scopes) \in Nat \ {0}
  BY AdvancedFacts, ScopeFacts
<1>2. \A i \in 1 .. Len(scopes) : scopes'[i].blocks # <<>>
  BY AdvancedFacts, ScopeFacts
<1>. QED BY <1>1, <1>2

LEMMA TypeSet == TypeOK /\ SetValue => TypeOK'
<1> SUFFICES ASSUME TypeOK, SetValue PROVE TypeOK'
  OBVIOUS
<1> DEFINE c == Current
           v == Coerce[<<c.store, c.name, Evaluate(c.right)>>]
<1>1. c \in Item /\ c.kind = "set"
  BY BlockFacts DEF SetValue, InBlock
<1>2. c.store \in Store /\ c.name \in Name
  BY <1>1, ItemAssumption
<1>3. v \in Value \cup {Nil}
  <2>1. Evaluate(c.right) \in Value
    BY DEF SetValue, Settable
  <2> HIDE DEF c
  <2>. QED BY <1>2, <2>1, CoerceAssumption
<1>4. nodes' = [nodes EXCEPT ![current].data[<<c.store, c.name>>] = v]
  BY DEF SetValue
<1> HIDE DEF v, c
<1>5. nodes \in Seq(TreeNode) /\ current \in 1 .. Len(nodes)
  BY DEF TypeOK
<1>6. nodes[current] \in TreeNode
  BY <1>5
<1> DEFINE n1 == [nodes[current] EXCEPT !.data[<<c.store, c.name>>] = v]
<1>7. n1 \in TreeNode
  BY <1>2, <1>3, <1>6 DEF TreeNode
<1>8. nodes' = [nodes EXCEPT ![current] = n1]
  BY <1>4
<1> HIDE DEF n1
<1>9. nodes' \in Seq(TreeNode) /\ Len(nodes') = Len(nodes)
  BY <1>5, <1>7, <1>8
<1>10. scopes' = Advanced /\ lists' = <<>>
  BY DEF SetValue, InBlock
<1>. QED BY <1>5, <1>9, <1>10, AdvancedTyped DEF SetValue, TypeOK

LEMMA TypeIgnore == TypeOK /\ (Ignore \/ DropCall) => TypeOK'
<1> SUFFICES ASSUME TypeOK, Ignore \/ DropCall PROVE TypeOK'
  OBVIOUS
<1>1. scopes' = Advanced /\ lists' = <<>>
  BY DEF Ignore, DropCall, InBlock
<1>2. UNCHANGED <<program, nodes, current, bindings, active, lists, out, comma>>
  BY DEF Ignore, DropCall
<1>3. /\ scopes' \in Seq(ScopeType) /\ scopes' # <<>>
      /\ \A i \in DOMAIN scopes' : scopes'[i].blocks # <<>>
  BY <1>1, AdvancedTyped
<1>. QED BY <1>1, <1>2, <1>3 DEF TypeOK

LEMMA TypeExpandCall == TypeOK /\ ExpandCall => TypeOK'
<1> SUFFICES ASSUME TypeOK, ExpandCall PROVE TypeOK'
  OBVIOUS
<1> DEFINE c == Current
           macro == Resolve(c.key)
           blk == [code |-> macro.body.content, next |-> 1, saved |-> current]
           sc == [key |-> c.key, blocks |-> <<blk>>]
<1>1. c \in Item /\ c.kind = "call"
  BY BlockFacts DEF ExpandCall, InBlock
<1>2. c.key \in Key /\ c.args \in Seq(Expr)
  BY <1>1, ItemAssumption
<1>3. macro \in Macro /\ macro.body.kind = "construct"
  BY ResolveType DEF ExpandCall, Expandable
<1>4. macro.args \in Seq(Name) /\ macro.body.content \in Seq(Item)
  BY <1>3 DEF Macro, Body, NoBody
<1>5. Frame(macro.args, c.args) \in [Name -> BoundArg]
  BY <1>2, <1>4, FrameType
<1>6. /\ bindings' = Append(bindings, Frame(macro.args, c.args))
      /\ scopes' = Append(Advanced, sc)
      /\ active' = active \cup {c.key}
  BY DEF ExpandCall
<1>7. bindings' \in Seq([Name -> BoundArg]) /\ bindings' # <<>>
  <2> DEFINE fr == Frame(macro.args, c.args)
             F == [Name -> BoundArg]
  <2>1. bindings \in Seq(F) /\ fr \in F /\ bindings' = Append(bindings, fr)
    BY <1>5, <1>6 DEF TypeOK
  <2> HIDE DEF fr, F
  <2>2. bindings' \in Seq(F) /\ bindings' # <<>>
    BY <2>1
  <2>. QED BY <2>2 DEF F
<1>8. blk \in BlockType
  <2>1. current \in Nat \ {0}
    BY DEF TypeOK
  <2>. QED BY <1>4, <2>1 DEF BlockType
<1>9. sc \in ScopeType /\ sc.blocks # <<>>
  BY <1>2, <1>8 DEF ScopeType
<1> HIDE DEF sc, c
<1>10. /\ scopes' \in Seq(ScopeType) /\ Len(scopes') = Len(scopes) + 1
       /\ \A i \in 1 .. Len(scopes) + 1 : scopes'[i] = IF i <= Len(scopes) THEN Advanced[i] ELSE sc
  BY <1>6, <1>9, AdvancedFacts
<1>11. \A i \in 1 .. Len(scopes) : Advanced[i].blocks # <<>>
  BY AdvancedFacts, ScopeFacts
<1>12. \A i \in DOMAIN scopes' : scopes'[i].blocks # <<>>
  BY <1>9, <1>10, <1>11, ScopeFacts
<1>13. lists' = <<>>
  BY DEF ExpandCall, InBlock
<1>14. UNCHANGED <<program, nodes, current, lists, out, comma>>
  BY DEF ExpandCall
<1>15. active' \subseteq Key
  BY <1>2, <1>6 DEF TypeOK
<1>16. scopes' # <<>>
  BY <1>10, ScopeFacts
<1>. QED BY <1>7, <1>10, <1>12, <1>13, <1>14, <1>15, <1>16 DEF TypeOK

LEMMA TypeEndCall == TypeOK /\ EndCall /\ Len(bindings) = Len(scopes) => TypeOK'
<1> SUFFICES ASSUME TypeOK, EndCall, Len(bindings) = Len(scopes) PROVE TypeOK'
  OBVIOUS
<1>1. scopes \in Seq(ScopeType) /\ scopes # <<>> /\ Len(scopes) > 1 /\ Len(bindings) > 1
  BY DEF EndCall, TypeOK
<1>2. scopes' = SubSeq(scopes, 1, Len(scopes) - 1) /\ bindings' = SubSeq(bindings, 1, Len(bindings) - 1)
  BY DEF EndCall
<1>3. /\ scopes' \in Seq(ScopeType) /\ Len(scopes') = Len(scopes) - 1
      /\ \A i \in 1 .. Len(scopes) - 1 : scopes'[i] = scopes[i]
  BY <1>1, <1>2, PopFacts
<1>4. \A i \in DOMAIN scopes' : scopes'[i].blocks # <<>>
  <2>1. DOMAIN scopes' = 1 .. Len(scopes) - 1 /\ DOMAIN scopes = 1 .. Len(scopes) /\ Len(scopes) \in Nat
    BY <1>1, <1>3, ElementFacts
  <2> TAKE i \in DOMAIN scopes'
  <2>2. i \in DOMAIN scopes /\ scopes'[i] = scopes[i]
    BY <2>1, <1>3
  <2>. QED BY <2>2 DEF TypeOK
<1>5. bindings' \in Seq([Name -> BoundArg]) /\ Len(bindings') = Len(bindings) - 1
  BY <1>2, PopFacts DEF TypeOK
<1>6. bindings' # <<>> /\ scopes' # <<>>
  BY <1>1, <1>3, <1>5 DEF TypeOK
<1>7. lists' = <<>> /\ active' \subseteq active /\ UNCHANGED <<program, nodes, current, lists, out, comma>>
  BY DEF EndCall
<1>. QED BY <1>3, <1>4, <1>5, <1>6, <1>7 DEF TypeOK

LEMMA TypeBeginRule == TypeOK /\ BeginRule => TypeOK'
<1> SUFFICES ASSUME TypeOK, BeginRule PROVE TypeOK'
  OBVIOUS
<1>1. Current \in Item /\ Current.kind = "rule" /\ Block.next <= Len(Block.code)
  BY BlockFacts DEF BeginRule, InBlock
<1>2. Current.selectors \in Seq(Selector)
  BY <1>1, ItemAssumption
<1>3. [key |-> NoKey, code |-> Current.selectors, next |-> 1] \in ListType
  BY <1>2 DEF ListType
<1>4. lists' \in Seq(ListType)
  BY <1>3 DEF BeginRule
<1>5. ListAtRule'
  BY <1>1 DEF ListAtRule, BeginRule, Block, Scope, Current
<1>6. UNCHANGED <<program, nodes, current, bindings, active, scopes>> /\ out' = <<>> /\ comma' = TRUE
  BY DEF BeginRule
<1>7. out' \in Seq(Selector) /\ comma' \in BOOLEAN
  BY <1>6
<1>. QED BY <1>4, <1>5, <1>6, <1>7 DEF TypeOK, ListAtRule

LEMMA TypePush ==
  ASSUME TypeOK, PushPart \/ PushComma \/ ExpandSelectorCall \/ DropSelectorCall \/ EndSelectorCall
  PROVE  TypeOK'
<1>1. UNCHANGED <<program, nodes, current, bindings, scopes>> /\ lists # <<>>
  BY DEF PushPart, PushComma, ExpandSelectorCall, DropSelectorCall, EndSelectorCall, InList, TypeOK
<1>2. ListAtRule'
  BY <1>1 DEF TypeOK, ListAtRule, Block, Scope, Current
<1>3. lists' \in Seq(ListType) /\ active' \subseteq Key
  <2>1. CASE PushPart \/ PushComma \/ DropSelectorCall
    BY <2>1, <1>1, ListFacts DEF PushPart, PushComma, DropSelectorCall, TypeOK
  <2>2. CASE ExpandSelectorCall
    <3> DEFINE l == [key |-> Node.key, code |-> Resolve(Node.key).body.content, next |-> 1]
    <3>1. Node \in Selector /\ Node.kind = "call"
      BY <2>2, <1>1, ListFacts DEF ExpandSelectorCall, InList
    <3>2. Node.key \in Key
      BY <3>1, SelectorAssumption
    <3>3. Resolve(Node.key).body \in Body /\ Resolve(Node.key).body.kind = "selector"
      BY <2>2, ResolveType DEF ExpandSelectorCall, SelectorExpandable, Macro
    <3>4. Resolve(Node.key).body.content \in Seq(Selector)
      BY <3>3 DEF Body, NoBody
    <3>5. l \in ListType
      BY <3>2, <3>4 DEF ListType
    <3>6. lists' = Append(ListAdvanced, l) /\ active' = active \cup {Node.key}
      BY <2>2 DEF ExpandSelectorCall
    <3> HIDE DEF l
    <3>7. lists' \in Seq(ListType)
      BY <3>5, <3>6, <1>1, ListFacts
    <3>. QED BY <3>2, <3>6, <3>7 DEF TypeOK
  <2>3. CASE EndSelectorCall
    <3>1. lists \in Seq(ListType) /\ lists' = SubSeq(lists, 1, Len(lists) - 1)
      BY <2>3 DEF EndSelectorCall, TypeOK
    <3>2. lists' \in Seq(ListType)
      BY <3>1, <1>1, PopFacts
    <3>. QED BY <2>3, <3>2 DEF EndSelectorCall, TypeOK
  <2>. QED BY <2>1, <2>2, <2>3
<1>4. out' \in Seq(Selector) /\ comma' \in BOOLEAN
  <2>1. CASE PushPart \/ PushComma
    <3>1. Node \in Selector
      BY <2>1, <1>1, ListFacts DEF PushPart, PushComma, InList
    <3>2. out \in Seq(Selector) /\ Append(out, Node) \in Seq(Selector)
      BY <3>1 DEF TypeOK
    <3>. QED BY <2>1, <3>2 DEF PushPart, PushComma
  <2>2. CASE ExpandSelectorCall \/ DropSelectorCall \/ EndSelectorCall
    BY <2>2 DEF ExpandSelectorCall, DropSelectorCall, EndSelectorCall, TypeOK
  <2>. QED BY <2>1, <2>2
<1>. QED BY <1>1, <1>2, <1>3, <1>4 DEF TypeOK, ListAtRule

(* What AddRule does, with its intermediate values named.                  *)
LEMMA AddRuleFacts ==
  ASSUME TypeOK, AddRule
  PROVE  /\ Current \in Item /\ Current.kind = "rule"
         /\ Trimmed \in Seq(Selector)
         /\ [code |-> Current.body, next |-> 1, saved |-> current] \in BlockType
         /\ scopes' \in Seq(ScopeType) /\ Len(scopes') = Len(scopes)
         /\ \A i \in 1 .. Len(scopes) : /\ scopes'[i].key = scopes[i].key
                                        /\ i < Len(scopes) => scopes'[i] = Advanced[i]
         /\ scopes'[Len(scopes)].blocks =
              Append(Advanced[Len(scopes)].blocks,
                     [code |-> Current.body, next |-> 1, saved |-> current])
<1>1. Current \in Item /\ Current.kind = "rule"
  <2>1. Len(lists) = 1 /\ lists \in Seq(ListType)
    BY DEF AddRule, TypeOK
  <2>2. lists # <<>>
    BY <2>1
  <2>. QED BY <2>2, BlockFacts DEF TypeOK
<1>2. Current.body \in Seq(Item)
  BY <1>1, ItemAssumption
<1>3. Trimmed \in Seq(Selector)
  BY PopFacts DEF Trimmed, TypeOK
<1> DEFINE blk == [code |-> Current.body, next |-> 1, saved |-> current]
<1>4. blk \in BlockType
  <2>1. current \in Nat \ {0}
    BY DEF TypeOK
  <2>. QED BY <1>2, <2>1 DEF BlockType
<1>5. scopes' = [Advanced EXCEPT ![Len(scopes)].blocks = Append(@, blk)]
  BY DEF AddRule
<1>6. Advanced \in Seq(ScopeType) /\ Advanced # <<>> /\ Len(Advanced) = Len(scopes)
  BY AdvancedFacts, ScopeFacts
<1> HIDE DEF blk
<1>7. /\ scopes' \in Seq(ScopeType) /\ Len(scopes') = Len(scopes)
      /\ \A i \in 1 .. Len(scopes) : /\ scopes'[i].key = Advanced[i].key
                                     /\ i < Len(scopes) => scopes'[i] = Advanced[i]
      /\ scopes'[Len(scopes)].blocks = Append(Advanced[Len(scopes)].blocks, blk)
  <2>1. scopes' = [Advanced EXCEPT ![Len(Advanced)].blocks = Append(@, blk)]
    BY <1>5, <1>6
  <2> DEFINE q == Advanced
             r == [q EXCEPT ![Len(q)].blocks = Append(@, blk)]
  <2>2. /\ r \in Seq(ScopeType)
        /\ Len(r) = Len(q)
        /\ \A i \in 1 .. Len(q) : /\ r[i].key = q[i].key
                                  /\ i < Len(q) => r[i] = q[i]
        /\ r[Len(q)].blocks = Append(q[Len(q)].blocks, blk)
    <3> HIDE DEF q
    <3>. QED BY <1>4, <1>6, PushBlockFacts DEF q
  <2> HIDE DEF r
  <2>3. scopes' = r
    BY <2>1 DEF r
  <2>. QED BY <2>2, <2>3, <1>6
<1>. QED BY <1>1, <1>3, <1>4, <1>7, AdvancedFacts DEF blk

(* The tree AddRule leaves behind.                                         *)
LEMMA AddRuleTree ==
  ASSUME TypeOK, AddRule
  PROVE  /\ Len(nodes) \in Nat \ {0} /\ current \in 1 .. Len(nodes)
         /\ nodes' \in Seq(TreeNode) /\ Len(nodes') = Len(nodes) + 1
         /\ \A n \in 1 .. Len(nodes) : /\ nodes'[n].parent = nodes[n].parent
                                       /\ nodes'[n].selector = nodes[n].selector
                                       /\ n # current => nodes'[n] = nodes[n]
         /\ nodes'[current].children = Append(nodes[current].children, Len(nodes) + 1)
         /\ nodes'[Len(nodes) + 1] = NewNode(current, Trimmed)
         /\ current' = Len(nodes) + 1
<1> DEFINE new == Len(nodes) + 1
           n1 == [nodes[current] EXCEPT !.children = Append(@, new)]
           u == [nodes EXCEPT ![current] = n1]
<1>1. nodes \in Seq(TreeNode) /\ Len(nodes) \in Nat \ {0} /\ current \in 1 .. Len(nodes)
  BY DEF TypeOK
<1>2. nodes[current] \in TreeNode
  BY <1>1
<1>3. Append(nodes[current].children, new) \in Seq(Nat \ {0})
  BY <1>1, <1>2 DEF TreeNode
<1>4. /\ n1 \in TreeNode /\ n1.children = Append(nodes[current].children, new)
      /\ n1.parent = nodes[current].parent /\ n1.selector = nodes[current].selector
  BY <1>2, <1>3 DEF TreeNode
<1>5. NewNode(current, Trimmed) \in TreeNode
  BY <1>1, NewNodeType, AddRuleFacts
<1>6. nodes' = Append(u, NewNode(current, Trimmed)) /\ current' = new
  BY DEF AddRule
<1> HIDE DEF n1
<1>7. u \in Seq(TreeNode) /\ Len(u) = Len(nodes) /\ \A i \in 1 .. Len(nodes) : u[i] = IF i = current THEN n1 ELSE nodes[i]
  BY <1>1, <1>4, UpdateFacts
<1> HIDE DEF u
<1>8. /\ nodes' \in Seq(TreeNode) /\ Len(nodes') = new
      /\ \A i \in 1 .. Len(nodes) : nodes'[i] = u[i]
      /\ nodes'[new] = NewNode(current, Trimmed)
  BY <1>1, <1>5, <1>6, <1>7
<1>. QED BY <1>1, <1>4, <1>6, <1>7, <1>8

LEMMA TypeAddRule == ASSUME TypeOK, AddRule PROVE TypeOK'
<1>1. nodes' \in Seq(TreeNode) /\ nodes' # <<>> /\ current' \in DOMAIN nodes'
  BY AddRuleTree
<1>2. scopes' \in Seq(ScopeType) /\ Len(scopes') = Len(scopes) /\ scopes' # <<>>
  BY AddRuleFacts, ScopeFacts
<1>3. \A i \in DOMAIN scopes' : scopes'[i].blocks # <<>>
  <2> SUFFICES ASSUME NEW i \in 1 .. Len(scopes) PROVE scopes'[i].blocks # <<>>
    BY <1>2
  <2>1. Advanced[i].blocks \in Seq(BlockType) /\ Len(Advanced[i].blocks) \in Nat \ {0}
    BY AdvancedFacts, ScopeFacts
  <2>2. CASE i < Len(scopes)
    BY <2>1, <2>2, AddRuleFacts
  <2>3. CASE i = Len(scopes)
    <3> DEFINE blk == [code |-> Current.body, next |-> 1, saved |-> current]
    <3>1. scopes'[i].blocks = Append(Advanced[i].blocks, blk) /\ blk \in BlockType
      BY <2>3, AddRuleFacts
    <3> HIDE DEF blk
    <3>2. Append(Advanced[i].blocks, blk) # <<>>
      BY <2>1, <3>1, AppendFacts
    <3>. QED BY <3>1, <3>2, Zenon
  <2>4. i < Len(scopes) \/ i = Len(scopes)
    <3>1. Len(scopes) \in Nat
      BY ScopeFacts
    <3>. QED BY <3>1
  <2>. QED BY <2>2, <2>3, <2>4
<1>4. lists' = <<>> /\ UNCHANGED <<program, bindings, active, out, comma>>
  BY DEF AddRule
<1>. QED BY <1>1, <1>2, <1>3, <1>4 DEF TypeOK

(* What EndRule does to the innermost scope.                               *)
LEMMA EndRuleFacts ==
  ASSUME TypeOK, EndRule
  PROVE  /\ scopes' \in Seq(ScopeType) /\ Len(scopes') = Len(scopes)
         /\ \A i \in 1 .. Len(scopes) : /\ scopes'[i].key = scopes[i].key
                                        /\ i < Len(scopes) => scopes'[i] = scopes[i]
         /\ Len(Scope.blocks) \in Nat /\ Len(Scope.blocks) > 1
         /\ Len(scopes'[Len(scopes)].blocks) = Len(Scope.blocks) - 1
         /\ \A b \in 1 .. Len(Scope.blocks) - 1 : scopes'[Len(scopes)].blocks[b] = Scope.blocks[b]
<1>1. scopes \in Seq(ScopeType) /\ scopes # <<>> /\ scopes[Len(scopes)].blocks # <<>>
  BY ScopeFacts DEF TypeOK
<1>2. scopes' = PopBlock(scopes)
  BY DEF EndRule, PopBlock
<1>3. /\ scopes' \in Seq(ScopeType)
      /\ Len(scopes') = Len(scopes)
      /\ \A i \in 1 .. Len(scopes) : /\ scopes'[i].key = scopes[i].key
                                     /\ i < Len(scopes) => scopes'[i] = scopes[i]
      /\ Len(scopes[Len(scopes)].blocks) \in Nat \ {0}
      /\ Len(scopes'[Len(scopes)].blocks) = Len(scopes[Len(scopes)].blocks) - 1
      /\ \A b \in 1 .. Len(scopes[Len(scopes)].blocks) - 1 :
           scopes'[Len(scopes)].blocks[b] = scopes[Len(scopes)].blocks[b]
  BY <1>1, <1>2, PopBlockFacts
<1>5. Len(Scope.blocks) > 1
  BY DEF EndRule
<1>. QED BY <1>3, <1>5 DEF Scope

LEMMA TypeEndRule ==
  ASSUME TypeOK, EndRule, Block.saved \in DOMAIN nodes
  PROVE  TypeOK'
<1>1. \A i \in 1 .. Len(scopes) : scopes'[i].blocks # <<>>
  <2> SUFFICES ASSUME NEW i \in 1 .. Len(scopes) PROVE scopes'[i].blocks # <<>>
    OBVIOUS
  <2>1. CASE i < Len(scopes)
    BY <2>1, EndRuleFacts, ScopeFacts DEF TypeOK
  <2>2. CASE i = Len(scopes)
    <3>1. Len(scopes'[i].blocks) # 0 /\ Len(<<>>) = 0
      BY <2>2, EndRuleFacts
    <3>. QED BY <3>1, Zenon
  <2>3. i < Len(scopes) \/ i = Len(scopes)
    <3>1. Len(scopes) \in Nat
      BY ScopeFacts
    <3>. QED BY <3>1
  <2>. QED BY <2>1, <2>2, <2>3
<1>2. scopes' \in Seq(ScopeType) /\ Len(scopes') = Len(scopes) /\ scopes' # <<>>
  BY EndRuleFacts, ScopeFacts
<1>3. \A i \in DOMAIN scopes' : scopes'[i].blocks # <<>>
  BY <1>1, <1>2
<1>4. lists' = <<>> /\ current' = Block.saved /\ UNCHANGED <<program, nodes, bindings, active, lists, out, comma>>
  BY DEF EndRule
<1>. QED BY <1>2, <1>3, <1>4 DEF TypeOK

-----------------------------------------------------------------------------
(* Scopes and bindings go together.                                        *)

(* The steps that open or close no scope.                                  *)
StaysInScope ==
  \/ SetValue \/ Ignore \/ DropCall \/ BeginRule \/ PushPart \/ PushComma \/ ExpandSelectorCall
  \/ DropSelectorCall \/ EndSelectorCall \/ AddRule \/ EndRule \/ UNCHANGED vars

LEMMA StaysFacts ==
  ASSUME TypeOK, StaysInScope
  PROVE  /\ bindings' = bindings
         /\ Len(scopes') = Len(scopes)
         /\ \A i \in 1 .. Len(scopes) : scopes'[i].key = scopes[i].key
<1>1. CASE SetValue \/ Ignore \/ DropCall
  <2>1. bindings' = bindings /\ scopes' = Advanced
    BY <1>1 DEF SetValue, Ignore, DropCall
  <2>. QED BY <2>1, AdvancedFacts
<1>2. CASE AddRule
  <2>1. bindings' = bindings
    BY <1>2 DEF AddRule
  <2>. QED BY <1>2, <2>1, AddRuleFacts
<1>3. CASE EndRule
  <2>1. bindings' = bindings
    BY <1>3 DEF EndRule
  <2>. QED BY <1>3, <2>1, EndRuleFacts
<1>4. CASE \/ BeginRule \/ PushPart \/ PushComma \/ ExpandSelectorCall
           \/ DropSelectorCall \/ EndSelectorCall \/ UNCHANGED vars
  BY <1>4 DEF BeginRule, PushPart, PushComma, ExpandSelectorCall, DropSelectorCall,
              EndSelectorCall, vars
<1>. QED BY <1>1, <1>2, <1>3, <1>4 DEF StaysInScope

(* What ExpandCall and EndCall do to the stacks.                           *)
LEMMA ExpandFacts ==
  ASSUME TypeOK, ExpandCall
  PROVE  /\ lists = <<>> /\ lists' = <<>>
         /\ Current.key \in Key /\ Current.key \notin active
         /\ active' = active \cup {Current.key}
         /\ Len(scopes') = Len(scopes) + 1
         /\ \A i \in 1 .. Len(scopes) : scopes'[i] = Advanced[i]
         /\ scopes'[Len(scopes) + 1].key = Current.key
         /\ scopes'[Len(scopes) + 1].blocks =
              <<[code |-> Resolve(Current.key).body.content, next |-> 1, saved |-> current]>>
         /\ Len(bindings') = Len(bindings) + 1
         /\ \A d \in 1 .. Len(bindings) : bindings'[d] = bindings[d]
         /\ \A n \in Name : bindings'[Len(bindings) + 1][n] # Unbound
                             => bindings'[Len(bindings) + 1][n].scope = Len(bindings)
<1> DEFINE c == Current
           macro == Resolve(c.key)
           blk == [code |-> macro.body.content, next |-> 1, saved |-> current]
           sc == [key |-> c.key, blocks |-> <<blk>>]
           fr == Frame(macro.args, c.args)
<1>1. c \in Item /\ c.kind = "call"
  BY BlockFacts DEF ExpandCall, InBlock
<1>2. c.key \in Key /\ c.args \in Seq(Expr)
  BY <1>1, ItemAssumption
<1>3. macro.args \in Seq(Name)
  BY ResolveType DEF Macro
<1>4. fr \in [Name -> BoundArg] /\ \A n \in Name : fr[n] # Unbound => fr[n].scope = Len(bindings)
  BY <1>2, <1>3, FrameType
<1>5. /\ bindings' = Append(bindings, fr)
      /\ scopes' = Append(Advanced, sc)
      /\ active' = active \cup {c.key}
      /\ c.key \notin active
      /\ lists = <<>> /\ lists' = <<>>
  BY DEF ExpandCall, InBlock, Expandable
<1>6. sc.key = c.key /\ sc.blocks = <<blk>>
  OBVIOUS
<1> HIDE DEF fr, sc
<1>7. /\ Len(bindings') = Len(bindings) + 1 /\ bindings'[Len(bindings) + 1] = fr
      /\ \A d \in 1 .. Len(bindings) : bindings'[d] = bindings[d]
  <2> DEFINE F == [Name -> BoundArg]
  <2>1. bindings \in Seq(F) /\ fr \in F
    BY <1>4 DEF TypeOK
  <2> HIDE DEF F
  <2>. QED BY <2>1, <1>5
<1>8. /\ Len(scopes') = Len(scopes) + 1 /\ scopes'[Len(scopes) + 1] = sc
      /\ \A i \in 1 .. Len(scopes) : scopes'[i] = Advanced[i]
  <2>1. Advanced \in Seq(ScopeType) /\ Len(Advanced) = Len(scopes)
    BY AdvancedFacts
  <2>. QED BY <2>1, <1>5
<1>. QED BY <1>2, <1>4, <1>5, <1>6, <1>7, <1>8

LEMMA EndCallFacts ==
  ASSUME TypeOK, EndCall
  PROVE  /\ lists = <<>> /\ lists' = <<>>
         /\ Len(scopes) \in Nat /\ Len(scopes) > 1
         /\ active' = active \ {scopes[Len(scopes)].key}
         /\ Len(scopes') = Len(scopes) - 1
         /\ \A i \in 1 .. Len(scopes) - 1 : scopes'[i] = scopes[i]
         /\ Len(bindings) \in Nat
         /\ Len(bindings') = Len(bindings) - 1
         /\ \A d \in 1 .. Len(bindings) - 1 : bindings'[d] = bindings[d]
<1>1. /\ scopes' = SubSeq(scopes, 1, Len(scopes) - 1)
      /\ bindings' = SubSeq(bindings, 1, Len(bindings) - 1)
      /\ lists = <<>> /\ lists' = <<>> /\ Len(scopes) > 1
      /\ active' = active \ {scopes[Len(scopes)].key}
  BY DEF EndCall, Scope
<1>2. scopes \in Seq(ScopeType) /\ scopes # <<>>
  BY DEF TypeOK
<1>3. /\ Len(scopes') = Len(scopes) - 1 /\ Len(scopes) \in Nat
      /\ \A i \in 1 .. Len(scopes) - 1 : scopes'[i] = scopes[i]
  BY <1>1, <1>2, PopFacts
<1>4. /\ Len(bindings') = Len(bindings) - 1 /\ Len(bindings) \in Nat
      /\ \A d \in 1 .. Len(bindings) - 1 : bindings'[d] = bindings[d]
  <2> DEFINE F == [Name -> BoundArg]
  <2>1. bindings \in Seq(F) /\ bindings # <<>>
    BY DEF TypeOK
  <2> HIDE DEF F
  <2>. QED BY <2>1, <1>1, PopFacts
<1>. QED BY <1>1, <1>3, <1>4

LEMMA OutwardInit == Init => ArgumentsPointOutward
BY DEF Init, ArgumentsPointOutward, EmptyFrame

LEMMA OutwardNext ==
  ASSUME TypeOK, ArgumentsPointOutward, [Next]_vars
  PROVE  ArgumentsPointOutward'
<1>0. /\ Len(bindings) = Len(scopes) /\ Len(bindings) \in Nat
      /\ DOMAIN bindings = 1 .. Len(bindings)
      /\ \A d \in DOMAIN bindings : \A n \in Name :
           bindings[d][n] # Unbound => bindings[d][n].scope \in DOMAIN bindings
                                       /\ bindings[d][n].scope = d - 1
  BY DEF ArgumentsPointOutward, TypeOK
<1> SUFFICES
      /\ Len(bindings') = Len(scopes')
      /\ DOMAIN bindings' = 1 .. Len(bindings')
      /\ \A d \in 1 .. Len(bindings') : \A n \in Name :
           bindings'[d][n] # Unbound => bindings'[d][n].scope \in 1 .. Len(bindings')
                                        /\ bindings'[d][n].scope = d - 1
  BY DEF ArgumentsPointOutward, Unbound, NilExpr
<1>1. CASE StaysInScope
  BY <1>0, <1>1, StaysFacts
<1>2. CASE ExpandCall
  <2>1. DOMAIN bindings' = 1 .. Len(bindings')
    BY <1>2, TypeExpandCall DEF TypeOK
  <2>2. Len(bindings') = Len(scopes') /\ Len(bindings') = Len(bindings) + 1
    BY <1>0, <1>2, ExpandFacts
  <2>3. ASSUME NEW d \in 1 .. Len(bindings'), NEW n \in Name, bindings'[d][n] # Unbound
        PROVE  bindings'[d][n].scope \in 1 .. Len(bindings') /\ bindings'[d][n].scope = d - 1
    <3>1. CASE d = Len(bindings) + 1
      <4>1. bindings'[d][n].scope = Len(bindings)
        BY <1>2, <2>3, <3>1, ExpandFacts
      <4>2. Len(bindings) # 0
        BY <1>0, ScopeFacts
      <4>. QED BY <1>0, <2>2, <3>1, <4>1, <4>2
    <3>2. CASE d # Len(bindings) + 1
      <4>1. d \in 1 .. Len(bindings)
        BY <1>0, <2>2, <3>2
      <4>2. bindings'[d] = bindings[d]
        BY <1>2, <4>1, ExpandFacts
      <4>. QED BY <1>0, <2>2, <2>3, <4>1, <4>2
    <3>. QED BY <3>1, <3>2
  <2>. QED BY <2>1, <2>2, <2>3
<1>3. CASE EndCall
  <2>1. DOMAIN bindings' = 1 .. Len(bindings')
    BY <1>0, <1>3, TypeEndCall DEF TypeOK
  <2>2. Len(bindings') = Len(scopes') /\ Len(bindings') = Len(bindings) - 1
    BY <1>0, <1>3, EndCallFacts
  <2>3. ASSUME NEW d \in 1 .. Len(bindings'), NEW n \in Name, bindings'[d][n] # Unbound
        PROVE  bindings'[d][n].scope \in 1 .. Len(bindings') /\ bindings'[d][n].scope = d - 1
    <3>1. d \in 1 .. Len(bindings) - 1 /\ d \in 1 .. Len(bindings)
      BY <1>0, <2>2
    <3>2. bindings'[d] = bindings[d]
      BY <1>3, <3>1, EndCallFacts
    <3>. QED BY <1>0, <2>2, <2>3, <3>1, <3>2
  <2>. QED BY <2>1, <2>2, <2>3
<1>. QED BY <1>1, <1>2, <1>3 DEF Next, StaysInScope, Terminated

-----------------------------------------------------------------------------
(* The guard.                                                              *)

LEMMA GuardInit == Init => ActiveIsOpenExpansions
BY DEF Init, ActiveIsOpenExpansions

(* A step that leaves the guard and every open expansion as they are.      *)
LEMMA GuardSame ==
  ASSUME TypeOK, ActiveIsOpenExpansions,
         active' = active,
         Len(scopes') = Len(scopes),
         \A i \in 2 .. Len(scopes) : scopes'[i].key = scopes[i].key,
         2 .. Len(lists') = 2 .. Len(lists),
         \A i \in 2 .. Len(lists) : lists'[i].key = lists[i].key
  PROVE  ActiveIsOpenExpansions'
BY DEF ActiveIsOpenExpansions

LEMMA GuardNext ==
  ASSUME TypeOK, ActiveIsOpenExpansions, [Next]_vars
  PROVE  ActiveIsOpenExpansions'
<1>0. Len(scopes) \in Nat /\ Len(lists) \in Nat
  BY DEF TypeOK
<1>1. CASE SetValue \/ Ignore \/ DropCall \/ EndRule \/ UNCHANGED vars
  <2>1. active' = active /\ lists' = lists
    BY <1>1 DEF SetValue, Ignore, DropCall, EndRule, vars
  <2>2. \A i \in 2 .. Len(scopes) : i \in 1 .. Len(scopes)
    BY <1>0
  <2>. QED BY <1>1, <2>1, <2>2, StaysFacts, GuardSame DEF StaysInScope
<1>2. CASE PushPart \/ PushComma \/ DropSelectorCall
  <2>1. active' = active /\ scopes' = scopes /\ lists' = ListAdvanced /\ lists # <<>>
    BY <1>2 DEF PushPart, PushComma, DropSelectorCall, InList
  <2>2. \A i \in 2 .. Len(lists) : i \in 1 .. Len(lists)
    BY <1>0
  <2>. QED BY <2>1, <2>2, ListFacts, GuardSame
<1>3. CASE BeginRule
  <2>1. active' = active /\ scopes' = scopes /\ lists = <<>> /\ Len(lists') = 1
    BY <1>3 DEF BeginRule, InBlock
  <2>2. 2 .. Len(lists') = {} /\ 2 .. Len(lists) = {}
    BY <2>1
  <2>. QED BY <2>1, <2>2, GuardSame
<1>4. CASE AddRule
  <2>1. active' = active /\ Len(lists) = 1 /\ lists' = <<>>
    BY <1>4 DEF AddRule
  <2>2. 2 .. Len(lists') = {} /\ 2 .. Len(lists) = {}
    BY <2>1
  <2>3. \A i \in 2 .. Len(scopes) : i \in 1 .. Len(scopes)
    BY <1>0
  <2>4. Len(scopes') = Len(scopes) /\ \A i \in 2 .. Len(scopes) : scopes'[i].key = scopes[i].key
    BY <1>4, <2>3, AddRuleFacts
  <2>. QED BY <2>1, <2>2, <2>4, GuardSame
<1>5. CASE ExpandCall
  <2> DEFINE n == Len(scopes)
             k == Current.key
  <2>1. /\ lists = <<>> /\ lists' = <<>> /\ k \notin active /\ active' = active \cup {k}
        /\ Len(scopes') = n + 1 /\ scopes'[n + 1].key = k
        /\ \A i \in 1 .. n : scopes'[i].key = scopes[i].key
    BY <1>5, ExpandFacts, AdvancedFacts
  <2> HIDE DEF k, n
  <2>2. n = Len(scopes) /\ n \in Nat \ {0} /\ 2 .. Len(lists) = {} /\ 2 .. Len(lists') = {}
    BY <2>1, ScopeFacts DEF n
  <2>3. \A i \in 2 .. n + 1 : i = n + 1 \/ (i \in 2 .. n /\ i \in 1 .. n)
    BY <2>2
  <2>4. n + 1 \in 2 .. n + 1 /\ \A i \in 2 .. n : i \in 2 .. n + 1 /\ i \in 1 .. n
    BY <2>2
  <2>5. /\ active = {scopes[i].key : i \in 2 .. n}
        /\ \A i, j \in 2 .. n : scopes[i].key = scopes[j].key => i = j
    BY <2>2 DEF ActiveIsOpenExpansions
  <2>6. active' = {scopes'[i].key : i \in 2 .. n + 1}
    BY <2>1, <2>3, <2>4, <2>5
  <2>7. \A i, j \in 2 .. n + 1 : scopes'[i].key = scopes'[j].key => i = j
    BY <2>1, <2>3, <2>5
  <2>. QED BY <2>1, <2>2, <2>6, <2>7 DEF ActiveIsOpenExpansions
<1>6. CASE EndCall
  <2> DEFINE n == Len(scopes)
  <2>1. /\ lists = <<>> /\ lists' = <<>> /\ active' = active \ {scopes[n].key}
        /\ n \in Nat /\ n > 1 /\ Len(scopes') = n - 1
        /\ \A i \in 1 .. n - 1 : scopes'[i] = scopes[i]
    BY <1>6, EndCallFacts
  <2>2. 2 .. Len(lists) = {} /\ 2 .. Len(lists') = {}
    BY <2>1
  <2>3. \A i \in 2 .. n : i = n \/ i \in 2 .. n - 1
    BY <2>1
  <2>4. n \in 2 .. n /\ \A i \in 2 .. n - 1 : i \in 2 .. n /\ i # n /\ i \in 1 .. n - 1
    BY <2>1
  <2>5. /\ active = {scopes[i].key : i \in 2 .. n}
        /\ \A i, j \in 2 .. n : scopes[i].key = scopes[j].key => i = j
    BY <2>2 DEF ActiveIsOpenExpansions
  <2> HIDE DEF n
  <2>6. active' = {scopes'[i].key : i \in 2 .. n - 1}
    BY <2>1, <2>3, <2>4, <2>5
  <2>7. \A i, j \in 2 .. n - 1 : scopes'[i].key = scopes'[j].key => i = j
    BY <2>1, <2>4, <2>5
  <2>. QED BY <2>1, <2>2, <2>6, <2>7 DEF ActiveIsOpenExpansions
<1>7. CASE ExpandSelectorCall
  <2> DEFINE n == Len(lists)
             k == Node.key
             l == [key |-> k, code |-> Resolve(k).body.content, next |-> 1]
  <2>1. /\ lists # <<>> /\ scopes' = scopes /\ k \notin active /\ active' = active \cup {k}
        /\ lists' = Append(ListAdvanced, l)
    BY <1>7 DEF ExpandSelectorCall, InList, SelectorExpandable
  <2>2. /\ n \in Nat \ {0} /\ Len(lists') = n + 1 /\ lists'[n + 1].key = k
        /\ \A i \in 1 .. n : lists'[i].key = lists[i].key
    <3>1. l.key = k
      OBVIOUS
    <3> HIDE DEF l
    <3>. QED BY <2>1, <3>1, ListFacts
  <2> HIDE DEF k, n
  <2>3. \A i \in 2 .. n + 1 : i = n + 1 \/ (i \in 2 .. n /\ i \in 1 .. n)
    BY <2>2
  <2>4. n + 1 \in 2 .. n + 1 /\ \A i \in 2 .. n : i \in 2 .. n + 1 /\ i \in 1 .. n
    BY <2>2
  <2> DEFINE S == {scopes[i].key : i \in 2 .. Len(scopes)}
  <2>5. /\ active = S \cup {lists[i].key : i \in 2 .. n}
        /\ \A i, j \in 2 .. n : lists[i].key = lists[j].key => i = j
    BY DEF ActiveIsOpenExpansions, n
  <2>6. active' = S \cup {lists'[i].key : i \in 2 .. n + 1}
    <3> HIDE DEF S
    <3>. QED BY <2>1, <2>2, <2>3, <2>4, <2>5
  <2>7. \A i, j \in 2 .. n + 1 : lists'[i].key = lists'[j].key => i = j
    BY <2>1, <2>2, <2>3, <2>5
  <2>8. \A i \in 2 .. Len(scopes), j \in 2 .. n + 1 : scopes[i].key # lists'[j].key
    <3>1. \A i \in 2 .. Len(scopes) : scopes[i].key \in active
      BY <2>5
    <3>2. \A i \in 2 .. Len(scopes), j \in 2 .. n : scopes[i].key # lists[j].key
      BY DEF ActiveIsOpenExpansions, n
    <3>. QED BY <2>1, <2>2, <2>3, <3>1, <3>2
  <2>9. \A i, j \in 2 .. Len(scopes) : scopes[i].key = scopes[j].key => i = j
    BY DEF ActiveIsOpenExpansions
  <2>. QED BY <2>1, <2>2, <2>6, <2>7, <2>8, <2>9 DEF ActiveIsOpenExpansions
<1>8. CASE EndSelectorCall
  <2> DEFINE n == Len(lists)
             S == {scopes[i].key : i \in 2 .. Len(scopes)}
  <2>1. /\ n \in Nat /\ n > 1 /\ lists # <<>> /\ scopes' = scopes
        /\ active' = active \ {lists[n].key}
        /\ lists' = SubSeq(lists, 1, n - 1)
    BY <1>8, <1>0 DEF EndSelectorCall, List
  <2>2. Len(lists') = n - 1 /\ \A i \in 1 .. n - 1 : lists'[i] = lists[i]
    BY <2>1, PopFacts DEF TypeOK
  <2>3. \A i \in 2 .. n : i = n \/ i \in 2 .. n - 1
    BY <2>1
  <2>4. n \in 2 .. n /\ \A i \in 2 .. n - 1 : i \in 2 .. n /\ i # n /\ i \in 1 .. n - 1
    BY <2>1
  <2>5. /\ active = S \cup {lists[i].key : i \in 2 .. n}
        /\ \A i, j \in 2 .. n : lists[i].key = lists[j].key => i = j
        /\ \A i, j \in 2 .. Len(scopes) : scopes[i].key = scopes[j].key => i = j
        /\ \A i \in 2 .. Len(scopes), j \in 2 .. n : scopes[i].key # lists[j].key
    BY DEF ActiveIsOpenExpansions
  <2>6. lists[n].key \notin S
    BY <2>4, <2>5
  <2>7. active' = S \cup {lists'[i].key : i \in 2 .. n - 1}
    <3> HIDE DEF S, n
    <3>. QED BY <2>1, <2>2, <2>3, <2>4, <2>5, <2>6
  <2>8. \A i, j \in 2 .. n - 1 : lists'[i].key = lists'[j].key => i = j
    <3> HIDE DEF S, n
    <3>. QED BY <2>2, <2>4, <2>5
  <2>9. \A i \in 2 .. Len(scopes), j \in 2 .. n - 1 : scopes[i].key # lists'[j].key
    <3> HIDE DEF S, n
    <3>. QED BY <2>2, <2>4, <2>5
  <2>. QED BY <2>1, <2>2, <2>5, <2>7, <2>8, <2>9 DEF ActiveIsOpenExpansions
<1>. QED BY <1>1, <1>2, <1>3, <1>4, <1>5, <1>6, <1>7, <1>8 DEF Next, Terminated

-----------------------------------------------------------------------------
(* The tree.                                                               *)

(* What a step that adds no rule does to the tree: data may change only.   *)
LEMMA SetOrSame ==
  ASSUME [Next]_vars, ~ AddRule
  PROVE  SetValue \/ nodes' = nodes
BY DEF Next, Ignore, ExpandCall, DropCall, EndCall, BeginRule, PushPart, PushComma,
       ExpandSelectorCall, DropSelectorCall, EndSelectorCall, EndRule, Terminated, vars

LEMMA SameTree ==
  ASSUME TypeOK, SetValue \/ nodes' = nodes
  PROVE  /\ DOMAIN nodes' = DOMAIN nodes
         /\ \A n \in DOMAIN nodes : /\ nodes'[n].parent = nodes[n].parent
                                    /\ nodes'[n].children = nodes[n].children
                                    /\ nodes'[n].selector = nodes[n].selector
                                    /\ n # current => nodes'[n] = nodes[n]
<1>1. CASE SetValue
  <2> DEFINE v == Coerce[<<Current.store, Current.name, Evaluate(Current.right)>>]
             x == <<Current.store, Current.name>>
  <2>1. nodes' = [nodes EXCEPT ![current].data[x] = v]
    BY <1>1 DEF SetValue
  <2> HIDE DEF v, x
  <2>2. nodes \in Seq(TreeNode) /\ current \in DOMAIN nodes
    BY DEF TypeOK
  <2>3. nodes[current] \in TreeNode
    BY <2>2
  <2> DEFINE n1 == [nodes[current] EXCEPT !.data[x] = v]
  <2>4. /\ n1.parent = nodes[current].parent
        /\ n1.children = nodes[current].children
        /\ n1.selector = nodes[current].selector
    BY <2>3 DEF TreeNode
  <2>5. nodes' = [nodes EXCEPT ![current] = n1]
    BY <2>1
  <2> HIDE DEF n1
  <2>6. DOMAIN nodes' = DOMAIN nodes /\ \A n \in DOMAIN nodes : nodes'[n] = IF n = current THEN n1 ELSE nodes[n]
    BY <2>2, <2>5
  <2>. QED BY <2>4, <2>6
<1>2. CASE nodes' = nodes
  BY <1>2
<1>. QED BY <1>1, <1>2

LEMMA TreeInit == Init => TreeWellFormed
BY DEF Init, TreeWellFormed, NewNode, Root

LEMMA ChildrenType ==
  ASSUME TypeOK, NEW p \in DOMAIN nodes
  PROVE  /\ nodes[p].children \in Seq(Nat \ {0})
         /\ Len(nodes[p].children) \in Nat
         /\ DOMAIN nodes[p].children = 1 .. Len(nodes[p].children)
<1>1. nodes[p] \in TreeNode
  BY DEF TypeOK
<1>2. nodes[p].children \in Seq(Nat \ {0})
  BY <1>1 DEF TreeNode
<1>. QED BY <1>2

LEMMA TreeNext ==
  ASSUME TypeOK, TreeWellFormed, [Next]_vars
  PROVE  TreeWellFormed'
<1>1. ASSUME ~ AddRule PROVE TreeWellFormed'
  <2>1. /\ DOMAIN nodes' = DOMAIN nodes
        /\ \A n \in DOMAIN nodes : /\ nodes'[n].parent = nodes[n].parent
                                   /\ nodes'[n].children = nodes[n].children
                                   /\ nodes'[n].selector = nodes[n].selector
                                   /\ n # current => nodes'[n] = nodes[n]
    <3>1. SetValue \/ nodes' = nodes
      BY <1>1, SetOrSame
    <3>. QED BY <3>1, SameTree
  <2> DEFINE D == DOMAIN nodes
  <2>2. /\ \A n \in D \ {Root} : nodes[n].parent \in 1 .. (n - 1) /\ nodes[n].parent \in D
        /\ \A p \in D : \A i \in DOMAIN nodes[p].children :
             /\ nodes[p].children[i] \in D \ {Root}
             /\ nodes[nodes[p].children[i]].parent = p
             /\ \A j \in 1 .. (i - 1) : nodes[p].children[j] < nodes[p].children[i]
        /\ \A n \in D \ {Root} :
             \E i \in DOMAIN nodes[nodes[n].parent].children : nodes[nodes[n].parent].children[i] = n
    BY DEF TypeOK, TreeWellFormed
  <2>3. DOMAIN nodes' = D /\ Root' = Root
    BY <2>1 DEF Root
  <2> HIDE DEF D
  <2>4. \A n \in D \ {Root} : nodes'[n].parent \in 1 .. (n - 1)
    <3> TAKE n \in D \ {Root}
    <3>1. nodes'[n].parent = nodes[n].parent
      BY <2>1 DEF D
    <3>. QED BY <2>2, <3>1
  <2>5. \A p \in D : \A i \in DOMAIN nodes'[p].children :
          /\ nodes'[p].children[i] \in D \ {Root}
          /\ nodes'[nodes'[p].children[i]].parent = p
          /\ \A j \in 1 .. (i - 1) : nodes'[p].children[j] < nodes'[p].children[i]
    <3> TAKE p \in D
    <3>1. nodes'[p].children = nodes[p].children
      BY <2>1 DEF D
    <3> TAKE i \in DOMAIN nodes'[p].children
    <3>2. nodes[p].children[i] \in D \ {Root}
      BY <2>2, <3>1
    <3>3. nodes'[nodes[p].children[i]].parent = nodes[nodes[p].children[i]].parent
      BY <2>1, <3>2 DEF D
    <3>. QED BY <2>2, <3>1, <3>2, <3>3
  <2>6. \A n \in D \ {Root} :
          \E i \in DOMAIN nodes'[nodes'[n].parent].children : nodes'[nodes'[n].parent].children[i] = n
    <3> TAKE n \in D \ {Root}
    <3>1. nodes'[n].parent = nodes[n].parent /\ nodes[n].parent \in D
      BY <2>1, <2>2 DEF D
    <3>2. nodes'[nodes[n].parent].children = nodes[nodes[n].parent].children
      BY <2>1, <3>1 DEF D
    <3>. QED BY <2>2, <3>1, <3>2
  <2>. QED BY <2>3, <2>4, <2>5, <2>6 DEF TreeWellFormed
<1>2. CASE AddRule
  <2> DEFINE N == Len(nodes)
             kids == nodes[current].children
  <2>1. /\ N \in Nat \ {0} /\ current \in 1 .. N /\ Len(nodes') = N + 1
        /\ DOMAIN nodes = 1 .. N /\ DOMAIN nodes' = 1 .. N + 1
        /\ \A n \in 1 .. N : nodes'[n].parent = nodes[n].parent
        /\ \A n \in 1 .. N : n # current => nodes'[n] = nodes[n]
        /\ nodes'[current].children = Append(kids, N + 1)
        /\ nodes'[N + 1].parent = current
        /\ nodes'[N + 1].children = <<>>
    <3>1. NewNode(current, Trimmed).parent = current /\ NewNode(current, Trimmed).children = <<>>
      BY DEF NewNode
    <3>2. DOMAIN nodes = 1 .. N /\ DOMAIN nodes' = 1 .. Len(nodes')
      BY <1>2, AddRuleTree DEF TypeOK
    <3>. QED BY <1>2, <3>1, <3>2, AddRuleTree
  <2>2. /\ kids \in Seq(Nat \ {0}) /\ Len(kids) \in Nat
        /\ DOMAIN Append(kids, N + 1) = 1 .. Len(kids) + 1
        /\ \A i \in 1 .. Len(kids) : Append(kids, N + 1)[i] = kids[i]
        /\ Append(kids, N + 1)[Len(kids) + 1] = N + 1
    BY <2>1, ChildrenType
  <2>3. /\ \A n \in DOMAIN nodes \ {Root} : nodes[n].parent \in 1 .. (n - 1)
        /\ \A p \in DOMAIN nodes : \A i \in DOMAIN nodes[p].children :
             /\ nodes[p].children[i] \in DOMAIN nodes \ {Root}
             /\ nodes[nodes[p].children[i]].parent = p
             /\ \A j \in 1 .. (i - 1) : nodes[p].children[j] < nodes[p].children[i]
        /\ \A n \in DOMAIN nodes \ {Root} :
             \E i \in DOMAIN nodes[nodes[n].parent].children : nodes[nodes[n].parent].children[i] = n
    BY DEF TreeWellFormed
  <2> HIDE DEF N, kids
  <2>4. \A n \in (1 .. N + 1) \ {Root} : nodes'[n].parent \in 1 .. (n - 1)
    <3> TAKE n \in (1 .. N + 1) \ {Root}
    <3>1. CASE n = N + 1
      BY <2>1, <3>1
    <3>2. CASE n # N + 1
      <4>1. n \in DOMAIN nodes \ {Root} /\ n \in 1 .. N
        BY <2>1, <3>2
      <4>. QED BY <2>1, <2>3, <4>1
    <3>. QED BY <3>1, <3>2
  <2>5. ASSUME NEW p \in 1 .. N + 1, NEW i \in DOMAIN nodes'[p].children
        PROVE  /\ nodes'[p].children[i] \in (1 .. N + 1) \ {Root}
               /\ nodes'[nodes'[p].children[i]].parent = p
               /\ \A j \in 1 .. (i - 1) : nodes'[p].children[j] < nodes'[p].children[i]
    <3>1. CASE p = N + 1
      BY <2>1, <3>1
    <3>2. CASE p # N + 1 /\ p # current
      <4>1. p \in DOMAIN nodes /\ nodes'[p] = nodes[p] /\ i \in DOMAIN nodes[p].children
        BY <2>1, <3>2
      <4>2. /\ nodes[p].children[i] \in DOMAIN nodes \ {Root}
            /\ nodes[nodes[p].children[i]].parent = p
            /\ \A j \in 1 .. (i - 1) : nodes[p].children[j] < nodes[p].children[i]
        BY <2>3, <4>1
      <4>. QED BY <2>1, <4>1, <4>2
    <3>3. CASE p = current
      <4>1. current \in DOMAIN nodes /\ DOMAIN kids = 1 .. Len(kids) /\ i \in 1 .. Len(kids) + 1
        <5>1. current \in DOMAIN nodes
          BY <2>1
        <5>2. DOMAIN kids = 1 .. Len(kids)
          BY <2>2
        <5>3. nodes'[p].children = Append(kids, N + 1)
          BY <2>1, <3>3
        <5>. QED BY <2>2, <5>1, <5>2, <5>3
      <4>2. \A k \in 1 .. Len(kids) :
              /\ kids[k] \in (1 .. N) \ {Root}
              /\ nodes[kids[k]].parent = current
              /\ \A j \in 1 .. (k - 1) : kids[j] < kids[k]
        <5> TAKE k \in 1 .. Len(kids)
        <5>1. k \in DOMAIN nodes[current].children
          BY <4>1 DEF kids
        <5>. QED BY <2>1, <2>3, <4>1, <5>1 DEF kids
      <4>3. CASE i = Len(kids) + 1
        <5>1. nodes'[p].children[i] = N + 1
          BY <2>1, <2>2, <3>3, <4>3
        <5>2. \A j \in 1 .. (i - 1) : nodes'[p].children[j] < N + 1
          <6> TAKE j \in 1 .. (i - 1)
          <6>1. j \in 1 .. Len(kids)
            BY <2>2, <4>3
          <6>2. nodes'[p].children[j] = kids[j] /\ kids[j] \in 1 .. N
            BY <2>1, <2>2, <3>3, <4>2, <6>1
          <6>. QED BY <2>1, <6>2
        <5>3. N + 1 \in (1 .. N + 1) \ {Root}
          BY <2>1 DEF Root
        <5>4. nodes'[N + 1].parent = p
          BY <2>1, <3>3
        <5>. QED BY <5>1, <5>2, <5>3, <5>4
      <4>4. CASE i # Len(kids) + 1
        <5>1. i \in 1 .. Len(kids) /\ nodes'[p].children[i] = kids[i]
          BY <2>1, <2>2, <3>3, <4>1, <4>4
        <5>2. \A j \in 1 .. (i - 1) : nodes'[p].children[j] = kids[j]
          <6> TAKE j \in 1 .. (i - 1)
          <6>1. j \in 1 .. Len(kids)
            BY <2>2, <5>1
          <6>. QED BY <2>1, <2>2, <3>3, <6>1
        <5>. QED BY <2>1, <3>3, <4>2, <5>1, <5>2
      <4>. QED BY <4>3, <4>4
    <3>. QED BY <3>1, <3>2, <3>3
  <2>6. ASSUME NEW n \in (1 .. N + 1) \ {Root}
        PROVE  \E i \in DOMAIN nodes'[nodes'[n].parent].children :
                 nodes'[nodes'[n].parent].children[i] = n
    <3>1. CASE n = N + 1
      <4>1. nodes'[n].parent = current /\ Len(kids) + 1 \in DOMAIN nodes'[current].children
        BY <2>1, <2>2, <3>1
      <4>2. nodes'[current].children[Len(kids) + 1] = n
        BY <2>1, <2>2, <3>1
      <4>. QED BY <4>1, <4>2
    <3>2. CASE n # N + 1
      <4>1. n \in DOMAIN nodes \ {Root} /\ nodes'[n].parent = nodes[n].parent /\ nodes[n].parent \in 1 .. N
        <5>1. n \in DOMAIN nodes \ {Root}
          BY <2>1, <3>2
        <5>2. nodes[n].parent \in 1 .. (n - 1)
          BY <5>1, <2>3
        <5>. QED BY <2>1, <5>1, <5>2
      <4>2. PICK i \in DOMAIN nodes[nodes[n].parent].children : nodes[nodes[n].parent].children[i] = n
        BY <2>3, <4>1
      <4>3. CASE nodes[n].parent = current
        <5>1. i \in 1 .. Len(kids) /\ kids[i] = n
          BY <2>1, <2>2, <4>2, <4>3, ChildrenType DEF kids
        <5>2. i \in DOMAIN nodes'[current].children /\ nodes'[current].children[i] = n
          BY <2>1, <2>2, <5>1
        <5>. QED BY <4>1, <4>3, <5>2
      <4>4. CASE nodes[n].parent # current
        BY <2>1, <4>1, <4>2, <4>4
      <4>. QED BY <4>3, <4>4
    <3>. QED BY <3>1, <3>2
  <2>. QED BY <2>1, <2>4, <2>5, <2>6 DEF TreeWellFormed, Root
<1>. QED BY <1>1, <1>2

-----------------------------------------------------------------------------
(* Blocks and tree nodes.                                                  *)

LEMMA BlocksInit == Init => BlocksFollowTree
BY DEF Init, BlocksFollowTree, Into, Root

(* Every node a block is compiled into is in the tree.                     *)
LEMMA IntoInTree ==
  ASSUME TypeOK, BlocksFollowTree,
         NEW s \in 1 .. Len(scopes), NEW b \in 1 .. Len(scopes[s].blocks)
  PROVE  Into(s, b) \in DOMAIN nodes
<1>1. Len(scopes) \in Nat /\ Len(scopes[s].blocks) \in Nat
  BY ScopeFacts
<1>2. \A t \in 1 .. Len(scopes) : \A c \in 1 .. Len(scopes[t].blocks) :
        scopes[t].blocks[c].saved \in DOMAIN nodes
  <2> TAKE t \in 1 .. Len(scopes)
  <2> TAKE c \in 1 .. Len(scopes[t].blocks)
  <2>1. t \in DOMAIN scopes /\ c \in DOMAIN scopes[t].blocks
    BY ScopeFacts
  <2>. QED BY <2>1 DEF BlocksFollowTree
<1>3. CASE b < Len(scopes[s].blocks)
  <2>1. b + 1 \in 1 .. Len(scopes[s].blocks)
    BY <1>1, <1>3
  <2>. QED BY <1>2, <1>3, <2>1 DEF Into
<1>4. CASE ~ (b < Len(scopes[s].blocks)) /\ s < Len(scopes)
  <2>1. s + 1 \in 1 .. Len(scopes)
    BY <1>1, <1>4
  <2>2. 1 \in 1 .. Len(scopes[s + 1].blocks)
    BY <2>1, ScopeFacts
  <2>. QED BY <1>2, <1>4, <2>1, <2>2 DEF Into
<1>5. CASE ~ (b < Len(scopes[s].blocks)) /\ ~ (s < Len(scopes))
  BY <1>5 DEF Into, TypeOK
<1>. QED BY <1>3, <1>4, <1>5

(* What BlocksFollowTree says of one block.                                *)
LEMMA BlockPlace ==
  ASSUME TypeOK, BlocksFollowTree,
         NEW s \in 1 .. Len(scopes), NEW b \in 1 .. Len(scopes[s].blocks)
  PROVE  /\ scopes[s].blocks[b].saved \in DOMAIN nodes
         /\ b = 1 => Into(s, b) = scopes[s].blocks[b].saved
         /\ b # 1 => Into(s, b) # Root /\ nodes[Into(s, b)].parent = scopes[s].blocks[b].saved
<1>1. s \in DOMAIN scopes /\ b \in DOMAIN scopes[s].blocks
  BY ScopeFacts
<1>. QED BY <1>1 DEF BlocksFollowTree

(* A step that leaves open blocks and the places of the nodes alone.       *)
LEMMA BlocksSame ==
  ASSUME TypeOK, BlocksFollowTree, TypeOK',
         current' = current,
         Len(scopes') = Len(scopes),
         \A s \in 1 .. Len(scopes) :
           /\ Len(scopes'[s].blocks) = Len(scopes[s].blocks)
           /\ \A b \in 1 .. Len(scopes[s].blocks) :
                scopes'[s].blocks[b].saved = scopes[s].blocks[b].saved,
         DOMAIN nodes' = DOMAIN nodes,
         \A n \in DOMAIN nodes : nodes'[n].parent = nodes[n].parent
  PROVE  BlocksFollowTree'
<1>1. Len(scopes) \in Nat /\ DOMAIN scopes' = 1 .. Len(scopes) /\ Root' = Root
  BY ScopeFacts DEF TypeOK, Root
<1> SUFFICES ASSUME NEW s \in 1 .. Len(scopes), NEW b \in DOMAIN scopes'[s].blocks
             PROVE  /\ scopes'[s].blocks[b].saved \in DOMAIN nodes'
                    /\ IF b = 1 THEN Into(s, b)' = scopes'[s].blocks[b].saved
                       ELSE Into(s, b)' # Root /\ nodes'[Into(s, b)'].parent = scopes'[s].blocks[b].saved
  BY <1>1 DEF BlocksFollowTree
<1>2. scopes'[s] \in ScopeType
  BY <1>1 DEF TypeOK
<1>3. b \in 1 .. Len(scopes[s].blocks)
  BY <1>2 DEF ScopeType
<1>4. Len(scopes[s].blocks) \in Nat
  BY ScopeFacts
<1>5. Into(s, b)' = Into(s, b)
  <2>1. CASE b < Len(scopes[s].blocks)
    <3>1. b + 1 \in 1 .. Len(scopes[s].blocks)
      BY <1>3, <1>4, <2>1
    <3>. QED BY <2>1, <3>1 DEF Into
  <2>2. CASE ~ (b < Len(scopes[s].blocks)) /\ s < Len(scopes)
    <3>1. s + 1 \in 1 .. Len(scopes)
      BY <1>1, <2>2
    <3>2. 1 \in 1 .. Len(scopes[s + 1].blocks)
      BY <3>1, ScopeFacts
    <3>. QED BY <2>2, <3>1, <3>2 DEF Into
  <2>3. CASE ~ (b < Len(scopes[s].blocks)) /\ ~ (s < Len(scopes))
    BY <2>3 DEF Into
  <2>. QED BY <2>1, <2>2, <2>3
<1>6. scopes'[s].blocks[b].saved = scopes[s].blocks[b].saved
  BY <1>3
<1>7. nodes'[Into(s, b)].parent = nodes[Into(s, b)].parent
  BY <1>3, IntoInTree
<1>8. /\ scopes[s].blocks[b].saved \in DOMAIN nodes
      /\ b = 1 => Into(s, b) = scopes[s].blocks[b].saved
      /\ b # 1 => Into(s, b) # Root /\ nodes[Into(s, b)].parent = scopes[s].blocks[b].saved
  BY <1>3, BlockPlace
<1>. QED BY <1>5, <1>6, <1>7, <1>8

(* What a block asks of the tree.                                          *)
Placed(s, b) ==
  /\ scopes[s].blocks[b].saved \in DOMAIN nodes
  /\ b = 1 => Into(s, b) = scopes[s].blocks[b].saved
  /\ b # 1 => Into(s, b) # Root /\ nodes[Into(s, b)].parent = scopes[s].blocks[b].saved

LEMMA AllPlaced ==
  ASSUME TypeOK',
         \A s \in 1 .. Len(scopes') : \A b \in 1 .. Len(scopes'[s].blocks) : Placed(s, b)'
  PROVE  BlocksFollowTree'
<1>1. DOMAIN scopes' = 1 .. Len(scopes')
  BY DEF TypeOK
<1>2. ASSUME NEW s \in 1 .. Len(scopes')
      PROVE  DOMAIN scopes'[s].blocks = 1 .. Len(scopes'[s].blocks)
  <2>1. scopes'[s] \in ScopeType
    BY <1>1 DEF TypeOK
  <2>. QED BY <2>1 DEF ScopeType
<1>. QED BY <1>1, <1>2 DEF BlocksFollowTree, Placed

LEMMA BlocksExpand ==
  ASSUME TypeOK, BlocksFollowTree, ExpandCall
  PROVE  BlocksFollowTree'
<1> DEFINE n == Len(scopes)
<1>1. TypeOK' /\ n \in Nat \ {0} /\ current \in DOMAIN nodes
  BY TypeExpandCall, ScopeFacts DEF TypeOK
<1>2. current' = current /\ nodes' = nodes /\ Root' = Root
  BY DEF ExpandCall, Root
<1>3. /\ Len(scopes') = n + 1
      /\ \A s \in 1 .. n : scopes'[s] = Advanced[s]
      /\ Len(scopes'[n + 1].blocks) = 1
      /\ scopes'[n + 1].blocks[1].saved = current
  <2> DEFINE blk == [code |-> Resolve(Current.key).body.content, next |-> 1, saved |-> current]
  <2>1. blk.saved = current
    OBVIOUS
  <2>2. /\ Len(scopes') = n + 1 /\ \A s \in 1 .. n : scopes'[s] = Advanced[s]
        /\ scopes'[n + 1].blocks = <<blk>>
    BY ExpandFacts
  <2> HIDE DEF blk
  <2>3. Len(<<blk>>) = 1 /\ <<blk>>[1] = blk
    OBVIOUS
  <2>. QED BY <2>1, <2>2, <2>3
<1>4. \A s \in 1 .. n :
        /\ Len(scopes'[s].blocks) = Len(scopes[s].blocks)
        /\ Len(scopes[s].blocks) \in Nat \ {0}
        /\ \A b \in 1 .. Len(scopes[s].blocks) :
             scopes'[s].blocks[b].saved = scopes[s].blocks[b].saved
  BY <1>3, AdvancedFacts, ScopeFacts
<1> HIDE DEF n
<1>5. ASSUME NEW s \in 1 .. n + 1, NEW b \in 1 .. Len(scopes'[s].blocks)
      PROVE  Placed(s, b)'
  <2>1. CASE s = n + 1
    <3>1. b = 1
      <4>1. Len(scopes'[s].blocks) = 1
        BY <1>3, <2>1
      <4>. QED BY <4>1
    <3>2. Into(s, b)' = current
      BY <1>1, <1>2, <1>3, <2>1, <3>1 DEF Into
    <3>. QED BY <1>1, <1>2, <1>3, <2>1, <3>1, <3>2 DEF Placed
  <2>2. CASE s \in 1 .. n
    <3>1. b \in 1 .. Len(scopes[s].blocks)
      BY <1>4, <2>2
    <3>2. Into(s, b)' = Into(s, b)
      <4>1. CASE b < Len(scopes[s].blocks)
        <5>1. b + 1 \in 1 .. Len(scopes[s].blocks)
          BY <1>4, <2>2, <3>1, <4>1
        <5>. QED BY <1>4, <2>2, <4>1, <5>1 DEF Into
      <4>2. CASE ~ (b < Len(scopes[s].blocks)) /\ s < n
        <5>1. s + 1 \in 1 .. n /\ s < n + 1
          BY <1>1, <2>2, <4>2
        <5>2. 1 \in 1 .. Len(scopes[s + 1].blocks)
          BY <1>4, <5>1
        <5>3. ~ (b < Len(scopes'[s].blocks))
          BY <1>4, <2>2, <4>2
        <5>. QED BY <1>3, <1>4, <4>2, <5>1, <5>2, <5>3 DEF Into, n
      <4>3. CASE ~ (b < Len(scopes[s].blocks)) /\ ~ (s < n)
        <5>1. s = n /\ s < n + 1
          BY <1>1, <2>2, <4>3
        <5>2. ~ (b < Len(scopes'[s].blocks))
          BY <1>4, <2>2, <4>3
        <5>. QED BY <1>2, <1>3, <4>3, <5>1, <5>2 DEF Into, n
      <4>. QED BY <4>1, <4>2, <4>3
    <3>3. Placed(s, b)
      BY <2>2, <3>1, BlockPlace DEF Placed, n
    <3>. QED BY <1>2, <1>4, <2>2, <3>1, <3>2, <3>3 DEF Placed
  <2>. QED BY <1>1, <2>1, <2>2
<1>. QED BY <1>1, <1>3, <1>5, AllPlaced

LEMMA BlocksEndCall ==
  ASSUME TypeOK, BlocksFollowTree, EndCall, TypeOK'
  PROVE  BlocksFollowTree'
<1> DEFINE n == Len(scopes)
<1>1. current' = current /\ nodes' = nodes /\ Root' = Root /\ Len(scopes[n].blocks) = 1
  BY DEF EndCall, Root, Scope
<1>2. /\ n \in Nat /\ n > 1 /\ Len(scopes') = n - 1
      /\ \A s \in 1 .. n - 1 : scopes'[s] = scopes[s]
  BY EndCallFacts
<1>3. current = scopes[n].blocks[1].saved
  <2>1. n \in 1 .. Len(scopes) /\ 1 \in 1 .. Len(scopes[n].blocks)
    BY <1>1, <1>2
  <2>2. Into(n, 1) = scopes[n].blocks[1].saved
    BY <2>1, BlockPlace
  <2>3. Into(n, 1) = current
    BY <1>1, <1>2 DEF Into
  <2>. QED BY <2>2, <2>3
<1> HIDE DEF n
<1>4. ASSUME NEW s \in 1 .. n - 1, NEW b \in 1 .. Len(scopes'[s].blocks)
      PROVE  Placed(s, b)'
  <2>1. scopes'[s] = scopes[s] /\ s \in 1 .. n /\ s < n
    BY <1>2
  <2>2. Into(s, b)' = Into(s, b)
    <3>1. CASE b < Len(scopes[s].blocks)
      BY <2>1, <3>1 DEF Into
    <3>2. CASE ~ (b < Len(scopes[s].blocks)) /\ s < n - 1
      <4>1. s + 1 \in 1 .. n - 1
        BY <1>2, <3>2
      <4>. QED BY <1>2, <2>1, <3>2, <4>1 DEF Into, n
    <3>3. CASE ~ (b < Len(scopes[s].blocks)) /\ ~ (s < n - 1)
      <4>1. s + 1 = n
        BY <1>2, <3>3
      <4>2. Into(s, b) = scopes[n].blocks[1].saved
        BY <2>1, <3>3, <4>1 DEF Into, n
      <4>3. Into(s, b)' = current
        BY <1>1, <1>2, <2>1, <3>3 DEF Into
      <4>. QED BY <1>3, <4>2, <4>3
    <3>. QED BY <3>1, <3>2, <3>3
  <2>3. Placed(s, b)
    BY <2>1, BlockPlace DEF Placed, n
  <2>. QED BY <1>1, <2>1, <2>2, <2>3 DEF Placed
<1>. QED BY <1>2, <1>4, AllPlaced

LEMMA BlocksAddRule ==
  ASSUME TypeOK, BlocksFollowTree, AddRule, TypeOK'
  PROVE  BlocksFollowTree'
<1> DEFINE n == Len(scopes)
           m == Len(scopes[n].blocks)
           N == Len(nodes)
<1>1. /\ n \in Nat \ {0} /\ m \in Nat \ {0} /\ N \in Nat \ {0} /\ Root' = Root /\ N + 1 # Root
      /\ \A s \in 1 .. n : Len(scopes[s].blocks) \in Nat \ {0}
  BY ScopeFacts, AddRuleTree DEF Root
<1>2. /\ current' = N + 1 /\ current \in DOMAIN nodes
      /\ DOMAIN nodes = 1 .. N /\ DOMAIN nodes' = 1 .. N + 1
      /\ \A k \in 1 .. N : nodes'[k].parent = nodes[k].parent
      /\ nodes'[N + 1].parent = current
  <2>1. NewNode(current, Trimmed).parent = current
    BY DEF NewNode
  <2>2. DOMAIN nodes = 1 .. N /\ DOMAIN nodes' = 1 .. Len(nodes')
    BY DEF TypeOK
  <2>. QED BY <2>1, <2>2, AddRuleTree
<1>3. /\ Len(scopes') = n
      /\ \A s \in 1 .. n : s < n =>
           /\ Len(scopes'[s].blocks) = Len(scopes[s].blocks)
           /\ \A b \in 1 .. Len(scopes[s].blocks) :
                scopes'[s].blocks[b].saved = scopes[s].blocks[b].saved
  <2>1. Len(scopes') = n /\ \A s \in 1 .. n : s < n => scopes'[s] = Advanced[s]
    BY AddRuleFacts
  <2>. QED BY <2>1, AdvancedFacts
<1>4. /\ Len(scopes'[n].blocks) = m + 1
      /\ scopes'[n].blocks[m + 1].saved = current
      /\ \A b \in 1 .. m : scopes'[n].blocks[b].saved = scopes[n].blocks[b].saved
  <2> DEFINE blk == [code |-> Current.body, next |-> 1, saved |-> current]
             q == Advanced[n].blocks
  <2>1. blk.saved = current
    OBVIOUS
  <2>2. blk \in BlockType /\ scopes'[n].blocks = Append(q, blk)
    BY AddRuleFacts
  <2>3. n \in 1 .. n
    BY <1>1
  <2>4. q \in Seq(BlockType) /\ Len(q) = m /\ \A b \in 1 .. m : q[b].saved = scopes[n].blocks[b].saved
    BY <2>3, AdvancedFacts
  <2> HIDE DEF blk, q
  <2>5. /\ Len(Append(q, blk)) = m + 1 /\ Append(q, blk)[m + 1] = blk
        /\ \A b \in 1 .. m : Append(q, blk)[b] = q[b]
    BY <2>2, <2>4, AppendFacts
  <2>. QED BY <2>1, <2>2, <2>4, <2>5
<1> HIDE DEF n, m, N
<1>5. ASSUME NEW s \in 1 .. n, NEW b \in 1 .. Len(scopes[s].blocks)
      PROVE  Placed(s, b)'
  <2>1. scopes'[s].blocks[b].saved = scopes[s].blocks[b].saved
    <3>1. CASE s = n
      <4>1. b \in 1 .. m
        BY <3>1 DEF m
      <4>. QED BY <1>4, <3>1, <4>1
    <3>2. CASE s # n
      <4>1. s < n
        BY <1>1, <3>2
      <4>. QED BY <1>3, <4>1
    <3>. QED BY <3>1, <3>2
  <2>2. Into(s, b)' = Into(s, b)
    <3>1. CASE b < Len(scopes[s].blocks)
      <4>1. b + 1 \in 1 .. Len(scopes[s].blocks)
        BY <1>1, <3>1
      <4>2. b < Len(scopes'[s].blocks)
        BY <1>1, <1>3, <1>4, <3>1 DEF m
      <4>3. scopes'[s].blocks[b + 1].saved = scopes[s].blocks[b + 1].saved
        <5>1. CASE s = n
          BY <1>4, <4>1, <5>1 DEF m
        <5>2. CASE s # n
          BY <1>1, <1>3, <4>1, <5>2
        <5>. QED BY <5>1, <5>2
      <4>. QED BY <3>1, <4>2, <4>3 DEF Into
    <3>2. CASE ~ (b < Len(scopes[s].blocks)) /\ s < n
      <4>1. s + 1 \in 1 .. n
        BY <1>1, <3>2
      <4>2. 1 \in 1 .. Len(scopes[s + 1].blocks)
        BY <1>1, <4>1
      <4>3. scopes'[s + 1].blocks[1].saved = scopes[s + 1].blocks[1].saved
        BY <1>1, <1>3, <1>4, <4>1, <4>2 DEF m
      <4>4. ~ (b < Len(scopes'[s].blocks))
        BY <1>3, <3>2
      <4>. QED BY <1>3, <3>2, <4>3, <4>4 DEF Into, n
    <3>3. CASE ~ (b < Len(scopes[s].blocks)) /\ ~ (s < n)
      <4>1. s = n /\ b = m
        BY <1>1, <3>3 DEF m
      <4>2. Into(s, b) = current
        BY <3>3 DEF Into, n
      <4>3. Into(s, b)' = current
        BY <1>1, <1>4, <4>1 DEF Into
      <4>. QED BY <4>2, <4>3
    <3>. QED BY <3>1, <3>2, <3>3
  <2>3. Placed(s, b)
    BY BlockPlace DEF Placed, n
  <2>4. Into(s, b) \in 1 .. N
    BY <1>2, IntoInTree DEF n
  <2>5. nodes'[Into(s, b)].parent = nodes[Into(s, b)].parent
    BY <1>2, <2>4
  <2>6. scopes[s].blocks[b].saved \in DOMAIN nodes'
    BY <1>1, <1>2, <2>3 DEF Placed
  <2>. QED BY <1>1, <2>1, <2>2, <2>3, <2>5, <2>6 DEF Placed
<1>6. ASSUME NEW s \in 1 .. n, NEW b \in 1 .. Len(scopes'[s].blocks)
      PROVE  Placed(s, b)'
  <2>1. CASE s = n /\ b = m + 1
    <3>1. Into(s, b)' = N + 1
      <4>1. ~ (b < Len(scopes'[s].blocks))
        BY <1>1, <1>4, <2>1
      <4>2. ~ (s < Len(scopes'))
        BY <1>1, <1>3, <2>1
      <4>. QED BY <1>2, <4>1, <4>2 DEF Into
    <3>2. current \in DOMAIN nodes' /\ b # 1
      BY <1>1, <1>2, <2>1
    <3>. QED BY <1>1, <1>2, <1>4, <2>1, <3>1, <3>2 DEF Placed
  <2>2. CASE ~ (s = n /\ b = m + 1)
    <3>1. b \in 1 .. Len(scopes[s].blocks)
      BY <1>1, <1>3, <1>4, <2>2 DEF m
    <3>. QED BY <1>5, <3>1
  <2>. QED BY <2>1, <2>2
<1>. QED BY <1>3, <1>6, AllPlaced

LEMMA BlocksEndRule ==
  ASSUME TypeOK, BlocksFollowTree, EndRule, TypeOK'
  PROVE  BlocksFollowTree'
<1> DEFINE n == Len(scopes)
           m == Len(scopes[n].blocks)
<1>1. /\ n \in Nat \ {0} /\ m \in Nat /\ m > 1 /\ Root' = Root
      /\ nodes' = nodes /\ current' = scopes[n].blocks[m].saved
      /\ \A s \in 1 .. n : Len(scopes[s].blocks) \in Nat \ {0}
  BY ScopeFacts, EndRuleFacts DEF Root, EndRule, Scope, Block
<1>2. /\ Len(scopes') = n
      /\ \A s \in 1 .. n : s < n => scopes'[s] = scopes[s]
      /\ Len(scopes'[n].blocks) = m - 1
      /\ \A b \in 1 .. m - 1 : scopes'[n].blocks[b] = scopes[n].blocks[b]
  BY EndRuleFacts DEF Scope
<1> HIDE DEF n, m
<1>3. ASSUME NEW s \in 1 .. n, NEW b \in 1 .. Len(scopes'[s].blocks)
      PROVE  Placed(s, b)'
  <2>1. b \in 1 .. Len(scopes[s].blocks) /\ scopes'[s].blocks[b] = scopes[s].blocks[b]
    <3>1. CASE s = n
      <4>1. b \in 1 .. m - 1
        BY <1>2, <3>1
      <4>2. b \in 1 .. m
        BY <1>1, <4>1
      <4>. QED BY <1>2, <3>1, <4>1, <4>2 DEF m
    <3>2. CASE s # n
      BY <1>1, <1>2, <3>2
    <3>. QED BY <3>1, <3>2
  <2>2. Into(s, b)' = Into(s, b)
    <3>1. CASE s = n /\ b < m - 1
      <4>1. b + 1 \in 1 .. m - 1 /\ b < m
        BY <1>1, <2>1, <3>1 DEF m
      <4>. QED BY <1>2, <3>1, <4>1 DEF Into, m
    <3>2. CASE s = n /\ ~ (b < m - 1)
      <4>1. b + 1 = m
        <5>1. b \in 1 .. m - 1
          BY <1>2, <3>2
        <5>. QED BY <1>1, <3>2, <5>1
      <4>2. Into(s, b) = scopes[n].blocks[m].saved
        BY <1>1, <3>2, <4>1 DEF Into, m
      <4>3. Into(s, b)' = current'
        BY <1>1, <1>2, <3>2 DEF Into
      <4>. QED BY <1>1, <4>2, <4>3
    <3>3. CASE s # n /\ b < Len(scopes[s].blocks)
      <4>1. scopes'[s] = scopes[s]
        BY <1>1, <1>2, <3>3
      <4>. QED BY <3>3, <4>1 DEF Into
    <3>4. CASE s # n /\ ~ (b < Len(scopes[s].blocks))
      <4>1. scopes'[s] = scopes[s] /\ s < n /\ s + 1 \in 1 .. n
        BY <1>1, <1>2, <3>4
      <4>2. scopes'[s + 1].blocks[1] = scopes[s + 1].blocks[1]
        <5>1. CASE s + 1 = n
          BY <1>1, <1>2, <5>1
        <5>2. CASE s + 1 < n
          BY <1>2, <4>1, <5>2
        <5>. QED BY <1>1, <4>1, <5>1, <5>2
      <4>. QED BY <1>2, <3>4, <4>1, <4>2 DEF Into, n
    <3>. QED BY <3>1, <3>2, <3>3, <3>4
  <2>3. Placed(s, b)
    BY <2>1, BlockPlace DEF Placed, n
  <2>. QED BY <1>1, <2>1, <2>2, <2>3 DEF Placed
<1>. QED BY <1>2, <1>3, AllPlaced

LEMMA BlocksNext ==
  ASSUME TypeOK, BlocksFollowTree, TypeOK', [Next]_vars
  PROVE  BlocksFollowTree'
<1>1. CASE SetValue \/ Ignore \/ DropCall
  <2>1. scopes' = Advanced /\ current' = current
    BY <1>1 DEF SetValue, Ignore, DropCall
  <2>2. SetValue \/ nodes' = nodes
    BY <1>1 DEF Ignore, DropCall
  <2>3. DOMAIN nodes' = DOMAIN nodes /\ \A k \in DOMAIN nodes : nodes'[k].parent = nodes[k].parent
    BY <2>2, SameTree
  <2>. QED BY <2>1, <2>3, AdvancedFacts, BlocksSame
<1>2. CASE \/ BeginRule \/ PushPart \/ PushComma \/ ExpandSelectorCall
           \/ DropSelectorCall \/ EndSelectorCall \/ UNCHANGED vars
  <2>1. scopes' = scopes /\ current' = current /\ nodes' = nodes
    BY <1>2 DEF BeginRule, PushPart, PushComma, ExpandSelectorCall, DropSelectorCall,
                EndSelectorCall, vars
  <2>. QED BY <2>1, BlocksSame
<1>3. CASE ExpandCall
  BY <1>3, BlocksExpand
<1>4. CASE EndCall
  BY <1>4, BlocksEndCall
<1>5. CASE AddRule
  BY <1>5, BlocksAddRule
<1>6. CASE EndRule
  BY <1>6, BlocksEndRule
<1>. QED BY <1>1, <1>2, <1>3, <1>4, <1>5, <1>6 DEF Next, Terminated

-----------------------------------------------------------------------------
(* Selector lists.                                                         *)

LEMMA SelectorsInit == Init => SelectorsNormal
BY DEF Init, SelectorsNormal, NoEmptyPlace, NewNode

(* Dropping one comma at the end leaves a list that ends in a selector.    *)
LEMMA TrimmedNormal ==
  ASSUME TypeOK, NoEmptyPlace(out)
  PROVE  NoEmptyPlace(Trimmed) /\ (Trimmed # <<>> => Trimmed[Len(Trimmed)].kind # "comma")
<1>1. out \in Seq(Selector) /\ Len(out) \in Nat /\ DOMAIN out = 1 .. Len(out)
  BY DEF TypeOK
<1>2. CASE ~ (out # <<>> /\ out[Len(out)].kind = "comma")
  BY <1>2 DEF Trimmed
<1>3. CASE out # <<>> /\ out[Len(out)].kind = "comma"
  <2> DEFINE m == Len(out) - 1
  <2>1. /\ m \in Nat /\ Trimmed \in Seq(Selector) /\ Len(Trimmed) = m
        /\ \A i \in 1 .. m : Trimmed[i] = out[i]
    <3>1. Trimmed = SubSeq(out, 1, Len(out) - 1)
      BY <1>3 DEF Trimmed
    <3>2. /\ Len(out) \in Nat \ {0} /\ SubSeq(out, 1, Len(out) - 1) \in Seq(Selector)
          /\ Len(SubSeq(out, 1, Len(out) - 1)) = Len(out) - 1
          /\ \A i \in 1 .. Len(out) - 1 : SubSeq(out, 1, Len(out) - 1)[i] = out[i]
      BY <1>1, <1>3, PopFacts
    <3>. QED BY <3>1, <3>2
  <2>2. \A i \in 1 .. m : i \in DOMAIN out /\ (i > 1 => i - 1 \in 1 .. m)
    BY <1>1, <2>1
  <2>3. DOMAIN Trimmed = 1 .. m
    BY <2>1
  <2>4. NoEmptyPlace(Trimmed)
    BY <2>1, <2>2, <2>3 DEF NoEmptyPlace
  <2>5. Trimmed # <<>> => Trimmed[Len(Trimmed)].kind # "comma"
    <3> SUFFICES ASSUME Trimmed # <<>> PROVE out[m].kind # "comma"
      BY <2>1
    <3>1. m \in 1 .. m
      BY <2>1
    <3>2. Len(out) \in DOMAIN out
      BY <1>1, <2>1
    <3>3. out[Len(out) - 1].kind # "comma"
      BY <1>3, <3>2 DEF NoEmptyPlace
    <3>. QED BY <3>3
  <2>. QED BY <2>4, <2>5
<1>. QED BY <1>2, <1>3

LEMMA AppendNormal ==
  ASSUME NEW q \in Seq(Selector), NEW x \in Selector, NoEmptyPlace(q),
         x.kind = "comma" => q # <<>> /\ q[Len(q)].kind # "comma"
  PROVE  /\ NoEmptyPlace(Append(q, x))
         /\ Append(q, x) # <<>> /\ Append(q, x)[Len(Append(q, x))] = x
<1> DEFINE r == Append(q, x)
           n == Len(q)
<1>1. /\ n \in Nat /\ DOMAIN q = 1 .. n /\ Len(r) = n + 1 /\ DOMAIN r = 1 .. n + 1
      /\ r[n + 1] = x /\ \A i \in 1 .. n : r[i] = q[i]
  OBVIOUS
<1>2. ASSUME NEW i \in 1 .. n + 1, r[i].kind = "comma"
      PROVE  i > 1 /\ r[i - 1].kind # "comma"
  <2>1. CASE i = n + 1
    <3>1. n # 0
      BY <1>1, <1>2, <2>1
    <3>2. n \in 1 .. n /\ q[n].kind # "comma"
      BY <1>1, <1>2, <2>1, <3>1
    <3>. QED BY <1>1, <2>1, <3>2
  <2>2. CASE i # n + 1
    <3>1. i \in 1 .. n /\ r[i] = q[i]
      BY <1>1, <2>2
    <3>2. i > 1 /\ q[i - 1].kind # "comma"
      BY <1>1, <1>2, <3>1 DEF NoEmptyPlace
    <3>3. i - 1 \in 1 .. n
      BY <1>1, <3>1, <3>2
    <3>. QED BY <1>1, <3>2, <3>3
  <2>. QED BY <2>1, <2>2
<1>3. r # <<>>
  BY <1>1
<1>. QED BY <1>1, <1>2, <1>3 DEF NoEmptyPlace

(* The selectors of the nodes stay as they were, and AddRule adds one.     *)
LEMMA NodesNormal ==
  ASSUME TypeOK, SelectorsNormal, [Next]_vars
  PROVE  \A n \in DOMAIN nodes' :
           /\ NoEmptyPlace(nodes'[n].selector)
           /\ nodes'[n].selector # <<>> =>
                nodes'[n].selector[Len(nodes'[n].selector)].kind # "comma"
<1>0. \A n \in DOMAIN nodes :
        /\ NoEmptyPlace(nodes[n].selector)
        /\ nodes[n].selector # <<>> => nodes[n].selector[Len(nodes[n].selector)].kind # "comma"
  BY DEF SelectorsNormal
<1>1. ASSUME ~ AddRule
      PROVE  DOMAIN nodes' = DOMAIN nodes /\ \A n \in DOMAIN nodes : nodes'[n].selector = nodes[n].selector
  <2>1. SetValue \/ nodes' = nodes
    BY <1>1, SetOrSame
  <2>. QED BY <2>1, SameTree
<1>2. CASE AddRule
  <2>1. /\ DOMAIN nodes' = 1 .. Len(nodes) + 1 /\ DOMAIN nodes = 1 .. Len(nodes) /\ Len(nodes) \in Nat
        /\ \A n \in 1 .. Len(nodes) : nodes'[n].selector = nodes[n].selector
        /\ nodes'[Len(nodes) + 1].selector = Trimmed
    <3>1. NewNode(current, Trimmed).selector = Trimmed
      BY DEF NewNode
    <3>2. DOMAIN nodes = 1 .. Len(nodes) /\ DOMAIN nodes' = 1 .. Len(nodes')
      BY <1>2, AddRuleTree DEF TypeOK
    <3>. QED BY <1>2, <3>1, <3>2, AddRuleTree
  <2>2. NoEmptyPlace(Trimmed) /\ (Trimmed # <<>> => Trimmed[Len(Trimmed)].kind # "comma")
    BY TrimmedNormal DEF SelectorsNormal
  <2> TAKE n \in DOMAIN nodes'
  <2>3. CASE n = Len(nodes) + 1
    BY <2>1, <2>2, <2>3
  <2>4. CASE n \in DOMAIN nodes
    BY <1>0, <2>1, <2>4
  <2>. QED BY <2>1, <2>3, <2>4
<1>3. ASSUME ~ AddRule PROVE \A n \in DOMAIN nodes' :
           /\ NoEmptyPlace(nodes'[n].selector)
           /\ nodes'[n].selector # <<>> =>
                nodes'[n].selector[Len(nodes'[n].selector)].kind # "comma"
  <2> TAKE n \in DOMAIN nodes'
  <2>1. n \in DOMAIN nodes /\ nodes'[n].selector = nodes[n].selector
    BY <1>1, <1>3
  <2>. QED BY <1>0, <2>1
<1>. QED BY <1>2, <1>3

LEMMA SelectorsNext ==
  ASSUME TypeOK, SelectorsNormal, [Next]_vars
  PROVE  SelectorsNormal'
<1>0. /\ NoEmptyPlace(out)
      /\ lists # <<>> => (comma <=> out = <<>> \/ out[Len(out)].kind = "comma")
  BY DEF SelectorsNormal
<1> SUFFICES /\ NoEmptyPlace(out')
             /\ lists' # <<>> => (comma' <=> out' = <<>> \/ out'[Len(out')].kind = "comma")
  BY NodesNormal DEF SelectorsNormal, NoEmptyPlace
<1>1. CASE PushPart \/ PushComma
  <2>1. lists # <<>> /\ Node \in Selector
    <3>1. lists # <<>> /\ List.next <= Len(List.code)
      BY <1>1 DEF PushPart, PushComma, InList
    <3>. QED BY <3>1, ListFacts
  <2>2. out \in Seq(Selector) /\ comma \in BOOLEAN
    BY DEF TypeOK
  <2>3. CASE PushPart
    <3>1. Node.kind = "part" /\ out' = Append(out, Node) /\ comma' = FALSE
      BY <2>3 DEF PushPart
    <3>2. NoEmptyPlace(out') /\ out' # <<>> /\ out'[Len(out')] = Node
      BY <1>0, <2>1, <2>2, <3>1, AppendNormal
    <3>. QED BY <3>1, <3>2
  <2>4. CASE PushComma /\ comma
    <3>1. out' = out /\ comma' = TRUE
      BY <2>4 DEF PushComma
    <3>. QED BY <1>0, <2>1, <2>4, <3>1
  <2>5. CASE PushComma /\ ~ comma
    <3>1. Node.kind = "comma" /\ out' = Append(out, Node) /\ comma' = TRUE
      BY <2>5 DEF PushComma
    <3>2. out # <<>> /\ out[Len(out)].kind # "comma"
      BY <1>0, <2>1, <2>5
    <3>3. NoEmptyPlace(out') /\ out' # <<>> /\ out'[Len(out')] = Node
      BY <1>0, <2>1, <2>2, <3>1, <3>2, AppendNormal
    <3>. QED BY <3>1, <3>3
  <2>. QED BY <1>1, <2>3, <2>4, <2>5
<1>2. CASE BeginRule
  BY <1>2 DEF BeginRule, NoEmptyPlace
<1>3. CASE ExpandSelectorCall \/ DropSelectorCall \/ EndSelectorCall \/ UNCHANGED vars
  <2>1. out' = out /\ comma' = comma /\ (lists' # <<>> => lists # <<>>)
    <3>1. CASE ExpandSelectorCall \/ DropSelectorCall \/ UNCHANGED vars
      BY <3>1 DEF ExpandSelectorCall, DropSelectorCall, InList, vars
    <3>2. CASE EndSelectorCall
      <4>1. Len(lists) > 1 /\ out' = out /\ comma' = comma
        BY <3>2 DEF EndSelectorCall
      <4>2. lists # <<>>
        BY <4>1
      <4>. QED BY <4>1, <4>2
    <3>. QED BY <1>3, <3>1, <3>2
  <2>. QED BY <1>0, <2>1
<1>4. CASE SetValue \/ Ignore \/ ExpandCall \/ DropCall \/ EndCall \/ AddRule \/ EndRule
  <2>1. out' = out /\ lists' = <<>>
    BY <1>4 DEF SetValue, Ignore, ExpandCall, DropCall, EndCall, AddRule, EndRule, InBlock
  <2>. QED BY <1>0, <2>1
<1>. QED BY <1>1, <1>2, <1>3, <1>4 DEF Next, Terminated

-----------------------------------------------------------------------------
(* The theorems.                                                           *)

LEMMA TypeNext == ASSUME IInv, [Next]_vars PROVE TypeOK'
<1>1. CASE UNCHANGED vars
  <2>1. UNCHANGED <<program, nodes, current, bindings, active, scopes, lists, out, comma>>
    BY <1>1 DEF vars
  <2>. QED BY <2>1 DEF IInv, TypeOK, Block, Scope, Current
<1>2. CASE EndCall
  BY <1>2, TypeEndCall DEF IInv, ArgumentsPointOutward
<1>3. CASE EndRule
  <2>1. Len(scopes) \in 1 .. Len(scopes) /\ Len(Scope.blocks) \in 1 .. Len(scopes[Len(scopes)].blocks)
    BY ScopeFacts DEF IInv, Scope
  <2>2. Block.saved \in DOMAIN nodes
    BY <2>1, BlockPlace DEF IInv, Block, Scope
  <2>. QED BY <1>3, <2>2, TypeEndRule DEF IInv
<1>. QED BY <1>1, <1>2, <1>3, TypeSet, TypeIgnore, TypeExpandCall, TypeBeginRule, TypePush, TypeAddRule
         DEF IInv, Next, Terminated

LEMMA RootSaved ==
  ASSUME IInv, TypeOK', [Next]_vars
  PROVE  scopes'[1].blocks[1].saved = Root
<1>0. scopes[1].blocks[1].saved = Root /\ TypeOK
  BY DEF IInv
<1>1. 1 \in 1 .. Len(scopes) /\ 1 \in 1 .. Len(scopes[1].blocks) /\ Len(scopes) \in Nat
  BY <1>0, ScopeFacts
<1>2. Advanced[1].blocks[1].saved = Root
  BY <1>0, <1>1, AdvancedFacts
<1>3. CASE SetValue \/ Ignore \/ DropCall
  BY <1>2, <1>3 DEF SetValue, Ignore, DropCall
<1>4. CASE ExpandCall
  BY <1>0, <1>1, <1>2, <1>4, ExpandFacts
<1>5. CASE EndCall
  BY <1>0, <1>1, <1>5, EndCallFacts
<1>6. CASE AddRule
  <2>1. CASE Len(scopes) = 1
    <3> DEFINE blk == [code |-> Current.body, next |-> 1, saved |-> current]
    <3>1. scopes'[1].blocks = Append(Advanced[1].blocks, blk) /\ blk \in BlockType
      BY <1>0, <1>6, <2>1, AddRuleFacts
    <3> HIDE DEF blk
    <3>2. Advanced[1].blocks \in Seq(BlockType) /\ 1 \in 1 .. Len(Advanced[1].blocks)
      BY <1>0, <1>1, AdvancedFacts
    <3>. QED BY <1>2, <3>1, <3>2, AppendFacts
  <2>2. CASE Len(scopes) # 1
    BY <1>0, <1>1, <1>2, <1>6, <2>2, AddRuleFacts
  <2>. QED BY <2>1, <2>2
<1>7. CASE EndRule
  <2>1. CASE Len(scopes) = 1
    BY <1>0, <1>7, <2>1, EndRuleFacts DEF Scope
  <2>2. CASE Len(scopes) # 1
    BY <1>0, <1>1, <1>7, <2>2, EndRuleFacts
  <2>. QED BY <2>1, <2>2
<1>8. CASE \/ BeginRule \/ PushPart \/ PushComma \/ ExpandSelectorCall
           \/ DropSelectorCall \/ EndSelectorCall \/ UNCHANGED vars
  BY <1>0, <1>8 DEF BeginRule, PushPart, PushComma, ExpandSelectorCall, DropSelectorCall,
                    EndSelectorCall, vars
<1>. QED BY <1>3, <1>4, <1>5, <1>6, <1>7, <1>8 DEF Next, Terminated

LEMMA InitIInv == Init => IInv
<1>1. Init => scopes[1].blocks[1].saved = Root
  BY DEF Init
<1> QED BY <1>1, TypeInit, OutwardInit, GuardInit, TreeInit, BlocksInit, SelectorsInit DEF IInv

LEMMA NextIInv == IInv /\ [Next]_vars => IInv'
<1> SUFFICES ASSUME IInv, [Next]_vars PROVE IInv'
  OBVIOUS
<1>1. TypeOK'
  BY TypeNext
<1>2. ArgumentsPointOutward' /\ ActiveIsOpenExpansions' /\ TreeWellFormed' /\ BlocksFollowTree' /\ SelectorsNormal'
  BY <1>1, OutwardNext, GuardNext, TreeNext, BlocksNext, SelectorsNext DEF IInv
<1>3. (scopes[1].blocks[1].saved = Root)'
  BY <1>1, RootSaved DEF Root
<1> QED BY <1>1, <1>2, <1>3 DEF IInv

(* Everything the compiler keeps stays consistent, whatever the file.      *)
THEOREM Invariance == Spec => []IInv
BY InitIInv, NextIInv, PTL DEF Spec

(* The compiler's state always has its shape.                              *)
THEOREM TypeCorrect == Spec => []TypeOK
<1>1. IInv => TypeOK
  BY DEF IInv
<1>. QED BY <1>1, Invariance, PTL

(* No argument is ever looked up in a frame that is gone, and following    *)
(* arguments passed on from macro to macro always ends.                    *)
THEOREM BindingsSound == Spec => []ArgumentsPointOutward
<1>1. IInv => ArgumentsPointOutward
  BY DEF IInv
<1>. QED BY <1>1, Invariance, PTL

(* The recursion guard is exactly the set of open expansions: no macro is  *)
(* expanded inside itself, and none is refused that is not open.           *)
THEOREM GuardExact == Spec => []ActiveIsOpenExpansions
<1>1. IInv => ActiveIsOpenExpansions
  BY DEF IInv
<1>. QED BY <1>1, Invariance, PTL

(* A nested rule's body, and what is expanded in it, always goes into a    *)
(* child of the node the rule stands in.                                   *)
THEOREM BodiesInPlace == Spec => []BlocksFollowTree
<1>1. IInv => BlocksFollowTree
  BY DEF IInv
<1> QED BY <1>1, Invariance, PTL

(* What is compiled so far is always one tree.                             *)
THEOREM AlwaysATree == Spec => []TreeWellFormed
<1>1. IInv => TreeWellFormed
  BY DEF IInv
<1>. QED BY <1>1, Invariance, PTL

(* No compiled selector list has an empty place.                           *)
THEOREM NoEmptySelectors == Spec => []SelectorsNormal
<1>1. IInv => SelectorsNormal
  BY DEF IInv
<1>. QED BY <1>1, Invariance, PTL

(* A finished compilation has put everything back.                         *)
THEOREM Unwinds == Spec => []UnwindsCompletely
<1>1. IInv => UnwindsCompletely
  <2> SUFFICES ASSUME IInv, Done PROVE active = {} /\ bindings = <<EmptyFrame>> /\ current = Root
    BY DEF UnwindsCompletely
  <2>1. lists = <<>> /\ Len(scopes) = 1 /\ Len(scopes[1].blocks) = 1
    BY DEF Done, Scope
  <2>2. active = {}
    BY <2>1 DEF IInv, ActiveIsOpenExpansions
  <2>3. bindings = <<EmptyFrame>>
    <3> DEFINE F == [Name -> BoundArg]
    <3>1. bindings \in Seq(F) /\ Len(bindings) = 1 /\ \A n \in Name : bindings[1][n] = Unbound
      BY <2>1 DEF IInv, TypeOK, ArgumentsPointOutward
    <3>2. bindings[1] \in F
      BY <3>1
    <3>3. bindings[1] = EmptyFrame
      BY <3>1, <3>2 DEF EmptyFrame
    <3>. QED BY <3>1, <3>3
  <2>4. current = Root
    <3>1. 1 \in 1 .. Len(scopes) /\ 1 \in 1 .. Len(scopes[1].blocks)
      BY <2>1
    <3>2. Into(1, 1) = scopes[1].blocks[1].saved
      BY <3>1, BlockPlace DEF IInv
    <3>3. Into(1, 1) = current
      BY <2>1 DEF Into
    <3>. QED BY <3>2, <3>3 DEF IInv
  <2>. QED BY <2>2, <2>3, <2>4
<1>. QED BY <1>1, Invariance, PTL

(* A compiled node's place and selector never change again, and only the   *)
(* node that is being compiled into changes at all.                        *)
THEOREM NodesSettle == Spec => OnlyCurrentChanges
<1>1. ASSUME IInv, [Next]_vars
      PROVE  \A n \in DOMAIN nodes :
               /\ n \in DOMAIN nodes'
               /\ n # current => nodes'[n] = nodes[n]
               /\ nodes'[n].parent = nodes[n].parent
               /\ nodes'[n].selector = nodes[n].selector
  <2>0. TypeOK
    BY <1>1 DEF IInv
  <2>1. CASE AddRule
    <3>1. DOMAIN nodes = 1 .. Len(nodes) /\ DOMAIN nodes' = 1 .. Len(nodes')
      BY <2>0, <2>1, AddRuleTree DEF TypeOK
    <3>. QED BY <2>0, <2>1, <3>1, AddRuleTree
  <2>2. CASE SetValue \/ nodes' = nodes
    BY <2>0, <2>2, SameTree
  <2>. QED BY <1>1, <2>1, <2>2, SetOrSame
<1>. QED BY <1>1, Invariance, PTL DEF Spec, OnlyCurrentChanges

-----------------------------------------------------------------------------
(* A file all of whose calls find their macros.                            *)

LEMMA ResolveSame ==
  ASSUME program' = program, NEW key
  PROVE  Resolve(key)' = Resolve(key)
BY DEF Resolve, Local, NoMacro, NoBody

LEMMA ProgramSame == ASSUME [Next]_vars PROVE program' = program
BY DEF Next, SetValue, Ignore, ExpandCall, DropCall, EndCall, BeginRule, PushPart, PushComma,
       ExpandSelectorCall, DropSelectorCall, EndSelectorCall, AddRule, EndRule, Terminated, vars

(* The constructs of a block stand in the macro the block belongs to.      *)
Stands(ground, i, b) ==
  \A n \in DOMAIN scopes[i].blocks[b].code : scopes[i].blocks[b].code[n] \in ground[scopes[i].key]

BlocksStand(ground) ==
  \A i \in 1 .. Len(scopes) : \A b \in 1 .. Len(scopes[i].blocks) : Stands(ground, i, b)

LEMMA BlocksStandEverywhere ==
  ASSUME TypeOK, NEW ground
  PROVE  BlocksStand(ground) <=>
         \A i \in DOMAIN scopes : \A b \in DOMAIN scopes[i].blocks :
           \A n \in DOMAIN scopes[i].blocks[b].code : scopes[i].blocks[b].code[n] \in ground[scopes[i].key]
<1>1. DOMAIN scopes = 1 .. Len(scopes)
  BY ScopeFacts
<1>2. \A i \in 1 .. Len(scopes) : DOMAIN scopes[i].blocks = 1 .. Len(scopes[i].blocks)
  <2> SUFFICES ASSUME NEW i \in 1 .. Len(scopes)
               PROVE  DOMAIN scopes[i].blocks = 1 .. Len(scopes[i].blocks)
    OBVIOUS
  <2>1. scopes[i].blocks \in Seq(BlockType)
    BY ScopeFacts
  <2> QED BY <2>1
<1> QED BY <1>1, <1>2 DEF BlocksStand, Stands

LEMMA CurrentStands ==
  ASSUME TypeOK, NEW ground, BlocksStand(ground), Block.next <= Len(Block.code)
  PROVE  Current \in Item /\ Current \in ground[Scope.key] /\ Scope.key \in Key \cup {NoKey}
<1>1. Len(scopes) \in 1 .. Len(scopes) /\ Len(Scope.blocks) \in 1 .. Len(scopes[Len(scopes)].blocks)
  BY ScopeFacts DEF Scope
<1>2. Stands(ground, Len(scopes), Len(Scope.blocks))
  BY <1>1 DEF BlocksStand
<1>3. Block.next \in DOMAIN Block.code
  BY BlockFacts
<1>4. Current \in ground[Scope.key]
  BY <1>2, <1>3 DEF Stands, Current, Block, Scope
<1> QED BY <1>1, <1>4, BlockFacts, ScopeFacts DEF Scope

LEMMA BlocksStandNext ==
  ASSUME TypeOK, TypeOK', NEW ground, Grounded(ground), BlocksStand(ground), [Next]_vars
  PROVE  BlocksStand(ground)'
<1> DEFINE n == Len(scopes)
<1>0. n \in Nat \ {0}
  BY ScopeFacts
<1> SUFFICES ASSUME NEW i \in 1 .. Len(scopes'), NEW b \in 1 .. Len(scopes'[i].blocks)
             PROVE  Stands(ground, i, b)'
  BY DEF BlocksStand
<1>1. ASSUME i \in 1 .. n, b \in 1 .. Len(scopes[i].blocks),
             scopes'[i].key = scopes[i].key, scopes'[i].blocks[b].code = scopes[i].blocks[b].code
      PROVE  Stands(ground, i, b)'
  BY <1>1 DEF BlocksStand, Stands
<1>2. ASSUME i \in 1 .. n, scopes'[i] = Advanced[i]
      PROVE  Stands(ground, i, b)'
  <2>1. b \in 1 .. Len(scopes[i].blocks)
    BY <1>2, AdvancedFacts
  <2> QED BY <1>1, <1>2, <2>1, AdvancedFacts
<1>3. CASE SetValue \/ Ignore \/ DropCall
  <2>1. scopes' = Advanced
    BY <1>3 DEF SetValue, Ignore, DropCall
  <2> QED BY <1>2, <2>1, AdvancedFacts
<1>4. CASE ExpandCall
  <2>1. CASE i = n + 1
    <3> DEFINE k == Current.key
               blk == [code |-> Resolve(k).body.content, next |-> 1, saved |-> current]
    <3>1. scopes'[i].key = k /\ scopes'[i].blocks = <<blk>> /\ k \in Key
      BY <1>4, <2>1, ExpandFacts
    <3>2. blk.code = Resolve(k).body.content
      OBVIOUS
    <3>3. Resolve(k).body.kind = "construct"
      BY <1>4 DEF ExpandCall, Expandable
    <3>4. \A m \in DOMAIN Resolve(k).body.content : Resolve(k).body.content[m] \in ground[k]
      BY <3>1, <3>3 DEF Grounded
    <3> HIDE DEF k, blk
    <3>5. b = 1 /\ scopes'[i].blocks[b] = blk
      BY <3>1
    <3> QED BY <3>1, <3>2, <3>4, <3>5 DEF Stands
  <2>2. CASE i # n + 1
    <3>1. i \in 1 .. n
      BY <1>0, <1>4, <2>2, ExpandFacts
    <3> QED BY <1>2, <1>4, <3>1, ExpandFacts
  <2> QED BY <2>1, <2>2
<1>5. CASE EndCall
  <2>1. i \in 1 .. n - 1 /\ i \in 1 .. n
    BY <1>0, <1>5, EndCallFacts
  <2>2. scopes'[i] = scopes[i]
    BY <1>5, <2>1, EndCallFacts
  <2> QED BY <1>1, <2>1, <2>2
<1>6. CASE AddRule
  <2>0. i \in 1 .. n
    BY <1>6, AddRuleFacts
  <2>1. CASE i < n
    BY <1>2, <1>6, <2>0, <2>1, AddRuleFacts
  <2>2. CASE i = n
    <3> DEFINE blk == [code |-> Current.body, next |-> 1, saved |-> current]
               bs == Advanced[n].blocks
    <3>1. scopes'[n].blocks = Append(bs, blk) /\ blk \in BlockType /\ bs \in Seq(BlockType)
      BY <1>6, <2>0, <2>2, AddRuleFacts, AdvancedFacts
    <3>2. blk.code = Current.body
      OBVIOUS
    <3>3. lists # <<>>
      <4>1. Len(lists) = 1 /\ Len(<<>>) = 0
        BY <1>6 DEF AddRule
      <4> QED BY <4>1
    <3>4. /\ Current \in ground[Scope.key] /\ Scope.key \in Key \cup {NoKey}
          /\ Current.kind = "rule"
      BY <1>6, <3>3, CurrentStands, AddRuleFacts DEF TypeOK
    <3>5. \A m \in DOMAIN Current.body : Current.body[m] \in ground[Scope.key]
      BY <3>4 DEF Grounded
    <3>6. scopes'[n].key = Scope.key
      BY <1>6, <2>0, <2>2, AddRuleFacts DEF Scope
    <3>7. Len(bs) = Len(scopes[n].blocks) /\ Len(bs) \in Nat
      BY <1>0, <3>1, AdvancedFacts
    <3> HIDE DEF blk, bs
    <3>8. /\ Len(scopes'[n].blocks) = Len(bs) + 1 /\ scopes'[n].blocks[Len(bs) + 1] = blk
          /\ \A j \in 1 .. Len(bs) : scopes'[n].blocks[j] = bs[j]
      BY <3>1, AppendFacts
    <3>9. CASE b = Len(bs) + 1
      BY <2>2, <3>2, <3>5, <3>6, <3>8, <3>9 DEF Stands
    <3>10. CASE b # Len(bs) + 1
      <4>1. b \in 1 .. Len(bs)
        BY <2>2, <3>7, <3>8, <3>10
      <4>2. scopes'[i].blocks[b].code = scopes[i].blocks[b].code
        <5>1. bs[b].code = scopes[n].blocks[b].code
          BY <1>0, <3>7, <4>1, AdvancedFacts DEF bs
        <5> QED BY <2>2, <3>8, <4>1, <5>1
      <4> QED BY <1>1, <2>0, <2>2, <3>6, <3>7, <4>1, <4>2 DEF Scope
    <3> QED BY <3>9, <3>10
  <2> QED BY <1>0, <2>0, <2>1, <2>2
<1>7. CASE EndRule
  <2>0. i \in 1 .. n /\ scopes'[i].key = scopes[i].key
    BY <1>7, EndRuleFacts
  <2>1. CASE i < n
    <3>1. scopes'[i] = scopes[i]
      BY <1>7, <2>0, <2>1, EndRuleFacts
    <3> QED BY <1>1, <2>0, <3>1
  <2>2. CASE i = n
    <3>1. b \in 1 .. Len(Scope.blocks) - 1 /\ Len(Scope.blocks) \in Nat
      BY <1>7, <2>2, EndRuleFacts
    <3>2. scopes'[i].blocks[b] = scopes[i].blocks[b]
      BY <1>7, <2>2, <3>1, EndRuleFacts DEF Scope
    <3>3. b \in 1 .. Len(scopes[i].blocks)
      BY <2>2, <3>1 DEF Scope
    <3> QED BY <1>1, <2>0, <3>2, <3>3
  <2> QED BY <1>0, <2>0, <2>1, <2>2
<1>8. CASE \/ BeginRule \/ PushPart \/ PushComma \/ ExpandSelectorCall
           \/ DropSelectorCall \/ EndSelectorCall \/ UNCHANGED vars
  <2>1. scopes' = scopes
    BY <1>8 DEF BeginRule, PushPart, PushComma, ExpandSelectorCall, DropSelectorCall,
                EndSelectorCall, vars
  <2> QED BY <1>1, <2>1
<1> QED BY <1>3, <1>4, <1>5, <1>6, <1>7, <1>8 DEF Next, Terminated
(* The open expansions, and those of selectors.                            *)
KeysStand(ground, rank) ==
  /\ scopes[1].key = NoKey
  /\ \A i \in 2 .. Len(scopes) :
       /\ scopes[i].key \in Key
       /\ Resolve(scopes[i].key).body.kind = "construct"
       /\ \E c \in ground[scopes[i - 1].key] : c.kind = "call" /\ c.key = scopes[i].key
  /\ \A i, j \in 2 .. Len(scopes) : i < j => rank[scopes[j].key] < rank[scopes[i].key]

LEMMA KeysStandSame ==
  ASSUME TypeOK, NEW ground, NEW rank, KeysStand(ground, rank), program' = program,
         Len(scopes') \in Nat, Len(scopes') <= Len(scopes), 1 <= Len(scopes'),
         \A i \in 1 .. Len(scopes') : scopes'[i].key = scopes[i].key
  PROVE  KeysStand(ground, rank)'
<1> DEFINE n == Len(scopes)
           m == Len(scopes')
<1>1. n \in Nat /\ m \in Nat /\ m <= n /\ 1 <= m
  BY ScopeFacts
<1>2. /\ 1 \in 1 .. m
      /\ \A i \in 2 .. m : i \in 1 .. m /\ i - 1 \in 1 .. m /\ i \in 2 .. n
  BY <1>1
<1>3. \A k : Resolve(k)' = Resolve(k)
  BY ResolveSame
<1>4. \A i \in 2 .. m :
        /\ scopes'[i].key \in Key
        /\ Resolve(scopes'[i].key).body.kind = "construct"
        /\ \E c \in ground[scopes'[i - 1].key] : c.kind = "call" /\ c.key = scopes'[i].key
  BY <1>2 DEF KeysStand
<1>5. \A i, j \in 2 .. m : i < j => rank[scopes'[j].key] < rank[scopes'[i].key]
  BY <1>2 DEF KeysStand
<1>6. scopes'[1].key = NoKey
  BY <1>2 DEF KeysStand
<1> QED BY <1>3, <1>4, <1>5, <1>6 DEF KeysStand

LEMMA KeysStandNext ==
  ASSUME TypeOK, TypeOK', NEW ground, NEW rank, CallsFound(ground, rank), BlocksStand(ground),
         KeysStand(ground, rank), [Next]_vars
  PROVE  KeysStand(ground, rank)'
<1> DEFINE n == Len(scopes)
<1>0. n \in Nat \ {0} /\ program' = program
  BY ScopeFacts, ProgramSame
<1>1. CASE StaysInScope
  <2>1. n \in Nat /\ Len(scopes') = n /\ 1 <= n /\ n <= n
    BY <1>0, <1>1, StaysFacts
  <2> QED BY <1>0, <1>1, <2>1, StaysFacts, KeysStandSame
<1>2. CASE EndCall
  <2>1. Len(scopes') = n - 1 /\ n - 1 \in Nat /\ n - 1 <= n /\ 1 <= n - 1
    BY <1>0, <1>2, EndCallFacts
  <2> QED BY <1>0, <1>2, <2>1, EndCallFacts, KeysStandSame
<1>3. CASE ExpandCall
  <2> DEFINE k == Current.key
  <2>1. /\ Len(scopes') = n + 1 /\ scopes'[n + 1].key = k /\ k \in Key
        /\ \A i \in 1 .. n : scopes'[i].key = scopes[i].key
    BY <1>0, <1>3, ExpandFacts, AdvancedFacts
  <2>2. /\ Current \in ground[scopes[n].key] /\ scopes[n].key \in Key \cup {NoKey}
        /\ Current.kind = "call" /\ Resolve(k).body.kind = "construct"
    BY <1>3, CurrentStands DEF ExpandCall, InBlock, Expandable, Scope
  <2>3. scopes[n].key # NoKey => rank[k] < rank[scopes[n].key]
    BY <2>2 DEF CallsFound
  <2>4. ASSUME NEW i \in 2 .. n PROVE rank[k] < rank[scopes[i].key]
    <3>1. n \in 2 .. n /\ i \in Nat /\ (i = n \/ i < n)
      BY <1>0
    <3>2. scopes[n].key \in Key /\ scopes[i].key \in Key
      BY <3>1 DEF KeysStand
    <3>3. rank[k] < rank[scopes[n].key]
      BY <2>3, <3>2, KeyAssumption
    <3>4. rank[k] \in Nat /\ rank[scopes[n].key] \in Nat /\ rank[scopes[i].key] \in Nat
      BY <2>1, <3>2 DEF CallsFound
    <3>5. i < n => rank[scopes[n].key] < rank[scopes[i].key]
      BY <3>1 DEF KeysStand
    <3> QED BY <3>1, <3>3, <3>4, <3>5
  <2>5. \A j : Resolve(j)' = Resolve(j)
    BY <1>0, ResolveSame
  <2>6. \A i \in 2 .. n + 1 : i = n + 1 \/ (i \in 2 .. n /\ i \in 1 .. n /\ i - 1 \in 1 .. n)
    BY <1>0
  <2>7. (n + 1) - 1 = n /\ n \in 1 .. n /\ 1 \in 1 .. n
    BY <1>0
  <2>8. scopes'[1].key = NoKey
    BY <2>1, <2>7 DEF KeysStand
  <2>9. ASSUME NEW i \in 2 .. n + 1
        PROVE  /\ scopes'[i].key \in Key
               /\ Resolve(scopes'[i].key).body.kind = "construct"
               /\ \E c \in ground[scopes'[i - 1].key] : c.kind = "call" /\ c.key = scopes'[i].key
    <3>1. CASE i = n + 1
      <4>1. scopes'[i].key = k /\ scopes'[i - 1].key = scopes[n].key
        BY <2>1, <2>7, <3>1
      <4> QED BY <2>1, <2>2, <4>1
    <3>2. CASE i # n + 1
      <4>1. scopes'[i].key = scopes[i].key /\ scopes'[i - 1].key = scopes[i - 1].key /\ i \in 2 .. n
        BY <2>1, <2>6, <3>2
      <4> QED BY <4>1 DEF KeysStand
    <3> QED BY <3>1, <3>2
  <2>10. ASSUME NEW i \in 2 .. n + 1, NEW j \in 2 .. n + 1, i < j
         PROVE  rank[scopes'[j].key] < rank[scopes'[i].key]
    <3>0. i \in 2 .. n /\ scopes'[i].key = scopes[i].key
      BY <1>0, <2>1, <2>6, <2>10
    <3>1. CASE j = n + 1
      BY <2>1, <2>4, <3>0, <3>1
    <3>2. CASE j # n + 1
      <4>1. scopes'[j].key = scopes[j].key /\ j \in 2 .. n
        BY <2>1, <2>6, <3>2
      <4> QED BY <2>10, <3>0, <4>1 DEF KeysStand
    <3> QED BY <3>1, <3>2
  <2> HIDE DEF k, n
  <2> QED BY <2>1, <2>5, <2>8, <2>9, <2>10 DEF KeysStand
<1> QED BY <1>1, <1>2, <1>3 DEF Next, StaysInScope, Terminated
LEMMA ListAdvancedFacts ==
  ASSUME TypeOK, lists # <<>>
  PROVE  \A i \in 1 .. Len(lists) :
           ListAdvanced[i].key = lists[i].key /\ ListAdvanced[i].code = lists[i].code
<1> DEFINE n == Len(lists)
           l == [lists[n] EXCEPT !.next = @ + 1]
<1>1. n \in Nat /\ lists \in Seq(ListType) /\ \A i \in 1 .. n : lists[i] \in ListType
  BY ListFacts DEF TypeOK
<1>2. \A i \in 1 .. n : ListAdvanced[i] = IF i = n THEN l ELSE lists[i]
  BY <1>1 DEF ListAdvanced, List
<1>3. ASSUME n \in 1 .. n PROVE l.key = lists[n].key /\ l.code = lists[n].code
  BY <1>1, <1>3 DEF ListType
<1> HIDE DEF l
<1> QED BY <1>2, <1>3

LEMMA ListsStandNext ==
  ASSUME TypeOK, TypeOK', NEW ground, NEW rank, CallsFound(ground, rank), ListsStand(rank), [Next]_vars
  PROVE  ListsStand(rank)'
<1> DEFINE n == Len(lists)
<1>0. /\ n \in Nat /\ (lists # <<>> <=> n > 0) /\ program' = program
      /\ \A k : Resolve(k)' = Resolve(k)
  <2>1. lists \in Seq(ListType)
    BY DEF TypeOK
  <2> QED BY <2>1, ProgramSame, ResolveSame
<1>1. CASE SetValue \/ Ignore \/ DropCall \/ ExpandCall \/ EndCall \/ AddRule \/ EndRule
  <2>1. lists' = <<>>
    BY <1>1 DEF SetValue, Ignore, DropCall, ExpandCall, EndCall, AddRule, EndRule, InBlock
  <2>2. 2 .. Len(lists') = {}
    BY <2>1
  <2> QED BY <2>1, <2>2 DEF ListsStand
<1>2. CASE BeginRule
  <2> DEFINE l == [key |-> NoKey, code |-> Current.selectors, next |-> 1]
  <2>1. lists' = <<l>> /\ scopes' = scopes
    BY <1>2 DEF BeginRule
  <2>2. l.code = Current.selectors
    OBVIOUS
  <2> HIDE DEF l
  <2>3. lists'[1].code = Current.selectors /\ 2 .. Len(lists') = {}
    BY <2>1, <2>2
  <2>4. Current' = Current
    BY <2>1 DEF Current, Block, Scope
  <2> QED BY <2>3, <2>4 DEF ListsStand
<1>3. CASE \/ PushPart \/ PushComma \/ DropSelectorCall \/ EndSelectorCall \/ UNCHANGED vars
  <2>1. scopes' = scopes
    BY <1>3 DEF PushPart, PushComma, DropSelectorCall, EndSelectorCall, vars
  <2>2. Current' = Current
    BY <2>1 DEF Current, Block, Scope
  <2>3. /\ Len(lists') \in Nat /\ Len(lists') <= n
        /\ lists' # <<>> => lists # <<>> /\ 1 \in 1 .. Len(lists')
        /\ \A i \in 1 .. Len(lists') : lists'[i].key = lists[i].key /\ lists'[i].code = lists[i].code
    <3>1. CASE PushPart \/ PushComma \/ DropSelectorCall
      <4>1. lists' = ListAdvanced /\ lists # <<>>
        BY <3>1 DEF PushPart, PushComma, DropSelectorCall, InList
      <4>2. Len(lists') = n /\ n > 0
        BY <1>0, <4>1, ListFacts
      <4> QED BY <1>0, <4>1, <4>2, ListAdvancedFacts
    <3>2. CASE EndSelectorCall
      <4>1. lists' = SubSeq(lists, 1, n - 1) /\ n > 1 /\ lists \in Seq(ListType)
        BY <3>2 DEF EndSelectorCall, TypeOK
      <4>2. Len(lists') = n - 1 /\ \A i \in 1 .. n - 1 : lists'[i] = lists[i]
        BY <1>0, <4>1, PopFacts
      <4> QED BY <1>0, <4>1, <4>2
    <3>3. CASE UNCHANGED vars
      <4>1. lists' = lists
        BY <3>3 DEF vars
      <4> QED BY <1>0, <4>1
    <3> QED BY <1>3, <3>1, <3>2, <3>3
  <2>4. \A i \in 2 .. Len(lists') : i \in 1 .. Len(lists') /\ i \in 2 .. n
    BY <1>0, <2>3
  <2>5. lists' # <<>> => lists'[1].code = Current.selectors
    BY <2>3 DEF ListsStand
  <2>6. \A i \in 2 .. Len(lists') :
          /\ lists'[i].key \in Key
          /\ Resolve(lists'[i].key).body.kind = "selector"
          /\ lists'[i].code = Resolve(lists'[i].key).body.content
    BY <2>3, <2>4 DEF ListsStand
  <2>7. \A i, j \in 2 .. Len(lists') : i < j => rank[lists'[j].key] < rank[lists'[i].key]
    BY <2>3, <2>4 DEF ListsStand
  <2> QED BY <1>0, <2>2, <2>5, <2>6, <2>7 DEF ListsStand
<1>4. CASE ExpandSelectorCall
  <2> DEFINE k == Node.key
             l == [key |-> k, code |-> Resolve(k).body.content, next |-> 1]
  <2>1. /\ lists # <<>> /\ List.next <= Len(List.code) /\ Node.kind = "call"
        /\ Resolve(k).body.kind = "selector" /\ scopes' = scopes
        /\ lists' = Append(ListAdvanced, l)
    BY <1>4 DEF ExpandSelectorCall, InList, SelectorExpandable
  <2>2. l.key = k /\ l.code = Resolve(k).body.content
    OBVIOUS
  <2>3. k \in Key
    <3>1. Node \in Selector
      BY <2>1, ListFacts
    <3> QED BY <2>1, <3>1, SelectorAssumption
  <2> HIDE DEF l
  <2>4. /\ Len(lists') = n + 1 /\ lists'[n + 1] = l /\ n > 0
        /\ \A i \in 1 .. n : lists'[i].key = lists[i].key /\ lists'[i].code = lists[i].code
    <3>1. /\ ListAdvanced \in Seq(ListType) /\ Len(ListAdvanced) = n
      BY <2>1, ListFacts
    <3>2. \A i \in 1 .. n : Append(ListAdvanced, l)[i] = ListAdvanced[i]
      BY <1>0, <3>1
    <3>3. Len(lists') = n + 1 /\ lists'[n + 1] = l
      BY <2>1, <3>1
    <3> QED BY <1>0, <2>1, <3>2, <3>3, ListAdvancedFacts
  <2>5. Current' = Current
    BY <2>1 DEF Current, Block, Scope
  <2>6. ASSUME NEW i \in 2 .. n PROVE rank[k] < rank[lists[i].key]
    <3>1. n \in 2 .. n /\ i \in Nat /\ (i = n \/ i < n)
      BY <1>0
    <3>2. /\ lists[n].key \in Key /\ lists[i].key \in Key
          /\ Resolve(lists[n].key).body.kind = "selector"
          /\ lists[n].code = Resolve(lists[n].key).body.content
      BY <3>1 DEF ListsStand
    <3>3. List.next \in DOMAIN List.code
      BY <2>1, ListFacts
    <3>4. rank[k] < rank[lists[n].key]
      BY <2>1, <3>2, <3>3 DEF CallsFound, Node, List
    <3>5. rank[k] \in Nat /\ rank[lists[n].key] \in Nat /\ rank[lists[i].key] \in Nat
      BY <2>3, <3>2 DEF CallsFound
    <3>6. i < n => rank[lists[n].key] < rank[lists[i].key]
      BY <3>1 DEF ListsStand
    <3> QED BY <3>1, <3>4, <3>5, <3>6
  <2>7. \A i \in 2 .. n + 1 : i = n + 1 \/ (i \in 2 .. n /\ i \in 1 .. n)
    BY <1>0
  <2>8. lists' # <<>> => lists'[1].code = Current.selectors
    <3>1. 1 \in 1 .. n
      BY <1>0, <2>4
    <3> QED BY <2>1, <2>4, <3>1 DEF ListsStand
  <2>9. \A i \in 2 .. n + 1 :
          /\ lists'[i].key \in Key
          /\ Resolve(lists'[i].key).body.kind = "selector"
          /\ lists'[i].code = Resolve(lists'[i].key).body.content
    <3> TAKE i \in 2 .. n + 1
    <3>1. CASE i = n + 1
      BY <2>1, <2>2, <2>3, <2>4, <3>1
    <3>2. CASE i # n + 1
      BY <2>4, <2>7, <3>2 DEF ListsStand
    <3> QED BY <3>1, <3>2
  <2>10. ASSUME NEW i \in 2 .. n + 1, NEW j \in 2 .. n + 1, i < j
         PROVE  rank[lists'[j].key] < rank[lists'[i].key]
    <3>0. i \in 2 .. n /\ lists'[i].key = lists[i].key
      BY <1>0, <2>4, <2>7, <2>10
    <3>1. CASE j = n + 1
      BY <2>2, <2>4, <2>6, <3>0, <3>1
    <3>2. CASE j # n + 1
      <4>1. lists'[j].key = lists[j].key /\ j \in 2 .. n
        BY <2>4, <2>7, <3>2
      <4> QED BY <2>10, <3>0, <4>1 DEF ListsStand
    <3> QED BY <3>1, <3>2
  <2> HIDE DEF k, n
  <2> QED BY <1>0, <2>4, <2>5, <2>8, <2>9, <2>10 DEF ListsStand
<1> QED BY <1>1, <1>2, <1>3, <1>4 DEF Next, Terminated
(* A frame binds the arguments that get a value, and no other.             *)
LEMMA FrameBinds ==
  ASSUME TypeOK, NEW args \in Seq(Name), NEW values \in Seq(Expr), NEW n \in Name
  PROVE  /\ \A i \in DOMAIN args \cap DOMAIN values : args[i] = n => Frame(args, values)[n] # Unbound
         /\ Frame(args, values)[n] # Unbound =>
              \E i \in DOMAIN values :
                Frame(args, values)[n] = [construct |-> values[i], scope |-> Len(bindings)]
<1> DEFINE at == {i \in DOMAIN args \cap DOMAIN values : args[i] = n}
           last == CHOOSE i \in at : \A j \in at : j <= i
<1>1. /\ at = {} => Frame(args, values)[n] = Unbound
      /\ at # {} => Frame(args, values)[n] = [construct |-> values[last], scope |-> Len(bindings)]
  BY DEF Frame
<1>2. Len(values) \in Nat /\ DOMAIN values = 1 .. Len(values) /\ at \subseteq 1 .. Len(values)
  OBVIOUS
<1>3. ASSUME at # {} PROVE last \in DOMAIN values
  <2>1. \E i \in at : \A j \in at : j <= i
    <3> HIDE DEF at
    <3> QED BY <1>2, <1>3, LastExists
  <2>2. last \in at
    <3> HIDE DEF at
    <3> QED BY <2>1
  <2> QED BY <1>2, <2>2
<1>4. [construct |-> values[last], scope |-> Len(bindings)] # Unbound
  <2>1. Len(bindings) # 0
    BY DEF TypeOK
  <2>2. [construct |-> values[last], scope |-> Len(bindings)].scope # Unbound.scope
    BY <2>1 DEF Unbound
  <2> QED BY <2>2
<1> HIDE DEF last
<1> QED BY <1>1, <1>3, <1>4

LEMMA ArgumentsStandNext ==
  ASSUME TypeOK, ArgumentsPointOutward, TypeOK', ArgumentsPointOutward', NEW ground, NEW rank,
         ArgumentsOwned(ground), BlocksStand(ground), KeysStand(ground, rank),
         ArgumentsStand, [Next]_vars
  PROVE  ArgumentsStand'
<1> DEFINE n == Len(scopes)
<1>0. /\ n \in Nat \ {0} /\ program' = program
      /\ Len(bindings) = n /\ DOMAIN bindings = 1 .. n
      /\ Len(bindings') = Len(scopes') /\ DOMAIN bindings' = 1 .. Len(scopes')
  BY ScopeFacts, ProgramSame DEF TypeOK, ArgumentsPointOutward
<1>1. \A k : Own(k)' = Own(k)
  <2> TAKE k
  <2>1. Resolve(k)' = Resolve(k)
    BY <1>0, ResolveSame
  <2> QED BY <2>1 DEF Own
<1>2. Unbound' = Unbound /\ ArgumentsPointOutward
  BY DEF Unbound, NilExpr
<1> SUFFICES /\ \A i \in 2 .. Len(scopes') : \A x \in Own(scopes'[i].key) : bindings'[i][x] # Unbound
             /\ \A d \in 1 .. Len(scopes') : \A x \in Name :
                  bindings'[d][x] # Unbound /\ bindings'[d][x].construct.kind = "argument" =>
                    bindings'[bindings'[d][x].scope][bindings'[d][x].construct.name] # Unbound
  BY <1>0, <1>1, <1>2 DEF ArgumentsStand, ArgumentBound
<1>3. /\ \A i \in 2 .. n : \A x \in Own(scopes[i].key) : bindings[i][x] # Unbound
      /\ \A d \in 1 .. n : \A x \in Name :
           /\ bindings[d][x] # Unbound => bindings[d][x].scope \in 1 .. n /\ bindings[d][x].scope = d - 1
           /\ bindings[d][x] # Unbound /\ bindings[d][x].construct.kind = "argument" =>
                bindings[bindings[d][x].scope][bindings[d][x].construct.name] # Unbound
  BY <1>0 DEF ArgumentsStand, ArgumentBound, ArgumentsPointOutward
<1>4. CASE StaysInScope
  <2>1. \A i \in 2 .. n : i \in 1 .. n
    BY <1>0
  <2> QED BY <1>3, <1>4, <2>1, StaysFacts
<1>5. CASE EndCall
  <2>1. /\ Len(scopes') = n - 1
        /\ \A i \in 1 .. n - 1 : scopes'[i] = scopes[i] /\ bindings'[i] = bindings[i]
    BY <1>0, <1>5, EndCallFacts
  <2>2. /\ \A i \in 2 .. n - 1 : i \in 2 .. n /\ i \in 1 .. n - 1
        /\ \A i \in 1 .. n - 1 : i \in 1 .. n /\ (i - 1 \in 1 .. n => i - 1 \in 1 .. n - 1)
    BY <1>0
  <2> HIDE DEF n
  <2>3. \A i \in 2 .. n - 1 : \A x \in Own(scopes'[i].key) : bindings'[i][x] # Unbound
    BY <1>3, <2>1, <2>2
  <2>4. ASSUME NEW d \in 1 .. n - 1, NEW x \in Name,
               bindings'[d][x] # Unbound, bindings'[d][x].construct.kind = "argument"
        PROVE  bindings'[bindings'[d][x].scope][bindings'[d][x].construct.name] # Unbound
    <3>1. bindings'[d] = bindings[d] /\ d \in 1 .. n
      BY <2>1, <2>2
    <3>2. bindings[d][x].scope \in 1 .. n - 1
      BY <1>3, <2>2, <2>4, <3>1
    <3> QED BY <1>3, <2>1, <2>4, <3>1, <3>2
  <2> QED BY <2>1, <2>3, <2>4
<1>6. CASE ExpandCall
  <2> DEFINE k == Current.key
             args == Resolve(k).args
             values == Current.args
             fr == Frame(args, values)
  <2>1. /\ Len(scopes') = n + 1 /\ scopes'[n + 1].key = k /\ k \in Key
        /\ \A i \in 1 .. n : scopes'[i].key = scopes[i].key /\ bindings'[i] = bindings[i]
    BY <1>0, <1>6, ExpandFacts, AdvancedFacts
  <2>2. /\ Current \in Item /\ Current \in ground[scopes[n].key] /\ scopes[n].key \in Key \cup {NoKey}
        /\ Current.kind = "call"
    BY <1>6, CurrentStands DEF ExpandCall, InBlock, Scope
  <2>3. args \in Seq(Name) /\ values \in Seq(Expr)
    BY <2>2, ResolveType, ItemAssumption DEF Macro
  <2>4. bindings'[n + 1] = fr
    <3> DEFINE F == [Name -> BoundArg]
    <3>1. bindings \in Seq(F) /\ fr \in F
      BY <2>3, FrameType DEF TypeOK
    <3>2. bindings' = Append(bindings, fr)
      BY <1>6 DEF ExpandCall
    <3> HIDE DEF F, fr
    <3> QED BY <1>0, <3>1, <3>2
  <2>5. Len(values) = Len(args)
    BY <2>2 DEF ArgumentsOwned
  <2>6. ASSUME NEW x \in Own(k) PROVE fr[x] # Unbound
    <3>1. PICK i \in DOMAIN args : x = args[i]
      BY <2>1, KeyAssumption DEF Own
    <3>2. x \in Name /\ i \in DOMAIN values
      <4> HIDE DEF args, values
      <4> QED BY <2>3, <2>5, <3>1
    <3> HIDE DEF args, values
    <3> QED BY <2>3, <3>1, <3>2, FrameBinds DEF fr
  <2>7. ASSUME NEW x \in Name, fr[x] # Unbound, fr[x].construct.kind = "argument"
        PROVE  bindings[fr[x].scope][fr[x].construct.name] # Unbound /\ fr[x].scope = n
    <3>1. PICK i \in DOMAIN values : fr[x] = [construct |-> values[i], scope |-> n]
      <4> HIDE DEF args, values
      <4>1. Frame(args, values)[x] # Unbound
        BY <2>7
      <4> HIDE DEF args, values, n
      <4>2. \E i \in DOMAIN values : Frame(args, values)[x] = [construct |-> values[i], scope |-> Len(bindings)]
        BY <2>3, <2>7, <4>1, FrameBinds
      <4> QED BY <1>0, <4>2
    <3>2. fr[x].scope = n /\ fr[x].construct = values[i]
      BY <3>1
    <3>3. values[i].name \in Own(scopes[n].key)
      BY <2>2, <2>7, <3>2 DEF ArgumentsOwned
    <3>4. scopes[n].key # NoKey
      BY <3>3 DEF Own
    <3>5. n \in 2 .. n
      <4>1. n # 1
        BY <3>4 DEF KeysStand
      <4> QED BY <1>0, <4>1
    <3> QED BY <1>3, <3>2, <3>3, <3>5
  <2> HIDE DEF n, k, fr
  <2>8. /\ \A i \in 2 .. n + 1 : i = n + 1 \/ (i \in 2 .. n /\ i \in 1 .. n)
        /\ \A i \in 1 .. n + 1 : i = n + 1 \/ i \in 1 .. n
        /\ n \in 1 .. n
    BY <1>0
  <2>9. \A i \in 2 .. n + 1 : \A x \in Own(scopes'[i].key) : bindings'[i][x] # Unbound
    BY <1>3, <2>1, <2>4, <2>6, <2>8
  <2>10. ASSUME NEW d \in 1 .. n + 1, NEW x \in Name,
                bindings'[d][x] # Unbound, bindings'[d][x].construct.kind = "argument"
         PROVE  bindings'[bindings'[d][x].scope][bindings'[d][x].construct.name] # Unbound
    <3>1. CASE d = n + 1
      <4>1. /\ bindings[bindings'[d][x].scope][bindings'[d][x].construct.name] # Unbound
            /\ bindings'[d][x].scope = n
        BY <2>4, <2>7, <2>10, <3>1
      <4> QED BY <2>1, <2>8, <4>1
    <3>2. CASE d # n + 1
      <4>1. d \in 1 .. n /\ bindings'[d] = bindings[d]
        BY <2>1, <2>8, <3>2
      <4>2. bindings[d][x].scope \in 1 .. n
        BY <1>3, <2>10, <4>1
      <4> QED BY <1>3, <2>1, <2>10, <4>1, <4>2
    <3> QED BY <3>1, <3>2
  <2> QED BY <2>1, <2>9, <2>10
<1> QED BY <1>4, <1>5, <1>6 DEF Next, StaysInScope, Terminated
LEMMA StandInit ==
  ASSUME Init, NEW ground, NEW rank, Grounded(ground)
  PROVE  ExpansionsStand(ground, rank) /\ ListsStand(rank) /\ ArgumentsStand
<1> DEFINE blk == [code |-> program.top, next |-> 1, saved |-> Root]
           sc == [key |-> NoKey, blocks |-> <<blk>>]
<1>1. scopes = <<sc>> /\ sc.key = NoKey /\ sc.blocks = <<blk>> /\ blk.code = program.top
  BY DEF Init
<1>2. lists = <<>> /\ bindings = <<EmptyFrame>>
  BY DEF Init
<1> HIDE DEF blk, sc
<1>3. DOMAIN scopes = {1} /\ Len(scopes) = 1 /\ scopes[1] = sc /\ DOMAIN sc.blocks = {1} /\ sc.blocks[1] = blk
  BY <1>1
<1>4. 2 .. Len(scopes) = {} /\ 2 .. Len(lists) = {} /\ DOMAIN bindings = {1} /\ bindings[1] = EmptyFrame
  BY <1>2, <1>3
<1>5. \A n \in Name : bindings[1][n] = Unbound
  BY <1>4 DEF EmptyFrame
<1>6. \A n \in DOMAIN program.top : program.top[n] \in ground[NoKey]
  BY DEF Grounded
<1>7. ExpansionsStand(ground, rank)
  BY <1>1, <1>3, <1>4, <1>6 DEF ExpansionsStand
<1>8. ListsStand(rank)
  BY <1>2, <1>4 DEF ListsStand
<1>9. ArgumentsStand
  BY <1>4, <1>5 DEF ArgumentsStand
<1> QED BY <1>7, <1>8, <1>9

LEMMA ExpansionsParts ==
  ASSUME TypeOK, NEW ground, NEW rank
  PROVE  ExpansionsStand(ground, rank) <=> KeysStand(ground, rank) /\ BlocksStand(ground)
BY BlocksStandEverywhere DEF ExpansionsStand, KeysStand

LEMMA StandNext ==
  ASSUME IInv, [Next]_vars, NEW ground, NEW rank, Grounded(ground), CallsFound(ground, rank),
         ExpansionsStand(ground, rank), ListsStand(rank)
  PROVE  ExpansionsStand(ground, rank)' /\ ListsStand(rank)'
<1>1. TypeOK /\ TypeOK'
  BY NextIInv DEF IInv
<1>2. KeysStand(ground, rank) /\ BlocksStand(ground)
  BY <1>1, ExpansionsParts
<1>3. KeysStand(ground, rank)' /\ BlocksStand(ground)' /\ ListsStand(rank)'
  BY <1>1, <1>2, KeysStandNext, BlocksStandNext, ListsStandNext
<1>4. ExpansionsStand(ground, rank)' <=> KeysStand(ground, rank)' /\ BlocksStand(ground)'
  BY <1>1, ExpansionsParts, PTL
<1> QED BY <1>3, <1>4

LEMMA StandArguments ==
  ASSUME IInv, [Next]_vars, NEW ground, NEW rank, ArgumentsOwned(ground),
         ExpansionsStand(ground, rank), ArgumentsStand
  PROVE  ArgumentsStand'
<1>1. TypeOK /\ TypeOK' /\ ArgumentsPointOutward /\ ArgumentsPointOutward'
  BY NextIInv DEF IInv
<1>2. KeysStand(ground, rank) /\ BlocksStand(ground)
  BY <1>1, ExpansionsParts
<1> QED BY <1>1, <1>2, ArgumentsStandNext

(* No call is dropped: it finds a macro, which is not under expansion.     *)
LEMMA CallExpands ==
  ASSUME IInv, NEW ground, NEW rank, CallsFound(ground, rank), ExpansionsStand(ground, rank),
         InBlock, Current.kind = "call"
  PROVE  Expandable(Current.key)
<1> DEFINE n == Len(scopes)
           k == Current.key
<1>0. TypeOK /\ n \in Nat \ {0} /\ KeysStand(ground, rank) /\ BlocksStand(ground)
  BY ExpansionsParts, ScopeFacts DEF IInv
<1>1. Current \in Item /\ Current \in ground[scopes[n].key] /\ scopes[n].key \in Key \cup {NoKey}
  BY <1>0, CurrentStands DEF InBlock, Scope
<1>2. /\ Resolve(k).body.kind = "construct"
      /\ scopes[n].key # NoKey => rank[k] < rank[scopes[n].key]
  BY <1>1 DEF CallsFound
<1>3. k \in Key
  BY <1>1, ItemAssumption
<1>4. ASSUME NEW i \in 2 .. n, scopes[i].key = k PROVE FALSE
  <2>1. n \in 2 .. n /\ i \in Nat /\ (i = n \/ i < n)
    BY <1>0
  <2>2. scopes[n].key \in Key /\ scopes[n].key # NoKey
    BY <1>0, <2>1, KeyAssumption DEF KeysStand
  <2>3. rank[k] \in Nat /\ rank[scopes[n].key] \in Nat
    BY <1>3, <2>2 DEF CallsFound
  <2>4. i < n => rank[scopes[n].key] < rank[k]
    BY <1>0, <1>4, <2>1 DEF KeysStand
  <2> QED BY <1>2, <1>4, <2>1, <2>2, <2>3, <2>4
<1>5. 2 .. Len(lists) = {}
  BY DEF InBlock
<1>6. active = {scopes[i].key : i \in 2 .. n}
  BY <1>5 DEF IInv, ActiveIsOpenExpansions
<1> QED BY <1>2, <1>4, <1>6 DEF Expandable

LEMMA SelectorCallExpands ==
  ASSUME IInv, NEW ground, NEW rank, CallsFound(ground, rank), ExpansionsStand(ground, rank),
         ListsStand(rank), SelectorsFound(ground), InList, Node.kind = "call"
  PROVE  SelectorExpandable(Node.key)
<1> DEFINE n == Len(lists)
           k == Node.key
<1>0. TypeOK /\ n \in Nat \ {0} /\ KeysStand(ground, rank) /\ BlocksStand(ground) /\ Len(scopes) \in Nat
  BY ExpansionsParts, ScopeFacts, ListFacts DEF IInv, InList
<1>1. List.next \in DOMAIN List.code /\ k \in Key
  BY <1>0, ListFacts, SelectorAssumption DEF InList
<1>2. ASSUME n = 1 PROVE Resolve(k).body.kind = "selector"
  <2>1. /\ Current \in ground[Scope.key] /\ Scope.key \in Key \cup {NoKey}
        /\ Current.kind = "rule"
    BY <1>0, CurrentStands DEF InList, TypeOK
  <2>2. List.code = Current.selectors
    BY <1>2 DEF ListsStand, List, InList
  <2> QED BY <1>1, <2>1, <2>2 DEF SelectorsFound, Node
<1>3. n # 1 => /\ n \in 2 .. n /\ lists[n].key \in Key
               /\ Resolve(k).body.kind = "selector"
               /\ rank[k] < rank[lists[n].key]
  <2> SUFFICES ASSUME n # 1 PROVE /\ n \in 2 .. n /\ lists[n].key \in Key
                                  /\ Resolve(k).body.kind = "selector"
                                  /\ rank[k] < rank[lists[n].key]
    OBVIOUS
  <2>1. n \in 2 .. n
    <3> HIDE DEF n
    <3> QED BY <1>0
  <2>2. /\ lists[n].key \in Key
        /\ Resolve(lists[n].key).body.kind = "selector"
        /\ lists[n].code = Resolve(lists[n].key).body.content
    BY <2>1 DEF ListsStand
  <2> QED BY <1>1, <2>1, <2>2 DEF CallsFound, Node, List
<1>4. Resolve(k).body.kind = "selector"
  BY <1>2, <1>3
<1>5. ASSUME NEW i \in 2 .. Len(scopes), scopes[i].key = k PROVE FALSE
  BY <1>0, <1>4, <1>5 DEF KeysStand
<1>6. ASSUME NEW i \in 2 .. n, lists[i].key = k PROVE FALSE
  <2>1. n # 1 /\ i \in Nat /\ (i = n \/ i < n)
    <3> HIDE DEF n
    <3> QED BY <1>0
  <2>2. rank[k] \in Nat /\ rank[lists[n].key] \in Nat
    BY <1>1, <1>3, <2>1 DEF CallsFound
  <2>3. i < n => rank[lists[n].key] < rank[k]
    BY <1>3, <1>6, <2>1 DEF ListsStand
  <2> QED BY <1>3, <1>6, <2>1, <2>2, <2>3
<1>7. active = {scopes[i].key : i \in 2 .. Len(scopes)} \cup {lists[i].key : i \in 2 .. n}
  BY DEF IInv, ActiveIsOpenExpansions
<1> QED BY <1>4, <1>5, <1>6, <1>7 DEF SelectorExpandable

LEMMA SetArgumentBound ==
  ASSUME IInv, NEW ground, NEW rank, ArgumentsOwned(ground), ExpansionsStand(ground, rank),
         ArgumentsStand, InBlock, Current.kind = "set", Current.store # "priority"
  PROVE  ArgumentBound(Current.right, Len(bindings))
<1> DEFINE n == Len(scopes)
<1>0. /\ TypeOK /\ n \in Nat \ {0} /\ KeysStand(ground, rank) /\ BlocksStand(ground)
      /\ Len(bindings) = n
  BY ExpansionsParts, ScopeFacts DEF IInv, ArgumentsPointOutward
<1>1. Current \in ground[scopes[n].key] /\ scopes[n].key \in Key \cup {NoKey}
  BY <1>0, CurrentStands DEF InBlock, Scope
<1> SUFFICES ASSUME Current.right.kind = "argument"
             PROVE  bindings[n][Current.right.name] # Unbound
  BY <1>0 DEF ArgumentBound
<1>2. Current.right.name \in Own(scopes[n].key)
  BY <1>1 DEF ArgumentsOwned
<1>3. scopes[n].key # NoKey
  BY <1>2 DEF Own
<1>4. n \in 2 .. n
  <2>1. n # 1
    BY <1>0, <1>3 DEF KeysStand
  <2> QED BY <1>0, <2>1
<1> QED BY <1>2, <1>4 DEF ArgumentsStand

(***************************************************************************)
(* Functions defined by recursion.                                         *)
(***************************************************************************)

Transitive(R, D) == \A x, y, z \in D : <<x, y>> \in R /\ <<y, z>> \in R => <<x, z>> \in R

(* A step whose result at x rests on values below x only.                  *)
Contracts(G, R, D, V) ==
  /\ G \in [[D -> V] -> [D -> V]]
  /\ \A f, g \in [D -> V] : \A x \in D :
       (\A y \in D : <<y, x>> \in R => f[y] = g[y]) => G[f][x] = G[g][x]

(* f solves the recursion for all that is below x.                         *)
SolvesBelow(f, x, G, R, D, V) ==
  f \in [D -> V] /\ \A y \in D : <<y, x>> \in R => f[y] = G[f][y]

LEMMA SolutionsAgree ==
  ASSUME NEW D, NEW V, NEW R, NEW G, IsWellFoundedOn(R, D), Transitive(R, D), Contracts(G, R, D, V),
         NEW f, NEW g, NEW x, NEW z, x \in D, z \in D,
         SolvesBelow(f, x, G, R, D, V), SolvesBelow(g, z, G, R, D, V)
  PROVE  \A y \in D : <<y, x>> \in R /\ <<y, z>> \in R => f[y] = g[y]
<1> DEFINE T == {y \in D : <<y, x>> \in R /\ <<y, z>> \in R /\ f[y] # g[y]}
<1> SUFFICES ASSUME T # {} PROVE FALSE
  OBVIOUS
<1>1. PICK y \in T : \A u \in T : ~ (<<u, y>> \in R)
  <2>1. T \subseteq D
    OBVIOUS
  <2> HIDE DEF T
  <2> QED BY <2>1, WFMin, Zenon
<1>2. \A u \in D : <<u, y>> \in R => f[u] = g[u]
  BY <1>1 DEF Transitive
<1>3. G[f][y] = G[g][y]
  BY <1>1, <1>2 DEF Contracts, SolvesBelow
<1> QED BY <1>1, <1>3 DEF SolvesBelow

(* There is a function that solves the recursion everywhere.               *)
LEMMA RecursiveFunction ==
  ASSUME NEW D, NEW V, NEW R, NEW G, V # {},
         IsWellFoundedOn(R, D), Transitive(R, D), Contracts(G, R, D, V)
  PROVE  \E f \in [D -> V] : f = G[f]
<1> DEFINE Good(x) == \E f : SolvesBelow(f, x, G, R, D, V)
           F(x) == CHOOSE f : SolvesBelow(f, x, G, R, D, V)
           at == [y \in D |-> G[F(y)][y]]
<1>1. ASSUME NEW y \in D, Good(y) PROVE at[y] \in V
  <2>1. SolvesBelow(F(y), y, G, R, D, V)
    BY <1>1
  <2>2. F(y) \in [D -> V] /\ G[F(y)] \in [D -> V]
    BY <2>1 DEF SolvesBelow, Contracts
  <2> HIDE DEF F
  <2> QED BY <2>2
(* The values below x, where they are determined, solve the recursion.     *)
<1>2. ASSUME NEW S, S \subseteq D, \A y \in S : Good(y), NEW h \in [D -> V],
             \A y \in S : h[y] = at[y],
             \A y \in S : \A u \in D : <<u, y>> \in R => u \in S
      PROVE  \A y \in S : h[y] = G[h][y]
  <2> TAKE y \in S
  <2> DEFINE f == F(y)
  <2>1. SolvesBelow(f, y, G, R, D, V)
    BY <1>2
  <2>2. \A u \in D : <<u, y>> \in R => h[u] = f[u]
    <3> TAKE u \in D
    <3> HAVE <<u, y>> \in R
    <3> DEFINE g == F(u)
    <3>1. u \in S /\ SolvesBelow(g, u, G, R, D, V)
      BY <1>2
    <3>2. h[u] = G[g][u]
      BY <1>2, <3>1
    <3>3. \A v \in D : <<v, u>> \in R => <<v, y>> \in R
      BY <1>2 DEF Transitive
    <3> HIDE DEF f, g
    <3>4. \A v \in D : <<v, u>> \in R => g[v] = f[v]
      <4>1. \A v \in D : <<v, u>> \in R /\ <<v, y>> \in R => g[v] = f[v]
        <5>1. y \in D
          BY <1>2
        <5>2. SolvesBelow(g, u, G, R, D, V)
          BY <3>1
        <5>3. \A v \in D : <<v, u>> \in R /\ <<v, y>> \in R => g[v] = f[v]
          BY <5>1, <5>2, <2>1, SolutionsAgree
        <5> QED BY <5>3
      <4> QED BY <4>1, <3>3
    <3>5. G[g][u] = G[f][u]
      BY <3>4, <3>1, <2>1 DEF Contracts, SolvesBelow
    <3>6. f[u] = G[f][u]
      BY <2>1 DEF SolvesBelow
    <3> QED BY <3>2, <3>5, <3>6
  <2>3. f \in [D -> V]
    BY <2>1 DEF SolvesBelow
  <2>4. h[y] = G[f][y]
    BY <1>2
  <2> HIDE DEF f
  <2>5. G[h][y] = G[f][y]
    BY <1>2, <2>2, <2>3 DEF Contracts
  <2> QED BY <2>4, <2>5
<1> HIDE DEF at
<1>3. \A x \in D : Good(x)
  <2> DEFINE T == {x \in D : ~Good(x)}
  <2> SUFFICES ASSUME T # {} PROVE FALSE
    OBVIOUS
  <2>1. PICK x \in T : \A y \in T : ~ (<<y, x>> \in R)
    <3>1. T \subseteq D
      OBVIOUS
    <3> HIDE DEF T
    <3> QED BY <3>1, WFMin, Zenon
  <2> DEFINE S == {y \in D : <<y, x>> \in R}
  <2>2. S \subseteq D /\ \A y \in S : Good(y)
    BY <2>1
  <2>3. \A y \in S : \A u \in D : <<u, y>> \in R => u \in S
    BY <2>1 DEF Transitive
  <2>4. PICK v : v \in V
    OBVIOUS
  <2> DEFINE h == [y \in D |-> IF y \in S THEN at[y] ELSE v]
  <2>5. h \in [D -> V] /\ \A y \in S : h[y] = at[y]
    <3> HIDE DEF Good, S
    <3> QED BY <1>1, <2>2, <2>4
  <2> HIDE DEF h, Good
  <2>6. \A y \in S : h[y] = G[h][y]
    <3> HIDE DEF S
    <3> QED BY <1>2, <2>2, <2>3, <2>5
  <2>7. SolvesBelow(h, x, G, R, D, V)
    BY <2>5, <2>6 DEF SolvesBelow
  <2>8. Good(x)
    BY <2>7 DEF Good
  <2> QED BY <2>1, <2>8
<1>4. at \in [D -> V]
  <2> HIDE DEF Good
  <2>1. at = [y \in D |-> at[y]]
    BY DEF at
  <2> QED BY <1>1, <1>3, <2>1
<1>5. \A y \in D : at[y] = G[at][y]
  <2> HIDE DEF Good
  <2> QED BY <1>2, <1>3, <1>4
<1>6. G[at] \in [D -> V]
  BY <1>4 DEF Contracts
<1> QED BY <1>4, <1>5, <1>6

(* Below by the first of three numbers that differ.                        *)
Below(D, a, b, c) ==
  {p \in D \X D : \/ a[p[1]] < a[p[2]]
                  \/ a[p[1]] = a[p[2]] /\ b[p[1]] < b[p[2]]
                  \/ a[p[1]] = a[p[2]] /\ b[p[1]] = b[p[2]] /\ c[p[1]] < c[p[2]]}

LEMMA LeastExists ==
  ASSUME NEW T \in SUBSET Nat, T # {}
  PROVE  \E n \in T : \A m \in T : n <= m
<1>1. PICK n \in T : \A m \in T : ~ (<<m, n>> \in OpToRel(<, Nat))
  BY NatLessThanWellFounded, WFMin, Zenon
<1>2. ASSUME NEW m \in T PROVE n <= m
  <2>1. ~ (<<m, n>> \in OpToRel(<, Nat))
    BY <1>1
  <2>2. <<m, n>> \in Nat \X Nat
    OBVIOUS
  <2> QED BY <2>1, <2>2 DEF OpToRel
<1> QED BY <1>2

LEMMA LeastOf ==
  ASSUME NEW D, NEW a \in [D -> Nat], NEW T \in SUBSET D, T # {}
  PROVE  \E x \in T : \A y \in T : a[x] <= a[y]
<1> DEFINE N == {n \in Nat : \E x \in T : a[x] = n}
<1>1. N # {}
  OBVIOUS
<1>2. PICK n \in N : \A m \in N : n <= m
  <2>1. N \in SUBSET Nat
    OBVIOUS
  <2> HIDE DEF N
  <2> QED BY <1>1, <2>1, LeastExists
<1>3. PICK x \in T : a[x] = n
  BY <1>2
<1>4. \A y \in T : a[y] \in N
  OBVIOUS
<1> QED BY <1>2, <1>3, <1>4

LEMMA BelowWellFounded ==
  ASSUME NEW D, NEW a \in [D -> Nat], NEW b \in [D -> Nat], NEW c \in [D -> Nat]
  PROVE  IsWellFoundedOn(Below(D, a, b, c), D) /\ Transitive(Below(D, a, b, c), D)
<1> DEFINE R == Below(D, a, b, c)
<1>0. \A x, y \in D : <<x, y>> \in R <=>
        \/ a[x] < a[y]
        \/ a[x] = a[y] /\ b[x] < b[y]
        \/ a[x] = a[y] /\ b[x] = b[y] /\ c[x] < c[y]
  BY DEF Below
<1> HIDE DEF R
<1>1. ASSUME NEW T \in SUBSET D, T # {}
      PROVE  \E x \in T : \A y \in T : ~ (<<y, x>> \in R)
  <2>1. PICK x1 \in T : \A y \in T : a[x1] <= a[y]
    BY <1>1, LeastOf
  <2> DEFINE T1 == {y \in T : a[y] = a[x1]}
  <2>2. PICK x2 \in T1 : \A y \in T1 : b[x2] <= b[y]
    <3>1. T1 \in SUBSET D /\ T1 # {}
      OBVIOUS
    <3> HIDE DEF T1
    <3> QED BY <3>1, LeastOf
  <2> DEFINE T2 == {y \in T1 : b[y] = b[x2]}
  <2>3. PICK x3 \in T2 : \A y \in T2 : c[x3] <= c[y]
    <3>1. T2 \in SUBSET D /\ T2 # {}
      OBVIOUS
    <3> HIDE DEF T2
    <3> QED BY <3>1, LeastOf
  <2>4. ASSUME NEW y \in T, <<y, x3>> \in R PROVE FALSE
    <3>1. a[y] \in Nat /\ a[x3] \in Nat /\ b[y] \in Nat /\ b[x3] \in Nat /\ c[y] \in Nat /\ c[x3] \in Nat
      OBVIOUS
    <3>2. a[x3] <= a[y] /\ (a[y] = a[x3] => b[x3] <= b[y] /\ (b[y] = b[x3] => c[x3] <= c[y]))
      BY <2>1, <2>2, <2>3
    <3> QED BY <1>0, <2>4, <3>1, <3>2
  <2> QED BY <2>4
<1>2. IsWellFoundedOn(R, D)
  BY <1>1, MinWF
<1>3. Transitive(R, D)
  <2> SUFFICES ASSUME NEW x \in D, NEW y \in D, NEW z \in D, <<x, y>> \in R, <<y, z>> \in R
               PROVE  <<x, z>> \in R
    BY DEF Transitive
  <2>1. \A u \in {x, y, z} : a[u] \in Nat /\ b[u] \in Nat /\ c[u] \in Nat
    OBVIOUS
  <2> QED BY <1>0, <2>1
<1> QED BY <1>2, <1>3 DEF R

LEMMA BelowIs ==
  ASSUME NEW D, NEW a, NEW b, NEW c, NEW x \in D, NEW y \in D,
         \/ a[x] < a[y]
         \/ a[x] = a[y] /\ b[x] < b[y]
         \/ a[x] = a[y] /\ b[x] = b[y] /\ c[x] < c[y]
  PROVE  <<x, y>> \in Below(D, a, b, c)
BY DEF Below

(* The first element and the rest of a sequence, the last one and what is  *)
(* before it, and what is left of a sequence from a place on.              *)
LEMMA HeadFacts ==
  ASSUME NEW S, NEW q \in Seq(S), q # <<>>
  PROVE  /\ Head(q) \in S /\ Head(q) = q[1] /\ Tail(q) \in Seq(S)
         /\ Len(q) \in Nat \ {0} /\ Len(Tail(q)) = Len(q) - 1
         /\ \A i \in DOMAIN Tail(q) : i + 1 \in DOMAIN q /\ Tail(q)[i] = q[i + 1]
OBVIOUS

-----------------------------------------------------------------------------
(* The places of a selector list.                                          *)

PlacesStep(f, q) ==
  IF q = <<>> THEN <<>>
  ELSE IF EndsInComma(q) /\ (WithoutLast(q) = <<>> \/ EndsInComma(WithoutLast(q))) THEN f[WithoutLast(q)]
  ELSE Append(f[WithoutLast(q)], q[Len(q)])

LEMMA PlacesSolve ==
  Places \in [Seq(Selector) -> Seq(Selector)] /\ \A q \in Seq(Selector) : Places[q] = PlacesStep(Places, q)
<1> DEFINE D == Seq(Selector)
           V == Seq(Selector)
           z == [q \in D |-> 0]
           l == [q \in D |-> Len(q)]
           R == Below(D, z, z, l)
           G == [f \in [D -> V] |-> [q \in D |-> PlacesStep(f, q)]]
<1>1. ASSUME NEW q \in D, q # <<>>
      PROVE  /\ WithoutLast(q) \in D /\ <<WithoutLast(q), q>> \in R
             /\ q[Len(q)] \in Selector
  <2>1. WithoutLast(q) \in D /\ Len(WithoutLast(q)) = Len(q) - 1 /\ Len(q) \in Nat \ {0}
    BY <1>1, PopFacts DEF WithoutLast
  <2>2. z[q] = z[WithoutLast(q)] /\ l[WithoutLast(q)] < l[q]
    BY <2>1
  <2>3. q[Len(q)] \in Selector
    BY <2>1
  <2> HIDE DEF D, z, l
  <2> QED BY <2>1, <2>2, <2>3, BelowIs
<1>2. ASSUME NEW f, NEW q \in D, \A y \in D : <<y, q>> \in R => f[y] \in V PROVE PlacesStep(f, q) \in V
  <2>1. CASE q = <<>>
    BY <2>1 DEF PlacesStep
  <2>2. CASE q # <<>>
    <3>1. f[WithoutLast(q)] \in V /\ q[Len(q)] \in Selector
      <4> HIDE DEF D, V, R
      <4> QED BY <1>1, <1>2, <2>2
    <3>2. Append(f[WithoutLast(q)], q[Len(q)]) \in V
      BY <3>1
    <3> HIDE DEF V
    <3> QED BY <2>2, <3>1, <3>2 DEF PlacesStep
  <2> QED BY <2>1, <2>2
<1>3. G \in [[D -> V] -> [D -> V]]
  <2> HIDE DEF D, V, R
  <2> QED BY <1>2
<1>4. ASSUME NEW f, NEW g, NEW q \in D, \A y \in D : <<y, q>> \in R => f[y] = g[y]
      PROVE  PlacesStep(f, q) = PlacesStep(g, q)
  BY <1>1, <1>4 DEF PlacesStep
<1>5. IsWellFoundedOn(R, D) /\ Transitive(R, D)
  <2>1. z \in [D -> Nat] /\ l \in [D -> Nat]
    OBVIOUS
  <2> HIDE DEF D, z, l
  <2> QED BY <2>1, BelowWellFounded
<1>6. V # {}
  <2>1. <<>> \in V
    OBVIOUS
  <2> QED BY <2>1
<1> HIDE DEF D, V, R, z, l
<1>7. Contracts(G, R, D, V)
  BY <1>3, <1>4 DEF Contracts
<1>8. PICK f \in [D -> V] : f = G[f]
  <2> HIDE DEF G
  <2> QED BY <1>5, <1>6, <1>7, RecursiveFunction
<1>9. f = [q \in D |-> PlacesStep(f, q)]
  BY <1>8
<1> DEFINE P(h) == h = [q \in D |-> PlacesStep(h, q)]
<1>10. Places = CHOOSE h : P(h)
  BY Zenon DEF Places, PlacesStep, D
<1>11. P(Places)
  <2>1. P(f)
    BY <1>9
  <2> HIDE DEF P
  <2> QED BY <1>10, <2>1
<1>12. \A q \in D : Places[q] \in V
  <2> DEFINE T == {q \in D : Places[q] \notin V}
  <2> SUFFICES ASSUME T # {} PROVE FALSE
    OBVIOUS
  <2>1. PICK q \in T : \A y \in T : ~ (<<y, q>> \in R)
    <3>1. T \subseteq D
      OBVIOUS
    <3> HIDE DEF T
    <3> QED BY <1>5, <3>1, WFMin, Zenon
  <2>2. PlacesStep(Places, q) \in V
    BY <1>2, <2>1
  <2> QED BY <1>11, <2>1, <2>2
<1> QED BY <1>11, <1>12 DEF D, V

(* The macros of a file, which are finitely many.                          *)
Defined(p) == {k \in Key : MacroOf(p, k).body # NoBody}

LEMMA MacroOfType ==
  ASSUME NEW p \in Programs, NEW key
  PROVE  /\ MacroOf(p, key) \in Macro
         /\ MacroOf(p, key).args \in Seq(Name)
         /\ MacroOf(p, key).body.kind = "construct" => MacroOf(p, key).body.content \in Seq(Item)
         /\ MacroOf(p, key).body.kind = "selector" => MacroOf(p, key).body.content \in Seq(Selector)
<1> DEFINE ms == p.macros
           own == {i \in DOMAIN ms : ms[i].key = key}
           last == CHOOSE i \in own : \A j \in own : j <= i
<1>1. NoMacro \in Macro
  BY DEF NoMacro, Macro, Body
<1>2. ms \in Seq([key : Key, macro : Macro])
  BY ProgramsAssumption
<1>3. ASSUME own # {} PROVE ms[last].macro \in Macro
  <2>1. Len(ms) \in Nat /\ own \in SUBSET (1 .. Len(ms))
    BY <1>2
  <2>2. \E i \in own : \A j \in own : j <= i
    BY <2>1, <1>3, LastExists
  <2>3. last \in DOMAIN ms
    BY <2>2
  <2>4. \A i \in DOMAIN ms : ms[i] \in [key : Key, macro : Macro]
    BY <1>2, ElementFacts, Zenon
  <2> QED BY <2>3, <2>4
<1>4. MacroOf(p, key) \in Macro
  BY <1>1, <1>3, BuiltinsAssumption DEF MacroOf
<1>5. \A m \in Macro : /\ m.args \in Seq(Name)
                       /\ m.body.kind = "construct" => m.body.content \in Seq(Item)
                       /\ m.body.kind = "selector" => m.body.content \in Seq(Selector)
  BY DEF Macro, Body, NoBody
<1> QED BY <1>4, <1>5

LEMMA DefinedFinite ==
  ASSUME NEW p \in Programs, IsFiniteSet(DOMAIN Builtins)
  PROVE  IsFiniteSet(Defined(p))
<1> DEFINE ms == p.macros
           n == Len(ms)
           own == {ms[i].key : i \in 1 .. n}
<1>0. ms \in Seq([key : Key, macro : Macro])
  BY ProgramsAssumption
<1>1. n \in Nat /\ DOMAIN ms = 1 .. n
  BY <1>0
<1>2. IsFiniteSet(own)
  <2>1. IsFiniteSet(1 .. n)
    <3> HIDE DEF n
    <3> QED BY <1>1, FS_Interval
  <2>2. [i \in 1 .. n |-> ms[i].key] \in Surjection(1 .. n, own)
    BY DEF Surjection
  <2> HIDE DEF n, ms, own
  <2> QED BY <2>1, <2>2, FS_Surjection
<1>3. IsFiniteSet(own \cup DOMAIN Builtins)
  <2> HIDE DEF own
  <2> QED BY <1>2, FS_Union
<1>4. Defined(p) \subseteq own \cup DOMAIN Builtins
  <2> SUFFICES ASSUME NEW k \in Key, k \notin own, k \notin DOMAIN Builtins PROVE MacroOf(p, k).body = NoBody
    BY DEF Defined
  <2>1. {i \in DOMAIN ms : ms[i].key = k} = {}
    BY <1>1
  <2> QED BY <2>1 DEF MacroOf, NoMacro
<1> QED BY <1>3, <1>4, FS_Subset

(* Every open expansion leaves fewer macros to open.                       *)
Left(p, open) == Cardinality(Defined(p) \ open)

LEMMA LeftFacts ==
  ASSUME NEW p \in Programs, IsFiniteSet(DOMAIN Builtins), NEW open, NEW k \in Key, k \notin open,
         MacroOf(p, k).body.kind \in {"construct", "selector"}
  PROVE  /\ Left(p, open) \in Nat /\ Left(p, open \cup {k}) \in Nat
         /\ Left(p, open \cup {k}) < Left(p, open)
<1>1. k \in Defined(p)
  BY DEF Defined, NoBody
<1> DEFINE D == Defined(p) \ open
<1>2. IsFiniteSet(D)
  BY DefinedFinite, FS_Subset
<1>3. Defined(p) \ (open \cup {k}) = D \ {k} /\ k \in D
  BY <1>1
<1> HIDE DEF D
<1>4. Cardinality(D \ {k}) = Cardinality(D) - 1 /\ Cardinality(D) \in Nat /\ Cardinality(D \ {k}) \in Nat
  BY <1>2, <1>3, FS_RemoveElement, FS_CardinalityType
<1>5. Left(p, open) = Cardinality(D)
  BY DEF Left, D
<1>6. Left(p, open \cup {k}) = Cardinality(D \ {k})
  BY <1>3, Zenon DEF Left
<1> QED BY <1>4, <1>5, <1>6

LEMMA LeftNat ==
  ASSUME NEW p \in Programs, IsFiniteSet(DOMAIN Builtins), NEW open
  PROVE  Left(p, open) \in Nat
BY DefinedFinite, FS_Subset, FS_CardinalityType DEF Left

-----------------------------------------------------------------------------
(* The selectors a list stands for.                                        *)

SelectorsOfFirst(p, f, v) ==
  LET s == Head(v.code)
  IN  IF s.kind # "call" THEN <<s>>
      ELSE IF s.key \in v.open \/ MacroOf(p, s.key).body.kind # "selector" THEN <<>>
      ELSE f[[code |-> MacroOf(p, s.key).body.content, open |-> v.open \cup {s.key}]]

SelectorsStep(p, f, v) ==
  IF v.code = <<>> THEN <<>>
  ELSE SelectorsOfFirst(p, f, v) \o f[[v EXCEPT !.code = Tail(@)]]

LEMMA SelectorsSolve ==
  ASSUME NEW p \in Programs, IsFiniteSet(DOMAIN Builtins)
  PROVE  /\ PlainSelectors(p) \in [Selecting -> Seq(Selector)]
         /\ \A v \in Selecting : PlainSelectors(p)[v] = SelectorsStep(p, PlainSelectors(p), v)
<1> DEFINE D == Selecting
           V == Seq(Selector)
           a == [v \in D |-> Left(p, v.open)]
           z == [v \in D |-> 0]
           l == [v \in D |-> Len(v.code)]
           R == Below(D, a, z, l)
           Rest(v) == [v EXCEPT !.code = Tail(@)]
           Inside(v) == [code |-> MacroOf(p, Head(v.code).key).body.content,
                         open |-> v.open \cup {Head(v.code).key}]
           G == [f \in [D -> V] |-> [v \in D |-> SelectorsStep(p, f, v)]]
<1>1. ASSUME NEW v \in D, v.code # <<>>
      PROVE  Rest(v) \in D /\ <<Rest(v), v>> \in R /\ Head(v.code) \in Selector
  <2>1. v.code \in Seq(Selector) /\ v.open \in SUBSET Key
    BY DEF Selecting
  <2>2. Head(v.code) \in Selector /\ Tail(v.code) \in Seq(Selector) /\ Len(Tail(v.code)) < Len(v.code)
    BY <1>1, <2>1, HeadFacts
  <2>3. Rest(v) \in D /\ Rest(v).open = v.open /\ Rest(v).code = Tail(v.code)
    BY <2>1, <2>2 DEF Selecting
  <2>4. a[Rest(v)] = a[v] /\ z[Rest(v)] = z[v] /\ l[Rest(v)] < l[v]
    <3> HIDE DEF Rest
    <3> QED BY <2>2, <2>3
  <2> HIDE DEF D, a, z, l, Rest
  <2> QED BY <2>2, <2>3, <2>4, BelowIs
<1>2. ASSUME NEW v \in D, v.code # <<>>, Head(v.code).kind = "call", Head(v.code).key \notin v.open,
             MacroOf(p, Head(v.code).key).body.kind = "selector"
      PROVE  Inside(v) \in D /\ <<Inside(v), v>> \in R
  <2> DEFINE k == Head(v.code).key
  <2>1. k \in Key
    BY <1>1, <1>2, SelectorAssumption
  <2>2. Inside(v) \in D /\ Inside(v).open = v.open \cup {k}
    BY <1>2, <2>1, MacroOfType DEF Selecting
  <2>3. a[Inside(v)] < a[v]
    <3> HIDE DEF Inside
    <3> QED BY <1>2, <2>1, <2>2, LeftFacts
  <2> HIDE DEF D, a, z, l, Inside
  <2> QED BY <2>2, <2>3, BelowIs
<1>3. ASSUME NEW f, NEW v \in D, \A y \in D : <<y, v>> \in R => f[y] \in V PROVE SelectorsStep(p, f, v) \in V
  <2>1. CASE v.code = <<>>
    BY <2>1 DEF SelectorsStep
  <2>2. CASE v.code # <<>>
    <3>1. f[Rest(v)] \in V
      <4> HIDE DEF D, V, R, Rest
      <4> QED BY <1>1, <1>3, <2>2
    <3>2. SelectorsOfFirst(p, f, v) \in V
      <4>1. CASE Head(v.code).kind # "call"
        <5>1. Head(v.code) \in Selector
          BY <1>1, <2>2
        <5> QED BY <4>1, <5>1 DEF SelectorsOfFirst
      <4>2. CASE /\ Head(v.code).kind = "call"
                 /\ Head(v.code).key \in v.open \/ MacroOf(p, Head(v.code).key).body.kind # "selector"
        BY <4>2 DEF SelectorsOfFirst
      <4>3. CASE /\ Head(v.code).kind = "call" /\ Head(v.code).key \notin v.open
                 /\ MacroOf(p, Head(v.code).key).body.kind = "selector"
        <5>1. f[Inside(v)] \in V
          <6> HIDE DEF D, V, R, Inside
          <6> QED BY <1>2, <1>3, <2>2, <4>3
        <5>2. SelectorsOfFirst(p, f, v) = f[Inside(v)]
          BY <4>3 DEF SelectorsOfFirst
        <5> QED BY <5>1, <5>2
      <4> QED BY <4>1, <4>2, <4>3
    <3>3. SelectorsStep(p, f, v) = SelectorsOfFirst(p, f, v) \o f[Rest(v)]
      BY <2>2 DEF SelectorsStep
    <3> HIDE DEF Rest
    <3> QED BY <3>1, <3>2, <3>3
  <2> QED BY <2>1, <2>2
<1>4. G \in [[D -> V] -> [D -> V]]
  <2> HIDE DEF D, V, R
  <2> QED BY <1>3
<1>5. ASSUME NEW f, NEW g, NEW v \in D, \A y \in D : <<y, v>> \in R => f[y] = g[y]
      PROVE  SelectorsStep(p, f, v) = SelectorsStep(p, g, v)
  <2>1. CASE v.code = <<>>
    BY <2>1 DEF SelectorsStep
  <2>2. CASE v.code # <<>>
    <3>1. f[Rest(v)] = g[Rest(v)]
      <4> HIDE DEF D, R, Rest
      <4> QED BY <1>1, <1>5, <2>2
    <3>2. SelectorsOfFirst(p, f, v) = SelectorsOfFirst(p, g, v)
      <4>1. CASE /\ Head(v.code).kind = "call" /\ Head(v.code).key \notin v.open
                 /\ MacroOf(p, Head(v.code).key).body.kind = "selector"
        <5>1. f[Inside(v)] = g[Inside(v)]
          <6> HIDE DEF D, R, Inside
          <6> QED BY <1>2, <1>5, <2>2, <4>1
        <5> QED BY <4>1, <5>1 DEF SelectorsOfFirst
      <4> QED BY <4>1 DEF SelectorsOfFirst
    <3> QED BY <3>1, <3>2 DEF SelectorsStep
  <2> QED BY <2>1, <2>2
<1>6. IsWellFoundedOn(R, D) /\ Transitive(R, D)
  <2>1. a \in [D -> Nat] /\ z \in [D -> Nat] /\ l \in [D -> Nat]
    BY LeftNat DEF Selecting
  <2> HIDE DEF D, a, z, l
  <2> QED BY <2>1, BelowWellFounded
<1>7. V # {}
  <2>1. <<>> \in V
    OBVIOUS
  <2> QED BY <2>1
<1> DEFINE S == PlainSelectors(p)
           P(h) == h = [v \in D |-> SelectorsStep(p, h, v)]
<1>8. S = CHOOSE h : P(h)
  BY Zenon DEF PlainSelectors, SelectorsStep, SelectorsOfFirst
<1> HIDE DEF D, V, R, z, l, a, S
<1>9. Contracts(G, R, D, V)
  BY <1>4, <1>5 DEF Contracts
<1>10. PICK f \in [D -> V] : f = G[f]
  <2> HIDE DEF G
  <2> QED BY <1>6, <1>7, <1>9, RecursiveFunction
<1>11. P(S)
  <2>1. P(f)
    BY <1>10
  <2> HIDE DEF P
  <2> QED BY <1>8, <2>1
<1>12. \A v \in D : S[v] \in V
  <2> DEFINE T == {v \in D : S[v] \notin V}
  <2> SUFFICES ASSUME T # {} PROVE FALSE
    OBVIOUS
  <2>1. PICK v \in T : \A y \in T : ~ (<<y, v>> \in R)
    <3>1. T \subseteq D
      OBVIOUS
    <3> HIDE DEF T
    <3> QED BY <1>6, <3>1, WFMin, Zenon
  <2>2. SelectorsStep(p, S, v) \in V
    BY <1>3, <2>1
  <2> QED BY <1>11, <2>1, <2>2
<1> QED BY <1>11, <1>12 DEF D, V, S

(* How deep the constructs of a body are nested.                           *)
Deep(levels, q) == {n \in Nat : \A i \in DOMAIN q : levels[q[i]] < n}
Depth(levels, q) == CHOOSE n \in Deep(levels, q) : \A m \in Deep(levels, q) : n <= m

LEMMA BoundExists ==
  ASSUME NEW n \in Nat, NEW f \in [1 .. n -> Nat]
  PROVE  \E b \in Nat : \A i \in 1 .. n : f[i] < b
<1> DEFINE Bounds(k, b) == \A i \in 1 .. k : f[i] < b
           T == {k \in 0 .. n : \A b \in Nat : ~Bounds(k, b)}
<1> SUFFICES ASSUME T # {} PROVE FALSE
  <2>1. n \in 0 .. n
    OBVIOUS
  <2> QED BY <2>1
<1>1. PICK k \in T : \A m \in T : k <= m
  <2>1. T \in SUBSET Nat
    OBVIOUS
  <2> HIDE DEF T
  <2> QED BY <2>1, LeastExists
<1>2. k # 0
  <2>1. Bounds(0, 0)
    OBVIOUS
  <2> QED BY <1>1, <2>1
<1>3. k - 1 \in 0 .. n /\ k \in 1 .. n /\ ~ (k <= k - 1)
  BY <1>1, <1>2
<1>4. PICK b \in Nat : Bounds(k - 1, b)
  BY <1>1, <1>3
<1>5. PICK y \in Nat : f[k] = y
  BY <1>3
<1> HIDE DEF T
<1>6. b + y + 1 \in Nat
  BY <1>5
<1>7. Bounds(k, b + y + 1)
  <2> SUFFICES ASSUME NEW i \in 1 .. k PROVE f[i] < b + y + 1
    OBVIOUS
  <2>1. CASE i = k
    BY <1>5, <2>1
  <2>2. CASE i # k
    <3>1. i \in 1 .. k - 1 /\ i \in 1 .. n
      BY <1>3, <2>2
    <3>2. f[i] \in Nat /\ f[i] < b
      BY <1>4, <3>1
    <3> QED BY <1>5, <3>2
  <2> QED BY <2>1, <2>2
<1> HIDE DEF Bounds
<1> QED BY <1>1, <1>6, <1>7 DEF T

LEMMA DeepExists ==
  ASSUME NEW levels, Nesting(levels), NEW q \in Seq(Item)
  PROVE  Deep(levels, q) # {}
<1> DEFINE n == Len(q)
           f == [i \in 1 .. n |-> levels[q[i]]]
<1>1. n \in Nat /\ DOMAIN q = 1 .. n /\ \A i \in 1 .. n : q[i] \in Item
  BY ElementFacts, Zenon
<1>2. f \in [1 .. n -> Nat]
  BY <1>1 DEF Nesting
<1>3. PICK b \in Nat : \A i \in 1 .. n : f[i] < b
  <2> HIDE DEF n, f
  <2> QED BY <1>1, <1>2, BoundExists
<1> QED BY <1>1, <1>3 DEF Deep

LEMMA DepthFacts ==
  ASSUME NEW levels, Nesting(levels), NEW q \in Seq(Item)
  PROVE  /\ Depth(levels, q) \in Nat
         /\ \A i \in DOMAIN q : levels[q[i]] < Depth(levels, q)
         /\ \A n \in Nat : (\A i \in DOMAIN q : levels[q[i]] < n) => Depth(levels, q) <= n
<1> DEFINE S == Deep(levels, q)
<1>1. S # {} /\ S \in SUBSET Nat
  BY DeepExists DEF Deep
<1>2. \E n \in S : \A m \in S : n <= m
  <2> HIDE DEF S
  <2> QED BY <1>1, LeastExists
<1>3. Depth(levels, q) \in S /\ \A m \in S : Depth(levels, q) <= m
  <2> HIDE DEF S
  <2>1. Depth(levels, q) = CHOOSE n \in S : \A m \in S : n <= m
    BY DEF Depth, S
  <2> HIDE DEF Depth
  <2> QED BY <1>2, <2>1
<1> QED BY <1>3 DEF Deep

(* The rest of a body is nested no deeper, and a rule's body less deep.    *)
LEMMA DepthFalls ==
  ASSUME NEW levels, Nesting(levels), NEW q \in Seq(Item), q # <<>>
  PROVE  /\ Depth(levels, Tail(q)) <= Depth(levels, q)
         /\ Head(q).kind = "rule" => Depth(levels, Head(q).body) < Depth(levels, q)
<1>1. /\ Head(q) \in Item /\ Tail(q) \in Seq(Item) /\ Head(q) = q[1] /\ 1 \in DOMAIN q
      /\ \A i \in DOMAIN Tail(q) : i + 1 \in DOMAIN q /\ Tail(q)[i] = q[i + 1]
  BY HeadFacts
<1>2. Depth(levels, q) \in Nat /\ \A i \in DOMAIN q : levels[q[i]] < Depth(levels, q)
  BY DepthFacts
<1>3. Depth(levels, Tail(q)) <= Depth(levels, q)
  BY <1>1, <1>2, DepthFacts
<1>4. ASSUME Head(q).kind = "rule" PROVE Depth(levels, Head(q).body) < Depth(levels, q)
  <2>1. Head(q).body \in Seq(Item)
    BY <1>1, <1>4, ItemAssumption
  <2>2. levels[Head(q)] \in Nat /\ \A i \in DOMAIN Head(q).body : levels[Head(q).body[i]] < levels[Head(q)]
    BY <1>1, <1>4 DEF Nesting
  <2>3. Depth(levels, Head(q).body) \in Nat /\ Depth(levels, Head(q).body) <= levels[Head(q)]
    BY <2>1, <2>2, DepthFacts
  <2> QED BY <1>1, <1>2, <2>2, <2>3
<1> QED BY <1>3, <1>4

-----------------------------------------------------------------------------
(* The pieces a meaning is made of have their types.                       *)

LEMMA NormalisedType ==
  ASSUME NEW q \in Seq(Selector)
  PROVE  Normalised(q) \in Seq(Selector)
<1>1. Places[q] \in Seq(Selector)
  BY PlacesSolve
<1>2. Places[q] # <<>> => WithoutLast(Places[q]) \in Seq(Selector)
  BY <1>1, PopFacts DEF WithoutLast
<1> QED BY <1>1, <1>2 DEF Normalised, EndsInComma

LEMMA SubstituteType ==
  ASSUME NEW e \in Expr, NEW env \in [Name -> Expr]
  PROVE  Substitute(e, env) \in Expr
BY ExprAssumption DEF Substitute

LEMMA EnvironmentType ==
  ASSUME NEW args \in Seq(Name), NEW values \in Seq(Expr), NEW env \in [Name -> Expr]
  PROVE  Environment(args, values, env) \in [Name -> Expr]
<1> SUFFICES ASSUME NEW n \in Name PROVE Environment(args, values, env)[n] \in Expr
  BY DEF Environment
<1> DEFINE at == {i \in DOMAIN args \cap DOMAIN values : args[i] = n}
           last == CHOOSE i \in at : \A j \in at : j <= i
<1>1. CASE at = {}
  BY <1>1, NilAssumption DEF Environment
<1>2. CASE at # {}
  <2>1. Len(args) \in Nat /\ at \in SUBSET (1 .. Len(args))
    OBVIOUS
  <2>2. \E i \in at : \A j \in at : j <= i
    BY <2>1, <1>2, LastExists
  <2>3. last \in DOMAIN values
    BY <2>2
  <2>4. values[last] \in Expr
    BY <2>3
  <2>5. Environment(args, values, env)[n] = Substitute(values[last], env)
    BY <1>2 DEF Environment
  <2> HIDE DEF last
  <2> QED BY <2>4, <2>5, SubstituteType
<1> QED BY <1>1, <1>2

LEMMA AssignedType ==
  ASSUME NEW tree \in Seq(TreeNode), NEW n \in Nat \ {0}, NEW c \in Item, c.kind = "set", NEW e
  PROVE  Assigned(tree, n, c, e) \in Seq(TreeNode)
<1> DEFINE value == ValueAt(tree, n, e)
           v == Coerce[<<c.store, c.name, value>>]
           x == <<c.store, c.name>>
<1>1. CASE Assigned(tree, n, c, e) = tree
  BY <1>1
<1>2. CASE value \in Value /\ Assigned(tree, n, c, e) = [tree EXCEPT ![n].data[x] = v]
  <2>1. c.store \in Store /\ c.name \in Name
    BY ItemAssumption
  <2>2. v \in Value \cup {Nil}
    <3> HIDE DEF value
    <3> QED BY <1>2, <2>1, CoerceAssumption
  <2>3. CASE n \in DOMAIN tree
    <3> DEFINE t == [tree[n] EXCEPT !.data[x] = v]
    <3>1. tree[n] \in TreeNode /\ n \in 1 .. Len(tree)
      BY <2>3
    <3>2. t \in TreeNode
      <4> HIDE DEF v
      <4> QED BY <2>1, <2>2, <3>1 DEF TreeNode
    <3>3. Assigned(tree, n, c, e) = [tree EXCEPT ![n] = t]
      BY <1>2
    <3> HIDE DEF t
    <3>4. [tree EXCEPT ![n] = t] \in Seq(TreeNode)
      BY <3>1, <3>2, UpdateFacts
    <3> QED BY <3>3, <3>4
  <2>4. CASE n \notin DOMAIN tree
    <3>1. [tree EXCEPT ![n].data[x] = v] = tree
      <4> HIDE DEF v
      <4> QED BY <2>4
    <3> QED BY <1>2, <3>1
  <2> QED BY <2>3, <2>4
<1> QED BY <1>1, <1>2 DEF Assigned

LEMMA GrownType ==
  ASSUME NEW tree \in Seq(TreeNode), NEW n \in Nat \ {0}, NEW selectors \in Seq(Selector)
  PROVE  Grown(tree, n, selectors) \in Seq(TreeNode)
<1> DEFINE t == [tree EXCEPT ![n].children = Append(@, Len(tree) + 1)]
<1>1. t \in Seq(TreeNode)
  <2>1. CASE n \in DOMAIN tree
    <3> DEFINE u == [tree[n] EXCEPT !.children = Append(@, Len(tree) + 1)]
    <3>1. tree[n] \in TreeNode /\ n \in 1 .. Len(tree) /\ Len(tree) \in Nat
      BY <2>1
    <3>2. Append(tree[n].children, Len(tree) + 1) \in Seq(Nat \ {0})
      BY <3>1 DEF TreeNode
    <3>3. u \in TreeNode
      BY <3>1, <3>2 DEF TreeNode
    <3>4. t = [tree EXCEPT ![n] = u]
      OBVIOUS
    <3> HIDE DEF t, u
    <3>5. [tree EXCEPT ![n] = u] \in Seq(TreeNode)
      BY <3>1, <3>3, UpdateFacts
    <3> QED BY <3>4, <3>5
  <2>2. CASE n \notin DOMAIN tree
    <3>1. t = tree
      BY <2>2
    <3> QED BY <3>1
  <2> QED BY <2>1, <2>2
<1>2. NewNode(n, selectors) \in TreeNode
  BY NewNodeType
<1> HIDE DEF t
<1>3. Append(t, NewNode(n, selectors)) \in Seq(TreeNode)
  BY <1>1, <1>2
<1> QED BY <1>3 DEF Grown, t

(* The work that is left after the first construct, and that of the bodies *)
(* of a rule and of a macro.                                               *)
Onward(w, tree) == [w EXCEPT !.code = Tail(w.code), !.tree = tree]

SelectorsIn(p, c, open) == Normalised(PlainSelectors(p)[[code |-> c.selectors, open |-> open]])

InsideRule(p, w) ==
  [w EXCEPT !.code = Head(w.code).body,
            !.tree = Grown(w.tree, w.node, SelectorsIn(p, Head(w.code), w.open)),
            !.node = Len(w.tree) + 1]

InsideCall(p, w) ==
  LET c == Head(w.code)
      macro == MacroOf(p, c.key)
  IN  [w EXCEPT !.code = macro.body.content,
                !.env = Environment(macro.args, c.args, w.env),
                !.open = w.open \cup {c.key}]

Expands(p, w) ==
  /\ Head(w.code).kind = "call"
  /\ Head(w.code).key \notin w.open
  /\ MacroOf(p, Head(w.code).key).body.kind = "construct"

TreesStep(p, f, w) == IF w.code = <<>> THEN w.tree ELSE f[Onward(w, AfterFirst(p, f, w))]

LEMMA WorkFacts ==
  ASSUME NEW w \in Work
  PROVE  /\ w.code \in Seq(Item) /\ w.env \in [Name -> Expr] /\ w.open \in SUBSET Key
         /\ w.tree \in Seq(TreeNode) /\ w.node \in Nat \ {0}
         /\ w.code # <<>> => Head(w.code) \in Item /\ Tail(w.code) \in Seq(Item)
BY HeadFacts DEF Work

LEMMA OnwardFacts ==
  ASSUME NEW w \in Work, w.code # <<>>, NEW tree \in Seq(TreeNode)
  PROVE  /\ Onward(w, tree) \in Work
         /\ Onward(w, tree).code = Tail(w.code) /\ Onward(w, tree).open = w.open
BY WorkFacts DEF Onward, Work

LEMMA SelectorsInType ==
  ASSUME NEW p \in Programs, IsFiniteSet(DOMAIN Builtins), NEW c \in Item, c.kind = "rule", NEW open \in SUBSET Key
  PROVE  SelectorsIn(p, c, open) \in Seq(Selector)
<1>1. [code |-> c.selectors, open |-> open] \in Selecting
  BY ItemAssumption DEF Selecting
<1>2. PlainSelectors(p)[[code |-> c.selectors, open |-> open]] \in Seq(Selector)
  BY <1>1, SelectorsSolve
<1> QED BY <1>2, NormalisedType DEF SelectorsIn

LEMMA InsideRuleFacts ==
  ASSUME NEW p \in Programs, IsFiniteSet(DOMAIN Builtins), NEW w \in Work, w.code # <<>>, Head(w.code).kind = "rule"
  PROVE  /\ InsideRule(p, w) \in Work
         /\ InsideRule(p, w).code = Head(w.code).body /\ InsideRule(p, w).open = w.open
<1>1. Head(w.code).body \in Seq(Item) /\ Head(w.code) \in Item
  BY WorkFacts, ItemAssumption
<1>2. Grown(w.tree, w.node, SelectorsIn(p, Head(w.code), w.open)) \in Seq(TreeNode)
  BY <1>1, WorkFacts, SelectorsInType, GrownType
<1>3. Len(w.tree) + 1 \in Nat \ {0}
  BY WorkFacts
<1> HIDE DEF Grown
<1> QED BY <1>1, <1>2, <1>3, WorkFacts DEF InsideRule, Work

LEMMA InsideCallFacts ==
  ASSUME NEW p \in Programs, NEW w \in Work, w.code # <<>>, Expands(p, w)
  PROVE  /\ InsideCall(p, w) \in Work
         /\ Head(w.code).key \in Key
         /\ InsideCall(p, w).open = w.open \cup {Head(w.code).key}
<1> DEFINE c == Head(w.code)
           macro == MacroOf(p, c.key)
<1>1. c \in Item /\ c.key \in Key /\ c.args \in Seq(Expr)
  BY WorkFacts, ItemAssumption DEF Expands
<1>2. macro.body.content \in Seq(Item) /\ macro.args \in Seq(Name)
  BY MacroOfType DEF Expands
<1>3. Environment(macro.args, c.args, w.env) \in [Name -> Expr]
  BY <1>1, <1>2, WorkFacts, EnvironmentType
<1>4. w.open \cup {c.key} \in SUBSET Key
  BY <1>1, WorkFacts
<1>5. InsideCall(p, w) = [w EXCEPT !.code = macro.body.content,
                                   !.env = Environment(macro.args, c.args, w.env),
                                   !.open = w.open \cup {c.key}]
  BY DEF InsideCall
<1> HIDE DEF c, macro
<1> QED BY <1>1, <1>2, <1>3, <1>4, <1>5, WorkFacts DEF Work, c

(* The cases of the first construct.                                       *)
LEMMA FirstCases ==
  ASSUME NEW p, NEW f, NEW w
  PROVE  /\ Head(w.code).kind = "set" =>
              AfterFirst(p, f, w) = Assigned(w.tree, w.node, Head(w.code), Substitute(Head(w.code).right, w.env))
         /\ Head(w.code).kind = "rule" => AfterFirst(p, f, w) = f[InsideRule(p, w)]
         /\ Expands(p, w) => AfterFirst(p, f, w) = f[InsideCall(p, w)]
         /\ Head(w.code).kind \notin {"set", "rule"} /\ ~Expands(p, w) => AfterFirst(p, f, w) = w.tree
BY DEF AfterFirst, InsideRule, InsideCall, SelectorsIn, Expands

LEMMA TreesSolve ==
  ASSUME NEW p \in Programs, IsFiniteSet(DOMAIN Builtins), NEW levels, Nesting(levels)
  PROVE  /\ Trees(p) \in [Work -> Seq(TreeNode)]
         /\ \A w \in Work : Trees(p)[w] = TreesStep(p, Trees(p), w)
<1> DEFINE D == Work
           V == Seq(TreeNode)
           a == [w \in D |-> Left(p, w.open)]
           b == [w \in D |-> Depth(levels, w.code)]
           l == [w \in D |-> Len(w.code)]
           R == Below(D, a, b, l)
           G == [f \in [D -> V] |-> [w \in D |-> TreesStep(p, f, w)]]
<1>1. ASSUME NEW w \in D, w.code # <<>>, NEW tree \in V
      PROVE  Onward(w, tree) \in D /\ <<Onward(w, tree), w>> \in R
  <2> DEFINE u == Onward(w, tree)
  <2>1. u \in D /\ u.open = w.open /\ u.code = Tail(w.code) /\ w.code \in Seq(Item)
    BY <1>1, OnwardFacts, WorkFacts
  <2> HIDE DEF u
  <2>2. Depth(levels, u.code) \in Nat /\ Depth(levels, w.code) \in Nat /\ Depth(levels, u.code) <= Depth(levels, w.code)
    BY <1>1, <2>1, HeadFacts, DepthFacts, DepthFalls
  <2>3. Len(u.code) < Len(w.code)
    BY <1>1, <2>1, HeadFacts
  <2>4. a[u] = a[w] /\ l[u] < l[w] /\ b[u] = Depth(levels, u.code) /\ b[w] = Depth(levels, w.code)
    BY <2>1, <2>3
  <2> HIDE DEF D, a, b, l
  <2>5. b[u] < b[w] \/ b[u] = b[w]
    BY <2>2, <2>4
  <2>6. <<u, w>> \in R
    BY <2>1, <2>4, <2>5, BelowIs
  <2> QED BY <2>1, <2>6 DEF u
<1>2. ASSUME NEW w \in D, w.code # <<>>, Head(w.code).kind = "rule"
      PROVE  InsideRule(p, w) \in D /\ <<InsideRule(p, w), w>> \in R
  <2> DEFINE u == InsideRule(p, w)
  <2>1. u \in D /\ u.open = w.open /\ u.code = Head(w.code).body /\ w.code \in Seq(Item)
    BY <1>2, InsideRuleFacts, WorkFacts
  <2> HIDE DEF u
  <2>2. Depth(levels, u.code) < Depth(levels, w.code)
    BY <1>2, <2>1, DepthFalls
  <2>4. a[u] = a[w] /\ b[u] < b[w]
    BY <2>1, <2>2
  <2> HIDE DEF D, a, b, l
  <2>5. <<u, w>> \in R
    BY <2>1, <2>4, BelowIs
  <2> QED BY <2>1, <2>5 DEF u
<1>3. ASSUME NEW w \in D, w.code # <<>>, Expands(p, w)
      PROVE  InsideCall(p, w) \in D /\ <<InsideCall(p, w), w>> \in R
  <2> DEFINE u == InsideCall(p, w)
             k == Head(w.code).key
  <2>1. u \in D /\ u.open = w.open \cup {k} /\ k \in Key
    BY <1>3, InsideCallFacts
  <2> HIDE DEF u
  <2>2. Left(p, u.open) < Left(p, w.open)
    BY <1>3, <2>1, LeftFacts DEF Expands
  <2>4. a[u] < a[w]
    BY <2>1, <2>2
  <2> HIDE DEF D, a, b, l
  <2>5. <<u, w>> \in R
    BY <2>1, <2>4, BelowIs
  <2> QED BY <2>1, <2>5 DEF u
<1>4. IsWellFoundedOn(R, D) /\ Transitive(R, D)
  <2>1. a \in [D -> Nat] /\ l \in [D -> Nat]
    BY LeftNat, WorkFacts
  <2>2. b \in [D -> Nat]
    BY DepthFacts, WorkFacts
  <2> HIDE DEF D, a, b, l
  <2> QED BY <2>1, <2>2, BelowWellFounded
<1>5. ASSUME NEW f, NEW w \in D, w.code # <<>>, \A y \in D : <<y, w>> \in R => f[y] \in V
      PROVE  AfterFirst(p, f, w) \in V
  <2> DEFINE c == Head(w.code)
  <2>1. CASE c.kind = "set"
    <3>1. Assigned(w.tree, w.node, c, Substitute(c.right, w.env)) \in V
      BY <1>5, <2>1, WorkFacts, AssignedType
    <3> QED BY <2>1, <3>1, FirstCases
  <2>2. CASE c.kind = "rule"
    <3>1. f[InsideRule(p, w)] \in V
      <4> HIDE DEF D, V, R
      <4> QED BY <1>2, <1>5, <2>2
    <3> QED BY <2>2, <3>1, FirstCases
  <2>3. CASE Expands(p, w)
    <3>1. f[InsideCall(p, w)] \in V
      <4> HIDE DEF D, V, R
      <4> QED BY <1>3, <1>5, <2>3
    <3> QED BY <2>3, <3>1, FirstCases
  <2>4. CASE c.kind \notin {"set", "rule"} /\ ~Expands(p, w)
    BY <2>4, WorkFacts, FirstCases
  <2> QED BY <2>1, <2>2, <2>3, <2>4
<1>6. ASSUME NEW f, NEW w \in D, \A y \in D : <<y, w>> \in R => f[y] \in V
      PROVE  TreesStep(p, f, w) \in V
  <2>1. CASE w.code = <<>>
    BY <2>1, WorkFacts DEF TreesStep
  <2>2. CASE w.code # <<>>
    <3>1. AfterFirst(p, f, w) \in V
      <4> HIDE DEF D, V, R
      <4> QED BY <1>5, <1>6, <2>2
    <3>2. f[Onward(w, AfterFirst(p, f, w))] \in V
      <4> HIDE DEF D, V, R
      <4> QED BY <1>1, <1>6, <2>2, <3>1
    <3> QED BY <2>2, <3>2 DEF TreesStep
  <2> QED BY <2>1, <2>2
<1>7. ASSUME NEW f, NEW g, NEW w \in D, \A y \in D : <<y, w>> \in R => f[y] = g[y],
             \A y \in D : <<y, w>> \in R => f[y] \in V
      PROVE  TreesStep(p, f, w) = TreesStep(p, g, w)
  <2>1. CASE w.code = <<>>
    BY <2>1 DEF TreesStep
  <2>2. CASE w.code # <<>>
    <3>0. Head(w.code).kind = "rule" => f[InsideRule(p, w)] = g[InsideRule(p, w)]
      <4> HIDE DEF D, V, R
      <4> QED BY <1>2, <1>7, <2>2
    <3>1. Expands(p, w) => f[InsideCall(p, w)] = g[InsideCall(p, w)]
      <4> HIDE DEF D, V, R
      <4> QED BY <1>3, <1>7, <2>2
    <3>2. AfterFirst(p, f, w) = AfterFirst(p, g, w)
      BY <3>0, <3>1, FirstCases
    <3>3. AfterFirst(p, f, w) \in V
      <4> HIDE DEF D, V, R
      <4> QED BY <1>5, <1>7, <2>2
    <3>4. f[Onward(w, AfterFirst(p, f, w))] = g[Onward(w, AfterFirst(p, f, w))]
      <4> HIDE DEF D, V, R
      <4> QED BY <1>1, <1>7, <2>2, <3>3
    <3> QED BY <2>2, <3>2, <3>4 DEF TreesStep
  <2> QED BY <2>1, <2>2
<1> DEFINE S == Trees(p)
           P(h) == h = [w \in D |-> TreesStep(p, h, w)]
<1>8. S = CHOOSE h : P(h)
  BY Zenon DEF Trees, TreesStep, Onward
<1>9. V # {}
  <2>1. <<>> \in V
    OBVIOUS
  <2> QED BY <2>1
<1> HIDE DEF D, V, R, l, a, b, S
<1>10. G \in [[D -> V] -> [D -> V]]
  BY <1>6
<1>11. Contracts(G, R, D, V)
  BY <1>10, <1>7 DEF Contracts
<1>12. PICK f \in [D -> V] : f = G[f]
  <2> HIDE DEF G
  <2> QED BY <1>4, <1>9, <1>11, RecursiveFunction
<1>13. P(S)
  <2>1. P(f)
    BY <1>12
  <2> HIDE DEF P
  <2> QED BY <1>8, <2>1
<1>14. \A w \in D : S[w] \in V
  <2> DEFINE T == {w \in D : S[w] \notin V}
  <2> SUFFICES ASSUME T # {} PROVE FALSE
    OBVIOUS
  <2>1. PICK w \in T : \A y \in T : ~ (<<y, w>> \in R)
    <3>1. T \subseteq D
      OBVIOUS
    <3> HIDE DEF T
    <3> QED BY <1>4, <3>1, WFMin, Zenon
  <2>2. TreesStep(p, S, w) \in V
    BY <1>6, <2>1
  <2> QED BY <1>13, <2>1, <2>2
<1> QED BY <1>13, <1>14 DEF D, V, S

LEMMA MacroOfResolve ==
  ASSUME NEW key
  PROVE  MacroOf(program, key) = Resolve(key)
<1> DEFINE own == {i \in DOMAIN program.macros : program.macros[i].key = key}
<1>1. CASE own = {}
  BY <1>1 DEF MacroOf, Resolve, Local, NoMacro
<1>2. CASE own # {}
  BY <1>2 DEF MacroOf, Resolve, Local
<1> QED BY <1>1, <1>2

(* What is left of a sequence from a place on.                             *)
From(q, n) == SubSeq(q, n, Len(q))

LEMMA FromFacts ==
  ASSUME NEW S, NEW q \in Seq(S), NEW n \in Nat \ {0}
  PROVE  /\ From(q, n) \in Seq(S)
         /\ n <= Len(q) => From(q, n) # <<>> /\ Head(From(q, n)) = q[n] /\ Tail(From(q, n)) = From(q, n + 1)
         /\ n > Len(q) => From(q, n) = <<>>
         /\ From(q, 1) = q
<1>1. Len(q) \in Nat /\ \A i \in 1 .. Len(q) : q[i] \in S
  OBVIOUS
<1>2. From(q, n) \in Seq(S) /\ From(q, 1) = q
  BY <1>1 DEF From
<1>3. n > Len(q) => From(q, n) = <<>>
  BY <1>1 DEF From
<1>4. ASSUME n <= Len(q)
      PROVE  From(q, n) # <<>> /\ Head(From(q, n)) = q[n] /\ Tail(From(q, n)) = From(q, n + 1)
  <2> DEFINE r == From(q, n)
             m == Len(q)
  <2>1. m \in Nat /\ n \in 1 .. m /\ m \in Int
    BY <1>1, <1>4
  <2>2. Len(r) = m - n + 1 /\ \A i \in 1 .. m - n + 1 : r[i] = q[n + i - 1]
    <3> HIDE DEF m
    <3> QED BY <1>1, <2>1, SubSeqProperties DEF From, m
  <2>3. r # <<>> /\ Head(r) = q[n]
    <3> HIDE DEF r, m
    <3>1. Len(r) # 0 /\ 1 \in 1 .. m - n + 1 /\ n + 1 - 1 = n
      BY <2>1, <2>2
    <3>2. r \in Seq(S) /\ r # <<>>
      BY <1>2, <3>1 DEF r
    <3> QED BY <2>2, <3>1, <3>2
  <2>4. Tail(r) = From(q, n + 1)
    BY <1>1, <1>4, HeadTailOfSubSeq DEF From
  <2> QED BY <2>3, <2>4
<1> QED BY <1>2, <1>3, <1>4

(* What stands for the arguments of every scope.                           *)
Environments == [Nat -> [Name -> Expr]]

EnvironmentsStand(env) ==
  \A d \in DOMAIN bindings : \A n \in Name :
    env[d][n] = IF bindings[d][n] = Unbound THEN NilExpr
                ELSE Substitute(bindings[d][n].construct, env[d - 1])

(* To evaluate an argument where it was bound is to evaluate what stands   *)
(* for it.                                                                 *)
LEMMA EvaluateMeans ==
  ASSUME TypeOK, ArgumentsPointOutward, NEW env \in Environments, EnvironmentsStand(env), NEW expr \in Expr
  PROVE  Evaluate(expr) = ValueAt(nodes, current, Substitute(expr, env[Len(bindings)]))
<1> DEFINE B == DOMAIN bindings
           Step(v, d, e) == EvaluateIn(v, d, e)
           P(v) == v = [d \in B |-> [e \in Expr |-> Step(v, d, e)]]
           At(d, e) == ValueAt(nodes, current, Substitute(e, env[d]))
           f == [d \in B |-> [e \in Expr |-> At(d, e)]]
           value == CHOOSE v : P(v)
<1>1. Evaluate(expr) = value[Len(bindings)][expr]
  BY Zenon DEF Evaluate
<1>2. \A name : ResolveStatic(name) = StaticAt(nodes, current, name)
  BY DEF ResolveStatic, StaticAt
<1>3. /\ Len(bindings) \in B /\ B \subseteq Nat
      /\ \A d \in B, n \in Name : bindings[d][n] # Unbound =>
           /\ bindings[d][n].scope \in B /\ bindings[d][n].scope = d - 1
           /\ bindings[d][n].construct \in Expr
  <2>1. bindings \in Seq([Name -> BoundArg]) /\ bindings # <<>>
    BY DEF TypeOK
  <2>2. \A d \in B : bindings[d] \in [Name -> BoundArg]
    BY <2>1, ElementFacts, Zenon
  <2>3. \A d \in B, n \in Name : bindings[d][n].construct \in Expr
    BY <2>2 DEF BoundArg
  <2>4. Len(bindings) \in B /\ B \subseteq Nat
    BY <2>1
  <2> QED BY <2>3, <2>4 DEF ArgumentsPointOutward
(* The value by substitution is the same step of recursion.                *)
<1>4. ASSUME NEW v, NEW d \in B, NEW e \in Expr,
             \A n \in Name : bindings[d][n] # Unbound =>
               v[bindings[d][n].scope][bindings[d][n].construct] = At(d - 1, bindings[d][n].construct)
      PROVE  Step(v, d, e) = At(d, e)
  <2>1. CASE e.kind = "literal"
    BY <2>1 DEF ValueAt, Substitute, EvaluateIn
  <2>2. CASE e.kind = "static"
    BY <1>2, <2>2 DEF ValueAt, Substitute, EvaluateIn
  <2>3. CASE e.kind = "argument"
    <3>1. e.name \in Name
      BY <2>3, ExprAssumption
    <3>2. At(d, e) = ValueAt(nodes, current, env[d][e.name])
      BY <2>3 DEF Substitute
    <3>3. CASE bindings[d][e.name] = Unbound
      <4>1. env[d][e.name] = NilExpr
        BY <3>1, <3>3 DEF EnvironmentsStand
      <4>2. ValueAt(nodes, current, NilExpr) = Nil
        BY DEF ValueAt, NilExpr
      <4> QED BY <2>3, <3>2, <3>3, <4>1, <4>2 DEF EvaluateIn
    <3>4. CASE bindings[d][e.name] # Unbound
      <4>1. env[d][e.name] = Substitute(bindings[d][e.name].construct, env[d - 1])
        BY <3>1, <3>4 DEF EnvironmentsStand
      <4> HIDE DEF At
      <4>2. Step(v, d, e) = At(d - 1, bindings[d][e.name].construct)
        BY <1>4, <2>3, <3>1, <3>4 DEF EvaluateIn
      <4> QED BY <3>2, <4>1, <4>2 DEF At
    <3> QED BY <3>3, <3>4
  <2>4. CASE e.kind = "call"
    BY <2>4 DEF ValueAt, Substitute, EvaluateIn
  <2> QED BY <2>1, <2>2, <2>3, <2>4, ExprAssumption
<1> HIDE DEF At, Step
<1>5. P(f)
  <2>1. \A d \in B, e \in Expr : Step(f, d, e) = At(d, e)
    <3> TAKE d \in B, e \in Expr
    <3>1. \A n \in Name : bindings[d][n] # Unbound =>
            f[bindings[d][n].scope][bindings[d][n].construct] = At(d - 1, bindings[d][n].construct)
      BY <1>3
    <3> HIDE DEF f
    <3> QED BY <1>4, <3>1
  <2> QED BY <2>1
<1>6. P(value)
  <2> HIDE DEF P, f
  <2> QED BY <1>5
<1> DEFINE T == {d \in B : \E e \in Expr : value[d][e] # At(d, e)}
<1>7. ASSUME T # {} PROVE FALSE
  <2>1. PICK d \in T : \A u \in T : d <= u
    <3>1. T \in SUBSET Nat
      BY <1>3
    <3> HIDE DEF T
    <3> QED BY <1>7, <3>1, LeastExists
  <2>2. \A n \in Name : bindings[d][n] # Unbound =>
          value[bindings[d][n].scope][bindings[d][n].construct] = At(d - 1, bindings[d][n].construct)
    <3> HIDE DEF value
    <3> TAKE n \in Name
    <3> HAVE bindings[d][n] # Unbound
    <3>1. d - 1 \in B /\ bindings[d][n].scope = d - 1 /\ bindings[d][n].construct \in Expr
      BY <1>3, <2>1
    <3>2. d - 1 \notin T
      <4>1. ~ (d <= d - 1)
        BY <1>3, <2>1
      <4> HIDE DEF T
      <4> QED BY <2>1, <4>1
    <3> QED BY <3>1, <3>2
  <2>3. \A e \in Expr : value[d][e] = Step(value, d, e)
    <3> HIDE DEF value
    <3> QED BY <1>6, <2>1
  <2>4. \A e \in Expr : Step(value, d, e) = At(d, e)
    <3> HIDE DEF value
    <3> QED BY <1>4, <2>1, <2>2
  <2> HIDE DEF value
  <2> QED BY <2>1, <2>3, <2>4
<1> HIDE DEF value
<1>8. value[Len(bindings)][expr] = At(Len(bindings), expr)
  BY <1>3, <1>7
<1> QED BY <1>1, <1>8 DEF At

(* The macros whose bodies are around the scope s, and the work that is    *)
(* left in the block b of it, for a tree to begin with.                    *)
OpenAt(s) == {scopes[i].key : i \in 2 .. s}

WorkOf(s, b, env, tree) ==
  [code |-> From(scopes[s].blocks[b].code, scopes[s].blocks[b].next), env |-> env,
   open |-> OpenAt(s), tree |-> tree, node |-> Into(s, b)]

(* The tree a block goes on with: what the block inside it results in, or  *)
(* the tree as it is.                                                      *)
GoesOn(trees, s, b) ==
  IF b < Len(scopes[s].blocks) THEN trees[s][b + 1]
  ELSE IF s < Len(scopes) THEN trees[s + 1][1] ELSE nodes

(* trees[s][b] is what the block results in.                               *)
StandsAt(env, trees, s, b) ==
  trees[s][b] = Trees(program)[WorkOf(s, b, env[s], GoesOn(trees, s, b))]

Results == [Nat -> [Nat -> Seq(TreeNode)]]

TreesStand(env, trees) ==
  /\ trees[1][1] = Meaning(program)
  /\ \A s \in 1 .. Len(scopes) : \A b \in 1 .. Len(scopes[s].blocks) : StandsAt(env, trees, s, b)

Top == Len(Scope.blocks)
TopWork(env) == WorkOf(Len(scopes), Top, env[Len(scopes)], nodes)

LEMMA OpenType ==
  ASSUME TypeOK, ActiveIsOpenExpansions, NEW s \in 1 .. Len(scopes)
  PROVE  /\ OpenAt(s) \in SUBSET Key
         /\ lists = <<>> => active = OpenAt(Len(scopes))
<1>1. Len(scopes) \in Nat
  BY ScopeFacts
<1>2. active \subseteq Key
  BY DEF TypeOK
<1>3. \A i \in 2 .. s : i \in 2 .. Len(scopes)
  BY <1>1
<1>4. OpenAt(s) \in SUBSET Key
  BY <1>2, <1>3 DEF OpenAt, ActiveIsOpenExpansions
<1>5. ASSUME lists = <<>> PROVE active = OpenAt(Len(scopes))
  <2>1. 2 .. Len(lists) = {}
    BY <1>5
  <2> QED BY <2>1 DEF OpenAt, ActiveIsOpenExpansions
<1> QED BY <1>4, <1>5

LEMMA TopFacts ==
  ASSUME IInv, NEW env \in Environments
  PROVE  /\ Len(scopes) \in Nat \ {0} /\ Len(scopes) \in 1 .. Len(scopes)
         /\ Top \in Nat \ {0} /\ Top = Len(scopes[Len(scopes)].blocks)
         /\ Top \in 1 .. Len(scopes[Len(scopes)].blocks)
         /\ Block = scopes[Len(scopes)].blocks[Top]
         /\ Into(Len(scopes), Top) = current
         /\ \A trees : GoesOn(trees, Len(scopes), Top) = nodes
         /\ TopWork(env) \in Work
         /\ TopWork(env).code = From(Block.code, Block.next)
         /\ TopWork(env).env = env[Len(scopes)]
         /\ TopWork(env).open = OpenAt(Len(scopes))
         /\ TopWork(env).tree = nodes
         /\ TopWork(env).node = current
<1>1. TypeOK /\ ActiveIsOpenExpansions
  BY DEF IInv
<1>2. /\ Len(scopes) \in Nat \ {0} /\ Top \in Nat \ {0} /\ Top = Len(scopes[Len(scopes)].blocks)
      /\ Block = scopes[Len(scopes)].blocks[Top]
  BY <1>1, ScopeFacts, BlockFacts DEF Top, Scope, Block
<1>3. Len(scopes) \in 1 .. Len(scopes) /\ Top \in 1 .. Top
  BY <1>2
<1>4. Into(Len(scopes), Top) = current /\ \A trees : GoesOn(trees, Len(scopes), Top) = nodes
  <2>1. ~ (Len(scopes) < Len(scopes)) /\ ~ (Top < Top)
    BY <1>2
  <2> QED BY <1>2, <2>1 DEF Into, GoesOn
<1>5. Block.code \in Seq(Item) /\ Block.next \in Nat \ {0}
  BY <1>1, BlockFacts
<1>6. From(Block.code, Block.next) \in Seq(Item)
  BY <1>5, FromFacts
<1>7. OpenAt(Len(scopes)) \in SUBSET Key
  BY <1>1, <1>3, OpenType
<1>8. nodes \in Seq(TreeNode) /\ current \in Nat \ {0}
  BY <1>1 DEF TypeOK
<1>9. env[Len(scopes)] \in [Name -> Expr]
  BY <1>2 DEF Environments
<1> QED BY <1>2, <1>3, <1>4, <1>6, <1>7, <1>8, <1>9 DEF TopWork, WorkOf, Work

(* A block whose own state and surroundings are as before stands as before. *)
LEMMA StandsSame ==
  ASSUME NEW env, NEW trees, NEW env2, NEW trees2, NEW s, NEW b,
         StandsAt(env, trees, s, b),
         program' = program,
         scopes'[s].blocks[b].code = scopes[s].blocks[b].code,
         scopes'[s].blocks[b].next = scopes[s].blocks[b].next,
         \A i \in 2 .. s : scopes'[i].key = scopes[i].key,
         Into(s, b)' = Into(s, b),
         GoesOn(trees2, s, b)' = GoesOn(trees, s, b),
         env2[s] = env[s], trees2[s][b] = trees[s][b]
  PROVE  StandsAt(env2, trees2, s, b)'
<1>1. OpenAt(s)' = OpenAt(s)
  BY DEF OpenAt
<1>2. Trees(program)' = Trees(program)
  BY DEF Trees, AfterFirst, MacroOf, PlainSelectors
<1>3. GoesOn(trees2, s, b)' = GoesOn(trees, s, b)
  OBVIOUS
<1>4. WorkOf(s, b, env2[s], GoesOn(trees2, s, b))' = WorkOf(s, b, env[s], GoesOn(trees, s, b))
  BY <1>1 DEF WorkOf, From
<1> QED BY <1>2, <1>4 DEF StandsAt

LEMMA MeaningSame ==
  ASSUME program' = program
  PROVE  Trees(program)' = Trees(program) /\ Meaning(program)' = Meaning(program)
<1>1. Trees(program)' = Trees(program)
  BY DEF Trees, AfterFirst, MacroOf, PlainSelectors
<1>2. Meaning(program)' = Meaning(program)
  BY <1>1 DEF Meaning, WholeFile, Root
<1> QED BY <1>1, <1>2

LEMMA OnwardIs ==
  ASSUME NEW w \in Work, NEW tree
  PROVE  Onward(w, tree) = [code |-> Tail(w.code), env |-> w.env, open |-> w.open, tree |-> tree, node |-> w.node]
<1>1. PICK c, e, o, t, n : w = [code |-> c, env |-> e, open |-> o, tree |-> t, node |-> n]
  BY DEF Work
<1>2. w.code = c /\ w.env = e /\ w.open = o /\ w.node = n
  BY <1>1
<1>3. PICK code : code = Tail(c)
  OBVIOUS
<1> DEFINE u == [w EXCEPT !.code = code]
           v == [u EXCEPT !.tree = tree]
<1>4. u = [code |-> code, env |-> e, open |-> o, tree |-> t, node |-> n]
  BY <1>1
<1>5. v = [code |-> code, env |-> e, open |-> o, tree |-> tree, node |-> n]
  <2> HIDE DEF u
  <2> QED BY <1>4
<1>6. Onward(w, tree) = v
  BY <1>2, <1>3, Zenon DEF Onward
<1> QED BY <1>2, <1>3, <1>5, <1>6

(* A block that others are open in, before and after a step.               *)
LEMMA InnerSame ==
  ASSUME NEW env, NEW trees, NEW env2, NEW trees2,
         NEW s, NEW b,
         StandsAt(env, trees, s, b), program' = program,
         scopes'[s].blocks[b].code = scopes[s].blocks[b].code,
         scopes'[s].blocks[b].next = scopes[s].blocks[b].next,
         \A i \in 2 .. s : scopes'[i].key = scopes[i].key,
         env2[s] = env[s], trees2[s][b] = trees[s][b],
         \/ /\ b < Len(scopes[s].blocks) /\ b < Len(scopes'[s].blocks)
            /\ scopes'[s].blocks[b + 1].saved = scopes[s].blocks[b + 1].saved
            /\ trees2[s][b + 1] = trees[s][b + 1]
         \/ /\ ~ (b < Len(scopes[s].blocks)) /\ ~ (b < Len(scopes'[s].blocks))
            /\ s < Len(scopes) /\ s < Len(scopes')
            /\ scopes'[s + 1].blocks[1].saved = scopes[s + 1].blocks[1].saved
            /\ trees2[s + 1][1] = trees[s + 1][1]
  PROVE  StandsAt(env2, trees2, s, b)'
<1>1. Into(s, b)' = Into(s, b)
  BY DEF Into
<1>2. GoesOn(trees2, s, b)' = GoesOn(trees, s, b)
  BY DEF GoesOn
<1> QED BY <1>1, <1>2, StandsSame

(* The innermost block, when a step has taken its next construct, whatever *)
(* that has built or has still to build.                                   *)
LEMMA MoveOn ==
  ASSUME IInv, IsFiniteSet(DOMAIN Builtins), NEW levels, Nesting(levels),
         NEW env \in Environments, NEW trees, NEW env2, NEW trees2,
         StandsAt(env, trees, Len(scopes), Top), program' = program, Block.next <= Len(Block.code),
         NEW s, NEW b, s = Len(scopes), b = Top,
         scopes'[s].blocks[b].code = Block.code,
         scopes'[s].blocks[b].next = Block.next + 1,
         \A i \in 2 .. s : scopes'[i].key = scopes[i].key,
         Into(s, b)' = current,
         GoesOn(trees2, s, b)' = AfterFirst(program, Trees(program), TopWork(env)),
         env2[s] = env[s], trees2[s][b] = trees[s][b]
  PROVE  StandsAt(env2, trees2, s, b)'
<1> DEFINE w == TopWork(env)
           T == Trees(program)
           grown == AfterFirst(program, T, w)
<1>1. w \in Work /\ w.code = From(Block.code, Block.next) /\ w.env = env[s] /\ w.open = OpenAt(s) /\ w.node = current
  BY TopFacts
<1>2. w.code # <<>> /\ Tail(w.code) = From(Block.code, Block.next + 1)
  <2>1. Block.code \in Seq(Item) /\ Block.next \in Nat \ {0} /\ Block.next <= Len(Block.code)
    BY BlockFacts DEF IInv
  <2> DEFINE q == Block.code
             k == Block.next
  <2>2. q \in Seq(Item) /\ k \in Nat \ {0} /\ k <= Len(q) /\ w.code = From(q, k)
    BY <1>1, <2>1
  <2> HIDE DEF q, k, w
  <2>3. From(q, k) # <<>> /\ Tail(From(q, k)) = From(q, k + 1)
    BY <2>2, FromFacts
  <2> QED BY <2>2, <2>3 DEF q, k
<1>3. T[w] = T[Onward(w, grown)]
  <2>1. program \in Programs
    BY DEF IInv, TypeOK
  <2>2. T[w] = TreesStep(program, T, w)
    BY <1>1, <2>1, TreesSolve
  <2> HIDE DEF T, w
  <2> QED BY <1>2, <2>2 DEF TreesStep
<1>4. OpenAt(s)' = OpenAt(s)
  BY DEF OpenAt
<1>5. WorkOf(s, b, env2[s], GoesOn(trees2, s, b))' = Onward(w, grown)
  <2>1. WorkOf(s, b, env2[s], GoesOn(trees2, s, b))' =
          [code |-> Tail(w.code), env |-> w.env, open |-> w.open, tree |-> grown, node |-> w.node]
    <3> HIDE DEF w
    <3>1. From(scopes[s].blocks[b].code, scopes[s].blocks[b].next)' = Tail(w.code)
      BY <1>2 DEF From
    <3> HIDE DEF grown
    <3> QED BY <1>1, <1>4, <3>1 DEF WorkOf, grown, w
  <2> HIDE DEF w, grown
  <2>2. Onward(w, grown) =
          [code |-> Tail(w.code), env |-> w.env, open |-> w.open, tree |-> grown, node |-> w.node]
    BY <1>1, OnwardIs
  <2> QED BY <2>1, <2>2
<1>6. Trees(program)' = Trees(program)
  BY MeaningSame
<1>7. trees[s][b] = T[w]
  <2>1. GoesOn(trees, s, b) = nodes
    BY TopFacts
  <2> QED BY <2>1 DEF StandsAt, TopWork
<1> HIDE DEF w, T, grown
<1> QED BY <1>3, <1>5, <1>6, <1>7 DEF StandsAt, T

(* A position of the innermost block, moved on.                            *)
LEMMA AdvancedNext ==
  ASSUME TypeOK
  PROVE  \A i \in 1 .. Len(scopes) : \A b \in 1 .. Len(scopes[i].blocks) :
           Advanced[i].blocks[b].next =
             IF i = Len(scopes) /\ b = Top THEN Block.next + 1 ELSE scopes[i].blocks[b].next
<1> DEFINE n == Len(scopes)
           b1 == [Block EXCEPT !.next = @ + 1]
           q1 == [Scope.blocks EXCEPT ![Top] = b1]
           s1 == [Scope EXCEPT !.blocks = q1]
<1>1. Advanced = [scopes EXCEPT ![n] = s1]
  BY DEF Advanced, Scope, Block, Top
<1>2. b1.next = Block.next + 1
  BY BlockFacts DEF BlockType
<1>3. \A b \in 1 .. Len(Scope.blocks) : q1[b] = IF b = Top THEN b1 ELSE Scope.blocks[b]
  <2> HIDE DEF b1
  <2> QED BY BlockFacts
<1>4. s1.blocks = q1
  <2> HIDE DEF q1
  <2> QED BY BlockFacts DEF ScopeType
<1> HIDE DEF s1, b1, q1
<1>5. \A i \in 1 .. n : Advanced[i] = IF i = n THEN s1 ELSE scopes[i]
  BY <1>1, ScopeFacts DEF TypeOK
<1> QED BY <1>2, <1>3, <1>4, <1>5 DEF Scope, Top

(* A block that is not the innermost, when others may have been opened.    *)
Keeps(env, trees, env2, trees2) ==
  /\ Len(scopes') \in Nat /\ Len(scopes) <= Len(scopes')
  /\ \A i \in 1 .. Len(scopes) :
       /\ scopes'[i].key = scopes[i].key
       /\ env2[i] = env[i]
       /\ Len(scopes'[i].blocks) \in Nat
       /\ Len(scopes[i].blocks) <= Len(scopes'[i].blocks)
       /\ i < Len(scopes) => Len(scopes'[i].blocks) = Len(scopes[i].blocks)
       /\ \A b \in 1 .. Len(scopes[i].blocks) :
            /\ trees2[i][b] = trees[i][b]
            /\ scopes'[i].blocks[b].saved = scopes[i].blocks[b].saved
            /\ scopes'[i].blocks[b].code = scopes[i].blocks[b].code
            /\ scopes'[i].blocks[b].next =
                 IF i = Len(scopes) /\ b = Top THEN Block.next + 1 ELSE scopes[i].blocks[b].next

LEMMA OuterSame ==
  ASSUME IInv, NEW env, NEW trees, NEW env2, NEW trees2, TreesStand(env, trees), program' = program,
         Keeps(env, trees, env2, trees2),
         NEW s \in 1 .. Len(scopes), NEW b \in 1 .. Len(scopes[s].blocks), ~ (s = Len(scopes) /\ b = Top)
  PROVE  StandsAt(env2, trees2, s, b)'
<1> DEFINE n == Len(scopes)
<1>1. n \in Nat \ {0} /\ Top = Len(scopes[n].blocks) /\ \A i \in 1 .. n : Len(scopes[i].blocks) \in Nat \ {0}
  BY ScopeFacts DEF IInv, Top, Scope
<1>2. StandsAt(env, trees, s, b)
  BY DEF TreesStand
<1>3. \A i \in 2 .. s : scopes'[i].key = scopes[i].key
  <2>1. \A i \in 2 .. s : i \in 1 .. n
    BY <1>1
  <2> QED BY <2>1 DEF Keeps
<1>4. /\ env2[s] = env[s] /\ trees2[s][b] = trees[s][b]
      /\ scopes'[s].blocks[b].code = scopes[s].blocks[b].code
      /\ scopes'[s].blocks[b].next = scopes[s].blocks[b].next
  BY DEF Keeps
<1>5. CASE b < Len(scopes[s].blocks)
  <2>1. b < Len(scopes'[s].blocks) /\ b + 1 \in 1 .. Len(scopes[s].blocks)
    BY <1>1, <1>5 DEF Keeps
  <2>2. scopes'[s].blocks[b + 1].saved = scopes[s].blocks[b + 1].saved /\ trees2[s][b + 1] = trees[s][b + 1]
    BY <2>1 DEF Keeps
  <2> QED BY <1>2, <1>3, <1>4, <1>5, <2>1, <2>2, InnerSame
<1>6. CASE ~ (b < Len(scopes[s].blocks))
  <2>1. b = Len(scopes[s].blocks)
    BY <1>1, <1>6
  <2>2. s < n /\ s + 1 \in 1 .. n
    BY <1>1, <2>1
  <2>3. ~ (b < Len(scopes'[s].blocks)) /\ s < Len(scopes')
    BY <1>1, <2>1, <2>2 DEF Keeps
  <2>4. 1 \in 1 .. Len(scopes[s + 1].blocks)
    BY <1>1, <2>2
  <2>5. scopes'[s + 1].blocks[1].saved = scopes[s + 1].blocks[1].saved /\ trees2[s + 1][1] = trees[s + 1][1]
    BY <2>2, <2>4 DEF Keeps
  <2> QED BY <1>2, <1>3, <1>4, <1>6, <2>2, <2>3, <2>5, InnerSame
<1> QED BY <1>5, <1>6

(* The steps that only move on in the innermost block: assignments, and    *)
(* what compiles to nothing.                                               *)
LEMMA TreesMoveOn ==
  ASSUME IInv, IsFiniteSet(DOMAIN Builtins), NEW levels, Nesting(levels),
         NEW env \in Environments, NEW trees, TreesStand(env, trees),
         program' = program, current' = current, scopes' = Advanced, InBlock,
         nodes' = AfterFirst(program, Trees(program), TopWork(env))
  PROVE  TreesStand(env, trees)'
<1> DEFINE n == Len(scopes)
<1>1. TypeOK /\ n \in Nat \ {0}
  BY ScopeFacts DEF IInv
<1>2. /\ Len(scopes') = n
      /\ \A i \in 1 .. n : /\ scopes'[i].key = scopes[i].key
                           /\ Len(scopes'[i].blocks) = Len(scopes[i].blocks)
                           /\ Len(scopes[i].blocks) \in Nat \ {0}
                           /\ \A b \in 1 .. Len(scopes[i].blocks) :
                                /\ scopes'[i].blocks[b].saved = scopes[i].blocks[b].saved
                                /\ scopes'[i].blocks[b].code = scopes[i].blocks[b].code
                                /\ scopes'[i].blocks[b].next =
                                     IF i = n /\ b = Top THEN Block.next + 1 ELSE scopes[i].blocks[b].next
  BY <1>1, AdvancedFacts, AdvancedNext, ScopeFacts
<1>3. Meaning(program)' = Meaning(program)
  BY MeaningSame
<1>4. ASSUME NEW s \in 1 .. n, NEW b \in 1 .. Len(scopes[s].blocks)
      PROVE  StandsAt(env, trees, s, b)'
  <2>0. StandsAt(env, trees, s, b)
    BY DEF TreesStand
  <2>1. \A i \in 2 .. s : scopes'[i].key = scopes[i].key
    BY <1>1, <1>2
  <2>2. CASE s = n /\ b = Top
    <3>1. Into(s, b)' = current /\ GoesOn(trees, s, b)' = nodes'
      <4>1. ~ (b < Len(scopes'[s].blocks)) /\ ~ (s < Len(scopes'))
        BY <1>1, <1>2, <2>2, TopFacts
      <4> QED BY <4>1 DEF Into, GoesOn
    <3>2. scopes'[s].blocks[b].code = Block.code /\ scopes'[s].blocks[b].next = Block.next + 1
      BY <1>2, <2>2, TopFacts
    <3>3. StandsAt(env, trees, Len(scopes), Top)
      BY <2>0, <2>2
    <3>4. Block.next <= Len(Block.code)
      BY DEF InBlock
    <3> QED BY <2>1, <2>2, <3>1, <3>2, <3>3, <3>4, MoveOn
  <2>3. CASE ~ (s = n /\ b = Top)
    <3>1. Keeps(env, trees, env, trees)
      <4>1. Len(scopes') \in Nat /\ Len(scopes) <= Len(scopes')
        BY <1>1, <1>2
      <4> QED BY <1>2, <4>1 DEF Keeps
    <3> QED BY <2>3, <3>1, OuterSame
  <2> QED BY <2>2, <2>3
<1>5. \A s \in 1 .. Len(scopes') : \A b \in 1 .. Len(scopes'[s].blocks) : StandsAt(env, trees, s, b)'
  <2> HIDE DEF n
  <2> QED BY <1>2, <1>4
<1> QED BY <1>3, <1>5 DEF TreesStand

LEMMA HeadIs ==
  ASSUME IInv, InBlock, NEW env \in Environments
  PROVE  TopWork(env).code # <<>> /\ Head(TopWork(env).code) = Current
<1> DEFINE q == Block.code
           k == Block.next
           code == TopWork(env).code
<1>1. q \in Seq(Item) /\ k \in Nat \ {0} /\ k <= Len(q)
  BY BlockFacts DEF IInv, InBlock
<1>2. code = From(q, k)
  BY TopFacts
<1>3. Current = q[k]
  BY DEF Current
<1> HIDE DEF q, k, code
<1>4. From(q, k) # <<>> /\ Head(From(q, k)) = q[k]
  BY <1>1, FromFacts
<1>5. code # <<>> /\ Head(code) = Current
  BY <1>2, <1>3, <1>4
<1> QED BY <1>5 DEF code

LEMMA InsideIs ==
  ASSUME NEW p, NEW w \in Work, NEW c, c = Head(w.code)
  PROVE  /\ InsideCall(p, w) =
              [code |-> MacroOf(p, c.key).body.content,
               env |-> Environment(MacroOf(p, c.key).args, c.args, w.env),
               open |-> w.open \cup {c.key}, tree |-> w.tree, node |-> w.node]
         /\ InsideRule(p, w) =
              [code |-> c.body, env |-> w.env, open |-> w.open,
               tree |-> Grown(w.tree, w.node, SelectorsIn(p, c, w.open)), node |-> Len(w.tree) + 1]
<1>1. PICK code, e, o, t, n : w = [code |-> code, env |-> e, open |-> o, tree |-> t, node |-> n]
  BY DEF Work
<1>2. w.env = e /\ w.open = o /\ w.tree = t /\ w.node = n
  BY <1>1
<1>3. PICK x, y, z : /\ x = MacroOf(p, c.key).body.content
                     /\ y = Environment(MacroOf(p, c.key).args, c.args, w.env)
                     /\ z = w.open \cup {c.key}
  OBVIOUS
<1>4. PICK body, grown, last : /\ body = c.body
                               /\ grown = Grown(w.tree, w.node, SelectorsIn(p, c, w.open))
                               /\ last = Len(w.tree) + 1
  OBVIOUS
<1> DEFINE u0 == [w EXCEPT !.code = x]
           u1 == [u0 EXCEPT !.env = y]
           u2 == [u1 EXCEPT !.open = z]
           r0 == [w EXCEPT !.code = body]
           r1 == [r0 EXCEPT !.tree = grown]
           r2 == [r1 EXCEPT !.node = last]
<1>5. /\ u0 = [code |-> x, env |-> e, open |-> o, tree |-> t, node |-> n]
      /\ r0 = [code |-> body, env |-> e, open |-> o, tree |-> t, node |-> n]
  BY <1>1
<1>6. InsideCall(p, w) = u2 /\ InsideRule(p, w) = r2
  BY <1>3, <1>4, Zenon DEF InsideCall, InsideRule
<1> HIDE DEF u0, r0
<1>7. /\ u1 = [code |-> x, env |-> y, open |-> o, tree |-> t, node |-> n]
      /\ r1 = [code |-> body, env |-> e, open |-> o, tree |-> grown, node |-> n]
  BY <1>5
<1> HIDE DEF u1, r1
<1>8. /\ u2 = [code |-> x, env |-> y, open |-> z, tree |-> t, node |-> n]
      /\ r2 = [code |-> body, env |-> e, open |-> o, tree |-> grown, node |-> last]
  BY <1>7
<1> HIDE DEF u2, r2
<1> QED BY <1>2, <1>3, <1>4, <1>6, <1>8, Zenon

(* What stands for the arguments, in the scope a call opens.               *)
LEMMA EnvironmentsExpand ==
  ASSUME IInv, IInv', ExpandCall, NEW env \in Environments, EnvironmentsStand(env),
         NEW env2 \in Environments,
         env2 = [env EXCEPT ![Len(scopes) + 1] = Environment(Resolve(Current.key).args, Current.args, env[Len(scopes)])]
  PROVE  EnvironmentsStand(env2)'
<1> DEFINE n == Len(scopes)
           args == Resolve(Current.key).args
           values == Current.args
<1>1. TypeOK /\ ArgumentsPointOutward /\ n \in Nat \ {0} /\ Len(bindings) = n
  BY ScopeFacts DEF IInv, ArgumentsPointOutward
<1>2. /\ bindings' = Append(bindings, Frame(args, values))
      /\ bindings \in Seq([Name -> BoundArg])
  BY <1>1 DEF ExpandCall, TypeOK
<1>3. args \in Seq(Name)
  BY <1>1, ResolveType DEF Macro
<1>4. values \in Seq(Expr)
  BY <1>1, BlockFacts, ItemAssumption DEF ExpandCall, InBlock
<1> HIDE DEF args, values
<1>5. Frame(args, values) \in [Name -> BoundArg]
  BY <1>1, <1>3, <1>4, FrameType
<1>6. /\ DOMAIN bindings' = 1 .. n + 1
      /\ \A d \in 1 .. n : bindings'[d] = bindings[d]
      /\ bindings'[n + 1] = Frame(args, values)
  <2> DEFINE f == Frame(args, values)
  <2> HIDE DEF f
  <2>1. f \in [Name -> BoundArg] /\ bindings' = Append(bindings, f)
    BY <1>2, <1>5 DEF f
  <2>2. DOMAIN bindings' = 1 .. n + 1 /\ (\A d \in 1 .. n : bindings'[d] = bindings[d]) /\ bindings'[n + 1] = f
    BY <1>1, <1>2, <2>1
  <2> QED BY <2>2 DEF f
<1>7. /\ env2[n + 1] = Environment(args, values, env[n])
      /\ \A d \in 0 .. n : env2[d] = env[d]
  BY <1>1 DEF Environments, args, values
<1> HIDE DEF n
<1> SUFFICES ASSUME NEW d \in 1 .. n + 1, NEW m \in Name
             PROVE  env2[d][m] = IF bindings'[d][m] = Unbound THEN NilExpr
                                 ELSE Substitute(bindings'[d][m].construct, env2[d - 1])
  BY <1>6, Zenon DEF EnvironmentsStand, Unbound, Substitute
<1>8. CASE d \in 1 .. n
  <2>1. env2[d] = env[d] /\ env2[d - 1] = env[d - 1] /\ bindings'[d] = bindings[d] /\ d \in DOMAIN bindings
    BY <1>1, <1>2, <1>6, <1>7, <1>8
  <2>2. env[d][m] = IF bindings[d][m] = Unbound THEN NilExpr ELSE Substitute(bindings[d][m].construct, env[d - 1])
    BY <2>1 DEF EnvironmentsStand
  <2> QED BY <2>1, <2>2
<1>9. CASE d = n + 1
  <2> DEFINE at == {i \in DOMAIN args \cap DOMAIN values : args[i] = m}
             x == values[CHOOSE i \in at : \A j \in at : j <= i]
  <2>1. Frame(args, values)[m] = IF at = {} THEN Unbound ELSE [construct |-> x, scope |-> n]
    BY <1>1 DEF Frame
  <2>2. Environment(args, values, env[n])[m] = IF at = {} THEN NilExpr ELSE Substitute(x, env[n])
    BY DEF Environment
  <2> HIDE DEF at, x
  <2>3. [construct |-> x, scope |-> n] # Unbound
    BY <1>1 DEF Unbound
  <2>4. env2[d - 1] = env[n] /\ bindings'[d] = Frame(args, values) /\ env2[d] = Environment(args, values, env[n])
    <3>1. d - 1 = n /\ n \in 0 .. n
      BY <1>1, <1>9
    <3> QED BY <1>6, <1>7, <1>9, <3>1
  <2> QED BY <2>1, <2>2, <2>3, <2>4
<1> QED BY <1>1, <1>8, <1>9

(* A call opens a scope, whose block results in what the call stands for.  *)
LEMMA TreesExpand ==
  ASSUME IInv, IInv', IsFiniteSet(DOMAIN Builtins), NEW levels, Nesting(levels), ExpandCall,
         NEW env \in Environments, NEW trees \in Results, TreesStand(env, trees),
         NEW env2 \in Environments, NEW trees2 \in Results,
         env2 = [env EXCEPT ![Len(scopes) + 1] = Environment(Resolve(Current.key).args, Current.args, env[Len(scopes)])],
         trees2 = [trees EXCEPT ![Len(scopes) + 1] =
                    [@ EXCEPT ![1] = AfterFirst(program, Trees(program), TopWork(env))]]
  PROVE  TreesStand(env2, trees2)'
<1>0. PICK n, top, w, macro, key : /\ n = Len(scopes) /\ top = Top /\ w = TopWork(env)
                                    /\ macro = Resolve(Current.key) /\ key = Current.key
  OBVIOUS
<1>a. PICK frame, grown : /\ frame = Environment(macro.args, Current.args, env[n])
                          /\ grown = AfterFirst(program, Trees(program), w)
  OBVIOUS
<1>1. TypeOK /\ n \in Nat \ {0} /\ InBlock /\ program' = program /\ lists = <<>> /\ lists' = <<>>
      /\ Current.kind = "call" /\ Expandable(key)
  BY <1>0, ScopeFacts DEF IInv, ExpandCall, InBlock
<1>2. /\ w \in Work /\ w.env = env[n] /\ w.open = OpenAt(n) /\ w.tree = nodes /\ w.node = current
      /\ w.code # <<>> /\ Head(w.code) = Current
  BY <1>0, <1>1, TopFacts, HeadIs
<1>3. MacroOf(program, key) = macro /\ active = OpenAt(n)
  <2>1. n \in 1 .. Len(scopes)
    BY <1>0, <1>1
  <2> QED BY <1>0, <1>1, <2>1, MacroOfResolve, OpenType DEF IInv
<1>4. grown = Trees(program)[InsideCall(program, w)]
  <2>1. Expands(program, w)
    BY <1>0, <1>1, <1>2, <1>3 DEF Expands, Expandable
  <2> QED BY <1>a, <2>1, FirstCases
<1>5. InsideCall(program, w) =
        [code |-> macro.body.content, env |-> frame, open |-> OpenAt(n) \cup {key}, tree |-> nodes, node |-> current]
  <2>1. PICK c : c = Current /\ c = Head(w.code) /\ c.key = key
    BY <1>0, <1>2
  <2>2. InsideCall(program, w) =
          [code |-> MacroOf(program, c.key).body.content,
           env |-> Environment(MacroOf(program, c.key).args, c.args, w.env),
           open |-> w.open \cup {c.key}, tree |-> w.tree, node |-> w.node]
    BY <1>2, <2>1, InsideIs
  <2> QED BY <1>a, <1>2, <1>3, <2>1, <2>2
<1>6. /\ env2[n + 1] = frame /\ \A i \in 1 .. n : env2[i] = env[i]
      /\ trees2[n + 1][1] = grown /\ \A i \in 1 .. n : trees2[i] = trees[i]
  <2>0. PICK m : m = n + 1
    OBVIOUS
  <2>a. m \in Nat /\ \A i \in 1 .. n : i \in Nat /\ i # m
    BY <1>1, <2>0
  <2>1. trees \in [Nat -> [Nat -> Seq(TreeNode)]] /\ trees[m] \in [Nat -> Seq(TreeNode)] /\ env \in [Nat -> [Name -> Expr]]
    BY <2>a DEF Results, Environments
  <2>2. env2 = [env EXCEPT ![m] = frame] /\ trees2 = [trees EXCEPT ![m] = [trees[m] EXCEPT ![1] = grown]]
    BY <1>0, <1>a, <2>0
  <2>3. env2[m] = frame /\ \A i \in 1 .. n : env2[i] = env[i]
    BY <2>a, <2>1, <2>2
  <2>4. PICK r : r = [trees[m] EXCEPT ![1] = grown]
    OBVIOUS
  <2>5. r[1] = grown
    BY <2>1, <2>4
  <2>6. trees2 = [trees EXCEPT ![m] = r]
    BY <2>2, <2>4
  <2>7. trees2[m] = r /\ \A i \in 1 .. n : trees2[i] = trees[i]
    BY <2>a, <2>1, <2>6
  <2> QED BY <2>0, <2>3, <2>5, <2>7
<1>7. Keeps(env, trees, env2, trees2) /\ Len(scopes') = n + 1
  <2>1. Len(scopes') = n + 1 /\ \A i \in 1 .. n : scopes'[i] = Advanced[i]
    BY <1>0, <1>1, ExpandFacts
  <2>2. /\ Len(scopes') \in Nat /\ Len(scopes) <= Len(scopes')
        /\ \A i \in 1 .. n : /\ Len(Advanced[i].blocks) = Len(scopes[i].blocks)
                             /\ Len(scopes[i].blocks) \in Nat
    BY <1>0, <1>1, <2>1, AdvancedFacts, ScopeFacts
  <2>3. \A i \in 1 .. n : /\ Len(scopes'[i].blocks) \in Nat
                          /\ Len(scopes[i].blocks) <= Len(scopes'[i].blocks)
                          /\ i < n => Len(scopes'[i].blocks) = Len(scopes[i].blocks)
    BY <1>0, <2>1, <2>2
  <2> QED BY <1>0, <1>1, <1>6, <2>1, <2>2, <2>3, AdvancedFacts, AdvancedNext DEF Keeps
<1>8. /\ Len(scopes'[n + 1].blocks) = 1
      /\ scopes'[n + 1].blocks[1] = [code |-> macro.body.content, next |-> 1, saved |-> current]
      /\ scopes'[n + 1].key = key /\ current' = current /\ nodes' = nodes
  <2>0. PICK blk : blk = [code |-> macro.body.content, next |-> 1, saved |-> current]
    OBVIOUS
  <2>1. scopes'[n + 1].blocks = <<blk>> /\ scopes'[n + 1].key = key
    BY <1>0, <2>0, <1>1, ExpandFacts
  <2>2. Len(<<blk>>) = 1 /\ <<blk>>[1] = blk
    OBVIOUS
  <2> QED BY <1>0, <2>0, <2>1, <2>2 DEF ExpandCall
<1>9. OpenAt(n + 1)' = OpenAt(n) \cup {key}
  <2>1. 2 .. n + 1 = (2 .. n) \cup {n + 1}
    BY <1>0, <1>1
  <2>2. \A i \in 2 .. n : scopes'[i].key = scopes[i].key
    BY <1>0, <1>1, <1>7 DEF Keeps
  <2>3. {scopes'[i].key : i \in 2 .. n + 1} = {scopes'[i].key : i \in 2 .. n} \cup {scopes'[n + 1].key}
    BY <1>0, <2>1
  <2> QED BY <1>0, <1>8, <2>2, <2>3 DEF OpenAt
<1>10. Trees(program)' = Trees(program) /\ Meaning(program)' = Meaning(program)
  BY <1>0, <1>1, MeaningSame
<1>11. StandsAt(env2, trees2, n + 1, 1)'
  <2>1. Into(n + 1, 1)' = current /\ GoesOn(trees2, n + 1, 1)' = nodes
    BY <1>0, <1>1, <1>7, <1>8 DEF Into, GoesOn
  <2>2. From(scopes'[n + 1].blocks[1].code, scopes'[n + 1].blocks[1].next) = macro.body.content
    <3>0. PICK q : q = macro.body.content
      OBVIOUS
    <3>1. q \in Seq(Item)
      BY <1>0, <1>1, <3>0, ResolveType DEF Expandable, Macro, Body, NoBody
    <3>2. From(q, 1) = q
      BY <3>1, FromFacts
    <3> QED BY <1>8, <3>0, <3>2
  <2>3. WorkOf(n + 1, 1, env2[n + 1], GoesOn(trees2, n + 1, 1))' = InsideCall(program, w)
    <3>1. From(scopes[n + 1].blocks[1].code, scopes[n + 1].blocks[1].next)' = macro.body.content
      BY <1>0, <2>2 DEF From
    <3> QED BY <1>0, <1>5, <1>6, <1>8, <1>9, <2>1, <3>1 DEF WorkOf
  <2> QED BY <1>0, <1>4, <1>6, <1>10, <2>3 DEF StandsAt
<1>12. StandsAt(env2, trees2, n, top)'
  <2>1. StandsAt(env, trees, n, top) /\ top \in 1 .. Len(scopes[n].blocks) /\ n \in 1 .. n
    BY <1>0, <1>1, TopFacts DEF TreesStand
  <2>2. /\ scopes'[n].blocks[top].code = Block.code /\ scopes'[n].blocks[top].next = Block.next + 1
        /\ \A i \in 2 .. n : scopes'[i].key = scopes[i].key
        /\ env2[n] = env[n] /\ trees2[n][top] = trees[n][top]
    <3>1. Block = scopes[n].blocks[top] /\ \A i \in 2 .. n : i \in 1 .. n
      BY <1>0, <1>1, TopFacts
    <3> QED BY <1>0, <1>7, <2>1, <3>1 DEF Keeps
  <2>3. Into(n, top)' = current /\ GoesOn(trees2, n, top)' = grown
    <3>1. ~ (top < Len(scopes'[n].blocks)) /\ n < Len(scopes')
      <4>1. Len(scopes'[n].blocks) = top /\ top \in Nat
        <5>1. scopes'[n] = Advanced[n]
          BY <1>0, <1>1, <2>1, ExpandFacts
        <5> QED BY <1>0, <1>1, <2>1, <5>1, AdvancedFacts, TopFacts
      <4> QED BY <1>0, <1>1, <1>7, <4>1
    <3>2. scopes'[n + 1].blocks[1].saved = current
      BY <1>0, <1>8
    <3> QED BY <1>0, <1>6, <3>1, <3>2 DEF Into, GoesOn
  <2>4. Block.next <= Len(Block.code)
    BY <1>1 DEF InBlock
  <2> QED BY <1>0, <1>a, <1>1, <2>1, <2>2, <2>3, <2>4, MoveOn
<1>13. \A s \in 1 .. Len(scopes') : \A b \in 1 .. Len(scopes'[s].blocks) : StandsAt(env2, trees2, s, b)'
  <2> TAKE s \in 1 .. Len(scopes')
  <2> TAKE b \in 1 .. Len(scopes'[s].blocks)
  <2>1. CASE s = n + 1
    <3>1. b = 1
      <4>1. Len(scopes'[s].blocks) = 1
        BY <1>8, <2>1
      <4> QED BY <4>1
    <3> QED BY <1>0, <1>11, <2>1, <3>1
  <2>2. CASE s # n + 1
    <3>1. s \in 1 .. n
      BY <1>0, <1>1, <1>7, <2>2
    <3>2. b \in 1 .. Len(scopes[s].blocks)
      <4>1. scopes'[s] = Advanced[s]
        BY <1>0, <1>1, <3>1, ExpandFacts
      <4> QED BY <1>0, <1>1, <3>1, <4>1, AdvancedFacts
    <3>3. CASE s = n /\ b = top
      BY <1>0, <1>12, <3>3
    <3>4. CASE ~ (s = n /\ b = top)
      BY <1>0, <1>1, <1>7, <3>1, <3>2, <3>4, OuterSame
    <3> QED BY <1>0, <3>3, <3>4
  <2> QED BY <1>0, <2>1, <2>2
<1>14. trees2[1][1] = Meaning(program)'
  <2>1. 1 \in 1 .. n
    BY <1>0, <1>1
  <2> QED BY <1>0, <1>6, <1>10, <2>1 DEF TreesStand
<1> QED BY <1>0, <1>13, <1>14 DEF TreesStand

(* A rule's node is added and its body opened: a block that results in     *)
(* what the rule stands for.                                               *)
LEMMA TreesAddRule ==
  ASSUME IInv, IInv', IsFiniteSet(DOMAIN Builtins), NEW levels, Nesting(levels), AddRule,
         Trimmed = SelectorsIn(program, Current, OpenAt(Len(scopes))),
         NEW env \in Environments, NEW trees \in Results, TreesStand(env, trees),
         NEW trees2 \in Results,
         trees2 = [trees EXCEPT ![Len(scopes)] =
                    [@ EXCEPT ![Top + 1] = AfterFirst(program, Trees(program), TopWork(env))]]
  PROVE  TreesStand(env, trees2)'
<1>0. PICK n, top, w, c, new : /\ n = Len(scopes) /\ top = Top /\ w = TopWork(env) /\ c = Current
                               /\ new = Len(nodes) + 1
  OBVIOUS
<1>a. PICK grown : grown = AfterFirst(program, Trees(program), w)
  OBVIOUS
<1>b. /\ n \in Nat \ {0} /\ n \in 1 .. Len(scopes) /\ top \in Nat \ {0} /\ top \in 1 .. Len(scopes[n].blocks)
      /\ top = Len(scopes[n].blocks) /\ Block = scopes[n].blocks[top]
  BY <1>0, TopFacts
<1>1. /\ TypeOK /\ program' = program /\ lists # <<>> /\ Block.next <= Len(Block.code) /\ c.kind = "rule"
      /\ c.body \in Seq(Item)
  <2>0. Len(lists) = 1 /\ program' = program
    BY DEF AddRule
  <2>1. lists # <<>> /\ program' = program
    BY <2>0
  <2> QED BY <1>0, <2>1, BlockFacts, ItemAssumption DEF IInv, TypeOK
<1>2. /\ w \in Work /\ w.code = From(Block.code, Block.next)
      /\ w.env = env[n] /\ w.open = OpenAt(n) /\ w.tree = nodes /\ w.node = current
  BY <1>0, TopFacts
<1>3. w.code # <<>> /\ Head(w.code) = c /\ Tail(w.code) = From(Block.code, Block.next + 1)
  <2>1. PICK q, k : q = Block.code /\ k = Block.next
    OBVIOUS
  <2>2. q \in Seq(Item) /\ k \in Nat \ {0} /\ k <= Len(q) /\ c = q[k]
    BY <1>0, <1>1, <2>1, BlockFacts DEF Current
  <2>3. From(q, k) # <<>> /\ Head(From(q, k)) = q[k] /\ Tail(From(q, k)) = From(q, k + 1)
    BY <2>2, FromFacts
  <2> QED BY <1>2, <2>1, <2>2, <2>3
<1>4. grown = Trees(program)[InsideRule(program, w)]
  BY <1>a, <1>1, <1>3, FirstCases
<1>5. nodes' = Grown(nodes, current, Trimmed) /\ current' = new
  BY <1>0 DEF AddRule, Grown
<1>6. InsideRule(program, w) =
        [code |-> c.body, env |-> env[n], open |-> OpenAt(n), tree |-> nodes', node |-> new]
  <2>1. InsideRule(program, w) =
          [code |-> c.body, env |-> w.env, open |-> w.open,
           tree |-> Grown(w.tree, w.node, SelectorsIn(program, c, w.open)), node |-> Len(w.tree) + 1]
    BY <1>2, <1>3, InsideIs
  <2> QED BY <1>0, <1>2, <1>5, <2>1, Zenon
<1>7. /\ trees2[n][top + 1] = grown /\ \A b \in 1 .. top : trees2[n][b] = trees[n][b]
      /\ \A i \in 1 .. n : i # n => trees2[i] = trees[i]
  <2>0. PICK m : m = top + 1
    OBVIOUS
  <2>1. m \in Nat /\ (\A b \in 1 .. top : b \in Nat /\ b # m) /\ n \in Nat
    BY <1>b, <2>0
  <2>2. trees \in [Nat -> [Nat -> Seq(TreeNode)]] /\ trees[n] \in [Nat -> Seq(TreeNode)]
    BY <2>1 DEF Results
  <2>3. PICK r : r = [trees[n] EXCEPT ![m] = grown]
    OBVIOUS
  <2>4. r[m] = grown /\ \A b \in 1 .. top : r[b] = trees[n][b]
    BY <2>1, <2>2, <2>3
  <2>5. trees2 = [trees EXCEPT ![n] = r]
    BY <1>0, <1>a, <2>0, <2>3
  <2>a. \A i \in 1 .. n : i \in Nat
    BY <1>b
  <2>6. trees2[n] = r /\ \A i \in 1 .. n : i # n => trees2[i] = trees[i]
    BY <2>a, <2>1, <2>2, <2>5
  <2> QED BY <2>0, <2>4, <2>6
<1>8. PICK blk : blk = [code |-> c.body, next |-> 1, saved |-> current]
  OBVIOUS
<1>9. /\ Len(scopes') = n
      /\ \A i \in 1 .. n : scopes'[i].key = scopes[i].key /\ (i < n => scopes'[i] = Advanced[i])
      /\ scopes'[n].blocks = Append(Advanced[n].blocks, blk)
  BY <1>0, <1>1, <1>8, AddRuleFacts
<1>10. /\ Len(scopes'[n].blocks) = top + 1
       /\ \A b \in 1 .. top : scopes'[n].blocks[b] = Advanced[n].blocks[b]
       /\ scopes'[n].blocks[top + 1] = blk
  <2>1. Advanced[n].blocks \in Seq(BlockType) /\ Len(Advanced[n].blocks) = top
    BY <1>b, <1>1, AdvancedFacts
  <2>2. blk \in BlockType
    BY <1>0, <1>1, <1>8, AddRuleFacts
  <2> QED BY <1>9, <2>1, <2>2, AppendFacts
<1>11. Keeps(env, trees, env, trees2)
  <2>1. Len(scopes') \in Nat /\ Len(scopes) <= Len(scopes')
    BY <1>0, <1>b, <1>9
  <2>2. \A i \in 1 .. n : /\ Len(scopes'[i].blocks) \in Nat
                          /\ Len(scopes[i].blocks) <= Len(scopes'[i].blocks)
                          /\ i < n => Len(scopes'[i].blocks) = Len(scopes[i].blocks)
    <3> TAKE i \in 1 .. n
    <3>1. Len(Advanced[i].blocks) = Len(scopes[i].blocks) /\ Len(scopes[i].blocks) \in Nat
      BY <1>0, <1>1, AdvancedFacts, ScopeFacts
    <3>2. CASE i < n
      BY <1>9, <3>1, <3>2
    <3>3. CASE i = n
      BY <1>b, <1>10, <3>3
    <3> QED BY <1>b, <3>2, <3>3
  <2>3. \A i \in 1 .. n : \A b \in 1 .. Len(scopes[i].blocks) :
          scopes'[i].blocks[b] = Advanced[i].blocks[b] /\ trees2[i][b] = trees[i][b]
    <3> TAKE i \in 1 .. n
    <3> TAKE b \in 1 .. Len(scopes[i].blocks)
    <3>1. CASE i = n
      BY <1>b, <1>7, <1>10, <3>1
    <3>2. CASE i < n
      BY <1>b, <1>7, <1>9, <3>2
    <3> QED BY <1>b, <3>1, <3>2
  <2>4. \A i \in 1 .. n : \A b \in 1 .. Len(scopes[i].blocks) :
          /\ trees2[i][b] = trees[i][b]
          /\ scopes'[i].blocks[b].saved = scopes[i].blocks[b].saved
          /\ scopes'[i].blocks[b].code = scopes[i].blocks[b].code
          /\ scopes'[i].blocks[b].next = IF i = n /\ b = top THEN Block.next + 1 ELSE scopes[i].blocks[b].next
    <3> TAKE i \in 1 .. n
    <3> TAKE b \in 1 .. Len(scopes[i].blocks)
    <3>1. scopes'[i].blocks[b] = Advanced[i].blocks[b] /\ trees2[i][b] = trees[i][b]
      BY <2>3
    <3>2. i \in 1 .. Len(scopes)
      BY <1>0
    <3>3. Advanced[i].blocks[b].saved = scopes[i].blocks[b].saved /\ Advanced[i].blocks[b].code = scopes[i].blocks[b].code
      BY <1>1, <3>2, AdvancedFacts
    <3>4. Advanced[i].blocks[b].next = IF i = n /\ b = top THEN Block.next + 1 ELSE scopes[i].blocks[b].next
      BY <1>0, <1>1, <3>2, AdvancedNext
    <3> QED BY <3>1, <3>3, <3>4
  <2>5. \A i \in 1 .. n : scopes'[i].key = scopes[i].key
    BY <1>9
  <2> QED BY <1>0, <2>1, <2>2, <2>4, <2>5 DEF Keeps
<1>12. Trees(program)' = Trees(program) /\ Meaning(program)' = Meaning(program)
  BY <1>1, MeaningSame
<1>13. OpenAt(n)' = OpenAt(n)
  <2>1. \A i \in 2 .. n : scopes'[i].key = scopes[i].key
    BY <1>b, <1>9
  <2> QED BY <2>1 DEF OpenAt
<1>14. StandsAt(env, trees2, n, top + 1)'
  <2>1. Into(n, top + 1)' = new /\ GoesOn(trees2, n, top + 1)' = nodes'
    <3>1. ~ (top + 1 < Len(scopes'[n].blocks)) /\ ~ (n < Len(scopes'))
      BY <1>b, <1>9, <1>10
    <3> QED BY <1>5, <3>1 DEF Into, GoesOn
  <2>2. From(scopes'[n].blocks[top + 1].code, scopes'[n].blocks[top + 1].next) = c.body
    <3>1. PICK q : q = c.body
      OBVIOUS
    <3>2. From(q, 1) = q
      BY <1>1, <3>1, FromFacts
    <3> QED BY <1>8, <1>10, <3>1, <3>2
  <2>3. WorkOf(n, top + 1, env[n], GoesOn(trees2, n, top + 1))' = InsideRule(program, w)
    <3>1. From(scopes[n].blocks[top + 1].code, scopes[n].blocks[top + 1].next)' = c.body
      BY <2>2 DEF From
    <3> QED BY <1>6, <1>13, <2>1, <3>1 DEF WorkOf
  <2> QED BY <1>4, <1>7, <1>12, <2>3 DEF StandsAt
<1>15. StandsAt(env, trees2, n, top)'
  <2>1. StandsAt(env, trees, n, top)
    BY <1>b, <1>0 DEF TreesStand
  <2>2. /\ scopes'[n].blocks[top].code = Block.code /\ scopes'[n].blocks[top].next = Block.next + 1
        /\ \A i \in 2 .. n : scopes'[i].key = scopes[i].key
        /\ trees2[n][top] = trees[n][top]
    <3>1. \A i \in 2 .. n : i \in 1 .. n
      BY <1>b
    <3> QED BY <1>0, <1>b, <1>11, <3>1 DEF Keeps
  <2>3. Into(n, top)' = current /\ GoesOn(trees2, n, top)' = grown
    <3>1. top < Len(scopes'[n].blocks)
      BY <1>b, <1>10
    <3> QED BY <1>7, <1>8, <1>10, <3>1 DEF Into, GoesOn
  <2> QED BY <1>0, <1>a, <1>1, <1>3, <2>1, <2>2, <2>3, MoveOn
<1>16. \A s \in 1 .. Len(scopes') : \A b \in 1 .. Len(scopes'[s].blocks) : StandsAt(env, trees2, s, b)'
  <2> TAKE s \in 1 .. Len(scopes')
  <2> TAKE b \in 1 .. Len(scopes'[s].blocks)
  <2>0. s \in 1 .. n
    BY <1>9
  <2>1. CASE s = n /\ b = top + 1
    BY <1>14, <2>1
  <2>2. CASE ~ (s = n /\ b = top + 1)
    <3>2. b \in 1 .. Len(scopes[s].blocks)
      <4>1. CASE s = n
        <5>1. b \in 1 .. top + 1
          BY <1>10, <4>1
        <5> QED BY <1>b, <2>2, <4>1, <5>1
      <4>2. CASE s # n
        <5>1. scopes'[s] = Advanced[s]
          BY <1>b, <1>9, <2>0, <4>2
        <5>2. Len(scopes'[s].blocks) = Len(scopes[s].blocks)
          BY <1>0, <1>1, <2>0, <5>1, AdvancedFacts
        <5> QED BY <5>2
      <4> QED BY <4>1, <4>2
    <3>3. CASE s = n /\ b = top
      BY <1>15, <3>3
    <3>4. CASE ~ (s = n /\ b = top)
      BY <1>0, <1>1, <1>11, <2>0, <3>2, <3>4, OuterSame
    <3> QED BY <3>3, <3>4
  <2> QED BY <2>1, <2>2
<1>17. trees2[1][1] = Meaning(program)'
  <2>0. 1 \in 1 .. n /\ 1 \in 1 .. top
    BY <1>b
  <2>1. trees2[1][1] = trees[1][1]
    BY <1>7, <2>0
  <2> QED BY <1>12, <2>1 DEF TreesStand
<1> QED BY <1>16, <1>17 DEF TreesStand

(* A block at its end results in the tree as it is.                        *)
LEMMA EndResult ==
  ASSUME IInv, IsFiniteSet(DOMAIN Builtins), NEW levels, Nesting(levels),
         NEW env \in Environments, NEW trees, TreesStand(env, trees), ~ (Block.next <= Len(Block.code))
  PROVE  trees[Len(scopes)][Top] = nodes
<1> DEFINE w == TopWork(env)
           T == Trees(program)
<1>1. w \in Work /\ w.code = From(Block.code, Block.next) /\ w.tree = nodes
  BY TopFacts
<1>2. w.code = <<>>
  <2>1. PICK q, k : q = Block.code /\ k = Block.next
    OBVIOUS
  <2>2. q \in Seq(Item) /\ k \in Nat \ {0} /\ Len(q) \in Nat
    BY <2>1, BlockFacts DEF IInv
  <2>3. k > Len(q)
    BY <2>1, <2>2
  <2>4. From(q, k) = <<>>
    BY <2>2, <2>3, FromFacts
  <2> QED BY <1>1, <2>1, <2>4
<1>3. T[w] = nodes
  <2>1. program \in Programs
    BY DEF IInv, TypeOK
  <2>2. T[w] = TreesStep(program, T, w)
    BY <1>1, <2>1, TreesSolve
  <2> HIDE DEF T, w
  <2> QED BY <1>1, <1>2, <2>2 DEF TreesStep
<1>4. trees[Len(scopes)][Top] = T[w]
  <2>1. GoesOn(trees, Len(scopes), Top) = nodes /\ Len(scopes) \in 1 .. Len(scopes) /\ Top \in 1 .. Len(scopes[Len(scopes)].blocks)
    BY TopFacts
  <2>2. StandsAt(env, trees, Len(scopes), Top)
    BY <2>1 DEF TreesStand
  <2> QED BY <2>1, <2>2 DEF StandsAt, TopWork
<1> QED BY <1>3, <1>4

(* The block under one that ends goes on with the tree as it is, in the    *)
(* node it was compiled into before.                                       *)
LEMMA TreesEndCall ==
  ASSUME IInv, IInv', IsFiniteSet(DOMAIN Builtins), NEW levels, Nesting(levels), EndCall,
         NEW env \in Environments, NEW trees, TreesStand(env, trees)
  PROVE  TreesStand(env, trees)'
<1>0. PICK n : n = Len(scopes)
  OBVIOUS
<1>1. /\ TypeOK /\ n \in Nat /\ n > 1 /\ Len(scopes') = n - 1 /\ \A i \in 1 .. n - 1 : scopes'[i] = scopes[i]
      /\ program' = program /\ nodes' = nodes /\ current' = current
      /\ Len(Scope.blocks) = 1 /\ ~ (Block.next <= Len(Block.code))
  <2>1. TypeOK
    BY DEF IInv
  <2>2. Block.next > Len(Block.code)
    BY DEF EndCall
  <2>3. ~ (Block.next <= Len(Block.code))
    BY <2>1, <2>2, BlockFacts
  <2> QED BY <1>0, <2>1, <2>3, EndCallFacts DEF EndCall
<1>2. trees[n][1] = nodes /\ scopes[n].blocks[1].saved = current
  <2>1. Top = 1
    BY <1>1 DEF Top
  <2>2. trees[n][1] = nodes
    BY <1>0, <1>1, <2>1, EndResult
  <2>3. n \in 1 .. Len(scopes) /\ 1 \in 1 .. Len(scopes[n].blocks) /\ Into(n, 1) = current
    BY <1>0, <2>1, TopFacts
  <2>4. Into(n, 1) = scopes[n].blocks[1].saved
    BY <2>3, BlockPlace DEF IInv
  <2> QED BY <2>2, <2>3, <2>4
<1>3. ASSUME NEW s \in 1 .. n - 1, NEW b \in 1 .. Len(scopes[s].blocks)
      PROVE  StandsAt(env, trees, s, b)'
  <2>1. StandsAt(env, trees, s, b)
    <3>1. s \in 1 .. Len(scopes)
      BY <1>0, <1>1
    <3> QED BY <3>1 DEF TreesStand
  <2>2. scopes'[s] = scopes[s] /\ \A i \in 2 .. s : scopes'[i].key = scopes[i].key
    <3>1. \A i \in 2 .. s : i \in 1 .. n - 1
      BY <1>1
    <3> QED BY <1>1, <3>1
  <2>3. Len(scopes[s].blocks) \in Nat /\ s \in 1 .. Len(scopes)
    BY <1>0, <1>1, ScopeFacts
  <2>4. CASE b < Len(scopes[s].blocks)
    BY <1>1, <2>1, <2>2, <2>4, InnerSame
  <2>5. CASE ~ (b < Len(scopes[s].blocks)) /\ s < n - 1
    <3>1. s < Len(scopes) /\ s < Len(scopes') /\ s + 1 \in 1 .. n - 1
      BY <1>0, <1>1, <2>5
    <3>2. scopes'[s + 1] = scopes[s + 1]
      BY <1>1, <3>1
    <3> QED BY <1>1, <2>1, <2>2, <2>5, <3>1, <3>2, InnerSame
  <2>6. CASE ~ (b < Len(scopes[s].blocks)) /\ ~ (s < n - 1)
    <3>1. s + 1 = n /\ s < Len(scopes) /\ ~ (s < Len(scopes'))
      BY <1>0, <1>1, <2>6
    <3>2. Into(s, b) = current /\ GoesOn(trees, s, b) = nodes
      BY <1>2, <2>6, <3>1 DEF Into, GoesOn
    <3>3. Into(s, b)' = current /\ GoesOn(trees, s, b)' = nodes
      BY <1>1, <2>2, <2>6, <3>1 DEF Into, GoesOn
    <3> QED BY <1>1, <2>1, <2>2, <3>2, <3>3, StandsSame
  <2> QED BY <2>4, <2>5, <2>6
<1>4. \A s \in 1 .. Len(scopes') : \A b \in 1 .. Len(scopes'[s].blocks) : StandsAt(env, trees, s, b)'
  BY <1>1, <1>3
<1>5. Meaning(program)' = Meaning(program)
  BY <1>1, MeaningSame
<1> QED BY <1>4, <1>5 DEF TreesStand

LEMMA TreesEndRule ==
  ASSUME IInv, IInv', IsFiniteSet(DOMAIN Builtins), NEW levels, Nesting(levels), EndRule,
         NEW env \in Environments, NEW trees, TreesStand(env, trees)
  PROVE  TreesStand(env, trees)'
<1>0. PICK n, top : n = Len(scopes) /\ top = Top
  OBVIOUS
<1>1. /\ TypeOK /\ program' = program /\ nodes' = nodes /\ current' = Block.saved
      /\ ~ (Block.next <= Len(Block.code))
  <2>1. TypeOK
    BY DEF IInv
  <2>2. Block.next > Len(Block.code)
    BY DEF EndRule
  <2>3. ~ (Block.next <= Len(Block.code))
    BY <2>1, <2>2, BlockFacts
  <2> QED BY <2>1, <2>3 DEF EndRule
<1>2. /\ n \in Nat \ {0} /\ n \in 1 .. Len(scopes) /\ top \in Nat \ {0}
      /\ top = Len(scopes[n].blocks) /\ Block = scopes[n].blocks[top]
  BY <1>0, TopFacts
<1>3. /\ Len(scopes') = n /\ top > 1 /\ Len(scopes'[n].blocks) = top - 1
      /\ \A i \in 1 .. n : scopes'[i].key = scopes[i].key /\ (i < n => scopes'[i] = scopes[i])
      /\ \A b \in 1 .. top - 1 : scopes'[n].blocks[b] = scopes[n].blocks[b]
  BY <1>0, <1>1, EndRuleFacts DEF Top, Scope
<1>4. trees[n][top] = nodes
  BY <1>0, <1>1, EndResult
<1>5. ASSUME NEW s \in 1 .. n, NEW b \in 1 .. Len(scopes'[s].blocks)
      PROVE  StandsAt(env, trees, s, b)'
  <2>0. s \in 1 .. Len(scopes)
    BY <1>0
  <2>1. Len(scopes[s].blocks) \in Nat /\ (s < n => scopes'[s] = scopes[s])
    BY <1>1, <1>3, <2>0, ScopeFacts
  <2>2. b \in 1 .. Len(scopes[s].blocks) /\ scopes'[s].blocks[b] = scopes[s].blocks[b]
    <3>1. CASE s = n
      <4>1. b \in 1 .. top - 1
        BY <1>3, <3>1
      <4> QED BY <1>2, <1>3, <3>1, <4>1
    <3>2. CASE s < n
      BY <2>1, <3>2
    <3> QED BY <1>2, <3>1, <3>2
  <2>3. StandsAt(env, trees, s, b)
    BY <2>0, <2>2 DEF TreesStand
  <2>4. \A i \in 2 .. s : scopes'[i].key = scopes[i].key
    <3>1. \A i \in 2 .. s : i \in 1 .. n
      BY <1>2
    <3> QED BY <1>3, <3>1
  <2>5. CASE s < n /\ b < Len(scopes[s].blocks)
    BY <1>1, <2>1, <2>2, <2>3, <2>4, <2>5, InnerSame
  <2>6. CASE s < n /\ ~ (b < Len(scopes[s].blocks))
    <3>1. s < Len(scopes) /\ s < Len(scopes') /\ s + 1 \in 1 .. n
      BY <1>0, <1>2, <1>3, <2>6
    <3>2. scopes'[s + 1].blocks[1].saved = scopes[s + 1].blocks[1].saved
      <4>1. CASE s + 1 = n
        <5>1. 1 \in 1 .. top - 1
          BY <1>2, <1>3
        <5> QED BY <1>3, <4>1, <5>1
      <4>2. CASE s + 1 # n
        <5>1. s + 1 < n
          BY <1>2, <3>1, <4>2
        <5> QED BY <1>3, <3>1, <5>1
      <4> QED BY <4>1, <4>2
    <3> QED BY <1>1, <2>1, <2>2, <2>3, <2>4, <2>6, <3>1, <3>2, InnerSame
  <2>7. CASE s = n
    <3>1. b \in 1 .. top - 1
      BY <1>3, <2>7
    <3>2. CASE b < top - 1
      <4>1. b < Len(scopes[s].blocks) /\ b < Len(scopes'[s].blocks) /\ b + 1 \in 1 .. top - 1
        BY <1>2, <1>3, <2>7, <3>1, <3>2
      <4>2. scopes'[s].blocks[b + 1] = scopes[s].blocks[b + 1]
        BY <1>3, <2>7, <4>1
      <4> QED BY <1>1, <2>2, <2>3, <2>4, <4>1, <4>2, InnerSame
    <3>3. CASE b = top - 1
      <4>1. b + 1 = top /\ b < Len(scopes[s].blocks) /\ ~ (b < Len(scopes'[s].blocks)) /\ ~ (s < Len(scopes'))
        BY <1>2, <1>3, <2>7, <3>3
      <4>2. Into(s, b) = Block.saved /\ GoesOn(trees, s, b) = nodes
        BY <1>2, <1>4, <2>7, <4>1 DEF Into, GoesOn
      <4>3. Into(s, b)' = Block.saved /\ GoesOn(trees, s, b)' = nodes
        BY <1>1, <4>1 DEF Into, GoesOn
      <4> QED BY <1>1, <2>2, <2>3, <2>4, <4>2, <4>3, StandsSame
    <3> QED BY <1>2, <3>1, <3>2, <3>3
  <2> QED BY <1>2, <2>5, <2>6, <2>7
<1>6. \A s \in 1 .. Len(scopes') : \A b \in 1 .. Len(scopes'[s].blocks) : StandsAt(env, trees, s, b)'
  BY <1>3, <1>5
<1>7. Meaning(program)' = Meaning(program)
  BY <1>1, MeaningSame
<1> QED BY <1>6, <1>7 DEF TreesStand

(* The macros around the list i, and what is left of it.                   *)
OpenIn(i) == OpenAt(Len(scopes)) \cup {lists[j].key : j \in 2 .. i}

RestOf(i) == [code |-> From(lists[i].code, lists[i].next), open |-> OpenIn(i)]

(* raw is what has been expanded so far, empty places and all, and         *)
(* after[i] what it will be when the list i is at its end.                 *)
GoesOnFrom(raw, after, i) == IF i < Len(lists) THEN after[i + 1] ELSE raw

ListsMean(raw, after) ==
  /\ out = Places[raw]
  /\ comma <=> raw = <<>> \/ EndsInComma(raw)
  /\ after[1] = PlainSelectors(program)[[code |-> Current.selectors, open |-> OpenAt(Len(scopes))]]
  /\ \A i \in 1 .. Len(lists) :
       after[i] = GoesOnFrom(raw, after, i) \o PlainSelectors(program)[RestOf(i)]

Expansions == [Nat -> Seq(Selector)]

LEMMA OpenInType ==
  ASSUME IInv, NEW i \in 1 .. Len(lists)
  PROVE  /\ OpenIn(i) \in SUBSET Key
         /\ active = OpenIn(Len(lists))
         /\ RestOf(i) \in Selecting
         /\ lists[i] \in ListType
<1>1. lists # <<>> /\ Len(lists) \in Nat /\ lists[i] \in ListType
  <2>1. lists \in Seq(ListType)
    BY DEF IInv, TypeOK
  <2> QED BY <2>1
<1>2. active \subseteq Key /\ ActiveIsOpenExpansions
  BY DEF IInv, TypeOK
<1>3. active = OpenIn(Len(lists))
  BY <1>2 DEF ActiveIsOpenExpansions, OpenIn, OpenAt
<1>4. OpenIn(i) \subseteq OpenIn(Len(lists))
  <2>1. \A j \in 2 .. i : j \in 2 .. Len(lists)
    BY <1>1
  <2> QED BY <2>1 DEF OpenIn
<1>5. RestOf(i) \in Selecting
  <2>1. PICK q, k : q = lists[i].code /\ k = lists[i].next
    OBVIOUS
  <2>2. q \in Seq(Selector) /\ k \in Nat \ {0}
    BY <1>1, <2>1 DEF ListType
  <2>3. From(q, k) \in Seq(Selector)
    BY <2>2, FromFacts
  <2> QED BY <1>2, <1>3, <1>4, <2>1, <2>3 DEF RestOf, Selecting
<1> QED BY <1>1, <1>2, <1>3, <1>4, <1>5

(* The innermost list: what it results in, with its next selector.         *)
LEMMA RestStep ==
  ASSUME IInv, IsFiniteSet(DOMAIN Builtins), InList, NEW L, L = Len(lists)
  PROVE  /\ RestOf(L) \in Selecting
         /\ Node \in Selector
         /\ PlainSelectors(program)[RestOf(L)] =
              SelectorsOfFirst(program, PlainSelectors(program), RestOf(L))
              \o PlainSelectors(program)[[code |-> From(List.code, List.next + 1), open |-> OpenIn(L)]]
         /\ RestOf(L).code # <<>> /\ Head(RestOf(L).code) = Node /\ RestOf(L).open = OpenIn(L)
         /\ [code |-> From(List.code, List.next + 1), open |-> OpenIn(L)] \in Selecting
<1>0. PICK q, k, r, F : q = List.code /\ k = List.next /\ r = RestOf(L) /\ F = PlainSelectors(program)
  OBVIOUS
<1>1. /\ TypeOK /\ program \in Programs /\ L \in Nat \ {0} /\ L \in 1 .. Len(lists)
      /\ q \in Seq(Selector) /\ k \in Nat \ {0} /\ k <= Len(q) /\ Node \in Selector
  <2>1. TypeOK /\ program \in Programs /\ lists # <<>>
    BY DEF IInv, TypeOK, InList
  <2> QED BY <1>0, <2>1, ListFacts DEF InList
<1>2. From(q, k) # <<>> /\ Head(From(q, k)) = q[k] /\ Tail(From(q, k)) = From(q, k + 1) /\ From(q, k + 1) \in Seq(Selector)
  <2>1. k + 1 \in Nat \ {0}
    BY <1>1
  <2> QED BY <1>1, <2>1, FromFacts
<1>3. r = [code |-> From(q, k), open |-> OpenIn(L)] /\ r \in Selecting /\ OpenIn(L) \in SUBSET Key
  BY <1>0, <1>1, OpenInType DEF RestOf, List
<1>4. r.code = From(q, k) /\ r.open = OpenIn(L)
  BY <1>3
<1>5. Node = q[k]
  BY <1>0 DEF Node
<1>6. [r EXCEPT !.code = Tail(@)] = [code |-> From(q, k + 1), open |-> OpenIn(L)]
  <2>1. PICK c, o, t : c = From(q, k) /\ o = OpenIn(L) /\ t = From(q, k + 1)
    OBVIOUS
  <2>2. r = [code |-> c, open |-> o] /\ Tail(r.code) = t
    BY <1>2, <1>3, <1>4, <2>1
  <2>3. [r EXCEPT !.code = t] = [code |-> t, open |-> o]
    BY <2>2
  <2> QED BY <2>1, <2>2, <2>3
<1>7. F[r] = SelectorsStep(program, F, r)
  BY <1>0, <1>1, <1>3, SelectorsSolve
<1>8. F[r] = SelectorsOfFirst(program, F, r) \o F[[code |-> From(q, k + 1), open |-> OpenIn(L)]]
  BY <1>2, <1>4, <1>6, <1>7 DEF SelectorsStep
<1>9. [code |-> From(q, k + 1), open |-> OpenIn(L)] \in Selecting
  BY <1>2, <1>3 DEF Selecting
<1> QED BY <1>0, <1>1, <1>2, <1>3, <1>4, <1>5, <1>8, <1>9

(* Lists below the innermost are not touched.                              *)
LEMMA ListsBelow ==
  ASSUME NEW i, program' = program, scopes' = scopes,
         lists'[i].code = lists[i].code, lists'[i].next = lists[i].next,
         \A j \in 2 .. i : lists'[j].key = lists[j].key
  PROVE  RestOf(i)' = RestOf(i)
BY DEF RestOf, OpenIn, OpenAt, From

LEMMA SelectorsSame ==
  ASSUME program' = program
  PROVE  PlainSelectors(program)' = PlainSelectors(program)
BY DEF PlainSelectors, MacroOf

(* Moved on in the innermost list.                                         *)
LEMMA ListMoves ==
  ASSUME IInv, InList
  PROVE  /\ Len(ListAdvanced) = Len(lists)
         /\ \A i \in 1 .. Len(lists) :
              /\ ListAdvanced[i].key = lists[i].key
              /\ ListAdvanced[i].code = lists[i].code
              /\ ListAdvanced[i].next = IF i = Len(lists) THEN List.next + 1 ELSE lists[i].next
<1> DEFINE n == Len(lists)
           l == [lists[n] EXCEPT !.next = @ + 1]
<1>0. TypeOK /\ lists # <<>>
  BY DEF IInv, InList
<1>1. n \in Nat \ {0} /\ lists \in Seq(ListType) /\ \A i \in 1 .. n : lists[i] \in ListType
  BY <1>0, ListFacts DEF TypeOK
<1>2. \A i \in 1 .. n : ListAdvanced[i] = IF i = n THEN l ELSE lists[i]
  BY <1>1 DEF ListAdvanced, List
<1>3. l.next = List.next + 1
  BY <1>1 DEF ListType, List
<1>4. \A i \in 1 .. n : ListAdvanced[i].next = IF i = n THEN List.next + 1 ELSE lists[i].next
  <2> HIDE DEF l
  <2> QED BY <1>2, <1>3
<1> QED BY <1>0, <1>4, ListFacts, ListAdvancedFacts

LEMMA Associative ==
  ASSUME NEW q \in Seq(Selector), NEW r \in Seq(Selector), NEW t \in Seq(Selector)
  PROVE  (q \o r) \o t = q \o (r \o t) /\ q \o r \in Seq(Selector)
BY ConcatAssociative

LEMMA FirstType ==
  ASSUME IInv, IsFiniteSet(DOMAIN Builtins), InList, NEW L, L = Len(lists)
  PROVE  SelectorsOfFirst(program, PlainSelectors(program), RestOf(L)) \in Seq(Selector)
<1>0. PICK v, F : v = RestOf(L) /\ F = PlainSelectors(program)
  OBVIOUS
<1>1. v \in Selecting /\ Head(v.code) = Node /\ Node \in Selector /\ program \in Programs
  BY <1>0, RestStep DEF IInv, TypeOK
<1>2. CASE Node.kind # "call"
  BY <1>0, <1>1, <1>2 DEF SelectorsOfFirst
<1>3. CASE Node.kind = "call" /\ (Node.key \in v.open \/ MacroOf(program, Node.key).body.kind # "selector")
  BY <1>0, <1>1, <1>3 DEF SelectorsOfFirst
<1>4. CASE Node.kind = "call" /\ Node.key \notin v.open /\ MacroOf(program, Node.key).body.kind = "selector"
  <2>1. PICK u : u = [code |-> MacroOf(program, Node.key).body.content, open |-> v.open \cup {Node.key}]
    OBVIOUS
  <2>2. u \in Selecting
    <3>1. Node.key \in Key /\ v.open \in SUBSET Key
      BY <1>1, <1>4, SelectorAssumption DEF Selecting
    <3>2. MacroOf(program, Node.key).body.content \in Seq(Selector)
      BY <1>1, <1>4, MacroOfType
    <3> QED BY <2>1, <3>1, <3>2 DEF Selecting
  <2>3. F[u] \in Seq(Selector)
    BY <1>0, <1>1, <2>2, SelectorsSolve
  <2> QED BY <1>0, <1>1, <1>4, <2>1, <2>3 DEF SelectorsOfFirst
<1> QED BY <1>2, <1>3, <1>4

(* A selector, or a call that stands for none, moves the list on.          *)
LEMMA ListMoveOn ==
  ASSUME IInv, IsFiniteSet(DOMAIN Builtins), InList, program' = program, scopes' = scopes, lists' = ListAdvanced,
         NEW raw \in Seq(Selector), NEW after \in Expansions, ListsMean(raw, after),
         NEW raw2 \in Seq(Selector),
         raw2 = raw \o SelectorsOfFirst(program, PlainSelectors(program), RestOf(Len(lists))),
         out' = Places[raw2], comma' <=> raw2 = <<>> \/ EndsInComma(raw2)
  PROVE  ListsMean(raw2, after)'
<1>0. PICK L, F, first, rest : /\ L = Len(lists) /\ F = PlainSelectors(program)
                               /\ first = SelectorsOfFirst(program, F, RestOf(L))
                               /\ rest = [code |-> From(List.code, List.next + 1), open |-> OpenIn(L)]
  OBVIOUS
<1>1. /\ L \in Nat \ {0} /\ Len(lists') = L
      /\ \A i \in 1 .. L : /\ lists'[i].key = lists[i].key /\ lists'[i].code = lists[i].code
                           /\ lists'[i].next = IF i = L THEN List.next + 1 ELSE lists[i].next
  <2>1. TypeOK /\ lists # <<>>
    BY DEF IInv, InList
  <2> QED BY <1>0, <2>1, ListMoves, ListFacts
<1>2. PlainSelectors(program)' = F
  BY <1>0, SelectorsSame
<1>3. after[1] = F[[code |-> Current.selectors, open |-> OpenAt(Len(scopes))]]'
  BY <1>0, <1>2 DEF ListsMean, Current, Block, Scope, OpenAt
<1>4. ASSUME NEW i \in 1 .. L
      PROVE  after[i] = GoesOnFrom(raw2, after, i)' \o F[RestOf(i)']
  <2>0. after[i] = GoesOnFrom(raw, after, i) \o F[RestOf(i)]
    BY <1>0 DEF ListsMean
  <2>1. CASE i < L
    <3>1. \A j \in 2 .. i : lists'[j].key = lists[j].key
      BY <1>1
    <3>2. lists'[i].code = lists[i].code /\ lists'[i].next = lists[i].next
      BY <1>1, <2>1
    <3>3. RestOf(i)' = RestOf(i)
      BY <3>1, <3>2, ListsBelow, Zenon
    <3>4. GoesOnFrom(raw2, after, i)' = GoesOnFrom(raw, after, i)
      BY <1>0, <1>1, <2>1 DEF GoesOnFrom
    <3> QED BY <2>0, <3>3, <3>4
  <2>2. CASE i = L
    <3>1. F[RestOf(L)] = first \o F[rest] /\ rest \in Selecting /\ first \in Seq(Selector)
      BY <1>0, RestStep, FirstType
    <3>2. F[rest] \in Seq(Selector)
      BY <1>0, <3>1, SelectorsSolve DEF IInv, TypeOK
    <3>3. after[L] = raw2 \o F[rest]
      <4>0. PICK t, x : t = F[rest] /\ x = F[RestOf(L)]
        OBVIOUS
      <4>1. after[L] = raw \o x
        <5>1. GoesOnFrom(raw, after, i) = raw
          BY <1>0, <1>1, <2>2 DEF GoesOnFrom
        <5> QED BY <2>0, <2>2, <4>0, <5>1
      <4>2. (raw \o first) \o t = raw \o (first \o t)
        <5>1. raw \in Seq(Selector) /\ first \in Seq(Selector) /\ t \in Seq(Selector)
          BY <3>1, <3>2, <4>0
        <5> QED BY <5>1, Associative
      <4>3. x = first \o t /\ raw2 = raw \o first
        BY <1>0, <3>1, <4>0
      <4> QED BY <4>0, <4>1, <4>2, <4>3
    <3>4. RestOf(i)' = rest
      <4>1. lists'[i].code = List.code /\ lists'[i].next = List.next + 1
        BY <1>0, <1>1, <2>2 DEF List
      <4>2. OpenIn(i)' = OpenIn(L)
        <5>1. \A j \in 2 .. i : lists'[j].key = lists[j].key
          BY <1>1, <2>2
        <5> QED BY <2>2, <5>1 DEF OpenIn, OpenAt
      <4> QED BY <1>0, <4>1, <4>2 DEF RestOf, From
    <3>5. GoesOnFrom(raw2, after, i)' = raw2
      BY <1>0, <1>1, <2>2 DEF GoesOnFrom
    <3> QED BY <2>2, <3>3, <3>4, <3>5
  <2> QED BY <1>1, <2>1, <2>2
<1> QED BY <1>0, <1>1, <1>2, <1>3, <1>4 DEF ListsMean

LEMMA PlacesAppend ==
  ASSUME NEW raw \in Seq(Selector), NEW x \in Selector
  PROVE  /\ Append(raw, x) \in Seq(Selector)
         /\ Places[Append(raw, x)] =
              IF x.kind = "comma" /\ (raw = <<>> \/ EndsInComma(raw)) THEN Places[raw] ELSE Append(Places[raw], x)
         /\ Append(raw, x) # <<>>
         /\ EndsInComma(Append(raw, x)) <=> x.kind = "comma"
         /\ raw \o <<x>> = Append(raw, x)
<1>1. PICK q : q = Append(raw, x)
  OBVIOUS
<1>2. q \in Seq(Selector) /\ q # <<>> /\ Len(q) = Len(raw) + 1 /\ q[Len(q)] = x
  BY <1>1
<1>3. WithoutLast(q) = raw
  <2>1. SubSeq(q, 1, Len(raw)) = raw
    BY <1>1
  <2>2. Len(q) - 1 = Len(raw)
    BY <1>2
  <2> QED BY <2>1, <2>2 DEF WithoutLast
<1>4. EndsInComma(q) <=> x.kind = "comma"
  BY <1>2 DEF EndsInComma
<1>5. Places[q] = PlacesStep(Places, q)
  BY <1>2, PlacesSolve
<1>6. Places[q] = IF x.kind = "comma" /\ (raw = <<>> \/ EndsInComma(raw)) THEN Places[raw] ELSE Append(Places[raw], x)
  BY <1>2, <1>3, <1>4, <1>5 DEF PlacesStep
<1>7. raw \o <<x>> = q
  BY <1>1, AppendIsConcat
<1> QED BY <1>1, <1>2, <1>4, <1>6, <1>7

LEMMA PlacesEmpty == Places[<<>>] = <<>>
<1>1. <<>> \in Seq(Selector)
  OBVIOUS
<1> QED BY <1>1, PlacesSolve DEF PlacesStep

(* A selector, a comma, or a call that stands for nothing.                 *)
LEMMA MeanPush ==
  ASSUME IInv, IsFiniteSet(DOMAIN Builtins), PushPart \/ PushComma \/ DropSelectorCall,
         NEW raw \in Seq(Selector), NEW after \in Expansions, ListsMean(raw, after)
  PROVE  \E raw2 \in Seq(Selector) : ListsMean(raw2, after)'
<1>0. PICK L, v, first : L = Len(lists) /\ v = RestOf(L) /\ first = SelectorsOfFirst(program, PlainSelectors(program), v)
  OBVIOUS
<1>1. InList /\ program' = program /\ scopes' = scopes /\ lists' = ListAdvanced
  BY DEF PushPart, PushComma, DropSelectorCall
<1>2. Node \in Selector /\ Head(v.code) = Node /\ v.open = active
  <2>1. Len(lists) \in 1 .. Len(lists)
    BY <1>1, ListFacts DEF IInv, InList
  <2> QED BY <1>0, <1>1, <2>1, RestStep, OpenInType
<1>3. out = Places[raw] /\ (comma <=> raw = <<>> \/ EndsInComma(raw)) /\ comma \in BOOLEAN
  BY DEF ListsMean, IInv, TypeOK
<1>4. CASE PushPart \/ PushComma
  <2>1. first = <<Node>> /\ Node.kind # "call"
    BY <1>0, <1>2, <1>4 DEF SelectorsOfFirst, PushPart, PushComma
  <2>2. PICK raw2 : raw2 = Append(raw, Node)
    OBVIOUS
  <2>3. /\ raw2 \in Seq(Selector) /\ raw2 # <<>> /\ (EndsInComma(raw2) <=> Node.kind = "comma")
        /\ raw2 = raw \o first
        /\ Places[raw2] = IF Node.kind = "comma" /\ comma THEN out ELSE Append(out, Node)
    BY <1>2, <1>3, <2>1, <2>2, PlacesAppend
  <2>4. out' = Places[raw2] /\ (comma' <=> raw2 = <<>> \/ EndsInComma(raw2))
    <3>1. CASE PushPart
      BY <2>3, <3>1 DEF PushPart
    <3>2. CASE PushComma
      BY <2>3, <3>2 DEF PushComma
    <3> QED BY <1>4, <3>1, <3>2
  <2>5. ListsMean(raw2, after)'
    BY <1>0, <1>1, <2>3, <2>4, ListMoveOn
  <2> QED BY <2>3, <2>5
<1>5. CASE DropSelectorCall
  <2>1. Node.kind = "call" /\ ~SelectorExpandable(Node.key) /\ out' = out /\ comma' = comma
    BY <1>5 DEF DropSelectorCall
  <2>2. first = <<>>
    BY <1>0, <1>2, <2>1, MacroOfResolve DEF SelectorsOfFirst, SelectorExpandable
  <2>3. raw = raw \o first
    BY <2>2
  <2>4. ListsMean(raw, after)'
    BY <1>0, <1>1, <1>3, <2>1, <2>3, ListMoveOn
  <2> QED BY <2>4
<1> QED BY <1>4, <1>5

(* A call whose selectors stand in its place.                              *)
LEMMA MeanExpand ==
  ASSUME IInv, IsFiniteSet(DOMAIN Builtins), ExpandSelectorCall,
         NEW raw \in Seq(Selector), NEW after \in Expansions, ListsMean(raw, after)
  PROVE  \E after2 \in Expansions : ListsMean(raw, after2)'
<1>0. PICK L, F, key, content, rest, inside :
        /\ L = Len(lists) /\ F = PlainSelectors(program) /\ key = Node.key
        /\ content = MacroOf(program, key).body.content
        /\ rest = [code |-> From(List.code, List.next + 1), open |-> OpenIn(L)]
        /\ inside = [code |-> content, open |-> OpenIn(L) \cup {key}]
  OBVIOUS
<1>1. InList /\ program' = program /\ scopes' = scopes /\ out' = out /\ comma' = comma /\ Node.kind = "call"
      /\ key \notin active /\ Resolve(key).body.kind = "selector"
      /\ lists' = Append(ListAdvanced, [key |-> key, code |-> content, next |-> 1])
  BY <1>0, MacroOfResolve DEF ExpandSelectorCall, SelectorExpandable
<1>2. L \in Nat \ {0} /\ L \in 1 .. Len(lists) /\ TypeOK /\ lists # <<>> /\ program \in Programs
      /\ ListAdvanced \in Seq(ListType) /\ Len(ListAdvanced) = L
  <2>1. TypeOK /\ lists # <<>> /\ program \in Programs
    BY <1>1 DEF IInv, TypeOK, InList
  <2> QED BY <1>0, <2>1, ListFacts
<1>3. Node \in Selector /\ F[RestOf(L)] = SelectorsOfFirst(program, F, RestOf(L)) \o F[rest] /\ rest \in Selecting
      /\ Head(RestOf(L).code) = Node /\ RestOf(L).open = OpenIn(L) /\ active = OpenIn(L)
  BY <1>0, <1>1, <1>2, RestStep, OpenInType
<1>4. key \in Key /\ content \in Seq(Selector) /\ inside \in Selecting
  <2>1. key \in Key
    BY <1>0, <1>1, <1>3, SelectorAssumption
  <2>2. content \in Seq(Selector)
    BY <1>0, <1>1, <1>2, MacroOfType, MacroOfResolve
  <2>3. OpenIn(L) \cup {key} \in SUBSET Key
    BY <1>3, <2>1 DEF IInv, TypeOK
  <2> QED BY <1>0, <2>1, <2>2, <2>3 DEF Selecting
<1>5. SelectorsOfFirst(program, F, RestOf(L)) = F[inside]
  BY <1>0, <1>1, <1>3, MacroOfResolve DEF SelectorsOfFirst
<1>6. F[inside] \in Seq(Selector) /\ F[rest] \in Seq(Selector)
  BY <1>0, <1>2, <1>3, <1>4, SelectorsSolve
<1>7. PICK blk, mid : blk = [key |-> key, code |-> content, next |-> 1] /\ mid = raw \o F[inside]
  OBVIOUS
<1>8. /\ Len(lists') = L + 1
      /\ \A i \in 1 .. L : /\ lists'[i].key = lists[i].key /\ lists'[i].code = lists[i].code
                           /\ lists'[i].next = IF i = L THEN List.next + 1 ELSE lists[i].next
      /\ lists'[L + 1] = blk
  <2>1. blk \in ListType
    BY <1>4, <1>7 DEF ListType
  <2>2. Len(lists') = L + 1 /\ (\A i \in 1 .. L : lists'[i] = ListAdvanced[i]) /\ lists'[L + 1] = blk
    BY <1>1, <1>2, <1>7, <2>1, AppendFacts
  <2> QED BY <1>0, <1>1, <2>2, ListMoves
<1>9. PICK after2 : after2 = [after EXCEPT ![L + 1] = mid]
  OBVIOUS
<1>10. /\ mid \in Seq(Selector) /\ after2 \in Expansions
       /\ after2[L + 1] = mid /\ \A i \in 1 .. L : after2[i] = after[i]
  <2>1. mid \in Seq(Selector)
    BY <1>6, <1>7, Associative
  <2>2. PICK m : m = L + 1
    OBVIOUS
  <2>3. m \in Nat /\ \A i \in 1 .. L : i \in Nat /\ i # m
    BY <1>2, <2>2
  <2>4. after \in [Nat -> Seq(Selector)] /\ after2 = [after EXCEPT ![m] = mid]
    BY <1>9, <2>2 DEF Expansions
  <2>5. after2 \in [Nat -> Seq(Selector)] /\ after2[m] = mid /\ \A i \in 1 .. L : after2[i] = after[i]
    BY <2>1, <2>3, <2>4
  <2> QED BY <2>1, <2>2, <2>5 DEF Expansions
<1>11. PlainSelectors(program)' = F
  BY <1>0, <1>1, SelectorsSame
<1>12. after2[1] = F[[code |-> Current.selectors, open |-> OpenAt(Len(scopes))]]'
  <2>1. after2[1] = after[1]
    BY <1>2, <1>10
  <2>2. after[1] = F[[code |-> Current.selectors, open |-> OpenAt(Len(scopes))]]
    BY <1>0 DEF ListsMean
  <2> QED BY <1>1, <2>1, <2>2 DEF Current, Block, Scope, OpenAt
<1>13. ASSUME NEW i \in 1 .. L + 1
       PROVE  after2[i] = GoesOnFrom(raw, after2, i)' \o F[RestOf(i)']
  <2>1. CASE i < L
    <3>1. \A j \in 2 .. i : lists'[j].key = lists[j].key
      BY <1>2, <1>8, <2>1
    <3>2. lists'[i].code = lists[i].code /\ lists'[i].next = lists[i].next
      BY <1>2, <1>8, <2>1
    <3>3. RestOf(i)' = RestOf(i)
      BY <1>1, <3>1, <3>2, ListsBelow, Zenon
    <3>4. i + 1 \in 1 .. L /\ i \in 1 .. L /\ i < Len(lists') /\ i < Len(lists)
      BY <1>0, <1>2, <1>8, <2>1
    <3>5. GoesOnFrom(raw, after2, i)' = GoesOnFrom(raw, after, i) /\ after2[i] = after[i]
      BY <1>10, <3>4 DEF GoesOnFrom
    <3>6. after[i] = GoesOnFrom(raw, after, i) \o F[RestOf(i)]
      BY <1>0, <3>4 DEF ListsMean
    <3> QED BY <3>3, <3>5, <3>6
  <2>2. CASE i = L
    <3>1. ~ (i < Len(lists)) /\ i < Len(lists') /\ i \in 1 .. L /\ i \in 1 .. Len(lists)
      BY <1>0, <1>2, <1>8, <2>2
    <3>2. GoesOnFrom(raw, after, i) = raw /\ GoesOnFrom(raw, after2, i)' = mid
      BY <1>10, <2>2, <3>1 DEF GoesOnFrom
    <3>3. RestOf(i)' = rest
      <4>1. lists'[i].code = List.code /\ lists'[i].next = List.next + 1
        BY <1>0, <1>8, <2>2, <3>1 DEF List
      <4>2. OpenIn(i)' = OpenIn(L)
        <5>1. \A j \in 2 .. i : lists'[j].key = lists[j].key
          BY <1>2, <1>8, <2>2
        <5> QED BY <1>1, <2>2, <5>1 DEF OpenIn, OpenAt
      <4> QED BY <1>0, <4>1, <4>2 DEF RestOf, From
    <3>4. after[i] = GoesOnFrom(raw, after, i) \o F[RestOf(i)]
      BY <1>0, <3>1 DEF ListsMean
    <3>5. after2[i] = mid \o F[rest]
      <4>0. PICK t, x, y : t = F[rest] /\ x = F[inside] /\ y = F[RestOf(i)]
        OBVIOUS
      <4>1. after2[i] = raw \o y /\ y = x \o t /\ mid = raw \o x
        BY <1>3, <1>5, <1>7, <1>10, <2>2, <3>1, <3>2, <3>4, <4>0
      <4>2. raw \in Seq(Selector) /\ x \in Seq(Selector) /\ t \in Seq(Selector)
        BY <1>6, <4>0
      <4>3. (raw \o x) \o t = raw \o (x \o t)
        BY <4>2, Associative
      <4> QED BY <4>0, <4>1, <4>3
    <3> QED BY <3>2, <3>3, <3>5
  <2>3. CASE i = L + 1
    <3>1. ~ (i < Len(lists'))
      BY <1>2, <1>8, <2>3
    <3>2. GoesOnFrom(raw, after2, i)' = raw
      BY <3>1 DEF GoesOnFrom
    <3>3. RestOf(i)' = inside
      <4>1. lists'[i].code = content /\ lists'[i].next = 1 /\ lists'[i].key = key
        BY <1>7, <1>8, <2>3
      <4>2. From(content, 1) = content
        BY <1>4, FromFacts
      <4>3. OpenIn(i)' = OpenIn(L) \cup {key}
        <5>1. 2 .. i = (2 .. L) \cup {i} /\ \A j \in 2 .. L : lists'[j].key = lists[j].key
          BY <1>2, <1>8, <2>3
        <5>2. {lists'[j].key : j \in 2 .. i} = {lists[j].key : j \in 2 .. L} \cup {key}
          BY <4>1, <5>1
        <5> QED BY <1>1, <5>2 DEF OpenIn, OpenAt
      <4> QED BY <1>0, <4>1, <4>2, <4>3 DEF RestOf, From
    <3> QED BY <1>7, <1>10, <2>3, <3>2, <3>3
  <2> QED BY <1>2, <2>1, <2>2, <2>3
<1>14. ListsMean(raw, after2)'
  <2>1. out' = Places[raw] /\ (comma' <=> raw = <<>> \/ EndsInComma(raw))
    BY <1>1 DEF ListsMean
  <2> QED BY <1>8, <1>11, <1>12, <1>13, <2>1 DEF ListsMean
<1> QED BY <1>10, <1>14

(* A list at its end has given all it stands for.                          *)
LEMMA ListEnd ==
  ASSUME IInv, IsFiniteSet(DOMAIN Builtins), lists # <<>>, ~ (List.next <= Len(List.code)),
         NEW raw \in Seq(Selector), NEW after, ListsMean(raw, after)
  PROVE  after[Len(lists)] = raw
<1>0. PICK L, F, q, k : L = Len(lists) /\ F = PlainSelectors(program) /\ q = List.code /\ k = List.next
  OBVIOUS
<1>1. L \in Nat \ {0} /\ L \in 1 .. Len(lists) /\ q \in Seq(Selector) /\ k \in Nat \ {0} /\ k > Len(q)
  BY <1>0, ListFacts DEF IInv
<1>2. From(q, k) = <<>>
  BY <1>1, FromFacts
<1>3. RestOf(L) \in Selecting /\ RestOf(L).code = <<>>
  BY <1>0, <1>1, <1>2, OpenInType DEF RestOf, List
<1>4. F[RestOf(L)] = <<>>
  BY <1>0, <1>3, SelectorsSolve DEF SelectorsStep, IInv, TypeOK
<1>5. GoesOnFrom(raw, after, L) = raw
  BY <1>0, <1>1 DEF GoesOnFrom
<1>6. after[L] = raw \o <<>>
  BY <1>0, <1>1, <1>4, <1>5 DEF ListsMean
<1> QED BY <1>0, <1>6

LEMMA MeanEnd ==
  ASSUME IInv, IsFiniteSet(DOMAIN Builtins), EndSelectorCall,
         NEW raw \in Seq(Selector), NEW after \in Expansions, ListsMean(raw, after)
  PROVE  ListsMean(raw, after)'
<1>0. PICK L, F : L = Len(lists) /\ F = PlainSelectors(program)
  OBVIOUS
<1>1. TypeOK /\ lists \in Seq(ListType) /\ L \in Nat /\ L > 1 /\ lists # <<>>
  BY <1>0 DEF EndSelectorCall, IInv, TypeOK
<1>2. /\ program' = program /\ scopes' = scopes /\ out' = out /\ comma' = comma
      /\ Len(lists') = L - 1 /\ \A i \in 1 .. L - 1 : lists'[i] = lists[i]
  BY <1>0, <1>1, PopFacts DEF EndSelectorCall
<1>3. after[L] = raw
  <2>1. ~ (List.next <= Len(List.code))
    <3>1. List.next > Len(List.code)
      BY DEF EndSelectorCall
    <3> QED BY <1>1, <3>1, ListFacts
  <2> QED BY <1>0, <1>1, <2>1, ListEnd
<1>4. PlainSelectors(program)' = F
  BY <1>0, <1>2, SelectorsSame
<1>5. ASSUME NEW i \in 1 .. L - 1
      PROVE  after[i] = GoesOnFrom(raw, after, i)' \o F[RestOf(i)']
  <2>1. i \in 1 .. Len(lists) /\ i < L /\ \A j \in 2 .. i : j \in 1 .. L - 1
    BY <1>0, <1>1
  <2>2. RestOf(i)' = RestOf(i)
    <3>1. \A j \in 2 .. i : lists'[j].key = lists[j].key
      BY <1>2, <2>1
    <3>2. lists'[i].code = lists[i].code /\ lists'[i].next = lists[i].next
      BY <1>2
    <3> QED BY <1>2, <3>1, <3>2, ListsBelow, Zenon
  <2>3. GoesOnFrom(raw, after, i)' = GoesOnFrom(raw, after, i)
    <3>1. CASE i + 1 = L
      BY <1>0, <1>1, <1>2, <1>3, <3>1 DEF GoesOnFrom
    <3>2. CASE i + 1 # L
      BY <1>0, <1>1, <1>2, <3>2 DEF GoesOnFrom
    <3> QED BY <3>1, <3>2
  <2>4. after[i] = GoesOnFrom(raw, after, i) \o F[RestOf(i)]
    BY <1>0, <2>1 DEF ListsMean
  <2> QED BY <2>2, <2>3, <2>4
<1>6. after[1] = F[[code |-> Current.selectors, open |-> OpenAt(Len(scopes))]]'
  <2>1. after[1] = F[[code |-> Current.selectors, open |-> OpenAt(Len(scopes))]]
    BY <1>0 DEF ListsMean
  <2> QED BY <1>2, <2>1 DEF Current, Block, Scope, OpenAt
<1>7. out' = Places[raw] /\ (comma' <=> raw = <<>> \/ EndsInComma(raw))
  BY <1>2 DEF ListsMean
<1> QED BY <1>2, <1>4, <1>5, <1>6, <1>7 DEF ListsMean

LEMMA MeanBegin ==
  ASSUME IInv, IsFiniteSet(DOMAIN Builtins), BeginRule
  PROVE  \E raw \in Seq(Selector), after \in Expansions : ListsMean(raw, after)'
<1>0. PICK F, q, open, all, raw, after :
        /\ F = PlainSelectors(program) /\ q = Current.selectors /\ open = OpenAt(Len(scopes))
        /\ all = F[[code |-> q, open |-> open]] /\ raw = <<>> /\ after = [i \in Nat |-> all]
  OBVIOUS
<1>1. /\ program' = program /\ scopes' = scopes /\ out' = <<>> /\ comma' = TRUE
      /\ lists' = <<[key |-> NoKey, code |-> q, next |-> 1]>>
  BY <1>0 DEF BeginRule
<1>2. q \in Seq(Selector) /\ program \in Programs
  BY <1>0, BlockFacts, ItemAssumption DEF BeginRule, InBlock, IInv, TypeOK
<1>3. open \in SUBSET Key
  BY <1>0, OpenType, ScopeFacts DEF IInv
<1>4. all \in Seq(Selector)
  <2>1. [code |-> q, open |-> open] \in Selecting
    BY <1>2, <1>3 DEF Selecting
  <2> QED BY <1>0, <1>2, <2>1, SelectorsSolve
<1>5. raw \in Seq(Selector) /\ after \in Expansions
  BY <1>0, <1>4 DEF Expansions
<1>6. PlainSelectors(program)' = F
  BY <1>0, <1>1, SelectorsSame
<1>7. Len(lists') = 1 /\ lists'[1].code = q /\ lists'[1].next = 1
  BY <1>1
<1>8. RestOf(1)' = [code |-> q, open |-> open]
  <2>1. From(q, 1) = q
    BY <1>2, FromFacts
  <2>2. OpenIn(1)' = open
    <3>1. 2 .. 1 = {}
      OBVIOUS
    <3> QED BY <1>0, <1>1, <3>1 DEF OpenIn, OpenAt
  <2> QED BY <1>7, <2>1, <2>2 DEF RestOf, From
<1>9. after[1] = GoesOnFrom(raw, after, 1)' \o F[RestOf(1)']
  <2>1. GoesOnFrom(raw, after, 1)' = <<>>
    BY <1>0, <1>7 DEF GoesOnFrom
  <2>2. after[1] = all /\ F[RestOf(1)'] = all
    BY <1>0, <1>8
  <2>3. <<>> \o all = all
    BY <1>4, ConcatEmptySeq
  <2> QED BY <2>1, <2>2, <2>3
<1>10. \A i \in 1 .. Len(lists') : after[i] = GoesOnFrom(raw, after, i)' \o F[RestOf(i)']
  <2> TAKE i \in 1 .. Len(lists')
  <2>1. i = 1
    BY <1>7
  <2> QED BY <1>9, <2>1
<1>11. after[1] = F[[code |-> Current.selectors, open |-> OpenAt(Len(scopes))]]'
  BY <1>0, <1>1 DEF Current, Block, Scope, OpenAt
<1>12. out' = Places[raw] /\ (comma' <=> raw = <<>> \/ EndsInComma(raw))
  BY <1>0, <1>1, PlacesEmpty
<1>13. ListsMean(raw, after)'
  BY <1>6, <1>10, <1>11, <1>12 DEF ListsMean
<1> QED BY <1>5, <1>13

(* The selectors of the rule that is added.                                *)
LEMMA MeanTrimmed ==
  ASSUME IInv, IsFiniteSet(DOMAIN Builtins), AddRule,
         NEW raw \in Seq(Selector), NEW after \in Expansions, ListsMean(raw, after)
  PROVE  Trimmed = SelectorsIn(program, Current, OpenAt(Len(scopes)))
<1>0. Len(lists) = 1
  BY DEF AddRule
<1>1. List.next > Len(List.code) /\ TypeOK
  BY DEF AddRule, IInv
<1>2. lists # <<>>
  BY <1>0
<1>3. ~ (List.next <= Len(List.code))
  BY <1>1, <1>2, ListFacts
<1>4. after[1] = raw
  BY <1>0, <1>2, <1>3, ListEnd
<1>5. PlainSelectors(program)[[code |-> Current.selectors, open |-> OpenAt(Len(scopes))]] = raw /\ out = Places[raw]
  BY <1>4 DEF ListsMean
<1>6. Trimmed = Normalised(raw)
  BY <1>5 DEF Trimmed, Normalised, EndsInComma, WithoutLast
<1> QED BY <1>5, <1>6 DEF SelectorsIn

(* The stacks stand for what is left of the text.                          *)
StacksStand(env, trees) == EnvironmentsStand(env) /\ TreesStand(env, trees)

Meant ==
  /\ \E env \in Environments, trees \in Results : StacksStand(env, trees)
  /\ lists # <<>> => \E raw \in Seq(Selector), after \in Expansions : ListsMean(raw, after)

LEMMA WholeWork ==
  ASSUME NEW p \in Programs
  PROVE  WholeFile(p) \in Work
<1>1. <<NewNode(Root, <<>>)>> \in Seq(TreeNode)
  <2>1. Root \in Nat \ {0} /\ <<>> \in Seq(Selector)
    BY DEF Root
  <2>2. PICK x : x = NewNode(Root, <<>>)
    OBVIOUS
  <2>3. x \in TreeNode
    BY <2>1, <2>2, NewNodeType
  <2> QED BY <2>2, <2>3
<1>2. PICK q : q = <<NewNode(Root, <<>>)>>
  OBVIOUS
<1>3. [x \in Name |-> NilExpr] \in [Name -> Expr]
  BY NilAssumption
<1>4. p.top \in Seq(Item) /\ Root \in Nat \ {0}
  BY ProgramsAssumption DEF Root
<1>5. WholeFile(p) = [code |-> p.top, env |-> [x \in Name |-> NilExpr], open |-> {}, tree |-> q, node |-> Root]
  BY <1>2 DEF WholeFile
<1> QED BY <1>1, <1>2, <1>3, <1>4, <1>5 DEF Work

LEMMA MeantInit ==
  ASSUME Init, IsFiniteSet(DOMAIN Builtins), NEW levels, Nesting(levels)
  PROVE  Meant
<1>1. PICK m, none, env, trees : /\ m = Meaning(program) /\ none = [x \in Name |-> NilExpr]
                                 /\ env = [d \in Nat |-> none]
                                 /\ trees = [s \in Nat |-> [b \in Nat |-> m]]
  OBVIOUS
<1>2. program \in Programs /\ lists = <<>>
  BY DEF Init
<1>3. m \in Seq(TreeNode)
  BY <1>1, <1>2, WholeWork, TreesSolve DEF Meaning
<1>4. env \in Environments /\ trees \in Results
  <2>1. none \in [Name -> Expr]
    BY <1>1, NilAssumption
  <2> QED BY <1>1, <1>3, <2>1 DEF Environments, Results
<1>5. EnvironmentsStand(env)
  <2>1. bindings = <<EmptyFrame>>
    BY DEF Init
  <2>2. PICK f : f = EmptyFrame
    OBVIOUS
  <2>3. DOMAIN bindings = {1} /\ bindings[1] = f
    BY <2>1, <2>2
  <2>4. \A x \in Name : f[x] = Unbound
    BY <2>2 DEF EmptyFrame
  <2>5. \A x \in Name : env[1][x] = NilExpr
    BY <1>1
  <2>6. ASSUME NEW d \in DOMAIN bindings, NEW x \in Name
        PROVE  env[d][x] = IF bindings[d][x] = Unbound THEN NilExpr
                           ELSE Substitute(bindings[d][x].construct, env[d - 1])
    BY <2>3, <2>4, <2>5
  <2> QED BY <2>6 DEF EnvironmentsStand
<1>6. TreesStand(env, trees)
  <2>1. PICK blk, scope : blk = [code |-> program.top, next |-> 1, saved |-> Root] /\ scope = [key |-> NoKey, blocks |-> <<blk>>]
    OBVIOUS
  <2>2. scopes = <<scope>>
    BY <2>1 DEF Init
  <2>3. Len(scopes) = 1 /\ scopes[1].blocks = <<blk>>
    BY <2>1, <2>2
  <2>4. Len(scopes[1].blocks) = 1 /\ scopes[1].blocks[1] = blk
    BY <2>3
  <2>5. GoesOn(trees, 1, 1) = nodes /\ Into(1, 1) = Root
    BY <2>3, <2>4 DEF GoesOn, Into, Init
  <2>6. From(scopes[1].blocks[1].code, scopes[1].blocks[1].next) = program.top
    <3>1. From(program.top, 1) = program.top
      BY <1>2, ProgramsAssumption, FromFacts
    <3> QED BY <2>1, <2>4, <3>1
  <2>7. OpenAt(1) = {}
    <3>1. 2 .. 1 = {}
      OBVIOUS
    <3> QED BY <3>1 DEF OpenAt
  <2>8. WorkOf(1, 1, env[1], GoesOn(trees, 1, 1)) = WholeFile(program)
    <3>1. env[1] = [x \in Name |-> NilExpr] /\ nodes = <<NewNode(Root, <<>>)>>
      BY <1>1 DEF Init
    <3> QED BY <2>5, <2>6, <2>7, <3>1 DEF WorkOf, WholeFile
  <2>9. trees[1][1] = m
    BY <1>1
  <2>10. StandsAt(env, trees, 1, 1)
    BY <1>1, <2>8, <2>9 DEF StandsAt, Meaning
  <2>11. \A s \in 1 .. Len(scopes) : \A b \in 1 .. Len(scopes[s].blocks) : s = 1 /\ b = 1
    <3> TAKE s \in 1 .. Len(scopes)
    <3> TAKE b \in 1 .. Len(scopes[s].blocks)
    <3>1. s = 1
      BY <2>3
    <3>2. b \in 1 .. 1
      BY <2>4, <3>1
    <3> QED BY <3>1, <3>2
  <2> QED BY <1>1, <2>9, <2>10, <2>11 DEF TreesStand
<1> QED BY <1>2, <1>4, <1>5, <1>6 DEF Meant, StacksStand

(* What an assignment, or a construct without effect, makes of the tree.   *)
LEMMA FirstSimple ==
  ASSUME IInv, SetValue \/ Ignore \/ DropCall, NEW env \in Environments, EnvironmentsStand(env)
  PROVE  nodes' = AfterFirst(program, Trees(program), TopWork(env))
<1>0. PICK w, c, n, T : w = TopWork(env) /\ c = Current /\ n = Len(scopes) /\ T = Trees(program)
  OBVIOUS
<1>1. InBlock /\ TypeOK /\ ArgumentsPointOutward
  BY DEF SetValue, Ignore, DropCall, IInv
<1>2. /\ w.env = env[n] /\ w.open = OpenAt(n) /\ w.tree = nodes /\ w.node = current
      /\ Head(w.code) = c
  BY <1>0, <1>1, TopFacts, HeadIs
<1>3. c \in Item
  BY <1>0, <1>1, BlockFacts DEF InBlock
<1>4. CASE c.kind = "set"
  <2>1. PICK e, value, stored : /\ e = Substitute(c.right, env[n]) /\ value = ValueAt(nodes, current, e)
                                /\ stored = Coerce[<<c.store, c.name, value>>]
    OBVIOUS
  <2>2. AfterFirst(program, T, w) = Assigned(nodes, current, c, e)
    BY <1>2, <1>4, <2>1, FirstCases
  <2>3. Evaluate(c.right) = value
    <3>1. c.right \in Expr /\ Len(bindings) = n
      BY <1>0, <1>1, <1>3, <1>4, ItemAssumption DEF ArgumentsPointOutward
    <3> QED BY <1>1, <2>1, <3>1, EvaluateMeans
  <2>4. Assigned(nodes, current, c, e) =
          IF (current = Root => c.store \in {"attribute", "static"}) /\ value \in Value /\ stored # Nil
          THEN [nodes EXCEPT ![current].data[<<c.store, c.name>>] = stored] ELSE nodes
    BY <2>1, Zenon DEF Assigned
  <2>5. Settable(c) <=> (current = Root => c.store \in {"attribute", "static"}) /\ value \in Value /\ stored # Nil
    <3>1. c.store \in Store
      BY <1>3, <1>4, ItemAssumption
    <3> QED BY <2>1, <2>3, <3>1 DEF Settable, Store
  <2>6. CASE Settable(c)
    <3>1. SetValue
      BY <1>0, <1>4, <2>6 DEF Ignore, DropCall
    <3>2. nodes' = [nodes EXCEPT ![current].data[<<c.store, c.name>>] = Coerce[<<c.store, c.name, Evaluate(c.right)>>]]
      BY <1>0, <3>1 DEF SetValue
    <3>3. nodes' = [nodes EXCEPT ![current].data[<<c.store, c.name>>] = stored]
      BY <2>1, <2>3, <3>2
    <3> QED BY <1>0, <2>2, <2>4, <2>5, <2>6, <3>3
  <2>7. CASE ~ Settable(c)
    <3>1. nodes' = nodes
      BY <1>0, <1>4, <2>7 DEF SetValue, Ignore, DropCall
    <3> QED BY <1>0, <2>2, <2>4, <2>5, <2>7, <3>1
  <2> QED BY <2>6, <2>7
<1>5. CASE c.kind # "set"
  <2>1. nodes' = nodes /\ (c.kind \in {"macro", "inert"} \/ (c.kind = "call" /\ ~ Expandable(c.key)))
    BY <1>0, <1>5 DEF SetValue, Ignore, DropCall
  <2>2. active = OpenAt(n)
    <3>1. n \in 1 .. Len(scopes)
      BY <1>0, <1>1, ScopeFacts
    <3> QED BY <1>0, <1>1, <3>1, OpenType DEF IInv, InBlock
  <2>3. ~ Expands(program, w)
    BY <1>2, <2>1, <2>2, MacroOfResolve DEF Expands, Expandable
  <2>4. AfterFirst(program, T, w) = nodes
    BY <1>2, <2>1, <2>3, FirstCases
  <2> QED BY <1>0, <2>1, <2>4
<1> QED BY <1>4, <1>5

(* Steps within a selector list leave what stands as it was.               *)
LEMMA StandUnchanged ==
  ASSUME UNCHANGED <<program, nodes, current, bindings, scopes>>,
         NEW env, NEW trees, StacksStand(env, trees)
  PROVE  StacksStand(env, trees)'
<1>1. Trees(program)' = Trees(program) /\ Meaning(program)' = Meaning(program)
  BY MeaningSame
<1>2. EnvironmentsStand(env)'
  BY DEF StacksStand, EnvironmentsStand
<1>3. ASSUME NEW s \in 1 .. Len(scopes), NEW b \in 1 .. Len(scopes[s].blocks)
      PROVE  StandsAt(env, trees, s, b)'
  <2>1. StandsAt(env, trees, s, b)
    BY DEF StacksStand, TreesStand
  <2>2. Into(s, b)' = Into(s, b) /\ GoesOn(trees, s, b)' = GoesOn(trees, s, b)
    BY DEF Into, GoesOn
  <2> QED BY <2>1, <2>2, StandsSame
<1>4. TreesStand(env, trees)'
  BY <1>1, <1>3 DEF StacksStand, TreesStand
<1> QED BY <1>2, <1>4 DEF StacksStand

LEMMA ListsMeanUnchanged ==
  ASSUME UNCHANGED vars, NEW raw, NEW after, ListsMean(raw, after)
  PROVE  ListsMean(raw, after)'
<1>1. UNCHANGED <<program, scopes, lists, out, comma>>
  BY DEF vars
<1>2. PlainSelectors(program)' = PlainSelectors(program)
  BY <1>1, SelectorsSame
<1>3. ASSUME NEW i PROVE RestOf(i)' = RestOf(i) /\ GoesOnFrom(raw, after, i)' = GoesOnFrom(raw, after, i)
  BY <1>1 DEF RestOf, OpenIn, OpenAt, From, GoesOnFrom
<1>4. [code |-> Current.selectors, open |-> OpenAt(Len(scopes))]' = [code |-> Current.selectors, open |-> OpenAt(Len(scopes))]
  BY <1>1 DEF Current, Block, Scope, OpenAt
<1> QED BY <1>1, <1>2, <1>3, <1>4 DEF ListsMean

LEMMA StacksNext ==
  ASSUME IInv, IInv', Meant, [Next]_vars, IsFiniteSet(DOMAIN Builtins), NEW levels, Nesting(levels)
  PROVE  \E env \in Environments, trees \in Results : StacksStand(env, trees)'
<1>1. PICK env \in Environments, trees \in Results : StacksStand(env, trees)
  BY DEF Meant
<1>2. EnvironmentsStand(env) /\ TreesStand(env, trees)
  BY <1>1 DEF StacksStand
<1>3. CASE SetValue \/ Ignore \/ DropCall
  <2>1. program' = program /\ current' = current /\ scopes' = Advanced /\ InBlock /\ bindings' = bindings
    BY <1>3 DEF SetValue, Ignore, DropCall
  <2>2. TreesStand(env, trees)'
    BY <1>2, <1>3, <2>1, FirstSimple, TreesMoveOn
  <2>3. EnvironmentsStand(env)'
    BY <1>2, <2>1 DEF EnvironmentsStand
  <2> QED BY <2>2, <2>3 DEF StacksStand
<1>4. CASE ExpandCall
  <2>0. PICK n, m, w, frame, grown, env2, trees2 :
          /\ n = Len(scopes) /\ m = Len(scopes) + 1 /\ w = TopWork(env)
          /\ frame = Environment(Resolve(Current.key).args, Current.args, env[n])
          /\ grown = AfterFirst(program, Trees(program), w)
          /\ env2 = [env EXCEPT ![m] = frame]
          /\ trees2 = [trees EXCEPT ![m] = [@ EXCEPT ![1] = grown]]
    OBVIOUS
  <2>1. TypeOK /\ program \in Programs /\ InBlock /\ n \in Nat /\ Current \in Item /\ Current.kind = "call" /\ Expandable(Current.key)
    BY <1>4, <2>0, ScopeFacts, BlockFacts DEF IInv, TypeOK, ExpandCall, InBlock
  <2>2. w \in Work /\ w.env = env[n] /\ w.code # <<>> /\ Head(w.code) = Current /\ w.open = OpenAt(n)
    BY <2>0, <2>1, TopFacts, HeadIs
  <2>3. Expands(program, w)
    <3>1. n \in 1 .. Len(scopes) /\ lists = <<>>
      BY <2>0, <2>1, ScopeFacts DEF InBlock
    <3>2. active = OpenAt(n)
      BY <2>0, <3>1, OpenType DEF IInv
    <3> QED BY <2>1, <2>2, <3>2, MacroOfResolve DEF Expands, Expandable
  <2>4. InsideCall(program, w) \in Work
    BY <2>1, <2>2, <2>3, InsideCallFacts
  <2>5. grown \in Seq(TreeNode)
    BY <2>0, <2>1, <2>3, <2>4, FirstCases, TreesSolve
  <2>6. frame \in [Name -> Expr]
    <3>1. Resolve(Current.key).args \in Seq(Name)
      BY <2>1, ResolveType DEF Macro
    <3>2. Current.args \in Seq(Expr)
      BY <2>1, ItemAssumption
    <3>3. env[n] \in [Name -> Expr]
      BY <2>1 DEF Environments
    <3> QED BY <2>0, <3>1, <3>2, <3>3, EnvironmentType
  <2>7. env2 \in Environments
    <3>1. m \in Nat /\ env \in [Nat -> [Name -> Expr]] /\ env2 = [env EXCEPT ![m] = frame]
      BY <2>0, <2>1 DEF Environments
    <3> QED BY <2>6, <3>1 DEF Environments
  <2>8. trees2 \in Results
    <3>1. PICK r : r = [trees[m] EXCEPT ![1] = grown]
      OBVIOUS
    <3>a. m \in Nat
      BY <2>0, <2>1
    <3>b. trees2 = [trees EXCEPT ![m] = r]
      BY <2>0, <3>1
    <3>c. trees \in [Nat -> [Nat -> Seq(TreeNode)]]
      BY DEF Results
    <3>2. m \in Nat /\ trees \in [Nat -> [Nat -> Seq(TreeNode)]] /\ trees2 = [trees EXCEPT ![m] = r]
      BY <3>a, <3>b, <3>c
    <3>3. r \in [Nat -> Seq(TreeNode)]
      BY <2>5, <3>1, <3>2
    <3>4. trees2 \in [Nat -> [Nat -> Seq(TreeNode)]]
      BY <3>2, <3>3
    <3> QED BY <3>4 DEF Results
  <2>9. TreesStand(env2, trees2)'
    BY <1>2, <1>4, <2>0, <2>7, <2>8, TreesExpand
  <2>10. EnvironmentsStand(env2)'
    BY <1>2, <1>4, <2>0, <2>7, EnvironmentsExpand
  <2> QED BY <2>7, <2>8, <2>9, <2>10 DEF StacksStand
<1>5. CASE AddRule
  <2>0. PICK n, k, w, grown, trees2 :
          /\ n = Len(scopes) /\ k = Top + 1 /\ w = TopWork(env)
          /\ grown = AfterFirst(program, Trees(program), w)
          /\ trees2 = [trees EXCEPT ![n] = [@ EXCEPT ![k] = grown]]
    OBVIOUS
  <2>1. lists # <<>>
    <3>1. Len(lists) = 1
      BY <1>5 DEF AddRule
    <3> QED BY <3>1
  <2>2. /\ TypeOK /\ program \in Programs /\ n \in Nat /\ k \in Nat /\ Block.next <= Len(Block.code) /\ Current.kind = "rule"
        /\ bindings' = bindings
    BY <1>5, <2>0, <2>1, TopFacts DEF IInv, TypeOK, AddRule
  <2>3. PICK raw \in Seq(Selector), after \in Expansions : ListsMean(raw, after)
    BY <2>1 DEF Meant
  <2>4. Trimmed = SelectorsIn(program, Current, OpenAt(Len(scopes)))
    BY <1>5, <2>3, MeanTrimmed
  <2>5. w \in Work /\ w.code # <<>> /\ Head(w.code) = Current
    <3>1. PICK q, j : q = Block.code /\ j = Block.next
      OBVIOUS
    <3>2. q \in Seq(Item) /\ j \in Nat \ {0} /\ j <= Len(q) /\ Current = q[j] /\ w \in Work /\ w.code = From(q, j)
      BY <2>0, <2>2, <3>1, BlockFacts, TopFacts DEF Current
    <3> QED BY <3>2, FromFacts
  <2>6. grown \in Seq(TreeNode)
    <3>1. InsideRule(program, w) \in Work
      BY <2>2, <2>5, InsideRuleFacts
    <3>2. grown = Trees(program)[InsideRule(program, w)]
      BY <2>0, <2>2, <2>5, FirstCases
    <3> QED BY <2>2, <3>1, <3>2, TreesSolve
  <2>7. trees2 \in Results
    <3>1. PICK r : r = [trees[n] EXCEPT ![k] = grown]
      OBVIOUS
    <3>2. trees \in [Nat -> [Nat -> Seq(TreeNode)]] /\ trees2 = [trees EXCEPT ![n] = r]
      BY <2>0, <3>1 DEF Results
    <3>3. r \in [Nat -> Seq(TreeNode)]
      BY <2>2, <2>6, <3>1, <3>2
    <3>4. trees2 \in [Nat -> [Nat -> Seq(TreeNode)]]
      BY <2>2, <3>2, <3>3
    <3> QED BY <3>4 DEF Results
  <2>8. TreesStand(env, trees2)'
    BY <1>2, <1>5, <2>0, <2>4, <2>7, TreesAddRule
  <2>9. EnvironmentsStand(env)'
    BY <1>2, <2>2 DEF EnvironmentsStand
  <2> QED BY <2>7, <2>8, <2>9 DEF StacksStand
<1>6. CASE EndCall
  <2>1. TreesStand(env, trees)'
    BY <1>2, <1>6, TreesEndCall
  <2>2. EnvironmentsStand(env)'
    <3>1. bindings \in Seq([Name -> BoundArg]) /\ bindings # <<>> /\ bindings' = SubSeq(bindings, 1, Len(bindings) - 1)
      BY <1>6 DEF IInv, TypeOK, EndCall
    <3>2. \A d \in DOMAIN bindings' : d \in DOMAIN bindings /\ bindings'[d] = bindings[d]
      BY <3>1
    <3> QED BY <1>2, <3>2 DEF EnvironmentsStand
  <2> QED BY <2>1, <2>2 DEF StacksStand
<1>7. CASE EndRule
  <2>1. TreesStand(env, trees)'
    BY <1>2, <1>7, TreesEndRule
  <2>2. EnvironmentsStand(env)'
    BY <1>2, <1>7 DEF EnvironmentsStand, EndRule
  <2> QED BY <2>1, <2>2 DEF StacksStand
<1>8. CASE \/ BeginRule \/ PushPart \/ PushComma \/ ExpandSelectorCall \/ DropSelectorCall
           \/ EndSelectorCall \/ Terminated \/ UNCHANGED vars
  <2>1. UNCHANGED <<program, nodes, current, bindings, scopes>>
    BY <1>8 DEF BeginRule, PushPart, PushComma, ExpandSelectorCall, DropSelectorCall, EndSelectorCall, Terminated, vars
  <2> QED BY <1>1, <2>1, StandUnchanged
<1> QED BY <1>3, <1>4, <1>5, <1>6, <1>7, <1>8 DEF Next

LEMMA ListsNext ==
  ASSUME IInv, Meant, [Next]_vars, IsFiniteSet(DOMAIN Builtins), lists' # <<>>
  PROVE  \E raw \in Seq(Selector), after \in Expansions : ListsMean(raw, after)'
<1>1. CASE BeginRule
  BY <1>1, MeanBegin
<1>2. CASE ~ BeginRule
  <2>1. lists # <<>>
    <3>1. CASE SetValue \/ Ignore \/ ExpandCall \/ DropCall \/ EndCall \/ AddRule \/ EndRule \/ Terminated
      <4>1. lists' = <<>>
        BY <3>1 DEF SetValue, Ignore, ExpandCall, DropCall, EndCall, AddRule, EndRule, InBlock, Terminated, Done, vars
      <4> QED BY <4>1
    <3>2. CASE PushPart \/ PushComma \/ ExpandSelectorCall \/ DropSelectorCall
      BY <3>2 DEF PushPart, PushComma, ExpandSelectorCall, DropSelectorCall, InList
    <3>3. CASE EndSelectorCall
      <4>1. Len(lists) > 1
        BY <3>3 DEF EndSelectorCall
      <4> QED BY <4>1
    <3>4. CASE UNCHANGED vars
      BY <3>4 DEF vars
    <3> QED BY <1>2, <3>1, <3>2, <3>3, <3>4 DEF Next
  <2>2. PICK raw \in Seq(Selector), after \in Expansions : ListsMean(raw, after)
    BY <2>1 DEF Meant
  <2>3. CASE PushPart \/ PushComma \/ DropSelectorCall
    <3>1. PICK raw2 \in Seq(Selector) : ListsMean(raw2, after)'
      BY <2>2, <2>3, MeanPush
    <3> QED BY <3>1
  <2>4. CASE ExpandSelectorCall
    <3>1. PICK after2 \in Expansions : ListsMean(raw, after2)'
      BY <2>2, <2>4, MeanExpand
    <3> QED BY <3>1
  <2>5. CASE EndSelectorCall
    <3>1. ListsMean(raw, after)'
      BY <2>2, <2>5, MeanEnd
    <3> QED BY <3>1
  <2>6. CASE UNCHANGED vars
    <3>1. ListsMean(raw, after)'
      BY <2>2, <2>6, ListsMeanUnchanged
    <3> QED BY <3>1
  <2>7. PushPart \/ PushComma \/ DropSelectorCall \/ ExpandSelectorCall \/ EndSelectorCall \/ UNCHANGED vars
    <3>1. CASE SetValue \/ Ignore \/ ExpandCall \/ DropCall \/ EndCall \/ AddRule \/ EndRule
      BY <3>1 DEF SetValue, Ignore, ExpandCall, DropCall, EndCall, AddRule, EndRule, InBlock
    <3>2. CASE Terminated
      BY <3>2 DEF Terminated
    <3> QED BY <1>2, <3>1, <3>2 DEF Next
  <2> QED BY <2>3, <2>4, <2>5, <2>6, <2>7
<1> QED BY <1>1, <1>2

(* The finished tree is the one the file means.                            *)
LEMMA MeantAtEnd ==
  ASSUME IInv, Meant, IsFiniteSet(DOMAIN Builtins), NEW levels, Nesting(levels)
  PROVE  CompilesToMeaning
<1> SUFFICES ASSUME Done PROVE nodes = Meaning(program)
  BY DEF CompilesToMeaning
<1>1. PICK env \in Environments, trees \in Results : TreesStand(env, trees)
  BY DEF Meant, StacksStand
<1>2. ~ (Block.next <= Len(Block.code))
  <2>1. Block.next > Len(Block.code)
    BY DEF Done
  <2> QED BY <2>1, BlockFacts DEF IInv
<1>3. trees[Len(scopes)][Top] = nodes
  BY <1>1, <1>2, EndResult
<1>4. Len(scopes) = 1 /\ Top = 1
  BY DEF Done, Top
<1> QED BY <1>1, <1>3, <1>4 DEF TreesStand

(* Where the builtins are finitely many and bodies finitely nested, as in  *)
(* every parsed file, the compiled tree is the meaning of the file.        *)
THEOREM CompilesCorrectly ==
  ASSUME IsFiniteSet(DOMAIN Builtins), NEW levels, Nesting(levels)
  PROVE  Spec => []CompilesToMeaning
<1>1. Init => IInv /\ Meant
  BY InitIInv, MeantInit
<1>2. IInv /\ Meant /\ [Next]_vars => (IInv /\ Meant)'
  <2> SUFFICES ASSUME IInv, Meant, [Next]_vars PROVE IInv' /\ Meant'
    OBVIOUS
  <2>1. IInv'
    BY NextIInv
  <2>2. Meant'
    BY <2>1, StacksNext, ListsNext DEF Meant
  <2> QED BY <2>1, <2>2
<1>3. IInv /\ Meant => CompilesToMeaning
  BY MeantAtEnd
<1> QED BY <1>1, <1>2, <1>3, PTL DEF Spec
=============================================================================
