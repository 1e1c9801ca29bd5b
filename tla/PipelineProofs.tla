--------------------------- MODULE PipelineProofs ---------------------------
(* Proofs about Pipeline: in a file without macro errors the compiler      *)
(* expands every call, for every file, set of macros and order of roots.   *)
EXTENDS Pipeline, TLAPS

-----------------------------------------------------------------------------
(* What the parts assume of their constants.                               *)

LEMMA NestedSame == Nested = Check!Nested
BY DEF Nested, Check!Nested, Inner, Check!Inner, Range, Check!Range

LEMMA CheckParts == Check!NestingAssumption /\ Check!CallsAssumption /\ Check!CodeAssumption
BY NestingAssumption, CallsAssumption, CodeAssumption
   DEF Check!NestingAssumption, Check!CallsAssumption, Check!CodeAssumption,
       Inner, Check!Inner, CheckedKey, Check!CheckedKey, Range, Check!Range

LEMMA SearchParts == Search!CallListsAssumption /\ Search!NoBodyAssumption
<1>1. Search!CallListsAssumption
  BY DEF Search!CallListsAssumption
<1> QED BY <1>1, PartsAssumption

(* The two readings of a sequence's range agree.                           *)
LEMMA RangeSame == \A f : Check!Range(f) = Range(f)
BY DEF Range, Check!Range

LEMMA FlattenSame == \A q : Check!FlattenSeq(q) = FlattenSeq(q)
BY DEF FlattenSeq, Check!FlattenSeq

LEMMA FlattenFacts ==
  ASSUME NEW S, NEW ss \in Seq(Seq(S))
  PROVE  /\ FlattenSeq(ss) \in Seq(S)
         /\ Range(FlattenSeq(ss)) = UNION {Range(ss[i]) : i \in DOMAIN ss}
<1>1. /\ Check!FlattenSeq(ss) \in Seq(S)
      /\ Check!Range(Check!FlattenSeq(ss)) = UNION {Check!Range(ss[i]) : i \in DOMAIN ss}
  BY CheckParts, Check!FlattenFacts
<1> QED BY <1>1, RangeSame, FlattenSame

(* What Where keeps.                                                       *)
LEMMA WhereFacts ==
  ASSUME NEW T, NEW q \in Seq(T), NEW S
  PROVE  /\ Where(q, S) \in Seq(T \cap S)
         /\ Range(Where(q, S)) = Range(q) \cap S
<1> DEFINE ss == [i \in DOMAIN q |-> IF q[i] \in S THEN <<q[i]>> ELSE <<>>]
           n == Len(q)
<1>1. n \in Nat /\ DOMAIN q = 1 .. n /\ \A i \in 1 .. n : q[i] \in T
  OBVIOUS
<1>2. \A i \in 1 .. n : ss[i] \in Seq(T \cap S)
  BY <1>1
<1>3. ss \in Seq(Seq(T \cap S))
  <2>1. ss = [i \in 1 .. n |-> ss[i]]
    BY <1>1
  <2> HIDE DEF ss, n
  <2> QED BY <1>1, <1>2, <2>1
<1>4. \A i \in 1 .. n : Range(ss[i]) = {q[i]} \cap S
  BY <1>1 DEF Range
<1>5. Range(q) = {q[i] : i \in 1 .. n} /\ DOMAIN ss = 1 .. n
  BY <1>1 DEF Range
<1>6. Where(q, S) = FlattenSeq(ss)
  BY DEF Where
<1> HIDE DEF ss, n
<1>7. UNION {Range(ss[i]) : i \in 1 .. n} = Range(q) \cap S
  BY <1>4, <1>5
<1> QED BY <1>3, <1>5, <1>6, <1>7, FlattenFacts
(* The file as the compiler takes it.                                      *)
LEMMA CodeFacts ==
  ASSUME NEW f \in Files
  PROVE  /\ Len(f.code) \in Nat /\ DOMAIN f.code = 1 .. Len(f.code)
         /\ \A c \in Range(f.code) : c.kind # "macro" => c \in Item
         /\ \A c \in MacrosOf(f) : c \in Definition /\ c.key \in Key /\ c.macro \in Compile!Macro
<1>1. f.code \in Seq(Item \cup Definition)
  BY FilesAssumption
<1>2. \A c \in Definition : c.kind = "macro" /\ c.key \in Key /\ c.macro \in Compile!Macro
  BY DEF Definition
<1>3. \A c \in MacrosOf(f) : c \in Definition
  BY FilesAssumption
<1>4. \A c \in Range(f.code) : c \in Item \cup Definition
  BY <1>1 DEF Range
<1> QED BY <1>1, <1>2, <1>3, <1>4 DEF MacrosOf

(* A body that is a call of a macro has a key.                             *)
LEMMA BodyKey ==
  ASSUME NEW f \in Files, NEW c \in MacrosOf(f),
         c.macro.body.kind = "datatype", c.macro.body.content.kind = "call"
  PROVE  Check!CheckedKey(c.macro.body.content) \in Key
BY CheckParts DEF Check!CodeAssumption, MacrosOf, Range, Check!Range

LEMMA CompiledFacts ==
  ASSUME NEW f \in Files
  PROVE  /\ Compiled(f).top \in Seq(Item)
         /\ Range(Compiled(f).top) = Range(f.code) \ MacrosOf(f)
         /\ Compiled(f).macros \in Seq([key : Key, macro : Compile!Macro])
         /\ Range(Compiled(f).macros) = {[key |-> c.key, macro |-> c.macro] : c \in MacrosOf(f)}
         /\ Compiled(f).nobuiltins = f.nobuiltins
<1> DEFINE M == MacrosOf(f)
           R == Range(f.code)
           defs == Where(f.code, M)
           ms == [i \in DOMAIN defs |-> [key |-> defs[i].key, macro |-> defs[i].macro]]
<1>1. /\ Where(f.code, R \ M) \in Seq((Item \cup Definition) \cap (R \ M))
      /\ Range(Where(f.code, R \ M)) = R \ M
      /\ defs \in Seq((Item \cup Definition) \cap M)
      /\ Range(defs) = M
  <2>1. /\ f.code \in Seq(Item \cup Definition)
        /\ Range(f.code) \cap (R \ M) = R \ M /\ Range(f.code) \cap M = M
    BY FilesAssumption DEF MacrosOf
  <2> HIDE DEF M, R
  <2> QED BY <2>1, WhereFacts
<1>2. R \ M \subseteq Item
  BY CodeFacts DEF MacrosOf
<1>3. Where(f.code, R \ M) \in Seq(Item)
  <2> DEFINE q == Where(f.code, R \ M)
  <2> HIDE DEF q, M, R
  <2> QED BY <1>1, <1>2 DEF q
<1>4. \A c \in M : [key |-> c.key, macro |-> c.macro] \in [key : Key, macro : Compile!Macro]
  BY CodeFacts
<1>5. /\ Compiled(f).top = Where(f.code, R \ M)
      /\ Compiled(f).macros = ms
      /\ Compiled(f).nobuiltins = f.nobuiltins
  BY DEF Compiled
<1>6. Len(defs) \in Nat /\ DOMAIN defs = 1 .. Len(defs) /\ \A i \in DOMAIN defs : defs[i] \in M
  <2> HIDE DEF defs, M
  <2> QED BY <1>1
<1>7. ms \in Seq([key : Key, macro : Compile!Macro])
  <2> HIDE DEF defs, M
  <2> QED BY <1>4, <1>6
<1>8. Range(ms) = {[key |-> c.key, macro |-> c.macro] : c \in M}
  <2>1. M = {defs[i] : i \in DOMAIN defs}
    BY <1>1 DEF Range
  <2> HIDE DEF defs, M
  <2>2. Range(ms) = {[key |-> defs[i].key, macro |-> defs[i].macro] : i \in DOMAIN defs}
    BY <1>6 DEF Range
  <2> QED BY <2>1, <2>2
<1> QED BY <1>1, <1>3, <1>5, <1>7, <1>8

LEMMA CompileParts ==
  /\ Compile!KeyAssumption /\ Compile!NilAssumption /\ Compile!CoerceAssumption
  /\ Compile!ExprAssumption /\ Compile!SelectorAssumption /\ Compile!ItemAssumption
  /\ Compile!BuiltinsAssumption /\ Compile!ProgramsAssumption
<1>1. Compile!ProgramsAssumption
  BY CompiledFacts, FilesAssumption DEF Compile!ProgramsAssumption, Programs
<1> QED BY <1>1, PartsAssumption
-----------------------------------------------------------------------------
(* A file without errors, checked and searched to the end.                 *)

Sound ==
  /\ Check!IInv /\ Check!Done
  /\ program = Compiled(file) /\ Compile!TypeOK
  /\ graph = CallGraph /\ Search!IInv /\ Search!Done
  /\ Silent /\ Plain

(* Each macro is known as it is written, under a key of its own.           *)
LEMMA KnownFacts ==
  ASSUME Sound
  PROVE  /\ file \in Files
         /\ DOMAIN known = {m.key : m \in Macros}
         /\ DOMAIN known \cap DOMAIN Builtins = {}
         /\ \A m \in Macros :
              /\ known[m.key].body = m.macro.body /\ known[m.key].returns = m.returns
              /\ \A d \in Macros : d.key = m.key => d = m
<1> DEFINE q == file.code
           P == {i \in DOMAIN q : q[i].kind = "macro"}
<1>1. file \in Files /\ errors = {} /\ ~file.nobuiltins /\ at \in Nat
  BY DEF Sound, Silent, Plain, Check!IInv
<1>2. Len(q) \in Nat /\ DOMAIN q = 1 .. Len(q) /\ ~(at <= Len(q))
  BY <1>1, CodeFacts DEF Sound, Check!Done
<1>3. \A i \in DOMAIN q : i < at
  BY <1>1, <1>2
<1>4. Check!Passed = P
  BY <1>3 DEF Check!Passed
<1>5. /\ DOMAIN known = {q[i].key : i \in P}
      /\ DOMAIN known \cap DOMAIN Builtins = {}
      /\ \A i \in P : /\ known[q[i].key].body = q[i].macro.body
                      /\ known[q[i].key].returns = q[i].returns
                      /\ \A j \in P : q[i].key = q[j].key => i = j
  BY <1>1, <1>4 DEF Sound, Check!IInv, Check!KnownAsDefined
<1>6. Macros = {q[i] : i \in P}
  BY <1>2 DEF Macros, MacrosOf, Range
<1> HIDE DEF P, q
<1>7. DOMAIN known = {m.key : m \in Macros}
  BY <1>5, <1>6
<1>8. \A m \in Macros :
        /\ known[m.key].body = m.macro.body /\ known[m.key].returns = m.returns
        /\ \A d \in Macros : d.key = m.key => d = m
  BY <1>5, <1>6
<1> QED BY <1>1, <1>5, <1>7, <1>8

(* So the compiler finds the same macro under a key as the checker did.    *)
LEMMA ResolveMacro ==
  ASSUME Sound, NEW m \in Macros
  PROVE  Compile!Resolve(m.key) = m.macro
<1> DEFINE ms == program.macros
           defs == {i \in DOMAIN ms : ms[i].key = m.key}
<1>1. /\ ms \in Seq([key : Key, macro : Compile!Macro])
      /\ Range(ms) = {[key |-> c.key, macro |-> c.macro] : c \in Macros}
  BY KnownFacts, CompiledFacts DEF Sound, Macros
<1>2. Len(ms) \in Nat /\ DOMAIN ms = 1 .. Len(ms)
  BY <1>1
<1>3. \A i \in defs : ms[i].macro = m.macro
  <2> TAKE i \in defs
  <2>1. PICK c \in Macros : ms[i] = [key |-> c.key, macro |-> c.macro]
    BY <1>1 DEF Range
  <2>2. c = m
    BY <2>1, KnownFacts
  <2> QED BY <2>1, <2>2
<1>4. defs # {} /\ defs \in SUBSET (1 .. Len(ms))
  <2>1. [key |-> m.key, macro |-> m.macro] \in Range(ms)
    BY <1>1
  <2>2. PICK i \in DOMAIN ms : ms[i] = [key |-> m.key, macro |-> m.macro]
    BY <2>1 DEF Range
  <2> QED BY <1>2, <2>2
<1> HIDE DEF ms
<1>5. \E i \in defs : \A j \in defs : j <= i
  <2> HIDE DEF defs
  <2> QED BY <1>2, <1>4, CompileParts, Compile!LastExists
<1>6. (CHOOSE i \in defs : \A j \in defs : j <= i) \in defs
  <2> HIDE DEF defs
  <2> QED BY <1>5
<1>7. Compile!Local(m.key) = m.macro
  BY <1>3, <1>4, <1>6 DEF Compile!Local, ms
<1>8. m.macro.body # Compile!NoBody
  BY DEF Sound, Plain
<1> QED BY <1>7, <1>8 DEF Compile!Resolve

LEMMA ResolveOther ==
  ASSUME Sound, NEW k, k \notin DOMAIN known
  PROVE  Compile!Resolve(k) = IF k \in DOMAIN Builtins THEN Builtins[k] ELSE Compile!NoMacro
<1> DEFINE ms == program.macros
<1>1. /\ Range(ms) = {[key |-> c.key, macro |-> c.macro] : c \in Macros}
      /\ ~program.nobuiltins
  BY KnownFacts, CompiledFacts DEF Sound, Macros, Plain
<1>2. \A i \in DOMAIN ms : ms[i].key # k
  <2> TAKE i \in DOMAIN ms
  <2>1. PICK c \in Macros : ms[i] = [key |-> c.key, macro |-> c.macro]
    BY <1>1 DEF Range
  <2> QED BY <2>1, KnownFacts
<1>3. Compile!Local(k) = Compile!NoMacro
  BY <1>2 DEF Compile!Local
<1> QED BY <1>1, <1>3 DEF Compile!Resolve, Compile!NoMacro

(* A call without an error finds a macro of the kind it stands for.        *)
LEMMA FoundFacts ==
  ASSUME Sound, NEW call, NEW context, ~call.trailing,
         Check!CallErrors(known, call, context) = {}
  PROVE  /\ call.key \in DOMAIN known \cup DOMAIN Builtins
         /\ Compile!Resolve(call.key).body.kind = context
<1> DEFINE k == call.key
<1>1. Check!CheckedKey(call) = k
  BY DEF Check!CheckedKey
<1>2. /\ k \in DOMAIN known \cup DOMAIN Builtins
      /\ Check!ReturnContext(known, k) = context
  BY <1>1, CheckParts, Check!CallFound
<1>3. CASE k \in DOMAIN known
  <2>1. PICK m \in Macros : m.key = k
    BY <1>3, KnownFacts
  <2>2. context = m.macro.body.kind
    <3>1. context = m.returns
      BY <1>2, <1>3, <2>1, KnownFacts DEF Check!ReturnContext
    <3>2. m.macro.body # Compile!NoBody
      BY DEF Sound, Plain
    <3> QED BY <3>1, <3>2, KnownFacts, FilesAssumption DEF Macros
  <2> QED BY <1>2, <2>1, <2>2, ResolveMacro
<1>4. CASE k \notin DOMAIN known
  BY <1>2, <1>4, ResolveOther DEF Check!ReturnContext
<1> QED BY <1>3, <1>4
-----------------------------------------------------------------------------
(* Every construct of such a file is free of errors.                       *)

LEMMA TopClean ==
  ASSUME Sound, NEW t \in Range(file.code) \ Macros
  PROVE  Check!RuleErrors(known, t) = {}
<1>1. PICK i \in DOMAIN file.code : file.code[i] = t
  BY DEF Range
<1>2. /\ errors = {} /\ ~file.nobuiltins /\ at \in Nat /\ file \in Files
      /\ t.kind # "macro"
  BY DEF Sound, Silent, Plain, Check!IInv, Macros, MacrosOf
<1>3. i < at
  BY <1>2, CodeFacts DEF Sound, Check!Done
<1> QED BY <1>1, <1>2, <1>3 DEF Sound, Check!IInv, Check!PassedIsClean

LEMMA MacroClean ==
  ASSUME Sound, NEW m \in Macros
  PROVE  Check!BodyErrors(known, m.macro) = {}
<1>1. PICK i \in DOMAIN file.code : file.code[i] = m
  BY DEF Range, Macros, MacrosOf
<1>2. /\ errors = {} /\ ~file.nobuiltins /\ at \in Nat /\ file \in Files
      /\ m.kind = "macro"
  BY DEF Sound, Silent, Plain, Check!IInv, Macros, MacrosOf
<1>3. i < at
  BY <1>2, CodeFacts DEF Sound, Check!Done
<1> QED BY <1>1, <1>2, <1>3 DEF Sound, Check!IInv, Check!PassedIsClean

LEMMA OutsideClean ==
  ASSUME Sound, NEW c \in Outside
  PROVE  Check!OutsideErrors(known, c) = {}
<1>1. PICK t \in Range(program.top) : c \in Check!Nested[t]
  BY NestedSame DEF Outside, NestedIn
<1>2. t \in Range(file.code) \ Macros
  BY <1>1, KnownFacts, CompiledFacts DEF Sound, Macros
<1>3. Check!RuleErrors(known, t) = {}
  BY <1>2, TopClean
<1> QED BY <1>1, <1>3 DEF Check!RuleErrors

LEMMA InsideClean ==
  ASSUME Sound, NEW m \in Macros, NEW c \in Inside(m)
  PROVE  Check!InsideErrors(known, c, Range(m.macro.args)) = {}
<1>1. PICK t \in Range(m.macro.body.content) : c \in Check!Nested[t]
  BY NestedSame DEF Inside, NestedIn
<1>2. m.macro.body.kind = "construct"
  BY DEF Inside
<1>3. Check!ContentErrors(known, t, Range(m.macro.args)) = {}
  BY <1>1, <1>2, MacroClean, RangeSame DEF Check!BodyErrors
<1> QED BY <1>1, <1>3 DEF Check!ContentErrors

-----------------------------------------------------------------------------
(* The constructs a key stands for: those of a macro of the file, or of a  *)
(* builtin, or none.                                                       *)

LEMMA NestedInFacts ==
  ASSUME NEW q \in Seq(Item)
  PROVE  /\ NestedIn(q) \subseteq Item
         /\ \A n \in DOMAIN q : q[n] \in NestedIn(q)
         /\ \A c \in NestedIn(q) : c.kind = "rule" => \A n \in DOMAIN c.body : c.body[n] \in NestedIn(q)
<1>1. Range(q) \subseteq Item /\ \A n \in DOMAIN q : q[n] \in Range(q)
  BY DEF Range
<1>2. \A c \in Item : /\ c \in Check!Nested[c] /\ Check!Nested[c] \subseteq Item
                      /\ \A d \in Check!Nested[c] : Check!Inner(d) \subseteq Check!Nested[c]
  BY CheckParts, Check!NestedClosed
<1>3. \A c \in Item : c.kind = "rule" => \A n \in DOMAIN c.body : c.body[n] \in Check!Inner(c)
  BY DEF Check!Inner, Check!Range
<1> QED BY <1>1, <1>2, <1>3, NestedSame DEF NestedIn

LEMMA GroundCases ==
  ASSUME Sound, NEW k \in Key
  PROVE  \/ Ground[k] = {}
         \/ /\ k \in DOMAIN known
            /\ \E m \in Macros : /\ m.key = k /\ Compile!Resolve(k) = m.macro
                                 /\ m.macro.body.kind = "construct" /\ Ground[k] = Inside(m)
         \/ /\ k \in DOMAIN Builtins \ DOMAIN known
            /\ Compile!Resolve(k) = Builtins[k]
            /\ Builtins[k].body.kind = "construct" /\ Ground[k] = NestedIn(Builtins[k].body.content)
<1>1. Ground[k] = IF Compile!Resolve(k).body.kind = "construct"
                  THEN NestedIn(Compile!Resolve(k).body.content) ELSE {}
  BY CompileParts DEF Ground, Compile!KeyAssumption
<1>2. CASE k \in DOMAIN known
  <2>1. PICK m \in Macros : m.key = k
    BY <1>2, KnownFacts
  <2>2. Compile!Resolve(k) = m.macro
    BY <2>1, ResolveMacro
  <2> QED BY <1>1, <1>2, <2>1, <2>2 DEF Inside
<1>3. CASE k \in DOMAIN Builtins \ DOMAIN known
  BY <1>1, <1>3, ResolveOther
<1>4. CASE k \notin DOMAIN known \cup DOMAIN Builtins
  BY <1>1, <1>4, ResolveOther DEF Compile!NoMacro, Compile!NoBody
<1> QED BY <1>2, <1>3, <1>4

LEMMA GroundOutside == Ground[NoKey] = Outside
BY DEF Ground

LEMMA ResolveTyped ==
  ASSUME Sound, NEW k
  PROVE  /\ Compile!Resolve(k) \in Compile!Macro
         /\ Compile!Resolve(k).body.kind = "construct" => Compile!Resolve(k).body.content \in Seq(Item)
         /\ Compile!Resolve(k).body.kind = "selector" => Compile!Resolve(k).body.content \in Seq(Selector)
<1>1. Compile!Resolve(k) \in Compile!Macro
  BY CompileParts, Compile!ResolveType DEF Sound
<1> DEFINE b == Compile!Resolve(k).body
<1>2. b \in Compile!Body
  BY <1>1 DEF Compile!Macro
<1> HIDE DEF b
<1>3. /\ b.kind = "construct" => b.content \in Seq(Item)
      /\ b.kind = "selector" => b.content \in Seq(Selector)
  BY <1>2 DEF Compile!Body, Compile!NoBody
<1> QED BY <1>1, <1>3 DEF b

LEMMA FileGrounded ==
  ASSUME Sound
  PROVE  Compile!Grounded(Ground)
<1>1. program.top \in Seq(Item)
  BY KnownFacts, CompiledFacts DEF Sound
<1>2. ASSUME NEW k \in Key, Compile!Resolve(k).body.kind = "construct"
      PROVE  /\ Compile!Resolve(k).body.content \in Seq(Item)
             /\ Ground[k] = NestedIn(Compile!Resolve(k).body.content)
  BY <1>2, ResolveTyped, CompileParts DEF Ground, Compile!KeyAssumption
<1>3. ASSUME NEW k \in Key, Compile!Resolve(k).body.kind # "construct"
      PROVE  Ground[k] = {}
  BY <1>3, CompileParts DEF Ground, Compile!KeyAssumption
<1>4. \A n \in DOMAIN program.top : program.top[n] \in Ground[NoKey]
  BY <1>1, NestedInFacts, GroundOutside DEF Outside
<1>5. \A k \in Key : Compile!Resolve(k).body.kind = "construct" =>
        \A n \in DOMAIN Compile!Resolve(k).body.content :
          Compile!Resolve(k).body.content[n] \in Ground[k]
  BY <1>2, NestedInFacts
<1>6. ASSUME NEW k \in Key \cup {NoKey}, NEW c \in Ground[k], c.kind = "rule", NEW n \in DOMAIN c.body
      PROVE  c.body[n] \in Ground[k]
  <2>1. CASE k = NoKey
    BY <1>1, <1>6, <2>1, NestedInFacts, GroundOutside DEF Outside
  <2>2. CASE k # NoKey
    BY <1>2, <1>3, <1>6, <2>2, NestedInFacts
  <2> QED BY <2>1, <2>2
<1> QED BY <1>4, <1>5, <1>6 DEF Compile!Grounded
-----------------------------------------------------------------------------
(* The order in which the search finished the macros ranks their calls.    *)

LEMMA FinishedFacts ==
  ASSUME Sound
  PROVE  /\ finished \in Seq(Key)
         /\ DOMAIN known = DOMAIN graph /\ DOMAIN known \subseteq Key
         /\ \A k \in DOMAIN known : \E i \in DOMAIN finished : finished[i] = k
         /\ \A i \in DOMAIN finished : finished[i] \in DOMAIN known
         /\ \A i, j \in DOMAIN finished : finished[i] = finished[j] => i = j
<1>1. Search!TypeOK /\ Search!ColorsMatchStack /\ Search!RootsColored /\ frames = <<>> /\ roots = {}
  BY DEF Sound, Search!IInv, Search!Done
<1>2. DOMAIN known = DOMAIN graph
  BY DEF Sound, CallGraph
<1>3. finished \in Seq(Key) /\ DOMAIN graph \subseteq Key /\ color \in [Key -> {"None", "Gray", "Black"}]
  BY <1>1 DEF Search!TypeOK, Search!Registered
<1>4. 1 .. Search!Depth = {}
  BY <1>1 DEF Search!Depth
<1>5. \A k \in Key : color[k] # "Gray"
  BY <1>1, <1>4 DEF Search!ColorsMatchStack
<1>6. \A k \in DOMAIN graph : color[k] # "None"
  BY <1>1 DEF Search!RootsColored, Search!Registered
<1>7. \A k \in DOMAIN graph : color[k] = "Black"
  BY <1>3, <1>5, <1>6
<1>8. \A i \in DOMAIN finished : finished[i] \in Key
  BY <1>3
<1>9. \A i \in DOMAIN finished : color[finished[i]] = "Black"
  BY <1>1, <1>8 DEF Search!ColorsMatchStack
<1>10. \A i \in DOMAIN finished : finished[i] \in DOMAIN graph
  BY <1>1, <1>8, <1>9 DEF Search!ColorsMatchStack, Search!Registered
<1>11. \A k \in DOMAIN graph : \E i \in DOMAIN finished : finished[i] = k
  BY <1>1, <1>3, <1>7 DEF Search!ColorsMatchStack
<1> QED BY <1>1, <1>2, <1>3, <1>10, <1>11 DEF Search!ColorsMatchStack

LEMMA RankFacts ==
  ASSUME Sound
  PROVE  /\ Rank \in [Key -> Nat]
         /\ \A i \in DOMAIN finished : Rank[finished[i]] = i
         /\ \A k \in Key \ DOMAIN known : Rank[k] = 0
<1>1. \A i \in DOMAIN finished : i \in Nat /\ finished[i] \in Key
  BY FinishedFacts
<1>2. ASSUME NEW k \in Key PROVE Rank[k] \in Nat
  <2>1. CASE \E i \in DOMAIN finished : finished[i] = k
    <3>1. (CHOOSE i \in DOMAIN finished : finished[i] = k) \in DOMAIN finished
      BY <2>1
    <3> QED BY <1>1, <2>1, <3>1 DEF Rank
  <2>2. CASE ~(\E i \in DOMAIN finished : finished[i] = k)
    BY <2>2 DEF Rank
  <2> QED BY <2>1, <2>2
<1>3. Rank \in [Key -> Nat]
  <2>1. Rank = [k \in Key |-> Rank[k]]
    BY DEF Rank
  <2> QED BY <1>2, <2>1
<1>4. ASSUME NEW i \in DOMAIN finished PROVE Rank[finished[i]] = i
  <2> DEFINE j == CHOOSE n \in DOMAIN finished : finished[n] = finished[i]
  <2>1. j \in DOMAIN finished /\ finished[j] = finished[i]
    OBVIOUS
  <2>2. Rank[finished[i]] = j
    BY <1>1 DEF Rank
  <2> HIDE DEF j
  <2> QED BY <2>1, <2>2, FinishedFacts
<1>5. ASSUME NEW k \in Key \ DOMAIN known PROVE Rank[k] = 0
  BY FinishedFacts DEF Rank
<1> QED BY <1>3, <1>4, <1>5

(* A key of the file or of the builtins that the body of k calls.          *)
LEMMA CallRanks ==
  ASSUME Sound, NEW k \in DOMAIN known, known[k].body # Compile!NoBody,
         NEW c \in Key, c \in Check!Range(Check!BodyCalls(known[k].body))
  PROVE  /\ Rank[c] < Rank[k]
         /\ \E n \in DOMAIN graph[k] : graph[k][n] = c
<1> DEFINE calls == Check!BodyCalls(known[k].body)
<1>1. graph[k] = calls
  BY DEF Sound, CallGraph
<1>2. PICK m \in Macros : m.key = k
  BY KnownFacts
<1>3. m.macro.body = known[k].body /\ Compile!Resolve(k) = m.macro
  BY <1>2, KnownFacts, ResolveMacro
<1>4. calls \in Seq(Key)
  <2>1. m.macro.body.kind = "datatype" /\ m.macro.body.content.kind = "call" =>
          Check!CheckedKey(m.macro.body.content) \in Key
    BY KnownFacts, BodyKey DEF Macros
  <2> QED BY <1>3, <2>1, ResolveTyped, CheckParts, Check!BodyCallsFacts
<1>5. Search!Calls(k) = calls
  BY <1>1, <1>4, SearchParts DEF Search!Calls, Search!NoBodyAssumption
<1> HIDE DEF calls
<1>6. PICK n \in DOMAIN calls : calls[n] = c
  BY DEF calls, Check!Range
<1> DEFINE s == <<k, n>>
<1>7. s \in Search!Sites
  <2>1. k \in Search!Registered /\ n \in DOMAIN Search!Calls(k)
    BY <1>5, FinishedFacts DEF Search!Registered
  <2> QED BY <2>1, SearchParts, Search!SitePair
<1>8. Search!Callee(s) = c /\ s[1] = k
  BY <1>5, <1>6 DEF Search!Callee
<1> HIDE DEF s
<1>9. PICK i \in DOMAIN finished : finished[i] = k
  BY FinishedFacts
<1>10. i \in Nat \ {0} /\ DOMAIN finished = 1 .. Len(finished) /\ Len(finished) \in Nat
  BY FinishedFacts
<1>11. Rank[k] = i
  BY <1>9, RankFacts
<1>12. CASE c \in DOMAIN known
  <2>1. PICK j \in 1 .. (i - 1) : finished[j] = c
    <3>1. ~(\E r \in DOMAIN reports : reports[r] = s)
      BY DEF Sound, Silent
    <3>2. c \in Search!Registered
      BY <1>12, FinishedFacts DEF Search!Registered
    <3> QED BY <1>7, <1>8, <1>9, <3>1, <3>2 DEF Sound, Search!IInv, Search!UnreportedCallsRank
  <2>2. j \in DOMAIN finished /\ j < i
    BY <1>9, <1>10
  <2> QED BY <1>1, <1>6, <1>11, <2>1, <2>2, RankFacts
<1>13. CASE c \notin DOMAIN known
  BY <1>1, <1>6, <1>10, <1>11, <1>13, RankFacts
<1> QED BY <1>12, <1>13
-----------------------------------------------------------------------------
(* In such a file every call finds its macro.                              *)

LEMMA PlainCalls ==
  ASSUME Sound
  PROVE  /\ \A c \in Outside : /\ c.kind = "call" => ~c.trailing
                               /\ c.kind = "rule" => \A s \in Range(c.selectors) : s.kind = "call" => ~s.trailing
         /\ \A m \in Macros : \A c \in Inside(m) : c.kind = "call" => ~c.trailing
         /\ \A m \in Macros : m.macro.body.kind = "selector" =>
              \A s \in Range(m.macro.body.content) : s.kind = "call" => ~s.trailing
<1>1. /\ \A c \in Everything : \A call \in CallsOf(c) : ~call.trailing
      /\ \A call \in SelectorMacroCalls : ~call.trailing
  BY DEF Sound, Plain
<1>2. ASSUME NEW c \in Everything
      PROVE  /\ c.kind = "call" => ~c.trailing
             /\ c.kind = "rule" => \A s \in Range(c.selectors) : s.kind = "call" => ~s.trailing
  <2>1. \A call \in CallsOf(c) : ~call.trailing
    BY <1>1
  <2>2. c.kind = "call" => CallsOf(c) = {c}
    BY DEF CallsOf
  <2>3. c.kind = "rule" => CallsOf(c) = {s \in Range(c.selectors) : s.kind = "call"}
    BY DEF CallsOf
  <2> QED BY <2>1, <2>2, <2>3
<1>3. /\ \A c \in Outside : c \in Everything
      /\ \A m \in Macros : \A c \in Inside(m) : c \in Everything
  BY DEF Everything
<1>4. ASSUME NEW m \in Macros, m.macro.body.kind = "selector",
             NEW s \in Range(m.macro.body.content), s.kind = "call"
      PROVE  s \in SelectorMacroCalls
  BY <1>4 DEF SelectorMacroCalls
<1> QED BY <1>1, <1>2, <1>3, <1>4

LEMMA OutsideCalls ==
  ASSUME Sound, NEW c \in Outside, c.kind = "call"
  PROVE  /\ c.key \in DOMAIN known \cup DOMAIN Builtins
         /\ Compile!Resolve(c.key).body.kind = "construct"
<1>1. Check!CallErrors(known, c, "construct") = {}
  BY OutsideClean DEF Check!OutsideErrors
<1> QED BY <1>1, PlainCalls, FoundFacts

LEMMA InsideCalls ==
  ASSUME Sound, NEW m \in Macros, NEW c \in Inside(m), c.kind = "call"
  PROVE  /\ c.key \in DOMAIN known \cup DOMAIN Builtins
         /\ Compile!Resolve(c.key).body.kind = "construct"
         /\ Rank[c.key] < Rank[m.key]
         /\ \E n \in DOMAIN graph[m.key] : graph[m.key][n] = c.key
<1>1. Check!CallErrors(known, c, "construct") = {}
  BY InsideClean DEF Check!InsideErrors
<1>2. ~c.trailing
  BY PlainCalls
<1>3. /\ c.key \in DOMAIN known \cup DOMAIN Builtins
      /\ Compile!Resolve(c.key).body.kind = "construct"
  BY <1>1, <1>2, FoundFacts
<1>4. m.key \in DOMAIN known /\ known[m.key].body = m.macro.body /\ m.macro.body # Compile!NoBody
  BY KnownFacts DEF Sound, Plain
<1>5. /\ m.macro.body.kind = "construct" /\ m.macro.body.content \in Seq(Item)
      /\ c \in Item
  BY ResolveMacro, ResolveTyped, NestedInFacts DEF Inside
<1>6. PICK t \in Range(m.macro.body.content) : c \in Check!Nested[t]
  BY NestedSame DEF Inside, NestedIn
<1>7. c.key \in Key /\ Check!CheckedKey(c) = c.key
  BY <1>2, <1>5, CompileParts DEF Compile!ItemAssumption, Check!CheckedKey
<1>8. c.key \in Check!Range(Check!BodyCalls(m.macro.body))
  BY <1>5, <1>6, <1>7, RangeSame, CheckParts, Check!BodyCallsFacts
<1> QED BY <1>3, <1>4, <1>7, <1>8, CallRanks

LEMMA SelectorMacros ==
  ASSUME Sound, NEW k \in Key, Compile!Resolve(k).body.kind = "selector",
         NEW s \in Range(Compile!Resolve(k).body.content), s.kind = "call"
  PROVE  Compile!Resolve(s.key).body.kind = "selector" /\ Rank[s.key] < Rank[k]
<1>1. CASE k \in DOMAIN known
  <2>1. PICK m \in Macros : m.key = k
    BY <1>1, KnownFacts
  <2>2. Compile!Resolve(k) = m.macro /\ known[k].body = m.macro.body /\ m.macro.body # Compile!NoBody
    BY <2>1, ResolveMacro, KnownFacts DEF Sound, Plain
  <2>3. m.macro.body.kind = "selector" /\ m.macro.body.content \in Seq(Selector)
    BY <2>2, ResolveTyped
  <2>4. s \in Range(m.macro.body.content)
    BY <2>2
  <2>5. Check!CallErrors(known, s, "selector") = {}
    <3>1. Check!BodyErrors(known, m.macro) = {}
      BY MacroClean
    <3> QED BY <2>3, <2>4, <3>1, RangeSame DEF Check!BodyErrors
  <2>6. ~s.trailing
    BY <2>3, <2>4, PlainCalls
  <2>7. Compile!Resolve(s.key).body.kind = "selector"
    BY <2>5, <2>6, FoundFacts
  <2>8. s \in Selector /\ s.key \in Key /\ Check!CheckedKey(s) = s.key
    BY <2>3, <2>4, <2>6, CompileParts DEF Compile!SelectorAssumption, Check!CheckedKey, Range
  <2>9. s.key \in Check!Range(Check!BodyCalls(m.macro.body))
    BY <2>3, <2>4, <2>8, RangeSame, CheckParts, Check!BodyCallsFacts
  <2> QED BY <1>1, <2>2, <2>7, <2>8, <2>9, CallRanks
<1>2. CASE k \in DOMAIN Builtins \ DOMAIN known
  BY <1>2, ResolveOther, BuiltinsFileAssumption
<1>3. CASE k \notin DOMAIN known \cup DOMAIN Builtins
  BY <1>3, ResolveOther DEF Compile!NoMacro, Compile!NoBody
<1> QED BY <1>1, <1>2, <1>3

(* A call in the constructs of a macro.                                    *)
LEMMA GroundCalls ==
  ASSUME Sound, NEW k \in Key, NEW c \in Ground[k], c.kind = "call"
  PROVE  /\ Compile!Resolve(c.key).body.kind = "construct"
         /\ Rank[c.key] < Rank[k]
         /\ k \in DOMAIN graph
         /\ \E n \in DOMAIN graph[k] : graph[k][n] = c.key
<1>1. PICK m \in Macros : m.key = k /\ Ground[k] = Inside(m) /\ k \in DOMAIN known
  BY GroundCases, BuiltinsFileAssumption
<1> QED BY <1>1, InsideCalls, FinishedFacts

LEMMA FileCallsFound ==
  ASSUME Sound
  PROVE  Compile!CallsFound(Ground, Rank)
<1>1. Rank \in [Key -> Nat]
  BY RankFacts
<1>2. ASSUME NEW k \in Key \cup {NoKey}, NEW c \in Ground[k], c.kind = "call"
      PROVE  /\ Compile!Resolve(c.key).body.kind = "construct"
             /\ k # NoKey => Rank[c.key] < Rank[k]
  BY <1>2, GroundOutside, OutsideCalls, GroundCalls
<1>3. ASSUME NEW k \in Key, Compile!Resolve(k).body.kind = "selector",
             NEW n \in DOMAIN Compile!Resolve(k).body.content,
             Compile!Resolve(k).body.content[n].kind = "call"
      PROVE  /\ Compile!Resolve(Compile!Resolve(k).body.content[n].key).body.kind = "selector"
             /\ Rank[Compile!Resolve(k).body.content[n].key] < Rank[k]
  <2>1. Compile!Resolve(k).body.content[n] \in Range(Compile!Resolve(k).body.content)
    BY DEF Range
  <2> QED BY <1>3, <2>1, SelectorMacros
<1> HIDE DEF Ground, Rank
<1> QED BY <1>1, <1>2, <1>3 DEF Compile!CallsFound
LEMMA FileSelectorsFound ==
  ASSUME Sound, SelectorsReached
  PROVE  Compile!SelectorsFound(Ground)
<1> SUFFICES ASSUME NEW k \in Key \cup {NoKey}, NEW c \in Ground[k], c.kind = "rule",
                    NEW n \in DOMAIN c.selectors, c.selectors[n].kind = "call"
             PROVE  Compile!Resolve(c.selectors[n].key).body.kind = "selector"
  BY DEF Compile!SelectorsFound
<1> DEFINE s == c.selectors[n]
<1>1. s \in Range(c.selectors) /\ s.kind = "call"
  BY DEF Range
<1>2. CASE k = NoKey
  <2>1. c \in Outside
    BY <1>2, GroundOutside
  <2>2. s \in Check!Reached(c.selectors)
    BY <1>1, <2>1 DEF SelectorsReached
  <2>3. Check!SelectorErrors(known, c.selectors) = {}
    BY <2>1, OutsideClean DEF Check!OutsideErrors
  <2>4. Check!CallErrors(known, s, "selector") = {}
    BY <2>2, <2>3 DEF Check!SelectorErrors
  <2>5. ~s.trailing
    BY <1>1, <2>1, PlainCalls
  <2> QED BY <2>4, <2>5, FoundFacts
<1>3. CASE k # NoKey
  <2>1. ~(\E m \in Macros : Ground[k] = Inside(m))
    BY <1>1 DEF SelectorsReached
  <2>2. k \in DOMAIN Builtins /\ Builtins[k].body.kind = "construct"
        /\ Ground[k] = NestedIn(Builtins[k].body.content)
    BY <1>3, <2>1, GroundCases
  <2> QED BY <1>1, <2>2, BuiltinsFileAssumption
<1> QED BY <1>2, <1>3

(* The key a call finds a macro under has the macro's number of arguments. *)
LEMMA ArityFacts ==
  ASSUME Sound, NEW k, Compile!Resolve(k).body.kind # "none"
  PROVE  Len(Compile!Resolve(k).args) = k.arity
<1>1. CASE k \in DOMAIN known
  <2>1. PICK m \in Macros : m.key = k
    BY <1>1, KnownFacts
  <2> QED BY <2>1, ResolveMacro, KnownFacts, FilesAssumption DEF Macros
<1>2. CASE k \in DOMAIN Builtins \ DOMAIN known
  BY <1>2, ResolveOther, BuiltinsFileAssumption
<1>3. CASE k \notin DOMAIN known \cup DOMAIN Builtins
  BY <1>3, ResolveOther DEF Compile!NoMacro, Compile!NoBody
<1> QED BY <1>1, <1>2, <1>3

LEMMA FileArgumentsOwned ==
  ASSUME Sound, OwnArguments
  PROVE  Compile!ArgumentsOwned(Ground)
<1>1. ASSUME NEW k \in Key \cup {NoKey}, NEW c \in Ground[k], c.kind = "call"
      PROVE  /\ Len(c.args) = Len(Compile!Resolve(c.key).args)
             /\ \A n \in DOMAIN c.args : c.args[n].kind = "argument" => c.args[n].name \in Compile!Own(k)
  <2>1. Compile!Resolve(c.key).body.kind = "construct"
    BY <1>1, GroundOutside, OutsideCalls, GroundCalls
  <2>2. c \in Item
    <3>1. CASE k = NoKey
      BY <3>1, GroundOutside, KnownFacts, CompiledFacts, NestedInFacts DEF Sound, Outside
    <3>2. CASE k # NoKey
      BY <3>2, ResolveTyped, NestedInFacts DEF Ground
    <3> QED BY <3>1, <3>2
  <2>3. Len(c.args) = Len(Compile!Resolve(c.key).args)
    BY <1>1, <2>1, <2>2, ArityAssumption, ArityFacts
  <2>4. \A n \in DOMAIN c.args : c.args[n] \in Range(c.args)
    BY DEF Range
  <2>5. CASE k = NoKey
    BY <1>1, <2>3, <2>4, <2>5, GroundOutside DEF OwnArguments
  <2>6. CASE k # NoKey
    <3>1. PICK m \in Macros : m.key = k /\ Compile!Resolve(k) = m.macro /\ Ground[k] = Inside(m)
      BY <1>1, <2>6, GroundCases, BuiltinsFileAssumption
    <3>2. Compile!Own(k) = Range(m.macro.args)
      BY <2>6, <3>1 DEF Compile!Own, Range
    <3> QED BY <1>1, <2>3, <2>4, <3>1, <3>2 DEF OwnArguments
  <2> QED BY <2>5, <2>6
<1>2. ASSUME NEW k \in Key \cup {NoKey}, NEW c \in Ground[k],
             c.kind = "set", c.store # "priority", c.right.kind = "argument"
      PROVE  c.right.name \in Compile!Own(k)
  <2>1. CASE k = NoKey
    <3>1. c \in Outside /\ c.store # "tween"
      BY <1>2, <2>1, GroundOutside DEF OwnArguments
    <3>2. Check!ExprErrors(known, c.right, {}) = {}
      BY <1>2, <3>1, OutsideClean DEF Check!OutsideErrors
    <3> QED BY <1>2, <3>2 DEF Check!ExprErrors, Check!ArgumentErrors
  <2>2. CASE k # NoKey
    <3>1. ASSUME NEW m \in Macros, m.key = k, Compile!Resolve(k) = m.macro, Ground[k] = Inside(m)
          PROVE  c.right.name \in Compile!Own(k)
      <4>1. Check!InsideErrors(known, c, Range(m.macro.args)) = {}
        BY <3>1, InsideClean
      <4>2. Check!ArgumentErrors(c.right, Range(m.macro.args)) = {}
        <5>1. CASE c.store = "tween"
          BY <1>2, <4>1, <5>1 DEF Check!InsideErrors
        <5>2. CASE c.store # "tween"
          BY <1>2, <4>1, <5>2 DEF Check!InsideErrors, Check!ExprErrors
        <5> QED BY <5>1, <5>2
      <4>3. c.right.name \in Range(m.macro.args)
        BY <1>2, <4>2 DEF Check!ArgumentErrors
      <4> QED BY <2>2, <3>1, <4>3 DEF Compile!Own, Range
    <3>2. ASSUME k \in DOMAIN Builtins, Compile!Resolve(k) = Builtins[k],
                 Builtins[k].body.kind = "construct", Ground[k] = NestedIn(Builtins[k].body.content)
          PROVE  c.right.name \in Compile!Own(k)
      <4>1. c.right.name \in Range(Builtins[k].args)
        BY <1>2, <3>2, BuiltinsFileAssumption
      <4> QED BY <2>2, <3>2, <4>1 DEF Compile!Own, Range
    <3> QED BY <2>2, <3>1, <3>2, GroundCases
  <2> QED BY <2>1, <2>2
<1> HIDE DEF Ground
<1> QED BY <1>1, <1>2 DEF Compile!ArgumentsOwned

LEMMA CompilingSound ==
  ASSUME IInv, Compiling \/ (phase = "search" /\ Search!Done), Silent, Plain
  PROVE  Sound
<1>1. Compile!TypeOK
  BY DEF IInv, Compile!IInv
<1> QED BY <1>1 DEF Sound, IInv, Compiling
-----------------------------------------------------------------------------
(* The invariant is preserved.                                             *)

LEMMA InitIInv == Init => IInv
<1> SUFFICES ASSUME Init PROVE IInv
  OBVIOUS
<1>1. Check!IInv
  BY CheckParts, Check!InitIInv DEF Init
<1>2. Compile!IInv /\ Compile!Init
  BY CompileParts, Compile!InitIInv DEF Init
<1> QED BY <1>1, <1>2 DEF Init, IInv, Compiling

(* Every step is one of each part, or leaves the part alone.               *)
LEMMA PartSteps ==
  ASSUME Next
  PROVE  /\ [Check!Next]_Check!vars
         /\ [Compile!Next]_Compile!vars
         /\ phase # "check" => [Search!Next]_Search!vars
         /\ phase # "check" => UNCHANGED checkVars
BY DEF Next, CheckStep, BeginSearch, SearchStep, BeginCompile, CompileStep,
       checkVars, searchVars, compileVars, Check!vars, Search!vars, Compile!vars

LEMMA CheckInvariance ==
  ASSUME IInv, Next
  PROVE  Check!IInv'
BY CheckParts, PartSteps, Check!NextIInv DEF IInv

LEMMA CompileInvariance ==
  ASSUME IInv, Next
  PROVE  Compile!IInv'
BY CompileParts, PartSteps, Compile!NextIInv DEF IInv

(* The compiler and the checker leave the file as it is.                   *)
LEMMA FileSame ==
  ASSUME Next
  PROVE  UNCHANGED <<file, program>>
<1>1. UNCHANGED file
  BY PartSteps DEF Check!Next, Check!RegisterMacro, Check!DuplicateMacro, Check!CheckConstruct, Check!vars
<1>2. UNCHANGED program
  BY PartSteps, CompileParts, Compile!ProgramSame
<1> QED BY <1>1, <1>2

(* The search starts on the calls of the macros that were registered.      *)
LEMMA GraphTyped ==
  ASSUME Check!IInv
  PROVE  DOMAIN known \in SUBSET Key /\ CallGraph \in [DOMAIN known -> Seq(Key) \cup {NoBodyCalls}]
<1>1. ASSUME NEW k \in DOMAIN known PROVE k \in Key /\ CallGraph[k] \in Seq(Key) \cup {NoBodyCalls}
  <2>1. PICK c \in Range(file.code) : c.kind = "macro" /\ c.key = k /\ known[k].body = c.macro.body
    BY RangeSame DEF Check!IInv, Check!KnownFromFile
  <2>2. c \in MacrosOf(file) /\ file \in Files
    BY <2>1 DEF MacrosOf, Check!IInv
  <2>3. k \in Key /\ c.macro \in Compile!Macro
    BY <2>1, <2>2, CodeFacts
  <2> DEFINE b == c.macro.body
  <2>4. b \in Compile!Body
    BY <2>3 DEF Compile!Macro
  <2>5. CallGraph[k] = IF b = Compile!NoBody THEN NoBodyCalls ELSE Check!BodyCalls(b)
    BY <2>1 DEF CallGraph
  <2> HIDE DEF b
  <2>6. /\ b.kind = "construct" => b.content \in Seq(Item)
        /\ b.kind = "selector" => b.content \in Seq(Selector)
        /\ b.kind = "datatype" /\ b.content.kind = "call" => Check!CheckedKey(b.content) \in Key
    BY <2>1, <2>2, <2>4, BodyKey DEF Compile!Body, Compile!NoBody, b
  <2>7. Check!BodyCalls(b) \in Seq(Key)
    BY <2>6, CheckParts, Check!BodyCallsFacts
  <2> QED BY <2>3, <2>5, <2>7
<1>2. CallGraph = [k \in DOMAIN known |-> CallGraph[k]]
  BY DEF CallGraph
<1> QED BY <1>1, <1>2

LEMMA SearchBegins ==
  ASSUME IInv, BeginSearch
  PROVE  graph' = CallGraph' /\ Search!IInv'
<1>1. graph' = CallGraph /\ UNCHANGED known
  BY DEF BeginSearch, checkVars
<1>2. graph' = CallGraph'
  BY <1>1 DEF CallGraph
<1>3. DOMAIN known \in SUBSET Key /\ graph' \in [DOMAIN known -> Seq(Key) \cup {NoBodyCalls}]
  BY <1>1, GraphTyped DEF IInv
<1>4. DOMAIN graph' = DOMAIN known
  BY <1>3
<1>5. graph' \in UNION {[S -> Seq(Key) \cup {NoBodyCalls}] : S \in SUBSET Key}
  BY <1>3
<1>6. /\ roots' = DOMAIN known /\ color' = [k \in Key |-> "None"]
      /\ frames' = <<>> /\ reports' = <<>> /\ finished' = <<>>
  BY DEF BeginSearch, IInv
<1>7. Search!Init'
  BY <1>4, <1>5, <1>6 DEF Search!Init, Search!Registered
<1>8. Search!Init => Search!IInv
  BY SearchParts, Search!InitIInv
<1> QED BY <1>2, <1>7, <1>8, SearchParts, Search!InitIInv, PTL

LEMMA SearchInvariance ==
  ASSUME IInv, Next, phase # "check"
  PROVE  graph' = CallGraph' /\ Search!IInv'
<1>1. Search!IInv'
  BY SearchParts, PartSteps, Search!NextIInv DEF IInv
<1>2. graph' = graph
  BY PartSteps DEF Search!Next, Search!SkipRoot, Search!StartRoot, Search!SkipUnregistered,
                   Search!ReportCycle, Search!SkipBlack, Search!Descend, Search!Leave,
                   Search!Terminated, Search!vars
<1>3. CallGraph' = CallGraph
  BY PartSteps DEF CallGraph, checkVars
<1> QED BY <1>1, <1>2, <1>3 DEF IInv
(* What is asked of the file does not change once it is searched.          *)
LEMMA FileFactsSame ==
  ASSUME UNCHANGED <<file, program>>
  PROVE  /\ Ground' = Ground
         /\ Plain' <=> Plain
         /\ OwnArguments' <=> OwnArguments
<1>1. \A k : Compile!Resolve(k)' = Compile!Resolve(k)
  BY CompileParts, Compile!ResolveSame
<1>2. Outside' = Outside /\ Macros' = Macros
  BY DEF Outside, Macros
<1>3. Ground' = Ground
  BY <1>1, <1>2 DEF Ground
<1>4. Everything' = Everything /\ SelectorMacroCalls' = SelectorMacroCalls
  BY <1>2 DEF Everything, SelectorMacroCalls
<1> QED BY <1>2, <1>3, <1>4 DEF Plain, OwnArguments

LEMMA RankSame ==
  ASSUME UNCHANGED finished
  PROVE  Rank' = Rank
BY DEF Rank

Stands ==
  /\ Compile!ExpansionsStand(Ground, Rank)
  /\ Compile!ListsStand(Rank)
  /\ OwnArguments => Compile!ArgumentsStand

(* When the compiler begins, only the top of the file is open.             *)
LEMMA StandsFirst ==
  ASSUME Sound, Compile!Init
  PROVE  Stands
<1>1. Compile!Grounded(Ground)
  BY FileGrounded
<1>2. ASSUME NEW g, NEW r, Compile!Grounded(g)
      PROVE  Compile!ExpansionsStand(g, r) /\ Compile!ListsStand(r) /\ Compile!ArgumentsStand
  BY <1>2, CompileParts, Compile!StandInit
<1> HIDE DEF Ground, Rank
<1> QED BY <1>1, <1>2 DEF Stands

LEMMA StandsNext ==
  ASSUME IInv, Sound, Stands, [Compile!Next]_Compile!vars, UNCHANGED <<file, finished>>
  PROVE  Stands'
<1>1. program' = program
  BY CompileParts, Compile!ProgramSame
<1>2. SUFFICES ASSUME NEW g, NEW r, g = Ground, r = Rank PROVE Stands'
  OBVIOUS
<1>3. /\ Compile!Grounded(g) /\ Compile!CallsFound(g, r)
      /\ OwnArguments => Compile!ArgumentsOwned(g)
  BY <1>2, FileGrounded, FileCallsFound, FileArgumentsOwned
<1>4. /\ Compile!ExpansionsStand(g, r) /\ Compile!ListsStand(r)
      /\ OwnArguments => Compile!ArgumentsStand
  BY <1>2 DEF Stands
<1>5. Compile!ExpansionsStand(g, r)' /\ Compile!ListsStand(r)'
  BY <1>3, <1>4, CompileParts, Compile!StandNext DEF IInv
<1>6. OwnArguments => Compile!ArgumentsStand'
  BY <1>3, <1>4, CompileParts, Compile!StandArguments DEF IInv
<1>7. Ground' = g /\ Rank' = r /\ (OwnArguments' <=> OwnArguments)
  BY <1>1, <1>2, FileFactsSame, RankSame
<1> HIDE DEF Ground, Rank, OwnArguments
<1>8. Compile!ExpansionsStand(Ground, Rank)' /\ Compile!ListsStand(Rank)'
  BY <1>5, <1>7 DEF Compile!ExpansionsStand, Compile!ListsStand
<1> QED BY <1>6, <1>7, <1>8 DEF Stands
LEMMA StandsKept ==
  ASSUME IInv, Next, (Compiling /\ Silent /\ Plain)'
  PROVE  Stands'
<1>1. UNCHANGED <<file, program>> /\ Plain
  BY FileSame, FileFactsSame
<1>2. phase' = "compile" /\ Silent'
  BY DEF Compiling
<1>3. CASE BeginCompile
  <2>1. /\ phase = "search" /\ Search!Done
        /\ UNCHANGED <<file, finished, errors, reports, bindings, scopes, lists>>
    BY <1>3 DEF BeginCompile, checkVars, searchVars, compileVars
  <2>2. Silent
    BY <1>2, <2>1 DEF Silent
  <2>3. Sound /\ Compile!Init
    BY <1>1, <2>1, <2>2, CompilingSound DEF IInv
  <2>4. Stands
    BY <2>3, StandsFirst
  <2>5. [Compile!Next]_Compile!vars
    BY PartSteps
  <2> QED BY <2>1, <2>3, <2>4, <2>5, StandsNext
<1>4. CASE CompileStep
  <2>1. Compiling /\ Compile!Next /\ UNCHANGED <<file, finished, errors, reports>>
    BY <1>4 DEF CompileStep, Compiling, checkVars, searchVars
  <2>2. Silent
    BY <1>2, <2>1 DEF Silent
  <2>3. Sound /\ Stands
    BY <1>1, <2>1, <2>2, CompilingSound DEF IInv, Stands
  <2> QED BY <2>1, <2>3, StandsNext
<1>5. CASE CheckStep \/ BeginSearch \/ SearchStep
  BY <1>2, <1>5 DEF CheckStep, BeginSearch, SearchStep
<1> QED BY <1>3, <1>4, <1>5 DEF Next

LEMMA NextIInv == IInv /\ [Next]_vars => IInv'
<1> SUFFICES ASSUME IInv, [Next]_vars PROVE IInv'
  OBVIOUS
<1>1. CASE Next
  <2>1. Check!IInv' /\ Compile!IInv'
    BY <1>1, CheckInvariance, CompileInvariance
  <2>2. phase' \in {"check", "search", "compile"}
    BY <1>1 DEF IInv, Next, CheckStep, BeginSearch, SearchStep, BeginCompile, CompileStep
  <2>3. program' = Compiled(file)'
    BY <1>1, FileSame DEF IInv
  <2>4. ASSUME phase' # "compile" PROVE Compile!Init'
    <3>1. phase # "compile" /\ UNCHANGED compileVars
      BY <1>1, <2>4 DEF Next, CheckStep, BeginSearch, SearchStep, BeginCompile, CompileStep
    <3> QED BY <3>1 DEF IInv, Compile!Init, compileVars
  <2>5. ASSUME phase' = "check" PROVE frames' = <<>> /\ reports' = <<>> /\ finished' = <<>>
    BY <1>1, <2>5 DEF IInv, Next, CheckStep, BeginSearch, SearchStep, BeginCompile, CompileStep, searchVars
  <2>6. ASSUME phase' # "check" PROVE Check!Done' /\ graph' = CallGraph' /\ Search!IInv'
    <3>1. CASE phase = "check"
      <4>1. BeginSearch
        BY <1>1, <2>6, <3>1 DEF Next, CheckStep, SearchStep, BeginCompile, CompileStep
      <4>2. Check!Done'
        BY <4>1 DEF BeginSearch, checkVars, Check!Done
      <4> QED BY <4>1, <4>2, SearchBegins
    <3>2. CASE phase # "check"
      <4>1. Check!Done'
        BY <1>1, <3>2, PartSteps DEF IInv, checkVars, Check!Done
      <4> QED BY <1>1, <3>2, <4>1, SearchInvariance
    <3> QED BY <3>1, <3>2
  <2>7. ASSUME phase' = "compile" PROVE Search!Done'
    BY <1>1, <2>7 DEF IInv, Next, CheckStep, BeginSearch, SearchStep, BeginCompile, CompileStep,
                      searchVars, Search!Done
  <2>8. (Compiling /\ Silent /\ Plain)' => Stands'
    BY <1>1, StandsKept
  <2> QED BY <2>1, <2>2, <2>3, <2>4, <2>5, <2>6, <2>7, <2>8 DEF IInv, Stands
<1>2. CASE UNCHANGED vars
  <2>1. UNCHANGED checkVars /\ UNCHANGED searchVars /\ UNCHANGED compileVars /\ UNCHANGED phase
    BY <1>2 DEF vars
  <2>2. Check!IInv' /\ Compile!IInv'
    BY <2>1, CheckParts, CompileParts, Check!NextIInv, Compile!NextIInv
       DEF IInv, checkVars, compileVars, Check!vars, Compile!vars
  <2>3. phase # "compile" => Compile!Init'
    BY <2>1 DEF IInv, Compile!Init, compileVars
  <2>4. phase # "check" => Search!IInv'
    BY <2>1, SearchParts, Search!NextIInv DEF IInv, searchVars, Search!vars
  <2>5. CallGraph' = CallGraph /\ (Check!Done' <=> Check!Done) /\ (Search!Done' <=> Search!Done)
    BY <2>1 DEF CallGraph, Check!Done, Search!Done, checkVars, searchVars
  <2>6. program' = Compiled(file)'
    BY <2>1 DEF IInv, checkVars, compileVars
  <2>7. /\ phase' \in {"check", "search", "compile"}
        /\ phase' = "check" => frames' = <<>> /\ reports' = <<>> /\ finished' = <<>>
        /\ graph' = graph
    BY <2>1 DEF IInv, searchVars
  <2>8. (Compiling /\ Silent /\ Plain)' => Stands'
    <3> SUFFICES ASSUME (Compiling /\ Silent /\ Plain)' PROVE Stands'
      OBVIOUS
    <3>1. UNCHANGED <<file, program, finished>> /\ Compile!vars' = Compile!vars
      BY <2>1 DEF checkVars, searchVars, compileVars, Compile!vars
    <3>2. Compiling /\ Silent /\ Plain
      BY <2>1, <3>1, FileFactsSame DEF Compiling, Silent, checkVars, searchVars
    <3>3. Sound /\ Stands
      BY <3>2, CompilingSound DEF IInv, Stands
    <3> QED BY <3>1, <3>3, StandsNext
  <2> QED BY <2>1, <2>2, <2>3, <2>4, <2>5, <2>6, <2>7, <2>8 DEF IInv, Stands
<1> QED BY <1>1, <1>2

-----------------------------------------------------------------------------
(* What is known of a file, and of the stacks while it is compiled, holds  *)
(* at every step.                                                          *)
THEOREM Invariance == Spec => []IInv
<1> QED BY InitIInv, NextIInv, PTL DEF Spec
(* The macros of a file without errors are the ones the checker saw, every *)
(* call of it finds one of its kind, and callees finish before callers.    *)
THEOREM FilesSound == Spec => []SilentFileSound
<1>1. IInv => SilentFileSound
  <2> SUFFICES ASSUME IInv, Compiling, Silent, Plain
               PROVE  /\ Compile!Grounded(Ground) /\ Compile!CallsFound(Ground, Rank)
                      /\ SelectorsReached => Compile!SelectorsFound(Ground)
                      /\ OwnArguments => Compile!ArgumentsOwned(Ground)
    BY DEF SilentFileSound
  <2>1. Sound
    BY CompilingSound
  <2> QED BY <2>1, FileGrounded, FileCallsFound, FileSelectorsFound, FileArgumentsOwned
<1> QED BY <1>1, Invariance, PTL

(* In a file without macro errors every macro call that is compiled is     *)
(* expanded: it finds its macro, and the recursion guard lets it through,  *)
(* since the macros under expansion rank above the one it calls.           *)
THEOREM CallsExpand == Spec => []SilentCallsExpand
<1>1. IInv => SilentCallsExpand
  <2> SUFFICES ASSUME IInv, Compiling, Silent, Plain, Compile!InBlock, Compile!Current.kind = "call"
               PROVE  Compile!Expandable(Compile!Current.key)
    BY DEF SilentCallsExpand
  <2>1. Compile!CallsFound(Ground, Rank) /\ Compile!ExpansionsStand(Ground, Rank)
    BY CompilingSound, FileCallsFound DEF IInv
  <2>2. ASSUME NEW g, NEW r, Compile!CallsFound(g, r), Compile!ExpansionsStand(g, r)
        PROVE  Compile!Expandable(Compile!Current.key)
    BY <2>2, CompileParts, Compile!CallExpands DEF IInv
  <2> HIDE DEF Ground, Rank
  <2> QED BY <2>1, <2>2
<1> QED BY <1>1, Invariance, PTL

(* The same of a macro call in a selector, as far as the checker reads     *)
(* selectors.                                                              *)
THEOREM SelectorsExpand == Spec => []SilentSelectorsExpand
<1>1. IInv => SilentSelectorsExpand
  <2> SUFFICES ASSUME IInv, Compiling, Silent, Plain, SelectorsReached,
                      Compile!InList, Compile!Node.kind = "call"
               PROVE  Compile!SelectorExpandable(Compile!Node.key)
    BY DEF SilentSelectorsExpand
  <2>1. /\ Compile!CallsFound(Ground, Rank) /\ Compile!SelectorsFound(Ground)
        /\ Compile!ExpansionsStand(Ground, Rank) /\ Compile!ListsStand(Rank)
    BY CompilingSound, FileCallsFound, FileSelectorsFound DEF IInv
  <2>2. ASSUME NEW g, NEW r, Compile!CallsFound(g, r), Compile!SelectorsFound(g),
               Compile!ExpansionsStand(g, r), Compile!ListsStand(r)
        PROVE  Compile!SelectorExpandable(Compile!Node.key)
    BY <2>2, CompileParts, Compile!SelectorCallExpands DEF IInv
  <2> HIDE DEF Ground, Rank
  <2> QED BY <2>1, <2>2
<1> QED BY <1>1, Invariance, PTL

(* No assignment mentions an argument that has not been bound, all the way *)
(* out to the call that gave it a value.                                   *)
THEOREM ArgumentsBound == Spec => []SilentArgumentsBound
<1>1. IInv => SilentArgumentsBound
  <2> SUFFICES ASSUME IInv, Compiling, Silent, Plain, OwnArguments PROVE SilentArgumentsBound
    BY DEF SilentArgumentsBound
  <2>1. /\ Compile!ArgumentsOwned(Ground) /\ Compile!ExpansionsStand(Ground, Rank)
        /\ Compile!ArgumentsStand
    BY CompilingSound, FileArgumentsOwned DEF IInv
  <2>2. ASSUME NEW g, NEW r, Compile!ArgumentsOwned(g), Compile!ExpansionsStand(g, r),
               Compile!InBlock, Compile!Current.kind = "set", Compile!Current.store # "priority"
        PROVE  Compile!ArgumentBound(Compile!Current.right, Len(bindings))
    BY <2>1, <2>2, CompileParts, Compile!SetArgumentBound DEF IInv
  <2> HIDE DEF Ground, Rank
  <2>3. Compile!InBlock /\ Compile!Current.kind = "set" /\ Compile!Current.store # "priority" =>
          Compile!ArgumentBound(Compile!Current.right, Len(bindings))
    BY <2>1, <2>2
  <2>4. \A d \in DOMAIN bindings : \A n \in Name :
          bindings[d][n] # Compile!Unbound =>
            Compile!ArgumentBound(bindings[d][n].construct, bindings[d][n].scope)
    BY <2>1 DEF Compile!ArgumentsStand
  <2> QED BY <2>3, <2>4 DEF SilentArgumentsBound
<1> QED BY <1>1, Invariance, PTL

(* The macros under expansion are a path of the graph that was searched.   *)
THEOREM ExpansionsFollowGraph == Spec => []SilentExpansionsFollowGraph
<1>1. IInv => SilentExpansionsFollowGraph
  <2> SUFFICES ASSUME IInv, Compiling, Silent, Plain, NEW i \in 2 .. (Len(scopes) - 1)
               PROVE  /\ scopes[i].key \in DOMAIN graph
                      /\ \E n \in DOMAIN graph[scopes[i].key] : graph[scopes[i].key][n] = scopes[i + 1].key
    BY DEF SilentExpansionsFollowGraph
  <2>1. Sound /\ Compile!ExpansionsStand(Ground, Rank)
    BY CompilingSound DEF IInv
  <2>2. Len(scopes) \in Nat
    BY CompileParts, Compile!ScopeFacts DEF IInv, Compile!IInv
  <2>3. i \in 2 .. Len(scopes) /\ i + 1 \in 2 .. Len(scopes) /\ i + 1 - 1 = i
    BY <2>2
  <2> HIDE DEF Ground, Rank
  <2>4. scopes[i].key \in Key /\ \E c \in Ground[scopes[i].key] : c.kind = "call" /\ c.key = scopes[i + 1].key
    BY <2>1, <2>3 DEF Compile!ExpansionsStand
  <2> QED BY <2>1, <2>4, GroundCalls
<1> QED BY <1>1, Invariance, PTL
=============================================================================
