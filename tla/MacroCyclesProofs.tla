------------------------- MODULE MacroCyclesProofs -------------------------
(* Proofs about MacroCycles: the search reports exactly when the file has  *)
(* a recursive macro call, for every set of macros and every root order.   *)
EXTENDS MacroCycles, SequenceTheorems, TLAPS

USE DEF Registered, Depth, Top, Site

(* Popping the last element of a stack.                                    *)
LEMMA PopFacts ==
  ASSUME NEW S, NEW q \in Seq(S), q # <<>>
  PROVE  /\ Len(q) \in Nat \ {0}
         /\ SubSeq(q, 1, Len(q) - 1) \in Seq(S)
         /\ Len(SubSeq(q, 1, Len(q) - 1)) = Len(q) - 1
         /\ \A i \in 1 .. Len(q) - 1 : SubSeq(q, 1, Len(q) - 1)[i] = q[i]
<1>1. Len(q) \in Nat \ {0} /\ \A i \in 1 .. Len(q) : q[i] \in S
  OBVIOUS
<1> DEFINE n == Len(q) - 1
<1>2. n \in Int /\ 1 \in Int /\ \A i \in 1 .. n : q[i] \in S
  BY <1>1
<1> HIDE DEF n
<1>3. /\ SubSeq(q, 1, n) \in Seq(S)
      /\ Len(SubSeq(q, 1, n)) = IF 1 <= n THEN n - 1 + 1 ELSE 0
      /\ \A i \in 1 .. n - 1 + 1 : SubSeq(q, 1, n)[i] = q[1 + i - 1]
  BY <1>2, SubSeqProperties
<1>4. n \in Nat
  BY <1>1 DEF n
<1>5. Len(SubSeq(q, 1, n)) = n
  BY <1>3, <1>4
<1>6. \A i \in 1 .. n : SubSeq(q, 1, n)[i] = q[i]
  <2> TAKE i \in 1 .. n
  <2>1. i \in 1 .. n - 1 + 1 /\ 1 + i - 1 = i
    BY <1>4
  <2>. QED BY <1>3, <2>1
<1>. QED BY <1>1, <1>3, <1>5, <1>6 DEF n

(* A call site is a registered macro and a position in its calls.          *)
LEMMA SitesMember ==
  ASSUME NEW s
  PROVE  s \in Sites <=> \E k \in Registered : \E n \in DOMAIN Calls(k) : s = <<k, n>>
BY DEF Sites

LEMMA SitePair ==
  ASSUME NEW k \in Registered, NEW n \in DOMAIN Calls(k)
  PROVE  <<k, n>> \in Sites
BY SitesMember, Zenon

(* What the registry's type says of the calls of a registered macro.       *)
LEMMA CallsType ==
  ASSUME TypeOK
  PROVE  /\ Registered \subseteq Key
         /\ \A k \in Registered : Calls(k) \in Seq(Key)
         /\ \A s \in Sites : /\ s[1] \in Registered
                             /\ s[2] \in DOMAIN Calls(s[1])
                             /\ s = <<s[1], s[2]>>
                             /\ Callee(s) \in Key
<1>1. PICK S \in SUBSET Key : registry \in [S -> CallLists \cup {NoBody}]
  BY Zenon DEF TypeOK
<1>2. Registered = S
  BY <1>1
<1>3. \A k \in Registered : Calls(k) \in Seq(Key)
  BY <1>1, <1>2, CallListsAssumption DEF Calls
<1>4. ASSUME NEW s \in Sites
      PROVE  /\ s[1] \in Registered
             /\ s[2] \in DOMAIN Calls(s[1])
             /\ s = <<s[1], s[2]>>
             /\ Callee(s) \in Key
  <2>0. PICK k \in Registered : \E n \in DOMAIN Calls(k) : s = <<k, n>>
    BY SitesMember, Zenon
  <2>1. PICK n \in DOMAIN Calls(k) : s = <<k, n>>
    BY <2>0
  <2>2. Calls(k)[n] \in Key
    BY <1>3
  <2>. QED BY <2>1, <2>2 DEF Callee
<1>. QED BY <1>2, <1>3, <1>4

-----------------------------------------------------------------------------
(* Facts about reachability.                                               *)

LEMMA ReachesRefl == \A k \in Registered : Reaches(k, k)
BY DEF Reaches

LEMMA ReachesTrans ==
  ASSUME NEW x, NEW y, NEW z, Reaches(x, y), Reaches(y, z)
  PROVE  Reaches(x, z)
BY DEF Reaches

LEMMA ReachesStep ==
  ASSUME NEW s \in Sites, Callee(s) \in Registered
  PROVE  Reaches(s[1], Callee(s))
BY DEF Reaches, Closed

(* The call graph never changes, so neither does what it reaches.          *)
LEMMA GraphFixed ==
  ASSUME registry' = registry
  PROVE  /\ Registered' = Registered
         /\ \A k : Calls(k)' = Calls(k)
         /\ Sites' = Sites
         /\ \A s : Callee(s)' = Callee(s)
         /\ \A x, y : Reaches(x, y)' <=> Reaches(x, y)
         /\ \A s : Recursive(s)' <=> Recursive(s)
<1>1. Registered' = Registered
  OBVIOUS
<1>2. \A k : Calls(k)' = Calls(k)
  BY DEF Calls
<1>3. \A s : Callee(s)' = Callee(s)
  BY DEF Callee, Calls
<1>4. Sites' = Sites
  BY DEF Sites, Calls
<1>5. \A S : Closed(S)' <=> Closed(S)
  BY <1>1, <1>3, <1>4 DEF Closed
<1>6. \A x, y : Reaches(x, y)' <=> Reaches(x, y)
  BY <1>1, <1>5 DEF Reaches
<1>7. \A s : Recursive(s)' <=> Recursive(s)
  BY <1>1, <1>3, <1>6 DEF Recursive
<1>. QED BY <1>1, <1>2, <1>3, <1>4, <1>6, <1>7

-----------------------------------------------------------------------------
(* Every frame is for a registered macro.                                  *)
LEMMA FrameFacts ==
  ASSUME IInv
  PROVE  /\ Depth \in Nat
         /\ \A i \in 1 .. Depth : /\ frames[i] \in Frame
                                  /\ frames[i].key \in Registered
                                  /\ frames[i].next \in Nat \ {0}
                                  /\ Calls(frames[i].key) \in Seq(Key)
<1>1. Depth \in Nat /\ \A i \in 1 .. Depth : frames[i] \in Frame
  BY DEF IInv, TypeOK
<1>2. \A i \in 1 .. Depth : frames[i].key \in Key /\ frames[i].next \in Nat \ {0}
  BY <1>1 DEF Frame
<1>3. \A i \in 1 .. Depth : frames[i].key \in Registered
  BY <1>2 DEF IInv, ColorsMatchStack
<1>. QED BY <1>1, <1>2, <1>3, CallsType DEF IInv

(* What is recorded as reported is a call site.                            *)
LEMMA ReportFacts ==
  ASSUME IInv
  PROVE  \A r \in DOMAIN reports : /\ reports[r] \in Key \X Nat
                                   /\ reports[r] \in Sites
BY DEF IInv, TypeOK, ReportsAreRecursive

(* The frame at the top of the stack, when it has a call to look at.       *)
LEMMA AtCallFacts ==
  ASSUME IInv, AtCall
  PROVE  /\ Depth \in Nat \ {0}
         /\ Top \in Frame
         /\ Top.key \in Registered
         /\ color[Top.key] = "Gray"
         /\ Top.next \in DOMAIN Calls(Top.key)
         /\ Site \in Sites
         /\ Site[1] = Top.key /\ Site[2] = Top.next
         /\ NextCall \in Seq(Frame)
         /\ Len(NextCall) = Depth
         /\ \A i \in 1 .. Depth : NextCall[i].key = frames[i].key
         /\ \A i \in 1 .. Depth : i # Depth => NextCall[i] = frames[i]
         /\ NextCall[Depth].next = Top.next + 1
<1>1. frames \in Seq(Frame) /\ frames # <<>> /\ Top.next <= Len(Calls(Top.key))
  BY DEF IInv, TypeOK, AtCall
<1>2. Depth \in Nat \ {0} /\ Top \in Frame
  BY <1>1
<1>3. Top.key \in Key /\ Top.next \in Nat \ {0}
  BY <1>2 DEF Frame
<1>4. color[Top.key] = "Gray"
  BY <1>2, <1>3 DEF IInv, ColorsMatchStack
<1>5. Top.key \in Registered
  BY <1>3, <1>4 DEF IInv, ColorsMatchStack
<1>6. Calls(Top.key) \in Seq(Key)
  BY <1>5, CallsType DEF IInv
<1>7. Top.next \in DOMAIN Calls(Top.key)
  BY <1>1, <1>3, <1>6
<1>8. Site \in Sites
  BY <1>5, <1>7, SitePair
<1>9. /\ NextCall \in Seq(Frame)
      /\ Len(NextCall) = Depth
      /\ \A i \in 1 .. Depth : NextCall[i].key = frames[i].key
      /\ \A i \in 1 .. Depth : i # Depth => NextCall[i] = frames[i]
      /\ NextCall[Depth].next = Top.next + 1
  BY <1>1, <1>2, <1>3 DEF NextCall, Frame
<1>. QED BY <1>2, <1>4, <1>5, <1>7, <1>8, <1>9

-----------------------------------------------------------------------------
(* The invariant holds at the start.                                       *)
LEMMA InitIInv == Init => IInv
<1> SUFFICES ASSUME Init PROVE IInv
  OBVIOUS
<1>1. TypeOK
  BY DEF Init, TypeOK
<1>2. ColorsMatchStack
  BY DEF Init, ColorsMatchStack
<1>3. StackIsPath /\ PassedCallsSettled /\ RootsColored /\ ReportsAreBehind
  BY DEF Init, StackIsPath, PassedCallsSettled, RootsColored, ReportsAreBehind
<1>4. ReportsAreRecursive /\ ReportedOnce /\ UnreportedCallsRank
  BY DEF Init, ReportsAreRecursive, ReportedOnce, UnreportedCallsRank
<1>. QED BY <1>1, <1>2, <1>3, <1>4 DEF IInv

(* A root that already has a colour.                                       *)
LEMMA SkipRootIInv ==
  ASSUME IInv, NEW k \in Key, SkipRoot(k)
  PROVE  IInv'
<1> USE GraphFixed DEF SkipRoot
<1>1. TypeOK'
  BY DEF IInv, TypeOK
<1>2. ColorsMatchStack'
  BY DEF IInv, ColorsMatchStack
<1>3. StackIsPath' /\ PassedCallsSettled' /\ ReportsAreBehind'
  BY DEF StackIsPath, PassedCallsSettled, ReportsAreBehind, IInv
<1>4. RootsColored'
  BY DEF IInv, RootsColored
<1>5. ReportsAreRecursive' /\ ReportedOnce'
  BY DEF IInv, ReportsAreRecursive, ReportedOnce
<1>6. UnreportedCallsRank'
  BY DEF IInv, UnreportedCallsRank
<1>. QED BY <1>1, <1>2, <1>3, <1>4, <1>5, <1>6 DEF IInv

(* A root the search starts from.                                          *)
LEMMA StartRootIInv ==
  ASSUME IInv, NEW k \in Key, StartRoot(k)
  PROVE  IInv'
<1> USE GraphFixed DEF StartRoot
<1>0. k \in Registered
  BY DEF IInv, TypeOK
<1>1. TypeOK'
  BY DEF IInv, TypeOK, Frame
<1>2. ColorsMatchStack'
  BY <1>0 DEF IInv, ColorsMatchStack, TypeOK
<1>3. StackIsPath'
  BY <1>0, ReachesRefl DEF StackIsPath
<1>4. PassedCallsSettled'
  BY <1>0, CallsType DEF PassedCallsSettled, IInv
<1>5. ReportsAreBehind' /\ RootsColored'
  BY DEF IInv, ReportsAreBehind, RootsColored, TypeOK
<1>6. ReportsAreRecursive' /\ ReportedOnce'
  BY DEF IInv, ReportsAreRecursive, ReportedOnce
<1>7. UnreportedCallsRank'
  BY DEF IInv, UnreportedCallsRank
<1>. QED BY <1>1, <1>2, <1>3, <1>4, <1>5, <1>6, <1>7 DEF IInv

-----------------------------------------------------------------------------
(* What every step that only moves the top frame past its call keeps: the  *)
(* stack and the colours do not change.                                    *)
LEMMA AdvanceKeeps ==
  ASSUME IInv, AtCall, frames' = NextCall,
         UNCHANGED <<registry, roots, color, finished>>
  PROVE  /\ frames' \in Seq(Frame) /\ Depth' = Depth
         /\ ColorsMatchStack'
         /\ StackIsPath'
         /\ RootsColored'
<1> USE GraphFixed, AtCallFacts
<1>1. frames' \in Seq(Frame) /\ Depth' = Depth /\ Depth \in Nat
  OBVIOUS
<1>2. \A i \in 1 .. Depth : frames'[i].key = frames[i].key
  OBVIOUS
<1>3. ColorsMatchStack'
  BY <1>1, <1>2 DEF IInv, ColorsMatchStack
<1>4. StackIsPath'
  BY <1>1, <1>2 DEF IInv, StackIsPath
<1>5. RootsColored'
  BY DEF IInv, RootsColored
<1>. QED BY <1>1, <1>3, <1>4, <1>5

(* A call that was behind the search stays behind it.                      *)
LEMMA AdvanceBehind ==
  ASSUME IInv, AtCall, frames' = NextCall, NEW s \in Key \X Nat,
         \E i \in 1 .. Depth : frames[i].key = s[1] /\ s[2] < frames[i].next
  PROVE  \E i \in 1 .. Depth' : frames'[i].key = s[1] /\ s[2] < frames'[i].next
<1> USE AtCallFacts
<1>1. PICK i \in 1 .. Depth : frames[i].key = s[1] /\ s[2] < frames[i].next
  OBVIOUS
<1>2. i \in 1 .. Depth' /\ frames'[i].key = s[1]
  BY <1>1
<1>3. s[2] < frames'[i].next
  BY <1>1 DEF Frame
<1>. QED BY <1>2, <1>3

(* The calls behind each frame stay settled when the top frame moves past  *)
(* a call that is itself settled.                                          *)
LEMMA AdvanceSettled ==
  ASSUME IInv, AtCall, frames' = NextCall,
         UNCHANGED <<registry, roots, color, finished>>,
         \A r \in DOMAIN reports : r \in DOMAIN reports' /\ reports'[r] = reports[r],
         Callee(Site) \in Registered => \/ color[Callee(Site)] = "Black"
                                        \/ \E r \in DOMAIN reports' : reports'[r] = Site
  PROVE  PassedCallsSettled'
<1> USE GraphFixed, AtCallFacts
<1>1. \A i \in 1 .. Depth : frames'[i].key = frames[i].key
  OBVIOUS
<1>2. Depth' = Depth /\ Depth \in Nat
  OBVIOUS
<1> SUFFICES ASSUME NEW i \in 1 .. Depth, NEW n \in DOMAIN Calls(frames[i].key),
                      n < frames'[i].next, Callee(<<frames[i].key, n>>) \in Registered
               PROVE  \/ color[Callee(<<frames[i].key, n>>)] = "Black"
                      \/ \E r \in DOMAIN reports' : reports'[r] = <<frames[i].key, n>>
                      \/ i < Depth /\ frames[i + 1].key = Callee(<<frames[i].key, n>>)
  BY <1>1, <1>2 DEF PassedCallsSettled, Reported
<1>5. Calls(frames[i].key) \in Seq(Key) /\ frames[i].next \in Nat \ {0}
  BY FrameFacts
<1>6. n \in Nat /\ frames[i].next \in Nat \ {0}
  BY <1>5
<1>7. CASE n < frames[i].next
  BY <1>7 DEF IInv, PassedCallsSettled, Reported
<1>8. CASE ~(n < frames[i].next)
  <2>1. i = Depth
    BY <1>8
  <2>2. n = Top.next
    BY <2>1, <1>8, <1>6
  <2>3. <<frames[i].key, n>> = Site
    BY <2>1, <2>2
  <2>. QED BY <2>3
<1>. QED BY <1>7, <1>8

(* A call of a macro the file does not define.                             *)
LEMMA SkipUnregisteredIInv ==
  ASSUME IInv, SkipUnregistered
  PROVE  IInv'
<1> USE GraphFixed, AtCallFacts DEF SkipUnregistered
<1>1. ColorsMatchStack' /\ StackIsPath' /\ RootsColored' /\ frames' \in Seq(Frame)
  BY AdvanceKeeps
<1>2. TypeOK'
  BY <1>1 DEF IInv, TypeOK
<1>3. PassedCallsSettled'
  BY AdvanceSettled
<1>4. ReportsAreBehind'
  BY AdvanceBehind, ReportFacts DEF IInv, ReportsAreBehind
<1>5. ReportsAreRecursive' /\ ReportedOnce'
  BY DEF IInv, ReportsAreRecursive, ReportedOnce
<1>6. UnreportedCallsRank'
  BY DEF IInv, UnreportedCallsRank
<1>. QED BY <1>1, <1>2, <1>3, <1>4, <1>5, <1>6 DEF IInv

(* A call of a macro already finished.                                     *)
LEMMA SkipBlackIInv ==
  ASSUME IInv, SkipBlack
  PROVE  IInv'
<1> USE GraphFixed, AtCallFacts DEF SkipBlack
<1>1. ColorsMatchStack' /\ StackIsPath' /\ RootsColored' /\ frames' \in Seq(Frame)
  BY AdvanceKeeps
<1>2. TypeOK'
  BY <1>1 DEF IInv, TypeOK
<1>3. PassedCallsSettled'
  BY AdvanceSettled
<1>4. ReportsAreBehind'
  BY AdvanceBehind, ReportFacts DEF IInv, ReportsAreBehind
<1>5. ReportsAreRecursive' /\ ReportedOnce'
  BY DEF IInv, ReportsAreRecursive, ReportedOnce
<1>6. UnreportedCallsRank'
  BY DEF IInv, UnreportedCallsRank
<1>. QED BY <1>1, <1>2, <1>3, <1>4, <1>5, <1>6 DEF IInv

(* A call of a macro still on the stack: the report is new, and the callee *)
(* reaches the caller along the stack.                                     *)
LEMMA ReportCycleIInv ==
  ASSUME IInv, ReportCycle
  PROVE  IInv'
<1> USE GraphFixed, AtCallFacts DEF ReportCycle
<1>1. ColorsMatchStack' /\ StackIsPath' /\ RootsColored' /\ frames' \in Seq(Frame)
  BY AdvanceKeeps
<1>2. /\ reports \in Seq(Key \X Nat) /\ Site \in Key \X Nat
      /\ reports' \in Seq(Key \X Nat) /\ Len(reports') = Len(reports) + 1
      /\ \A j \in DOMAIN reports : reports'[j] = reports[j] /\ j \in DOMAIN reports'
      /\ reports'[Len(reports) + 1] = Site
  <2>1. reports \in Seq(Key \X Nat) /\ Site \in Key \X Nat
    BY DEF IInv, TypeOK, Frame
  <2>2. reports' = Append(reports, Site)
    OBVIOUS
  <2> HIDE DEF Site
  <2>. QED BY ONLY <2>1, <2>2
<1>3. TypeOK'
  BY <1>1, <1>2 DEF IInv, TypeOK
<1>4. PassedCallsSettled'
  <2>2. \E r \in DOMAIN reports' : reports'[r] = Site
    <3>1. Len(reports) + 1 \in DOMAIN reports'
      BY <1>2, LenProperties
    <3>. QED BY <1>2, <3>1
  <2>. QED BY <1>2, <2>2, AdvanceSettled
<1>5. ReportsAreBehind'
  <2> SUFFICES ASSUME NEW r \in DOMAIN reports'
               PROVE  \/ color[reports'[r][1]] = "Black"
                      \/ \E i \in 1 .. Depth' : /\ frames'[i].key = reports'[r][1]
                                                /\ reports'[r][2] < frames'[i].next
    BY Zenon DEF ReportsAreBehind
  <2>1. CASE r \in DOMAIN reports
    <3>1. reports'[r] = reports[r] /\ reports[r] \in Key \X Nat
      BY <2>1, <1>2, ReportFacts
    <3>2. CASE color[reports[r][1]] = "Black"
      BY <3>1, <3>2
    <3>3. CASE \E i \in 1 .. Depth : frames[i].key = reports[r][1] /\ reports[r][2] < frames[i].next
      <4>1. \E i \in 1 .. Depth' : frames'[i].key = reports[r][1] /\ reports[r][2] < frames'[i].next
        BY <3>1, <3>3, AdvanceBehind
      <4>. QED BY <3>1, <4>1
    <3>. QED BY <2>1, <3>2, <3>3 DEF IInv, ReportsAreBehind
  <2>2. CASE r \notin DOMAIN reports
    <3>1. reports'[r] = Site
      BY <1>2, <2>2
    <3>2. Depth \in 1 .. Depth' /\ frames'[Depth].key = Top.key /\ Top.next < frames'[Depth].next
      BY DEF Frame
    <3>. QED BY <3>1, <3>2
  <2>. QED BY <2>1, <2>2
<1>6. ReportsAreRecursive'
  <2>1. PICK i \in 1 .. Depth : frames[i].key = Callee(Site)
    BY CallsType DEF IInv, ColorsMatchStack
  <2>2. Reaches(Callee(Site), Top.key)
    BY <2>1 DEF IInv, StackIsPath
  <2>3. Recursive(Site)
    BY <2>2 DEF Recursive
  <2>. QED BY <1>2, <2>3 DEF IInv, ReportsAreRecursive
<1>7. ReportedOnce'
  <2>1. \A j \in DOMAIN reports : reports[j] # Site
    <3> SUFFICES ASSUME NEW j \in DOMAIN reports, reports[j] = Site PROVE FALSE
      OBVIOUS
    <3>1. color[Top.key] # "Black"
      OBVIOUS
    <3>2. PICK i \in 1 .. Depth : frames[i].key = Top.key /\ Top.next < frames[i].next
      BY <3>1 DEF IInv, ReportsAreBehind
    <3>3. i = Depth
      BY <3>2 DEF IInv, ColorsMatchStack
    <3>. QED BY <3>2, <3>3 DEF Frame
  <2>. QED BY <1>2, <2>1 DEF IInv, ReportedOnce
<1>8. UnreportedCallsRank'
  <2>1. \A s : Reported(s) => Reported(s)'
    BY <1>2 DEF Reported
  <2>. QED BY <2>1 DEF IInv, UnreportedCallsRank, Reported
<1>. QED BY <1>1, <1>3, <1>4, <1>5, <1>6, <1>7, <1>8 DEF IInv

-----------------------------------------------------------------------------
(* A call of a macro not seen yet: its frame goes on the stack.            *)
LEMMA DescendIInv ==
  ASSUME IInv, Descend
  PROVE  IInv'
<1> DEFINE c == Callee(Site)
<1>1. /\ AtCall /\ registry' = registry /\ c \in Registered /\ color[c] = "None"
      /\ color' = [color EXCEPT ![c] = "Gray"]
      /\ frames' = Append(NextCall, [key |-> c, next |-> 1])
      /\ UNCHANGED <<roots, reports, finished>>
  BY DEF Descend
<1>2. c \in Key
  BY <1>1, CallsType DEF IInv
<1>3. [key |-> c, next |-> 1] \in Frame
  BY <1>2 DEF Frame
<1> HIDE DEF c
<1>4. /\ frames' \in Seq(Frame) /\ Depth' = Depth + 1 /\ Depth \in Nat \ {0}
      /\ \A i \in 1 .. Depth : frames'[i] = NextCall[i] /\ frames'[i].key = frames[i].key
      /\ frames'[Depth + 1] = [key |-> c, next |-> 1]
  BY <1>1, <1>3, AtCallFacts
<1>5. \A i \in 1 .. Depth : frames[i].key # c
  BY <1>1, <1>2 DEF IInv, ColorsMatchStack
<1>6. color \in [Key -> {"None", "Gray", "Black"}]
  BY DEF IInv, TypeOK
<1>7. TypeOK'
  BY <1>1, <1>4, <1>6 DEF IInv, TypeOK
<1>8. ColorsMatchStack'
  <2>1. \A k \in Key : color'[k] = IF k = c THEN "Gray" ELSE color[k]
    BY <1>1, <1>6
  <2>2. \A k \in Key : color'[k] # "None" => k \in Registered'
    BY <2>1, <1>1 DEF IInv, ColorsMatchStack
  <2>3. ASSUME NEW k \in Key
        PROVE  color'[k] = "Gray" <=> \E i \in 1 .. Depth' : frames'[i].key = k
    <3>1. CASE k = c
      BY <3>1, <2>1, <1>4
    <3>2. CASE k # c
      BY <3>2, <2>1, <1>4 DEF IInv, ColorsMatchStack
    <3>. QED BY <3>1, <3>2
  <2>4. \A k \in Key : color'[k] = "Black" <=> \E i \in DOMAIN finished' : finished'[i] = k
    BY <2>1, <1>1, <1>2 DEF IInv, ColorsMatchStack
  <2>5. \A i, j \in 1 .. Depth' : frames'[i].key = frames'[j].key => i = j
    BY <1>4, <1>5 DEF IInv, ColorsMatchStack
  <2>6. \A i, j \in DOMAIN finished' : finished'[i] = finished'[j] => i = j
    BY <1>1 DEF IInv, ColorsMatchStack
  <2>. QED BY <2>2, <2>3, <2>4, <2>5, <2>6 DEF ColorsMatchStack
<1>9. StackIsPath'
  <2>1. Reaches(Top.key, c)
    BY <1>1, AtCallFacts, ReachesStep DEF c
  <2>2. \A i \in 1 .. Depth : Reaches(frames[i].key, c)
    <3> SUFFICES ASSUME NEW i \in 1 .. Depth PROVE Reaches(frames[i].key, c)
      OBVIOUS
    <3>1. Reaches(frames[i].key, Top.key)
      BY <1>4 DEF IInv, StackIsPath
    <3>. QED BY <2>1, <3>1, ReachesTrans
  <2>3. Reaches(c, c)
    BY <1>1, ReachesRefl
  <2>4. \A i, j \in 1 .. Depth + 1 : i <= j => Reaches(frames'[i].key, frames'[j].key)
    <3> SUFFICES ASSUME NEW i \in 1 .. Depth + 1, NEW j \in 1 .. Depth + 1, i <= j
                 PROVE  Reaches(frames'[i].key, frames'[j].key)
      OBVIOUS
    <3>1. CASE j \in 1 .. Depth
      BY <3>1, <1>4 DEF IInv, StackIsPath
    <3>2. CASE j = Depth + 1 /\ i \in 1 .. Depth
      BY <3>2, <1>4, <2>2
    <3>3. CASE j = Depth + 1 /\ i = Depth + 1
      BY <3>3, <1>4, <2>3
    <3>. QED BY <3>1, <3>2, <3>3, <1>4
  <2>. QED BY <1>1, <1>4, <2>4, GraphFixed DEF StackIsPath
<1>10. PassedCallsSettled'
  <2> SUFFICES ASSUME NEW i \in 1 .. Depth + 1, NEW n \in DOMAIN Calls(frames'[i].key),
                      n < frames'[i].next, Callee(<<frames'[i].key, n>>) \in Registered
               PROVE  \/ color'[Callee(<<frames'[i].key, n>>)] = "Black"
                      \/ Reported(<<frames'[i].key, n>>)
                      \/ i < Depth + 1 /\ frames'[i + 1].key = Callee(<<frames'[i].key, n>>)
    BY <1>1, <1>4, GraphFixed DEF PassedCallsSettled, Reported
  <2>1. CASE i = Depth + 1
    <3>1. Calls(c) \in Seq(Key)
      BY <1>1, CallsType DEF IInv
    <3>2. FALSE
      BY <2>1, <1>4, <3>1
    <3>. QED BY <3>2
  <2>2. CASE i \in 1 .. Depth
    <3>1. frames'[i].key = frames[i].key
      BY <2>2, <1>4
    <3>2. Calls(frames[i].key) \in Seq(Key) /\ frames[i].next \in Nat \ {0}
      BY <2>2, FrameFacts
    <3>3. n \in Nat
      BY <3>1, <3>2
    <3>4. CASE n < frames[i].next
      <4> DEFINE s == <<frames[i].key, n>>
      <4>1. \/ color[Callee(s)] = "Black"
            \/ Reported(s)
            \/ i < Depth /\ frames[i + 1].key = Callee(s)
        BY <2>2, <3>1, <3>4 DEF IInv, PassedCallsSettled
      <4>2. Callee(s) \in Key
        BY <3>1, CallsType DEF IInv
      <4>3. color[Callee(s)] = "Black" => color'[Callee(s)] = "Black"
        BY <4>2, <1>1, <1>6
      <4>. QED BY <4>1, <4>3, <3>1, <1>4
    <3>5. CASE ~(n < frames[i].next)
      <4>1. i = Depth
        BY <3>3, <3>5, <2>2, <1>4, AtCallFacts, <1>1
      <4>2. n = Top.next
        BY <3>2, <3>3, <3>5, <4>1, <1>1, <1>4, AtCallFacts
      <4>3. Callee(<<frames'[i].key, n>>) = c
        BY <3>1, <4>1, <4>2 DEF c
      <4>. QED BY <4>1, <4>3, <1>4
    <3>. QED BY <3>4, <3>5
  <2>. QED BY <2>1, <2>2, <1>4
<1>11. ReportsAreBehind'
  <2> SUFFICES ASSUME NEW r \in DOMAIN reports
               PROVE  \/ color'[reports[r][1]] = "Black"
                      \/ \E i \in 1 .. Depth' : /\ frames'[i].key = reports[r][1]
                                                /\ reports[r][2] < frames'[i].next
    BY <1>1 DEF ReportsAreBehind
  <2>1. reports[r] \in Key \X Nat
    BY ReportFacts
  <2>2. CASE color[reports[r][1]] = "Black"
    BY <2>1, <2>2, <1>1, <1>6
  <2>3. CASE \E i \in 1 .. Depth : frames[i].key = reports[r][1] /\ reports[r][2] < frames[i].next
    <3>1. PICK i \in 1 .. Depth : frames[i].key = reports[r][1] /\ reports[r][2] < frames[i].next
      BY <2>3
    <3>2. i \in 1 .. Depth' /\ frames'[i].key = reports[r][1]
      BY <3>1, <1>4
    <3>3. frames[i].next \in Nat /\ frames'[i].next \in {frames[i].next, frames[i].next + 1}
      BY <1>1, <1>4, AtCallFacts, FrameFacts
    <3>4. reports[r][2] < frames'[i].next
      BY <2>1, <3>1, <3>3
    <3>. QED BY <3>2, <3>4
  <2>. QED BY <2>2, <2>3 DEF IInv, ReportsAreBehind
<1>12. RootsColored'
  BY <1>1, <1>2, <1>6, CallsType DEF IInv, RootsColored
<1>13. ReportsAreRecursive' /\ ReportedOnce'
  BY <1>1, GraphFixed DEF IInv, ReportsAreRecursive, ReportedOnce
<1>14. UnreportedCallsRank'
  BY <1>1, GraphFixed DEF IInv, UnreportedCallsRank
<1>. QED BY <1>7, <1>8, <1>9, <1>10, <1>11, <1>12, <1>13, <1>14 DEF IInv

-----------------------------------------------------------------------------
(* The end of a macro: it turns Black and joins the finished ones.         *)
LEMMA LeaveIInv ==
  ASSUME IInv, Leave
  PROVE  IInv'
<1> DEFINE k == Top.key
<1>1. /\ frames # <<>> /\ Top.next > Len(Calls(k))
      /\ color' = [color EXCEPT ![k] = "Black"]
      /\ frames' = SubSeq(frames, 1, Depth - 1)
      /\ finished' = Append(finished, k)
      /\ UNCHANGED <<registry, roots, reports>>
  BY DEF Leave
<1>2. /\ color \in [Key -> {"None", "Gray", "Black"}]
      /\ frames \in Seq(Frame) /\ finished \in Seq(Key)
  BY DEF IInv, TypeOK
<1>3. Depth \in Nat \ {0} /\ k \in Registered /\ Top.next \in Nat
  BY <1>1, <1>2, FrameFacts
<1>4. k \in Key /\ Calls(k) \in Seq(Key)
  BY <1>3, CallsType DEF IInv
<1> HIDE DEF k
<1>5. /\ frames' \in Seq(Frame) /\ Depth' = Depth - 1
      /\ \A i \in 1 .. Depth - 1 : frames'[i] = frames[i]
  BY <1>1, <1>2, PopFacts
<1>6. /\ finished' \in Seq(Key) /\ Len(finished') = Len(finished) + 1
      /\ Len(finished) \in Nat
      /\ DOMAIN finished = 1 .. Len(finished)
      /\ DOMAIN finished' = 1 .. Len(finished) + 1
      /\ \A i \in 1 .. Len(finished) : finished'[i] = finished[i]
      /\ finished'[Len(finished) + 1] = k
  BY <1>1, <1>2, <1>4
<1>7. color[k] = "Gray"
  BY <1>3, <1>4 DEF IInv, ColorsMatchStack, k
<1>8. \A x \in Key : color'[x] = IF x = k THEN "Black" ELSE color[x]
  BY <1>1, <1>2
<1>9. \A i \in 1 .. Depth - 1 : frames[i].key # k
  BY <1>3 DEF IInv, ColorsMatchStack, k
<1>10. TypeOK'
  BY <1>1, <1>2, <1>4, <1>5, <1>6 DEF IInv, TypeOK
<1>11. ColorsMatchStack'
  <2>1. \A x \in Key : color'[x] # "None" => x \in Registered'
    BY <1>1, <1>3, <1>8 DEF IInv, ColorsMatchStack
  <2>2. ASSUME NEW x \in Key
        PROVE  color'[x] = "Gray" <=> \E i \in 1 .. Depth' : frames'[i].key = x
    <3>1. CASE x = k
      BY <3>1, <1>5, <1>8, <1>9
    <3>2. CASE x # k
      <4>1. color[x] = "Gray" <=> \E i \in 1 .. Depth : frames[i].key = x
        BY DEF IInv, ColorsMatchStack
      <4>2. (\E i \in 1 .. Depth : frames[i].key = x) <=> \E i \in 1 .. Depth - 1 : frames[i].key = x
        BY <1>3, <3>2 DEF k
      <4>. QED BY <4>1, <4>2, <3>2, <1>5, <1>8
    <3>. QED BY <3>1, <3>2
  <2>3. ASSUME NEW x \in Key
        PROVE  color'[x] = "Black" <=> \E i \in DOMAIN finished' : finished'[i] = x
    <3>1. CASE x = k
      BY <3>1, <1>6, <1>8
    <3>2. CASE x # k
      <4>1. color[x] = "Black" <=> \E i \in 1 .. Len(finished) : finished[i] = x
        BY <1>6 DEF IInv, ColorsMatchStack
      <4>2. (\E i \in 1 .. Len(finished) + 1 : finished'[i] = x)
              <=> \E i \in 1 .. Len(finished) : finished[i] = x
        BY <1>6, <3>2
      <4>. QED BY <4>1, <4>2, <3>2, <1>6, <1>8
    <3>. QED BY <3>1, <3>2
  <2>4. \A i, j \in 1 .. Depth' : frames'[i].key = frames'[j].key => i = j
    BY <1>3, <1>5 DEF IInv, ColorsMatchStack
  <2>5. \A i, j \in DOMAIN finished' : finished'[i] = finished'[j] => i = j
    <3>1. \A i \in 1 .. Len(finished) : finished[i] # k
      BY <1>4, <1>6, <1>7 DEF IInv, ColorsMatchStack
    <3>2. \A i, j \in 1 .. Len(finished) : finished[i] = finished[j] => i = j
      BY <1>6 DEF IInv, ColorsMatchStack
    <3>. QED BY <1>6, <3>1, <3>2
  <2>. QED BY <2>1, <2>2, <2>3, <2>4, <2>5 DEF ColorsMatchStack
<1>12. StackIsPath'
  BY <1>1, <1>3, <1>5, GraphFixed DEF IInv, StackIsPath
<1>13. PassedCallsSettled'
  <2> SUFFICES ASSUME NEW i \in 1 .. Depth', NEW n \in DOMAIN Calls(frames'[i].key),
                      n < frames'[i].next, Callee(<<frames'[i].key, n>>) \in Registered
               PROVE  \/ color'[Callee(<<frames'[i].key, n>>)] = "Black"
                      \/ Reported(<<frames'[i].key, n>>)
                      \/ i < Depth' /\ frames'[i + 1].key = Callee(<<frames'[i].key, n>>)
    BY <1>1, GraphFixed DEF PassedCallsSettled, Reported
  <2>0. frames'[i] = frames[i]
    BY <1>5
  <2> DEFINE s == <<frames[i].key, n>>
  <2> HIDE DEF s
  <2>1. i \in 1 .. Depth
    BY <1>3, <1>5
  <2>6. <<frames'[i].key, n>> = s
    BY <2>0 DEF s
  <2>2. \/ color[Callee(s)] = "Black"
        \/ Reported(s)
        \/ i < Depth /\ frames[i + 1].key = Callee(s)
    BY <2>0, <2>1 DEF IInv, PassedCallsSettled, s
  <2>3. Callee(s) \in Key
    BY <2>0, <2>6, CallsType DEF IInv
  <2>4. CASE color[Callee(s)] = "Black"
    BY <2>3, <2>4, <2>6, <1>8
  <2>5. CASE i < Depth /\ frames[i + 1].key = Callee(s)
    <3>1. CASE i + 1 = Depth
      BY <3>1, <2>3, <2>5, <2>6, <1>8 DEF k
    <3>2. CASE i + 1 # Depth
      <4>0. i + 1 \in 1 .. Depth - 1 /\ i + 1 \in 1 .. Depth'
        BY <3>2, <2>1, <2>5, <1>3, <1>5
      <4>1. frames'[i + 1] = frames[i + 1]
        BY <4>0, <1>5
      <4>2. i < Depth'
        BY <3>2, <2>5, <1>3, <1>5
      <4>. QED BY <4>1, <4>2, <2>5, <2>6
    <3>. QED BY <3>1, <3>2
  <2>. QED BY <2>2, <2>4, <2>5, <2>6
<1>14. ReportsAreBehind'
  <2> SUFFICES ASSUME NEW r \in DOMAIN reports
               PROVE  \/ color'[reports[r][1]] = "Black"
                      \/ \E i \in 1 .. Depth' : /\ frames'[i].key = reports[r][1]
                                                /\ reports[r][2] < frames'[i].next
    BY <1>1 DEF ReportsAreBehind
  <2>1. reports[r] \in Key \X Nat
    BY ReportFacts
  <2>2. CASE color[reports[r][1]] = "Black"
    BY <2>1, <2>2, <1>8
  <2>3. CASE \E i \in 1 .. Depth : frames[i].key = reports[r][1] /\ reports[r][2] < frames[i].next
    <3>1. PICK i \in 1 .. Depth : frames[i].key = reports[r][1] /\ reports[r][2] < frames[i].next
      BY <2>3
    <3>2. CASE i = Depth
      BY <2>1, <3>1, <3>2, <1>8 DEF k
    <3>3. CASE i # Depth
      <4>1. i \in 1 .. Depth' /\ frames'[i] = frames[i]
        BY <3>3, <1>3, <1>5
      <4>. QED BY <3>1, <4>1
    <3>. QED BY <3>2, <3>3
  <2>. QED BY <2>2, <2>3 DEF IInv, ReportsAreBehind
<1>15. RootsColored'
  BY <1>1, <1>8, CallsType DEF IInv, RootsColored
<1>16. ReportsAreRecursive' /\ ReportedOnce'
  BY <1>1, GraphFixed DEF IInv, ReportsAreRecursive, ReportedOnce
<1>17. UnreportedCallsRank'
  <2> SUFFICES ASSUME NEW i \in 1 .. Len(finished) + 1, NEW s \in Sites,
                      s[1] = finished'[i], Callee(s) \in Registered
               PROVE  \/ Reported(s)
                      \/ \E j \in 1 .. (i - 1) : finished'[j] = Callee(s)
    BY <1>1, <1>6, GraphFixed DEF UnreportedCallsRank, Reported
  <2>1. CASE i \in 1 .. Len(finished)
    BY <2>1, <1>6 DEF IInv, UnreportedCallsRank, Reported
  <2>2. CASE i = Len(finished) + 1
    <3>1. s[1] = k /\ s[2] \in DOMAIN Calls(k) /\ s = <<k, s[2]>> /\ Callee(s) \in Key
      BY <2>2, <1>6, CallsType DEF IInv
    <3>2. s[2] < Top.next
      BY <3>1, <1>1, <1>3, <1>4
    <3>3. color[Callee(s)] = "Black" \/ Reported(s)
      BY <3>1, <3>2, <1>3 DEF IInv, PassedCallsSettled, k
    <3>4. CASE color[Callee(s)] = "Black"
      <4>1. PICK j \in 1 .. Len(finished) : finished[j] = Callee(s)
        BY <3>1, <3>4, <1>6 DEF IInv, ColorsMatchStack
      <4>. QED BY <4>1, <2>2, <1>6
    <3>. QED BY <3>3, <3>4
  <2>. QED BY <2>1, <2>2, <1>6
<1>. QED BY <1>10, <1>11, <1>12, <1>13, <1>14, <1>15, <1>16, <1>17 DEF IInv

-----------------------------------------------------------------------------
(* The invariant is inductive.                                             *)
LEMMA NextIInv == IInv /\ [Next]_vars => IInv'
<1> SUFFICES ASSUME IInv, [Next]_vars PROVE IInv'
  OBVIOUS
<1>1. ASSUME NEW k \in Key, SkipRoot(k) PROVE IInv'
  BY <1>1, SkipRootIInv
<1>2. ASSUME NEW k \in Key, StartRoot(k) PROVE IInv'
  BY <1>2, StartRootIInv
<1>3. CASE SkipUnregistered
  BY <1>3, SkipUnregisteredIInv
<1>4. CASE ReportCycle
  BY <1>4, ReportCycleIInv
<1>5. CASE SkipBlack
  BY <1>5, SkipBlackIInv
<1>6. CASE Descend
  BY <1>6, DescendIInv
<1>7. CASE Leave
  BY <1>7, LeaveIInv
<1>8. CASE UNCHANGED vars
  <2>1. registry' = registry
    BY <1>8 DEF vars
  <2>2. TypeOK' /\ ColorsMatchStack' /\ RootsColored' /\ ReportedOnce' /\ ReportsAreBehind'
    BY <1>8 DEF vars, IInv, TypeOK, ColorsMatchStack, RootsColored, ReportedOnce, ReportsAreBehind
  <2>3. StackIsPath' /\ ReportsAreRecursive'
    BY <1>8, <2>1, GraphFixed DEF vars, IInv, StackIsPath, ReportsAreRecursive
  <2>4. PassedCallsSettled' /\ UnreportedCallsRank'
    BY <1>8, <2>1, GraphFixed DEF vars, IInv, PassedCallsSettled, UnreportedCallsRank, Reported
  <2>. QED BY <2>2, <2>3, <2>4 DEF IInv
<1>9. CASE Terminated
  BY <1>8, <1>9 DEF Terminated
<1>. QED BY <1>1, <1>2, <1>3, <1>4, <1>5, <1>6, <1>7, <1>8, <1>9 DEF Next

(* The invariant holds of every reachable state, for every set of macros.  *)
THEOREM Invariance == Spec => []IInv
<1>. QED BY InitIInv, NextIInv, PTL DEF Spec

(* The state keeps its shape.                                              *)
THEOREM TypeCorrect == Spec => []TypeOK
<1>1. IInv => TypeOK
  BY DEF IInv
<1>. QED BY <1>1, Invariance, PTL

(* A report is always about a call that lies on a cycle of calls: shared   *)
(* and repeated calls are never reported.                                  *)
THEOREM ReportsSound == Spec => []ReportsAreRecursive
<1>1. IInv => ReportsAreRecursive
  BY DEF IInv
<1>. QED BY <1>1, Invariance, PTL

(* Silence is a proof that the macros do not call themselves: the macros   *)
(* finished up to the callee of a call form a closed set without the       *)
(* caller, so the callee cannot reach the caller.                          *)
THEOREM ReportsComplete == Spec => []SilentMeansAcyclic
<1>1. IInv => SilentMeansAcyclic
  <2> SUFFICES ASSUME IInv, Done, reports = <<>>, NEW s \in Sites, Recursive(s)
               PROVE  FALSE
    BY DEF SilentMeansAcyclic
  <2>1. /\ s[1] \in Registered /\ s[1] \in Key
        /\ Callee(s) \in Registered /\ Callee(s) \in Key
        /\ Reaches(Callee(s), s[1])
    BY CallsType DEF IInv, Recursive
  <2>2. /\ finished \in Seq(Key) /\ DOMAIN finished = 1 .. Len(finished)
        /\ Len(finished) \in Nat
        /\ color \in [Key -> {"None", "Gray", "Black"}]
    BY DEF IInv, TypeOK
  <2>3. color[s[1]] = "Black"
    BY <2>1, <2>2 DEF Done, IInv, ColorsMatchStack, RootsColored
  <2>4. PICK i \in 1 .. Len(finished) : finished[i] = s[1]
    BY <2>1, <2>2, <2>3 DEF IInv, ColorsMatchStack
  <2>5. \A t : ~Reported(t)
    BY DEF Reported
  <2>6. \A m \in 1 .. Len(finished) : \A t \in Sites :
           t[1] = finished[m] /\ Callee(t) \in Registered =>
             \E j \in 1 .. (m - 1) : finished[j] = Callee(t)
    BY <2>2, <2>5 DEF IInv, UnreportedCallsRank, Reported
  <2>7. PICK j \in 1 .. (i - 1) : finished[j] = Callee(s)
    BY <2>1, <2>4, <2>6
  <2> DEFINE S == {finished[m] : m \in 1 .. j}
  <2>8. \A m \in 1 .. j : m \in 1 .. Len(finished)
    BY <2>2, <2>4, <2>7
  <2>9. S \in SUBSET Registered
    <3> SUFFICES ASSUME NEW m \in 1 .. j PROVE finished[m] \in Registered
      OBVIOUS
    <3>1. finished[m] \in Key
      BY <2>2, <2>8
    <3>2. color[finished[m]] = "Black"
      BY <3>1, <2>2, <2>8 DEF IInv, ColorsMatchStack
    <3>. QED BY <3>1, <3>2 DEF IInv, ColorsMatchStack
  <2>10. Closed(S)
    <3> SUFFICES ASSUME NEW t \in Sites, t[1] \in S, Callee(t) \in Registered
                 PROVE  Callee(t) \in S
      BY DEF Closed
    <3>1. PICK m \in 1 .. j : t[1] = finished[m]
      OBVIOUS
    <3>2. PICK p \in 1 .. (m - 1) : finished[p] = Callee(t)
      BY <3>1, <2>6, <2>8
    <3>3. p \in 1 .. j
      BY <2>4, <2>7, <3>1, <3>2
    <3>. QED BY <3>2, <3>3
  <2>11. Callee(s) \in S
    BY ONLY <2>4, <2>7
  <2>12. s[1] \in S
    BY <2>1, <2>9, <2>10, <2>11 DEF Reaches
  <2>13. PICK m \in 1 .. j : finished[m] = s[1]
    BY <2>12
  <2>14. m = i
    <3>1. m \in DOMAIN finished /\ finished[m] = finished[i]
      BY <2>2, <2>4, <2>8, <2>13
    <3>. QED BY <2>4, <3>1 DEF IInv, ColorsMatchStack
  <2>. QED BY <2>4, <2>7, <2>13, <2>14
<1>. QED BY <1>1, Invariance, PTL

(* No call is reported twice, however many roots lead to it.               *)
THEOREM NoDuplicateReports == Spec => []ReportedOnce
<1>1. IInv => ReportedOnce
  BY DEF IInv
<1>. QED BY <1>1, Invariance, PTL
=============================================================================
