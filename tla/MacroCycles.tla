---------------------------- MODULE MacroCycles ----------------------------
(***************************************************************************)
(* Typechecker::detect_recursive_macro_calls: the depth-first search that  *)
(* colours the macros of a file and reports RecursiveMacroCall for every   *)
(* call that leads back to a macro still being visited.  The recursion of  *)
(* dfs_macro_cycle is unrolled into a stack of frames, one step per        *)
(* iteration of its loop over the calls of a body.                         *)
(*                                                                         *)
(* The search starts from the keys of a HashMap, so the order of the roots *)
(* is arbitrary: StartRoot may take any of them.                           *)
(***************************************************************************)
EXTENDS Naturals, Sequences

CONSTANTS
  Key,          (* the MacroKeys (name, arity) a file can mention           *)
  CallLists,    (* the calls one body can make, in the order visited        *)
  NoBody        (* a registered macro whose body did not parse              *)

ASSUME CallListsAssumption == CallLists \subseteq Seq(Key)
ASSUME NoBodyAssumption == NoBody \notin CallLists

VARIABLES
  registry,     (* macro_registry: registered key -> its calls, or NoBody   *)
  roots,        (* the keys the outer loop has still to look at             *)
  color,        (* the HashMap color; "None" stands for an absent key       *)
  frames,       (* the active calls of dfs_macro_cycle, outermost first     *)
  reports,      (* the call sites reported, in order                        *)
  finished      (* history: the keys in the order they turned Black         *)

vars == <<registry, roots, color, frames, reports, finished>>

Registered == DOMAIN registry

(* The calls for_each_macro_call_in_body hands to the search.              *)
Calls(k) == IF registry[k] = NoBody THEN <<>> ELSE registry[k]

(* A call site: the position of a call among the calls of its macro.       *)
Sites == UNION {{<<k, n>> : n \in DOMAIN Calls(k)} : k \in Registered}
Callee(s) == Calls(s[1])[s[2]]

Depth == Len(frames)
Top == frames[Depth]
Site == <<Top.key, Top.next>>

Init ==
  /\ registry \in UNION {[S -> CallLists \cup {NoBody}] : S \in SUBSET Key}
  /\ roots = Registered
  /\ color = [k \in Key |-> "None"]
  /\ frames = <<>>
  /\ reports = <<>>
  /\ finished = <<>>

-----------------------------------------------------------------------------
(* The outer loop over the registered keys.                                *)

SkipRoot(k) ==
  /\ frames = <<>>
  /\ k \in roots
  /\ color[k] # "None"
  /\ roots' = roots \ {k}
  /\ UNCHANGED <<registry, color, frames, reports, finished>>

(* Mistake: the first call is numbered zero.                               *)
StartRootAtZero(k) ==
  /\ frames = <<>>
  /\ k \in roots
  /\ color[k] = "None"
  /\ roots' = roots \ {k}
  /\ color' = [color EXCEPT ![k] = "Gray"]
  /\ frames' = <<[key |-> k, next |-> 0]>>
  /\ UNCHANGED <<registry, reports, finished>>

StartRoot(k) ==
  /\ frames = <<>>
  /\ k \in roots
  /\ color[k] = "None"
  /\ roots' = roots \ {k}
  /\ color' = [color EXCEPT ![k] = "Gray"]
  /\ frames' = <<[key |-> k, next |-> 1]>>
  /\ UNCHANGED <<registry, reports, finished>>

-----------------------------------------------------------------------------
(* dfs_macro_cycle, inside a call for Top.key.                             *)

AtCall == frames # <<>> /\ Top.next <= Len(Calls(Top.key))

NextCall == [frames EXCEPT ![Depth].next = @ + 1]

(* Mistake: the loop does not move past a call of an unknown macro.        *)
StayAtUnregistered ==
  /\ AtCall
  /\ Callee(Site) \notin Registered
  /\ UNCHANGED vars

SkipUnregistered ==
  /\ AtCall
  /\ Callee(Site) \notin Registered
  /\ frames' = NextCall
  /\ UNCHANGED <<registry, roots, color, reports, finished>>

(* Mistake: any macro seen before counts as a cycle.                       *)
ReportSeen ==
  /\ AtCall
  /\ Callee(Site) \in Registered
  /\ color[Callee(Site)] # "None"
  /\ reports' = Append(reports, Site)
  /\ frames' = NextCall
  /\ UNCHANGED <<registry, roots, color, finished>>

(* Mistake: a macro that calls itself directly goes unreported.            *)
ReportCycleOfOthers ==
  /\ AtCall
  /\ Callee(Site) \in Registered
  /\ color[Callee(Site)] = "Gray"
  /\ reports' = IF Callee(Site) = Top.key THEN reports ELSE Append(reports, Site)
  /\ frames' = NextCall
  /\ UNCHANGED <<registry, roots, color, finished>>

ReportCycle ==
  /\ AtCall
  /\ Callee(Site) \in Registered
  /\ color[Callee(Site)] = "Gray"
  /\ reports' = Append(reports, Site)
  /\ frames' = NextCall
  /\ UNCHANGED <<registry, roots, color, finished>>

SkipBlack ==
  /\ AtCall
  /\ Callee(Site) \in Registered
  /\ color[Callee(Site)] = "Black"
  /\ frames' = NextCall
  /\ UNCHANGED <<registry, roots, color, reports, finished>>

Descend ==
  /\ AtCall
  /\ Callee(Site) \in Registered
  /\ color[Callee(Site)] = "None"
  /\ color' = [color EXCEPT ![Callee(Site)] = "Gray"]
  /\ frames' = Append(NextCall, [key |-> Callee(Site), next |-> 1])
  /\ UNCHANGED <<registry, roots, reports, finished>>

(* Mistake: the colour is cleared on the way out, as in a search for paths. *)
LeaveUncolored ==
  /\ frames # <<>>
  /\ Top.next > Len(Calls(Top.key))
  /\ color' = [color EXCEPT ![Top.key] = "None"]
  /\ frames' = SubSeq(frames, 1, Depth - 1)
  /\ finished' = Append(finished, Top.key)
  /\ UNCHANGED <<registry, roots, reports>>

(* The end of the loop, or the early return of a macro without a body.     *)
Leave ==
  /\ frames # <<>>
  /\ Top.next > Len(Calls(Top.key))
  /\ color' = [color EXCEPT ![Top.key] = "Black"]
  /\ frames' = SubSeq(frames, 1, Depth - 1)
  /\ finished' = Append(finished, Top.key)
  /\ UNCHANGED <<registry, roots, reports>>

Done == frames = <<>> /\ roots = {}

Terminated == Done /\ UNCHANGED vars

Next ==
  \/ \E k \in Key : SkipRoot(k)
  \/ \E k \in Key : StartRoot(k)
  \/ SkipUnregistered
  \/ ReportCycle
  \/ SkipBlack
  \/ Descend
  \/ Leave
  \/ Terminated

Spec == Init /\ [][Next]_vars

(* The search is a plain recursive function: it keeps running until it     *)
(* returns.                                                                *)
FairSpec == Spec /\ WF_vars(Next)

-----------------------------------------------------------------------------
Frame == [key : Key, next : Nat \ {0}]

(* The shape of the search's state.                                        *)
TypeOK ==
  /\ Registered \subseteq Key
  /\ registry \in [Registered -> CallLists \cup {NoBody}]
  /\ roots \subseteq Registered
  /\ color \in [Key -> {"None", "Gray", "Black"}]
  /\ frames \in Seq(Frame)
  /\ reports \in Seq(Key \X Nat)
  /\ finished \in Seq(Key)

(* A set of macros that no call leaves (unregistered callees aside).       *)
Closed(S) == \A s \in Sites : s[1] \in S /\ Callee(s) \in Registered => Callee(s) \in S

(* b can be reached from a along calls: it is in every closed set that     *)
(* holds a.                                                                *)
Reaches(a, b) == \A S \in SUBSET Registered : a \in S /\ Closed(S) => b \in S

(* A call that lies on a cycle of the call graph.                          *)
Recursive(s) == Callee(s) \in Registered /\ Reaches(Callee(s), s[1])

(* Only recursion is reported: the callee of every reported call can reach *)
(* the macro that makes the call, so two macros that share a callee, or a  *)
(* macro called twice, are never taken for a cycle.                        *)
ReportsAreRecursive ==
  \A i \in DOMAIN reports : reports[i] \in Sites /\ Recursive(reports[i])

(* No recursion is missed: when the search ends without a report, no call  *)
(* of the file lies on a cycle, whatever the order of the roots was.       *)
SilentMeansAcyclic ==
  Done /\ reports = <<>> => \A s \in Sites : ~Recursive(s)

(* Each call is reported at most once, although many roots reach it.       *)
ReportedOnce ==
  \A i, j \in DOMAIN reports : reports[i] = reports[j] => i = j

(* The calls left unreported admit a ranking: every one leads to a macro   *)
(* finished earlier, which is what lets a caller expand them in order.     *)
UnreportedCallsRank ==
  \A i \in DOMAIN finished : \A s \in Sites :
    s[1] = finished[i] /\ Callee(s) \in Registered =>
      \/ \E j \in DOMAIN reports : reports[j] = s
      \/ \E j \in 1 .. (i - 1) : finished[j] = Callee(s)

(* The search ends on every call graph, cyclic ones included.              *)
Termination == <>Done

-----------------------------------------------------------------------------
(* The inductive invariant behind these properties.                        *)

Reported(s) == \E i \in DOMAIN reports : reports[i] = s

(* Gray is exactly "on the stack" and Black exactly "finished", each once. *)
ColorsMatchStack ==
  /\ \A k \in Key : color[k] # "None" => k \in Registered
  /\ \A k \in Key : color[k] = "Gray" <=> \E i \in 1 .. Depth : frames[i].key = k
  /\ \A k \in Key : color[k] = "Black" <=> \E i \in DOMAIN finished : finished[i] = k
  /\ \A i, j \in 1 .. Depth : frames[i].key = frames[j].key => i = j
  /\ \A i, j \in DOMAIN finished : finished[i] = finished[j] => i = j

(* A macro on the stack can reach every macro above it.                    *)
StackIsPath ==
  \A i, j \in 1 .. Depth : i <= j => Reaches(frames[i].key, frames[j].key)

(* The calls a frame has passed are settled: the callee is finished, or    *)
(* the call was reported, or it is the call the next frame is working on.  *)
PassedCallsSettled ==
  \A i \in 1 .. Depth : \A n \in DOMAIN Calls(frames[i].key) :
    LET s == <<frames[i].key, n>>
    IN  n < frames[i].next /\ Callee(s) \in Registered =>
          \/ color[Callee(s)] = "Black"
          \/ Reported(s)
          \/ i < Depth /\ frames[i + 1].key = Callee(s)

(* A reported call lies behind the search.                                 *)
ReportsAreBehind ==
  \A r \in DOMAIN reports :
    \/ color[reports[r][1]] = "Black"
    \/ \E i \in 1 .. Depth : frames[i].key = reports[r][1] /\ reports[r][2] < frames[i].next

(* A root taken off the list has been given a colour.                      *)
RootsColored == \A k \in Registered \ roots : color[k] # "None"

(* Together with the properties above, what every step preserves.          *)
IInv ==
  /\ TypeOK
  /\ ColorsMatchStack
  /\ StackIsPath
  /\ PassedCallsSettled
  /\ ReportsAreBehind
  /\ RootsColored
  /\ ReportsAreRecursive
  /\ ReportedOnce
  /\ UnreportedCallsRank
=============================================================================
