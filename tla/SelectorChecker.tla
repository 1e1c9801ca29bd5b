-------------------------- MODULE SelectorChecker --------------------------
(***************************************************************************)
(* TypecheckSelectors: one walk over a rule's selector list that finds the *)
(* classes the rule applies to.  Its functions call each other at their    *)
(* ends, so the walk is a loop with a mode: begin looks at the first token *)
(* of a selector or of the part after a combinator, consume is the loop    *)
(* after a class, past is consume_past_comma.                              *)
(***************************************************************************)
EXTENDS Naturals, Sequences, SequencesExt

CONSTANTS
  Name,        (* the names a selector can mention, of classes and states   *)
  Known,       (* those that are classes of the reflection database         *)
  Pseudo,      (* ALLOWED_PSEUDO_SELECTORS                                  *)
  State,       (* ALLOWED_STATE_SELECTORS                                   *)
  Instance,    (* the class every other one is an instance of               *)
  Lists,       (* the selector lists considered                             *)
  Parents      (* the classes of the rule around, none at the top           *)

(* SelectorNode: a call of a macro, or a token with the name it holds.     *)
Kind ==
  {"class", "pseudo", "state", "named", "query", "colon", "comma", "combinator", "call"}
Node == [kind : Kind, name : Name]

ASSUME NameAssumption ==
  /\ Known \subseteq Name /\ Instance \in Known \ Pseudo
  /\ Lists \subseteq Seq(Node) /\ Parents \subseteq Seq(Name)

VARIABLES
  list,        (* the selector list                                         *)
  parents,     (* parent_classes                                            *)
  at,          (* the node the iterator gave last                           *)
  mode,        (* which function the walk is in                             *)
  combined,    (* after_combinator                                          *)
  held,        (* validated_class, while from_new is in consume             *)
  classes,     (* classes, an IndexSet: in order, none twice                *)
  errors       (* the errors reported, with the node each one is about      *)

vars == <<list, parents, at, mode, combined, held, classes, errors>>

AtTop == parents = <<>>

(* next() passes over macro calls; the list is exhausted at its length + 1. *)
Token(i) ==
  LET tokens == {j \in i .. Len(list) : list[j].kind # "call"}
  IN  IF tokens = {} THEN Len(list) + 1 ELSE CHOOSE j \in tokens : \A k \in tokens : j <= k
Upcoming == Token(at + 1)
Exhausted(i) == i > Len(list)

(* insert and extend of an IndexSet.                                       *)
Insert(q, c) == IF Contains(q, c) THEN q ELSE Append(q, c)
Extend(q, more) ==
  LET upto[n \in 0 .. Len(more)] == IF n = 0 THEN q ELSE Insert(upto[n - 1], more[n])
  IN  upto[Len(more)]

(* validate_class: what is not a class counts as an Instance.              *)
Valid(c) == IF c \in Known THEN c ELSE Instance
ClassErrors(i) == IF list[i].name \in Known THEN <<>> ELSE <<<<"NoSuchClass", i>>>>
PseudoErrors(i) ==
  ClassErrors(i) \o (IF Valid(list[i].name) \notin Pseudo \cup {Instance}
                     THEN <<<<"NotPseudo", i>>>> ELSE <<>>)
StateErrors(i) == IF list[i].name \in State THEN <<>> ELSE <<<<"NoSuchState", i>>>>

Init ==
  /\ list \in Lists
  /\ parents \in Parents
  /\ at = 0
  /\ mode = "start"
  /\ combined = FALSE
  /\ held = Instance
  /\ classes = <<>>
  /\ errors = <<>>

(* The walk goes on with the next selector, or with what a combinator is   *)
(* followed by, at node i.                                                 *)
BeginAt(i, after) ==
  /\ at' = i
  /\ mode' = IF Exhausted(i) THEN "end" ELSE "begin"
  /\ combined' = after

Start ==
  /\ mode = "start"
  /\ BeginAt(Upcoming, FALSE)
  /\ UNCHANGED <<list, parents, held, classes, errors>>

-----------------------------------------------------------------------------
(* begin_iteration, at the node the walk is at: from_new and from_parent.  *)

Beginning(kind) == mode = "begin" /\ list[at].kind = kind

BeginNamed ==
  /\ Beginning("named") \/ Beginning("query")
  /\ classes' = Insert(classes, Instance)
  /\ mode' = "past"
  /\ UNCHANGED <<list, parents, at, combined, held, errors>>

BeginPseudo ==
  /\ Beginning("pseudo")
  /\ classes' = Insert(classes, Valid(list[at].name))
  /\ errors' = errors \o PseudoErrors(at)
  /\ mode' = "past"
  /\ UNCHANGED <<list, parents, at, combined, held>>

(* A state alone stands for the classes around it.                         *)
BeginState ==
  /\ Beginning("state")
  /\ classes' = IF AtTop THEN Insert(classes, Instance) ELSE Extend(classes, parents)
  /\ errors' = errors \o StateErrors(at)
  /\ mode' = "past"
  /\ UNCHANGED <<list, parents, at, combined, held>>

(* At the top the class is recorded once it is known to be the subject.    *)
BeginClass ==
  /\ AtTop
  /\ Beginning("class")
  /\ held' = Valid(list[at].name)
  /\ errors' = errors \o ClassErrors(at)
  /\ mode' = "consume"
  /\ UNCHANGED <<list, parents, at, combined, classes>>

BeginClassNested ==
  /\ ~AtTop
  /\ Beginning("class")
  /\ classes' = Insert(classes, Valid(list[at].name))
  /\ errors' = errors \o (IF combined THEN <<>> ELSE <<<<"NoCombinator", at>>>>) \o ClassErrors(at)
  /\ mode' = "consume"
  /\ UNCHANGED <<list, parents, at, combined, held>>

BeginCombinator ==
  /\ ~AtTop
  /\ Beginning("combinator")
  /\ BeginAt(Upcoming, TRUE)
  /\ UNCHANGED <<list, parents, held, classes, errors>>

(* Nothing else begins a selector: the walk ends without an error.         *)
BeginOther ==
  /\ Beginning("comma") \/ Beginning("colon") \/ (AtTop /\ Beginning("combinator"))
  /\ mode' = "end"
  /\ UNCHANGED <<list, parents, at, combined, held, classes, errors>>

-----------------------------------------------------------------------------
(* consume, after a class.                                                 *)

Consuming(kind) ==
  mode = "consume" /\ ~Exhausted(Upcoming) /\ list[Upcoming].kind = kind

(* Mistake: a selector begins at the pseudo once it is dealt with.         *)
ConsumePseudoAgain ==
  /\ Consuming("pseudo")
  /\ classes' = Insert(IF AtTop THEN classes ELSE Front(classes), Valid(list[Upcoming].name))
  /\ errors' = errors \o PseudoErrors(Upcoming)
  /\ BeginAt(Upcoming, FALSE)
  /\ UNCHANGED <<list, parents, held>>

(* In from_parent the pseudo takes the place of the class just inserted.   *)
ConsumePseudo ==
  /\ Consuming("pseudo")
  /\ classes' = Insert(IF AtTop THEN classes ELSE Front(classes), Valid(list[Upcoming].name))
  /\ errors' = errors \o PseudoErrors(Upcoming)
  /\ at' = Upcoming
  /\ mode' = "past"
  /\ UNCHANGED <<list, parents, combined, held>>

ConsumeState ==
  /\ Consuming("state")
  /\ classes' = IF AtTop THEN Insert(classes, held) ELSE classes
  /\ errors' = errors \o StateErrors(Upcoming)
  /\ at' = Upcoming
  /\ mode' = "past"
  /\ UNCHANGED <<list, parents, combined, held>>

(* A comma ends the selector, and at the top makes its class the subject;  *)
(* after a combinator the subject is still to come.                        *)
ConsumeDelimiter ==
  /\ Consuming("comma") \/ Consuming("combinator")
  /\ classes' = IF AtTop /\ Consuming("comma") THEN Insert(classes, held) ELSE classes
  /\ BeginAt(Token(Upcoming + 1), FALSE)
  /\ UNCHANGED <<list, parents, held, errors>>

(* Mistake: the loop looks at the same token again.                        *)
ConsumeStay ==
  /\ Consuming("class") \/ Consuming("named") \/ Consuming("query")
  /\ UNCHANGED vars

(* A colon without a name is allowed like a state, and then left alone.    *)
ConsumeColon ==
  /\ Consuming("colon")
  /\ at' = Upcoming
  /\ mode' = "end"
  /\ UNCHANGED <<list, parents, combined, held, classes, errors>>

(* Tags and names may follow a class, a query or another class may not.    *)
ConsumeOther ==
  /\ Consuming("class") \/ Consuming("named") \/ Consuming("query")
  /\ errors' = IF Consuming("named") THEN errors ELSE Append(errors, <<"Adjacent", Upcoming>>)
  /\ at' = Upcoming
  /\ UNCHANGED <<list, parents, mode, combined, held, classes>>

ConsumeEnd ==
  /\ mode = "consume"
  /\ Exhausted(Upcoming)
  /\ classes' = IF AtTop THEN Insert(classes, held) ELSE classes
  /\ at' = Upcoming
  /\ mode' = "end"
  /\ UNCHANGED <<list, parents, combined, held, errors>>

-----------------------------------------------------------------------------
(* Mistake: the comma itself is taken for the next selector.               *)
PastCommaToComma ==
  /\ mode = "past"
  /\ IF Exhausted(Upcoming) \/ list[Upcoming].kind # "comma"
     THEN at' = Upcoming /\ mode' = "end" /\ UNCHANGED combined
     ELSE BeginAt(Upcoming, FALSE)
  /\ UNCHANGED <<list, parents, held, classes, errors>>

(* consume_past_comma: if the next token is a comma the walk goes on after *)
(* it, if it is anything else the walk ends.                               *)
PastComma ==
  /\ mode = "past"
  /\ IF Exhausted(Upcoming) \/ list[Upcoming].kind # "comma"
     THEN at' = Upcoming /\ mode' = "end" /\ UNCHANGED combined
     ELSE BeginAt(Token(Upcoming + 1), FALSE)
  /\ UNCHANGED <<list, parents, held, classes, errors>>

Done == mode = "end"
Terminated == Done /\ UNCHANGED vars

Next ==
  \/ Start
  \/ BeginNamed
  \/ BeginPseudo
  \/ BeginState
  \/ BeginClass
  \/ BeginClassNested
  \/ BeginCombinator
  \/ BeginOther
  \/ ConsumePseudo
  \/ ConsumeState
  \/ ConsumeDelimiter
  \/ ConsumeColon
  \/ ConsumeOther
  \/ ConsumeEnd
  \/ PastComma
  \/ Terminated

Spec == Init /\ [][Next]_vars

(* A loop in a plain function: it keeps running until it returns.          *)
FairSpec == Spec /\ WF_vars(Next)

-----------------------------------------------------------------------------
(* What a list means: the selectors between its commas, and the class each *)
(* one applies to, that of its last part: a pseudo instance before the     *)
(* class that holds it, and with neither any instance, or for a state the  *)
(* classes around.                                                         *)
Commas == {i \in DOMAIN list : list[i].kind = "comma"}
Selector(i) ==      (* the nodes of the selector that node i is in          *)
  {j \in DOMAIN list \ Commas : \A k \in Commas : (k < i <=> k < j)}
LastPart(i) ==
  {j \in Selector(i) : list[j].kind \notin {"combinator", "call"}
                       /\ \A k \in Selector(i) : list[k].kind = "combinator" => k < j}
Subjects(i) ==
  LET named(kind) == {Valid(list[j].name) : j \in {k \in LastPart(i) : list[k].kind = kind}}
      only(kind) == LastPart(i) # {} /\ \A k \in LastPart(i) : list[k].kind = kind
  IN  IF named("pseudo") # {} THEN named("pseudo")
      ELSE IF named("class") # {} THEN named("class")
      ELSE IF only("state") /\ ~AtTop THEN Range(parents)
      ELSE IF LastPart(i) # {} THEN {Instance}
      ELSE {}

(* The lists the walk was written for: nothing stands behind a pseudo, a   *)
(* state or a leading tag or name but a comma; a combinator stands before  *)
(* every class of a nested rule, at its selector's start and only there,   *)
(* and at the top between two parts; and no class of a nested rule that    *)
(* holds a pseudo is the subject of an earlier selector.                   *)
Opens(i) == \A j \in Selector(i) : i <= j
Closes(i) == \A j \in Selector(i) : j <= i
Simple ==
  \A i \in DOMAIN list :
    /\ list[i].kind \notin {"call", "colon"}
    /\ i \in Commas => i > 1 /\ i < Len(list) /\ i - 1 \notin Commas
    /\ list[i].kind \in {"pseudo", "state"} => Closes(i)
    /\ list[i].kind \in {"named", "query"} /\ (Opens(i) \/ list[i - 1].kind = "combinator") => Closes(i)
    /\ list[i].kind \in {"class", "query"} => Opens(i) \/ list[i - 1].kind = "combinator"
    /\ list[i].kind = "class" /\ ~AtTop => ~Opens(i)
    /\ list[i].kind = "combinator" =>
         /\ ~Closes(i)
         /\ list[i + 1].kind # "combinator"
         /\ Opens(i) <=> ~AtTop
    /\ list[i].kind = "pseudo" /\ ~Opens(i) /\ ~AtTop =>
         \A j \in Selector(i) : list[j].kind = "class" =>
           \A k \in 1 .. (j - 1) :
             k \notin Commas \cup Selector(i) => Valid(list[j].name) \notin Subjects(k)

(* On such lists the walk finds exactly the classes the selectors apply to *)
(* and complains about names only.                                         *)
SimpleListsResolve ==
  Done /\ Simple =>
    /\ Range(classes) = UNION {Subjects(i) : i \in DOMAIN list \ Commas}
    /\ \A n \in DOMAIN errors : errors[n][1] \in {"NoSuchClass", "NotPseudo", "NoSuchState"}

(* Whatever the list, no class comes from nowhere: it is named in the part *)
(* of the list that was walked, taken over from the rule around, or an     *)
(* Instance; and nothing is reported twice, or of a node not yet reached.  *)
ClassesFromWalk ==
  /\ \A c \in Range(classes) \ ({Instance} \cup Range(parents)) :
       \E i \in DOMAIN list : i <= at /\ list[i].kind \in {"class", "pseudo"} /\ list[i].name = c
  /\ \A m, n \in DOMAIN errors : m < n => errors[m][2] <= errors[n][2] /\ errors[m] # errors[n]
  /\ \A n \in DOMAIN errors : errors[n][2] <= at

(* The walk ends on every list.                                            *)
Termination == <>Done

(* CHANGELOG.md: strict mode requires a property to exist on every class   *)
(* in a multi-class selector.  So the class of every selector of the list  *)
(* must be among those the rule's properties are checked against.          *)
EverySelectorCounts ==
  Done => \A i \in DOMAIN list \ Commas : Subjects(i) \subseteq Range(classes)
=============================================================================
