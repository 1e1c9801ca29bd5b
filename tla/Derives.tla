------------------------------ MODULE Derives ------------------------------
(***************************************************************************)
(* The @derive declarations of the files of a project, the .luaurc aliases *)
(* they go through, and the Dependants that say which files to check again *)
(* when an alias changes.  The typechecker resolves a file's derives one   *)
(* after the other and enters the file under every alias it meets.         *)
(* Aliases::diff walks two sorted tables for the aliases that differ.      *)
(*                                                                         *)
(* What holds the files and the Luaurc is not in the repository.  It is    *)
(* modelled as the public fields and functions ask for: it checks a file   *)
(* after an edit, and on a new .luaurc keeps the dependants, reads the new *)
(* table with Aliases::from_path and checks the dependants of what differs.*)
(***************************************************************************)
EXTENDS Naturals, FiniteSets, Sequences, Functions

CONSTANTS
  File,
  Alias,       (* the names of aliases, numbered in their order             *)
  Place,       (* the paths that can be written or stand for an alias       *)
  Disks,       (* what canonicalize can answer: the file that a place leads  *)
               (* to, or None if it fails                                   *)
  Sources,     (* the sequences of derives a file can have                  *)
  Tables,      (* the alias tables .luaurc can have                         *)
  None,
  MaxEdits     (* bounds the edits, the reloads, the files closed and the   *)
               (* changes of the disk                                       *)

(* What can stand after @derive: a path, the name of an alias with the     *)
(* place it stands for when there is no such alias, or something else.     *)
Items ==
  [kind : {"path"}, place : Place]
    \cup [kind : {"alias"}, alias : Alias, place : Place]
    \cup [kind : {"invalid"}]

ASSUME DerivesAssumption ==
  /\ Alias \subseteq Nat
  /\ Disks \subseteq [Place -> File \cup {None}]
  /\ Sources \subseteq Seq(Items)
  /\ \A table \in Tables :
       DOMAIN table \subseteq Alias /\ IsFiniteSet(DOMAIN table) /\ table \in [DOMAIN table -> Place]
  /\ None \notin File \cup Tables

VARIABLES
  source,      (* the derives of every file, in order                       *)
  located,     (* what canonicalize answers now                             *)
  aliases,     (* luaurc.aliases                                            *)
  by_alias,    (* luaurc.dependants, its left_to_right                      *)
  by_file,     (* luaurc.dependants, its right_to_left                      *)
  checking,    (* current_path of the check going on, or None               *)
  at,          (* the derive it is at                                       *)
  derives,     (* what it found so far: the derive of every file derived    *)
  errors,      (* and the derives in error                                  *)
  result,      (* the derives and the errors the last check of a file gave  *)
  stale,       (* the files to be checked                                   *)
  incoming,    (* the other table while diff goes through both, or None     *)
  self_at,     (* other_self: its place among the keys of aliases           *)
  other_at,    (* other_next: its place among the keys of incoming          *)
  changed,     (* the keys diff has yielded                                 *)
  edits

check == <<checking, at, derives, errors>>
diff == <<incoming, self_at, other_at, changed>>
vars == <<source, located, aliases, by_alias, by_file, check, result, stale, diff, edits>>

Dependants == INSTANCE MultiBiMap WITH
  Left <- Alias, Right <- File, left_to_right <- by_alias, right_to_left <- by_file

Nothing == [f \in {} |-> 0]
Idle == checking = None /\ incoming = None

Init ==
  /\ source = [f \in File |-> <<>>]
  /\ located \in Disks
  /\ aliases \in Tables
  /\ Dependants!Init
  /\ checking = None /\ at = 1 /\ derives = Nothing /\ errors = {}
  /\ result = [f \in File |-> None]
  /\ stale = {}
  /\ incoming = None /\ self_at = 1 /\ other_at = 1 /\ changed = <<>>
  /\ edits = 0

-----------------------------------------------------------------------------
(* The holder of the files: a file is opened or edited, or closed, and its *)
(* check begins.                                                           *)
Edit(f) ==
  /\ Idle /\ edits < MaxEdits
  /\ source' \in {[source EXCEPT ![f] = s] : s \in Sources}
  /\ stale' = stale \cup {f}
  /\ edits' = edits + 1
  /\ UNCHANGED <<located, aliases, by_alias, by_file, check, result, diff>>

Close(f) ==
  /\ Idle /\ edits < MaxEdits /\ result[f] # None
  /\ Dependants!RemoveByRight(f)
  /\ source' = [source EXCEPT ![f] = <<>>]
  /\ result' = [result EXCEPT ![f] = None]
  /\ stale' = stale \ {f}
  /\ edits' = edits + 1
  /\ UNCHANGED <<located, aliases, check, diff>>

BeginCheck(f) ==
  /\ Idle /\ f \in stale
  /\ checking' = f
  /\ UNCHANGED <<at, derives, errors, source, located, aliases, by_alias, by_file, result, stale, diff, edits>>

(* Files come and go on the disk.  Whoever holds the results knows from    *)
(* them which files have derived what has moved, and which have had errors *)
(* that may be gone.                                                       *)
MoveFiles ==
  /\ Idle /\ edits < MaxEdits
  /\ located' \in Disks
  /\ LET moved == {located[p] : p \in {q \in Place : located'[q] # located[q]}}
         Concerned(f) == DOMAIN result[f].derives \cap moved # {} \/ result[f].errors # {}
     IN  stale' = stale \cup {f \in File : result[f] # None /\ Concerned(f)}
  /\ edits' = edits + 1
  /\ UNCHANGED <<source, aliases, by_alias, by_file, check, result, diff>>

-----------------------------------------------------------------------------
(* typecheck_derive, over the derives of the file.                         *)

Item == source[checking][at]
Checking(kind) == checking # None /\ at <= Len(source[checking]) /\ Item.kind = kind

(* Where a derive leads: an alias that is known stands for its path, one   *)
(* that is not for the directory of its name.                              *)
PlaceOf(item) ==
  IF item.kind = "alias" /\ item.alias \in DOMAIN aliases
  THEN aliases[item.alias] ELSE item.place

(* resolve_derive: a file that two derives lead to is kept for the second. *)
Resolve(item) ==
  LET target == located[PlaceOf(item)]
      error(kind) == errors' = errors \cup {<<kind, at>>} /\ UNCHANGED derives
  IN  CASE target = None -> error("UnknownDerive")
        [] target = checking -> error("CyclicDerive")
        [] OTHER -> /\ derives' = Dependants!With(derives, target, at)
                    /\ UNCHANGED errors

CheckPath ==
  /\ Checking("path")
  /\ Resolve(Item)
  /\ at' = at + 1
  /\ UNCHANGED <<checking, source, located, aliases, by_alias, by_file, result, stale, diff, edits>>

(* Mistake: the file becomes a dependant of aliases that exist only.       *)
CheckKnownAlias ==
  /\ Checking("alias")
  /\ IF Item.alias \in DOMAIN aliases
     THEN Dependants!Insert(Item.alias, checking)
     ELSE UNCHANGED <<by_alias, by_file>>
  /\ Resolve(Item)
  /\ at' = at + 1
  /\ UNCHANGED <<checking, source, located, aliases, result, stale, diff, edits>>

(* resolve_derive_alias: the file depends on the alias, known or not.      *)
CheckAlias ==
  /\ Checking("alias")
  /\ Dependants!Insert(Item.alias, checking)
  /\ Resolve(Item)
  /\ at' = at + 1
  /\ UNCHANGED <<checking, source, located, aliases, result, stale, diff, edits>>

CheckInvalid ==
  /\ Checking("invalid")
  /\ errors' = errors \cup {<<"InvalidType", at>>}
  /\ at' = at + 1
  /\ UNCHANGED <<checking, derives, source, located, aliases, by_alias, by_file, result, stale, diff, edits>>

EndCheck ==
  /\ checking # None /\ at > Len(source[checking])
  /\ result' = [result EXCEPT ![checking] = [derives |-> derives, errors |-> errors]]
  /\ stale' = stale \ {checking}
  /\ checking' = None
  /\ at' = 1 /\ derives' = Nothing /\ errors' = {}
  /\ UNCHANGED <<source, located, aliases, by_alias, by_file, diff, edits>>

-----------------------------------------------------------------------------
(* A new .luaurc: Aliases::diff between the old table and the new one.     *)

(* The keys of a BTreeMap, in their order.                                 *)
Keys(table) ==
  CHOOSE keys \in [1 .. Cardinality(DOMAIN table) -> DOMAIN table] :
    \A i, j \in DOMAIN keys : i < j => keys[i] < keys[j]
SelfKeys == Keys(aliases)
OtherKeys == Keys(incoming)
SelfDone == self_at > Len(SelfKeys)
OtherDone == other_at > Len(OtherKeys)

BeginReload ==
  /\ Idle /\ edits < MaxEdits
  /\ incoming' \in Tables
  /\ edits' = edits + 1
  /\ UNCHANGED <<self_at, other_at, changed, source, located, aliases, by_alias, by_file, check, result, stale>>

Differing ==
  /\ incoming # None
  /\ UNCHANGED <<source, located, aliases, by_alias, by_file, check, result, stale, incoming, edits>>

(* Mistake: keys that agree hold the iterators.                            *)
DiffBothStay ==
  /\ Differing /\ ~SelfDone /\ ~OtherDone
  /\ LET key == SelfKeys[self_at]
     IN  /\ key = OtherKeys[other_at]
         /\ IF aliases[key] = incoming[key]
            THEN UNCHANGED <<self_at, other_at, changed>>
            ELSE /\ changed' = Append(changed, key)
                 /\ self_at' = self_at + 1
                 /\ other_at' = other_at + 1

(* Mistake: the keys are compared and their paths are not.                 *)
DiffBothByKey ==
  /\ Differing /\ ~SelfDone /\ ~OtherDone
  /\ SelfKeys[self_at] = OtherKeys[other_at]
  /\ self_at' = self_at + 1
  /\ other_at' = other_at + 1
  /\ UNCHANGED changed

DiffBoth ==
  /\ Differing /\ ~SelfDone /\ ~OtherDone
  /\ LET key == SelfKeys[self_at]
     IN  /\ key = OtherKeys[other_at]
         /\ changed' = IF aliases[key] = incoming[key] THEN changed ELSE Append(changed, key)
  /\ self_at' = self_at + 1
  /\ other_at' = other_at + 1

DiffSelf ==
  /\ Differing /\ ~SelfDone
  /\ ~OtherDone => SelfKeys[self_at] < OtherKeys[other_at]
  /\ changed' = Append(changed, SelfKeys[self_at])
  /\ self_at' = self_at + 1
  /\ UNCHANGED other_at

(* Mistake: a key that is new is passed over.                              *)
DiffOtherSilent ==
  /\ Differing /\ ~OtherDone
  /\ ~SelfDone => OtherKeys[other_at] < SelfKeys[self_at]
  /\ other_at' = other_at + 1
  /\ UNCHANGED <<self_at, changed>>

DiffOther ==
  /\ Differing /\ ~OtherDone
  /\ ~SelfDone => OtherKeys[other_at] < SelfKeys[self_at]
  /\ changed' = Append(changed, OtherKeys[other_at])
  /\ other_at' = other_at + 1
  /\ UNCHANGED self_at

(* The new table takes the place of the old one, and the dependants of the *)
(* aliases that differ are to be checked.                                  *)
EndReload ==
  /\ incoming # None /\ SelfDone /\ OtherDone
  /\ aliases' = incoming
  /\ stale' = stale \cup UNION {Dependants!Bucket(by_alias, a) : a \in Range(changed)}
  /\ incoming' = None
  /\ self_at' = 1 /\ other_at' = 1 /\ changed' = <<>>
  /\ UNCHANGED <<source, located, by_alias, by_file, check, result, edits>>

-----------------------------------------------------------------------------
External ==
  \/ BeginReload
  \/ MoveFiles
  \/ \E f \in File : Edit(f) \/ Close(f) \/ BeginCheck(f)
Internal ==
  \/ CheckPath
  \/ CheckAlias
  \/ CheckInvalid
  \/ EndCheck
  \/ DiffBoth
  \/ DiffSelf
  \/ DiffOther
  \/ EndReload

Next == External \/ Internal

Spec == Init /\ [][Next]_vars

(* A call that has begun runs to its end; nothing need ever be called.     *)
FairSpec == Spec /\ WF_vars(Internal)

-----------------------------------------------------------------------------
(* Every file is listed under every alias its last check met, those that   *)
(* did not exist included, though other files are closed and checked in    *)
(* between.                                                                *)
UsersListed ==
  \A f \in File \ stale : result[f] # None =>
    \A i \in DOMAIN source[f] : source[f][i].kind = "alias" =>
      f \in Dependants!Bucket(by_alias, source[f][i].alias)

(* The aliases that differ are those of one table only and those with two  *)
(* paths; diff yields each of them once, in order.                         *)
Differ(s, t) ==
  {k \in DOMAIN s \cup DOMAIN t : ~(k \in DOMAIN s /\ k \in DOMAIN t /\ s[k] = t[k])}
DiffExact ==
  incoming # None =>
    /\ \A i, j \in DOMAIN changed : i < j => changed[i] < changed[j]
    /\ Range(changed) \subseteq Differ(aliases, incoming)
    /\ SelfDone /\ OtherDone => Range(changed) = Differ(aliases, incoming)

(* A file that is not to be checked has the result a check would give now: *)
(* no edit, no change of an alias and no file that comes or goes leaves a  *)
(* result behind.                                                          *)
Targets(f) == [i \in DOMAIN source[f] |->
                 IF source[f][i].kind = "invalid" THEN None ELSE located[PlaceOf(source[f][i])]]
ResultsFresh ==
  \A f \in File \ stale : result[f] # None =>
    LET targets == Targets(f)
    IN  /\ DOMAIN result[f].derives = Range(targets) \ {f, None}
        /\ \A g \in DOMAIN result[f].derives :
             LET i == result[f].derives[g]
             IN  targets[i] = g /\ \A j \in DOMAIN targets : targets[j] = g => j <= i
        /\ {e[2] : e \in result[f].errors} = {i \in DOMAIN targets : targets[i] \in {f, None}}

(* A check ends and diff ends, whatever the tables.                        *)
Returns == (~Idle) ~> Idle
=============================================================================
