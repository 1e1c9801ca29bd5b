---------------------------- MODULE StoredValues ----------------------------
(***************************************************************************)
(* What the compiler stores for tweens and for sequences of keypoints, as  *)
(* Datatypes has the values.                                               *)
(***************************************************************************)
EXTENDS Values, Datatypes

(* The walk of the compiler takes a construct of this kind.                *)
Compiles(kind) == phase = "compile" /\ At(cursor, kind) /\ cursor' # cursor

(* A tween that the typechecker reports nothing of is stored when it is    *)
(* compiled, with a part for every argument written: the one looks at the  *)
(* arguments, the other takes them apart by what they evaluate to.  Left   *)
(* out is a tuple that is taken for a number because all but one of its    *)
(* elements have no value, and an enum that is named after a colon, which  *)
(* the evaluation does not know; and what is made of tokens that are not   *)
(* Settled.                                                                *)
TweenCompiles ==
  \A names \in SUBSET TokenNames :
    LET tween == ConstructAt(cursor)
        body == tween.body[1]
        parts == IF body.kind = "Table" THEN body.body ELSE <<body>>
        Value(c) == EvaluateConstruct(c, NoKey, CompilerLookup(body))
    IN  /\ Compiles("Tween") /\ tween.name # <<>> /\ tween.body # <<>>
        /\ Silent /\ Settled(names) /\ MadeOf(body, names)
        /\ \A i \in DOMAIN parts : Value(parts[i]) # <<>> /\ (parts[i].kind = "Enum" => parts[i].sigil = ".")
        => /\ cursor \in DOMAIN stored' /\ stored'[cursor].type = "TweenInfo"
           /\ Len(stored'[cursor].parts) = Len(parts)

SilentTweensCompile == [][TweenCompiles]_vars

-----------------------------------------------------------------------------
(* What the arguments of a sequence are taken for.                         *)
ItemsOf(c, lookup) ==
  LET data == FlattenSeq([i \in DOMAIN c.body |-> EvaluateConstruct(c.body[i], NoKey, lookup)])
  IN  [i \in DOMAIN data |->
         IF c.name = "numseq" THEN Timed(data[i], "Float64", NumberAndEnvelope)
         ELSE Timed(data[i], "Color3", ColorOf)]

(* From 0 to 1 in order, from the first item or, if that one has a time,   *)
(* from the earliest; and to the last item or, if that one has a time, to  *)
(* the latest, if there is nothing to add before the earliest.             *)
Spans(keypoints, items) ==
  LET timed == {items[i] : i \in TimedOnes(items)}
      first == items[1]
      last == items[Len(items)]
      earliest == IF ~GivenTime(first) THEN {first}
                  ELSE {item \in timed : \A other \in timed : item.time[1] <= other.time[1]}
      latest == IF ~GivenTime(last) THEN {last}
                ELSE {item \in timed : \A other \in timed : item.time[1] >= other.time[1]}
  IN  /\ keypoints[1].time = 0 /\ keypoints[Len(keypoints)].time = Unit
      /\ \A i, k \in DOMAIN keypoints : i < k => keypoints[i].time <= keypoints[k].time
      /\ keypoints[1].value \in {item.value : item \in earliest}
      /\ (\A item \in earliest : item.time \in {<<>>, <<0>>}) \/ Len(items) = 1
           => keypoints[Len(keypoints)].value \in {item.value : item \in latest}

(* A sequence of keypoints is stored that spans its items when the times   *)
(* that are given lie between 0 and 1: untimed items keep their places     *)
(* while the timed ones are sorted, times are shared out, and the last     *)
(* keypoint is asked for at the place it had before one was put in front.  *)
SequenceSpans ==
  LET c == RightOf(cursor)
      items == ItemsOf(c, CompilerLookup(c))
  IN  /\ Compiles("Assignment") /\ ConstructAt(cursor).right # <<>>
      /\ c.kind = "AnnotatedTable" /\ c.name \in {"numseq", "colorseq"}
      /\ cursor \in DOMAIN stored' \ DOMAIN stored /\ ~aborted'
      /\ \A i \in TimedOnes(items) : items[i].time[1] \in 0 .. Unit
      => Spans(stored'[cursor].keypoints, items)

SequencesSpan == [][SequenceSpans]_vars
=============================================================================
