------------------------------ MODULE FileWalk ------------------------------
(***************************************************************************)
(* A walk through the constructs of a file in source order, into the body  *)
(* of each rule and out again, as the typechecker and the compiler make it *)
(* by recursion.  A place is where the walk is in the content of each rule *)
(* around: <<2, 1>> is the first construct of the file's second.           *)
(***************************************************************************)
EXTENDS Naturals, Sequences, SequencesExt

VARIABLE code \* the constructs of the file

Beginning == <<1>>

(* The content a place is in, down from the content of the file.           *)
Within(content, place) == FoldLeft(LAMBDA around, i : around[i].body, content, Front(place))
ContentAround(place) == Within(code, place)

BodyOver(place) == Last(place) > Len(ContentAround(place))
WalkOver(place) == Len(place) = 1 /\ BodyOver(place)
ConstructAt(place) == ContentAround(place)[Last(place)]
At(place, kind) == ~BodyOver(place) /\ ConstructAt(place).kind = kind

Behind(place) == Append(Front(place), Last(place) + 1)
IntoBody(place) == Append(place, 1)
OutOfBody(place) == Behind(Front(place))

(* What is assigned to: a property, a token, or else a static token.       *)
IsStatic(left) == left.kind \notin {"Property", "Token"}
=============================================================================
