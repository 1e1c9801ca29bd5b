----------------------------- MODULE Evaluation -----------------------------
(***************************************************************************)
(* What the typechecker and the compiler ask of the modules of values, for *)
(* whatever these make of it: Datatypes and Annotations have the answers.  *)
(* A lookup has the values of the tokens that the construct mentions, and  *)
(* nothing else is asked of the state.                                     *)
(***************************************************************************)
EXTENDS Data

CONSTANTS
  TokensIn(_, _),          (* the names of a construct's tokens of a kind   *)
  EvaluateConstruct(_, _, _),
  ToVariant(_, _),         (* Datatype::coerce_to_variant                   *)
  TweenInfoOf(_, _),       (* tween_info_from_args, tween_info_from_bare    *)
  TokenRefErrors(_, _),    (* the errors of validate_token_refs, and so on  *)
  AnnotationErrors(_, _),
  EnumRefErrors(_, _)
=============================================================================
