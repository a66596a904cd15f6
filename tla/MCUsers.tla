------------------------------- MODULE MCUsers -------------------------------
(* Users instantiated for TLC. *)
EXTENDS Users, TLC

HandlerSymmetry == Permutations(Handlers)
=============================================================================
