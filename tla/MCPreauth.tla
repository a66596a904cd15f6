------------------------------ MODULE MCPreauth ------------------------------
(* Preauth instantiated for TLC. *)
EXTENDS Preauth, TLC

HandlerSymmetry == Permutations(Handlers)
=============================================================================
