---------------------------- MODULE MCEnrollment -----------------------------
(* Enrollment instantiated for TLC. *)
EXTENDS Enrollment, TLC

CONSTANTS u1, u2, c1, c2, c3

MCHolderOf == c1 :> u1 @@ c2 :> u1 @@ c3 :> u2
MCInitialMethods ==
  [d \in Docs |-> CASE d = 1 -> [card |-> c1, user |-> u1, default |-> TRUE]
                   [] d = 2 -> [card |-> c2, user |-> u1, default |-> FALSE]
                   [] OTHER -> NoDoc]
MCMaxDeliveries == [ok \in BOOLEAN |-> IF ok THEN 2 ELSE 1]

HandlerSymmetry == Permutations(Handlers) \cup Permutations(Goroutines)
=============================================================================
