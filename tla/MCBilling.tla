------------------------------ MODULE MCBilling ------------------------------
(* Billing instantiated for TLC. *)
EXTENDS Billing, TLC

UserTags == [t \in Tx |-> "user"]

\* A transaction of a user, one whose tag has no user, one with no tag.
MixedTags ==
  LET user == CHOOSE t \in Tx : TRUE
      none == CHOOSE t \in Tx : t # user
  IN  [t \in Tx |-> CASE t = user -> "user" [] t = none -> "nouser" [] OTHER -> "missing"]

OneMethod == {[id |-> c, failing |-> FALSE] : c \in Cards}
AnyMethod == {NoMethod} \cup OneMethod

SlotSymmetry == Permutations(Goroutines) \cup Permutations(Mutexes)
=============================================================================
