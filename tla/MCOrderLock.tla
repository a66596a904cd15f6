----------------------------- MODULE MCOrderLock -----------------------------
(* OrderLock instantiated for TLC.  Symmetry is used only where no liveness  *)
(* property is checked.                                                      *)
EXTENDS OrderLock, TLC

LockSymmetry == Permutations(Callers) \cup Permutations(Mutexes)
=============================================================================
