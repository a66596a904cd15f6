----------------------------- MODULE MCSessions ------------------------------
(* Sessions instantiated for TLC: one user, who owns every tag, with one      *)
(* connection at a time and two listeners.                                 *)
EXTENDS Sessions

AllTags == [u \in People |-> Tags]
=============================================================================
