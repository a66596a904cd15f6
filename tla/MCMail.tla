------------------------------- MODULE MCMail --------------------------------
(* Mail instantiated for TLC: a February whose first is a Monday. *)
EXTENDS Mail

MCFirsts == {-61, -30, 1, 29}
=============================================================================
