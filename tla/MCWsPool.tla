------------------------------- MODULE MCWsPool -------------------------------
(* WsPool instantiated for TLC. *)
EXTENDS WsPool
=============================================================================
