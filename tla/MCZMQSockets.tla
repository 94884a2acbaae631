---------------------------- MODULE MCZMQSockets ----------------------------
(***************************************************************************)
(* ZMQSockets for TLC: an object of each kind, two callers, one host whose *)
(* link may break.                                                         *)
(***************************************************************************)
EXTENDS ZMQSockets

=============================================================================
