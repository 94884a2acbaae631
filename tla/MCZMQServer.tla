---------------------------- MODULE MCZMQServer ----------------------------
(* Small instances of ZMQServer: the two clients are model values. *)
EXTENDS ZMQServer

CONSTANTS c1, c2
=============================================================================
