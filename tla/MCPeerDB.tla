------------------------------ MODULE MCPeerDB ------------------------------
(***************************************************************************)
(* PeerDB for TLC: two threads that construct a node on one path, one of   *)
(* which starts it, over two processes, with time for an entry to expire.  *)
(***************************************************************************)
EXTENDS PeerDB

=============================================================================
