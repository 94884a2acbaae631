----------------------------- MODULE MCP2PNode -----------------------------
(* Small instances of P2PNode: s is the seed of n1 and n2, in MCSeeds also  *)
(* its own.                                                                 *)
EXTENDS P2PNode

CONSTANTS s, n1, n2

MCSeeds == [n \in Nodes |-> {s}]
MCOtherSeeds == [n \in Nodes |-> {s} \ {n}]
MCNetwork == [n \in Nodes |-> IF n = n2 THEN "other" ELSE "turtle"]
=============================================================================
