--------------------------- MODULE MCBlockSigning ---------------------------
(* Two nodes and two key pairs, any of which may produce or validate.  The *)
(* order of the keys shows only in a hash, which no state keeps: they are  *)
(* interchangeable, as the nodes are.                                      *)
EXTENDS BlockSigning

CONSTANTS n1, n2, k1, k2

Symmetry == Permutations({n1, n2}) \cup Permutations({k1, k2})
MCHashes == {<<"h">>}
=============================================================================
