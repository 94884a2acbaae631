------------------------ MODULE MCBlockchainStorage ------------------------
(****************************************************************************)
(* Small instances of BlockchainStorage.  genesis is block 0 and a block 1. *)
(* c, which has two user transactions, and d compete for index 2, and all   *)
(* but genesis share a timestamp: put_block checks neither.                 *)
(****************************************************************************)
EXTENDS BlockchainStorage

CONSTANTS t1, t2, genesis, a, c, d, rg, ra, rc, rd, x, y

MCKeyImages == {"kx", "ky"}
MCOutputs == {"og", "ox", "oy"}
MCTimes == {0, 1}
MCIndex == [b \in Blocks |-> CASE b = genesis -> 0 [] b = a -> 1 [] OTHER -> 2]
MCTimestamp == [b \in Blocks |-> IF b = genesis THEN 0 ELSE 1]
MCRewardTx == [b \in Blocks |-> CASE b = genesis -> rg [] b = a -> ra [] b = c -> rc
                                  [] b = d -> rd]
MCBlockTxs == [b \in Blocks |-> IF b = c THEN <<x, y>> ELSE <<>>]
MCTxKeyImages == [z \in Txs |-> CASE z = x -> {"kx"} [] z = y -> {"ky"} [] OTHER -> {}]
MCTxOutputs == [z \in Txs |-> CASE z = x -> {"ox"} [] z = y -> {"oy"} [] z = rg -> {"og"}
                                [] OTHER -> {}]
MCTxVectors == {<<>>, <<x, y>>, <<y, x>>}

\* No guard reads the error code of a finished call
StateView == <<db, view, writer, write_mutex, pc, locals, fulls>>
=============================================================================
