----------------------- MODULE MCTransactionValidator -----------------------
(***************************************************************************)
(* TransactionValidator for TLC: two threads, a genesis transaction that   *)
(* creates an output, two user transactions that share one of their key    *)
(* images, one that check() refuses, and three stakes for one candidate.    *)
(***************************************************************************)
EXTENDS TransactionValidator

CONSTANTS t1, t2, g, x, y, bad, i1, i2, i3, o1, o2, c

MCThreads == {t1, t2}
MCTxs == {g, x, y, bad}
MCKeyImages == {i1, i2, i3}
MCOutputs == {o1, o2}
MCType == [z \in MCTxs |-> IF z = g THEN "genesis" ELSE "user"]
MCCheckError == [z \in MCTxs |-> IF z = bad THEN "TX_LOW_FEE" ELSE "SUCCESS"]
MCRangeProof == [z \in MCTxs |-> z # y]
MCTxKeyImages == [z \in MCTxs |-> CASE z = x -> {i1, i2} [] z = y -> {i2, i3} [] OTHER -> {}]
MCRingParticipants == [z \in MCTxs |-> IF z = g THEN <<>> ELSE <<o1, o2>>]
MCTxOutputs == [z \in MCTxs |-> CASE z = g -> {o1} [] z = x -> {o2} [] OTHER -> {}]
Stake(v, s, a) == [version |-> v, candidate |-> c, staker |-> s, amount |-> a]
MCStakes == {Stake(1, 1, 2), Stake(1, 2, 2), Stake(2, 1, 1)}

=============================================================================
