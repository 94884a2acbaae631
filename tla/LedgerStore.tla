----------------------------- MODULE LedgerStore -----------------------------
(****************************************************************************)
(* What a caller of the storage can count on: the ledger changes by the     *)
(* whole effect of one put_block or of one del_block, and by nothing else.  *)
(*                                                                          *)
(* A block arrives with everything that belongs to it, or not at all.  It   *)
(* does not leave that way: a del_block that succeeds takes the block's     *)
(* record, index entry and timestamp entry together, but no transaction,    *)
(* key image or output.  The reward transaction is not looked at, and       *)
(* del_block of a block with other transactions never gets as far as a      *)
(* commit, because get_block cannot read them.  blockchain_storage.h:209    *)
(* says "Delete a block and it's transactions"; the ledger here is the      *)
(* weaker one that the code keeps.                                          *)
(****************************************************************************)
EXTENDS ChainData

VARIABLE ledger

Init == ledger = EmptyDb

\* A whole block is stored: reward transaction, transactions, block, indexes
ApplyPut(d, b) ==
    put_block_timestamp(
        put_block_index(
            put_block_body(put_transactions(d, AllTxsOf(b), b), b), b), b)

\* What a committed del_block removes: the block is unlinked, its reward
\* transaction with the outputs stays
ApplyUnlink(d, b) == del_body(del_index(del_timestamp(d, b), b), b)

Put(b) == ledger' = ApplyPut(ledger, b)

Unlink(b) ==
    /\ can_del_timestamp(ledger, b)
    /\ can_del_index(ledger, b)
    /\ can_del_body(ledger, b)
    /\ ledger' = ApplyUnlink(ledger, b)

Next == \E b \in Blocks : Put(b) \/ Unlink(b)

Spec == Init /\ [][Next]_ledger
=============================================================================
