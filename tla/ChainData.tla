------------------------------ MODULE ChainData ------------------------------
(****************************************************************************)
(* The data BlockchainStorage keeps (src/core/blockchain_storage.cpp): six  *)
(* LMDB databases, none of them opened with MDB_DUPSORT, so each maps a key *)
(* to at most one value and a second put of a key overwrites the first.     *)
(*                                                                          *)
(* Hashes are abstract: a block or a transaction stands for its own hash.   *)
(* The operators below are what one put or del sequence of the code does to *)
(* the databases.  BlockchainStorage applies them one at a time inside an   *)
(* LMDB transaction; LedgerStore applies a whole call at once.              *)
(****************************************************************************)
EXTENDS Integers, Sequences, FiniteSets

CONSTANTS
    Blocks,        \* blocks a caller may submit
    Txs,           \* transactions: reward transactions and user transactions
    KeyImages,     \* key images the transactions spend
    Outputs,       \* outputs the transactions create
    Times,         \* block timestamps
    MaxIndex,      \* bound: block indexes are 0 .. MaxIndex
    None,          \* an absent key
    Garbage,       \* a transaction object decoded from misread bytes
    Index,         \* block_t::block_index
    Timestamp,     \* block_t::timestamp
    RewardTx,      \* block_t::reward_tx (genesis or staker transaction)
    BlockTxs,      \* block_t::transactions, in the order of the std::set
    TxKeyImages,   \* key images of a transaction ({} unless a user transaction)
    TxOutputs      \* outputs the code stores ({} for a staker transaction)

\* How get_transaction may fail
ReadErrors == {"DB_TRANSACTION_NOT_FOUND", "UNKNOWN_TRANSACTION_TYPE", "exception"}

ASSUME DataAssumption ==
    /\ IsFiniteSet(Blocks)
    /\ MaxIndex \in Nat
    /\ Cardinality(Blocks) <= MaxIndex
    /\ Blocks \cap Txs = {}
    /\ None \notin Blocks
    /\ None \notin Txs \X Blocks
    /\ Garbage \notin Txs
    /\ ReadErrors \cap (Txs \cup {Garbage}) = {}
    /\ Index \in [Blocks -> 0 .. MaxIndex]
    /\ Times \subseteq Nat
    /\ Timestamp \in [Blocks -> Times]
    /\ RewardTx \in [Blocks -> Txs]
    /\ BlockTxs \in [Blocks -> Seq(Txs)]
    /\ TxKeyImages \in [Txs -> SUBSET KeyImages]
    /\ TxOutputs \in [Txs -> SUBSET Outputs]

Indexes == 0 .. MaxIndex

\* put_transaction serialises the transaction and appends the block hash
StoredTx(x, b) == <<x, b>>

\* The contents of the six databases.  The value kept with an output never
\* decides what a write does, so only the output keys are state here.
Db == [blocks     : SUBSET Blocks,
       indexes    : [Indexes -> Blocks \cup {None}],
       timestamps : [Times -> Blocks \cup {None}],
       txs        : [Txs -> (Txs \X Blocks) \cup {None}],
       key_images : SUBSET KeyImages,
       outputs    : SUBSET Outputs]

EmptyDb == [blocks     |-> {},
            indexes    |-> [n \in Indexes |-> None],
            timestamps |-> [s \in Times |-> None],
            txs        |-> [x \in Txs |-> None],
            key_images |-> {},
            outputs    |-> {}]

\* The transactions of a block: block.transactions and block.reward_tx
TxsOf(b) == {BlockTxs[b][j] : j \in 1 .. Len(BlockTxs[b])}
AllTxsOf(b) == {RewardTx[b]} \cup TxsOf(b)

-----------------------------------------------------------------------------
(* Writes. *)

\* Mutant: the key images are not stored
put_transactions_no_key_images(d, S, b) ==
    [d EXCEPT !.txs     = [x \in Txs |-> IF x \in S THEN StoredTx(x, b) ELSE d.txs[x]],
              !.outputs = @ \cup UNION {TxOutputs[x] : x \in S}]

\* put_transaction over a set of transactions of block b: the stored
\* transaction, its key images, its outputs
put_transactions(d, S, b) ==
    [d EXCEPT !.txs        = [x \in Txs |-> IF x \in S THEN StoredTx(x, b)
                                                       ELSE d.txs[x]],
              !.key_images = @ \cup UNION {TxKeyImages[x] : x \in S},
              !.outputs    = @ \cup UNION {TxOutputs[x] : x \in S}]

put_transaction(d, x, b) == put_transactions(d, {x}, b)

\* Mutant: the block is entered under the number of stored blocks
put_block_index_count(d, b) == [d EXCEPT !.indexes[Cardinality(d.blocks)] = b]

\* The three puts at the end of put_block
put_block_body(d, b) == [d EXCEPT !.blocks = @ \cup {b}]
put_block_index(d, b) == [d EXCEPT !.indexes[Index[b]] = b]
put_block_timestamp(d, b) == [d EXCEPT !.timestamps[Timestamp[b]] = b]

\* LMDB's del of an absent key is LMDB_NOTFOUND: these guards say when the
\* del calls of del_transaction and del_block all find their key.  The hash
\* passed to the timestamp del is ignored by a database without MDB_DUPSORT.
can_del_transaction(d, x) ==
    /\ x \in Txs
    /\ d.txs[x] # None
    /\ TxKeyImages[x] \subseteq d.key_images
    /\ TxOutputs[x] \subseteq d.outputs
can_del_timestamp(d, b) == d.timestamps[Timestamp[b]] # None
can_del_index(d, b) == d.indexes[Index[b]] # None
can_del_body(d, b) == b \in d.blocks

\* Mutant: the index entry is left behind
del_index_kept(d, b) == d

del_transaction(d, x) ==
    [d EXCEPT !.txs[x]     = None,
              !.key_images = @ \ TxKeyImages[x],
              !.outputs    = @ \ TxOutputs[x]]
del_timestamp(d, b) == [d EXCEPT !.timestamps[Timestamp[b]] = None]
del_index(d, b) == [d EXCEPT !.indexes[Index[b]] = None]
del_body(d, b) == [d EXCEPT !.blocks = @ \ {b}]

-----------------------------------------------------------------------------
(* Reads. *)

\* get_transaction reads the block hash FIRST and the transaction after it.
\* On a value laid out the other way the 32 bytes taken for the hash are the
\* transaction's own, and the type is read from the middle of it: usually
\* an unknown type, else a decode that throws or that yields a transaction
\* nobody ever stored.
get_transaction(d, x) ==
    IF d.txs[x] = None
    THEN {"DB_TRANSACTION_NOT_FOUND"}
    ELSE IF d.txs[x][1] \in Blocks
         THEN {d.txs[x][2]}
         ELSE {"UNKNOWN_TRANSACTION_TYPE", "exception", Garbage}
=============================================================================
