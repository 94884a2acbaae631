-------------------------- MODULE BlockchainStorage --------------------------
(****************************************************************************)
(* Core::BlockchainStorage: threads that call put_block, rewind and         *)
(* get_block on one LMDB environment.                                       *)
(*                                                                          *)
(* db is what is committed; view is the state seen inside the one open R/W  *)
(* transaction and writer the thread that has it (LMDB admits one writer).  *)
(* Reads outside a R/W transaction see db, each in a read transaction of    *)
(* its own.  put_block holds write_mutex from its checks to its return;     *)
(* rewind and del_block never take it.                                      *)
(****************************************************************************)
EXTENDS ChainData

CONSTANTS
    Threads,       \* threads that use the storage
    TxVectors,     \* transaction vectors a caller may pass to put_block
    MaxMapFull     \* bound: how often the memory map may be found full

ASSUME StorageAssumption ==
    /\ None \notin Threads
    /\ TxVectors \subseteq Seq(Txs)
    /\ MaxMapFull \in Nat

VARIABLES
    db,            \* the committed databases
    view,          \* the databases inside the open R/W transaction
    writer,        \* the thread with the open R/W transaction, or None
    write_mutex,   \* the thread that holds BlockchainStorage::write_mutex
    pc,            \* where each thread is
    op,            \* the public call each thread is in
    target,        \* rewind's block_index
    i,             \* the index del_block or get_block works on
    blk,           \* the block being written, read or deleted
    k,             \* position in the transaction loop
    loaded,        \* the transactions get_block has retrieved
    ret,           \* the error code of the thread's last call
    fulls          \* how often a write met MAP_FULL or TXN_FULL

locals == <<op, target, i, blk, k, loaded>>
vars == <<db, view, writer, write_mutex, pc, locals, ret, fulls>>

Ops == {"none", "put_block", "rewind", "get_block"}

PutSteps == {"put_reward", "put_txs", "put_body", "put_index", "put_timestamp",
             "put_commit"}
DelSteps == {"del_txs", "del_timestamp", "del_index", "del_body", "del_commit"}
GetSteps == {"get_index", "get_body", "get_txs"}
WriteSteps == PutSteps \cup DelSteps

\* The points at which put_block holds write_mutex
Locked == PutSteps \cup {"put_begin", "put_expand"}

PCs == {"idle", "put_lock", "count", "loop", "del_begin", "del_expand"}
          \cup Locked \cup DelSteps \cup GetSteps

Errors == {"SUCCESS", "BLOCK_TXN_MISMATCH", "BLOCK_TXN_ORDER",
           "DB_BLOCK_NOT_FOUND", "DB_TRANSACTION_NOT_FOUND", "LMDB_NOTFOUND",
           "LMDB_MAP_FULL", "LMDB_ERROR", "exception", "crashed"}

Init ==
    /\ db = EmptyDb
    /\ view = EmptyDb
    /\ writer = None
    /\ write_mutex = None
    /\ pc = [t \in Threads |-> "idle"]
    /\ op = [t \in Threads |-> "none"]
    /\ target = [t \in Threads |-> 0]
    /\ i = [t \in Threads |-> 0]
    /\ blk = [t \in Threads |-> None]
    /\ k = [t \in Threads |-> 1]
    /\ loaded = [t \in Threads |-> <<>>]
    /\ ret = [t \in Threads |-> "SUCCESS"]
    /\ fulls = 0

Goto(t, l) == pc' = [pc EXCEPT ![t] = l]

\* A return from the public call: a std::scoped_lock on write_mutex is
\* released, the LMDBTransaction's destructor aborts what is not committed
Return(t, e) ==
    /\ Goto(t, "idle")
    /\ ret' = [ret EXCEPT ![t] = e]
    /\ op' = [op EXCEPT ![t] = "none"]
    /\ target' = [target EXCEPT ![t] = 0]
    /\ i' = [i EXCEPT ![t] = 0]
    /\ blk' = [blk EXCEPT ![t] = None]
    /\ k' = [k EXCEPT ![t] = 1]
    /\ loaded' = [loaded EXCEPT ![t] = <<>>]
    /\ writer' = IF writer = t THEN None ELSE writer
    /\ view' = IF writer = t THEN EmptyDb ELSE view
    /\ write_mutex' = IF write_mutex = t THEN None ELSE write_mutex

-----------------------------------------------------------------------------
(* put_block *)

\* The sanity checks that precede the lock: the number of transactions, then
\* (by hash of the hash vectors) their order
put_block_mismatch(t, b, v) ==
    /\ pc[t] = "idle"
    /\ Len(v) # Len(BlockTxs[b])
    /\ Return(t, "BLOCK_TXN_MISMATCH")
    /\ UNCHANGED <<db, fulls>>

put_block_order(t, b, v) ==
    /\ pc[t] = "idle"
    /\ Len(v) = Len(BlockTxs[b])
    /\ v # BlockTxs[b]
    /\ Return(t, "BLOCK_TXN_ORDER")
    /\ UNCHANGED <<db, fulls>>

put_block_call(t, b, v) ==
    /\ pc[t] = "idle"
    /\ v = BlockTxs[b]
    /\ op' = [op EXCEPT ![t] = "put_block"]
    /\ blk' = [blk EXCEPT ![t] = b]
    /\ Goto(t, "put_lock")
    /\ UNCHANGED <<db, view, writer, write_mutex, target, i, k, loaded, ret, fulls>>

put_block_lock(t) ==
    /\ pc[t] = "put_lock"
    /\ write_mutex = None
    /\ write_mutex' = t
    /\ Goto(t, "put_begin")
    /\ UNCHANGED <<db, view, writer, locals, ret, fulls>>

\* mdb_txn_begin blocks while another R/W transaction is open
txn_begin(t) ==
    /\ writer = None
    /\ writer' = t
    /\ view' = db

put_block_begin(t) ==
    /\ pc[t] = "put_begin"
    /\ txn_begin(t)
    /\ k' = [k EXCEPT ![t] = 1]
    /\ Goto(t, "put_reward")
    /\ UNCHANGED <<db, write_mutex, op, target, i, blk, loaded, ret, fulls>>

\* One write of the transaction succeeds and the code goes on
WriteStep(t, newView, to) ==
    /\ view' = newView
    /\ Goto(t, to)
    /\ UNCHANGED <<db, writer, write_mutex, op, target, i, blk, loaded, ret, fulls>>

put_block_reward(t) ==
    /\ pc[t] = "put_reward"
    /\ WriteStep(t, put_transaction(view, RewardTx[blk[t]], blk[t]), "put_txs")
    /\ UNCHANGED k

put_block_txs(t) ==
    /\ pc[t] = "put_txs"
    /\ k[t] <= Len(BlockTxs[blk[t]])
    /\ WriteStep(t, put_transaction(view, BlockTxs[blk[t]][k[t]], blk[t]), "put_txs")
    /\ k' = [k EXCEPT ![t] = @ + 1]

put_block_txs_done(t) ==
    /\ pc[t] = "put_txs"
    /\ k[t] > Len(BlockTxs[blk[t]])
    /\ WriteStep(t, view, "put_body")
    /\ UNCHANGED k

put_block_block(t) ==
    /\ pc[t] = "put_body"
    /\ WriteStep(t, put_block_body(view, blk[t]), "put_index")
    /\ UNCHANGED k

put_block_indexes(t) ==
    /\ pc[t] = "put_index"
    /\ WriteStep(t, put_block_index(view, blk[t]), "put_timestamp")
    /\ UNCHANGED k

put_block_timestamps(t) ==
    /\ pc[t] = "put_timestamp"
    /\ WriteStep(t, put_block_timestamp(view, blk[t]), "put_commit")
    /\ UNCHANGED k

put_block_commit(t) ==
    /\ pc[t] = "put_commit"
    /\ db' = view
    /\ Return(t, "SUCCESS")
    /\ UNCHANGED fulls

-----------------------------------------------------------------------------
(* MAP_FULL or TXN_FULL in the middle of a transaction, put_block's or      *)
(* del_block's: MDB_CHECK_TXN_EXPAND aborts, expands the map, starts over.  *)

ExpandOf(l) == IF l \in PutSteps THEN "put_expand" ELSE "del_expand"

map_full(t) ==
    /\ pc[t] \in WriteSteps
    /\ fulls < MaxMapFull
    /\ fulls' = fulls + 1
    /\ writer' = None
    /\ view' = EmptyDb
    /\ Goto(t, ExpandOf(pc[t]))
    /\ UNCHANGED <<db, write_mutex, locals, ret>>

\* expand() is refused while a R/W transaction is open
expand(t) ==
    /\ pc[t] \in {"put_expand", "del_expand"}
    /\ writer = None
    /\ Goto(t, IF pc[t] = "put_expand" THEN "put_begin" ELSE "del_begin")
    /\ UNCHANGED <<db, view, writer, write_mutex, locals, ret, fulls>>

\* Mutant: write_mutex is not released when the map cannot grow
expand_failed_locked(t) ==
    /\ pc[t] \in {"put_expand", "del_expand"}
    /\ Goto(t, "idle")
    /\ op' = [op EXCEPT ![t] = "none"]
    /\ ret' = [ret EXCEPT ![t] = "LMDB_MAP_FULL"]
    /\ UNCHANGED <<db, view, writer, write_mutex, target, i, blk, k, loaded, fulls>>

\* ... and may fail for want of memory; the error of the write is returned
expand_failed(t) ==
    /\ pc[t] \in {"put_expand", "del_expand"}
    /\ Return(t, "LMDB_MAP_FULL")
    /\ UNCHANGED <<db, fulls>>

\* Mutant: the error of a write is ignored and what is there is committed
write_error_commits(t) ==
    /\ pc[t] \in WriteSteps
    /\ db' = view
    /\ Return(t, "LMDB_ERROR")
    /\ UNCHANGED fulls

\* Any other error of a put, a del or the commit
write_error(t) ==
    /\ pc[t] \in WriteSteps
    /\ Return(t, "LMDB_ERROR")
    /\ UNCHANGED <<db, fulls>>

-----------------------------------------------------------------------------
(* get_block, called by itself and by del_block *)

get_block_call(t, n) ==
    /\ pc[t] = "idle"
    /\ op' = [op EXCEPT ![t] = "get_block"]
    /\ i' = [i EXCEPT ![t] = n]
    /\ Goto(t, "get_index")
    /\ UNCHANGED <<db, view, writer, write_mutex, target, blk, k, loaded, ret, fulls>>

get_block_index(t) ==
    /\ pc[t] = "get_index"
    /\ \/ /\ db.indexes[i[t]] = None
          /\ Return(t, "DB_BLOCK_NOT_FOUND")
       \/ /\ db.indexes[i[t]] # None
          /\ blk' = [blk EXCEPT ![t] = db.indexes[i[t]]]
          /\ Goto(t, "get_body")
          /\ UNCHANGED <<view, writer, write_mutex, op, target, i, k, loaded, ret>>
    /\ UNCHANGED <<db, fulls>>

\* get_block(block_hash): the block's own record, in another read transaction
get_block_body(t) ==
    /\ pc[t] = "get_body"
    /\ \/ /\ blk[t] \notin db.blocks
          /\ Return(t, "DB_BLOCK_NOT_FOUND")
       \/ /\ blk[t] \in db.blocks
          /\ k' = [k EXCEPT ![t] = 1]
          /\ loaded' = [loaded EXCEPT ![t] = <<>>]
          /\ Goto(t, "get_txs")
          /\ UNCHANGED <<view, writer, write_mutex, op, target, i, blk, ret>>
    /\ UNCHANGED <<db, fulls>>

\* One get_transaction per transaction of the block; an error of it becomes
\* DB_TRANSACTION_NOT_FOUND, an exception leaves the call
get_block_txs(t) ==
    /\ pc[t] = "get_txs"
    /\ k[t] <= Len(BlockTxs[blk[t]])
    /\ \E r \in get_transaction(db, BlockTxs[blk[t]][k[t]]) :
         \/ /\ r \in {"DB_TRANSACTION_NOT_FOUND", "UNKNOWN_TRANSACTION_TYPE"}
            /\ Return(t, "DB_TRANSACTION_NOT_FOUND")
         \/ /\ r = "exception"
            /\ Return(t, "exception")
         \/ /\ r \in Txs \cup {Garbage}
            /\ loaded' = [loaded EXCEPT ![t] = Append(@, r)]
            /\ k' = [k EXCEPT ![t] = @ + 1]
            /\ UNCHANGED <<pc, view, writer, write_mutex, op, target, i, blk, ret>>
    /\ UNCHANGED <<db, fulls>>

get_block_done(t) ==
    /\ pc[t] = "get_txs"
    /\ k[t] > Len(BlockTxs[blk[t]])
    /\ \/ /\ op[t] = "get_block"
          /\ Return(t, "SUCCESS")
       \/ /\ op[t] = "rewind"
          /\ Goto(t, "del_begin")
          /\ UNCHANGED <<view, writer, write_mutex, locals, ret>>
    /\ UNCHANGED <<db, fulls>>

-----------------------------------------------------------------------------
(* rewind, and the del_block it calls for each index *)

rewind_missing(t, n) ==
    /\ pc[t] = "idle"
    /\ db.indexes[n] = None
    /\ Return(t, "DB_BLOCK_NOT_FOUND")
    /\ UNCHANGED <<db, fulls>>

rewind_call(t, n) ==
    /\ pc[t] = "idle"
    /\ db.indexes[n] # None
    /\ op' = [op EXCEPT ![t] = "rewind"]
    /\ target' = [target EXCEPT ![t] = n]
    /\ Goto(t, "count")
    /\ UNCHANGED <<db, view, writer, write_mutex, i, blk, k, loaded, ret, fulls>>

\* Mutant: one index too far
rewind_count_beyond(t) ==
    /\ pc[t] = "count"
    /\ i' = [i EXCEPT ![t] = Cardinality(db.blocks) + 1]
    /\ Goto(t, "loop")
    /\ UNCHANGED <<db, view, writer, write_mutex, op, target, blk, k, loaded, ret, fulls>>

\* The loop starts at the block count, read once
rewind_count(t) ==
    /\ pc[t] = "count"
    /\ i' = [i EXCEPT ![t] = Cardinality(db.blocks)]
    /\ Goto(t, "loop")
    /\ UNCHANGED <<db, view, writer, write_mutex, op, target, blk, k, loaded, ret, fulls>>

\* Mutant: the loop also deletes the block the chain is rewound to
rewind_loop_inclusive(t) ==
    /\ pc[t] = "loop"
    /\ \/ /\ i[t] >= target[t]
          /\ Goto(t, "get_index")
          /\ UNCHANGED <<view, writer, write_mutex, locals, ret>>
       \/ /\ i[t] < target[t]
          /\ Return(t, "SUCCESS")
    /\ UNCHANGED <<db, fulls>>

rewind_loop(t) ==
    /\ pc[t] = "loop"
    /\ \/ /\ i[t] > target[t]
          /\ Goto(t, "get_index")
          /\ UNCHANGED <<view, writer, write_mutex, locals, ret>>
       \/ /\ i[t] <= target[t]
          /\ Return(t, "SUCCESS")
    /\ UNCHANGED <<db, fulls>>

del_block_begin(t) ==
    /\ pc[t] = "del_begin"
    /\ txn_begin(t)
    /\ k' = [k EXCEPT ![t] = 1]
    /\ Goto(t, "del_txs")
    /\ UNCHANGED <<db, write_mutex, op, target, i, blk, loaded, ret, fulls>>


\* del_transaction for every transaction get_block handed over
del_block_txs(t) ==
    /\ pc[t] = "del_txs"
    /\ k[t] <= Len(loaded[t])
    /\ IF can_del_transaction(view, loaded[t][k[t]])
       THEN /\ WriteStep(t, del_transaction(view, loaded[t][k[t]]), "del_txs")
            /\ k' = [k EXCEPT ![t] = @ + 1]
       ELSE /\ Return(t, "LMDB_NOTFOUND")
            /\ UNCHANGED <<db, fulls>>

del_block_txs_done(t) ==
    /\ pc[t] = "del_txs"
    /\ k[t] > Len(loaded[t])
    /\ WriteStep(t, view, "del_timestamp")
    /\ UNCHANGED k

del_block_timestamp(t) ==
    /\ pc[t] = "del_timestamp"
    /\ can_del_timestamp(view, blk[t])
    /\ WriteStep(t, del_timestamp(view, blk[t]), "del_index")
    /\ UNCHANGED k

del_block_index(t) ==
    /\ pc[t] = "del_index"
    /\ can_del_index(view, blk[t])
    /\ WriteStep(t, del_index(view, blk[t]), "del_body")
    /\ UNCHANGED k

del_block_body(t) ==
    /\ pc[t] = "del_body"
    /\ can_del_body(view, blk[t])
    /\ WriteStep(t, del_body(view, blk[t]), "del_commit")
    /\ UNCHANGED k

\* One of the three dels does not find its key: del_block returns the error
\* and the transaction is aborted by its destructor
del_block_not_found(t) ==
    /\ \/ pc[t] = "del_timestamp" /\ ~can_del_timestamp(view, blk[t])
       \/ pc[t] = "del_index" /\ ~can_del_index(view, blk[t])
       \/ pc[t] = "del_body" /\ ~can_del_body(view, blk[t])
    /\ Return(t, "LMDB_NOTFOUND")
    /\ UNCHANGED <<db, fulls>>

\* del_block committed: rewind goes on with the next lower index
del_block_commit(t) ==
    /\ pc[t] = "del_commit"
    /\ db' = view
    /\ writer' = None
    /\ view' = EmptyDb
    /\ i' = [i EXCEPT ![t] = @ - 1]
    /\ blk' = [blk EXCEPT ![t] = None]
    /\ k' = [k EXCEPT ![t] = 1]
    /\ loaded' = [loaded EXCEPT ![t] = <<>>]
    /\ Goto(t, "loop")
    /\ UNCHANGED <<write_mutex, op, target, ret, fulls>>

-----------------------------------------------------------------------------
\* The process dies; LMDB comes back with what was committed
crash ==
    /\ \E t \in Threads : pc[t] # "idle"
    /\ pc' = [t \in Threads |-> "idle"]
    /\ op' = [t \in Threads |-> "none"]
    /\ target' = [t \in Threads |-> 0]
    /\ i' = [t \in Threads |-> 0]
    /\ blk' = [t \in Threads |-> None]
    /\ k' = [t \in Threads |-> 1]
    /\ loaded' = [t \in Threads |-> <<>>]
    /\ ret' = [t \in Threads |-> "crashed"]
    /\ writer' = None
    /\ view' = EmptyDb
    /\ write_mutex' = None
    /\ UNCHANGED <<db, fulls>>

\* A thread's way through the call it is in
step(t) ==
    \/ put_block_lock(t) \/ put_block_begin(t)
    \/ put_block_reward(t) \/ put_block_txs(t) \/ put_block_txs_done(t)
    \/ put_block_block(t) \/ put_block_indexes(t) \/ put_block_timestamps(t)
    \/ put_block_commit(t)
    \/ map_full(t) \/ expand(t) \/ expand_failed(t) \/ write_error(t)
    \/ get_block_index(t) \/ get_block_body(t) \/ get_block_txs(t) \/ get_block_done(t)
    \/ rewind_count(t) \/ rewind_loop(t)
    \/ del_block_begin(t) \/ del_block_txs(t) \/ del_block_txs_done(t)
    \/ del_block_timestamp(t) \/ del_block_index(t) \/ del_block_body(t)
    \/ del_block_not_found(t) \/ del_block_commit(t)

call(t) ==
    \/ \E b \in Blocks, v \in TxVectors :
         put_block_mismatch(t, b, v) \/ put_block_order(t, b, v) \/ put_block_call(t, b, v)
    \/ \E n \in Indexes :
         get_block_call(t, n) \/ rewind_missing(t, n) \/ rewind_call(t, n)

Next == crash \/ \E t \in Threads : call(t) \/ step(t)

Spec == Init /\ [][Next]_vars

\* A thread inside a call keeps running, and a lock that is free again and
\* again is not denied to it forever.  Calls and crashes are the environment's.
Fairness == \A t \in Threads : WF_vars(step(t)) /\ SF_vars(put_block_lock(t))
                                 /\ SF_vars(put_block_begin(t) \/ del_block_begin(t))

FairSpec == Spec /\ Fairness

-----------------------------------------------------------------------------
(* Properties *)

\* Every variable stays in its type; in particular rewind's count of the
\* blocks, from which its loop starts, is never beyond the index bound.  Who
\* holds which lock is said by Locks, below.
TypeOK ==
    /\ db \in Db
    /\ view \in Db
    /\ writer \in Threads \cup {None}
    /\ write_mutex \in Threads \cup {None}
    /\ pc \in [Threads -> PCs]
    /\ op \in [Threads -> Ops]
    /\ target \in [Threads -> Indexes]
    /\ i \in [Threads -> Indexes]
    /\ blk \in [Threads -> Blocks \cup {None}]
    /\ k \in [Threads -> Nat \ {0}]
    /\ loaded \in [Threads -> Seq(Txs \cup {Garbage})]
    /\ ret \in [Threads -> Errors]
    /\ fulls \in 0 .. MaxMapFull

\* Both lookups agree with the blocks: an index entry or a timestamp entry
\* names a stored block that has that index or that timestamp.  Three
\* databases are written by separate puts and dels, by threads that do not
\* share a lock, and two blocks may share an index or a timestamp.
LookupSound(d) ==
    /\ \A n \in Indexes : d.indexes[n] # None =>
         d.indexes[n] \in d.blocks /\ Index[d.indexes[n]] = n
    /\ \A s \in Times : d.timestamps[s] # None =>
         d.timestamps[s] \in d.blocks /\ Timestamp[d.timestamps[s]] = s

LookupsAgree == LookupSound(db)

\* A stored block comes with everything put_block stores for it: its reward
\* transaction and its transactions, their key images and their outputs.
Complete(d) ==
    \A b \in d.blocks : \A x \in AllTxsOf(b) :
        /\ d.txs[x] # None
        /\ TxKeyImages[x] \subseteq d.key_images
        /\ TxOutputs[x] \subseteq d.outputs

BlocksComplete == Complete(db)

\* get_block(block_index), also inside del_block, works on a block of the
\* index it was asked for, although index and block are read in two read
\* transactions between which the chain may be rewound or overwritten.
Right(t) ==
    pc[t] \in {"get_body", "get_txs", "del_begin", "del_expand"} \cup DelSteps
        => blk[t] \in Blocks /\ Index[blk[t]] = i[t]

RightBlock == \A t \in Threads : Right(t)

\* rewind(block_index) leaves the blocks up to block_index alone, whatever
\* the other threads store, delete or overwrite while it runs.
RewindKeepsPrefix ==
    [][\A t \in Threads : del_block_commit(t) =>
          /\ \A n \in 0 .. target[t] : db'.indexes[n] = db.indexes[n]
          /\ \A b \in db.blocks : Index[b] <= target[t] => b \in db'.blocks]_vars

\* The committed databases change by the whole effect of one put_block or one
\* del_block only (LedgerStore), through every interleaving, retry after
\* MAP_FULL, failed write and crash.  The whole effect of del_block is not
\* what its comment says: the reward transaction stays (ApplyUnlink).
Ledger == INSTANCE LedgerStore WITH ledger <- db

WholeCalls == Ledger!Spec

-----------------------------------------------------------------------------
(* The inductive invariant behind LookupsAgree, BlocksComplete, RightBlock, *)
(* RewindKeepsPrefix and WholeCalls.                                       *)

\* LMDB's writer lock and write_mutex are held exactly where the code holds them
Locks ==
    \A t \in Threads : /\ (writer = t) <=> (pc[t] \in WriteSteps)
                       /\ (write_mutex = t) <=> (pc[t] \in Locked)

\* What a thread's locals are at each point of its call.  No transaction is
\* ever decoded, so whatever get_block hands to del_block is garbage.
Frame(t) ==
    /\ pc[t] \in {"put_lock"} \cup Locked => blk[t] \in Blocks
    /\ pc[t] \in GetSteps => op[t] \in {"get_block", "rewind"}
    /\ pc[t] \in {"count", "loop"} => op[t] = "rewind"
    /\ pc[t] \in GetSteps /\ op[t] = "rewind" => i[t] > target[t]
    /\ pc[t] \in DelSteps \cup {"del_begin", "del_expand"} =>
           op[t] = "rewind" /\ i[t] > target[t]
    /\ \A j \in 1 .. Len(loaded[t]) : loaded[t][j] = Garbage

Frames == \A t \in Threads : Frame(t)

\* A stored transaction starts with the transaction itself
TxLayout == \A z \in Txs : db.txs[z] # None => db.txs[z][1] = z

\* The open transaction's view is what its thread has done so far, applied to
\* the committed databases as they are now
PutSoFar(t) == {RewardTx[blk[t]]} \cup {BlockTxs[blk[t]][j] : j \in 1 .. k[t] - 1}

WithTxs(t) == put_transactions(db, AllTxsOf(blk[t]), blk[t])

Shape(t) ==
    /\ pc[t] = "put_reward" => view = db /\ k[t] = 1
    /\ pc[t] = "put_txs" => /\ k[t] \in 1 .. Len(BlockTxs[blk[t]]) + 1
                            /\ view = put_transactions(db, PutSoFar(t), blk[t])
    /\ pc[t] = "put_body" => view = WithTxs(t)
    /\ pc[t] = "put_index" => view = put_block_body(WithTxs(t), blk[t])
    /\ pc[t] = "put_timestamp" =>
           view = put_block_index(put_block_body(WithTxs(t), blk[t]), blk[t])
    /\ pc[t] = "put_commit" => view = Ledger!ApplyPut(db, blk[t])
    /\ pc[t] \in {"del_txs", "del_timestamp"} => view = db
    /\ pc[t] = "del_index" => /\ can_del_timestamp(db, blk[t])
                              /\ view = del_timestamp(db, blk[t])
    /\ pc[t] = "del_body" => /\ can_del_timestamp(db, blk[t])
                             /\ can_del_index(db, blk[t])
                             /\ view = del_index(del_timestamp(db, blk[t]), blk[t])
    /\ pc[t] = "del_commit" => /\ can_del_timestamp(db, blk[t])
                               /\ can_del_index(db, blk[t])
                               /\ can_del_body(db, blk[t])
                               /\ view = Ledger!ApplyUnlink(db, blk[t])

ViewShape == \A t \in Threads : Shape(t)

IInv ==
    /\ TypeOK
    /\ Locks
    /\ Frames
    /\ RightBlock
    /\ TxLayout
    /\ ViewShape
    /\ LookupsAgree
    /\ BlocksComplete

-----------------------------------------------------------------------------
\* Every call returns: no lock order, retry or loop keeps a caller forever.
CallsReturn == \A t \in Threads : pc[t] # "idle" ~> pc[t] = "idle"

-----------------------------------------------------------------------------
(* What a comment of blockchain_storage.h says and the code does not do.    *)

\* "Retrieves the block and transactions within that block": get_block hands
\* over the transactions of the block it found.
GetBlockReturnsTransactions ==
    [][\A t \in Threads :
          /\ op[t] = "get_block" /\ pc[t] = "get_txs"
          /\ op'[t] = "none" /\ ret'[t] # "crashed"
          => ret'[t] = "SUCCESS" /\ loaded[t] = BlockTxs[blk[t]]]_vars
=============================================================================
