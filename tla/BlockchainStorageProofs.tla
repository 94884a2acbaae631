----------------------- MODULE BlockchainStorageProofs -----------------------
(****************************************************************************)
(* Proofs about BlockchainStorage for every set of threads, blocks and      *)
(* transactions: the inductive invariant IInv, the safety properties that   *)
(* follow from it, and that the storage implements LedgerStore.             *)
(****************************************************************************)
EXTENDS BlockchainStorage, FiniteSetTheorems, TLAPS

-----------------------------------------------------------------------------
(* What the writes do to the databases. *)

\* The databases start well-typed and stay so under every write of put_block
\* and del_block.
LEMMA EmptyDbType == EmptyDb \in Db
  BY DEF EmptyDb, Db

LEMMA PutTxsType ==
    ASSUME NEW d \in Db, NEW b \in Blocks, NEW S \in SUBSET Txs
    PROVE  put_transactions(d, S, b) \in Db
  <1>1. UNION {TxKeyImages[z] : z \in S} \in SUBSET KeyImages
    BY DataAssumption
  <1>2. UNION {TxOutputs[z] : z \in S} \in SUBSET Outputs
    BY DataAssumption
  <1>3. QED
    BY <1>1, <1>2 DEF Db, put_transactions, StoredTx

LEMMA PutBodyType ==
    ASSUME NEW d \in Db, NEW b \in Blocks
    PROVE  /\ put_block_body(d, b) \in Db
           /\ put_block_index(d, b) \in Db
           /\ put_block_timestamp(d, b) \in Db
  BY DataAssumption DEF Db, put_block_body, put_block_index, put_block_timestamp, Indexes

LEMMA DelType ==
    ASSUME NEW d \in Db, NEW b \in Blocks
    PROVE  /\ del_body(d, b) \in Db
           /\ del_index(d, b) \in Db
           /\ del_timestamp(d, b) \in Db
  BY DataAssumption DEF Db, del_body, del_index, del_timestamp, Indexes

\* put_transactions field by field.
LEMMA PutTxsFields ==
    ASSUME NEW d \in Db, NEW b \in Blocks, NEW S \in SUBSET Txs
    PROVE  LET e == put_transactions(d, S, b)
           IN  /\ e.txs = [z \in Txs |-> IF z \in S THEN StoredTx(z, b) ELSE d.txs[z]]
               /\ e.key_images = d.key_images \cup UNION {TxKeyImages[z] : z \in S}
               /\ e.outputs = d.outputs \cup UNION {TxOutputs[z] : z \in S}
               /\ e.blocks = d.blocks
               /\ e.indexes = d.indexes
               /\ e.timestamps = d.timestamps
  BY DEF Db, put_transactions

\* Two databases with the same fields are the same.
LEMMA DbEqual ==
    ASSUME NEW d \in Db, NEW e \in Db,
           d.txs = e.txs, d.key_images = e.key_images, d.outputs = e.outputs,
           d.blocks = e.blocks, d.indexes = e.indexes, d.timestamps = e.timestamps
    PROVE  d = e
  BY DEF Db

\* Storing the transactions one after the other stores them all: the loop of
\* put_block against the one set of LedgerStore.
LEMMA PutTxsCompose ==
    ASSUME NEW d \in Db, NEW b \in Blocks, NEW S \in SUBSET Txs, NEW z \in Txs
    PROVE  put_transaction(put_transactions(d, S, b), z, b)
             = put_transactions(d, S \cup {z}, b)
  <1> DEFINE e == put_transactions(d, S, b)
             f == put_transactions(d, S \cup {z}, b)
             g == put_transactions(e, {z}, b)
  <1>1. e \in Db
    BY PutTxsType
  <1>2. f \in Db
    BY PutTxsType
  <1>3. g \in Db
    BY <1>1, PutTxsType
  <1>4. /\ e.txs = [w \in Txs |-> IF w \in S THEN StoredTx(w, b) ELSE d.txs[w]]
        /\ e.key_images = d.key_images \cup UNION {TxKeyImages[w] : w \in S}
        /\ e.outputs = d.outputs \cup UNION {TxOutputs[w] : w \in S}
        /\ e.blocks = d.blocks /\ e.indexes = d.indexes /\ e.timestamps = d.timestamps
    BY PutTxsFields
  <1>5. /\ f.txs = [w \in Txs |-> IF w \in S \cup {z} THEN StoredTx(w, b) ELSE d.txs[w]]
        /\ f.key_images = d.key_images \cup UNION {TxKeyImages[w] : w \in S \cup {z}}
        /\ f.outputs = d.outputs \cup UNION {TxOutputs[w] : w \in S \cup {z}}
        /\ f.blocks = d.blocks /\ f.indexes = d.indexes /\ f.timestamps = d.timestamps
    BY PutTxsFields
  <1>6. /\ g.txs = [w \in Txs |-> IF w \in {z} THEN StoredTx(w, b) ELSE e.txs[w]]
        /\ g.key_images = e.key_images \cup UNION {TxKeyImages[w] : w \in {z}}
        /\ g.outputs = e.outputs \cup UNION {TxOutputs[w] : w \in {z}}
        /\ g.blocks = e.blocks /\ g.indexes = e.indexes /\ g.timestamps = e.timestamps
    BY <1>1, PutTxsFields
  <1> HIDE DEF e, f, g
  <1>7. g.txs = f.txs
    BY <1>4, <1>5, <1>6
  <1>8. g.key_images = f.key_images
    BY <1>4, <1>5, <1>6
  <1>9. g.outputs = f.outputs
    BY <1>4, <1>5, <1>6
  <1>10. g.blocks = f.blocks /\ g.indexes = f.indexes /\ g.timestamps = f.timestamps
    BY <1>4, <1>5, <1>6
  <1>11. g = f
    BY <1>2, <1>3, <1>7, <1>8, <1>9, <1>10, DbEqual
  <1>12. QED
    BY <1>11 DEF put_transaction, e, f, g

LEMMA BlockTxsOf ==
    ASSUME NEW b \in Blocks
    PROVE  /\ AllTxsOf(b) \in SUBSET Txs
           /\ RewardTx[b] \in Txs
           /\ Len(BlockTxs[b]) \in Nat
           /\ \A j \in 1 .. Len(BlockTxs[b]) : BlockTxs[b][j] \in Txs
  BY DataAssumption DEF AllTxsOf, TxsOf

\* A whole block put, field by field.
LEMMA ApplyPutFields ==
    ASSUME NEW d \in Db, NEW b \in Blocks
    PROVE  LET e == Ledger!ApplyPut(d, b)
               S == AllTxsOf(b)
           IN  /\ e \in Db
               /\ e.txs = [z \in Txs |-> IF z \in S THEN StoredTx(z, b) ELSE d.txs[z]]
               /\ e.key_images = d.key_images \cup UNION {TxKeyImages[z] : z \in S}
               /\ e.outputs = d.outputs \cup UNION {TxOutputs[z] : z \in S}
               /\ e.blocks = d.blocks \cup {b}
               /\ e.indexes = [d.indexes EXCEPT ![Index[b]] = b]
               /\ e.timestamps = [d.timestamps EXCEPT ![Timestamp[b]] = b]
               /\ e = put_block_timestamp(put_block_index(
                          put_block_body(put_transactions(d, S, b), b), b), b)
  <1> DEFINE S == AllTxsOf(b)
             p == put_transactions(d, S, b)
             q == put_block_body(p, b)
             r == put_block_index(q, b)
             e == put_block_timestamp(r, b)
  <1>1. Ledger!ApplyPut(d, b) = e
    BY DEF Ledger!ApplyPut, Ledger!put_block_timestamp, Ledger!put_block_index,
           Ledger!put_block_body, Ledger!put_transactions, Ledger!StoredTx,
           Ledger!AllTxsOf, Ledger!TxsOf, put_block_timestamp, put_block_index,
           put_block_body, put_transactions, StoredTx, AllTxsOf, TxsOf
  <1>2. S \in SUBSET Txs
    BY BlockTxsOf
  <1>3. /\ p \in Db
        /\ p.txs = [z \in Txs |-> IF z \in S THEN StoredTx(z, b) ELSE d.txs[z]]
        /\ p.key_images = d.key_images \cup UNION {TxKeyImages[z] : z \in S}
        /\ p.outputs = d.outputs \cup UNION {TxOutputs[z] : z \in S}
        /\ p.blocks = d.blocks
        /\ p.indexes = d.indexes
        /\ p.timestamps = d.timestamps
    BY <1>2, PutTxsType, PutTxsFields
  <1> HIDE DEF p
  <1>4. /\ q \in Db /\ q.blocks = p.blocks \cup {b}
        /\ q.txs = p.txs /\ q.key_images = p.key_images /\ q.outputs = p.outputs
        /\ q.indexes = p.indexes /\ q.timestamps = p.timestamps
    BY <1>3, PutBodyType DEF put_block_body, Db
  <1> HIDE DEF q
  <1>5. /\ r \in Db /\ r.indexes = [q.indexes EXCEPT ![Index[b]] = b]
        /\ r.txs = q.txs /\ r.key_images = q.key_images /\ r.outputs = q.outputs
        /\ r.blocks = q.blocks /\ r.timestamps = q.timestamps
    BY <1>4, PutBodyType DEF put_block_index, Db
  <1> HIDE DEF r
  <1>6. /\ e \in Db /\ e.timestamps = [r.timestamps EXCEPT ![Timestamp[b]] = b]
        /\ e.txs = r.txs /\ e.key_images = r.key_images /\ e.outputs = r.outputs
        /\ e.blocks = r.blocks /\ e.indexes = r.indexes
    BY <1>5, PutBodyType DEF put_block_timestamp, Db
  <1> HIDE DEF e, S
  <1>7. /\ e.txs = [z \in Txs |-> IF z \in S THEN StoredTx(z, b) ELSE d.txs[z]]
        /\ e.key_images = d.key_images \cup UNION {TxKeyImages[z] : z \in S}
        /\ e.outputs = d.outputs \cup UNION {TxOutputs[z] : z \in S}
        /\ e.blocks = d.blocks \cup {b}
        /\ e.indexes = [d.indexes EXCEPT ![Index[b]] = b]
        /\ e.timestamps = [d.timestamps EXCEPT ![Timestamp[b]] = b]
    BY <1>3, <1>4, <1>5, <1>6
  <1>8. QED
    BY <1>1, <1>6, <1>7 DEF e, r, q, p, S

\* A block unlinked, field by field.
LEMMA ApplyUnlinkFields ==
    ASSUME NEW d \in Db, NEW b \in Blocks
    PROVE  LET e == Ledger!ApplyUnlink(d, b)
           IN  /\ e \in Db
               /\ e.txs = d.txs
               /\ e.key_images = d.key_images
               /\ e.outputs = d.outputs
               /\ e.blocks = d.blocks \ {b}
               /\ e.indexes = [d.indexes EXCEPT ![Index[b]] = None]
               /\ e.timestamps = [d.timestamps EXCEPT ![Timestamp[b]] = None]
               /\ e = del_body(del_index(del_timestamp(d, b), b), b)
  <1> DEFINE q == del_timestamp(d, b)
             r == del_index(q, b)
             e == del_body(r, b)
  <1>1. Ledger!ApplyUnlink(d, b) = e
    BY DEF Ledger!ApplyUnlink, Ledger!del_body, Ledger!del_index, Ledger!del_timestamp,
           del_body, del_index, del_timestamp
  <1>2. /\ q \in Db /\ q.timestamps = [d.timestamps EXCEPT ![Timestamp[b]] = None]
        /\ q.txs = d.txs /\ q.key_images = d.key_images /\ q.outputs = d.outputs
        /\ q.blocks = d.blocks /\ q.indexes = d.indexes
    BY DelType DEF del_timestamp, Db
  <1> HIDE DEF q
  <1>3. /\ r \in Db /\ r.indexes = [q.indexes EXCEPT ![Index[b]] = None]
        /\ r.txs = q.txs /\ r.key_images = q.key_images /\ r.outputs = q.outputs
        /\ r.blocks = q.blocks /\ r.timestamps = q.timestamps
    BY <1>2, DelType DEF del_index, Db
  <1> HIDE DEF r
  <1>4. /\ e \in Db /\ e.blocks = r.blocks \ {b}
        /\ e.txs = r.txs /\ e.key_images = r.key_images /\ e.outputs = r.outputs
        /\ e.indexes = r.indexes /\ e.timestamps = r.timestamps
    BY <1>3, DelType DEF del_body, Db
  <1> HIDE DEF e
  <1>5. QED
    BY <1>1, <1>2, <1>3, <1>4 DEF e, r, q

\* A whole block put keeps lookups, completeness and the stored layout.
LEMMA ApplyPutConsistent ==
    ASSUME NEW d \in Db, NEW b \in Blocks, LookupSound(d), Complete(d),
           \A z \in Txs : d.txs[z] # None => d.txs[z][1] = z
    PROVE  LET e == Ledger!ApplyPut(d, b)
           IN  /\ LookupSound(e)
               /\ Complete(e)
               /\ \A z \in Txs : e.txs[z] # None => e.txs[z][1] = z
  <1> DEFINE e == Ledger!ApplyPut(d, b)
             S == AllTxsOf(b)
  <1>1. /\ e \in Db
        /\ e.txs = [z \in Txs |-> IF z \in S THEN StoredTx(z, b) ELSE d.txs[z]]
        /\ e.key_images = d.key_images \cup UNION {TxKeyImages[z] : z \in S}
        /\ e.outputs = d.outputs \cup UNION {TxOutputs[z] : z \in S}
        /\ e.blocks = d.blocks \cup {b}
        /\ e.indexes = [d.indexes EXCEPT ![Index[b]] = b]
        /\ e.timestamps = [d.timestamps EXCEPT ![Timestamp[b]] = b]
    BY ApplyPutFields
  <1> HIDE DEF e
  <1>2. LookupSound(e)
    <2>1. \A n \in Indexes : e.indexes[n] # None =>
             e.indexes[n] \in e.blocks /\ Index[e.indexes[n]] = n
      BY <1>1, DataAssumption DEF LookupSound, Db
    <2>2. \A s \in Times : e.timestamps[s] # None =>
             e.timestamps[s] \in e.blocks /\ Timestamp[e.timestamps[s]] = s
      BY <1>1, DataAssumption DEF LookupSound, Db
    <2>3. QED
      BY <2>1, <2>2 DEF LookupSound
  <1>3. \A z \in Txs : z \in S => e.txs[z] = <<z, b>> /\ e.txs[z] # None
    <2> SUFFICES ASSUME NEW z \in Txs, z \in S
                 PROVE  e.txs[z] = <<z, b>> /\ e.txs[z] # None
      OBVIOUS
    <2>1. e.txs[z] = <<z, b>>
      BY <1>1 DEF StoredTx
    <2>2. <<z, b>> \in Txs \X Blocks
      OBVIOUS
    <2>3. QED
      BY <2>1, <2>2, DataAssumption
  <1>4. \A z \in Txs : z \notin S => e.txs[z] = d.txs[z]
    BY <1>1
  <1>5. Complete(e)
    <2> SUFFICES ASSUME NEW c \in e.blocks, NEW z \in AllTxsOf(c)
                 PROVE  /\ e.txs[z] # None
                        /\ TxKeyImages[z] \subseteq e.key_images
                        /\ TxOutputs[z] \subseteq e.outputs
      BY DEF Complete
    <2>1. c \in Blocks /\ z \in Txs
      BY <1>1, BlockTxsOf DEF Db
    <2>2. CASE z \in S
      BY <1>1, <1>3, <2>1, <2>2
    <2>3. CASE z \notin S
      <3>1. c \in d.blocks
        BY <1>1, <2>3
      <3>2. /\ d.txs[z] # None
            /\ TxKeyImages[z] \subseteq d.key_images
            /\ TxOutputs[z] \subseteq d.outputs
        BY <3>1 DEF Complete
      <3>3. QED
        BY <1>1, <1>4, <2>1, <2>3, <3>2
    <2>4. QED
      BY <2>2, <2>3
  <1>6. \A z \in Txs : e.txs[z] # None => e.txs[z][1] = z
    BY <1>3, <1>4
  <1>7. QED
    BY <1>2, <1>5, <1>6 DEF e

\* A block unlinked keeps them too, whichever block the index entry or the
\* timestamp entry it takes along belonged to.
LEMMA ApplyUnlinkConsistent ==
    ASSUME NEW d \in Db, NEW b \in Blocks, LookupSound(d), Complete(d)
    PROVE  LET e == Ledger!ApplyUnlink(d, b)
           IN  LookupSound(e) /\ Complete(e)
  <1> DEFINE e == Ledger!ApplyUnlink(d, b)
  <1>1. /\ e \in Db /\ e.txs = d.txs
        /\ e.key_images = d.key_images /\ e.outputs = d.outputs
        /\ e.blocks = d.blocks \ {b}
        /\ e.indexes = [d.indexes EXCEPT ![Index[b]] = None]
        /\ e.timestamps = [d.timestamps EXCEPT ![Timestamp[b]] = None]
    BY ApplyUnlinkFields
  <1> HIDE DEF e
  <1>2. \A n \in Indexes : e.indexes[n] # None =>
           e.indexes[n] \in e.blocks /\ Index[e.indexes[n]] = n
    BY <1>1, DataAssumption DEF LookupSound, Db
  <1>3. \A s \in Times : e.timestamps[s] # None =>
           e.timestamps[s] \in e.blocks /\ Timestamp[e.timestamps[s]] = s
    BY <1>1, DataAssumption DEF LookupSound, Db
  <1>4. Complete(e)
    BY <1>1 DEF Complete
  <1>5. QED
    BY <1>2, <1>3, <1>4 DEF LookupSound, e

-----------------------------------------------------------------------------
(* The inductive invariant. *)

LEMMA InitIInv == Init => IInv
  <1> SUFFICES ASSUME Init PROVE IInv
    OBVIOUS
  <1> USE DEF Init
  <1>1. TypeOK
    BY EmptyDbType, StorageAssumption, DataAssumption
       DEF TypeOK, PCs, Ops, Errors, Indexes
  <1>2. Locks
    BY StorageAssumption
       DEF Locks, WriteSteps, PutSteps, DelSteps, Locked
  <1>3. Frames /\ RightBlock
    BY DEF Frames, Frame, RightBlock, Right, Locked, PutSteps, GetSteps, DelSteps
  <1>4. TxLayout /\ LookupsAgree /\ BlocksComplete
    BY DEF TxLayout, LookupsAgree, LookupSound, BlocksComplete, Complete, EmptyDb
  <1>5. ViewShape
    BY DEF ViewShape, Shape
  <1>6. QED
    BY <1>1, <1>2, <1>3, <1>4, <1>5 DEF IInv

\* A step of one thread that commits nothing leaves the part of the invariant
\* that is about another thread alone.
Same(u) ==
    /\ pc'[u] = pc[u] /\ op'[u] = op[u] /\ target'[u] = target[u] /\ i'[u] = i[u]
    /\ blk'[u] = blk[u] /\ k'[u] = k[u] /\ loaded'[u] = loaded[u]

LEMMA Others ==
    ASSUME IInv, NEW u \in Threads, Same(u), db' = db,
           pc[u] \in WriteSteps => view' = view
    PROVE  Frame(u)' /\ Right(u)' /\ Shape(u)'
  <1>1. Frame(u) /\ Right(u) /\ Shape(u)
    BY DEF IInv, Frames, RightBlock, ViewShape
  <1>2. Frame(u)'
    BY <1>1 DEF Frame, Same
  <1>3. Right(u)'
    BY <1>1 DEF Right, Same
  <1>4. Shape(u)'
    BY <1>1 DEF Shape, Same, WriteSteps, PutSteps, DelSteps, PutSoFar, WithTxs
  <1>5. QED
    BY <1>2, <1>3, <1>4

\* What is left to show for a step of thread t that commits nothing.
LEMMA LocalStep ==
    ASSUME IInv, NEW t \in Threads, db' = db, TypeOK', Locks',
           Frame(t)', Right(t)', Shape(t)',
           \A u \in Threads \ {t} : Same(u) /\ (pc[u] \in WriteSteps => view' = view)
    PROVE  IInv'
  <1>1. \A u \in Threads : Frame(u)' /\ Right(u)' /\ Shape(u)'
    BY Others
  <1>2. Frames' /\ RightBlock' /\ ViewShape'
    BY <1>1 DEF Frames, RightBlock, ViewShape
  <1>3. TxLayout' /\ LookupsAgree' /\ BlocksComplete'
    BY DEF IInv, TxLayout, LookupsAgree, BlocksComplete, LookupSound, Complete
  <1>4. QED
    BY <1>2, <1>3 DEF IInv

\* A return without a commit: the call's locks are released.
LEMMA ReturnStep ==
    ASSUME IInv, NEW t \in Threads, NEW err \in Errors, Return(t, err),
           db' = db, fulls' = fulls
    PROVE  IInv'
  <1> USE DEF Return, Goto
  <1>1. TypeOK /\ Locks
    BY DEF IInv
  <1>2. TypeOK'
    BY <1>1, EmptyDbType, DataAssumption DEF TypeOK, PCs, Ops, Indexes
  <1>3. Locks'
    BY <1>1, StorageAssumption DEF TypeOK, Locks, WriteSteps, PutSteps, DelSteps, Locked
  <1>4. Frame(t)' /\ Right(t)' /\ Shape(t)'
    BY <1>1 DEF TypeOK, Frame, Right, Shape, Locked, PutSteps, DelSteps, GetSteps
  <1>5. \A u \in Threads \ {t} : Same(u) /\ (pc[u] \in WriteSteps => view' = view)
    BY <1>1 DEF TypeOK, Locks, Same
  <1>6. QED
    BY <1>2, <1>3, <1>4, <1>5, LocalStep

\* The steps of thread t that neither write nor return: they change t's place
\* and its locals only.
LEMMA MoveStep ==
    ASSUME IInv, NEW t \in Threads,
           \/ put_block_lock(t) \/ expand(t) \/ rewind_count(t)
           \/ \E b \in Blocks, v \in TxVectors : put_block_call(t, b, v)
           \/ \E n \in Indexes : get_block_call(t, n) \/ rewind_call(t, n)
    PROVE  IInv'
  <1>1. TypeOK /\ Locks /\ Frame(t) /\ Right(t)
    BY DEF IInv, Frames, RightBlock
  <1>2. CASE put_block_lock(t)
    <2> USE <1>2 DEF put_block_lock, Goto, locals
    <2>1. TypeOK'
      BY <1>1 DEF TypeOK, PCs, Locked
    <2>2. Locks'
      BY <1>1, StorageAssumption DEF TypeOK, Locks, WriteSteps, PutSteps, DelSteps, Locked
    <2>3. Frame(t)' /\ Right(t)' /\ Shape(t)'
      BY <1>1 DEF TypeOK, Frame, Right, Shape, Locked, PutSteps, DelSteps, GetSteps
    <2>4. \A u \in Threads \ {t} : Same(u) /\ (pc[u] \in WriteSteps => view' = view)
      BY <1>1 DEF TypeOK, Same
    <2>5. QED
      BY <2>1, <2>2, <2>3, <2>4, LocalStep
  <1>3. CASE expand(t)
    <2> USE <1>3 DEF expand, Goto, locals
    <2>1. TypeOK'
      BY <1>1 DEF TypeOK, PCs, Locked
    <2>2. Locks'
      BY <1>1, StorageAssumption DEF TypeOK, Locks, WriteSteps, PutSteps, DelSteps, Locked
    <2>3. Frame(t)' /\ Right(t)' /\ Shape(t)'
      BY <1>1 DEF TypeOK, Frame, Right, Shape, Locked, PutSteps, DelSteps, GetSteps
    <2>4. \A u \in Threads \ {t} : Same(u) /\ (pc[u] \in WriteSteps => view' = view)
      BY <1>1 DEF TypeOK, Same
    <2>5. QED
      BY <2>1, <2>2, <2>3, <2>4, LocalStep
  <1>4. CASE rewind_count(t)
    <2> USE <1>4 DEF rewind_count, Goto
    <2>1. Cardinality(db.blocks) \in Indexes
      <3>1. db.blocks \subseteq Blocks
        BY <1>1 DEF TypeOK, Db
      <3>2. /\ Cardinality(db.blocks) \in Nat /\ Cardinality(Blocks) \in Nat
            /\ Cardinality(db.blocks) <= Cardinality(Blocks)
        BY <3>1, DataAssumption, FS_Subset, FS_CardinalityType
      <3>3. QED
        BY <3>2, DataAssumption DEF Indexes
    <2>2. TypeOK'
      BY <1>1, <2>1 DEF TypeOK, PCs
    <2>3. Locks'
      BY <1>1, StorageAssumption DEF TypeOK, Locks, WriteSteps, PutSteps, DelSteps, Locked
    <2>4. Frame(t)' /\ Right(t)' /\ Shape(t)'
      BY <1>1 DEF TypeOK, Frame, Right, Shape, Locked, PutSteps, DelSteps, GetSteps
    <2>5. \A u \in Threads \ {t} : Same(u) /\ (pc[u] \in WriteSteps => view' = view)
      BY <1>1 DEF TypeOK, Same
    <2>6. QED
      BY <2>2, <2>3, <2>4, <2>5, LocalStep
  <1>5. ASSUME NEW b \in Blocks, NEW v \in TxVectors, put_block_call(t, b, v)
        PROVE  IInv'
    <2> USE <1>5 DEF put_block_call, Goto
    <2>1. TypeOK'
      BY <1>1 DEF TypeOK, PCs, Ops
    <2>2. Locks'
      BY <1>1, StorageAssumption DEF TypeOK, Locks, WriteSteps, PutSteps, DelSteps, Locked
    <2>3. Frame(t)' /\ Right(t)' /\ Shape(t)'
      BY <1>1 DEF TypeOK, Frame, Right, Shape, Locked, PutSteps, DelSteps, GetSteps
    <2>4. \A u \in Threads \ {t} : Same(u) /\ (pc[u] \in WriteSteps => view' = view)
      BY <1>1 DEF TypeOK, Same
    <2>5. QED
      BY <2>1, <2>2, <2>3, <2>4, LocalStep
  <1>6. ASSUME NEW n \in Indexes, get_block_call(t, n)
        PROVE  IInv'
    <2> USE <1>6 DEF get_block_call, Goto
    <2>1. TypeOK'
      BY <1>1 DEF TypeOK, PCs, Ops, GetSteps
    <2>2. Locks'
      BY <1>1, StorageAssumption
         DEF TypeOK, Locks, WriteSteps, PutSteps, DelSteps, Locked
    <2>3. Frame(t)' /\ Right(t)' /\ Shape(t)'
      BY <1>1 DEF TypeOK, Frame, Right, Shape, Locked, PutSteps, DelSteps, GetSteps
    <2>4. \A u \in Threads \ {t} : Same(u) /\ (pc[u] \in WriteSteps => view' = view)
      BY <1>1 DEF TypeOK, Same
    <2>5. QED
      BY <2>1, <2>2, <2>3, <2>4, LocalStep
  <1>7. ASSUME NEW n \in Indexes, rewind_call(t, n)
        PROVE  IInv'
    <2> USE <1>7 DEF rewind_call, Goto
    <2>1. TypeOK'
      BY <1>1 DEF TypeOK, PCs, Ops, GetSteps
    <2>2. Locks'
      BY <1>1, StorageAssumption
         DEF TypeOK, Locks, WriteSteps, PutSteps, DelSteps, Locked
    <2>3. Frame(t)' /\ Right(t)' /\ Shape(t)'
      BY <1>1 DEF TypeOK, Frame, Right, Shape, Locked, PutSteps, DelSteps, GetSteps
    <2>4. \A u \in Threads \ {t} : Same(u) /\ (pc[u] \in WriteSteps => view' = view)
      BY <1>1 DEF TypeOK, Same
    <2>5. QED
      BY <2>1, <2>2, <2>3, <2>4, LocalStep
  <1>8. QED
    BY <1>2, <1>3, <1>4, <1>5, <1>6, <1>7

\* The reads of get_block and the loop of rewind, which may also return.
LEMMA ReadStep ==
    ASSUME IInv, NEW t \in Threads,
           \/ get_block_index(t) \/ get_block_body(t) \/ get_block_txs(t)
           \/ get_block_done(t) \/ rewind_loop(t)
    PROVE  IInv'
  <1>1. TypeOK /\ Locks /\ Frame(t) /\ Right(t) /\ LookupSound(db) /\ TxLayout
    BY DEF IInv, Frames, RightBlock, LookupsAgree
  <1>2. SUFFICES ASSUME ~ \E err \in Errors : Return(t, err),
                        db' = db, view' = view, fulls' = fulls
                 PROVE  IInv'
    <2>1. db' = db /\ fulls' = fulls
      BY DEF get_block_index, get_block_body, get_block_txs, get_block_done, rewind_loop
    <2>2. CASE \E err \in Errors : Return(t, err)
      BY <2>1, <2>2, ReturnStep
    <2>3. CASE ~ \E err \in Errors : Return(t, err)
      <3>1. view' = view
        BY <2>3 DEF get_block_index, get_block_body, get_block_txs, get_block_done,
                    rewind_loop, Errors
      <3>2. QED
        BY <2>1, <2>3, <3>1
    <2>4. QED
      BY <2>2, <2>3
  <1>3. CASE get_block_index(t)
    <2>1. /\ pc[t] = "get_index" /\ db.indexes[i[t]] # None
          /\ blk' = [blk EXCEPT ![t] = db.indexes[i[t]]]
          /\ pc' = [pc EXCEPT ![t] = "get_body"]
          /\ UNCHANGED <<writer, write_mutex, op, target, i, k, loaded, ret>>
      BY <1>2, <1>3 DEF get_block_index, Goto, Errors
    <2>2. db.indexes[i[t]] \in Blocks /\ Index[db.indexes[i[t]]] = i[t]
      BY <1>1, <2>1 DEF TypeOK, LookupSound, Db
    <2>3. TypeOK'
      BY <1>1, <1>2, <2>1, <2>2 DEF TypeOK, PCs, GetSteps
    <2>4. Locks'
      BY <1>1, <2>1 DEF TypeOK, Locks, WriteSteps, PutSteps, DelSteps, Locked
    <2>5. Frame(t)' /\ Right(t)' /\ Shape(t)'
      BY <1>1, <2>1, <2>2 DEF TypeOK, Frame, Right, Shape, Locked, PutSteps, DelSteps, GetSteps
    <2>6. \A u \in Threads \ {t} : Same(u) /\ (pc[u] \in WriteSteps => view' = view)
      BY <1>1, <1>2, <2>1 DEF TypeOK, Same
    <2>7. QED
      BY <1>2, <2>3, <2>4, <2>5, <2>6, LocalStep
  <1>4. CASE get_block_body(t)
    <2>1. /\ pc[t] = "get_body"
          /\ k' = [k EXCEPT ![t] = 1]
          /\ loaded' = [loaded EXCEPT ![t] = <<>>]
          /\ pc' = [pc EXCEPT ![t] = "get_txs"]
          /\ UNCHANGED <<writer, write_mutex, op, target, i, blk, ret>>
      BY <1>2, <1>4 DEF get_block_body, Goto, Errors
    <2>2. TypeOK'
      BY <1>1, <1>2, <2>1 DEF TypeOK, PCs, GetSteps
    <2>3. Locks'
      BY <1>1, <2>1 DEF TypeOK, Locks, WriteSteps, PutSteps, DelSteps, Locked
    <2>4. Frame(t)' /\ Right(t)' /\ Shape(t)'
      BY <1>1, <2>1 DEF TypeOK, Frame, Right, Shape, Locked, PutSteps, DelSteps, GetSteps
    <2>5. \A u \in Threads \ {t} : Same(u) /\ (pc[u] \in WriteSteps => view' = view)
      BY <1>1, <1>2, <2>1 DEF TypeOK, Same
    <2>6. QED
      BY <1>2, <2>2, <2>3, <2>4, <2>5, LocalStep
  <1>5. CASE get_block_txs(t)
    <2> DEFINE z == BlockTxs[blk[t]][k[t]]
    <2>1. pc[t] = "get_txs" /\ k[t] <= Len(BlockTxs[blk[t]])
      BY <1>5 DEF get_block_txs
    <2>2. PICK r \in get_transaction(db, z) :
            /\ r \in Txs \cup {Garbage}
            /\ loaded' = [loaded EXCEPT ![t] = Append(@, r)]
            /\ k' = [k EXCEPT ![t] = @ + 1]
            /\ UNCHANGED <<pc, writer, write_mutex, op, target, i, blk, ret>>
      BY <1>2, <1>5 DEF get_block_txs, Errors
    <2>3. TypeOK'
      BY <1>1, <1>2, <2>2 DEF TypeOK
    <2>4. Locks'
      BY <1>1, <2>2 DEF Locks
    <2>5. \A u \in Threads \ {t} : Same(u) /\ (pc[u] \in WriteSteps => view' = view)
      BY <1>1, <1>2, <2>2 DEF TypeOK, Same
    <2>6. r = Garbage
      <3>1. blk[t] \in Blocks /\ z \in Txs
        BY <1>1, <2>1, BlockTxsOf DEF TypeOK, Right
      <3>2. r \in ReadErrors \cup {Garbage}
        BY <1>1, <2>2, <3>1, DataAssumption DEF TxLayout, get_transaction, ReadErrors
      <3>3. QED
        BY <2>2, <3>2, DataAssumption
    <2>7. Frame(t)'
      <3>1. loaded[t] \in Seq(Txs \cup {Garbage})
        BY <1>1 DEF TypeOK
      <3>2. \A j \in 1 .. Len(loaded'[t]) : loaded'[t][j] = Garbage
        <4>1. loaded'[t] = Append(loaded[t], Garbage)
          BY <1>1, <2>2, <2>6 DEF TypeOK
        <4>2. \A j \in 1 .. Len(loaded[t]) : loaded[t][j] = Garbage
          BY <1>1 DEF Frame
        <4>3. QED
          BY <3>1, <4>1, <4>2
      <3>3. QED
        BY <1>1, <2>1, <2>2, <3>2 DEF Frame, Locked, PutSteps, DelSteps, GetSteps
    <2>8. Right(t)' /\ Shape(t)'
      BY <1>1, <2>1, <2>2 DEF Right, Shape, DelSteps
    <2>9. QED
      BY <1>2, <2>3, <2>4, <2>5, <2>7, <2>8, LocalStep
  <1>6. CASE get_block_done(t)
    <2>1. /\ pc[t] = "get_txs" /\ op[t] = "rewind"
          /\ pc' = [pc EXCEPT ![t] = "del_begin"]
          /\ UNCHANGED <<writer, write_mutex, locals, ret>>
      BY <1>2, <1>6 DEF get_block_done, Goto, Errors
    <2>2. TypeOK'
      BY <1>1, <1>2, <2>1 DEF TypeOK, PCs, locals
    <2>3. Locks'
      BY <1>1, <2>1 DEF TypeOK, Locks, WriteSteps, PutSteps, DelSteps, Locked
    <2>4. Frame(t)' /\ Right(t)' /\ Shape(t)'
      BY <1>1, <2>1 DEF TypeOK, Frame, Right, Shape, Locked, PutSteps, DelSteps, GetSteps, locals
    <2>5. \A u \in Threads \ {t} : Same(u) /\ (pc[u] \in WriteSteps => view' = view)
      BY <1>1, <1>2, <2>1 DEF TypeOK, Same, locals
    <2>6. QED
      BY <1>2, <2>2, <2>3, <2>4, <2>5, LocalStep
  <1>7. CASE rewind_loop(t)
    <2>1. /\ pc[t] = "loop" /\ i[t] > target[t]
          /\ pc' = [pc EXCEPT ![t] = "get_index"]
          /\ UNCHANGED <<writer, write_mutex, locals, ret>>
      BY <1>2, <1>7 DEF rewind_loop, Goto, Errors
    <2>2. TypeOK'
      BY <1>1, <1>2, <2>1 DEF TypeOK, PCs, GetSteps, locals
    <2>3. Locks'
      BY <1>1, <2>1 DEF TypeOK, Locks, WriteSteps, PutSteps, DelSteps, Locked
    <2>4. Frame(t)' /\ Right(t)' /\ Shape(t)'
      BY <1>1, <2>1 DEF TypeOK, Frame, Right, Shape, Locked, PutSteps, DelSteps, GetSteps, locals
    <2>5. \A u \in Threads \ {t} : Same(u) /\ (pc[u] \in WriteSteps => view' = view)
      BY <1>1, <1>2, <2>1 DEF TypeOK, Same, locals
    <2>6. QED
      BY <1>2, <2>2, <2>3, <2>4, <2>5, LocalStep
  <1>8. QED
    BY <1>3, <1>4, <1>5, <1>6, <1>7

\* A R/W transaction begins on what is committed.
LEMMA BeginStep ==
    ASSUME IInv, NEW t \in Threads, put_block_begin(t) \/ del_block_begin(t)
    PROVE  IInv'
  <1>1. TypeOK /\ Locks /\ Frame(t) /\ Right(t)
    BY DEF IInv, Frames, RightBlock
  <1>2. CASE put_block_begin(t)
    <2> USE <1>2 DEF put_block_begin, txn_begin, Goto
    <2>1. TypeOK'
      BY <1>1 DEF TypeOK, PCs, Locked, PutSteps, DelSteps, GetSteps
    <2>2. Locks'
      BY <1>1, StorageAssumption DEF TypeOK, Locks, WriteSteps, PutSteps, DelSteps, Locked
    <2>3. Frame(t)' /\ Right(t)'
      BY <1>1 DEF TypeOK, Frame, Right, Locked, PutSteps, DelSteps, GetSteps
    <2>4. Shape(t)'
      BY <1>1 DEF TypeOK, Shape
    <2>5. \A u \in Threads \ {t} : Same(u) /\ (pc[u] \in WriteSteps => view' = view)
      BY <1>1, StorageAssumption DEF TypeOK, Locks, Same
    <2>6. QED
      BY <2>1, <2>2, <2>3, <2>4, <2>5, LocalStep
  <1>3. CASE del_block_begin(t)
    <2> USE <1>3 DEF del_block_begin, txn_begin, Goto
    <2>1. TypeOK'
      BY <1>1 DEF TypeOK, PCs, Locked, PutSteps, DelSteps, GetSteps
    <2>2. Locks'
      BY <1>1, StorageAssumption DEF TypeOK, Locks, WriteSteps, PutSteps, DelSteps, Locked
    <2>3. Frame(t)' /\ Right(t)'
      BY <1>1 DEF TypeOK, Frame, Right, Locked, PutSteps, DelSteps, GetSteps
    <2>4. Shape(t)'
      BY <1>1 DEF TypeOK, Shape
    <2>5. \A u \in Threads \ {t} : Same(u) /\ (pc[u] \in WriteSteps => view' = view)
      BY <1>1, StorageAssumption DEF TypeOK, Locks, Same
    <2>6. QED
      BY <2>1, <2>2, <2>3, <2>4, <2>5, LocalStep
  <1>4. QED
    BY <1>2, <1>3

\* What is left to show for one write inside thread t's transaction.
LEMMA WriteStepLemma ==
    ASSUME IInv, NEW t \in Threads, NEW d \in Db, NEW to,
           WriteStep(t, d, to), k' \in [Threads -> Nat \ {0}],
           \A u \in Threads \ {t} : k'[u] = k[u],
           \/ pc[t] \in PutSteps /\ to \in PutSteps
           \/ pc[t] \in DelSteps /\ to \in DelSteps,
           Shape(t)'
    PROVE  IInv'
  <1> USE DEF WriteStep, Goto
  <1>1. TypeOK /\ Locks /\ Frame(t) /\ Right(t)
    BY DEF IInv, Frames, RightBlock
  <1>2. TypeOK'
    BY <1>1 DEF TypeOK, PCs, Locked
  <1>3. Locks'
    BY <1>1 DEF TypeOK, Locks, WriteSteps, PutSteps, DelSteps, Locked
  <1>4. Frame(t)' /\ Right(t)'
    BY <1>1 DEF TypeOK, Frame, Right, Locked, PutSteps, DelSteps, GetSteps
  <1>5. \A u \in Threads \ {t} : Same(u) /\ (pc[u] \in WriteSteps => view' = view)
    BY <1>1 DEF TypeOK, Locks, Same, WriteSteps
  <1>6. QED
    BY <1>2, <1>3, <1>4, <1>5, LocalStep

\* The writes of put_block.
LEMMA PutStep ==
    ASSUME IInv, NEW t \in Threads,
           \/ put_block_reward(t) \/ put_block_txs(t) \/ put_block_txs_done(t)
           \/ put_block_block(t) \/ put_block_indexes(t) \/ put_block_timestamps(t)
    PROVE  IInv'
  <1> DEFINE b == blk[t]
  <1>1. TypeOK /\ Frame(t) /\ Shape(t)
    BY DEF IInv, Frames, ViewShape
  <1>2. view \in Db /\ db \in Db /\ k \in [Threads -> Nat \ {0}]
    BY <1>1 DEF TypeOK
  <1>3. b \in Blocks
    BY <1>1 DEF Frame, Locked, PutSteps, put_block_reward, put_block_txs,
       put_block_txs_done, put_block_block, put_block_indexes, put_block_timestamps
  <1>4. /\ AllTxsOf(b) \in SUBSET Txs /\ RewardTx[b] \in Txs
        /\ Len(BlockTxs[b]) \in Nat
        /\ \A j \in 1 .. Len(BlockTxs[b]) : BlockTxs[b][j] \in Txs
    BY <1>3, BlockTxsOf
  <1>5. CASE put_block_reward(t)
    <2> DEFINE d == put_transaction(view, RewardTx[b], b)
    <2>1. pc[t] = "put_reward" /\ WriteStep(t, d, "put_txs") /\ k' = k
      BY <1>5 DEF put_block_reward
    <2>2. d \in Db
      BY <1>2, <1>3, <1>4, PutTxsType DEF put_transaction
    <2>3. pc'[t] = "put_txs" /\ view' = d /\ db' = db /\ blk' = blk
      BY <1>1, <2>1 DEF WriteStep, Goto, TypeOK
    <2>4. view = db /\ k[t] = 1
      BY <1>1, <2>1 DEF Shape
    <2>5. PutSoFar(t)' = {RewardTx[b]}
      BY <2>1, <2>3, <2>4 DEF PutSoFar
    <2>6. Shape(t)'
      BY <1>4, <2>1, <2>3, <2>4, <2>5 DEF Shape, put_transaction
    <2> HIDE DEF d
    <2>7. QED
      BY <1>2, <2>1, <2>2, <2>6, WriteStepLemma DEF PutSteps
  <1>6. CASE put_block_txs(t)
    <2> DEFINE z == BlockTxs[b][k[t]]
               d == put_transaction(view, z, b)
    <2>1. /\ pc[t] = "put_txs" /\ k[t] <= Len(BlockTxs[b])
          /\ WriteStep(t, d, "put_txs")
          /\ k' = [k EXCEPT ![t] = @ + 1]
      BY <1>6 DEF put_block_txs
    <2>2. z \in Txs
      BY <1>2, <1>4, <2>1
    <2>3. d \in Db
      BY <1>2, <1>3, <2>2, PutTxsType DEF put_transaction
    <2>4. pc'[t] = "put_txs" /\ view' = d /\ db' = db /\ blk' = blk
      BY <1>1, <2>1 DEF WriteStep, Goto, TypeOK
    <2>5. view = put_transactions(db, PutSoFar(t), b) /\ k[t] \in 1 .. Len(BlockTxs[b]) + 1
      BY <1>1, <2>1 DEF Shape
    <2>6. PutSoFar(t) \in SUBSET Txs
      BY <1>4, <2>5 DEF PutSoFar
    <2>7. d = put_transactions(db, PutSoFar(t) \cup {z}, b)
      BY <1>2, <1>3, <2>2, <2>5, <2>6, PutTxsCompose
    <2>8. k'[t] = k[t] + 1 /\ k'[t] \in 1 .. Len(BlockTxs[b]) + 1
      BY <1>2, <1>4, <2>1, <2>5
    <2>9. PutSoFar(t)' = PutSoFar(t) \cup {z}
      <3>1. 1 .. k'[t] - 1 = (1 .. k[t] - 1) \cup {k[t]}
        BY <1>2, <2>8
      <3>2. QED
        BY <2>4, <3>1 DEF PutSoFar
    <2>10. Shape(t)'
      BY <2>4, <2>7, <2>8, <2>9 DEF Shape
    <2>11. k' \in [Threads -> Nat \ {0}] /\ \A u \in Threads \ {t} : k'[u] = k[u]
      BY <1>2, <2>1
    <2> HIDE DEF d
    <2>12. QED
      BY <2>1, <2>3, <2>10, <2>11, WriteStepLemma DEF PutSteps
  <1>7. CASE put_block_txs_done(t)
    <2>1. /\ pc[t] = "put_txs" /\ k[t] > Len(BlockTxs[b])
          /\ WriteStep(t, view, "put_body") /\ k' = k
      BY <1>7 DEF put_block_txs_done
    <2>2. pc'[t] = "put_body" /\ view' = view /\ db' = db /\ blk' = blk
      BY <1>1, <2>1 DEF WriteStep, Goto, TypeOK
    <2>3. view = put_transactions(db, PutSoFar(t), b) /\ k[t] = Len(BlockTxs[b]) + 1
      BY <1>1, <1>4, <2>1 DEF Shape
    <2>4. PutSoFar(t) = AllTxsOf(b)
      BY <1>4, <2>3 DEF PutSoFar, AllTxsOf, TxsOf
    <2>5. Shape(t)'
      BY <2>2, <2>3, <2>4 DEF Shape, WithTxs
    <2>6. QED
      BY <1>2, <2>1, <2>5, WriteStepLemma DEF PutSteps
  <1>8. CASE put_block_block(t)
    <2> DEFINE d == put_block_body(view, b)
    <2>1. pc[t] = "put_body" /\ WriteStep(t, d, "put_index") /\ k' = k
      BY <1>8 DEF put_block_block
    <2>2. d \in Db
      BY <1>2, <1>3, PutBodyType
    <2>3. pc'[t] = "put_index" /\ view' = d /\ db' = db /\ blk' = blk
      BY <1>1, <2>1 DEF WriteStep, Goto, TypeOK
    <2>4. Shape(t)'
      BY <1>1, <2>1, <2>3 DEF Shape, WithTxs
    <2> HIDE DEF d
    <2>5. QED
      BY <1>2, <2>1, <2>2, <2>4, WriteStepLemma DEF PutSteps
  <1>9. CASE put_block_indexes(t)
    <2> DEFINE d == put_block_index(view, b)
    <2>1. pc[t] = "put_index" /\ WriteStep(t, d, "put_timestamp") /\ k' = k
      BY <1>9 DEF put_block_indexes
    <2>2. d \in Db
      BY <1>2, <1>3, PutBodyType
    <2>3. pc'[t] = "put_timestamp" /\ view' = d /\ db' = db /\ blk' = blk
      BY <1>1, <2>1 DEF WriteStep, Goto, TypeOK
    <2>4. Shape(t)'
      BY <1>1, <2>1, <2>3 DEF Shape, WithTxs
    <2> HIDE DEF d
    <2>5. QED
      BY <1>2, <2>1, <2>2, <2>4, WriteStepLemma DEF PutSteps
  <1>10. CASE put_block_timestamps(t)
    <2> DEFINE d == put_block_timestamp(view, b)
    <2>1. pc[t] = "put_timestamp" /\ WriteStep(t, d, "put_commit") /\ k' = k
      BY <1>10 DEF put_block_timestamps
    <2>2. d \in Db
      BY <1>2, <1>3, PutBodyType
    <2>3. pc'[t] = "put_commit" /\ view' = d /\ db' = db /\ blk' = blk
      BY <1>1, <2>1 DEF WriteStep, Goto, TypeOK
    <2>4. d = Ledger!ApplyPut(db, b)
      <3>1. view = put_block_index(put_block_body(
                     put_transactions(db, AllTxsOf(b), b), b), b)
        BY <1>1, <2>1 DEF Shape, WithTxs
      <3>2. Ledger!ApplyPut(db, b)
              = put_block_timestamp(put_block_index(put_block_body(
                    put_transactions(db, AllTxsOf(b), b), b), b), b)
        BY <1>2, <1>3, ApplyPutFields
      <3>3. QED
        BY <3>1, <3>2
    <2>5. Shape(t)'
      BY <2>3, <2>4 DEF Shape
    <2> HIDE DEF d
    <2>6. QED
      BY <1>2, <2>1, <2>2, <2>5, WriteStepLemma DEF PutSteps
  <1>11. QED
    BY <1>5, <1>6, <1>7, <1>8, <1>9, <1>10

\* The writes of del_block.  Whatever get_block handed over was never stored,
\* so only a block without transactions gets past the first loop.
LEMMA DelStepLemma ==
    ASSUME IInv, NEW t \in Threads,
           \/ del_block_txs(t) \/ del_block_txs_done(t) \/ del_block_timestamp(t)
           \/ del_block_index(t) \/ del_block_body(t) \/ del_block_not_found(t)
    PROVE  IInv'
  <1> DEFINE b == blk[t]
  <1>1. TypeOK /\ Frame(t) /\ Right(t) /\ Shape(t)
    BY DEF IInv, Frames, RightBlock, ViewShape
  <1>2. view \in Db /\ db \in Db /\ k \in [Threads -> Nat \ {0}]
    BY <1>1 DEF TypeOK
  <1>3. b \in Blocks
    BY <1>1 DEF Right, DelSteps, del_block_txs, del_block_txs_done, del_block_timestamp,
       del_block_index, del_block_body, del_block_not_found
  <1>4. CASE del_block_txs(t)
    <2>1. loaded[t][k[t]] = Garbage
      BY <1>1, <1>4 DEF del_block_txs, Frame, TypeOK
    <2>2. ~can_del_transaction(view, loaded[t][k[t]])
      BY <2>1, DataAssumption DEF can_del_transaction
    <2>3. Return(t, "LMDB_NOTFOUND") /\ db' = db /\ fulls' = fulls
      BY <1>4, <2>2 DEF del_block_txs
    <2>4. QED
      BY <2>3, ReturnStep DEF Errors
  <1>5. CASE del_block_not_found(t)
    BY <1>5, ReturnStep DEF del_block_not_found, Errors
  <1>6. CASE del_block_txs_done(t)
    <2>1. pc[t] = "del_txs" /\ WriteStep(t, view, "del_timestamp") /\ k' = k
      BY <1>6 DEF del_block_txs_done
    <2>2. pc'[t] = "del_timestamp" /\ view' = view /\ db' = db /\ blk' = blk
      BY <1>1, <2>1 DEF WriteStep, Goto, TypeOK
    <2>3. Shape(t)'
      BY <1>1, <2>1, <2>2 DEF Shape
    <2>4. QED
      BY <1>2, <2>1, <2>3, WriteStepLemma DEF DelSteps
  <1>7. CASE del_block_timestamp(t)
    <2> DEFINE d == del_timestamp(view, b)
    <2>1. /\ pc[t] = "del_timestamp" /\ WriteStep(t, d, "del_index") /\ k' = k
          /\ can_del_timestamp(view, b)
      BY <1>7 DEF del_block_timestamp
    <2>2. d \in Db
      BY <1>2, <1>3, DelType
    <2>3. pc'[t] = "del_index" /\ view' = d /\ db' = db /\ blk' = blk
      BY <1>1, <2>1 DEF WriteStep, Goto, TypeOK
    <2>4. Shape(t)'
      BY <1>1, <2>1, <2>3 DEF Shape, can_del_timestamp
    <2> HIDE DEF d
    <2>5. QED
      BY <1>2, <2>1, <2>2, <2>4, WriteStepLemma DEF DelSteps
  <1>8. CASE del_block_index(t)
    <2> DEFINE d == del_index(view, b)
    <2>1. /\ pc[t] = "del_index" /\ WriteStep(t, d, "del_body") /\ k' = k
          /\ can_del_index(view, b)
      BY <1>8 DEF del_block_index
    <2>2. d \in Db
      BY <1>2, <1>3, DelType
    <2>3. pc'[t] = "del_body" /\ view' = d /\ db' = db /\ blk' = blk
      BY <1>1, <2>1 DEF WriteStep, Goto, TypeOK
    <2>4. can_del_timestamp(db, b) /\ view = del_timestamp(db, b)
      BY <1>1, <2>1 DEF Shape
    <2>5. can_del_index(db, b)
      BY <1>2, <2>1, <2>4 DEF can_del_index, del_timestamp, Db
    <2>6. Shape(t)'
      BY <2>3, <2>4, <2>5 DEF Shape, can_del_timestamp, can_del_index
    <2> HIDE DEF d
    <2>7. QED
      BY <1>2, <2>1, <2>2, <2>6, WriteStepLemma DEF DelSteps
  <1>9. CASE del_block_body(t)
    <2> DEFINE d == del_body(view, b)
    <2>1. /\ pc[t] = "del_body" /\ WriteStep(t, d, "del_commit") /\ k' = k
          /\ can_del_body(view, b)
      BY <1>9 DEF del_block_body
    <2>2. d \in Db
      BY <1>2, <1>3, DelType
    <2>3. pc'[t] = "del_commit" /\ view' = d /\ db' = db /\ blk' = blk
      BY <1>1, <2>1 DEF WriteStep, Goto, TypeOK
    <2>4. /\ can_del_timestamp(db, b) /\ can_del_index(db, b)
          /\ view = del_index(del_timestamp(db, b), b)
      BY <1>1, <2>1 DEF Shape
    <2>5. can_del_body(db, b)
      BY <1>2, <2>1, <2>4 DEF can_del_body, del_timestamp, del_index, Db
    <2>6. d = Ledger!ApplyUnlink(db, b)
      BY <1>2, <1>3, <2>4, ApplyUnlinkFields
    <2>7. Shape(t)'
      BY <2>3, <2>4, <2>5, <2>6 DEF Shape, can_del_timestamp, can_del_index, can_del_body
    <2> HIDE DEF d
    <2>8. QED
      BY <1>2, <2>1, <2>2, <2>7, WriteStepLemma DEF DelSteps
  <1>10. QED
    BY <1>4, <1>5, <1>6, <1>7, <1>8, <1>9

\* A write meets MAP_FULL: the transaction is gone, the lock is kept.
LEMMA MapFullStep ==
    ASSUME IInv, NEW t \in Threads, map_full(t)
    PROVE  IInv'
  <1> USE DEF map_full, Goto, locals, ExpandOf
  <1>1. TypeOK /\ Locks /\ Frame(t) /\ Right(t)
    BY DEF IInv, Frames, RightBlock
  <1>2. TypeOK'
    BY <1>1, EmptyDbType, StorageAssumption DEF TypeOK, PCs, Locked
  <1>3. Locks'
    BY <1>1, StorageAssumption DEF TypeOK, Locks, WriteSteps, PutSteps, DelSteps, Locked
  <1>4. Frame(t)' /\ Right(t)' /\ Shape(t)'
    BY <1>1 DEF TypeOK, Frame, Right, Shape, WriteSteps, Locked, PutSteps, DelSteps, GetSteps
  <1>5. \A u \in Threads \ {t} : Same(u) /\ (pc[u] \in WriteSteps => view' = view)
    BY <1>1 DEF TypeOK, Locks, Same
  <1>6. QED
    BY <1>2, <1>3, <1>4, <1>5, LocalStep

\* What is left to show for a commit of thread t: the new databases keep the
\* consistency, no other thread is inside a transaction.
LEMMA CommitStep ==
    ASSUME IInv, NEW t \in Threads, pc[t] \in WriteSteps, TypeOK', Locks',
           Frame(t)', Right(t)', pc'[t] \notin WriteSteps,
           \A u \in Threads \ {t} : Same(u),
           LookupSound(db'), Complete(db'),
           \A z \in Txs : db'.txs[z] # None => db'.txs[z][1] = z
    PROVE  IInv'
  <1>1. Locks /\ Frames /\ RightBlock
    BY DEF IInv
  <1>2. \A u \in Threads \ {t} : pc'[u] \notin WriteSteps
    BY <1>1 DEF Locks, Same
  <1>3. ViewShape'
    BY <1>2 DEF ViewShape, Shape, WriteSteps, PutSteps, DelSteps
  <1>4. Frames'
    BY <1>1 DEF Frames, Frame, Same
  <1>5. RightBlock'
    BY <1>1 DEF RightBlock, Right, Same
  <1>6. TxLayout' /\ LookupsAgree' /\ BlocksComplete'
    BY DEF TxLayout, LookupsAgree, BlocksComplete, LookupSound, Complete
  <1>7. QED
    BY <1>3, <1>4, <1>5, <1>6 DEF IInv

\* The commit of put_block stores one whole block.
LEMMA PutCommit ==
    ASSUME IInv, NEW t \in Threads, put_block_commit(t)
    PROVE  IInv' /\ blk[t] \in Blocks /\ db' = Ledger!ApplyPut(db, blk[t])
  <1> DEFINE e == Ledger!ApplyPut(db, blk[t])
  <1>1. TypeOK /\ Locks /\ Frame(t) /\ Shape(t)
    BY DEF IInv, Frames, ViewShape
  <1>2. pc[t] = "put_commit" /\ db' = view /\ Return(t, "SUCCESS") /\ fulls' = fulls
    BY DEF put_block_commit
  <1>3. blk[t] \in Blocks /\ view = e
    BY <1>1, <1>2 DEF Frame, Shape, Locked, PutSteps
  <1>4. db \in Db /\ view \in Db
    BY <1>1 DEF TypeOK
  <1>5. LookupSound(e) /\ Complete(e) /\ \A z \in Txs : e.txs[z] # None => e.txs[z][1] = z
    BY <1>3, <1>4, ApplyPutConsistent DEF IInv, TxLayout, LookupsAgree, BlocksComplete
  <1> HIDE DEF e
  <1>6. TypeOK'
    BY <1>1, <1>2, <1>4, EmptyDbType, DataAssumption
       DEF TypeOK, Return, Goto, PCs, Ops, Errors, Indexes
  <1>7. Locks'
    BY <1>1, <1>2, StorageAssumption
       DEF TypeOK, Locks, Return, Goto, WriteSteps, PutSteps, DelSteps, Locked
  <1>8. Frame(t)' /\ Right(t)' /\ pc'[t] \notin WriteSteps
    BY <1>1, <1>2 DEF TypeOK, Frame, Right, Return, Goto, WriteSteps, Locked, PutSteps,
       DelSteps, GetSteps
  <1>9. \A u \in Threads \ {t} : Same(u)
    BY <1>1, <1>2 DEF TypeOK, Same, Return, Goto
  <1>10. pc[t] \in WriteSteps
    BY <1>2 DEF WriteSteps, PutSteps
  <1>11. LookupSound(db') /\ Complete(db') /\ \A z \in Txs : db'.txs[z] # None => db'.txs[z][1] = z
    BY <1>2, <1>3, <1>5
  <1>12. IInv'
    BY <1>6, <1>7, <1>8, <1>9, <1>10, <1>11, CommitStep
  <1>13. QED
    BY <1>2, <1>3, <1>12 DEF e

\* The commit of del_block unlinks one block, of an index above rewind's
\* target.
LEMMA DelCommit ==
    ASSUME IInv, NEW t \in Threads, del_block_commit(t)
    PROVE  /\ IInv'
           /\ blk[t] \in Blocks /\ Index[blk[t]] > target[t]
           /\ can_del_timestamp(db, blk[t]) /\ can_del_index(db, blk[t])
           /\ can_del_body(db, blk[t])
           /\ db' = Ledger!ApplyUnlink(db, blk[t])
  <1> DEFINE e == Ledger!ApplyUnlink(db, blk[t])
  <1>1. TypeOK /\ Locks /\ Frame(t) /\ Right(t) /\ Shape(t)
    BY DEF IInv, Frames, RightBlock, ViewShape
  <1>2. /\ pc[t] = "del_commit" /\ db' = view /\ writer' = None /\ view' = EmptyDb
        /\ i' = [i EXCEPT ![t] = @ - 1]
        /\ blk' = [blk EXCEPT ![t] = None]
        /\ k' = [k EXCEPT ![t] = 1]
        /\ loaded' = [loaded EXCEPT ![t] = <<>>]
        /\ pc' = [pc EXCEPT ![t] = "loop"]
        /\ UNCHANGED <<write_mutex, op, target, ret, fulls>>
    BY DEF del_block_commit, Goto
  <1>3. /\ blk[t] \in Blocks /\ Index[blk[t]] = i[t] /\ i[t] > target[t] /\ op[t] = "rewind"
        /\ view = e
        /\ can_del_timestamp(db, blk[t]) /\ can_del_index(db, blk[t])
        /\ can_del_body(db, blk[t])
    BY <1>1, <1>2 DEF Frame, Right, Shape, DelSteps
  <1>4. db \in Db /\ view \in Db
    BY <1>1 DEF TypeOK
  <1>5. LookupSound(e) /\ Complete(e)
    BY <1>3, <1>4, ApplyUnlinkConsistent DEF IInv, LookupsAgree, BlocksComplete
  <1>6. e.txs = db.txs
    BY <1>3, <1>4, ApplyUnlinkFields
  <1>7. \A z \in Txs : e.txs[z] # None => e.txs[z][1] = z
    BY <1>6 DEF IInv, TxLayout
  <1> HIDE DEF e
  <1>8. i[t] - 1 \in Indexes
    BY <1>1, <1>3, DataAssumption DEF TypeOK, Indexes
  <1>9. TypeOK'
    BY <1>1, <1>2, <1>4, <1>8, EmptyDbType DEF TypeOK, PCs
  <1>10. Locks'
    BY <1>1, <1>2, StorageAssumption
       DEF TypeOK, Locks, WriteSteps, PutSteps, DelSteps, Locked
  <1>11. Frame(t)' /\ Right(t)' /\ pc'[t] \notin WriteSteps
    BY <1>1, <1>2, <1>3 DEF TypeOK, Frame, Right, WriteSteps, Locked, PutSteps, DelSteps,
       GetSteps
  <1>12. \A u \in Threads \ {t} : Same(u)
    BY <1>1, <1>2 DEF TypeOK, Same
  <1>13. pc[t] \in WriteSteps
    BY <1>2 DEF WriteSteps, DelSteps
  <1>14. LookupSound(db') /\ Complete(db') /\ \A z \in Txs : db'.txs[z] # None => db'.txs[z][1] = z
    BY <1>2, <1>3, <1>5, <1>7
  <1>15. IInv'
    BY <1>9, <1>10, <1>11, <1>12, <1>13, <1>14, CommitStep
  <1>16. QED
    BY <1>2, <1>3, <1>15 DEF e

\* A crash loses every call and keeps what is committed.
LEMMA CrashStep ==
    ASSUME IInv, crash
    PROVE  IInv' /\ db' = db
  <1> USE DEF crash
  <1>1. TypeOK
    BY DEF IInv
  <1>2. TypeOK'
    BY <1>1, EmptyDbType, DataAssumption DEF TypeOK, PCs, Ops, Errors, Indexes
  <1>3. Locks'
    BY StorageAssumption DEF Locks, WriteSteps, PutSteps, DelSteps, Locked
  <1>4. Frames' /\ RightBlock' /\ ViewShape'
    BY DEF Frames, Frame, RightBlock, Right, ViewShape, Shape, Locked, PutSteps, DelSteps,
       GetSteps
  <1>5. TxLayout' /\ LookupsAgree' /\ BlocksComplete'
    BY DEF IInv, TxLayout, LookupsAgree, BlocksComplete, LookupSound, Complete
  <1>6. QED
    BY <1>2, <1>3, <1>4, <1>5 DEF IInv

\* Every step keeps the invariant; one that changes the committed databases is
\* the commit of a put_block or of a del_block.
LEMMA NextIInv ==
    ASSUME IInv, [Next]_vars
    PROVE  /\ IInv'
           /\ \/ db' = db
              \/ \E t \in Threads : put_block_commit(t) \/ del_block_commit(t)
  <1>1. CASE UNCHANGED vars
    <2> USE <1>1 DEF vars, locals
    <2>1. TypeOK'
      BY DEF IInv, TypeOK
    <2>2. Locks'
      BY DEF IInv, Locks
    <2>3. \A u \in Threads : Frame(u)' /\ Right(u)' /\ Shape(u)'
      BY Others DEF Same
    <2>4. Frames' /\ RightBlock' /\ ViewShape'
      BY <2>3 DEF Frames, RightBlock, ViewShape
    <2>5. TxLayout' /\ LookupsAgree' /\ BlocksComplete'
      BY DEF IInv, TxLayout, LookupsAgree, BlocksComplete, LookupSound, Complete
    <2>6. QED
      BY <2>1, <2>2, <2>4, <2>5 DEF IInv
  <1>2. CASE crash
    BY <1>2, CrashStep
  <1>3. ASSUME NEW t \in Threads, call(t)
        PROVE  IInv' /\ db' = db
    <2>1. ASSUME NEW b \in Blocks, NEW v \in TxVectors, put_block_mismatch(t, b, v)
          PROVE  IInv' /\ db' = db
      BY <2>1, ReturnStep DEF put_block_mismatch, Errors
    <2>2. ASSUME NEW b \in Blocks, NEW v \in TxVectors, put_block_order(t, b, v)
          PROVE  IInv' /\ db' = db
      BY <2>2, ReturnStep DEF put_block_order, Errors
    <2>3. ASSUME NEW b \in Blocks, NEW v \in TxVectors, put_block_call(t, b, v)
          PROVE  IInv' /\ db' = db
      BY <2>3, MoveStep DEF put_block_call
    <2>4. ASSUME NEW n \in Indexes, get_block_call(t, n) \/ rewind_call(t, n)
          PROVE  IInv' /\ db' = db
      BY <2>4, MoveStep DEF get_block_call, rewind_call
    <2>5. ASSUME NEW n \in Indexes, rewind_missing(t, n)
          PROVE  IInv' /\ db' = db
      BY <2>5, ReturnStep DEF rewind_missing, Errors
    <2>6. QED
      BY <1>3, <2>1, <2>2, <2>3, <2>4, <2>5 DEF call
  <1>4. ASSUME NEW t \in Threads, step(t)
        PROVE  IInv' /\ (db' = db \/ put_block_commit(t) \/ del_block_commit(t))
    <2>1. CASE put_block_lock(t) \/ expand(t) \/ rewind_count(t)
      BY <2>1, MoveStep DEF put_block_lock, expand, rewind_count
    <2>2. CASE \/ get_block_index(t) \/ get_block_body(t) \/ get_block_txs(t)
               \/ get_block_done(t) \/ rewind_loop(t)
      BY <2>2, ReadStep DEF get_block_index, get_block_body, get_block_txs, get_block_done,
         rewind_loop
    <2>3. CASE put_block_begin(t) \/ del_block_begin(t)
      BY <2>3, BeginStep DEF put_block_begin, del_block_begin
    <2>4. CASE \/ put_block_reward(t) \/ put_block_txs(t) \/ put_block_txs_done(t)
               \/ put_block_block(t) \/ put_block_indexes(t) \/ put_block_timestamps(t)
      BY <2>4, PutStep DEF put_block_reward, put_block_txs, put_block_txs_done,
         put_block_block, put_block_indexes, put_block_timestamps, WriteStep
    <2>5. CASE \/ del_block_txs(t) \/ del_block_txs_done(t) \/ del_block_timestamp(t)
               \/ del_block_index(t) \/ del_block_body(t) \/ del_block_not_found(t)
      BY <2>5, DelStepLemma DEF del_block_txs, del_block_txs_done, del_block_timestamp,
         del_block_index, del_block_body, del_block_not_found, WriteStep
    <2>6. CASE map_full(t)
      BY <2>6, MapFullStep DEF map_full
    <2>7. CASE expand_failed(t) \/ write_error(t)
      BY <2>7, ReturnStep DEF expand_failed, write_error, Errors
    <2>8. CASE put_block_commit(t)
      BY <2>8, PutCommit
    <2>9. CASE del_block_commit(t)
      BY <2>9, DelCommit
    <2>10. QED
      BY <1>4, <2>1, <2>2, <2>3, <2>4, <2>5, <2>6, <2>7, <2>8, <2>9 DEF step
  <1>5. QED
    BY <1>1, <1>2, <1>3, <1>4 DEF Next

-----------------------------------------------------------------------------
(* The theorems. *)

\* IInv is an invariant of the storage.
THEOREM Invariance == Spec => []IInv
  <1>1. IInv /\ [Next]_vars => IInv'
    BY NextIInv
  <1>2. QED
    BY InitIInv, <1>1, PTL DEF Spec

\* Every variable stays in its type, in particular the index rewind works on
\* never leaves the range of stored indexes.
THEOREM TypeCorrect == Spec => []TypeOK
  <1>1. IInv => TypeOK
    BY DEF IInv
  <1>2. QED
    BY <1>1, Invariance, PTL

\* Index and timestamp entries always name stored blocks that have that index
\* or timestamp, for any number of threads and any fork.
THEOREM LookupsAlwaysAgree == Spec => []LookupsAgree
  <1>1. IInv => LookupsAgree
    BY DEF IInv
  <1>2. QED
    BY <1>1, Invariance, PTL

\* A stored block always comes with its transactions, key images and outputs.
THEOREM BlocksAlwaysComplete == Spec => []BlocksComplete
  <1>1. IInv => BlocksComplete
    BY DEF IInv
  <1>2. QED
    BY <1>1, Invariance, PTL

\* get_block and del_block always work on a block of the index asked for.
THEOREM AlwaysRightBlock == Spec => []RightBlock
  <1>1. IInv => RightBlock
    BY DEF IInv
  <1>2. QED
    BY <1>1, Invariance, PTL

\* A rewind never touches the blocks up to its target.
THEOREM RewindSafe == Spec => RewindKeepsPrefix
  <1> DEFINE A == \A t \in Threads : del_block_commit(t) =>
                     /\ \A n \in 0 .. target[t] : db'.indexes[n] = db.indexes[n]
                     /\ \A b \in db.blocks : Index[b] <= target[t] => b \in db'.blocks
  <1>1. IInv /\ [Next]_vars => [A]_vars
    <2> SUFFICES ASSUME IInv, NEW t \in Threads, del_block_commit(t)
                 PROVE  /\ \A n \in 0 .. target[t] : db'.indexes[n] = db.indexes[n]
                        /\ \A b \in db.blocks : Index[b] <= target[t] => b \in db'.blocks
      OBVIOUS
    <2>1. TypeOK
      BY DEF IInv
    <2>2. /\ blk[t] \in Blocks /\ Index[blk[t]] > target[t]
          /\ db' = Ledger!ApplyUnlink(db, blk[t])
      BY DelCommit
    <2>3. /\ db'.blocks = db.blocks \ {blk[t]}
          /\ db'.indexes = [db.indexes EXCEPT ![Index[blk[t]]] = None]
      BY <2>1, <2>2, ApplyUnlinkFields DEF TypeOK
    <2>4. /\ target[t] \in Indexes /\ Index[blk[t]] \in Indexes
          /\ db.indexes \in [Indexes -> Blocks \cup {None}] /\ db.blocks \subseteq Blocks
      BY <2>1, <2>2, DataAssumption DEF TypeOK, Db, Indexes
    <2>5. \A n \in 0 .. target[t] : n \in Indexes /\ n # Index[blk[t]]
      BY <2>2, <2>4, DataAssumption DEF Indexes
    <2>6. \A n \in 0 .. target[t] : db'.indexes[n] = db.indexes[n]
      BY <2>3, <2>4, <2>5
    <2>7. \A b \in db.blocks : Index[b] <= target[t] => b \in db'.blocks
      BY <2>2, <2>3, <2>4, DataAssumption DEF Indexes
    <2>8. QED
      BY <2>6, <2>7
  <1>2. QED
    BY <1>1, Invariance, PTL DEF Spec, RewindKeepsPrefix

\* The storage implements LedgerStore: its committed databases change by the
\* whole effect of one put_block or of one del_block only.
THEOREM Implements == Spec => WholeCalls
  <1>1. Init => Ledger!Init
    BY DEF Init, Ledger!Init, EmptyDb, Ledger!EmptyDb, Indexes, Ledger!Indexes
  <1>2. IInv /\ [Next]_vars => [Ledger!Next]_db
    <2> SUFFICES ASSUME IInv, [Next]_vars
                 PROVE  [Ledger!Next]_db
      OBVIOUS
    <2>1. CASE db' = db
      BY <2>1
    <2>2. ASSUME NEW t \in Threads, put_block_commit(t)
          PROVE  Ledger!Next
      BY <2>2, PutCommit DEF Ledger!Next, Ledger!Put
    <2>3. ASSUME NEW t \in Threads, del_block_commit(t)
          PROVE  Ledger!Next
      BY <2>3, DelCommit DEF Ledger!Next, Ledger!Unlink, Ledger!can_del_timestamp,
         Ledger!can_del_index, Ledger!can_del_body, can_del_timestamp, can_del_index,
         can_del_body
    <2>4. QED
      BY <2>1, <2>2, <2>3, NextIInv
  <1>3. QED
    BY <1>1, <1>2, Invariance, PTL DEF Spec, WholeCalls, Ledger!Spec
=============================================================================
