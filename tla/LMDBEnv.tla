------------------------------- MODULE LMDBEnv -------------------------------
(****************************************************************************)
(* Database::LMDB and Database::LMDBTransaction (src/database/db_lmdb.cpp): *)
(* threads of one process that open transactions on one environment, count  *)
(* them, and grow the memory map when a write finds it full, while another  *)
(* process may grow the file.                                               *)
(*                                                                          *)
(* The map is measured in units of the growth factor.  LMDB itself (the     *)
(* writer lock, MDB_MAP_RESIZED, MDB_MAP_FULL, mdb_env_set_mapsize) is      *)
(* modelled from how the code uses it.                                      *)
(****************************************************************************)
EXTENDS Integers, FiniteSets

CONSTANTS
    Threads,       \* threads of this process
    None,          \* nobody holds a lock
    Calls,         \* the calls the threads make, of Ops
    MaxMap         \* bound: the largest map the system grants

\* put: LMDBDatabase::put and del; env: LMDB::transaction, a transaction a
\* component keeps open; get: a read
Ops == {"put", "env", "drop", "get"}

ASSUME EnvAssumption ==
    /\ IsFiniteSet(Threads)
    /\ None \notin Threads
    /\ Calls \subseteq Ops
    /\ MaxMap \in Nat \ {0}

VARIABLES
    mapsize,       \* this process' map
    filesize,      \* the map size recorded in the file
    used,          \* the last page in use, counting other processes
    writer,        \* who has LMDB's writer lock
    m_open_txns,   \* LMDB::m_open_txns
    m_mutex,       \* LMDB::m_mutex
    m_db_mutex,    \* LMDBDatabase::m_db_mutex
    pc, op,
    need,          \* pages the call's write needs
    attempt        \* i of the loop in txn_setup

vars == <<mapsize, filesize, used, writer, m_open_txns, m_mutex, m_db_mutex, pc, op, need,
          attempt>>
frame == <<op, need>>

\* Where LMDB has a R/W transaction of the thread open
InWrite == {"register", "write", "commit", "abort", "fail"}

\* Where the thread's R/W transaction is counted in m_open_txns
Counted == {"write", "commit", "abort", "fail", "committed", "aborted", "failed"}

PCs == {"idle", "db_lock", "begin", "detect", "detect_set", "reading", "expand",
        "expand_set", "expanded", "refused"} \cup InWrite \cup Counted

Init ==
    /\ mapsize = 1 /\ filesize = 1 /\ used = 0
    /\ writer = None /\ m_open_txns = 0 /\ m_mutex = None /\ m_db_mutex = None
    /\ pc = [t \in Threads |-> "idle"]
    /\ op = [t \in Threads |-> "none"]
    /\ need = [t \in Threads |-> 0]
    /\ attempt = [t \in Threads |-> 0]

Goto(t, l) == pc' = [pc EXCEPT ![t] = l]

Unlock(t) == m_db_mutex' = IF m_db_mutex = t THEN None ELSE m_db_mutex

Return(t) ==
    /\ Goto(t, "idle")
    /\ op' = [op EXCEPT ![t] = "none"]
    /\ need' = [need EXCEPT ![t] = 0]
    /\ attempt' = [attempt EXCEPT ![t] = 0]
    /\ Unlock(t)

\* LMDBDatabase::transaction, put, del and drop take m_db_mutex first;
\* LMDB::transaction does not
call(t, o, n) ==
    /\ pc[t] = "idle"
    /\ op' = [op EXCEPT ![t] = o]
    /\ need' = [need EXCEPT ![t] = n]
    /\ Goto(t, IF o = "env" THEN "begin" ELSE "db_lock")
    /\ UNCHANGED <<mapsize, filesize, used, writer, m_open_txns, m_mutex, m_db_mutex, attempt>>

db_lock(t) ==
    /\ pc[t] = "db_lock"
    /\ m_db_mutex = None
    /\ m_db_mutex' = t
    /\ Goto(t, "begin")
    /\ UNCHANGED <<mapsize, filesize, used, writer, m_open_txns, m_mutex, frame, attempt>>

-----------------------------------------------------------------------------
(* txn_setup *)

Readonly(t) == op[t] = "get"

\* mdb_txn_begin; a writer waits for the writer lock and is registered later
txn_begin(t) ==
    /\ pc[t] = "begin"
    /\ used <= mapsize
    /\ \/ /\ Readonly(t)
          /\ Goto(t, "reading")
          /\ Unlock(t)
          /\ UNCHANGED writer
       \/ /\ ~Readonly(t)
          /\ writer = None
          /\ writer' = t
          /\ Goto(t, "register")
          /\ UNCHANGED m_db_mutex
    /\ attempt' = [attempt EXCEPT ![t] = 0]
    /\ UNCHANGED <<mapsize, filesize, used, m_open_txns, m_mutex, frame>>

\* Mutant: the last try detects the map size again
txn_resized_four(t) ==
    /\ pc[t] = "begin"
    /\ used > mapsize
    /\ Readonly(t) \/ writer = None
    /\ attempt' = [attempt EXCEPT ![t] = @ + 1]
    /\ Goto(t, "detect")
    /\ UNCHANGED <<mapsize, filesize, used, writer, m_open_txns, m_mutex, frame, m_db_mutex>>

\* MDB_MAP_RESIZED: another process' data lies beyond this process' map
txn_resized(t) ==
    /\ pc[t] = "begin"
    /\ used > mapsize
    /\ Readonly(t) \/ writer = None
    /\ \/ /\ attempt[t] < 2
          /\ attempt' = [attempt EXCEPT ![t] = @ + 1]
          /\ Goto(t, "detect")
          /\ UNCHANGED <<frame, m_db_mutex>>
       \/ /\ attempt[t] = 2         \* throws std::runtime_error
          /\ Return(t)
    /\ UNCHANGED <<mapsize, filesize, used, writer, m_open_txns, m_mutex>>

\* detect_map_size: refused while transactions are counted, the caller of
\* detect_map_size ignores the refusal
detect_map_size(t) ==
    /\ pc[t] = "detect"
    /\ m_mutex = None
    /\ \/ /\ m_open_txns # 0
          /\ Goto(t, "begin")
          /\ UNCHANGED m_mutex
       \/ /\ m_open_txns = 0
          /\ m_mutex' = t
          /\ Goto(t, "detect_set")
    /\ UNCHANGED <<mapsize, filesize, used, writer, m_open_txns, m_db_mutex, frame, attempt>>

\* mdb_env_set_mapsize(0) takes the file's size; LMDB refuses it (EINVAL)
\* while a R/W transaction of this process is open
detect_set(t) ==
    /\ pc[t] = "detect_set"
    /\ mapsize' = IF writer = None THEN filesize ELSE mapsize
    /\ m_mutex' = None
    /\ Goto(t, "begin")
    /\ UNCHANGED <<filesize, used, writer, m_open_txns, m_db_mutex, frame, attempt>>

\* LMDBDatabase::transaction returns and releases m_db_mutex; drop keeps it
transaction_register(t) ==
    /\ pc[t] = "register"
    /\ m_open_txns' = m_open_txns + 1
    /\ Goto(t, "write")
    /\ IF op[t] = "drop" THEN UNCHANGED m_db_mutex ELSE Unlock(t)
    /\ UNCHANGED <<mapsize, filesize, used, writer, m_mutex, frame, attempt>>

-----------------------------------------------------------------------------
(* The transaction *)

end_read(t) ==
    /\ pc[t] = "reading"
    /\ Return(t)
    /\ UNCHANGED <<mapsize, filesize, used, writer, m_open_txns, m_mutex>>

\* The writes fit, or one of them (or the commit, which then aborts as well)
\* finds the map full, or fails in another way.  LMDB refuses the commit of a
\* transaction in which a write failed; the code does not try it.
write(t) ==
    /\ pc[t] = "write"
    /\ \/ used + need[t] <= mapsize /\ Goto(t, "commit")
       \/ used + need[t] > mapsize /\ Goto(t, "abort")
       \/ Goto(t, "fail")
    /\ UNCHANGED <<mapsize, filesize, used, writer, m_open_txns, m_mutex, m_db_mutex, frame,
                   attempt>>

\* commit: LMDB releases the writer lock first, the count follows
commit(t) ==
    /\ pc[t] = "commit"
    /\ used' = used + need[t]
    /\ filesize' = IF filesize < mapsize THEN mapsize ELSE filesize
    /\ writer' = None
    /\ Goto(t, "committed")
    /\ UNCHANGED <<mapsize, m_open_txns, m_mutex, m_db_mutex, frame, attempt>>

\* abort, by MDB_CHECK_TXN_EXPAND or, after another error, by the destructor
abort(t) ==
    /\ pc[t] \in {"abort", "fail"}
    /\ writer' = None
    /\ Goto(t, IF pc[t] = "abort" THEN "aborted" ELSE "failed")
    /\ UNCHANGED <<mapsize, filesize, used, m_open_txns, m_mutex, m_db_mutex, frame, attempt>>

\* Mutant: an aborted transaction stays registered
transaction_unregister_commits(t) ==
    /\ pc[t] \in {"committed", "aborted", "failed"}
    /\ m_open_txns' = IF pc[t] = "committed" THEN m_open_txns - 1 ELSE m_open_txns
    /\ \/ pc[t] # "aborted" /\ Return(t)
       \/ /\ pc[t] = "aborted"
          /\ Goto(t, "expand")
          /\ UNCHANGED <<m_db_mutex, frame, attempt>>
    /\ UNCHANGED <<mapsize, filesize, used, writer, m_mutex>>

\* transaction_unregister, then the call returns or asks for a larger map
transaction_unregister(t) ==
    /\ pc[t] \in {"committed", "aborted", "failed"}
    /\ m_open_txns' = IF m_open_txns > 0 THEN m_open_txns - 1 ELSE m_open_txns
    /\ \/ pc[t] # "aborted" /\ Return(t)
       \/ /\ pc[t] = "aborted"
          /\ Goto(t, "expand")
          /\ UNCHANGED <<m_db_mutex, frame, attempt>>
    /\ UNCHANGED <<mapsize, filesize, used, writer, m_mutex>>

-----------------------------------------------------------------------------
(* expand *)

\* Mutant: the early return leaves m_mutex locked
expand_locked(t) ==
    /\ pc[t] = "expand"
    /\ m_mutex = None
    /\ m_mutex' = t
    /\ Goto(t, IF m_open_txns # 0 THEN "refused" ELSE "expand_set")
    /\ UNCHANGED <<mapsize, filesize, used, writer, m_open_txns, m_db_mutex, frame, attempt>>

\* Mutant: a m_mutex that another thread holds is not waited for
expand_try_lock(t) ==
    /\ pc[t] = "expand"
    /\ \/ /\ m_open_txns # 0 \/ m_mutex # None
          /\ Goto(t, "refused")
          /\ UNCHANGED m_mutex
       \/ /\ m_open_txns = 0 /\ m_mutex = None
          /\ m_mutex' = t
          /\ Goto(t, "expand_set")
    /\ UNCHANGED <<mapsize, filesize, used, writer, m_open_txns, m_db_mutex, frame, attempt>>

\* LMDB::expand: refused while transactions are counted
expand(t) ==
    /\ pc[t] = "expand"
    /\ m_mutex = None
    /\ \/ /\ m_open_txns # 0
          /\ Goto(t, "refused")
          /\ UNCHANGED m_mutex
       \/ /\ m_open_txns = 0
          /\ m_mutex' = t
          /\ Goto(t, "expand_set")
    /\ UNCHANGED <<mapsize, filesize, used, writer, m_open_txns, m_db_mutex, frame, attempt>>

\* mdb_env_set_mapsize: EINVAL while a R/W transaction is open, ENOMEM at the
\* end of the address space
expand_set(t) ==
    /\ pc[t] = "expand_set"
    /\ m_mutex' = None
    /\ \/ /\ writer = None /\ mapsize < MaxMap
          /\ mapsize' = mapsize + 1
          /\ Goto(t, "expanded")
       \/ /\ writer # None \/ mapsize = MaxMap
          /\ Goto(t, "refused")
          /\ UNCHANGED mapsize
    /\ UNCHANGED <<filesize, used, writer, m_open_txns, m_db_mutex, frame, attempt>>

\* MDB_CHECK_TXN_EXPAND: try again if the map has grown, else return the
\* write's error; drop tries again in any case
try_again(t) ==
    /\ pc[t] \in {"expanded", "refused"}
    /\ \/ /\ op[t] \in {"env", "drop"}
          /\ pc[t] = "expanded" \/ op[t] = "drop"
          /\ Goto(t, "begin")
          /\ UNCHANGED <<m_db_mutex, frame, attempt>>
       \/ /\ op[t] = "put" /\ pc[t] = "expanded"
          /\ Goto(t, "db_lock")
          /\ UNCHANGED <<m_db_mutex, frame, attempt>>
       \/ /\ op[t] # "drop" /\ pc[t] = "refused"
          /\ Return(t)
    /\ UNCHANGED <<mapsize, filesize, used, writer, m_open_txns, m_mutex>>

-----------------------------------------------------------------------------
\* Another process writes: it needs the writer lock too, and may grow the file
other_process ==
    /\ writer = None
    /\ filesize < MaxMap
    /\ filesize' = filesize + 1
    /\ used' = filesize + 1
    /\ UNCHANGED <<mapsize, writer, m_open_txns, m_mutex, m_db_mutex, pc, frame, attempt>>

step(t) ==
    \/ db_lock(t) \/ txn_begin(t) \/ txn_resized(t) \/ detect_map_size(t) \/ detect_set(t)
    \/ transaction_register(t) \/ end_read(t) \/ write(t) \/ commit(t) \/ abort(t)
    \/ transaction_unregister(t) \/ expand(t) \/ expand_set(t) \/ try_again(t)

Next ==
    \/ other_process
    \/ \E t \in Threads : step(t) \/ \E o \in Calls, n \in 0 .. 1 : call(t, o, n)

Spec == Init /\ [][Next]_vars

\* A thread inside a call keeps running and is not starved of a lock that is
\* free again and again
Fairness ==
    \A t \in Threads : /\ WF_vars(step(t))
                       /\ SF_vars(txn_begin(t)) /\ SF_vars(db_lock(t))
                       /\ SF_vars(detect_map_size(t)) /\ SF_vars(expand(t))
FairSpec == Spec /\ Fairness

-----------------------------------------------------------------------------
(* Properties *)

\* Every variable stays in its type.
TypeOK ==
    /\ mapsize \in 1 .. MaxMap /\ filesize \in 1 .. MaxMap /\ used \in 0 .. MaxMap
    /\ writer \in Threads \cup {None} /\ m_mutex \in Threads \cup {None}
    /\ m_db_mutex \in Threads \cup {None}
    /\ m_open_txns \in Nat
    /\ pc \in [Threads -> PCs] /\ op \in [Threads -> Ops \cup {"none"}]
    /\ need \in [Threads -> 0 .. 1] /\ attempt \in [Threads -> 0 .. 2]

\* m_open_txns is the number of R/W transactions that are registered and not
\* yet unregistered, whatever the retries and failures: it neither drifts up,
\* which would refuse every later expand, nor is it ever held at zero by the
\* guard in transaction_unregister.
CountExact ==
    m_open_txns = Cardinality({t \in Threads : pc[t] \in Counted})

\* A write gets LMDB's map-full error only for a reason: the map cannot grow
\* any more, or another thread has a R/W transaction open or registered.  The
\* thread's own transaction, which met the full map, never stands in the way
\* of its expand, nor does one that has returned, nor a reader or another
\* thread's expand or detect_map_size.
RefusedForCause ==
    [][\A t \in Threads : pc[t] # "refused" /\ pc'[t] = "refused" =>
          \/ mapsize = MaxMap
          \/ \E u \in Threads \ {t} : pc[u] \in InWrite \cup Counted]_vars

-----------------------------------------------------------------------------
(* The inductive invariant behind CountExact and RefusedForCause.           *)

\* LMDB's writer lock is held exactly while a R/W transaction is open
WriterIsOpen == \A t \in Threads : pc[t] \in InWrite <=> writer = t

\* What fitted the map when it was written still fits at the commit
CommitFits == \A t \in Threads : pc[t] = "commit" => used + need[t] <= mapsize

IInv == TypeOK /\ WriterIsOpen /\ CommitFits /\ CountExact

-----------------------------------------------------------------------------
\* Where no drop runs, every put, del, read and environment transaction comes
\* to an end: no order of m_mutex, m_db_mutex and the writer lock blocks a
\* thread, and the retry loop ends.
WritersReturn ==
    [](\A t \in Threads : op[t] # "drop") =>
        \A t \in Threads : op[t] # "none" ~> op[t] = "none"
=============================================================================
