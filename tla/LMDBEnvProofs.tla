---------------------------- MODULE LMDBEnvProofs ----------------------------
(****************************************************************************)
(* LMDBEnv's invariants for every number of threads and every size of map.  *)
(****************************************************************************)
EXTENDS LMDBEnv, FiniteSetTheorems, TLAPS

\* Everything IInv is about, except the count of the registered transactions
Core == TypeOK /\ WriterIsOpen /\ CommitFits

\* The registered transactions
Open == {t \in Threads : pc[t] \in Counted}

\* A step of thread t that neither registers nor unregisters a transaction
\* leaves the set of the registered ones alone.
LEMMA SameOpen ==
    ASSUME TypeOK, NEW t \in Threads, NEW l, Goto(t, l),
           pc[t] \in Counted <=> l \in Counted
    PROVE  Open' = Open
<1>1. \A u \in Threads : pc'[u] \in Counted <=> pc[u] \in Counted
  BY DEF Goto, TypeOK
<1> QED BY <1>1 DEF Open

\* transaction_register adds the thread to the registered ones.
LEMMA OneMore ==
    ASSUME TypeOK, NEW t \in Threads, transaction_register(t), CountExact
    PROVE  CountExact'
<1>1. Open' = Open \cup {t} /\ t \notin Open
  BY DEF transaction_register, Goto, TypeOK, Open, Counted
<1>2. IsFiniteSet(Open)
  BY EnvAssumption, FS_Subset DEF Open
<1>3. Cardinality(Open') = Cardinality(Open) + 1
  BY <1>1, <1>2, FS_AddElement
<1> QED BY <1>3 DEF transaction_register, CountExact, Open

\* transaction_unregister takes the thread away; its guard m_open_txns > 0
\* never holds the count back.
LEMMA OneLess ==
    ASSUME TypeOK, NEW t \in Threads, transaction_unregister(t), CountExact
    PROVE  CountExact'
<1>1. Open' = Open \ {t} /\ t \in Open
  BY DEF transaction_unregister, Return, Goto, TypeOK, Open, Counted
<1>2. IsFiniteSet(Open)
  BY EnvAssumption, FS_Subset DEF Open
<1>3. Cardinality(Open') = Cardinality(Open) - 1
  BY <1>1, <1>2, FS_RemoveElement
<1>4. Cardinality(Open) > 0
  BY <1>1, <1>2, FS_EmptySet, FS_CardinalityType
<1> QED BY <1>3, <1>4 DEF transaction_unregister, CountExact, Open, TypeOK

\* Every other action leaves the count and the registered ones alone.
LEMMA CountKept ==
    ASSUME TypeOK, CountExact, UNCHANGED m_open_txns, Open' = Open
    PROVE  CountExact'
BY DEF CountExact, Open

LEMMA InitCore == Init => Core /\ CountExact
<1> SUFFICES ASSUME Init PROVE Core /\ CountExact
  OBVIOUS
<1>1. Core
  BY EnvAssumption DEF Init, Core, TypeOK, WriterIsOpen, CommitFits,
     PCs, InWrite, Counted, Ops
<1>2. Open = {}
  BY DEF Init, Open, Counted
<1>3. CountExact
  BY <1>2, FS_EmptySet DEF Init, CountExact, Open
<1> QED BY <1>1, <1>3

-----------------------------------------------------------------------------
(* Core is inductive: one step per action. *)

LEMMA CoreStep == Core /\ [Next]_vars => Core'
<1> SUFFICES ASSUME Core, [Next]_vars PROVE Core'
  OBVIOUS
<1> USE EnvAssumption DEF Core, TypeOK, WriterIsOpen, CommitFits, PCs,
    InWrite, Counted, Ops, Goto, frame
<1>1. CASE other_process
  BY <1>1 DEF other_process
<1>2. ASSUME NEW t \in Threads, NEW o \in Calls, NEW n \in 0 .. 1, call(t, o, n)
      PROVE Core'
  BY <1>2 DEF call
<1>3. ASSUME NEW t \in Threads, db_lock(t) PROVE Core'
  BY <1>3 DEF db_lock
<1>4. ASSUME NEW t \in Threads, txn_begin(t) PROVE Core'
  BY <1>4 DEF txn_begin, Unlock
<1>5. ASSUME NEW t \in Threads, txn_resized(t) PROVE Core'
  BY <1>5 DEF txn_resized, Return, Unlock
<1>6. ASSUME NEW t \in Threads, detect_map_size(t) PROVE Core'
  BY <1>6 DEF detect_map_size
<1>7. ASSUME NEW t \in Threads, detect_set(t) PROVE Core'
  BY <1>7 DEF detect_set
<1>8. ASSUME NEW t \in Threads, transaction_register(t) PROVE Core'
  BY <1>8 DEF transaction_register, Unlock
<1>9. ASSUME NEW t \in Threads, end_read(t) PROVE Core'
  BY <1>9 DEF end_read, Return, Unlock
<1>10. ASSUME NEW t \in Threads, write(t) PROVE Core'
  BY <1>10 DEF write
<1>11. ASSUME NEW t \in Threads, commit(t) PROVE Core'
  BY <1>11 DEF commit
<1>12. ASSUME NEW t \in Threads, abort(t) PROVE Core'
  BY <1>12 DEF abort
<1>13. ASSUME NEW t \in Threads, transaction_unregister(t) PROVE Core'
  BY <1>13 DEF transaction_unregister, Return, Unlock
<1>14. ASSUME NEW t \in Threads, expand(t) PROVE Core'
  BY <1>14 DEF expand
<1>15. ASSUME NEW t \in Threads, expand_set(t) PROVE Core'
  BY <1>15 DEF expand_set
<1>16. ASSUME NEW t \in Threads, try_again(t) PROVE Core'
  BY <1>16 DEF try_again, Return, Unlock
<1>17. CASE UNCHANGED vars
  BY <1>17 DEF vars
<1> QED
  BY <1>1, <1>2, <1>3, <1>4, <1>5, <1>6, <1>7, <1>8, <1>9, <1>10, <1>11, <1>12, <1>13,
     <1>14, <1>15, <1>16, <1>17 DEF Next, step

-----------------------------------------------------------------------------
(* The count *)

LEMMA CountStep == Core /\ CountExact /\ [Next]_vars => CountExact'
<1> SUFFICES ASSUME Core, CountExact, [Next]_vars PROVE CountExact'
  OBVIOUS
<1>0. TypeOK
  BY DEF Core
<1>1. ASSUME NEW t \in Threads, step(t),
             ~transaction_register(t), ~transaction_unregister(t)
      PROVE  UNCHANGED m_open_txns /\ Open' = Open
  <2>1. UNCHANGED m_open_txns
    BY <1>1 DEF step, db_lock, txn_begin, txn_resized, detect_map_size, detect_set,
       end_read, write, commit, abort, expand, expand_set, try_again
  <2>2. \E l : Goto(t, l) /\ (pc[t] \in Counted <=> l \in Counted)
    BY <1>1 DEF step, db_lock, txn_begin, txn_resized, detect_map_size, detect_set,
       end_read, write, commit, abort, expand, expand_set, try_again, Return, Counted
  <2> QED BY <1>0, <2>1, <2>2, SameOpen
<1>2. ASSUME NEW t \in Threads, NEW o \in Calls, NEW n \in 0 .. 1, call(t, o, n)
      PROVE  UNCHANGED m_open_txns /\ Open' = Open
  <2>1. \E l : Goto(t, l) /\ (pc[t] \in Counted <=> l \in Counted)
    BY <1>2 DEF call, Counted
  <2> QED BY <1>0, <1>2, <2>1, SameOpen DEF call
<1>3. CASE other_process \/ UNCHANGED vars
  BY <1>3 DEF other_process, vars, CountExact
<1> QED
  BY <1>0, <1>1, <1>2, <1>3, CountKept, OneMore, OneLess DEF Next

-----------------------------------------------------------------------------
(* Theorems *)

\* The inductive invariant of the environment holds for every number of
\* threads and every largest map.
THEOREM Invariance == Spec => []IInv
<1>1. Init => IInv
  BY InitCore DEF IInv, Core
<1>2. IInv /\ [Next]_vars => IInv'
  BY CoreStep, CountStep DEF IInv, Core
<1> QED BY <1>1, <1>2, PTL DEF Spec

\* Every variable of LMDB and LMDBTransaction keeps its type; in particular
\* the loop of txn_setup counts to 2 at most.
THEOREM TypeCorrect == Spec => []TypeOK
BY Invariance, PTL DEF IInv

\* transaction_register and transaction_unregister keep m_open_txns exact.
THEOREM CountAlwaysExact == Spec => []CountExact
BY Invariance, PTL DEF IInv

\* A write is handed the map-full error only where the map cannot grow or
\* another thread's R/W transaction is in the way: MDB_CHECK_TXN_EXPAND has
\* ended and unregistered its own transaction before it calls expand.
THEOREM AlwaysForCause == Spec => RefusedForCause
<1> DEFINE Cause(t) == \/ mapsize = MaxMap
                       \/ \E u \in Threads \ {t} : pc[u] \in InWrite \cup Counted
           Refused == \A t \in Threads :
                          pc[t] # "refused" /\ pc'[t] = "refused" => Cause(t)
<1>1. IInv /\ [Next]_vars => [Refused]_vars
  <2> SUFFICES ASSUME IInv, Next, NEW t \in Threads,
                      pc[t] # "refused", pc'[t] = "refused"
               PROVE  Cause(t)
    OBVIOUS
  <2>1. TypeOK /\ WriterIsOpen /\ CountExact
    BY DEF IInv
  <2>2. (expand(t) /\ m_open_txns # 0)
           \/ (expand_set(t) /\ (writer # None \/ mapsize = MaxMap))
    BY <2>1 DEF TypeOK, Next, step, other_process, call, db_lock, txn_begin, txn_resized,
       detect_map_size, detect_set, transaction_register, end_read, write, commit, abort,
       transaction_unregister, expand, expand_set, try_again, Return, Goto
  <2>3. CASE expand(t) /\ m_open_txns # 0
    <3>1. Open # {}
      BY <2>1, <2>3, FS_EmptySet DEF CountExact, Open
    <3>2. t \notin Open
      BY <2>3 DEF expand, Open, Counted
    <3> QED BY <3>1, <3>2 DEF Open
  <2>4. CASE expand_set(t) /\ writer # None
    <3>1. pc[t] \notin InWrite
      BY <2>4 DEF expand_set, InWrite
    <3>2. writer \in Threads /\ pc[writer] \in InWrite
      BY <2>1, <2>4 DEF TypeOK, WriterIsOpen
    <3> QED BY <3>1, <3>2
  <2> QED BY <2>2, <2>3, <2>4
<1> QED BY <1>1, Invariance, PTL DEF Spec, RefusedForCause
=============================================================================
