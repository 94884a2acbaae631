----------------------------- MODULE PeerDBProofs -----------------------------
(***************************************************************************)
(* PeerDB's safety for any number of threads, processes, objects, peers    *)
(* and times.  IInv says what each place of the code has in hand (Hands),  *)
(* that instance() works when calls do not overlap (Alone, SameId), and    *)
(* how the list may differ from prune's snapshot of it (Snapshots).        *)
(***************************************************************************)
EXTENDS PeerDB, TLAPS

\* What a place of the code has in hand: the object it constructs, the node's
\* object, the entry the poller adds
Hands ==
    \A t \in Threads :
        /\ pc[t] \in {"ctor_put", "insert", "drop"} => ptr[t] \in Objects
        /\ pc[t] \in {"ready"} \cup InPrune => m_peer_db[t] # None
        /\ poll[t].pc # "idle" => poll[t].id \in Ids

\* Without overlapping calls one thread at a time is in instance(), the map is
\* empty while it constructs and holds its object afterwards, and no destructor
\* runs
Alone ==
    ~overlapped =>
        /\ \A t, u \in Threads : pc[t] \in InInstance /\ pc[u] \in InInstance => t = u
        /\ \A t \in Threads :
             /\ pc[t] \notin {"dtor", "erase", "free", "freeing", "thrown", "stuck"}
             /\ pc[t] \in {"ctor_get", "ctor_put", "insert"} => instances = None
             /\ pc[t] = "drop" => ptr[t] = instances
             /\ pc[t] = "at" => instances # None
             /\ m_peer_db[t] \in {None, instances}

\* ... and the object in the map, or on its way there, goes by the stored id,
\* unless a constructor could not read it
SameId ==
    ~overlapped /\ ~misread /\ local # None =>
        /\ instances # None => m_peer_id[instances] = local
        /\ \A t \in Threads : pc[t] \in {"ctor_put", "insert"} => m_peer_id[ptr[t]] = local

\* Between the snapshot and the end of prune an entry of the list is the one of
\* the snapshot, unless it was written since or its del failed; and the limit
\* is no earlier than the snapshot's
Snapshots ==
    \A t \in Threads :
        /\ pc[t] \in Snapped =>
             /\ snapped[t] \in Times /\ snapped[t] <= now
             /\ \A p \in Ids : \/ p \in written[t]
                               \/ peerlist[p] \in {Gone, all_peers[t][p]}
                               \/ p \in undeleted[t] /\ all_peers[t][p] = Gone
        /\ pc[t] = "prune_del" => snapped[t] - PruneTime <= prune_time[t]

IInv == TypeOK /\ Hands /\ Alone /\ SameId /\ Snapshots

-----------------------------------------------------------------------------

\* The times of entries are integers above Gone, and every clock value is one.
LEMMA TimeFacts ==
    /\ Gone \in Int /\ Gone \notin Times /\ Times \subseteq Int
    /\ PruneTime \in Nat /\ MaxTime \in Nat /\ 0 \in Times
    /\ 0..MaxTime \subseteq Times
    /\ \A n \in 0..MaxTime : n - PruneTime \in Times
BY PeerDBAssumption DEF Gone, Times

\* No object is None, and no peer's id is an object's number.
LEMMA ObjectFacts == None \notin Objects /\ Objects \subseteq Ids /\ Peers \subseteq Ids
BY PeerDBAssumption DEF None, Objects, Ids

LEMMA InitInv == Init => IInv
<1> SUFFICES ASSUME Init PROVE IInv
  OBVIOUS
<1>1. TypeOK
  <2>1. Idle \in Polls
    BY TimeFacts DEF Idle, Polls
  <2>2. now \in 0..MaxTime /\ made \in 0..MaxObjects /\ starts \in Nat
    BY PeerDBAssumption DEF Init
  <2> QED BY <2>1, <2>2 DEF Init, TypeOK, Nobody, PCs
<1>2. Hands /\ Alone /\ SameId /\ Snapshots
  BY DEF Init, Nobody, Idle, Hands, Alone, SameId, Snapshots, InInstance, InPrune, Snapped
<1> QED BY <1>1, <1>2 DEF IInv

\* The steps inside instance(), the destructor and ~Node change nothing that
\* prune and the poller go by.
LEMMA InstanceFrame ==
    ASSUME NEW t \in Threads, instance_step(t)
    PROVE  UNCHANGED <<now, peerlist, all_peers, prune_time, poll, starts, snapped, written,
                       undeleted>>
BY DEF instance_step, call_instance, instance, PeerDB, PeerDB_misread, Construct,
       PeerDB_put, instance_insert, instance_drop, dtor, dtor_erase, instance_at, release,
       object_vars, prune_vars

\* Prune and the poller change nothing of the objects.
LEMMA UserFrame ==
    ASSUME NEW t \in Threads, prune_step(t) \/ poll_step(t)
    PROVE  UNCHANGED <<local, instances, made, m_peer_id, ptr, m_peer_db, starts, overlapped,
                       misread>>
BY DEF prune_step, poll_step, call_prune, prune_snapshot, prune_clock, prune, prune_end,
       add_sender, add_listed, touch, touch_add, add_put, object_vars

-----------------------------------------------------------------------------
(* instance() *)

\* Every step of instance() keeps the types and what is in hand.
LEMMA InstanceTypes ==
    ASSUME IInv, NEW t \in Threads, instance_step(t)
    PROVE  TypeOK' /\ Hands'
<1> USE InstanceFrame, ObjectFacts DEF IInv, TypeOK, Hands, Goto, object_vars, prune_vars
<1>1. pc' \in [Threads -> PCs] /\ overlapped' \in BOOLEAN /\ misread' \in BOOLEAN
  BY DEF instance_step, call_instance, instance, PeerDB, PeerDB_misread, Construct,
         PeerDB_put, instance_insert, instance_drop, dtor, dtor_erase, instance_at, release,
         PCs, InInstance, InPrune
<1>2. CASE call_instance(t)
  BY <1>1, <1>2 DEF call_instance, InPrune
<1>3. CASE instance(t)
  BY <1>1, <1>3 DEF instance, InPrune
<1>4. CASE PeerDB(t) \/ PeerDB_misread(t)
  <2>1. made + 1 \in Objects /\ made' \in 0..MaxObjects
    BY <1>4, PeerDBAssumption DEF PeerDB, PeerDB_misread, Construct, Objects
  <2>2. PICK id \in Objects : Construct(t, id)
    BY <1>4, <2>1 DEF PeerDB, PeerDB_misread
  <2> QED BY <1>1, <2>1, <2>2 DEF Construct, InPrune
<1>5. CASE PeerDB_put(t)
  BY <1>1, <1>5 DEF PeerDB_put, InPrune
<1>6. CASE instance_insert(t)
  BY <1>1, <1>6 DEF instance_insert, InPrune
<1>7. CASE instance_drop(t)
  BY <1>1, <1>7 DEF instance_drop, InPrune
<1>8. CASE dtor(t)
  BY <1>1, <1>8 DEF dtor, InPrune
<1>9. CASE dtor_erase(t)
  BY <1>1, <1>9 DEF dtor_erase, InPrune
<1>10. CASE instance_at(t)
  BY <1>1, <1>10 DEF instance_at, InPrune
<1>11. CASE release(t)
  BY <1>1, <1>11 DEF release, InPrune
<1> QED BY <1>2, <1>3, <1>4, <1>5, <1>6, <1>7, <1>8, <1>9, <1>10, <1>11 DEF instance_step

\* Without overlapping calls each step of instance() finds the map as the step
\* before left it.
LEMMA InstanceAlone ==
    ASSUME IInv, NEW t \in Threads, instance_step(t), ~overlapped'
    PROVE  Alone' /\ SameId'
<1> USE ObjectFacts DEF IInv, TypeOK, Hands, Alone, SameId, Goto, object_vars, InInstance
<1>1. ~overlapped
  BY DEF instance_step, call_instance, instance, PeerDB, PeerDB_misread, Construct,
         PeerDB_put, instance_insert, instance_drop, dtor, dtor_erase, instance_at, release
<1>2. CASE call_instance(t)
  BY <1>1, <1>2 DEF call_instance
<1>3. CASE instance(t)
  BY <1>1, <1>3 DEF instance
<1>4. CASE PeerDB(t)
  <2>1. made + 1 \in Objects
    BY <1>4, PeerDBAssumption DEF PeerDB, PeerDB_misread, Construct, Objects
  <2>2. Alone'
    BY <1>1, <1>4 DEF PeerDB, PeerDB_misread, Construct
  <2>3. local # None => m_peer_id'[ptr'[t]] = local
    BY <1>4, <2>1 DEF PeerDB, PeerDB_misread, Construct
  <2>4. SameId'
    BY <1>1, <1>4, <2>3 DEF PeerDB, PeerDB_misread, Construct
  <2> QED BY <2>2, <2>4
<1>12. CASE PeerDB_misread(t)
  <2>1. Alone'
    BY <1>1, <1>12 DEF PeerDB_misread, Construct
  <2>2. SameId'
    BY <1>12 DEF PeerDB_misread
  <2> QED BY <2>1, <2>2
<1>5. CASE PeerDB_put(t)
  <2>1. Alone'
    BY <1>1, <1>5 DEF PeerDB_put
  <2>2. SameId'
    BY <1>1, <1>5 DEF PeerDB_put
  <2> QED BY <2>1, <2>2
<1>6. CASE instance_insert(t)
  BY <1>1, <1>6 DEF instance_insert
<1>7. CASE instance_drop(t)
  BY <1>1, <1>7 DEF instance_drop, Owned
<1>8. CASE dtor(t)
  BY <1>1, <1>8 DEF dtor
<1>9. CASE dtor_erase(t)
  BY <1>1, <1>9 DEF dtor_erase
<1>10. CASE instance_at(t)
  BY <1>1, <1>10 DEF instance_at
<1>11. CASE release(t)
  <2>1. m_peer_db[t] = instances
    BY <1>1, <1>11 DEF release, InPrune
  <2> QED BY <1>1, <1>11, <2>1 DEF release, Owned
<1> QED BY <1>2, <1>3, <1>4, <1>5, <1>6, <1>7, <1>8, <1>9, <1>10, <1>11, <1>12 DEF instance_step

\* No step of instance() begins or ends a prune with a snapshot.
LEMMA InstanceSnapshots ==
    ASSUME IInv, NEW t \in Threads, instance_step(t)
    PROVE  Snapshots'
<1>1. pc' \in [Threads -> PCs] /\ \A u \in Threads : pc'[u] \in Snapped => pc[u] = pc'[u]
  BY DEF instance_step, call_instance, instance, PeerDB, PeerDB_misread, Construct,
         PeerDB_put, instance_insert, instance_drop, dtor, dtor_erase, instance_at, release,
         Goto, Snapped, PCs, InInstance,
         InPrune, IInv, TypeOK
<1> QED BY <1>1, InstanceFrame DEF IInv, Snapshots, Snapped

-----------------------------------------------------------------------------
(* prune and the poller *)

\* An entry add() hands on has its type.
LEMMA AddTypes ==
    ASSUME TypeOK, Hands, NEW t \in Threads, NEW p \in Ids, NEW s \in Times, add(t, p, s)
    PROVE  /\ poll' \in [Threads -> Polls]
           /\ \A u \in Threads : poll'[u].pc # "idle" => poll'[u].id \in Ids
BY TimeFacts DEF TypeOK, Hands, add, Idle, Polls

LEMMA PollTypes ==
    ASSUME IInv, NEW t \in Threads, poll_step(t)
    PROVE  TypeOK' /\ Hands'
<1> USE UserFrame, TimeFacts, ObjectFacts DEF IInv, TypeOK, Hands, prune_vars, object_vars
<1>1. CASE add_sender(t) \/ add_listed(t) \/ touch_add(t)
  <2>1. PICK p \in Ids, s \in Times : add(t, p, s)
    <3>1. CASE add_sender(t)
      BY <3>1 DEF add_sender
    <3>2. CASE add_listed(t)
      BY <3>2, PeerDBAssumption DEF add_listed, Ids, Objects
    <3>3. CASE touch_add(t)
      BY <3>3 DEF touch_add, Polling
    <3> QED BY <1>1, <3>1, <3>2, <3>3
  <2>2. /\ poll' \in [Threads -> Polls]
        /\ \A u \in Threads : poll'[u].pc # "idle" => poll'[u].id \in Ids
    BY <2>1, AddTypes
  <2>3. UNCHANGED <<now, peerlist, pc, written, all_peers, prune_time, snapped, undeleted>>
    BY <1>1 DEF add_sender, add_listed, touch_add
  <2> QED BY <2>2, <2>3
<1>2. CASE touch(t)
  BY <1>2 DEF touch, Polls
<1>3. CASE add_put(t)
  <2>1. poll[t].id \in Ids /\ poll[t].last_seen \in Times
    BY <1>3 DEF add_put, Polling, Polls
  <2>2. Idle \in Polls /\ Idle.pc = "idle"
    BY DEF Idle, Polls
  <2>3. peerlist' \in [Ids -> Times \cup {Gone}]
    BY <1>3, <2>1 DEF add_put
  <2>4. written' \in [Threads -> SUBSET Ids]
    <3>1. \A u \in Threads : written[u] \cup {poll[t].id} \in SUBSET Ids
      BY <2>1
    <3>2. CASE UNCHANGED written
      BY <3>2
    <3>3. CASE written' = [u \in Threads |-> IF pc[u] \notin Snapped THEN written[u]
                                             ELSE written[u] \cup {poll[t].id}]
      BY <3>1, <3>3
    <3> QED BY <1>3, <3>2, <3>3 DEF add_put
  <2> QED BY <1>3, <2>2, <2>3, <2>4 DEF add_put
<1> QED BY <1>1, <1>2, <1>3 DEF poll_step

LEMMA PruneTypes ==
    ASSUME IInv, NEW t \in Threads, prune_step(t)
    PROVE  TypeOK' /\ Hands'
<1> USE UserFrame, TimeFacts DEF IInv, TypeOK, Hands, Goto, prune_vars, object_vars, PCs, InPrune
<1>1. CASE call_prune(t)
  BY <1>1 DEF call_prune
<1>2. CASE prune_snapshot(t)
  BY <1>2 DEF prune_snapshot
<1>3. CASE prune_clock(t)
  BY <1>3 DEF prune_clock
<1>4. CASE prune(t)
  <2>1. PICK p \in Ids : /\ all_peers' = [all_peers EXCEPT ![t][p] = Gone]
                         /\ \/ /\ peerlist' = [peerlist EXCEPT ![p] = Gone]
                               /\ UNCHANGED undeleted
                            \/ /\ undeleted' = [undeleted EXCEPT ![t] = @ \cup {p}]
                               /\ UNCHANGED peerlist
    BY <1>4 DEF prune, expired
  <2>2. all_peers' \in [Threads -> [Ids -> Times \cup {Gone}]]
    <3>1. [all_peers[t] EXCEPT ![p] = Gone] \in [Ids -> Times \cup {Gone}]
      OBVIOUS
    <3> QED BY <2>1, <3>1
  <2>3. peerlist' \in [Ids -> Times \cup {Gone}]
    BY <2>1
  <2>4. undeleted' \in [Threads -> SUBSET Ids]
    <3>1. undeleted[t] \cup {p} \in SUBSET Ids
      OBVIOUS
    <3>2. CASE undeleted' = [undeleted EXCEPT ![t] = @ \cup {p}]
      BY <3>1, <3>2
    <3> QED BY <2>1, <3>2
  <2>5. UNCHANGED <<now, pc, prune_time, poll, snapped, written>>
    BY <1>4 DEF prune
  <2> QED BY <2>2, <2>3, <2>4, <2>5
<1>5. CASE prune_end(t)
  BY <1>5 DEF prune_end
<1> QED BY <1>1, <1>2, <1>3, <1>4, <1>5 DEF prune_step

\* Neither touches what Alone and SameId are about.
LEMMA UserAlone ==
    ASSUME IInv, NEW t \in Threads, prune_step(t) \/ poll_step(t)
    PROVE  Alone' /\ SameId'
<1>1. /\ pc' \in [Threads -> PCs]
      /\ \A u \in Threads : pc'[u] = pc[u] \/ pc'[u] \in {"ready"} \cup InPrune
  BY DEF prune_step, poll_step, call_prune, prune_snapshot, prune_clock, prune, prune_end,
         add_sender, add_listed, touch, touch_add, add_put, Goto, PCs, InPrune, IInv, TypeOK
<1> QED BY <1>1, UserFrame DEF IInv, Alone, SameId, InInstance, InPrune

\* What the poller writes is recorded for every prune under way.
LEMMA PollSnapshots ==
    ASSUME IInv, NEW t \in Threads, poll_step(t)
    PROVE  Snapshots'
<1> USE DEF IInv, TypeOK, Snapshots, prune_vars
<1>1. CASE UNCHANGED <<peerlist, written>>
  BY <1>1 DEF poll_step, add_sender, add_listed, touch, touch_add, add_put
<1>2. CASE /\ add_put(t)
           /\ peerlist' = [peerlist EXCEPT ![poll[t].id] = poll[t].last_seen]
           /\ written' = [u \in Threads |-> IF pc[u] \notin Snapped THEN written[u]
                                            ELSE written[u] \cup {poll[t].id}]
  <2>1. UNCHANGED <<now, pc, all_peers, prune_time, snapped, undeleted>>
    BY <1>2 DEF add_put
  <2>2. \A p \in Ids : p # poll[t].id => peerlist'[p] = peerlist[p]
    BY <1>2
  <2>3. \A u \in Threads : pc[u] \in Snapped => /\ written[u] \subseteq written'[u]
                                                /\ poll[t].id \in written'[u]
    BY <1>2
  <2> QED BY <2>1, <2>2, <2>3 DEF Snapped
<1> QED BY <1>1, <1>2 DEF poll_step, add_sender, add_listed, touch, touch_add, add_put

\* The snapshot is the list at its time; del removes an entry from both, or
\* records that it failed.
LEMMA PruneSnapshots ==
    ASSUME IInv, NEW t \in Threads, prune_step(t)
    PROVE  Snapshots'
<1> USE DEF IInv, TypeOK, Snapshots, Goto, Snapped
<1>1. CASE call_prune(t)
  BY <1>1 DEF call_prune, prune_vars
<1>2. CASE prune_snapshot(t)
  <2>1. /\ snapped'[t] = now /\ all_peers'[t] = peerlist /\ pc'[t] = "prune_time"
        /\ UNCHANGED <<now, peerlist, prune_time, written, undeleted>>
        /\ \A u \in Threads \ {t} : /\ snapped'[u] = snapped[u] /\ pc'[u] = pc[u]
                                     /\ all_peers'[u] = all_peers[u]
    BY <1>2 DEF prune_snapshot
  <2>2. now \in Times /\ now <= now
    BY TimeFacts
  <2> QED BY <2>1, <2>2
<1>3. CASE prune_clock(t)
  <2>1. snapped[t] - PruneTime <= now - PruneTime
    <3>1. snapped[t] \in Int /\ snapped[t] <= now
      BY <1>3, TimeFacts DEF prune_clock
    <3>2. now \in Int
      BY TimeFacts
    <3> QED BY <3>1, <3>2, TimeFacts
  <2> QED BY <1>3, <2>1 DEF prune_clock
<1>4. CASE prune(t)
  <2>1. PICK p \in Ids :
          /\ all_peers' = [all_peers EXCEPT ![t][p] = Gone]
          /\ \/ /\ peerlist' = [peerlist EXCEPT ![p] = Gone]
                /\ UNCHANGED undeleted
             \/ /\ undeleted' = [undeleted EXCEPT ![t] = @ \cup {p}]
                /\ UNCHANGED peerlist
    BY <1>4 DEF prune, expired
  <2>2. UNCHANGED <<now, pc, prune_time, snapped, written>>
    BY <1>4 DEF prune
  <2>3. \A u \in Threads, q \in Ids : all_peers'[u][q] = IF u = t /\ q = p THEN Gone
                                                          ELSE all_peers[u][q]
    BY <2>1
  <2>4. \A u \in Threads : undeleted[u] \subseteq undeleted'[u]
    <3>1. CASE undeleted' = undeleted
      BY <3>1
    <3>2. CASE undeleted' = [undeleted EXCEPT ![t] = @ \cup {p}]
      BY <3>2
    <3> QED BY <2>1, <3>1, <3>2
  <2>5. peerlist'[p] = Gone \/ p \in undeleted'[t]
    BY <2>1
  <2>6. \A q \in Ids : peerlist'[q] \in {peerlist[q], Gone}
    BY <2>1
  <2> QED BY <2>2, <2>3, <2>4, <2>5, <2>6
<1>5. CASE prune_end(t)
  BY <1>5 DEF prune_end
<1> QED BY <1>1, <1>2, <1>3, <1>4, <1>5 DEF prune_step

-----------------------------------------------------------------------------

\* Every step of the system keeps the invariant.
LEMMA NextInv == IInv /\ [Next]_vars => IInv'
<1> SUFFICES ASSUME IInv, [Next]_vars PROVE IInv'
  OBVIOUS
<1>1. CASE UNCHANGED vars
  BY <1>1 DEF vars, IInv, TypeOK, Hands, Alone, SameId, Snapshots
<1>2. CASE Tick
  <2>1. now' \in 0..MaxTime /\ now <= now'
    BY <1>2, TimeFacts DEF Tick, IInv, TypeOK
  <2>2. Snapshots'
    <3>1. \A n \in Times : n <= now => n <= now'
      BY <2>1, TimeFacts DEF IInv, TypeOK
    <3> QED BY <1>2, <3>1 DEF Tick, prune_vars, IInv, Snapshots
  <2> QED BY <1>2, <2>1, <2>2 DEF Tick, object_vars, prune_vars, IInv, TypeOK, Hands, Alone, SameId
<1>3. CASE End
  <2>1. Idle \in Polls /\ Idle.pc = "idle"
    BY TimeFacts DEF Idle, Polls
  <2>2. TypeOK'
    <3>1. starts' \in Nat
      BY <1>3 DEF End, IInv, TypeOK
    <3>2. /\ pc' \in [Threads -> PCs]
          /\ poll' \in [Threads -> Polls]
          /\ all_peers' \in [Threads -> [Ids -> Times \cup {Gone}]]
          /\ written' \in [Threads -> SUBSET Ids] /\ undeleted' \in [Threads -> SUBSET Ids]
      BY <1>3, <2>1 DEF End, Nobody, PCs
    <3> QED BY <1>3, <3>1, <3>2 DEF End, Nobody, IInv, TypeOK
  <2> QED BY <1>3, <2>1, <2>2
          DEF End, Nobody, IInv, Hands, Alone, SameId, Snapshots, InInstance, InPrune, Snapped
<1>4. ASSUME NEW t \in Threads, instance_step(t) PROVE IInv'
  <2>1. CASE ~overlapped'
    BY <1>4, <2>1, InstanceTypes, InstanceAlone, InstanceSnapshots DEF IInv
  <2>2. CASE overlapped'
    BY <1>4, <2>2, InstanceTypes, InstanceSnapshots DEF IInv, Alone, SameId
  <2> QED BY <2>1, <2>2
<1>5. ASSUME NEW t \in Threads, prune_step(t) PROVE IInv'
  BY <1>5, PruneTypes, UserAlone, PruneSnapshots DEF IInv
<1>6. ASSUME NEW t \in Threads, poll_step(t) PROVE IInv'
  BY <1>6, PollTypes, UserAlone, PollSnapshots DEF IInv
<1> QED BY <1>1, <1>2, <1>3, <1>4, <1>5, <1>6 DEF Next

-----------------------------------------------------------------------------

\* The invariant of the peer database holds in every state.
THEOREM Invariance == Spec => []IInv
BY InitInv, NextInv, PTL DEF Spec

\* Every variable of the peer database keeps its type.
THEOREM TypeCorrect == Spec => []TypeOK
BY Invariance, PTL DEF IInv

\* Without overlapping calls instance() gives every node the one object.
THEOREM AlwaysOneInstance == Spec => []OneInstance
<1>1. IInv => OneInstance
  BY DEF IInv, Alone, OneInstance
<1> QED BY <1>1, Invariance, PTL

\* A stored peer id is never replaced, over any number of processes, while
\* calls of instance() do not overlap and no constructor failed to read it.
THEOREM StoredIdStays == Spec => IdStable
<1> DEFINE Keeps == local # None /\ ~overlapped' /\ ~misread' =>
                        /\ local' = local
                        /\ \A t \in Threads : m_peer_db'[t] # None /\ m_peer_db[t] = None =>
                               m_peer_id'[m_peer_db'[t]] = local
<1>1. ASSUME IInv, [Next]_vars PROVE Keeps
  <2> SUFFICES ASSUME local # None, ~overlapped', ~misread' PROVE Keeps
    OBVIOUS
  <2>1. CASE UNCHANGED vars
    BY <2>1 DEF vars
  <2>2. CASE Tick
    BY <2>2 DEF Tick, object_vars
  <2>3. CASE End
    BY <2>3 DEF End, Nobody
  <2>4. ASSUME NEW t \in Threads, prune_step(t) \/ poll_step(t) PROVE Keeps
    BY <2>4, UserFrame
  <2>5. ASSUME NEW t \in Threads, instance_step(t) PROVE Keeps
    <3>1. ~overlapped /\ ~misread
      <4>1. (overlapped => overlapped') /\ (misread => misread')
        BY <1>1, <2>5 DEF IInv, TypeOK, instance_step, call_instance, instance, PeerDB,
           PeerDB_misread, Construct, PeerDB_put, instance_insert, instance_drop, dtor, dtor_erase,
           instance_at, release, object_vars
      <4> QED BY <4>1
    <3>2. CASE PeerDB_put(t)
      BY <1>1, <3>1, <3>2 DEF PeerDB_put, IInv, SameId
    <3>3. CASE instance_at(t)
      BY <1>1, <3>1, <3>3 DEF instance_at, IInv, TypeOK, Alone, SameId
    <3>4. CASE release(t)
      BY <1>1, <3>4 DEF release, IInv, TypeOK
    <3>5. CASE \/ call_instance(t) \/ instance(t) \/ PeerDB(t) \/ PeerDB_misread(t)
               \/ instance_insert(t) \/ instance_drop(t) \/ dtor(t) \/ dtor_erase(t)
      BY <3>5 DEF call_instance, instance, PeerDB, PeerDB_misread, Construct, instance_insert,
                  instance_drop, dtor, dtor_erase, object_vars
    <3> QED BY <2>5, <3>2, <3>3, <3>4, <3>5 DEF instance_step
  <2> QED BY <1>1, <2>1, <2>2, <2>3, <2>4, <2>5 DEF Next
<1> QED BY <1>1, Invariance, PTL DEF Spec, IdStable

\* An entry disappears only by a prune that found it expired, or for which it
\* was written after the snapshot.
THEOREM OnlyExpiredDeleted == Spec => PruneDeletesExpired
<1> DEFINE Justified == \A p \in Ids : peerlist[p] # Gone /\ peerlist'[p] = Gone =>
                          \E t \in Threads : /\ pc[t] = "prune_del"
                                             /\ peerlist[p] < prune_time[t] \/ p \in written[t]
<1>1. ASSUME IInv, [Next]_vars PROVE Justified
  <2>1. CASE UNCHANGED peerlist
    BY <2>1
  <2>2. ASSUME NEW t \in Threads, prune(t) PROVE Justified
    <3>1. PICK q \in expired(t) : peerlist' = [peerlist EXCEPT ![q] = Gone] \/ UNCHANGED peerlist
      BY <2>2 DEF prune
    <3>2. pc[t] = "prune_del" /\ q \in Ids /\ all_peers[t][q] # Gone
          /\ all_peers[t][q] < prune_time[t]
      BY <2>2, <3>1 DEF prune, expired
    <3>3. peerlist[q] # Gone => q \in written[t] \/ peerlist[q] = all_peers[t][q]
      BY <1>1, <3>2 DEF IInv, Snapshots, Snapped
    <3>4. \A p \in Ids : p # q => peerlist'[p] = peerlist[p]
      BY <1>1, <3>1 DEF IInv, TypeOK
    <3> QED BY <3>2, <3>3, <3>4
  <2>3. ASSUME NEW t \in Threads, add_put(t) PROVE Justified
    <3>1. poll[t].last_seen \in Times
      BY <1>1, <2>3, TimeFacts DEF IInv, TypeOK, Polls
    <3>2. \A p \in Ids : peerlist'[p] \in {peerlist[p], poll[t].last_seen}
      BY <1>1, <2>3 DEF add_put, IInv, TypeOK
    <3> QED BY <3>1, <3>2, TimeFacts
  <2>4. CASE Tick \/ End \/ UNCHANGED vars
    BY <2>1, <2>4 DEF Tick, End, vars
  <2>5. ASSUME NEW t \in Threads, instance_step(t) PROVE Justified
    BY <2>1, <2>5, InstanceFrame
  <2>6. ASSUME NEW t \in Threads,
               call_prune(t) \/ prune_snapshot(t) \/ prune_clock(t) \/ prune_end(t)
        PROVE  Justified
    BY <2>1, <2>6 DEF call_prune, prune_snapshot, prune_clock, prune_end
  <2>7. ASSUME NEW t \in Threads, add_sender(t) \/ add_listed(t) \/ touch(t) \/ touch_add(t)
        PROVE  Justified
    BY <2>1, <2>7 DEF add_sender, add_listed, touch, touch_add
  <2> QED BY <1>1, <2>2, <2>3, <2>4, <2>5, <2>6, <2>7 DEF Next, prune_step, poll_step
<1> QED BY <1>1, Invariance, PTL DEF Spec, PruneDeletesExpired

\* A prune that returns leaves no entry that had expired at its snapshot, but
\* for those that del failed for or that were written since.
THEOREM PruneAlwaysComplete == Spec => PruneComplete
<1> DEFINE Complete == \A t \in Threads, p \in Ids :
                         pc[t] = "prune_del" /\ pc'[t] = "ready"
                         /\ peerlist[p] # Gone /\ peerlist[p] < snapped[t] - PruneTime =>
                             p \in undeleted[t] \cup written[t]
<1>1. ASSUME IInv, [Next]_vars PROVE Complete
  <2> SUFFICES ASSUME NEW t \in Threads, NEW p \in Ids, pc[t] = "prune_del", pc'[t] = "ready",
                      peerlist[p] # Gone, peerlist[p] < snapped[t] - PruneTime
               PROVE  p \in undeleted[t] \cup written[t]
    OBVIOUS
  <2>1. prune_end(t)
    <3>1. ~End /\ ~Tick /\ ~UNCHANGED vars
      BY DEF End, Nobody, Tick, vars
    <3>2. \A u \in Threads : ~poll_step(u)
      BY DEF poll_step, add_sender, add_listed, touch, touch_add, add_put
    <3>3. \A u \in Threads : ~instance_step(u)
      BY <1>1 DEF instance_step, call_instance, instance, PeerDB, PeerDB_misread, Construct,
                  PeerDB_put, instance_insert, instance_drop, dtor, dtor_erase, instance_at, release,
                  Goto,
                  IInv, TypeOK
    <3>4. \A u \in Threads : prune_step(u) => prune_end(u) /\ u = t
      BY <1>1 DEF prune_step, call_prune, prune_snapshot, prune_clock, prune, prune_end, Goto,
                  IInv, TypeOK
    <3> QED BY <1>1, <3>1, <3>2, <3>3, <3>4 DEF Next
  <2>2. all_peers[t][p] = Gone \/ ~(all_peers[t][p] < prune_time[t])
    BY <2>1 DEF prune_end, expired
  <2>3. snapped[t] \in Int /\ prune_time[t] \in Int /\ peerlist[p] \in Int
    BY <1>1, TimeFacts DEF IInv, TypeOK
  <2>4. snapped[t] - PruneTime <= prune_time[t]
    BY <1>1 DEF IInv, Snapshots
  <2>5. p \in written[t] \/ peerlist[p] \in {Gone, all_peers[t][p]} \/ p \in undeleted[t]
    BY <1>1 DEF IInv, Snapshots, Snapped
  <2> QED BY <2>2, <2>3, <2>4, <2>5, TimeFacts
<1> QED BY <1>1, Invariance, PTL DEF Spec, PruneComplete

=============================================================================
