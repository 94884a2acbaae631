------------------------------- MODULE PeerDB -------------------------------
(***************************************************************************)
(* P2P::PeerDB (src/p2p/peer_database.cpp): the one object per path that   *)
(* PeerDB::instance hands out through a static map of shared pointers, the *)
(* node's own peer id and the peer list it keeps in LMDB, and the three    *)
(* users of a node that share them: the thread that constructs the node    *)
(* and then serves its console, which prunes, and the node's poller, which *)
(* adds and touches.  StakingEngine::instance has the same shape.          *)
(*                                                                         *)
(* An operation of LMDBDatabase is one transaction, so one step.  Time is  *)
(* time(nullptr), read where the code reads it.                            *)
(***************************************************************************)
EXTENDS Integers, FiniteSets

CONSTANTS
    Threads,       \* threads that construct a Node on the one path
    Pollers,       \* those that start() it: its poller runs
    Peers,         \* peer ids of other nodes
    PruneTime,     \* Configuration::P2P::PEER_PRUNE_TIME
    Listed,        \* bound: the ids that the lists of other nodes name, ours perhaps among them
    Claims,        \* bound: the last_seen they give
    MaxTime,       \* bound: the last time
    MaxObjects,    \* bound: PeerDB objects constructed, over all processes
    MaxStarts      \* bound: processes

Times == (0 - PruneTime)..MaxTime

ASSUME PeerDBAssumption ==
    /\ IsFiniteSet(Threads)
    /\ Pollers \subseteq Threads
    /\ Peers \cap Nat = {}
    /\ {PruneTime, MaxTime, MaxObjects, MaxStarts} \subseteq Nat
    /\ Listed \subseteq Peers \cup 1..MaxObjects
    /\ Claims \subseteq Times

VARIABLES
    now,           \* time(nullptr)
    local,         \* the id stored under PEER_ID_IDENTIFIER, None if there is none
    peerlist,      \* the database "peerlist": last_seen by peer id, Gone if absent
    instances,     \* the object in the static map, None if there is none
    made,          \* objects constructed so far
    m_peer_id,     \* PeerDB::m_peer_id of each object
    pc,
    ptr,           \* the local ptr of instance()
    m_peer_db,     \* Node::m_peer_db, None if the thread has no node
    all_peers,     \* prune: the entries of the snapshot
    prune_time,    \* prune: what they are compared with
    poll,          \* what each node's poller is doing, with the entry it adds
    starts,
    overlapped,    \* history: two calls of instance() overlapped in this process
    misread,       \* history: a constructor of this process could not read the stored id
    snapped,       \* history: the time of the thread's snapshot
    written,       \* history: the entries written since
    undeleted      \* history: the entries that prune's del failed for

object_vars == <<local, instances, made, m_peer_id, ptr, m_peer_db, starts, overlapped,
                 misread>>
prune_vars == <<all_peers, prune_time, snapped, undeleted>>
vars == <<now, local, peerlist, instances, made, m_peer_id, pc, ptr, m_peer_db, all_peers,
          prune_time, poll, starts, overlapped, misread, snapped, written, undeleted>>

None == 0
Gone == 0 - PruneTime - 1

\* A generated id is a random hash: the number of the object that drew it
Objects == 1..MaxObjects
Ids == Peers \cup Objects

\* Inside instance(), the destructor of a losing object included
InInstance == {"lookup", "ctor_get", "ctor_put", "insert", "drop", "dtor", "erase", "at"}
InPrune == {"prune", "prune_time", "prune_del"}
Snapped == {"prune_time", "prune_del"}
PCs == InInstance \cup InPrune \cup {"start", "ready", "free", "freeing", "thrown", "stuck"}

Idle == [pc |-> "idle", id |-> None, last_seen |-> 0]

\* What a process starts with, in the values v of its threads' variables
Nobody(v) == [t \in Threads |-> v]

Init ==
    /\ pc = Nobody("start") /\ ptr = Nobody(None) /\ m_peer_db = Nobody(None)
    /\ all_peers = Nobody([p \in Ids |-> Gone])
    /\ poll = Nobody(Idle) /\ prune_time = Nobody(Gone) /\ snapped = Nobody(Gone)
    /\ written = Nobody({}) /\ undeleted = Nobody({})
    /\ instances = None /\ overlapped = FALSE /\ misread = FALSE
    /\ now = 0 /\ local = None /\ made = 0 /\ starts = 1
    /\ peerlist = [p \in Ids |-> Gone]
    /\ m_peer_id = [o \in Objects |-> None]

Goto(t, l) == pc' = [pc EXCEPT ![t] = l]

-----------------------------------------------------------------------------
(* instance() and the destructor *)

\* Is there a shared pointer to o: the map's i, a local's of l or a node's of n?
Owned(o, i, l, n) == i = o \/ \E t \in Threads : o \in {l[t], n[t]}

\* A thread that is stuck inside erase() has the map's lock
MapFree == \A t \in Threads : pc[t] # "stuck"

call_instance(t) ==
    /\ pc[t] = "start"
    /\ Goto(t, "lookup")
    /\ overlapped' = (overlapped \/ \E u \in Threads : pc[u] \in InInstance)
    /\ UNCHANGED <<now, local, peerlist, instances, made, m_peer_id, ptr, m_peer_db, poll, starts,
                   misread, written, prune_vars>>

\* Mutant: the map is not asked first
instance_always_new(t) ==
    /\ pc[t] = "lookup" /\ MapFree
    /\ Goto(t, "ctor_get")
    /\ UNCHANGED <<now, peerlist, poll, written, object_vars, prune_vars>>

instance(t) ==
    /\ pc[t] = "lookup" /\ MapFree
    /\ Goto(t, IF instances = None THEN "ctor_get" ELSE "at")
    /\ UNCHANGED <<now, peerlist, poll, written, object_vars, prune_vars>>

Construct(t, id) ==
    /\ pc[t] = "ctor_get" /\ made < MaxObjects
    /\ made' = made + 1
    /\ ptr' = [ptr EXCEPT ![t] = made + 1]
    /\ m_peer_id' = [m_peer_id EXCEPT ![made + 1] = id]
    /\ Goto(t, "ctor_put")
    /\ UNCHANGED <<now, local, peerlist, instances, m_peer_db, poll, starts, overlapped, written,
                   prune_vars>>

\* Mutant: a new id at every start
PeerDB_new_id(t) == Construct(t, made + 1) /\ UNCHANGED misread

\* The constructor, up to its put: the stored id, or a new one
PeerDB(t) == Construct(t, IF local = None THEN made + 1 ELSE local) /\ UNCHANGED misread

\* The get fails although an id is stored: any error is taken for "none stored"
PeerDB_misread(t) ==
    /\ local # None
    /\ Construct(t, made + 1)
    /\ misread' = TRUE

\* The put may fail, nobody asks
PeerDB_put(t) ==
    /\ pc[t] = "ctor_put"
    /\ local' \in {local, m_peer_id[ptr[t]]}
    /\ Goto(t, "insert")
    /\ UNCHANGED <<now, peerlist, instances, made, m_peer_id, ptr, m_peer_db, poll, starts,
                   overlapped, misread, written, prune_vars>>

\* ThreadSafeMap::insert leaves an entry that is there
instance_insert(t) ==
    /\ pc[t] = "insert" /\ MapFree
    /\ instances' = IF instances = None THEN ptr[t] ELSE instances
    /\ Goto(t, "drop")
    /\ UNCHANGED <<now, local, peerlist, made, m_peer_id, ptr, m_peer_db, poll, starts, overlapped,
                   misread, written, prune_vars>>

\* The end of ptr's scope: the last owner runs the destructor
instance_drop(t) ==
    /\ pc[t] = "drop"
    /\ ptr' = [ptr EXCEPT ![t] = None]
    /\ Goto(t, IF Owned(ptr[t], instances, ptr', m_peer_db) THEN "at" ELSE "dtor")
    /\ UNCHANGED <<now, local, peerlist, instances, made, m_peer_id, m_peer_db, poll, starts,
                   overlapped, misread, written, prune_vars>>

\* ~PeerDB: is the path in the map?  Whose entry it is, is not asked
dtor(t) ==
    /\ pc[t] \in {"dtor", "free"} /\ MapFree
    /\ Goto(t, IF instances # None THEN (IF pc[t] = "dtor" THEN "erase" ELSE "freeing")
               ELSE IF pc[t] = "dtor" THEN "at" ELSE "start")
    /\ UNCHANGED <<now, peerlist, poll, written, object_vars, prune_vars>>

\* ~PeerDB: erase.  If the map was the entry's last owner its destructor runs
\* inside erase() and asks for the lock that this thread has: undefined, here
\* the thread stops with the lock (or End ends the process)
dtor_erase(t) ==
    /\ pc[t] \in {"erase", "freeing"} /\ MapFree
    /\ instances' = None
    /\ Goto(t, IF instances # None /\ ~Owned(instances, None, ptr, m_peer_db) THEN "stuck"
               ELSE IF pc[t] = "erase" THEN "at" ELSE "start")
    /\ UNCHANGED <<now, local, peerlist, made, m_peer_id, ptr, m_peer_db, poll, starts, overlapped,
                   misread, written, prune_vars>>

\* at() throws for a path that is gone; the constructor of Node then prunes
instance_at(t) ==
    /\ pc[t] = "at" /\ MapFree
    /\ m_peer_db' = [m_peer_db EXCEPT ![t] = instances]
    /\ Goto(t, IF instances = None THEN "thrown" ELSE "prune")
    /\ UNCHANGED <<now, local, peerlist, instances, made, m_peer_id, ptr, poll, starts, overlapped,
                   misread, written, prune_vars>>

\* ~Node: the poller is joined, m_peer_db is released
release(t) ==
    /\ pc[t] = "ready" /\ poll[t] = Idle
    /\ m_peer_db' = [m_peer_db EXCEPT ![t] = None]
    /\ Goto(t, IF Owned(m_peer_db[t], instances, ptr, m_peer_db') THEN "start" ELSE "free")
    /\ UNCHANGED <<now, local, peerlist, instances, made, m_peer_id, ptr, poll, starts, overlapped,
                   misread, written, prune_vars>>

-----------------------------------------------------------------------------
(* prune *)

\* The seed node's console
call_prune(t) ==
    /\ pc[t] = "ready"
    /\ Goto(t, "prune")
    /\ UNCHANGED <<now, peerlist, poll, written, object_vars, prune_vars>>

\* peers(0): every entry, under one lock
prune_snapshot(t) ==
    /\ pc[t] = "prune"
    /\ all_peers' = [all_peers EXCEPT ![t] = peerlist]
    /\ snapped' = [snapped EXCEPT ![t] = now]
    /\ Goto(t, "prune_time")
    /\ UNCHANGED <<now, peerlist, prune_time, poll, written, undeleted, object_vars>>

\* Mutant: the limit lies in the future
prune_clock_ahead(t) ==
    /\ pc[t] = "prune_time"
    /\ prune_time' = [prune_time EXCEPT ![t] = now + PruneTime]
    /\ Goto(t, "prune_del")
    /\ UNCHANGED <<now, peerlist, all_peers, poll, snapped, written, undeleted, object_vars>>

\* Mutant: the prune time is taken off twice
prune_clock_twice(t) ==
    /\ pc[t] = "prune_time"
    /\ prune_time' = [prune_time EXCEPT ![t] = now - 2 * PruneTime]
    /\ Goto(t, "prune_del")
    /\ UNCHANGED <<now, peerlist, all_peers, poll, snapped, written, undeleted, object_vars>>

prune_clock(t) ==
    /\ pc[t] = "prune_time"
    /\ prune_time' = [prune_time EXCEPT ![t] = now - PruneTime]
    /\ Goto(t, "prune_del")
    /\ UNCHANGED <<now, peerlist, all_peers, poll, snapped, written, undeleted, object_vars>>

\* Mutant: an entry of exactly that age goes too
expired_or_due(t) ==
    {p \in Ids : all_peers[t][p] # Gone /\ all_peers[t][p] <= prune_time[t]}

\* The entries of the snapshot that are still to be deleted
expired(t) == {p \in Ids : all_peers[t][p] # Gone /\ all_peers[t][p] < prune_time[t]}

\* One turn of the loop: del, which may fail
prune(t) ==
    /\ pc[t] = "prune_del"
    /\ \E p \in expired(t) :
         /\ all_peers' = [all_peers EXCEPT ![t][p] = Gone]
         /\ \/ /\ peerlist' = [peerlist EXCEPT ![p] = Gone]
               /\ UNCHANGED undeleted
            \/ /\ undeleted' = [undeleted EXCEPT ![t] = @ \cup {p}]
               /\ UNCHANGED peerlist
    /\ UNCHANGED <<now, pc, prune_time, poll, snapped, written, object_vars>>

prune_end(t) ==
    /\ pc[t] = "prune_del" /\ expired(t) = {}
    /\ all_peers' = [all_peers EXCEPT ![t] = [p \in Ids |-> Gone]]
    /\ prune_time' = [prune_time EXCEPT ![t] = Gone]
    /\ snapped' = [snapped EXCEPT ![t] = Gone]
    /\ written' = [written EXCEPT ![t] = {}]
    /\ undeleted' = [undeleted EXCEPT ![t] = {}]
    /\ Goto(t, "ready")
    /\ UNCHANGED <<now, peerlist, poll, object_vars>>

-----------------------------------------------------------------------------
(* The node's poller *)

Polling(t, l) == t \in Pollers /\ pc[t] \in {"ready"} \cup InPrune /\ poll[t].pc = l

\* add, up to the lock: an entry of ours or one too old is refused
add(t, p, s) ==
    poll' = [poll EXCEPT ![t] = IF p = m_peer_id[m_peer_db[t]] \/ s < now - PruneTime THEN Idle
                                ELSE [pc |-> "put", id |-> p, last_seen |-> s]]

\* A handshake or a peer exchange: the sender, seen now
add_sender(t) ==
    /\ Polling(t, "idle")
    /\ \E p \in Peers : add(t, p, now)
    /\ UNCHANGED <<now, peerlist, pc, written, object_vars, prune_vars>>

\* Its list: ids of other nodes and ours, seen when the sender says
add_listed(t) ==
    /\ Polling(t, "idle")
    /\ \E p \in Listed \ ((made + 1)..MaxObjects), s \in Claims : add(t, p, s)
    /\ UNCHANGED <<now, peerlist, pc, written, object_vars, prune_vars>>

\* touch, a keepalive's: get
touch(t) ==
    /\ Polling(t, "idle")
    /\ \E p \in Ids : peerlist[p] # Gone
                      /\ poll' = [poll EXCEPT ![t] = [pc |-> "touch", id |-> p, last_seen |-> 0]]
    /\ UNCHANGED <<now, peerlist, pc, written, object_vars, prune_vars>>

touch_add(t) ==
    /\ Polling(t, "touch")
    /\ add(t, poll[t].id, now)
    /\ UNCHANGED <<now, peerlist, pc, written, object_vars, prune_vars>>

\* add: put, which replaces an entry whatever its last_seen is, or fails
add_put(t) ==
    /\ Polling(t, "put")
    /\ poll' = [poll EXCEPT ![t] = Idle]
    /\ \/ /\ peerlist' = [peerlist EXCEPT ![poll[t].id] = poll[t].last_seen]
          /\ written' = [u \in Threads |-> IF pc[u] \notin Snapped THEN written[u]
                                           ELSE written[u] \cup {poll[t].id}]
       \/ UNCHANGED <<peerlist, written>>
    /\ UNCHANGED <<now, pc, object_vars, prune_vars>>

-----------------------------------------------------------------------------

Tick ==
    /\ now < MaxTime
    /\ now' = now + 1
    /\ UNCHANGED <<peerlist, pc, poll, written, object_vars, prune_vars>>

\* The process ends, at any point, and a new one starts on the files
End ==
    /\ starts < MaxStarts
    /\ starts' = starts + 1
    /\ pc' = Nobody("start") /\ ptr' = Nobody(None) /\ m_peer_db' = Nobody(None)
    /\ all_peers' = Nobody([p \in Ids |-> Gone])
    /\ poll' = Nobody(Idle) /\ prune_time' = Nobody(Gone) /\ snapped' = Nobody(Gone)
    /\ written' = Nobody({}) /\ undeleted' = Nobody({})
    /\ instances' = None /\ overlapped' = FALSE /\ misread' = FALSE
    /\ UNCHANGED <<now, local, peerlist, made, m_peer_id>>

instance_step(t) ==
    \/ call_instance(t) \/ instance(t) \/ PeerDB(t) \/ PeerDB_misread(t) \/ PeerDB_put(t)
    \/ instance_insert(t) \/ instance_drop(t) \/ dtor(t) \/ dtor_erase(t)
    \/ instance_at(t) \/ release(t)

prune_step(t) ==
    call_prune(t) \/ prune_snapshot(t) \/ prune_clock(t) \/ prune(t) \/ prune_end(t)

poll_step(t) == add_sender(t) \/ add_listed(t) \/ touch(t) \/ touch_add(t) \/ add_put(t)

Next == Tick \/ End \/ \E t \in Threads : instance_step(t) \/ prune_step(t) \/ poll_step(t)

Spec == Init /\ [][Next]_vars

-----------------------------------------------------------------------------

Polls == [pc : {"idle", "touch", "put"}, id : Ids \cup {None}, last_seen : Times \cup {0}]

\* The state has the shapes the code gives it
TypeOK ==
    /\ now \in 0..MaxTime
    /\ local \in Objects \cup {None}
    /\ peerlist \in [Ids -> Times \cup {Gone}]
    /\ instances \in Objects \cup {None}
    /\ made \in 0..MaxObjects
    /\ m_peer_id \in [Objects -> Objects \cup {None}]
    /\ pc \in [Threads -> PCs]
    /\ ptr \in [Threads -> Objects \cup {None}]
    /\ m_peer_db \in [Threads -> Objects \cup {None}]
    /\ all_peers \in [Threads -> [Ids -> Times \cup {Gone}]]
    /\ prune_time \in [Threads -> Times \cup {Gone}]
    /\ poll \in [Threads -> Polls]
    /\ starts \in Nat
    /\ overlapped \in BOOLEAN /\ misread \in BOOLEAN
    /\ snapped \in [Threads -> Times \cup {Gone}]
    /\ written \in [Threads -> SUBSET Ids]
    /\ undeleted \in [Threads -> SUBSET Ids]

\* instance(), which looks the path up, constructs, inserts and reads back in
\* four steps and destroys a losing object by path: as long as no two calls
\* overlapped, every node of the process has the object in the map, and no call
\* threw or stopped inside the map
OneInstance ==
    ~overlapped =>
        \A t \in Threads : m_peer_db[t] \in {None, instances} /\ pc[t] \notin {"thrown", "stuck"}

\* The constructor reads the stored id, or makes one, and stores it: once an id
\* is stored it is never replaced, over any number of starts, and every node
\* goes by it.  Two things excuse a process from this: two overlapping calls of
\* instance(), and a get that failed although the id was there, which the
\* constructor answers with a new id that it stores over the old one
IdStable ==
    [][local # None /\ ~overlapped' /\ ~misread' =>
         /\ local' = local
         /\ \A t \in Threads : m_peer_db'[t] # None /\ m_peer_db[t] = None =>
                m_peer_id'[m_peer_db'[t]] = local]_vars

\* prune works on a snapshot while pollers add and touch: an entry disappears
\* only by a prune that found it expired, or that had found it expired before
\* it was written again
PruneDeletesExpired ==
    [][\A p \in Ids : peerlist[p] # Gone /\ peerlist'[p] = Gone =>
         \E t \in Threads : /\ pc[t] = "prune_del"
                            /\ peerlist[p] < prune_time[t] \/ p \in written[t]]_vars

\* When prune returns, an entry that had expired when it took its snapshot is
\* one that del failed for or one written since
PruneComplete ==
    [][\A t \in Threads, p \in Ids :
         pc[t] = "prune_del" /\ pc'[t] = "ready"
         /\ peerlist[p] # Gone /\ peerlist[p] < snapped[t] - PruneTime =>
             p \in undeleted[t] \cup written[t]]_vars

=============================================================================
