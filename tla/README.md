# A verification project for turtlecoin-v2

TLA+ models of the parts of turtlecoin-v2 that keep state under concurrency and
failure, the TLC runs that check them on small instances, and TLAPS proofs of
their main safety properties for every instance. Paths of the code are relative
to the repository (`src/core/...` is the file `src/src/core/...` of
`PROJECT.json`, where every definition's lines are listed under `map`).

## The system

The repository is a cryptocurrency node in the making. What runs today is a
peer-to-peer seed node and the libraries it and the coming node are built from.

| component | state | operations | talks to |
|---|---|---|---|
| blockchain storage (`core/blockchain_storage`) | six LMDB databases: blocks, block indexes, timestamps, transactions, key images, outputs; `write_mutex` | `put_block`, `rewind` (`del_block`), `get_block`, lookups, `get_random_outputs` | LMDB environment |
| LMDB environment (`database/db_lmdb`) | memory map, count of open transactions, `m_mutex`, one `m_db_mutex` per database | transactions, `put`/`del`/`drop`/`get`, `expand`, `detect_map_size` | LMDB; other processes with the same file |
| transaction validator (`core/transaction_validator`), network fees (`common/network_fees`) | none | `check`, `validate`, fee and proof-of-work arithmetic | storage (reads) |
| staking engine (`core/staking_engine`) | candidates, stakes | `add_stake`; the rest are stubs | LMDB environment |
| transactions, blocks, packets (`include/blockchain`, `include/network`) | values | serialise, deserialise, JSON, `validate_construction` | everything |
| ZMQ server, client, publisher, subscriber (`networking`) | a socket, its mutex, queues, connected peers; two threads each | `bind`/`connect`, `send`, `messages`, destructor | ZMQ |
| P2P node and peer database (`p2p`) | clients, completed handshakes, peer list, message queue; four threads | `start`, `connect`, four packet handlers, `send`, `reply` | ZMQ server and clients, LMDB |
| thread helper and containers (`include/tools`) | a lock and a container | `thread_sleep`, `each`, `insert`, `pop`, ... | all threads |
| UPnP, HTTP, console, CLI, logger, errors, addresses | | | |

What is hard here: threads that share a socket, a map and an LMDB environment
under several mutexes; writes of one block into six databases that must appear
together; a memory map that is replaced while transactions come and go;
`rewind`, which takes no lock; lost and restored connections and restarted
nodes; loops that wait on a condition variable without a predicate.
`PROJECT.json` lists these hazards with the line where each bites and the
property that watches it.

What makes each component correct: the storage changes by whole calls of
`put_block` and `del_block` and its lookups agree; the environment counts its
transactions exactly and refuses a larger map only for cause; a socket has one
user at a time, queued messages are dealt with and destructors end; nodes find
each other and never break the handshake rule by themselves; what one method
writes another reads back, and a block that passes its checks was signed as it
stands; nothing is spent twice and no candidate replaced; a peer database keeps
its id, and forgets only what has expired.

## Modules

| module | models |
|---|---|
| `ChainData` | the contents of the six databases, and what one put or del sequence of `blockchain_storage.cpp` does to them |
| `LedgerStore` | the promise: a ledger that changes by the whole effect of one `put_block` or `del_block`, and what that effect is |
| `BlockchainStorage` | threads in `put_block`, `rewind`/`del_block`, `get_block` on one environment |
| `LMDBEnv` | `LMDB` and `LMDBTransaction`: transactions, their count, the growth of the map |
| `ZMQServer` | the server's two threads, its callers, its destructor and its clients |
| `P2PNode` | nodes, their connections, packets, peer lists, stops and restarts |
| `PeerDB` | `PeerDB::instance`, the constructor and destructor, `add`, `touch`, `prune`, over several processes |
| `ZMQSockets` | a ZMQ client, subscriber or publisher with its threads, its callers, its destructor and its connection monitor |
| `TransactionValidator` | threads in `validate`, `get_random_outputs`, `put_block`, `rewind` and `StakingEngine::add_stake` on one storage |
| `WireFormat` | the external serializer, deserializer, JSON macros and hashes, from how the structures use them |
| `Structures` | for every structure the fields each of its four methods visits |
| `NetworkFees` | the fee and discount arithmetic |
| `Transactions` | `check_construction` of every kind, hashes, mining, `to_committed`, `TransactionValidator::check` |
| `Documents` | the life of one object of any structure: assigned, mined, committed, written, cut short, read |
| `BlockSigning` | copies of a block that nodes sign, assign members of, change and pass on |
| `MC*` | instances for TLC |
| `*Proofs` | theorems: one module per component, and `WireProofs` for the six modules from `WireFormat` to `BlockSigning` |

`BlockchainStorage` implements `LedgerStore`; `TransactionValidator` takes
`put_block` as the one step that refinement makes it. `P2PNode` has the peer
list as nodes exchange it, `PeerDB` as threads and processes share it.
`Documents` and `BlockSigning` are built on `Transactions` and `Structures`,
these on `WireFormat`.

**BlockchainStorage.** `db` is what is committed, `view` what the one open R/W
transaction sees, `writer` who has it. Every database call is an action of its
own, so every read and write of two threads may interleave; a write may also
fail (`write_error`), find the map full (`map_full`, then `expand` or
`expand_failed` and the whole transaction again, as `MDB_CHECK_TXN_EXPAND`
does) or be cut off by a crash, which leaves `db`. Hashes are abstract: a block
stands for its own hash. `put_block` checks neither that an index is free nor
that a timestamp is, and neither does the model. `get_transaction` reads another
layout than `put_transaction` writes; what comes of that is a choice between an
error, an exception and a transaction nobody stored. `LedgerStore` makes no
better promise of `del_block` than its code keeps: its effect leaves the reward
transaction and the outputs, and `ApplyDel` says so at its definition, with the
line of the header that says otherwise.

**LMDBEnv.** Threads call `put`/`del`, `drop`, `get` and open environment
transactions. A R/W transaction is open in LMDB (`InWrite`) before it is
counted (`Counted`), the check of the count and `mdb_env_set_mapsize` are two
steps under `m_mutex`, and another process may grow the file. LMDB itself is
modelled from how the code uses it: one writer, `MAP_RESIZED` when the file has
outgrown the map, `MAP_FULL` when a write does not fit, and no commit after a
put that failed. `refused` is the point where a call returns the map-full error
because its `expand` did not succeed.

**ZMQServer.** `incoming_thread`, `outgoing_thread` and the destructor, one
action per lock, socket call and map operation. `m_connections` is a
`ThreadSafeMap`: `each` keeps the shared lock while its callback waits for
`m_socket_mutex`. `thread_sleep` may return true at any time, because it waits
without a predicate and a spurious wakeup looks like a notification. The first
part of a message is sent without `dontwait`, so `out_send` has no step while
its destination is in `full`, at its high-water mark, and keeps
`m_socket_mutex` meanwhile; a client leaves `full` when it reads (`client_read`)
or disconnects. `in_terminate` is an exception that `incoming_thread` does not
catch: it ends the process, and no thread takes another step.

**P2PNode.** A connection is a `ZMQClient` with an identity of its own, with
an ordered queue in each direction that stands for the queues of client,
server and transport together. `start`, `connect` (in three steps, because
other threads look at `m_clients` meanwhile), one round of the connection
manager, and one action per packet handler and direction. The peer list
survives a stop; handshakes, clients and queues do not. Connections may be
lost, with what was under way, and restored by ZMQ under the same identity. A
stop is one step. `last_seen` is in `PeerDB`; here it is a choice which entries
have expired when the constructor or the console prunes (`prune`,
`prune_peers`), and which adds of a handler fail or come too late (`learn`),
since no handler looks at what `PeerDB::add` returned. Packets carry the current
version, so the version checks pass.

**PeerDB.** `instances` is the static map of shared pointers (one path),
`Owned` the reference count: an object nobody owns runs its destructor, which
erases its path from the map, whoever's entry that is. When the map was the last
owner the destructor runs inside `erase()` and asks for the lock its own thread
has; that is undefined, and here the thread stops with the lock. The seed
node's console prunes on the thread that built the node while the poller adds
and touches. Time moves between any two steps; `End` ends the process between
any two steps and keeps the files. `PeerDB_misread` is the constructor whose
`get` fails for another reason than a missing key: it makes a new id and stores
it over the old one. `StakingEngine::instance`,
`BlockchainStorage::instance` and `LMDB::instance` have the same shape.

**ZMQSockets.** `connect` of the client takes `m_connecting`, then
`m_socket_mutex`, and its `wait_for` gives up only the first; the subscriber has
`m_socket_mutex` only. `link` is ZMQ's side of a connection, `events` what it
raised and the monitor thread has still to handle. A handler is three calls of
thread-safe sets, each with a lock of its own; `step` says how many of them are
done, and the callers' `is_connected` may come between. `monitor_join` waits for
the handler in hand. `incoming_terminate` and `listener_terminate` are
exceptions that the threads do not catch. `connect_wake` is the
notification or the timeout: which of the two is in `notified`. That a
condition variable may also wake for no reason makes no difference here beyond
the timeout.

**TransactionValidator.** `validate` of a committed transaction is a read;
`put_block` comes later and checks nothing, so `fresh` (accepted since the last
`put_block`) and `raced` record what the caller would have to know: that a block
holds a transaction that is no longer fresh, two that exclude each other, or a
genesis transaction above block 0, where `validate` does not look. `rewind`
deletes the blocks above its target that hold no transactions (`bare`; of the
others `get_block` fails), and leaves their rewards; `del_block` is private and
`rewind` deletes only above an index, so block 0 stays. An output's
record is written with `unlock_block` first and read with it last, so a ring
member is garbage or an exception: `ring_signatures` always fails and `draw`
never fills its set.

**Documents and wire formats.** A structure's bytes are a sequence of tokens,
kind and value, listed from its `serialize`; `deserialize`, `toJSON` and
`fromJSON` are listed separately, from their own code, so that a disagreement
of the four would show. Discounts are whole percentages; the code's floats give
the same fee for every base fee below 450.

**BlockSigning.** A signature names its key and the digest it signed. The
digest is the hash of the bytes of the mode: producer, validator or full. The
public members, header, reward, producer's key and producer's signature, are
also assigned one by one, the signature from those made so far or from random
scalars. A producer of which one half is unset is written as none (`AsWritten`).
Key pairs are interchangeable in the model, and the run uses that symmetry.

## Runs

| run | instance | shows |
|---|---|---|
| `storage` | 2 threads, 3 blocks (two for one index, all with one timestamp, one with two transactions), one full map; 81,626 states | `LookupsAgree`, `BlocksComplete`, `RightBlock`, `RewindKeepsPrefix`, refinement of `LedgerStore` (`WholeCalls`), `CallsReturn` |
| `storage_get_block` | 1 thread | **violated**: `get_block` never returns the transactions of a block |
| `lmdb` | 2 threads, a map of at most 2 units; 21,692 states | `CountExact`, `RefusedForCause`, `WritersReturn` |
| `server` | 2 clients, 2 messages each way; 277,370 states | `SocketExclusive`, `RegisteredFirst`, `AnswersSent`, `Stops` |
| `server_broadcast` | 2 clients, 1 broadcast | **violated**: a broadcast and a new client deadlock the two threads, so queued messages are not sent |
| `p2p` | a seed that is its own seed and a node, 2 connections per pair, 1 stop, 1 loss, 1 keepalive or data packet, a prune at each start and 1 from a console; 2,485,398 states | `HandshakeFirst`, `OutgoingBounded` |
| `p2p_discovery` | 3 nodes of two networks, 1 add that fails; 27,246 states | `Discovery`: nodes that hold on to a common server learn of each other |
| `peers` | 2 threads that construct nodes on one path, one with a poller, 1 peer, 3 objects, 2 processes; 1,521,155 states | `OneInstance`, `IdStable`, `PruneDeletesExpired`, `PruneComplete` |
| `sockets` | an object of each of three kinds, 2 callers, 1 host, 3 connects, 1 loss; 233,155 states | `MonitorExact`, `Returns` |
| `validator` | 2 threads, a genesis transaction, 2 transactions with a common key image, 1 that `check` refuses, 3 stakes; 3,683,216 states | `SpentOnce`, `CandidateOnce` |
| `wire` | every structure, up to 2 assignments away from a new object or an accepted transaction; 668,073 states | `ReadBack`, `JsonReadBack`, `CommittedAgrees` |
| `blocks` | 2 nodes, 2 key pairs, 3 signatures or assignments, 1 of a public member, 1 copy sent; 534,698 states | `ValidIsSigned`, `HashFixesBlock`, `BlockReadBack` |

Each run checks its module's `TypeOK` too, where it has one. Each violated
property quotes the comment or message it is about; the finding in
`PROJECT.json` names the line.

**Bounds.** `MaxIndex`, `MaxMapFull`, `MaxMap`, `MaxSent`, `MaxArrived`,
`MaxConnects`, `MaxStops`, `MaxLosses`, `MaxFailures`, `MaxPrunes`,
`MaxChanges`, `MaxAssigns` bound counters and appear in guards only. Two
threads suffice for the storage and the environment: each property is about one
thread's locals or the committed state, and one other thread can make all the
moves that disturb it; a third block at an occupied index and a shared
timestamp give the overwrites. One full map reaches the retry, and a map of two
units has a growth that succeeds and one that does not. Two clients are one
that a broadcast is sent to and one that arrives meanwhile. In `p2p` one stop
and one loss are enough for a restarted server that meets a restored client;
two connections for a second identity. A prune of `p2p` may take away any
entry, one that an add failed to write included, so the adds need not fail
there; in `p2p_discovery` one does, and a later exchange makes up for it.
`quiet` lets a round of peer exchanges wait for the last one's answers, which
keeps queues finite; with an interval of two minutes the code's rounds do not
overlap either as long as the poller runs. Peer lists in the runs are shorter
than `MAXIMUM_PEERS_EXCHANGED`; the proofs cover the cut. Three objects are two
that race in one process and one of the next; `MaxTime` lets an entry expire
between a snapshot and its deletion. That a prune goes on after a deletion that
fails takes two peers and is left to the proof, `PruneAlwaysComplete`. That a
list names the node itself is in `P2PNode`; the lists of the `peers` run do
not. Three connects on one host are two that overlap and one that follows. Two
assignments make every pair of fields of a structure differ from a new object.
Three signatures are a producer, a validator and one made under another
producer or before a change; one assignment of a public member is one after the
block was signed, or between two signatures. The theorems do not depend on any
of these bounds' values; in `Documents` they are about the values `Values`
names, assigned in any number and order, and `StructureRead` and `JsonRead`
about all.

**Two simplifications of the interleaving.** In `P2PNode` the manager's check
of `is_connected` and its `erase` are one step; and a connection is not lost
between a server's receipt of a packet and the handler's answer, because the
answer would be lost with the connection, which is the same state as if the
loss had come after the answer.

**View.** `storage` leaves out `ret` from the fingerprint: no action reads it.

## Fairness

Only liveness uses it (`FairSpec`). A thread inside a call keeps running (weak
fairness of its step: the operating system schedules it). A mutex or LMDB's
writer lock that becomes free again and again is obtained eventually (strong
fairness of the step that takes it; `std::mutex` promises less on paper, the
platforms' implementations do it). Clients and what they read, other processes,
crashes, losses, calls by the owner, full maps, failing writes, failing adds,
prunes and uncaught exceptions have no fairness. In
`P2PNode` the poller and the connecting thread are weakly fair and the peer
exchange timer is strongly fair, since it fires every two minutes. In
`ZMQSockets` the steps of a `connect` and of the two threads are strongly fair,
because they take mutexes that others hold now and then; the destructor's joins
and the monitor's listener are weakly fair; links, callers and the start of the
destructor have no fairness, so `Returns` holds although no link ever comes up.

Liveness is stated with the condition under which the code keeps it.
`WritersReturn` assumes that no `drop` runs, since `drop` retries for ever when
`expand` fails. `AnswersSent` and `Stops` assume that no broadcast is under way,
for the deadlock above, and with `EventuallySent` that the clients go on reading
(`ClientsRead`): one that stays connected and never reads stops both threads and
the destructor. `EventuallySent` assumes that no spurious wakeup has ended a
thread. `Returns` excludes a client on which two connects overlapped: they
deadlock. `Stops` and `Returns` are fulfilled when an uncaught exception ends
the process. `Discovery` relies on adds and prunes that do not fail or expire
for ever (`MaxFailures`, `MaxPrunes`).

## Proofs

TLAPS proves, for any number of blocks, threads, clients, hosts, nodes,
transactions and failures:

- `BlockchainStorageProofs`: `TypeOK`, `LookupsAgree`, `BlocksComplete`,
  `RightBlock`, `RewindKeepsPrefix`, and that `BlockchainStorage` implements
  `LedgerStore` (`Implements`).
- `LMDBEnvProofs`: `TypeOK`, `CountExact`, `RefusedForCause`.
- `ZMQServerProofs`: `TypeOK`, `SocketExclusive`, `RegisteredFirst`.
- `P2PNodeProofs`: `TypeOK`, `HandshakeFirst`, `OutgoingBounded`.
- `TransactionValidatorProofs`: `TypeOK`, `SpentOnce`, `CandidateOnce`.
- `PeerDBProofs`: `TypeOK`, `OneInstance`, `IdStable`, `PruneDeletesExpired`,
  `PruneComplete`.
- `ZMQSocketsProofs`: `TypeOK`, `MonitorExact`.
- `WireProofs`: reading back what was written for every list of fields
  (`StructureRead`, `JsonRead`); of `Documents`, `ReadBack`, `JsonReadBack` and
  `CommittedAgrees`; bounds and monotonicity of the fee in size and work (in
  exact arithmetic; see the remark on floats in `NetworkFees`); of
  `BlockSigning`, `BlockReadBack`, `HashFixesBlock` and `ValidIsSigned`.

So every invariant and every action property that a run checks is also a
theorem, and so is the refinement. The theorems about behaviours rest on an
inductive invariant `IInv` (`Inv` and `BlockInv` in `WireProofs`), stated in the
component's module or in its proofs and true of the runs' instances as well.

- *Storage.* `LookupsAgree` says nothing of the open transaction, so a commit
  could break it. `ViewShape` says what `view` is at each point: `db` with
  exactly the puts or dels done so far. That holds because `Locks` makes the
  holder of `view` the only one who can commit, so `db` does not move under
  it, although `rewind` never takes `write_mutex`. A commit then is one step of
  `LedgerStore`. `TxLayout` and `Frames` say that no transaction is ever
  decoded, so `del_block` never deletes one and `BlocksComplete` survives; this
  is a consequence of the two layouts, and a repair of `get_transaction` will
  need a stronger invariant here.
- *Environment.* `RefusedForCause` is about a step of `expand`, which sees a
  count and LMDB's answer. `CountExact` turns the count into threads that have a
  transaction registered, none of them the caller, who has aborted; `WriterIsOpen`
  ties LMDB's writer lock, for which it refuses a new size, to the points where
  a R/W transaction is open, registered or not yet. `CommitFits` carries what a
  write has found out to the commit.
- *Server.* `Locks` says where each thread holds `m_socket_mutex` and which
  thread is left at each point of the destructor, `InHand` what a thread has
  read. `RegisteredFirst` needs `to_delete` to name only clients a send failed
  for.
- *Nodes.* `Owners`: a client's queue holds its owner's packets, with lists the
  server accepts, so no handshake from `connect` is refused. `Unused`: a new
  client has an empty queue. `SteadyShape`: a connection that was never lost
  is waiting for its handshake to be sent, has it at the head of its queue or
  has completed it; `Greeted` keeps the senders away from it until then.
  `Planned`: clients and planned connections together fit the count.
- *Validator.* `SpentOnce` looks at what is stored and a `put_block` adds what
  was checked some time ago. `StillTrue` carries the check along: until the next
  `put_block` a fresh transaction has no key image in the database, and block 0
  is absent for a fresh genesis transaction; a `rewind` removes no key image
  and not block 0. `Staking`: between the lookup of a
  candidate and its put the mutex is held, so it is still absent.
- *Peer database.* `Alone`: while calls do not overlap one thread is in
  `instance()`, the map is empty while it constructs and no destructor runs.
  `SameId`: the object in the map, or on its way there, has the stored id, also
  when its own put failed, unless a constructor of this process could not read
  it (`misread`). `Snapshots`: an entry is the one of the snapshot,
  was written since, or its deletion failed.
- *Sockets.* `MonitorExact` speaks of a host without events under way.
  `Pending` says it of every moment: the last event about a host in the
  queue, or the monitor's set if there is none, agrees with the link. `Sets`
  follows the handlers through their three calls: a host that no handler is at
  is in one set at most (`Disjoint`), and the event in hand has done to the sets
  what `step` says (`SoFar`).

- *Wire format.* What `Written`, `ReadFields`, `Total` and `FlattenSeq` compute
  is defined by recursion over a list, and the library's induction theorems take
  an operator, which the installed provers cannot be given. `LeastNatural` gets
  a least element of a set of numbers from the well-foundedness of `<`,
  `Induction` follows for sets, and each recursive function is shown to exist
  for every length first (`ReadsExist`, `TotalsExist`), so that its recursion
  equation may be used. `StructureRead` then is one induction over the fields:
  after n of them the reader has the first n members and stands where the
  (n+1)-th was written; cut short, it meets the end inside some member.
  `Storable` is what a member's value must be for that: an address as
  `normalize_v4_embedded` leaves it, a vector a sequence whose elements have the
  members of the structure.
- *Documents.* `ReadBack` looks at the reader's object only. `Inv` says that the
  object written is one of its structure with storable members (`IsObject`),
  which assignments, `mine`, `to_committed` and a read that succeeded all keep,
  and that what is under way is that object's bytes, a beginning of them, or its
  JSON. The four methods of each structure agree in their lists (`MethodsOK`,
  the only place where the structures are gone through one by one).
  `CommittedAgrees` follows from `Layout`: both forms are the same digest with
  different suffixes, whose sizes `committed_size` has to add up, and
  the checks of the committed form look at members `to_committed` carries over.
- *Blocks.* `ValidIsSigned` looks at a block and the record of who signed what,
  and the signatures between them have travelled. `BlockInv` says that every
  signature in any copy, or in one that has arrived, is unset, was returned by
  a sign method or is one of random scalars, which fits nothing (`Known`), and
  that each one returned by a sign method was made over the digest of a
  recorded content, under a recorded producer (`Made`). A signature that fits a
  block then has the block's digest; a block's bytes show where each piece of
  them ends (`SelfDelimiting`), so the digest fixes the content, the role and
  the producer. JSON, which writes the producer's signature for every vote,
  keeps `Known` and nothing more, and the invariant survives it for that
  reason.

The assumptions on the constants are named in the modules (`DataAssumption`,
`StorageAssumption`, `EnvAssumption`, `ServerAssumption`, `NodeAssumption`,
`NoneAssumption`, `ValidatorAssumption`, `PeerDBAssumption`,
`SocketsAssumption`, `ConfigAssumption`, `MaxEditsAssumption`,
`BoundsAssumption`, `KeysAssumption`) and TLC evaluates them in every run.
`KeysAssumption` says that no key pair has the public key that stands for an
unset one. No proof uses it: a block signed with such a key would be one without
a producer, which `AsWritten` covers.

What the proofs about hashes and signatures take for granted is in the models:
a hash is the tagged sequence of what was hashed, so two inputs never collide,
and a signature fits one key and one digest.

Only model-checked: liveness (`CallsReturn`, `WritersReturn`, `AnswersSent`,
`Stops`, `Discovery`, `Returns`), since the prover handles neither fairness nor
`ENABLED`.

## Seen while modelling, without a run of its own

Storage and environment:

- `rewind` starts at the block count (`blockchain_storage.cpp:770`), one beyond
  the last index of a chain that starts at 0, so `del_block` fails at once and
  nothing is deleted.
- `del_block` never deletes the reward transaction and its outputs, and fails
  for a block that has other transactions, which `get_block` cannot decode;
  `blockchain_storage.h:209` says "Delete a block and it's transactions from the
  database". `WholeCalls` is about what the code does, see `ApplyDel`.
- Two blocks with one timestamp share an entry, and deleting one of them
  removes it for both.
- An output's record is read in another order than it is written:
  `get_random_outputs` never fills its set and no uncommitted transaction
  validates. The comparison of `unlock_block` (`transaction_validator.cpp:219`)
  would refuse the outputs that are unlocked.
- `drop` retries for ever, holding `m_db_mutex`, when `expand` keeps failing.
- Read transactions are not counted (`db_lmdb.cpp:346`), so the map may be
  replaced under one.

Networking:

- A spurious wakeup ends the loop of every thread that uses `thread_sleep`.
- A client that comes back between a failed broadcast and the erase loop is
  erased all the same (`zmq_server.cpp:277`).
- The first part of a message is sent without `dontwait` (`zmq_server.cpp:233`):
  a client that stays at its high-water mark without reading stops both threads
  and the destructor, because the send keeps the mutex.
- The threads catch `zmq::error_t` only. Any other exception, in
  `incoming_thread` or in the monitor's listener when an event's address is no
  IP address, ends the process.
- `connect` takes any host's notification for its own, and misses one that
  comes before it waits.
- `subscribe` and `unsubscribe` use the socket without its mutex
  (`zmq_subscriber.cpp:210`).
- With more seeds than `DEFAULT_CONNECTION_COUNT` the subtraction in the
  connection manager wraps (`delta_connections`).
- A server that restarts has forgotten its handshakes, and a client whose
  connection ZMQ restores has no reason to send another: its packets are
  dropped until its connection manager finds it disconnected.
- A data packet that a server sends with `reply()` is dropped by its receiver,
  which records no handshake (`p2p_node.cpp:316`).
- `m_completed_handshake` only grows: a peer that a prune has dropped, or whose
  add failed (`p2p_node.cpp:273` ignores the result), stays a completed one that
  the peer list does not have.
- Two first calls of `instance()` that overlap may give a node an object that is
  not in the map, or throw.
- When reading the stored peer id fails for another reason than a missing key
  (`peer_database.cpp:34`), a new id is made and stored over it.
- `prune` deletes a peer that was touched after its snapshot; `add` lets hearsay
  replace a newer sighting; a `last_seen` in the future is never pruned.

Structures:

- `block_t::toJSON` writes the producer's key and signature for every
  validator, so a block does not survive JSON.
- A producer's key without a signature, or a signature without a key, is
  written as no producer at all (`AsWritten`).
- `transaction_stake.h:402` compares a key with itself: every uncommitted stake
  transaction is refused, so `CommittedAgrees` says nothing of what
  its checks would find. With `MAXIMUM_INPUTS` of 1 no transaction has two
  inputs that could be equal.
- `l_type` is never checked on reading, `mine` skips nonce 0, and a validator's
  vote that no longer fits is not replaced by a newer one.
- `is_v4()` is false for an address that `normalize_v4_embedded` has moved.

## Not modelled

See `components` in `PROJECT.json`. Cryptography stays out for good: proofs and
signatures are oracles. UPnP, HTTP, console, logger, errors and addresses wrap
libraries and keep no state that another component relies on. Of LMDB's wrapper
the typed accessors and cursors, which pass their arguments on, are left out, as
are the declarations in the headers. `~Node` is one step, so the order in which
it resets the server and joins its threads is not checked. Two threads in one
socket at once (`subscribe`) is not a state of the model.

## Plan

Done: storage, environment, server, nodes, peer database, sockets, validator and
staking, wire formats and block signing, in this order, with the proofs above.

1. `~Node` step by step: who still uses `m_server` after its reset.
2. `LMDBDatabase`: the handles, cursors and `instance()`, composed with
   `BlockchainStorage`.
3. `P2PNode` as an implementation of an abstract membership specification.
4. The storage with the layouts repaired: what `rewind`, `del_block` and
   `get_random_outputs` promise then.
