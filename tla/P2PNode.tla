------------------------------- MODULE P2PNode -------------------------------
(****************************************************************************)
(* P2P::Node (src/p2p/p2p_node.cpp) and the PeerDB it keeps: nodes that     *)
(* connect to seeds and to peers they learn of, shake hands, exchange peer  *)
(* lists, keep connections alive and pass data packets on.                  *)
(*                                                                          *)
(* A connection is a ZMQClient of node cl with an identity of its own,      *)
(* connected to the ZMQServer of node sv; up and down are its two ordered   *)
(* channels (the queues of client, server and transport taken together).    *)
(* ZMQ reconnects a lost connection under the same identity.  Each node has *)
(* four threads: start's caller or, later, the connection manager, the      *)
(* poller, and the senders of keepalives and of peer exchanges.             *)
(****************************************************************************)
EXTENDS Integers, Sequences, FiniteSets

CONSTANTS
    Nodes,             \* peer ids; also the addresses and the servers' identities
    None,              \* no connection
    Seeds,             \* [Nodes -> SUBSET Nodes]: the seeds given to start
    SeedMode,          \* the nodes in seed mode
    Network,           \* [Nodes -> ...]: m_network_id
    ConnectionCount,   \* DEFAULT_CONNECTION_COUNT
    MaxPeers,          \* MAXIMUM_PEERS_EXCHANGED
    MaxConnects,       \* bound: connections one node makes to another
    MaxStops,          \* bound: how often nodes stop
    MaxLosses,         \* bound: how often connections are lost
    MaxSent,           \* bound: rounds of keepalives, and data packets
    MaxFailures,       \* bound: calls of PeerDB::add that fail
    MaxPrunes          \* bound: prunes asked for at a console

ASSUME NodeAssumption ==
    /\ IsFiniteSet(Nodes)
    /\ Seeds \in [Nodes -> SUBSET Nodes]
    /\ SeedMode \subseteq Nodes
    /\ {ConnectionCount, MaxPeers, MaxConnects} \subseteq Nat \ {0}
    /\ {MaxStops, MaxLosses, MaxSent, MaxFailures, MaxPrunes} \subseteq Nat

Conn == [cl : Nodes, sv : Nodes, id : 1 .. MaxConnects]

ASSUME NoneAssumption == None \notin Conn /\ Nodes \cap Conn = {}

VARIABLES
    pc,            \* what start's caller or the connection manager is doing
    todo,          \* the seeds or peers it has still to connect to
    connecting,    \* the client that connect() is setting up
    greeted,       \* whether its handshake has been sent
    seeded,        \* connected_to_seed
    peers,         \* m_peer_db
    m_clients,
    m_completed_handshake,
    registered,    \* the server's m_connections
    m_messages,    \* data packets for the owner, with their senders
    link,          \* connections that are up
    up, down,      \* packets on their way to the server and to the client
    steady,        \* connections that have never been lost
    connects,      \* connections made between two nodes
    stops, losses, sent, failures, prunes

node_vars == <<pc, todo, connecting, greeted, seeded>>
handler_vars == <<peers, failures, m_completed_handshake, registered, m_messages>>
net_vars == <<link, steady>>
bounds == <<connects, stops, losses, sent, prunes>>
vars == <<node_vars, m_clients, handler_vars, net_vars, up, down, bounds>>

Types == {"handshake", "peer_exchange", "keepalive", "data"}

Packet == [type : Types, peer : Nodes, peers : SUBSET Nodes]

Init ==
    /\ pc = [n \in Nodes |-> "down"]
    /\ todo = [n \in Nodes |-> {}]
    /\ connecting = [n \in Nodes |-> None]
    /\ greeted = [n \in Nodes |-> FALSE]
    /\ seeded = [n \in Nodes |-> FALSE]
    /\ peers = [n \in Nodes |-> {}]
    /\ m_clients = [n \in Nodes |-> {}]
    /\ m_completed_handshake = [n \in Nodes |-> {}]
    /\ registered = [n \in Nodes |-> {}]
    /\ m_messages = [n \in Nodes |-> <<>>]
    /\ link = {} /\ steady = {}
    /\ up = [c \in Conn |-> <<>>] /\ down = [c \in Conn |-> <<>>]
    /\ connects = [e \in Nodes \X Nodes |-> 0]
    /\ stops = 0 /\ losses = 0 /\ sent = 0 /\ failures = 0 /\ prunes = 0

\* m_server is bound and the poller runs
m_running(n) == pc[n] \in {"seeding", "managing", "sleep"}

-----------------------------------------------------------------------------
(* What a node says *)

\* build_peer_list: at most MaxPeers of the peers, in random order
build_peer_list(known) ==
    IF Cardinality(known) <= MaxPeers
    THEN {known}
    ELSE {s \in SUBSET known : Cardinality(s) = MaxPeers}

packet(t, n, list) == [type |-> t, peer |-> n, peers |-> list]

push(channel, c, p) == [channel EXCEPT ![c] = Append(@, p)]

push_all(channel, cs, p) ==
    [c \in Conn |-> IF c \in cs THEN Append(channel[c], p) ELSE channel[c]]

\* Bound: a round of peer exchanges waits for the answers to the last one
quiet(n) == \A c \in m_clients[n] : up[c] = <<>> /\ down[c] = <<>>

-----------------------------------------------------------------------------
(* PeerDB *)

\* add: a node is never put into its own peer list
add(n, ps) == ps \ {n}

\* Those that an entry is added for: the sender, and everyone it names
named(n, p) == add(n, {p.peer} \cup p.peers)

\* Nobody asks what add() returned: an entry seen too long ago is not added,
\* nor is one that the database does not take
learn(n, p) ==
    \E lost \in SUBSET (named(n, p) \ peers[n]) :
        /\ failures + Cardinality(lost) <= MaxFailures
        /\ failures' = failures + Cardinality(lost)
        /\ peers' = [peers EXCEPT ![n] = @ \cup (named(n, p) \ lost)]

\* prune: any of the entries may have expired
prune(n) == \E expired \in SUBSET peers[n] : peers' = [peers EXCEPT ![n] = @ \ expired]

\* The seed node's console
prune_peers(n) ==
    /\ pc[n] \in {"sleep", "managing"}
    /\ prunes < MaxPrunes
    /\ prunes' = prunes + 1
    /\ prune(n)
    /\ UNCHANGED <<node_vars, m_clients, failures, m_completed_handshake, registered, m_messages,
                   net_vars, up, down, connects, stops, losses, sent>>

-----------------------------------------------------------------------------
(* start and connect *)

\* The constructor, which prunes, and the first part of start
start(n) ==
    /\ pc[n] = "down"
    /\ prune(n)
    /\ pc' = [pc EXCEPT ![n] = "seeding"]
    /\ todo' = [todo EXCEPT ![n] = Seeds[n]]
    /\ seeded' = [seeded EXCEPT ![n] = FALSE]
    /\ UNCHANGED <<connecting, greeted, m_clients, failures, m_completed_handshake, registered,
                   m_messages, net_vars, up, down, bounds>>

\* No seed reached and nobody known: start fails and the poller ends.
\* Otherwise the other threads start.
start_done(n) ==
    /\ pc[n] = "seeding" /\ todo[n] = {}
    /\ pc' = [pc EXCEPT ![n] =
                IF n \notin SeedMode /\ ~seeded[n] /\ peers[n] = {} THEN "failed" ELSE "sleep"]
    /\ UNCHANGED <<todo, connecting, greeted, seeded, m_clients, handler_vars, net_vars,
                   up, down, bounds>>

\* The head of the loop over seeds or peers: connect to b
Next_is(n, b) == pc[n] \in {"seeding", "managing"} /\ connecting[n] = None /\ b \in todo[n]

has_client(n, b) == \E c \in m_clients[n] : c.sv = b

\* P2P_DUPE_CONNECT, a connect that times out, or a peer that is ourselves
connect_skip(n, b) ==
    /\ Next_is(n, b)
    /\ todo' = [todo EXCEPT ![n] = @ \ {b}]
    /\ UNCHANGED <<pc, connecting, greeted, seeded, m_clients, handler_vars, net_vars, up, down,
                   bounds>>

\* Mutant: the client is in m_clients before its handshake is sent
connect_early(n, b) ==
    /\ Next_is(n, b)
    /\ ~has_client(n, b)
    /\ pc[b] # "down"
    /\ connects[<<n, b>>] < MaxConnects
    /\ connects' = [connects EXCEPT ![<<n, b>>] = @ + 1]
    /\ LET c == [cl |-> n, sv |-> b, id |-> connects[<<n, b>>] + 1]
       IN  /\ connecting' = [connecting EXCEPT ![n] = c]
           /\ m_clients' = [m_clients EXCEPT ![n] = @ \cup {c}]
           /\ link' = link \cup {c}
           /\ steady' = steady \cup {c}
    /\ UNCHANGED <<pc, todo, greeted, seeded, handler_vars, up, down, stops, losses, sent,
                   prunes>>

connect(n, b) ==
    /\ Next_is(n, b)
    /\ ~has_client(n, b)
    /\ pc[b] # "down"
    /\ connects[<<n, b>>] < MaxConnects
    /\ connects' = [connects EXCEPT ![<<n, b>>] = @ + 1]
    /\ LET c == [cl |-> n, sv |-> b, id |-> connects[<<n, b>>] + 1]
       IN  /\ connecting' = [connecting EXCEPT ![n] = c]
           /\ link' = link \cup {c}
           /\ steady' = steady \cup {c}
    /\ UNCHANGED <<pc, todo, greeted, seeded, m_clients, handler_vars, up, down, stops, losses,
                   sent, prunes>>

\* The handshake goes out before any other thread can find the client
connect_send(n) ==
    /\ connecting[n] # None /\ ~greeted[n]
    /\ \E list \in build_peer_list(peers[n]) :
         up' = push(up, connecting[n], packet("handshake", n, list))
    /\ greeted' = [greeted EXCEPT ![n] = TRUE]
    /\ UNCHANGED <<pc, todo, connecting, seeded, m_clients, handler_vars, net_vars, down, bounds>>

connect_insert(n) ==
    /\ connecting[n] # None /\ greeted[n]
    /\ m_clients' = [m_clients EXCEPT ![n] = @ \cup {connecting[n]}]
    /\ todo' = [todo EXCEPT ![n] = @ \ {connecting[n].sv}]
    /\ connecting' = [connecting EXCEPT ![n] = None]
    /\ greeted' = [greeted EXCEPT ![n] = FALSE]
    /\ seeded' = [seeded EXCEPT ![n] = TRUE]
    /\ UNCHANGED <<pc, handler_vars, net_vars, up, down, bounds>>

-----------------------------------------------------------------------------
(* connection_manager *)

\* Mutant: one too many
delta_connections_over(out) ==
    IF out <= ConnectionCount THEN ConnectionCount + 1 - out ELSE Cardinality(Nodes)

\* DEFAULT_CONNECTION_COUNT - outgoing_connections(), in size_t
delta_connections(out) ==
    IF out <= ConnectionCount THEN ConnectionCount - out ELSE Cardinality(Nodes)

\* m_peer_db->peers(count, network_id): any count of those that qualify
peers_of(n, count) ==
    LET found == {b \in peers[n] : n \in SeedMode \/ Network[b] = Network[n]}
    IN  IF Cardinality(found) <= count
        THEN {found}
        ELSE {s \in SUBSET found : Cardinality(s) = count}

\* One round: destroy the clients that are not connected, make up the number
connection_manager(n) ==
    /\ pc[n] = "sleep"
    /\ LET lost == {c \in m_clients[n] : c \notin link}
           delta == delta_connections(Cardinality(m_clients[n] \ lost))
       IN  /\ m_clients' = [m_clients EXCEPT ![n] = @ \ lost]
           /\ up' = [c \in Conn |-> IF c \in lost THEN <<>> ELSE up[c]]
           /\ \/ /\ delta > 0
                 /\ pc' = [pc EXCEPT ![n] = "managing"]
                 /\ \E ps \in peers_of(n, delta) : todo' = [todo EXCEPT ![n] = ps]
              \/ /\ delta = 0
                 /\ UNCHANGED <<pc, todo>>
    /\ UNCHANGED <<connecting, greeted, seeded, handler_vars, net_vars, down, bounds>>

connection_manager_done(n) ==
    /\ pc[n] = "managing" /\ todo[n] = {}
    /\ pc' = [pc EXCEPT ![n] = "sleep"]
    /\ UNCHANGED <<todo, connecting, greeted, seeded, m_clients, handler_vars, net_vars, up,
                   down, bounds>>

-----------------------------------------------------------------------------
(* poller: packets that clients sent to this node's server.  Each action is *)
(* one kind of packet, from its removal from the queue to the reply.        *)

Served(c, t) ==
    /\ m_running(c.sv)
    /\ c \in link
    /\ up[c] # <<>> /\ Head(up[c]).type = t
    /\ up' = [up EXCEPT ![c] = Tail(@)]
    /\ registered' = [registered EXCEPT ![c.sv] = @ \cup {c}]
    /\ UNCHANGED <<node_vars, m_clients, net_vars, bounds>>

\* A second handshake, one of our own and one with too long a list are dropped
refused(c, p) ==
    \/ c \in m_completed_handshake[c.sv]
    \/ p.peer = c.sv
    \/ Cardinality(p.peers) > MaxPeers

handshake_dropped(c) ==
    /\ Served(c, "handshake")
    /\ refused(c, Head(up[c]))
    /\ UNCHANGED <<peers, failures, m_completed_handshake, m_messages, down>>

handle_handshake(c) ==
    /\ Served(c, "handshake")
    /\ ~refused(c, Head(up[c]))
    /\ learn(c.sv, Head(up[c]))
    /\ \E list \in build_peer_list(peers'[c.sv]) :
         down' = push(down, c, packet("handshake", c.sv, list))
    /\ m_completed_handshake' = [m_completed_handshake EXCEPT ![c.sv] = @ \cup {c}]
    /\ UNCHANGED m_messages

\* "Handshake not completed first, protocol violation", or our own packet
violates(c, p) == c \notin m_completed_handshake[c.sv] \/ p.peer = c.sv

packet_dropped(c, t) ==
    /\ Served(c, t)
    /\ violates(c, Head(up[c]))
    /\ UNCHANGED <<peers, failures, m_completed_handshake, m_messages, down>>

\* Mutant: the answer names no peers
handle_peer_exchange_empty(c) ==
    /\ Served(c, "peer_exchange")
    /\ ~violates(c, Head(up[c]))
    /\ learn(c.sv, Head(up[c]))
    /\ down' = push(down, c, packet("peer_exchange", c.sv, {}))
    /\ UNCHANGED <<m_completed_handshake, m_messages>>

handle_peer_exchange(c) ==
    /\ Served(c, "peer_exchange")
    /\ ~violates(c, Head(up[c]))
    /\ learn(c.sv, Head(up[c]))
    /\ \E list \in build_peer_list(peers'[c.sv]) :
         down' = push(down, c, packet("peer_exchange", c.sv, list))
    /\ UNCHANGED <<m_completed_handshake, m_messages>>

handle_keepalive(c) ==
    /\ Served(c, "keepalive")
    /\ ~violates(c, Head(up[c]))
    /\ down' = push(down, c, packet("keepalive", c.sv, {}))
    /\ UNCHANGED <<peers, failures, m_completed_handshake, m_messages>>

\* Seeds ignore data; data of another network is dropped
data_for(n, p) == n \notin SeedMode /\ Network[p.peer] = Network[n]

handle_data(c) ==
    /\ Served(c, "data")
    /\ m_messages' = IF data_for(c.sv, Head(up[c])) /\ c \in m_completed_handshake[c.sv]
                     THEN [m_messages EXCEPT ![c.sv] = Append(@, c)]
                     ELSE m_messages
    /\ UNCHANGED <<peers, failures, m_completed_handshake, down>>

-----------------------------------------------------------------------------
(* poller: packets that the servers sent to this node's clients; the sender *)
(* is the server's identity                                                 *)

Received(c, t) ==
    /\ m_running(c.cl)
    /\ c \in m_clients[c.cl]
    /\ down[c] # <<>> /\ Head(down[c]).type = t
    /\ down' = [down EXCEPT ![c] = Tail(@)]
    /\ UNCHANGED <<node_vars, m_clients, net_vars, registered, up, bounds>>

\* Mutant: the handshake's answer completes one too
handle_peers_reply_completes(c) ==
    /\ \E t \in {"handshake", "peer_exchange"} : Received(c, t)
    /\ IF c.sv = c.cl \/ Head(down[c]).peer = c.cl THEN UNCHANGED <<peers, failures>>
                                                  ELSE learn(c.cl, Head(down[c]))
    /\ m_completed_handshake' = [m_completed_handshake EXCEPT ![c.cl] = @ \cup {c.sv}]
    /\ UNCHANGED m_messages

\* The client's side completes no handshake
handle_peers_reply(c) ==
    /\ \E t \in {"handshake", "peer_exchange"} : Received(c, t)
    /\ IF c.sv = c.cl \/ Head(down[c]).peer = c.cl THEN UNCHANGED <<peers, failures>>
                                                  ELSE learn(c.cl, Head(down[c]))
    /\ UNCHANGED <<m_completed_handshake, m_messages>>

\* Only PeerDB::touch
handle_keepalive_reply(c) ==
    /\ Received(c, "keepalive")
    /\ UNCHANGED <<peers, failures, m_completed_handshake, m_messages>>

handle_data_reply(c) ==
    /\ Received(c, "data")
    /\ m_messages' = IF /\ data_for(c.cl, Head(down[c]))
                        /\ c.sv \in m_completed_handshake[c.cl]
                        /\ c.sv # c.cl
                     THEN [m_messages EXCEPT ![c.cl] = Append(@, c.sv)]
                     ELSE m_messages
    /\ UNCHANGED <<peers, failures, m_completed_handshake>>

-----------------------------------------------------------------------------
(* The senders, which start after start() is through, and the owner         *)

\* To every server we are connected to, and a poke to all of our clients; the
\* server forgets those that are gone
send_keepalives(n) ==
    /\ pc[n] \in {"sleep", "managing"}
    /\ sent < MaxSent
    /\ sent' = sent + 1
    /\ up' = push_all(up, m_clients[n], packet("keepalive", n, {}))
    /\ down' = push_all(down, registered[n] \cap link, packet("keepalive", n, {}))
    /\ registered' = [registered EXCEPT ![n] = @ \cap link]
    /\ UNCHANGED <<node_vars, m_clients, peers, failures, m_completed_handshake, m_messages,
                   net_vars, connects, stops, losses, prunes>>

\* The request names no peers
send_peer_exchanges(n) ==
    /\ pc[n] \in {"sleep", "managing"}
    /\ quiet(n)
    /\ up' = push_all(up, m_clients[n], packet("peer_exchange", n, {}))
    /\ UNCHANGED <<node_vars, m_clients, handler_vars, net_vars, down, bounds>>

send(n) ==
    /\ pc[n] \in {"sleep", "managing"}
    /\ sent < MaxSent
    /\ sent' = sent + 1
    /\ up' = push_all(up, m_clients[n], packet("data", n, {}))
    /\ UNCHANGED <<node_vars, m_clients, handler_vars, net_vars, down, connects, stops, losses,
                   prunes>>

\* The owner takes a message and answers whoever it came from; the server can
\* reach clients only, and forgets one that is gone
reply(n) ==
    /\ m_running(n) /\ m_messages[n] # <<>>
    /\ m_messages' = [m_messages EXCEPT ![n] = Tail(@)]
    /\ LET from == Head(m_messages[n])
       IN  IF from \in link
           THEN down' = push(down, from, packet("data", n, {})) /\ UNCHANGED registered
           ELSE registered' = [registered EXCEPT ![n] = @ \ {from}] /\ UNCHANGED down
    /\ UNCHANGED <<node_vars, m_clients, peers, failures, m_completed_handshake, net_vars, up,
                   bounds>>

-----------------------------------------------------------------------------
(* Failures *)

\* The process ends: the peer list is in the database, the rest is gone.  What
\* was on its way through a connection of the node is lost with it.
stop(n) ==
    /\ pc[n] # "down"
    /\ stops < MaxStops \/ pc[n] = "failed"
    /\ stops' = IF pc[n] = "failed" THEN stops ELSE stops + 1
    /\ LET cut == {c \in Conn : c.cl = n \/ (c.sv = n /\ c \in link)}
       IN  /\ up' = [c \in Conn |-> IF c \in cut THEN <<>> ELSE up[c]]
           /\ down' = [c \in Conn |-> IF c \in cut THEN <<>> ELSE down[c]]
           /\ link' = link \ cut
           /\ steady' = steady \ cut
    /\ pc' = [pc EXCEPT ![n] = "down"]
    /\ todo' = [todo EXCEPT ![n] = {}]
    /\ connecting' = [connecting EXCEPT ![n] = None]
    /\ greeted' = [greeted EXCEPT ![n] = FALSE]
    /\ m_clients' = [m_clients EXCEPT ![n] = {}]
    /\ m_completed_handshake' = [m_completed_handshake EXCEPT ![n] = {}]
    /\ registered' = [registered EXCEPT ![n] = {}]
    /\ m_messages' = [m_messages EXCEPT ![n] = <<>>]
    /\ UNCHANGED <<seeded, peers, failures, connects, losses, sent, prunes>>

\* The connection is lost, with what the transport held of it
lose(c) ==
    /\ c \in link
    /\ losses < MaxLosses
    /\ losses' = losses + 1
    /\ link' = link \ {c}
    /\ steady' = steady \ {c}
    /\ \E k \in 0 .. Len(up[c]) : up' = [up EXCEPT ![c] = SubSeq(@, k + 1, Len(@))]
    /\ down' = [down EXCEPT ![c] = <<>>]
    /\ UNCHANGED <<node_vars, m_clients, handler_vars, connects, stops, sent, prunes>>

\* ZMQ restores the connection of a client that still exists
restore(c) ==
    /\ c \notin link
    /\ c \in m_clients[c.cl] \/ c = connecting[c.cl]
    /\ pc[c.sv] # "down"
    /\ link' = link \cup {c}
    /\ UNCHANGED <<node_vars, m_clients, handler_vars, steady, up, down, bounds>>

-----------------------------------------------------------------------------
poller(c) ==
    \/ handshake_dropped(c) \/ handle_handshake(c) \/ handle_peer_exchange(c)
    \/ handle_keepalive(c) \/ handle_data(c)
    \/ \E t \in {"peer_exchange", "keepalive"} : packet_dropped(c, t)
    \/ handle_peers_reply(c) \/ handle_keepalive_reply(c) \/ handle_data_reply(c)

caller(n) ==
    \/ start_done(n) \/ connect_send(n) \/ connect_insert(n)
    \/ connection_manager_done(n)
    \/ \E b \in Nodes : connect_skip(n, b) \/ connect(n, b)

Next ==
    \/ \E n \in Nodes : \/ start(n) \/ caller(n) \/ connection_manager(n)
                        \/ send_keepalives(n) \/ send_peer_exchanges(n) \/ send(n)
                        \/ reply(n) \/ prune_peers(n) \/ stop(n)
    \/ \E c \in Conn : poller(c) \/ lose(c) \/ restore(c)

Spec == Init /\ [][Next]_vars

\* The threads of a running node go on, and time passes for its senders
Fairness ==
    /\ \A n \in Nodes : SF_vars(send_peer_exchanges(n)) /\ WF_vars(caller(n))
    /\ \A c \in Conn : WF_vars(poller(c))

FairSpec == Spec /\ Fairness

-----------------------------------------------------------------------------
(* Properties *)

\* Every variable stays in its type; what m_completed_handshake holds are clients
\* of the server, never the server's own identity.
TypeOK ==
    /\ pc \in [Nodes -> {"down", "failed", "seeding", "sleep", "managing"}]
    /\ todo \in [Nodes -> SUBSET Nodes] /\ peers \in [Nodes -> SUBSET Nodes]
    /\ connecting \in [Nodes -> Conn \cup {None}]
    /\ greeted \in [Nodes -> BOOLEAN] /\ seeded \in [Nodes -> BOOLEAN]
    /\ m_clients \in [Nodes -> SUBSET Conn] /\ registered \in [Nodes -> SUBSET Conn]
    /\ m_completed_handshake \in [Nodes -> SUBSET Conn]
    /\ m_messages \in [Nodes -> Seq(Conn \cup Nodes)]
    /\ link \in SUBSET Conn /\ steady \in SUBSET Conn
    /\ up \in [Conn -> Seq(Packet)] /\ down \in [Conn -> Seq(Packet)]
    /\ connects \in [Nodes \X Nodes -> 0 .. MaxConnects]
    /\ stops \in 0 .. MaxStops /\ losses \in 0 .. MaxLosses /\ sent \in 0 .. MaxSent
    /\ failures \in 0 .. MaxFailures /\ prunes \in 0 .. MaxPrunes

\* A node that follows connect() is never accused of a protocol violation: on
\* a connection that was never lost whatever follows the handshake finds it
\* completed, whichever thread sent it.
HandshakeFirst ==
    \A c \in steady :
        /\ c.cl # c.sv /\ up[c] # <<>> /\ Head(up[c]).type # "handshake"
        => c \in m_completed_handshake[c.sv]

\* "Sets the default outbound connection count that we will try to maintain":
\* a node whose seeds fit keeps to that count.
OutgoingBounded ==
    \A n \in Nodes : Cardinality(Seeds[n]) <= ConnectionCount =>
        Cardinality(m_clients[n]) <= ConnectionCount

-----------------------------------------------------------------------------
(* The inductive invariant behind HandshakeFirst and OutgoingBounded.       *)

\* Whose clients they are, and the packets clients send: their own, with a
\* list of peers that the server accepts
Owners ==
    /\ \A n \in Nodes : \A c \in m_clients[n] : c.cl = n
    /\ \A n \in Nodes : connecting[n] # None => connecting[n].cl = n
    /\ \A c \in Conn : \A j \in 1 .. Len(up[c]) :
         up[c][j].peer = c.cl /\ Cardinality(up[c][j].peers) <= MaxPeers

\* Identities are not used again
Unused ==
    \A c \in Conn : c.id > connects[<<c.cl, c.sv>>] =>
        /\ c \notin link \cup steady \cup m_clients[c.cl]
        /\ c # connecting[c.cl]
        /\ up[c] = <<>>

\* The client that connect() is setting up is not in m_clients yet
Greeted ==
    \A n \in Nodes : IF connecting[n] = None THEN ~greeted[n]
                                             ELSE connecting[n] \notin m_clients[n]

\* A connection that was never lost waits for its handshake to be sent, has
\* it under way or has completed it
SteadyShape ==
    \A c \in steady :
        /\ c \in link
        /\ \/ c = connecting[c.cl] /\ ~greeted[c.cl] /\ up[c] = <<>>
           \/ /\ c \in m_clients[c.cl] \/ (c = connecting[c.cl] /\ greeted[c.cl])
              /\ \/ c.cl = c.sv
                 \/ c \in m_completed_handshake[c.sv]
                 \/ up[c] # <<>> /\ Head(up[c]).type = "handshake"

\* The clients a node has and those it is about to make fit the count
Planned ==
    \A n \in Nodes :
        /\ IsFiniteSet(m_clients[n])
        /\ pc[n] = "down" => m_clients[n] = {} /\ connecting[n] = None
        /\ connecting[n] # None => connecting[n].sv \in todo[n]
        /\ pc[n] = "sleep" => todo[n] = {}
        /\ Cardinality(Seeds[n]) <= ConnectionCount =>
             Cardinality(m_clients[n]) + Cardinality(todo[n]) <= ConnectionCount

IInv ==
    /\ TypeOK
    /\ Owners
    /\ Unused
    /\ Greeted
    /\ SteadyShape
    /\ Planned

-----------------------------------------------------------------------------
\* Nodes a and b run and hold on to connections to one running server that
\* shook hands with both
Meet(a, b) ==
    \E ca, cb \in link :
        /\ ca.cl = a /\ cb.cl = b /\ ca.sv = cb.sv
        /\ ca \in m_clients[a] /\ cb \in m_clients[b]
        /\ {ca, cb} \subseteq m_completed_handshake[ca.sv]
        /\ \A n \in {a, b, ca.sv} : pc[n] \in {"sleep", "managing"}

\* Peer exchanges spread the word: two nodes that stay connected to a common
\* server learn of each other, although the server's add() of either, or their
\* own of the other, may fail and a prune may take an entry again.
Discovery ==
    \A a, b \in Nodes : a # b => (<>[]Meet(a, b) => <>(b \in peers[a]))
=============================================================================
