---------------------------- MODULE P2PNodeProofs ----------------------------
(****************************************************************************)
(* P2PNode for any number of nodes, seeds, connections, stops, losses,      *)
(* failing adds and prunes: a node is never accused of skipping the         *)
(* handshake and keeps to its number of outgoing connections.               *)
(****************************************************************************)
EXTENDS P2PNode, TLAPS, FiniteSetTheorems

-----------------------------------------------------------------------------
(* What is sent *)

\* One entry of a function is replaced.
LEMMA Updated ==
    ASSUME NEW D, NEW R, NEW f \in [D -> R], NEW z \in D, NEW v \in R
    PROVE  [f EXCEPT ![z] = v] \in [D -> R]
OBVIOUS

\* A queue takes one more message.
LEMMA Queued ==
    ASSUME NEW S, NEW q \in [Nodes -> Seq(S)], NEW n \in Nodes, NEW m \in S
    PROVE  [q EXCEPT ![n] = Append(@, m)] \in [Nodes -> Seq(S)]
<1>1. Append(q[n], m) \in Seq(S)
  OBVIOUS
<1> QED BY <1>1

\* build_peer_list: a list of peers the receiver accepts.
LEMMA ListFits ==
    ASSUME NEW K \in SUBSET Nodes, NEW list \in build_peer_list(K)
    PROVE  list \in SUBSET Nodes /\ Cardinality(list) <= MaxPeers
BY NodeAssumption DEF build_peer_list

\* A list without peers is accepted.
LEMMA EmptyFits == Cardinality({}) <= MaxPeers
BY FS_EmptySet, NodeAssumption

\* build_handshake and the other packets.
LEMMA PacketType ==
    ASSUME NEW t \in Types, NEW n \in Nodes, NEW list \in SUBSET Nodes
    PROVE  packet(t, n, list) \in Packet
BY DEF packet, Packet

\* ZMQClient::send: a queue takes one more packet.
LEMMA PushType ==
    ASSUME NEW ch \in [Conn -> Seq(Packet)], NEW c \in Conn, NEW p \in Packet
    PROVE  push(ch, c, p) \in [Conn -> Seq(Packet)]
BY DEF push

\* Node::send: all queues of some clients take one more packet.
LEMMA PushAllType ==
    ASSUME NEW ch \in [Conn -> Seq(Packet)], NEW cs, NEW p \in Packet
    PROVE  push_all(ch, cs, p) \in [Conn -> Seq(Packet)]
BY DEF push_all

\* PeerDB::add and prune keep the list a set of nodes, whatever fails.
LEMMA LearnType ==
    ASSUME TypeOK, NEW n \in Nodes, NEW p \in Packet, learn(n, p)
    PROVE  peers' \in [Nodes -> SUBSET Nodes] /\ failures' \in 0 .. MaxFailures
<1>1. PICK lost \in SUBSET (named(n, p) \ peers[n]) :
         /\ failures + Cardinality(lost) <= MaxFailures
         /\ failures' = failures + Cardinality(lost)
         /\ peers' = [peers EXCEPT ![n] = @ \cup (named(n, p) \ lost)]
  BY DEF learn
<1>2. named(n, p) \in SUBSET Nodes
  BY DEF named, add, Packet
<1>3. Cardinality(lost) \in Nat
  BY <1>1, <1>2, NodeAssumption, FS_Subset, FS_CardinalityType
<1>4. failures' \in 0 .. MaxFailures
  BY <1>1, <1>3, NodeAssumption DEF TypeOK
<1>5. peers[n] \cup (named(n, p) \ lost) \in SUBSET Nodes
  BY <1>2 DEF TypeOK
<1> QED BY <1>1, <1>4, <1>5, Updated DEF TypeOK

LEMMA PruneType ==
    ASSUME TypeOK, NEW n \in Nodes, prune(n)
    PROVE  peers' \in [Nodes -> SUBSET Nodes]
BY DEF prune, TypeOK

\* What is left of a queue.
LEMMA RestType ==
    ASSUME NEW ch \in [Conn -> Seq(Packet)], NEW c \in Conn, ch[c] # <<>>
    PROVE  /\ [ch EXCEPT ![c] = Tail(@)] \in [Conn -> Seq(Packet)]
           /\ Head(ch[c]) \in Packet
OBVIOUS

\* PeerDB::peers(count): peers, and no more than count of them.
LEMMA PeersOfFits ==
    ASSUME TypeOK, NEW n \in Nodes, NEW count \in Nat, NEW ps \in peers_of(n, count)
    PROVE  ps \in SUBSET Nodes /\ Cardinality(ps) <= count
<1> DEFINE found == {b \in peers[n] : n \in SeedMode \/ Network[b] = Network[n]}
<1>1. found \in SUBSET Nodes
  BY DEF TypeOK
<1>2. ps \in IF Cardinality(found) <= count THEN {found}
            ELSE {s \in SUBSET found : Cardinality(s) = count}
  BY DEF peers_of
<1> HIDE DEF found
<1> QED BY <1>1, <1>2

\* connection_manager: what is left of the clients, and what is to be made.
LEMMA ManagerStep ==
    ASSUME TypeOK, NEW n \in Nodes, connection_manager(n)
    PROVE  LET kept == m_clients[n] \cap link
               delta == delta_connections(Cardinality(kept))
           IN  /\ pc[n] = "sleep"
               /\ m_clients' = [m_clients EXCEPT ![n] = kept]
               /\ up' = [c \in Conn |-> IF c \in m_clients[n] \ link THEN <<>> ELSE up[c]]
               /\ \/ pc' = pc /\ todo' = todo
                  \/ \E ps \in peers_of(n, delta) : /\ todo' = [todo EXCEPT ![n] = ps]
                                                   /\ pc' = [pc EXCEPT ![n] = "managing"]
               /\ UNCHANGED <<connecting, greeted, seeded, handler_vars, net_vars, down, bounds>>
<1> DEFINE lost == {c \in m_clients[n] : c \notin link}
           kept == m_clients[n] \cap link
           delta == delta_connections(Cardinality(kept))
<1>1. m_clients[n] \ lost = kept /\ lost = m_clients[n] \ link
  OBVIOUS
<1>2. m_clients' = [m_clients EXCEPT ![n] = m_clients[n] \ lost]
  BY DEF connection_manager
<1>3. up' = [c \in Conn |-> IF c \in lost THEN <<>> ELSE up[c]]
  BY DEF connection_manager
<1>4. \/ pc' = pc /\ todo' = todo
      \/ \E ps \in peers_of(n, delta_connections(Cardinality(m_clients[n] \ lost))) :
            todo' = [todo EXCEPT ![n] = ps] /\ pc' = [pc EXCEPT ![n] = "managing"]
  BY DEF connection_manager
<1>5. /\ pc[n] = "sleep"
      /\ UNCHANGED <<connecting, greeted, seeded, handler_vars, net_vars, down, bounds>>
  BY DEF connection_manager
<1> HIDE DEF lost, delta
<1> QED BY <1>1, <1>2, <1>3, <1>4, <1>5 DEF delta

\* DEFAULT_CONNECTION_COUNT - outgoing_connections() never is negative.
LEMMA DeltaType == ASSUME NEW out \in Nat PROVE delta_connections(out) \in Nat
BY NodeAssumption, FS_CardinalityType DEF delta_connections

-----------------------------------------------------------------------------
(* The type invariant, action by action *)

\* start and the connection manager.
LEMMA CallerType ==
    ASSUME IInv, NEW n \in Nodes,
           start(n) \/ caller(n) \/ connection_manager(n)
    PROVE  TypeOK'
<1> USE DEF IInv, TypeOK
<1>1. CASE start(n)
  <2>1. peers' \in [Nodes -> SUBSET Nodes]
    BY <1>1, PruneType DEF start
  <2> QED BY <1>1, <2>1, NodeAssumption DEF start, net_vars, bounds
<1>2. CASE start_done(n)
  BY <1>2 DEF start_done, handler_vars, net_vars, bounds
<1>3. CASE connect_send(n)
  <2>1. connecting[n] \in Conn
    BY <1>3 DEF connect_send
  <2>2. PICK list \in build_peer_list(peers[n]) :
           up' = push(up, connecting[n], packet("handshake", n, list))
    BY <1>3 DEF connect_send
  <2>3. packet("handshake", n, list) \in Packet
    BY ListFits, PacketType DEF Types
  <2>4. up' \in [Conn -> Seq(Packet)]
    BY <2>1, <2>2, <2>3, PushType
  <2> QED BY <1>3, <2>4 DEF connect_send, handler_vars, net_vars, bounds
<1>4. CASE connect_insert(n)
  BY <1>4 DEF connect_insert, handler_vars, net_vars, bounds
<1>5. CASE connection_manager_done(n)
  BY <1>5 DEF connection_manager_done, handler_vars, net_vars, bounds
<1>6. ASSUME NEW b \in Nodes, connect_skip(n, b) PROVE TypeOK'
  BY <1>6 DEF connect_skip, handler_vars, net_vars, bounds
<1>7. ASSUME NEW b \in Nodes, connect(n, b) PROVE TypeOK'
  <2> DEFINE new == [cl |-> n, sv |-> b, id |-> connects[<<n, b>>] + 1]
  <2>1. connects[<<n, b>>] \in 0 .. MaxConnects /\ connects[<<n, b>>] < MaxConnects
    BY <1>7 DEF connect
  <2>2. new \in Conn
    BY <2>1, NodeAssumption DEF Conn
  <2>3. connects' \in [Nodes \X Nodes -> 0 .. MaxConnects]
    <3>1. /\ connects' = [connects EXCEPT ![<<n, b>>] = @ + 1]
          /\ connects \in [Nodes \X Nodes -> 0 .. MaxConnects]
      BY <1>7 DEF connect
    <3>2. <<n, b>> \in Nodes \X Nodes /\ MaxConnects \in Nat
      BY <1>7, NodeAssumption
    <3>3. connects[<<n, b>>] + 1 \in 0 .. MaxConnects
      BY <2>1, <3>2
    <3> HIDE DEF IInv, TypeOK
    <3> QED BY <3>1, <3>2, <3>3
  <2>4. /\ connecting' = [connecting EXCEPT ![n] = new]
        /\ link' = link \cup {new} /\ steady' = steady \cup {new}
    BY <1>7 DEF connect
  <2> HIDE DEF new
  <2>5. /\ connecting' \in [Nodes -> Conn \cup {None}]
        /\ link' \in SUBSET Conn /\ steady' \in SUBSET Conn
    BY <2>2, <2>4
  <2>6. UNCHANGED <<pc, todo, greeted, seeded, m_clients, handler_vars, up, down, stops, losses,
                   sent, prunes>>
    BY <1>7 DEF connect
  <2> QED BY <2>3, <2>5, <2>6 DEF handler_vars
<1>8. CASE connection_manager(n)
  <2> DEFINE delta == delta_connections(Cardinality(m_clients[n] \cap link))
  <2>1. TypeOK /\ IsFiniteSet(m_clients[n])
    BY DEF Planned
  <2>2. delta \in Nat
    BY <2>1, FS_Intersection, FS_CardinalityType, DeltaType
  <2> HIDE DEF TypeOK, IInv
  <2>3. /\ m_clients' = [m_clients EXCEPT ![n] = m_clients[n] \cap link]
        /\ up' = [c \in Conn |-> IF c \in m_clients[n] \ link THEN <<>> ELSE up[c]]
        /\ \/ pc' = pc /\ todo' = todo
           \/ \E ps \in peers_of(n, delta) : /\ todo' = [todo EXCEPT ![n] = ps]
                                            /\ pc' = [pc EXCEPT ![n] = "managing"]
        /\ UNCHANGED <<connecting, greeted, seeded, handler_vars, net_vars, down, bounds>>
    BY <1>8, <2>1, ManagerStep
  <2> HIDE DEF delta
  <2>4. \A ps \in peers_of(n, delta) : ps \in SUBSET Nodes
    BY <2>1, <2>2, PeersOfFits
  <2> USE DEF TypeOK
  <2>5. todo' \in [Nodes -> SUBSET Nodes]
    <3>1. CASE todo' = todo
      BY <2>1, <3>1
    <3>2. ASSUME NEW ps \in peers_of(n, delta), todo' = [todo EXCEPT ![n] = ps]
          PROVE  todo' \in [Nodes -> SUBSET Nodes]
      BY <2>1, <2>4, <3>2
    <3> QED BY <2>3, <3>1, <3>2
  <2>6. pc' \in [Nodes -> {"down", "failed", "seeding", "sleep", "managing"}]
    BY <2>1, <2>3
  <2>7. m_clients' \in [Nodes -> SUBSET Conn]
    BY <2>1, <2>3
  <2>8. up' \in [Conn -> Seq(Packet)]
    BY <2>1, <2>3
  <2> QED BY <2>1, <2>3, <2>5, <2>6, <2>7, <2>8 DEF handler_vars, net_vars, bounds
<1> QED BY <1>1, <1>2, <1>3, <1>4, <1>5, <1>6, <1>7, <1>8 DEF caller

\* The poller: what it takes from a queue, and what it leaves alone.
LEMMA ServedStep ==
    ASSUME TypeOK, NEW c \in Conn, NEW t \in Types, Served(c, t)
    PROVE  /\ c \in link /\ up[c] # <<>> /\ Head(up[c]) \in Packet /\ Head(up[c]).type = t
           /\ c.sv \in Nodes /\ c.cl \in Nodes
           /\ up' = [up EXCEPT ![c] = Tail(@)]
           /\ up' \in [Conn -> Seq(Packet)]
           /\ registered' \in [Nodes -> SUBSET Conn]
           /\ UNCHANGED <<node_vars, m_clients, net_vars, bounds>>
<1>1. /\ c \in link /\ up[c] # <<>> /\ Head(up[c]).type = t
      /\ up' = [up EXCEPT ![c] = Tail(@)]
      /\ registered' = [registered EXCEPT ![c.sv] = @ \cup {c}]
      /\ UNCHANGED <<node_vars, m_clients, net_vars, bounds>>
  BY DEF Served
<1>2. up \in [Conn -> Seq(Packet)] /\ registered \in [Nodes -> SUBSET Conn]
  BY DEF TypeOK
<1>3. c.sv \in Nodes /\ c.cl \in Nodes
  BY DEF Conn
<1>4. Head(up[c]) \in Packet /\ up' \in [Conn -> Seq(Packet)]
  BY <1>1, <1>2, RestType
<1>5. registered' \in [Nodes -> SUBSET Conn]
  BY <1>1, <1>2, <1>3
<1> QED BY <1>1, <1>3, <1>4, <1>5

LEMMA ReceivedStep ==
    ASSUME TypeOK, NEW c \in Conn, NEW t \in Types, Received(c, t)
    PROVE  /\ down[c] # <<>> /\ Head(down[c]) \in Packet
           /\ c.sv \in Nodes /\ c.cl \in Nodes
           /\ down' \in [Conn -> Seq(Packet)]
           /\ UNCHANGED <<node_vars, m_clients, net_vars, registered, up, bounds>>
<1>1. /\ down[c] # <<>>
      /\ down' = [down EXCEPT ![c] = Tail(@)]
      /\ UNCHANGED <<node_vars, m_clients, net_vars, registered, up, bounds>>
  BY DEF Received
<1>2. down \in [Conn -> Seq(Packet)]
  BY DEF TypeOK
<1>3. c.sv \in Nodes /\ c.cl \in Nodes
  BY DEF Conn
<1>4. Head(down[c]) \in Packet /\ down' \in [Conn -> Seq(Packet)]
  BY <1>1, <1>2, RestType
<1> QED BY <1>1, <1>3, <1>4

\* A packet from a client: peers are learnt, the answer is queued.
LEMMA ServerType ==
    ASSUME IInv, NEW c \in Conn,
           \/ handshake_dropped(c) \/ handle_handshake(c) \/ handle_peer_exchange(c)
           \/ handle_keepalive(c) \/ handle_data(c)
           \/ \E t \in {"peer_exchange", "keepalive"} : packet_dropped(c, t)
    PROVE  TypeOK'
<1>1. PICK t \in Types : Served(c, t)
  BY DEF handshake_dropped, handle_handshake, handle_peer_exchange, handle_keepalive,
         handle_data, packet_dropped, Types
<1>2. TypeOK
  BY DEF IInv
<1>3. /\ c.sv \in Nodes /\ Head(up[c]) \in Packet
      /\ up' \in [Conn -> Seq(Packet)] /\ registered' \in [Nodes -> SUBSET Conn]
      /\ UNCHANGED <<node_vars, m_clients, net_vars, bounds>>
  BY <1>1, <1>2, ServedStep
<1>4. /\ peers' \in [Nodes -> SUBSET Nodes] /\ failures' \in 0 .. MaxFailures
      /\ m_completed_handshake' \in [Nodes -> SUBSET Conn]
  <2>1. CASE handle_handshake(c) \/ handle_peer_exchange(c)
    <3>1. learn(c.sv, Head(up[c]))
      BY <2>1 DEF handle_handshake, handle_peer_exchange
    <3>3. \/ m_completed_handshake' = m_completed_handshake
          \/ m_completed_handshake' = [m_completed_handshake EXCEPT ![c.sv] = @ \cup {c}]
      BY <2>1 DEF handle_handshake, handle_peer_exchange
    <3>4. m_completed_handshake \in [Nodes -> SUBSET Conn]
      BY <1>2 DEF TypeOK
    <3>5. peers' \in [Nodes -> SUBSET Nodes] /\ failures' \in 0 .. MaxFailures
      BY <1>2, <1>3, <3>1, LearnType
    <3>6. m_completed_handshake' \in [Nodes -> SUBSET Conn]
      BY <1>3, <3>3, <3>4
    <3> QED BY <3>5, <3>6
  <2>2. CASE ~(handle_handshake(c) \/ handle_peer_exchange(c))
    BY <1>2, <2>2 DEF handshake_dropped, packet_dropped, handle_keepalive, handle_data, TypeOK
  <2> QED BY <2>1, <2>2
<1>5. down' \in [Conn -> Seq(Packet)]
  <2>1. down' = down \/ \E list \in SUBSET Nodes, u \in Types :
                           down' = push(down, c, packet(u, c.sv, list))
    <3>1. \A list \in build_peer_list(peers'[c.sv]) : list \in SUBSET Nodes
      BY <1>3, <1>4, ListFits
    <3>2. CASE handle_handshake(c)
      BY <3>1, <3>2 DEF handle_handshake, Types
    <3>3. CASE handle_peer_exchange(c)
      BY <3>1, <3>3 DEF handle_peer_exchange, Types
    <3>4. CASE handle_keepalive(c)
      BY <3>4 DEF handle_keepalive, Types
    <3> QED BY <3>2, <3>3, <3>4 DEF handshake_dropped, packet_dropped, handle_data
  <2>2. down \in [Conn -> Seq(Packet)]
    BY <1>2 DEF TypeOK
  <2>3. \A list \in SUBSET Nodes, u \in Types : packet(u, c.sv, list) \in Packet
    BY <1>3, PacketType
  <2>4. \A q \in Packet : push(down, c, q) \in [Conn -> Seq(Packet)]
    BY <2>2, PushType
  <2> QED BY <2>1, <2>2, <2>3, <2>4
<1>6. m_messages' \in [Nodes -> Seq(Conn \cup Nodes)]
  <2>1. \/ m_messages' = m_messages
        \/ m_messages' = [m_messages EXCEPT ![c.sv] = Append(@, c)]
    BY DEF handshake_dropped, handle_handshake, handle_peer_exchange, handle_keepalive,
           handle_data, packet_dropped
  <2> DEFINE Senders == Conn \cup Nodes
  <2>2. m_messages \in [Nodes -> Seq(Senders)]
    BY <1>2 DEF TypeOK
  <2>3. c.sv \in Nodes /\ c \in Senders
    BY <1>3
  <2> HIDE DEF Senders
  <2>4. [m_messages EXCEPT ![c.sv] = Append(@, c)] \in [Nodes -> Seq(Senders)]
    BY <2>2, <2>3, Queued
  <2>5. m_messages' \in [Nodes -> Seq(Senders)]
    BY <2>1, <2>2, <2>4
  <2> QED BY <2>5 DEF Senders
<1> QED BY <1>2, <1>3, <1>4, <1>5, <1>6 DEF TypeOK, node_vars, net_vars, bounds

\* A packet from a server.
LEMMA ClientType ==
    ASSUME IInv, NEW c \in Conn,
           handle_peers_reply(c) \/ handle_keepalive_reply(c) \/ handle_data_reply(c)
    PROVE  TypeOK'
<1>1. PICK t \in Types : Received(c, t)
  BY DEF handle_peers_reply, handle_keepalive_reply, handle_data_reply, Types
<1>2. TypeOK
  BY DEF IInv
<1>3. /\ c.cl \in Nodes /\ c.sv \in Nodes /\ Head(down[c]) \in Packet
      /\ down' \in [Conn -> Seq(Packet)]
      /\ UNCHANGED <<node_vars, m_clients, net_vars, registered, up, bounds>>
  BY <1>1, <1>2, ReceivedStep
<1>4. /\ peers' \in [Nodes -> SUBSET Nodes] /\ failures' \in 0 .. MaxFailures
      /\ UNCHANGED m_completed_handshake
  <2>1. /\ UNCHANGED <<peers, failures>> \/ learn(c.cl, Head(down[c]))
        /\ UNCHANGED m_completed_handshake
    BY DEF handle_peers_reply, handle_keepalive_reply, handle_data_reply
  <2>2. CASE UNCHANGED <<peers, failures>>
    BY <1>2, <2>1, <2>2 DEF TypeOK
  <2>3. CASE learn(c.cl, Head(down[c]))
    BY <1>2, <1>3, <2>1, <2>3, LearnType
  <2> QED BY <2>1, <2>2, <2>3
<1>5. m_messages' \in [Nodes -> Seq(Conn \cup Nodes)]
  <2>1. \/ m_messages' = m_messages
        \/ m_messages' = [m_messages EXCEPT ![c.cl] = Append(@, c.sv)]
    BY DEF handle_peers_reply, handle_keepalive_reply, handle_data_reply
  <2> DEFINE Senders == Conn \cup Nodes
  <2>2. m_messages \in [Nodes -> Seq(Senders)]
    BY <1>2 DEF TypeOK
  <2>3. c.cl \in Nodes /\ c.sv \in Senders
    BY <1>3
  <2> HIDE DEF Senders
  <2>4. [m_messages EXCEPT ![c.cl] = Append(@, c.sv)] \in [Nodes -> Seq(Senders)]
    BY <2>2, <2>3, Queued
  <2>5. m_messages' \in [Nodes -> Seq(Senders)]
    BY <2>1, <2>2, <2>4
  <2> QED BY <2>5 DEF Senders
<1> QED BY <1>2, <1>3, <1>4, <1>5 DEF TypeOK, node_vars, net_vars, bounds

\* The senders and the owner.
LEMMA SenderType ==
    ASSUME IInv, NEW n \in Nodes,
           send_keepalives(n) \/ send_peer_exchanges(n) \/ send(n) \/ reply(n) \/ prune_peers(n)
    PROVE  TypeOK'
<1>1. TypeOK
  BY DEF IInv
<1>2. \A t \in Types : packet(t, n, {}) \in Packet
  BY PacketType
<1>3. CASE send_keepalives(n)
  <2>1. up' \in [Conn -> Seq(Packet)] /\ down' \in [Conn -> Seq(Packet)]
    BY <1>1, <1>2, <1>3, PushAllType DEF send_keepalives, Types, TypeOK
  <2>2. sent' \in 0 .. MaxSent
    BY <1>1, <1>3, NodeAssumption DEF send_keepalives, TypeOK
  <2>3. registered' \in [Nodes -> SUBSET Conn]
    BY <1>1, <1>3 DEF send_keepalives, TypeOK
  <2> QED BY <1>1, <1>3, <2>1, <2>2, <2>3 DEF send_keepalives, TypeOK, node_vars, net_vars
<1>4. CASE send_peer_exchanges(n)
  <2>1. up' \in [Conn -> Seq(Packet)]
    BY <1>1, <1>2, <1>4, PushAllType DEF send_peer_exchanges, Types, TypeOK
  <2> QED BY <1>1, <1>4, <2>1 DEF send_peer_exchanges, TypeOK, node_vars, handler_vars, net_vars,
             bounds
<1>5. CASE send(n)
  <2>1. up' \in [Conn -> Seq(Packet)]
    BY <1>1, <1>2, <1>5, PushAllType DEF send, Types, TypeOK
  <2> QED BY <1>1, <1>5, <2>1, NodeAssumption DEF send, TypeOK, node_vars, handler_vars, net_vars
<1>6. CASE reply(n)
  <2> DEFINE from == Head(m_messages[n])
  <2>1. m_messages' \in [Nodes -> Seq(Conn \cup Nodes)]
    BY <1>1, <1>6 DEF reply, TypeOK
  <2>2. down' \in [Conn -> Seq(Packet)]
    <3>1. down' = down \/ (from \in link /\ down' = push(down, from, packet("data", n, {})))
      BY <1>6 DEF reply
    <3>2. link \subseteq Conn /\ down \in [Conn -> Seq(Packet)]
      BY <1>1 DEF TypeOK
    <3> HIDE DEF from
    <3> QED BY <1>2, <3>1, <3>2, PushType DEF Types
  <2>3. registered' \in [Nodes -> SUBSET Conn]
    <3>1. registered' = registered \/ registered' = [registered EXCEPT ![n] = @ \ {from}]
      BY <1>6 DEF reply
    <3>2. registered \in [Nodes -> SUBSET Conn]
      BY <1>1 DEF TypeOK
    <3> HIDE DEF from
    <3> QED BY <3>1, <3>2
  <2> QED BY <1>1, <1>6, <2>1, <2>2, <2>3 DEF reply, TypeOK, node_vars, net_vars, bounds
<1>7. CASE prune_peers(n)
  <2>1. peers' \in [Nodes -> SUBSET Nodes]
    BY <1>1, <1>7, PruneType DEF prune_peers
  <2>2. prunes' \in 0 .. MaxPrunes
    BY <1>1, <1>7, NodeAssumption DEF prune_peers, TypeOK
  <2> QED BY <1>1, <1>7, <2>1, <2>2 DEF prune_peers, TypeOK, node_vars, net_vars
<1> QED BY <1>3, <1>4, <1>5, <1>6, <1>7

\* Stops, losses and reconnects.
LEMMA FailureType ==
    ASSUME IInv,
           \/ \E n \in Nodes : stop(n)
           \/ \E c \in Conn : lose(c) \/ restore(c)
    PROVE  TypeOK'
<1>1. TypeOK
  BY DEF IInv
<1>2. ASSUME NEW n \in Nodes, stop(n) PROVE TypeOK'
  <2>1. up' \in [Conn -> Seq(Packet)] /\ down' \in [Conn -> Seq(Packet)]
    <3> DEFINE cut == {c \in Conn : c.cl = n \/ (c.sv = n /\ c \in link)}
    <3>1. /\ up' = [c \in Conn |-> IF c \in cut THEN <<>> ELSE up[c]]
          /\ down' = [c \in Conn |-> IF c \in cut THEN <<>> ELSE down[c]]
      BY <1>2 DEF stop
    <3>2. up \in [Conn -> Seq(Packet)] /\ down \in [Conn -> Seq(Packet)]
      BY <1>1 DEF TypeOK
    <3> HIDE DEF cut
    <3> QED BY <3>1, <3>2
  <2>2. link' \in SUBSET Conn /\ steady' \in SUBSET Conn
    BY <1>1, <1>2 DEF stop, TypeOK
  <2>3. stops' \in 0 .. MaxStops
    BY <1>1, <1>2, NodeAssumption DEF stop, TypeOK
  <2>4. /\ m_clients' \in [Nodes -> SUBSET Conn] /\ registered' \in [Nodes -> SUBSET Conn]
        /\ m_completed_handshake' \in [Nodes -> SUBSET Conn]
        /\ todo' \in [Nodes -> SUBSET Nodes]
    BY <1>1, <1>2 DEF stop, TypeOK
  <2>7. m_messages' \in [Nodes -> Seq(Conn \cup Nodes)]
    <3>1. m_messages' = [m_messages EXCEPT ![n] = <<>>]
      BY <1>2 DEF stop
    <3>2. m_messages \in [Nodes -> Seq(Conn \cup Nodes)]
      BY <1>1 DEF TypeOK
    <3> QED BY <3>1, <3>2
  <2>5. /\ pc' \in [Nodes -> {"down", "failed", "seeding", "sleep", "managing"}]
        /\ connecting' \in [Nodes -> Conn \cup {None}] /\ greeted' \in [Nodes -> BOOLEAN]
    BY <1>1, <1>2 DEF stop, TypeOK
  <2>6. UNCHANGED <<seeded, peers, failures, connects, losses, sent, prunes>>
    BY <1>2 DEF stop
  <2> QED BY <1>1, <2>1, <2>2, <2>3, <2>4, <2>5, <2>6, <2>7 DEF TypeOK
<1>3. ASSUME NEW c \in Conn, lose(c) PROVE TypeOK'
  <2>1. up' \in [Conn -> Seq(Packet)]
    <3>1. PICK m \in 0 .. Len(up[c]) : up' = [up EXCEPT ![c] = SubSeq(@, m + 1, Len(@))]
      BY <1>3 DEF lose
    <3>2. SubSeq(up[c], m + 1, Len(up[c])) \in Seq(Packet)
      BY <1>1 DEF TypeOK
    <3> QED BY <1>1, <3>1, <3>2 DEF TypeOK
  <2>2. losses' \in 0 .. MaxLosses
    BY <1>1, <1>3, NodeAssumption DEF lose, TypeOK
  <2> QED BY <1>1, <1>3, <2>1, <2>2 DEF lose, TypeOK, node_vars, handler_vars
<1>4. ASSUME NEW c \in Conn, restore(c) PROVE TypeOK'
  BY <1>1, <1>4 DEF restore, TypeOK, node_vars, handler_vars, bounds
<1> QED BY <1>2, <1>3, <1>4

-----------------------------------------------------------------------------
(* The rest of the invariant, action by action.  The parts an action cannot *)
(* disturb follow from what it leaves unchanged.                            *)

LinkParts == Owners /\ Unused /\ Greeted /\ SteadyShape

\* The first packet of a queue is its owner's.
LEMMA FirstPacket ==
    ASSUME TypeOK, Owners, NEW c \in Conn, up[c] # <<>>
    PROVE  /\ Head(up[c]) \in Packet
           /\ Head(up[c]).peer = c.cl /\ Cardinality(Head(up[c]).peers) <= MaxPeers
<1>1. up[c] \in Seq(Packet)
  BY DEF TypeOK
<1>2. 1 \in 1 .. Len(up[c]) /\ Head(up[c]) = up[c][1] /\ Head(up[c]) \in Packet
  BY <1>1
<1> QED BY <1>2 DEF Owners

\* handle_packet(handshake) refuses no handshake that connect() sent, unless
\* it has been completed before or came from the node itself.
LEMMA HandshakeAccepted ==
    ASSUME TypeOK, Owners, NEW c \in Conn, up[c] # <<>>, c.cl # c.sv,
           c \notin m_completed_handshake[c.sv]
    PROVE  ~refused(c, Head(up[c]))
<1> DEFINE p == Head(up[c])
<1>1. p \in Packet /\ p.peer = c.cl /\ Cardinality(p.peers) <= MaxPeers
  BY FirstPacket
<1>2. p.peers \in SUBSET Nodes
  BY <1>1 DEF Packet
<1>3. Cardinality(p.peers) \in Nat
  BY <1>2, NodeAssumption, FS_Subset, FS_CardinalityType
<1> HIDE DEF p
<1>4. ~(Cardinality(p.peers) > MaxPeers)
  BY <1>1, <1>3, NodeAssumption
<1> QED BY <1>1, <1>4 DEF refused, p

\* Steps that leave handshakes, clients and connections alone.
LEMMA LinkFrame ==
    ASSUME LinkParts,
           UNCHANGED <<m_clients, connecting, greeted, up, link, steady, connects,
                       m_completed_handshake>>
    PROVE  LinkParts'
BY DEF LinkParts, Owners, Unused, Greeted, SteadyShape

LEMMA PlanFrame ==
    ASSUME Planned, UNCHANGED <<m_clients, connecting, pc, todo>> PROVE Planned'
BY DEF Planned

\* A packet is put into the queue of a client that has been greeted, or the
\* handshake into that of one that has not.
LEMMA SendKeeps ==
    ASSUME TypeOK, LinkParts, NEW n \in Nodes, NEW p \in Packet,
           p.peer = n, Cardinality(p.peers) <= MaxPeers,
           up' = push_all(up, m_clients[n], p),
           UNCHANGED <<m_clients, connecting, greeted, link, steady, connects,
                       m_completed_handshake>>
    PROVE  LinkParts'
<1> USE DEF LinkParts
<1>1. \A c \in Conn : up[c] \in Seq(Packet)
  BY DEF TypeOK
<1>2. \A c \in Conn : up'[c] = IF c \in m_clients[n] THEN Append(up[c], p) ELSE up[c]
  BY DEF push_all
<1>3. \A c \in m_clients[n] : c \in Conn /\ c.cl = n
  BY DEF TypeOK, Owners
<1>4. Owners'
  <2>1. ASSUME NEW c \in Conn, NEW j \in 1 .. Len(up'[c])
        PROVE  up'[c][j].peer = c.cl /\ Cardinality(up'[c][j].peers) <= MaxPeers
    <3>1. CASE c \in m_clients[n]
      <4>1. up'[c] = Append(up[c], p) /\ Len(up'[c]) = Len(up[c]) + 1
        <5>1. up'[c] = Append(up[c], p) /\ up[c] \in Seq(Packet)
          BY <1>1, <1>2, <3>1
        <5> QED BY <5>1
      <4>2. CASE j = Len(up[c]) + 1
        <5>1. up'[c][j] = p
          BY <1>1, <4>1, <4>2
        <5> QED BY <1>3, <3>1, <5>1
      <4>3. CASE j # Len(up[c]) + 1
        <5>1. up'[c][j] = up[c][j] /\ j \in 1 .. Len(up[c])
          BY <1>1, <2>1, <4>1, <4>3
        <5> QED BY <5>1 DEF Owners
      <4> QED BY <4>2, <4>3
    <3>2. CASE c \notin m_clients[n]
      BY <1>2, <2>1, <3>2 DEF Owners
    <3> QED BY <3>1, <3>2
  <2> QED BY <2>1 DEF Owners
<1>5. Unused'
  BY <1>2, <1>3 DEF Unused
<1>6. Greeted'
  BY DEF Greeted
<1>7. SteadyShape'
  <2> SUFFICES ASSUME NEW c \in steady
               PROVE  /\ c \in link
                      /\ \/ c = connecting[c.cl] /\ ~greeted[c.cl] /\ up'[c] = <<>>
                         \/ /\ c \in m_clients[c.cl] \/ (c = connecting[c.cl] /\ greeted[c.cl])
                            /\ \/ c.cl = c.sv
                               \/ c \in m_completed_handshake[c.sv]
                               \/ up'[c] # <<>> /\ Head(up'[c]).type = "handshake"
    BY DEF SteadyShape
  <2>1. c \in Conn
    BY DEF TypeOK
  <2>2. CASE c \notin m_clients[n]
    BY <1>2, <2>1, <2>2 DEF SteadyShape
  <2>3. CASE c \in m_clients[n]
    <3>1. up'[c] = Append(up[c], p) /\ c.cl = n
      BY <1>2, <1>3, <2>1, <2>3
    <3>2. c # connecting[c.cl]
      <4>1. c # None
        BY <2>1, NoneAssumption
      <4> QED BY <2>3, <3>1, <4>1 DEF Greeted
    <3>3. \/ c.cl = c.sv
          \/ c \in m_completed_handshake[c.sv]
          \/ up[c] # <<>> /\ Head(up[c]).type = "handshake"
      BY <3>2 DEF SteadyShape
    <3>4. up[c] # <<>> => up'[c] # <<>> /\ Head(up'[c]) = Head(up[c])
      BY <1>1, <2>1, <3>1
    <3>5. c \in link
      BY DEF SteadyShape
    <3> QED BY <2>3, <3>1, <3>3, <3>4, <3>5
  <2> QED BY <2>2, <2>3
<1> QED BY <1>4, <1>5, <1>6, <1>7

\* start and connect.
LEMMA ConnectSendKeeps ==
    ASSUME IInv, NEW n \in Nodes, connect_send(n)
    PROVE  LinkParts'
<1> DEFINE me == connecting[n]
<1>1. TypeOK /\ Owners /\ Unused /\ Greeted /\ SteadyShape
  BY DEF IInv
<1>2. me \in Conn /\ me.cl = n /\ me # None /\ ~greeted[n]
  BY <1>1 DEF connect_send, TypeOK, Owners
<1>3. PICK list \in build_peer_list(peers[n]) : up' = push(up, me, packet("handshake", n, list))
  BY DEF connect_send
<1> DEFINE p == packet("handshake", n, list)
<1>4. p.peer = n /\ p.type = "handshake" /\ Cardinality(p.peers) <= MaxPeers
  <2>1. peers[n] \in SUBSET Nodes
    BY <1>1 DEF TypeOK
  <2> QED BY <2>1, ListFits DEF packet
<1>5. p \in Packet
  <2>1. peers[n] \in SUBSET Nodes
    BY <1>1 DEF TypeOK
  <2> QED BY <2>1, ListFits, PacketType DEF Types
<1>6. \A c \in Conn : up[c] \in Seq(Packet)
  BY <1>1 DEF TypeOK
<1> HIDE DEF p
<1>7. up'[me] = Append(up[me], p) /\ \A c \in Conn : c # me => up'[c] = up[c]
  <2>1. up' = [up EXCEPT ![me] = Append(@, p)]
    BY <1>3 DEF push, p
  <2>2. DOMAIN up = Conn
    BY <1>1 DEF TypeOK
  <2> QED BY <1>2, <2>1, <2>2
<1>8. /\ UNCHANGED <<connecting, m_clients, m_completed_handshake, link, steady, connects>>
      /\ greeted' = [greeted EXCEPT ![n] = TRUE]
  BY DEF connect_send, handler_vars, net_vars, bounds
<1>9. Owners'
  <2>1. ASSUME NEW c \in Conn, NEW j \in 1 .. Len(up'[c])
        PROVE  up'[c][j].peer = c.cl /\ Cardinality(up'[c][j].peers) <= MaxPeers
    <3>1. CASE c = me
      <4>1. up'[c] = Append(up[c], p) /\ up[c] \in Seq(Packet)
        BY <1>6, <1>7, <3>1
      <4>2. Len(up'[c]) = Len(up[c]) + 1
        BY <4>1
      <4>3. CASE j = Len(up[c]) + 1
        <5>1. up'[c][j] = p
          BY <4>1, <4>3
        <5> QED BY <1>2, <1>4, <3>1, <5>1
      <4>4. CASE j # Len(up[c]) + 1
        <5>1. up'[c][j] = up[c][j] /\ j \in 1 .. Len(up[c])
          BY <2>1, <4>1, <4>2, <4>4
        <5> QED BY <1>1, <5>1 DEF Owners
      <4> QED BY <4>3, <4>4
    <3>2. CASE c # me
      BY <1>1, <1>7, <2>1, <3>2 DEF Owners
    <3> QED BY <3>1, <3>2
  <2> QED BY <1>1, <1>8, <2>1 DEF Owners
<1>10. Unused'
  BY <1>1, <1>2, <1>7, <1>8 DEF Unused
<1>11. Greeted'
  <2>1. \A a \in Nodes \ {n} : greeted'[a] = greeted[a]
    BY <1>1, <1>8 DEF TypeOK
  <2> QED BY <1>1, <1>2, <1>8, <2>1 DEF Greeted
<1>12. SteadyShape'
  <2> SUFFICES ASSUME NEW c \in steady
               PROVE  /\ c \in link
                      /\ \/ c = connecting[c.cl] /\ ~greeted'[c.cl] /\ up'[c] = <<>>
                         \/ /\ c \in m_clients[c.cl] \/ (c = connecting[c.cl] /\ greeted'[c.cl])
                            /\ \/ c.cl = c.sv
                               \/ c \in m_completed_handshake[c.sv]
                               \/ up'[c] # <<>> /\ Head(up'[c]).type = "handshake"
    BY <1>8 DEF SteadyShape
  <2>1. c \in Conn /\ c.cl \in Nodes
    BY <1>1 DEF TypeOK, Conn
  <2>2. CASE c = me
    <3>1. up[c] = <<>>
      BY <1>1, <1>2, <2>2 DEF SteadyShape, Greeted
    <3>2. up'[c] = Append(<<>>, p)
      BY <1>7, <2>2, <3>1
    <3>3. up'[c] # <<>> /\ Head(up'[c]) = p
      BY <1>5, <3>2
    <3>4. greeted'[c.cl]
      BY <1>1, <1>2, <1>8, <2>2 DEF TypeOK
    <3>5. c \in link
      BY <1>1 DEF SteadyShape
    <3> QED BY <1>2, <1>4, <2>2, <3>3, <3>4, <3>5
  <2>3. CASE c # me
    <3>1. up'[c] = up[c]
      BY <1>7, <2>1, <2>3
    <3>2. c = connecting[c.cl] => c.cl # n
      BY <2>3
    <3>3. c.cl # n => greeted'[c.cl] = greeted[c.cl]
      BY <1>1, <1>8, <2>1 DEF TypeOK
    <3> QED BY <1>1, <3>1, <3>2, <3>3 DEF SteadyShape
  <2> QED BY <2>2, <2>3
<1> QED BY <1>9, <1>10, <1>11, <1>12 DEF LinkParts

\* The greeted client is moved to m_clients.
LEMMA ConnectInsertKeeps ==
    ASSUME IInv, NEW n \in Nodes, connect_insert(n)
    PROVE  LinkParts'
<1> DEFINE me == connecting[n]
<1>1. TypeOK /\ Owners /\ Unused /\ Greeted /\ SteadyShape
  BY DEF IInv
<1>2. me \in Conn /\ me.cl = n /\ me # None /\ greeted[n]
  BY <1>1 DEF connect_insert, TypeOK, Owners
<1>3. /\ m_clients' = [m_clients EXCEPT ![n] = @ \cup {me}]
      /\ connecting' = [connecting EXCEPT ![n] = None]
      /\ greeted' = [greeted EXCEPT ![n] = FALSE]
      /\ UNCHANGED <<up, link, steady, connects, m_completed_handshake>>
  BY DEF connect_insert, handler_vars, net_vars, bounds
<1>4. /\ m_clients'[n] = m_clients[n] \cup {me} /\ connecting'[n] = None
      /\ \A b \in Nodes \ {n} : /\ m_clients'[b] = m_clients[b]
                                /\ connecting'[b] = connecting[b]
                                /\ greeted'[b] = greeted[b]
  BY <1>1, <1>3 DEF TypeOK
<1> HIDE DEF me
<1>5. Owners'
  BY <1>1, <1>2, <1>3, <1>4 DEF Owners
<1>6. Unused'
  <2> SUFFICES ASSUME NEW c \in Conn, c.id > connects[<<c.cl, c.sv>>]
               PROVE  /\ c \notin link \cup steady \cup m_clients'[c.cl]
                      /\ c # connecting'[c.cl]
                      /\ up[c] = <<>>
    BY <1>3 DEF Unused
  <2>1. c.cl \in Nodes /\ c # None
    BY NoneAssumption DEF Conn
  <2>2. /\ c \notin link \cup steady \cup m_clients[c.cl]
        /\ c # connecting[c.cl] /\ up[c] = <<>>
    BY <1>1 DEF Unused
  <2> QED BY <1>4, <2>1, <2>2 DEF me
<1>7. Greeted'
  <2>1. ~greeted'[n]
    BY <1>1, <1>3 DEF TypeOK
  <2> QED BY <1>1, <1>4, <2>1 DEF Greeted
<1>8. SteadyShape'
  <2> SUFFICES ASSUME NEW c \in steady
               PROVE  /\ c \in link
                      /\ \/ c = connecting'[c.cl] /\ ~greeted'[c.cl] /\ up[c] = <<>>
                         \/ /\ c \in m_clients'[c.cl] \/ (c = connecting'[c.cl] /\ greeted'[c.cl])
                            /\ \/ c.cl = c.sv
                               \/ c \in m_completed_handshake[c.sv]
                               \/ up[c] # <<>> /\ Head(up[c]).type = "handshake"
    BY <1>3 DEF SteadyShape
  <2>1. c.cl \in Nodes
    BY <1>1 DEF TypeOK, Conn
  <2>2. CASE c.cl = n
    BY <1>1, <1>2, <1>4, <2>2 DEF SteadyShape, me
  <2>3. CASE c.cl # n
    BY <1>1, <1>4, <2>1, <2>3 DEF SteadyShape
  <2> QED BY <2>2, <2>3
<1> QED BY <1>5, <1>6, <1>7, <1>8 DEF LinkParts

\* A new connection, under an identity that was not used before.
LEMMA ConnectKeeps ==
    ASSUME IInv, NEW n \in Nodes, NEW b \in Nodes, connect(n, b)
    PROVE  LinkParts'
<1> DEFINE new == [cl |-> n, sv |-> b, id |-> connects[<<n, b>>] + 1]
<1>1. TypeOK /\ Owners /\ Unused /\ Greeted /\ SteadyShape /\ Planned
  BY DEF IInv
<1>2. /\ connects[<<n, b>>] < MaxConnects /\ connecting[n] = None
      /\ connects' = [connects EXCEPT ![<<n, b>>] = @ + 1]
      /\ connecting' = [connecting EXCEPT ![n] = new]
      /\ link' = link \cup {new} /\ steady' = steady \cup {new}
      /\ UNCHANGED <<m_clients, greeted, up, m_completed_handshake>>
  BY DEF connect, Next_is, handler_vars
<1>3. connects[<<n, b>>] \in 0 .. MaxConnects
  BY <1>1 DEF TypeOK
<1>4. new \in Conn /\ new.cl = n /\ new.sv = b /\ new.id > connects[<<n, b>>]
  BY <1>2, <1>3, NodeAssumption DEF Conn
<1>5. new \notin link \cup steady \cup m_clients[n] /\ up[new] = <<>>
  BY <1>1, <1>4 DEF Unused
<1>6. /\ connecting'[n] = new
      /\ \A a \in Nodes \ {n} : connecting'[a] = connecting[a]
  BY <1>1, <1>2 DEF TypeOK
<1>7. \A e \in Nodes \X Nodes : connects[e] \in Nat /\ connects'[e] \in Nat
                                /\ connects'[e] >= connects[e]
  <2>1. connects \in [Nodes \X Nodes -> 0 .. MaxConnects] /\ MaxConnects \in Nat
    BY <1>1, NodeAssumption DEF TypeOK
  <2> TAKE e \in Nodes \X Nodes
  <2>2. connects[e] \in Nat
    BY <2>1
  <2>3. connects'[e] = IF e = <<n, b>> THEN connects[e] + 1 ELSE connects[e]
    BY <1>2, <2>1
  <2> QED BY <2>2, <2>3
<1>8. connects'[<<n, b>>] = connects[<<n, b>>] + 1
  BY <1>1, <1>2 DEF TypeOK
<1>9. new.id = connects'[<<n, b>>]
  BY <1>8
<1> HIDE DEF new
<1>10. Owners'
  BY <1>1, <1>2, <1>4, <1>6 DEF Owners
<1>11. Unused'
  <2> SUFFICES ASSUME NEW c \in Conn, c.id > connects'[<<c.cl, c.sv>>]
               PROVE  /\ c \notin link' \cup steady' \cup m_clients[c.cl]
                      /\ c # connecting'[c.cl]
                      /\ up[c] = <<>>
    BY <1>2 DEF Unused
  <2>1. c.cl \in Nodes /\ c.sv \in Nodes /\ c.id \in Nat
    BY NodeAssumption DEF Conn
  <2>2. c.id > connects[<<c.cl, c.sv>>]
    BY <1>7, <2>1
  <2>3. c # new
    <3>1. new.id \in Nat
      BY <1>4, NodeAssumption DEF Conn
    <3> QED BY <1>4, <1>9, <3>1
  <2> QED BY <1>1, <1>2, <1>6, <2>1, <2>2, <2>3 DEF Unused
<1>12. Greeted'
  BY <1>1, <1>2, <1>5, <1>6 DEF Greeted
<1>13. SteadyShape'
  <2> SUFFICES ASSUME NEW c \in steady'
               PROVE  /\ c \in link'
                      /\ \/ c = connecting'[c.cl] /\ ~greeted[c.cl] /\ up[c] = <<>>
                         \/ /\ c \in m_clients[c.cl] \/ (c = connecting'[c.cl] /\ greeted[c.cl])
                            /\ \/ c.cl = c.sv
                               \/ c \in m_completed_handshake[c.sv]
                               \/ up[c] # <<>> /\ Head(up[c]).type = "handshake"
    BY <1>2 DEF SteadyShape
  <2>1. CASE c = new
    <3>1. ~greeted[n]
      BY <1>1, <1>2 DEF Greeted
    <3> QED BY <1>2, <1>4, <1>5, <1>6, <2>1, <3>1
  <2>2. CASE c # new
    <3>1. c \in steady /\ c \in Conn /\ c.cl \in Nodes
      BY <1>1, <1>2, <2>2 DEF TypeOK, Conn
    <3>2. c = connecting[c.cl] => c.cl # n
      BY <1>2, <3>1, NoneAssumption
    <3>3. c = connecting[c.cl] => connecting'[c.cl] = connecting[c.cl]
      BY <1>6, <3>1, <3>2
    <3> QED BY <1>1, <1>2, <3>1, <3>3 DEF SteadyShape
  <2> QED BY <2>1, <2>2
<1> QED BY <1>10, <1>11, <1>12, <1>13 DEF LinkParts

\* Clients that are not connected are destroyed, with what they had not sent.
LEMMA ManagerKeeps ==
    ASSUME IInv, NEW n \in Nodes, connection_manager(n)
    PROVE  LinkParts'
<1>1. TypeOK /\ Owners /\ Unused /\ Greeted /\ SteadyShape
  BY DEF IInv
<1>2. /\ m_clients' = [m_clients EXCEPT ![n] = m_clients[n] \cap link]
      /\ up' = [c \in Conn |-> IF c \in m_clients[n] \ link THEN <<>> ELSE up[c]]
      /\ UNCHANGED <<connecting, greeted, link, steady, connects, m_completed_handshake>>
  BY <1>1, ManagerStep DEF handler_vars, net_vars, bounds
<1>3. /\ m_clients'[n] = m_clients[n] \cap link
      /\ \A a \in Nodes \ {n} : m_clients'[a] = m_clients[a]
  BY <1>1, <1>2 DEF TypeOK
<1>4. \A c \in Conn : up'[c] = <<>> \/ up'[c] = up[c]
  BY <1>2
<1>5. \A c \in link : c \in Conn => up'[c] = up[c]
  BY <1>2
<1>6. \A a \in Nodes : m_clients'[a] \subseteq m_clients[a]
  BY <1>3
<1>7. Owners'
  BY <1>1, <1>2, <1>4, <1>6 DEF Owners
<1>8. Unused'
  <2>1. \A c \in Conn : c.cl \in Nodes
    BY DEF Conn
  <2> QED BY <1>1, <1>2, <1>4, <1>6, <2>1 DEF Unused
<1>9. Greeted'
  BY <1>1, <1>2, <1>6 DEF Greeted
<1>10. SteadyShape'
  <2> SUFFICES ASSUME NEW c \in steady'
               PROVE  /\ c \in link'
                      /\ \/ c = connecting'[c.cl] /\ ~greeted'[c.cl] /\ up'[c] = <<>>
                         \/ /\ c \in m_clients'[c.cl] \/ (c = connecting'[c.cl] /\ greeted'[c.cl])
                            /\ \/ c.cl = c.sv
                               \/ c \in m_completed_handshake'[c.sv]
                               \/ up'[c] # <<>> /\ Head(up'[c]).type = "handshake"
    BY DEF SteadyShape
  <2>1. c \in steady /\ c \in Conn /\ c.cl \in Nodes /\ c \in link
    BY <1>1, <1>2 DEF TypeOK, Conn, SteadyShape
  <2>2. up'[c] = up[c]
    BY <1>5, <2>1
  <2>3. c \in m_clients[c.cl] => c \in m_clients'[c.cl]
    BY <1>3, <2>1
  <2> QED BY <1>1, <1>2, <2>1, <2>2, <2>3 DEF SteadyShape
<1> QED BY <1>7, <1>8, <1>9, <1>10 DEF LinkParts

-----------------------------------------------------------------------------
(* The poller *)

\* The first packet is taken from a client's queue: if it was the handshake,
\* the handshake is completed now or was before.
LEMMA TakenKeeps ==
    ASSUME IInv, NEW c \in Conn, up[c] # <<>>,
           up' = [up EXCEPT ![c] = Tail(@)],
           \A a \in Nodes : m_completed_handshake[a] \subseteq m_completed_handshake'[a],
           c.cl # c.sv /\ Head(up[c]).type = "handshake" => c \in m_completed_handshake'[c.sv],
           UNCHANGED <<m_clients, connecting, greeted, link, steady, connects>>
    PROVE  LinkParts'
<1>1. TypeOK /\ Owners /\ Unused /\ Greeted /\ SteadyShape
  BY DEF IInv
<1>2. up \in [Conn -> Seq(Packet)]
  BY <1>1 DEF TypeOK
<1>3. up'[c] = Tail(up[c]) /\ \A e \in Conn \ {c} : up'[e] = up[e]
  BY <1>2
<1>4. Owners'
  <2>1. \A j \in 1 .. Len(Tail(up[c])) : j + 1 \in 1 .. Len(up[c]) /\ Tail(up[c])[j] = up[c][j + 1]
    BY <1>2
  <2>2. \A j \in 1 .. Len(up'[c]) :
           up'[c][j].peer = c.cl /\ Cardinality(up'[c][j].peers) <= MaxPeers
    BY <1>1, <1>3, <2>1 DEF Owners
  <2> QED BY <1>1, <1>3, <2>2 DEF Owners
<1>5. Unused'
  BY <1>1, <1>3 DEF Unused
<1>6. Greeted'
  BY <1>1 DEF Greeted
<1>7. SteadyShape'
  <2> SUFFICES ASSUME NEW e \in steady
               PROVE  /\ e \in link
                      /\ \/ e = connecting[e.cl] /\ ~greeted[e.cl] /\ up'[e] = <<>>
                         \/ /\ e \in m_clients[e.cl] \/ (e = connecting[e.cl] /\ greeted[e.cl])
                            /\ \/ e.cl = e.sv
                               \/ e \in m_completed_handshake'[e.sv]
                               \/ up'[e] # <<>> /\ Head(up'[e]).type = "handshake"
    BY DEF SteadyShape
  <2>1. e \in Conn /\ e.sv \in Nodes
    BY <1>1 DEF TypeOK, Conn
  <2>2. CASE e = c
    BY <1>1, <2>1, <2>2 DEF SteadyShape
  <2>3. CASE e # c
    BY <1>1, <1>3, <2>1, <2>3 DEF SteadyShape
  <2> QED BY <2>2, <2>3
<1> QED BY <1>4, <1>5, <1>6, <1>7 DEF LinkParts

\* Packets from clients, whatever they are.
LEMMA ServerKeeps ==
    ASSUME IInv, NEW c \in Conn,
           \/ handshake_dropped(c) \/ handle_handshake(c) \/ handle_peer_exchange(c)
           \/ handle_keepalive(c) \/ handle_data(c)
           \/ \E t \in {"peer_exchange", "keepalive"} : packet_dropped(c, t)
    PROVE  LinkParts' /\ Planned'
<1>1. PICK t \in Types : Served(c, t)
  BY DEF handshake_dropped, handle_handshake, handle_peer_exchange, handle_keepalive,
         handle_data, packet_dropped, Types
<1>2. TypeOK /\ Owners /\ Planned
  BY DEF IInv
<1>3. /\ c.sv \in Nodes /\ up[c] # <<>> /\ Head(up[c]) \in Packet
      /\ up' = [up EXCEPT ![c] = Tail(@)]
      /\ UNCHANGED <<node_vars, m_clients, net_vars, bounds>>
  BY <1>1, <1>2, ServedStep
<1>4. Planned'
  BY <1>2, <1>3, PlanFrame DEF node_vars
<1>6. m_completed_handshake \in [Nodes -> SUBSET Conn]
  BY <1>2 DEF TypeOK
<1>7. CASE handle_handshake(c)
  <2>1. m_completed_handshake' = [m_completed_handshake EXCEPT ![c.sv] = @ \cup {c}]
    BY <1>7 DEF handle_handshake
  <2>2. /\ m_completed_handshake'[c.sv] = m_completed_handshake[c.sv] \cup {c}
        /\ \A a \in Nodes \ {c.sv} : m_completed_handshake'[a] = m_completed_handshake[a]
    BY <1>3, <1>6, <2>1
  <2>6. LinkParts'
    <3>1. /\ \A a \in Nodes : m_completed_handshake[a] \subseteq m_completed_handshake'[a]
          /\ c \in m_completed_handshake'[c.sv]
      BY <1>3, <2>2
    <3> QED BY <1>3, <3>1, TakenKeeps DEF node_vars, net_vars, bounds
  <2> QED BY <1>4, <2>6
<1>8. CASE ~handle_handshake(c)
  <2>1. m_completed_handshake' = m_completed_handshake
    BY <1>8 DEF handshake_dropped, handle_peer_exchange, handle_keepalive, handle_data,
                packet_dropped
  <2>2. c.cl # c.sv /\ Head(up[c]).type = "handshake" => c \in m_completed_handshake'[c.sv]
    <3>1. CASE handshake_dropped(c)
      <4>1. refused(c, Head(up[c]))
        BY <3>1 DEF handshake_dropped
      <4> QED BY <1>2, <1>3, <2>1, <4>1, HandshakeAccepted
    <3>2. CASE ~handshake_dropped(c)
      BY <1>8, <3>2 DEF handle_peer_exchange, handle_keepalive, handle_data, packet_dropped,
                        Served
    <3> QED BY <3>1, <3>2
  <2>3. LinkParts'
    BY <1>3, <2>1, <2>2, TakenKeeps DEF node_vars, net_vars, bounds
  <2> QED BY <1>4, <2>3
<1> QED BY <1>7, <1>8

\* Packets from servers: peers may be learnt.
LEMMA ClientKeeps ==
    ASSUME IInv, NEW c \in Conn,
           handle_peers_reply(c) \/ handle_keepalive_reply(c) \/ handle_data_reply(c)
    PROVE  LinkParts' /\ Planned'
<1>1. PICK t \in Types : Received(c, t)
  BY DEF handle_peers_reply, handle_keepalive_reply, handle_data_reply, Types
<1>2. TypeOK /\ LinkParts /\ Planned
  BY DEF IInv, LinkParts
<1>3. /\ UNCHANGED <<node_vars, m_clients, net_vars, up, bounds>>
      /\ UNCHANGED m_completed_handshake
  BY <1>1, <1>2, ReceivedStep DEF handle_peers_reply, handle_keepalive_reply, handle_data_reply
<1> QED BY <1>2, <1>3, LinkFrame, PlanFrame DEF node_vars, net_vars, bounds

-----------------------------------------------------------------------------
(* The senders and the owner *)

LEMMA SenderKeeps ==
    ASSUME IInv, NEW n \in Nodes,
           send_keepalives(n) \/ send_peer_exchanges(n) \/ send(n) \/ reply(n) \/ prune_peers(n)
    PROVE  LinkParts' /\ Planned'
<1>1. TypeOK /\ LinkParts /\ Planned
  BY DEF IInv, LinkParts
<1>2. UNCHANGED <<m_clients, connecting, greeted, link, steady, connects, m_completed_handshake,
                  pc, todo>>
  BY DEF send_keepalives, send_peer_exchanges, send, reply, prune_peers, node_vars, handler_vars,
         net_vars, bounds
<1>3. Planned'
  BY <1>1, <1>2, PlanFrame
<1>4. LinkParts'
  <2>1. CASE reply(n) \/ prune_peers(n)
    BY <1>1, <1>2, <2>1, LinkFrame DEF reply, prune_peers
  <2>2. CASE ~(reply(n) \/ prune_peers(n))
    <3>1. PICK t \in Types : up' = push_all(up, m_clients[n], packet(t, n, {}))
      BY <2>2 DEF send_keepalives, send_peer_exchanges, send, Types
    <3>2. packet(t, n, {}) \in Packet
      BY PacketType
    <3>3. packet(t, n, {}).peer = n /\ Cardinality(packet(t, n, {}).peers) <= MaxPeers
      BY EmptyFits DEF packet
    <3> QED BY <1>1, <1>2, <3>1, <3>2, <3>3, SendKeeps
  <2> QED BY <2>1, <2>2
<1> QED BY <1>3, <1>4

-----------------------------------------------------------------------------
(* Stops, losses and reconnects *)

\* A node that stops takes its connections with it: none of them is steady.
LEMMA StopKeeps ==
    ASSUME IInv, NEW n \in Nodes, stop(n)
    PROVE  LinkParts' /\ Planned'
<1> DEFINE cut == {c \in Conn : c.cl = n \/ (c.sv = n /\ c \in link)}
<1>1. TypeOK /\ Owners /\ Unused /\ Greeted /\ SteadyShape /\ Planned
  BY DEF IInv
<1>2. /\ up' = [c \in Conn |-> IF c \in cut THEN <<>> ELSE up[c]]
      /\ link' = link \ cut /\ steady' = steady \ cut
      /\ UNCHANGED connects
  BY DEF stop
<1>3. /\ pc' = [pc EXCEPT ![n] = "down"] /\ todo' = [todo EXCEPT ![n] = {}]
      /\ connecting' = [connecting EXCEPT ![n] = None]
      /\ greeted' = [greeted EXCEPT ![n] = FALSE]
      /\ m_clients' = [m_clients EXCEPT ![n] = {}]
      /\ m_completed_handshake' = [m_completed_handshake EXCEPT ![n] = {}]
  BY DEF stop
<1>4. /\ pc'[n] = "down" /\ todo'[n] = {} /\ connecting'[n] = None /\ ~greeted'[n]
      /\ m_clients'[n] = {} /\ m_completed_handshake'[n] = {}
  BY <1>1, <1>3 DEF TypeOK
<1>5. \A a \in Nodes \ {n} :
         /\ pc'[a] = pc[a] /\ todo'[a] = todo[a] /\ connecting'[a] = connecting[a]
         /\ greeted'[a] = greeted[a] /\ m_clients'[a] = m_clients[a]
         /\ m_completed_handshake'[a] = m_completed_handshake[a]
  BY <1>1, <1>3 DEF TypeOK
<1>6. \A c \in Conn : up'[c] = <<>> \/ up'[c] = up[c]
  BY <1>2
<1>7. \A c \in steady' : /\ c \in steady /\ c \in Conn /\ c \in link /\ c \in link'
                         /\ c.cl \in Nodes /\ c.sv \in Nodes /\ c.cl # n /\ c.sv # n
                         /\ up'[c] = up[c]
  BY <1>1, <1>2 DEF SteadyShape, TypeOK, Conn
<1> HIDE DEF cut
<1>9. Owners'
  BY <1>1, <1>4, <1>5, <1>6 DEF Owners
<1>10. Unused'
  <2> SUFFICES ASSUME NEW c \in Conn, c.id > connects[<<c.cl, c.sv>>]
               PROVE  /\ c \notin link' \cup steady' \cup m_clients'[c.cl]
                      /\ c # connecting'[c.cl]
                      /\ up'[c] = <<>>
    BY <1>2 DEF Unused
  <2>1. c.cl \in Nodes /\ c # None
    BY NoneAssumption DEF Conn
  <2>2. /\ c \notin link \cup steady \cup m_clients[c.cl]
        /\ c # connecting[c.cl] /\ up[c] = <<>>
    BY <1>1 DEF Unused
  <2> QED BY <1>2, <1>4, <1>5, <1>6, <2>1, <2>2
<1>11. Greeted'
  BY <1>1, <1>4, <1>5 DEF Greeted
<1>12. SteadyShape'
  BY <1>1, <1>5, <1>7 DEF SteadyShape
<1>13. Planned'
  <2> SUFFICES ASSUME NEW a \in Nodes
               PROVE  /\ IsFiniteSet(m_clients'[a])
                      /\ pc'[a] = "down" => m_clients'[a] = {} /\ connecting'[a] = None
                      /\ connecting'[a] # None => connecting'[a].sv \in todo'[a]
                      /\ pc'[a] = "sleep" => todo'[a] = {}
                      /\ Cardinality(Seeds[a]) <= ConnectionCount =>
                           Cardinality(m_clients'[a]) + Cardinality(todo'[a]) <= ConnectionCount
    BY DEF Planned
  <2>1. CASE a = n
    <3>1. IsFiniteSet({}) /\ Cardinality({}) = 0 /\ ConnectionCount \in Nat
      BY FS_EmptySet, NodeAssumption
    <3>2. Cardinality(m_clients'[n]) + Cardinality(todo'[n]) <= ConnectionCount
      BY <1>4, <3>1
    <3> QED BY <1>4, <2>1, <3>1, <3>2
  <2>2. CASE a # n
    BY <1>1, <1>5, <2>2 DEF Planned
  <2> QED BY <2>1, <2>2
<1> QED BY <1>9, <1>10, <1>11, <1>12, <1>13 DEF LinkParts

\* A connection that is lost is not steady any more; what the client had not
\* sent is a part of what it was.
LEMMA LoseKeeps ==
    ASSUME IInv, NEW c \in Conn, lose(c)
    PROVE  LinkParts' /\ Planned'
<1>1. TypeOK /\ Owners /\ Unused /\ Greeted /\ SteadyShape /\ Planned
  BY DEF IInv
<1>2. /\ c \in link /\ link' = link \ {c} /\ steady' = steady \ {c}
      /\ UNCHANGED <<m_clients, connecting, greeted, pc, todo, m_completed_handshake, connects>>
  BY DEF lose, node_vars, handler_vars
<1>3. PICK m \in 0 .. Len(up[c]) : up' = [up EXCEPT ![c] = SubSeq(@, m + 1, Len(@))]
  BY DEF lose
<1>4. up \in [Conn -> Seq(Packet)]
  BY <1>1 DEF TypeOK
<1>5. /\ up'[c] = SubSeq(up[c], m + 1, Len(up[c]))
      /\ \A e \in Conn \ {c} : up'[e] = up[e]
  BY <1>3, <1>4
<1>6. Planned'
  BY <1>1, <1>2, PlanFrame
<1>7. Owners'
  <2>1. up[c] \in Seq(Packet) /\ m \in Nat
    BY <1>4
  <2>2. \A j \in 1 .. Len(up'[c]) : j + m \in 1 .. Len(up[c]) /\ up'[c][j] = up[c][j + m]
    BY <1>5, <2>1
  <2>3. \A j \in 1 .. Len(up'[c]) :
           up'[c][j].peer = c.cl /\ Cardinality(up'[c][j].peers) <= MaxPeers
    BY <1>1, <2>2 DEF Owners
  <2> QED BY <1>1, <1>2, <1>5, <2>3 DEF Owners
<1>8. Unused'
  BY <1>1, <1>2, <1>5 DEF Unused
<1>9. Greeted'
  BY <1>1, <1>2 DEF Greeted
<1>10. SteadyShape'
  <2>1. \A e \in steady' : e \in steady /\ e \in Conn /\ e # c /\ up'[e] = up[e]
    BY <1>1, <1>2, <1>5 DEF TypeOK
  <2> QED BY <1>1, <1>2, <2>1 DEF SteadyShape
<1> QED BY <1>6, <1>7, <1>8, <1>9, <1>10 DEF LinkParts

\* A connection that is restored was made before.
LEMMA RestoreKeeps ==
    ASSUME IInv, NEW c \in Conn, restore(c)
    PROVE  LinkParts' /\ Planned'
<1>1. TypeOK /\ Owners /\ Unused /\ Greeted /\ SteadyShape /\ Planned
  BY DEF IInv
<1>2. /\ c \in m_clients[c.cl] \/ c = connecting[c.cl]
      /\ link' = link \cup {c}
      /\ UNCHANGED <<m_clients, connecting, greeted, pc, todo, peers, m_completed_handshake,
                     connects, steady, up>>
  BY DEF restore, node_vars, handler_vars, bounds
<1>3. Planned'
  BY <1>1, <1>2, PlanFrame
<1>4. Owners' /\ Greeted'
  BY <1>1, <1>2 DEF Owners, Greeted
<1>5. Unused'
  BY <1>1, <1>2 DEF Unused
<1>6. SteadyShape'
  BY <1>1, <1>2 DEF SteadyShape
<1> QED BY <1>3, <1>4, <1>5, <1>6 DEF LinkParts

-----------------------------------------------------------------------------
(* The number of clients *)

\* A set gets smaller by one.
LEMMA OneLess ==
    ASSUME NEW S, IsFiniteSet(S), NEW z
    PROVE  /\ IsFiniteSet(S \ {z})
           /\ Cardinality(S \ {z}) \in Nat
           /\ Cardinality(S \ {z}) <= Cardinality(S)
           /\ z \in S => Cardinality(S \ {z}) + 1 = Cardinality(S)
<1>1. IsFiniteSet(S \ {z})
  BY FS_RemoveElement
<1>2. Cardinality(S \ {z}) = IF z \in S THEN Cardinality(S) - 1 ELSE Cardinality(S)
  BY FS_RemoveElement
<1>3. Cardinality(S \ {z}) \in Nat /\ Cardinality(S) \in Nat
  BY <1>1, FS_CardinalityType
<1> QED BY <1>1, <1>2, <1>3

\* A set gets larger by one at most.
LEMMA OneMore ==
    ASSUME NEW S, IsFiniteSet(S), NEW z
    PROVE  /\ IsFiniteSet(S \cup {z})
           /\ Cardinality(S \cup {z}) \in Nat
           /\ Cardinality(S \cup {z}) <= Cardinality(S) + 1
<1>1. IsFiniteSet(S \cup {z})
  BY FS_AddElement
<1>2. Cardinality(S \cup {z}) = IF z \in S THEN Cardinality(S) ELSE Cardinality(S) + 1
  BY FS_AddElement
<1>3. Cardinality(S \cup {z}) \in Nat /\ Cardinality(S) \in Nat
  BY <1>1, FS_CardinalityType
<1> QED BY <1>1, <1>2, <1>3

\* todo is finite.
LEMMA TodoFinite ==
    ASSUME TypeOK, NEW a \in Nodes
    PROVE  IsFiniteSet(todo[a]) /\ Cardinality(todo[a]) \in Nat
<1>1. todo[a] \in SUBSET Nodes
  BY DEF TypeOK
<1> QED BY <1>1, NodeAssumption, FS_Subset, FS_CardinalityType

\* What a step of start's caller or the connection manager of n has to show:
\* nothing changes for the other nodes.
LEMMA PlanOfOne ==
    ASSUME Planned, NEW n \in Nodes,
           \A a \in Nodes \ {n} : /\ m_clients'[a] = m_clients[a] /\ pc'[a] = pc[a]
                                 /\ connecting'[a] = connecting[a] /\ todo'[a] = todo[a],
           /\ IsFiniteSet(m_clients'[n])
           /\ pc'[n] = "down" => m_clients'[n] = {} /\ connecting'[n] = None
           /\ connecting'[n] # None => connecting'[n].sv \in todo'[n]
           /\ pc'[n] = "sleep" => todo'[n] = {}
           /\ Cardinality(Seeds[n]) <= ConnectionCount =>
                Cardinality(m_clients'[n]) + Cardinality(todo'[n]) <= ConnectionCount
    PROVE  Planned'
BY DEF Planned

LEMMA CallerPlans ==
    ASSUME IInv, NEW n \in Nodes,
           start(n) \/ caller(n) \/ connection_manager(n)
    PROVE  Planned'
<1>1. TypeOK /\ Planned
  BY DEF IInv
<1>2. /\ IsFiniteSet(m_clients[n]) /\ Cardinality(m_clients[n]) \in Nat
      /\ IsFiniteSet(todo[n]) /\ Cardinality(todo[n]) \in Nat /\ ConnectionCount \in Nat
  BY <1>1, TodoFinite, FS_CardinalityType, NodeAssumption DEF Planned
<1>3. /\ pc[n] = "down" => m_clients[n] = {} /\ connecting[n] = None
      /\ connecting[n] # None => connecting[n].sv \in todo[n]
      /\ pc[n] = "sleep" => todo[n] = {}
      /\ Cardinality(Seeds[n]) <= ConnectionCount =>
           Cardinality(m_clients[n]) + Cardinality(todo[n]) <= ConnectionCount
  BY <1>1 DEF Planned
<1>4. CASE start(n)
  <2>1. /\ UNCHANGED <<m_clients, connecting>> /\ pc[n] = "down"
        /\ pc' = [pc EXCEPT ![n] = "seeding"] /\ todo' = [todo EXCEPT ![n] = Seeds[n]]
    BY <1>4 DEF start
  <2>2. /\ pc'[n] = "seeding" /\ todo'[n] = Seeds[n]
        /\ \A a \in Nodes \ {n} : pc'[a] = pc[a] /\ todo'[a] = todo[a]
    BY <1>1, <2>1 DEF TypeOK
  <2>3. Cardinality(Seeds[n]) \in Nat /\ Cardinality({}) = 0
    <3>1. Seeds[n] \in SUBSET Nodes
      BY NodeAssumption
    <3> QED BY <3>1, NodeAssumption, FS_Subset, FS_CardinalityType, FS_EmptySet
  <2>4. Cardinality(Seeds[n]) <= ConnectionCount =>
          Cardinality(m_clients'[n]) + Cardinality(todo'[n]) <= ConnectionCount
    BY <1>2, <1>3, <2>1, <2>2, <2>3
  <2> QED BY <1>1, <1>2, <1>3, <2>1, <2>2, <2>4, PlanOfOne
<1>5. CASE start_done(n) \/ connection_manager_done(n)
  <2>1. UNCHANGED <<m_clients, connecting, todo>> /\ todo[n] = {}
    BY <1>5 DEF start_done, connection_manager_done
  <2>2. /\ pc'[n] \in {"failed", "sleep"}
        /\ \A a \in Nodes \ {n} : pc'[a] = pc[a]
    BY <1>1, <1>5 DEF start_done, connection_manager_done, TypeOK
  <2> QED BY <1>1, <1>2, <1>3, <2>1, <2>2, PlanOfOne
<1>6. CASE connect_send(n)
  BY <1>1, <1>6, PlanFrame DEF connect_send
<1>7. CASE connect_insert(n)
  <2> DEFINE me == connecting[n]
  <2>1. /\ me # None /\ UNCHANGED pc
        /\ m_clients' = [m_clients EXCEPT ![n] = @ \cup {me}]
        /\ todo' = [todo EXCEPT ![n] = @ \ {me.sv}]
        /\ connecting' = [connecting EXCEPT ![n] = None]
    BY <1>7 DEF connect_insert
  <2>2. /\ m_clients'[n] = m_clients[n] \cup {me} /\ todo'[n] = todo[n] \ {me.sv}
        /\ connecting'[n] = None
        /\ \A a \in Nodes \ {n} : /\ m_clients'[a] = m_clients[a] /\ todo'[a] = todo[a]
                                  /\ connecting'[a] = connecting[a]
    BY <1>1, <2>1 DEF TypeOK
  <2>3. me.sv \in todo[n] /\ pc[n] # "down" /\ pc[n] # "sleep"
    BY <1>3, <2>1
  <2> HIDE DEF me
  <2>4. /\ IsFiniteSet(m_clients'[n]) /\ Cardinality(m_clients'[n]) \in Nat
        /\ Cardinality(m_clients'[n]) <= Cardinality(m_clients[n]) + 1
    <3>1. /\ IsFiniteSet(m_clients[n] \cup {me}) /\ Cardinality(m_clients[n] \cup {me}) \in Nat
          /\ Cardinality(m_clients[n] \cup {me}) <= Cardinality(m_clients[n]) + 1
      BY <1>2, OneMore
    <3> QED BY <2>2, <3>1
  <2>5. Cardinality(todo'[n]) \in Nat /\ Cardinality(todo'[n]) + 1 = Cardinality(todo[n])
    BY <1>2, <2>2, <2>3, OneLess
  <2>6. Cardinality(Seeds[n]) <= ConnectionCount =>
          Cardinality(m_clients'[n]) + Cardinality(todo'[n]) <= ConnectionCount
    BY <1>2, <1>3, <2>4, <2>5
  <2> QED BY <1>1, <2>1, <2>2, <2>3, <2>4, <2>6, PlanOfOne
<1>8. ASSUME NEW b \in Nodes, connect_skip(n, b) PROVE Planned'
  <2>1. /\ connecting[n] = None /\ UNCHANGED <<pc, m_clients, connecting>>
        /\ todo' = [todo EXCEPT ![n] = @ \ {b}]
    BY <1>8 DEF connect_skip, Next_is
  <2>2. /\ todo'[n] = todo[n] \ {b} /\ \A a \in Nodes \ {n} : todo'[a] = todo[a]
    BY <1>1, <2>1 DEF TypeOK
  <2>3. Cardinality(todo'[n]) \in Nat /\ Cardinality(todo'[n]) <= Cardinality(todo[n])
    BY <1>2, <2>2, OneLess
  <2>4. Cardinality(Seeds[n]) <= ConnectionCount =>
          Cardinality(m_clients'[n]) + Cardinality(todo'[n]) <= ConnectionCount
    BY <1>2, <1>3, <2>1, <2>3
  <2> QED BY <1>1, <1>2, <1>3, <2>1, <2>2, <2>4, PlanOfOne
<1>9. ASSUME NEW b \in Nodes, connect(n, b) PROVE Planned'
  <2> DEFINE new == [cl |-> n, sv |-> b, id |-> connects[<<n, b>>] + 1]
  <2>1. /\ b \in todo[n] /\ pc[n] \in {"seeding", "managing"}
        /\ UNCHANGED <<pc, todo, m_clients>>
        /\ connecting' = [connecting EXCEPT ![n] = new]
    BY <1>9 DEF connect, Next_is
  <2>2. new.sv = b
    OBVIOUS
  <2> HIDE DEF new
  <2>3. connecting'[n] = new /\ \A a \in Nodes \ {n} : connecting'[a] = connecting[a]
    BY <1>1, <2>1 DEF TypeOK
  <2> QED BY <1>1, <1>2, <1>3, <2>1, <2>2, <2>3, PlanOfOne
<1>10. CASE connection_manager(n)
  <2> DEFINE kept == m_clients[n] \cap link
             delta == delta_connections(Cardinality(kept))
  <2>1. /\ pc[n] = "sleep" /\ UNCHANGED connecting
        /\ m_clients' = [m_clients EXCEPT ![n] = kept]
        /\ \/ pc' = pc /\ todo' = todo
           \/ \E ps \in peers_of(n, delta) : /\ todo' = [todo EXCEPT ![n] = ps]
                                            /\ pc' = [pc EXCEPT ![n] = "managing"]
    BY <1>1, <1>10, ManagerStep
  <2>2. /\ IsFiniteSet(kept) /\ Cardinality(kept) \in Nat
        /\ Cardinality(kept) <= Cardinality(m_clients[n])
    BY <1>2, FS_Subset, FS_CardinalityType
  <2>3. delta \in Nat
    BY <2>2, DeltaType
  <2>4. Cardinality({}) = 0 /\ todo[n] = {} /\ connecting[n] = None
    BY <1>3, <2>1, FS_EmptySet
  <2>5. Cardinality(Seeds[n]) <= ConnectionCount => Cardinality(kept) + delta = ConnectionCount
    BY <1>2, <1>3, <2>2, <2>4 DEF delta_connections
  <2> HIDE DEF kept, delta
  <2>6. m_clients'[n] = kept /\ \A a \in Nodes \ {n} : m_clients'[a] = m_clients[a]
    BY <1>1, <2>1 DEF TypeOK
  <2>7. CASE pc' = pc /\ todo' = todo
    <3>1. Cardinality(Seeds[n]) <= ConnectionCount =>
            Cardinality(kept) + Cardinality(todo[n]) <= ConnectionCount
      BY <1>2, <1>3, <2>2
    <3> QED BY <1>1, <1>3, <2>1, <2>2, <2>6, <2>7, <3>1, PlanOfOne
  <2>8. ASSUME NEW ps \in peers_of(n, delta), todo' = [todo EXCEPT ![n] = ps],
               pc' = [pc EXCEPT ![n] = "managing"]
        PROVE  Planned'
    <3>1. /\ todo'[n] = ps /\ pc'[n] = "managing"
          /\ \A a \in Nodes \ {n} : todo'[a] = todo[a] /\ pc'[a] = pc[a]
      BY <1>1, <2>8 DEF TypeOK
    <3>2. ps \in SUBSET Nodes /\ Cardinality(ps) <= delta
      BY <1>1, <2>3, PeersOfFits
    <3>3. Cardinality(ps) \in Nat
      BY <3>2, NodeAssumption, FS_Subset, FS_CardinalityType
    <3>4. Cardinality(Seeds[n]) <= ConnectionCount =>
            Cardinality(kept) + Cardinality(ps) <= ConnectionCount
      BY <1>2, <2>2, <2>3, <2>5, <3>2, <3>3
    <3> QED BY <1>1, <2>1, <2>2, <2>4, <2>6, <3>1, <3>4, PlanOfOne
  <2> QED BY <2>1, <2>7, <2>8
<1> QED BY <1>4, <1>5, <1>6, <1>7, <1>8, <1>9, <1>10 DEF caller

-----------------------------------------------------------------------------
(* The theorems *)

\* The inductive invariant of the nodes: who owns a connection and its
\* packets, where its handshake is, and how many are planned.
THEOREM Invariance == Spec => []IInv
<1>1. Init => IInv
  <2> SUFFICES ASSUME Init PROVE IInv
    OBVIOUS
  <2>1. TypeOK
    BY NodeAssumption DEF Init, TypeOK
  <2>3. Owners /\ Greeted
    <3>1. \A c \in Conn : up[c] = <<>>
      BY DEF Init
    <3> QED BY <3>1 DEF Init, Owners, Greeted
  <2>4. Unused
    <3>1. \A c \in Conn : c.cl \in Nodes /\ c # None
      BY NoneAssumption DEF Conn
    <3> QED BY <3>1 DEF Init, Unused
  <2>5. SteadyShape
    BY DEF Init, SteadyShape
  <2>6. Planned
    <3>1. IsFiniteSet({}) /\ Cardinality({}) + Cardinality({}) <= ConnectionCount
      BY FS_EmptySet, NodeAssumption
    <3> QED BY <3>1 DEF Init, Planned
  <2> QED BY <2>1, <2>3, <2>4, <2>5, <2>6 DEF IInv
<1>2. IInv /\ [Next]_vars => IInv'
  <2> SUFFICES ASSUME IInv, [Next]_vars PROVE TypeOK' /\ LinkParts' /\ Planned'
    BY DEF IInv, LinkParts
  <2>1. LinkParts
    BY DEF IInv, LinkParts
  <2>2. ASSUME NEW n \in Nodes, start(n) \/ caller(n) \/ connection_manager(n)
        PROVE  TypeOK' /\ LinkParts' /\ Planned'
    <3>1. TypeOK' /\ Planned'
      BY <2>2, CallerType, CallerPlans
    <3>3. LinkParts'
      <4>1. CASE start(n) \/ start_done(n) \/ connection_manager_done(n)
        <5>1. UNCHANGED <<m_clients, connecting, greeted, up, link, steady, connects,
                          m_completed_handshake>>
          BY <4>1 DEF start, start_done, connection_manager_done, handler_vars, net_vars, bounds
        <5> QED BY <2>1, <5>1, LinkFrame
      <4>2. ASSUME NEW b \in Nodes, connect_skip(n, b) PROVE LinkParts'
        <5>1. UNCHANGED <<m_clients, connecting, greeted, up, link, steady, connects,
                          m_completed_handshake>>
          BY <4>2 DEF connect_skip, handler_vars, net_vars, bounds
        <5> QED BY <2>1, <5>1, LinkFrame
      <4> QED BY <2>2, <4>1, <4>2, ConnectSendKeeps, ConnectInsertKeeps, ConnectKeeps,
                 ManagerKeeps DEF caller
    <3> QED BY <3>1, <3>3
  <2>3. ASSUME NEW n \in Nodes,
               \/ send_keepalives(n) \/ send_peer_exchanges(n) \/ send(n) \/ reply(n)
               \/ prune_peers(n)
        PROVE  TypeOK' /\ LinkParts' /\ Planned'
    BY <2>3, SenderType, SenderKeeps
  <2>4. ASSUME NEW c \in Conn, poller(c)
        PROVE  TypeOK' /\ LinkParts' /\ Planned'
    BY <2>4, ServerType, ServerKeeps, ClientType, ClientKeeps DEF poller
  <2>5. ASSUME NEW n \in Nodes, stop(n)
        PROVE  TypeOK' /\ LinkParts' /\ Planned'
    BY <2>5, FailureType, StopKeeps
  <2>6. ASSUME NEW c \in Conn, lose(c) \/ restore(c)
        PROVE  TypeOK' /\ LinkParts' /\ Planned'
    BY <2>6, FailureType, LoseKeeps, RestoreKeeps
  <2>7. CASE UNCHANGED vars
    <3>1. TypeOK /\ Planned
      BY DEF IInv
    <3>2. TypeOK'
      BY <2>7, <3>1 DEF TypeOK, vars, node_vars, handler_vars, net_vars, bounds
    <3>3. LinkParts' /\ Planned'
      BY <2>1, <2>7, <3>1, LinkFrame, PlanFrame
         DEF vars, node_vars, handler_vars, net_vars, bounds
    <3> QED BY <3>2, <3>3
  <2> QED BY <2>2, <2>3, <2>4, <2>5, <2>6, <2>7 DEF Next
<1> QED BY <1>1, <1>2, PTL DEF Spec

\* Every variable of the nodes keeps its type.
THEOREM TypeCorrect == Spec => []TypeOK
<1>1. IInv => TypeOK
  BY DEF IInv
<1> QED BY <1>1, Invariance, PTL

\* On a connection that was never lost no packet meets the check for the
\* handshake before the handshake does.
THEOREM HandshakeAlwaysFirst == Spec => []HandshakeFirst
<1>1. IInv => HandshakeFirst
  BY DEF IInv, SteadyShape, HandshakeFirst
<1> QED BY <1>1, Invariance, PTL

\* A node whose seeds fit DEFAULT_CONNECTION_COUNT never has more clients.
THEOREM OutgoingAlwaysBounded == Spec => []OutgoingBounded
<1>1. IInv => OutgoingBounded
  <2> SUFFICES ASSUME IInv, NEW n \in Nodes, Cardinality(Seeds[n]) <= ConnectionCount
               PROVE  Cardinality(m_clients[n]) <= ConnectionCount
    BY DEF OutgoingBounded
  <2>1. TypeOK /\ IsFiniteSet(m_clients[n]) /\ ConnectionCount \in Nat
    BY NodeAssumption DEF IInv, Planned
  <2>2. Cardinality(m_clients[n]) \in Nat /\ Cardinality(todo[n]) \in Nat
    BY <2>1, TodoFinite, FS_CardinalityType
  <2>3. Cardinality(m_clients[n]) + Cardinality(todo[n]) <= ConnectionCount
    BY DEF IInv, Planned
  <2> QED BY <2>1, <2>2, <2>3
<1> QED BY <1>1, Invariance, PTL
=============================================================================
