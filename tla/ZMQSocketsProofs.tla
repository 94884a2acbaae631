-------------------------- MODULE ZMQSocketsProofs --------------------------
(***************************************************************************)
(* ZMQSockets' safety for any number of callers and hosts, and any bounds. *)
(* That the monitor's sets end up right is about the future: IInv says it  *)
(* of the queue of events that is still to be handled (Pending).           *)
(***************************************************************************)
EXTENDS ZMQSockets, TLAPS

EventHosts(q) ==
    \A i \in 1..Len(q) : IF q[i].type = "listening" THEN q[i].host = None ELSE q[i].host \in Hosts

\* A connect is about a host, and every event but "listening" is
InHand ==
    /\ \A c \in Callers : pc[c] # "idle" => host[c] \in Hosts
    /\ EventHosts(events)

\* The i-th event of the queue q is the last one about h
LastIs(q, h, i) == q[i].host = h /\ \A j \in 1..Len(q) : j > i => q[j].host # h

\* When the monitor has handled q, the set m names h if and only if its link in
\* l is up: the last event about h decides, and m itself when there is none
Agrees(q, m, l, h) ==
    /\ Settled(q, h) => (h \in m <=> l[h] = "up")
    /\ \A i \in 1..Len(q) : LastIs(q, h, i) => (q[i].type = "connected" <=> l[h] = "up")

\* ... which is so for every host that disconnect() was not called for
Pending ==
    Open => \A h \in Hosts \ cut : Agrees(events, m_connected_peers, link, h)

\* h is in at most one of the three sets
Single(h) ==
    h \notin (m_connected_peers \cap m_delayed_peers) \cup (m_connected_peers \cap m_retried_peers)
             \cup (m_delayed_peers \cap m_retried_peers)
Disjoint == \A h \in Hosts : Handling(h) \/ Single(h)

\* What the handler of e has done by its step n: its set names the host, then
\* one of the others does not
Done(e, n) ==
    /\ e.type = "connected" => /\ n >= 1 => e.host \in m_connected_peers
                               /\ n = 2 => e.host \notin m_delayed_peers
    /\ e.type = "connect_delayed" => /\ n >= 1 => e.host \in m_delayed_peers
                                     /\ n = 2 => e.host \notin m_retried_peers
    /\ e.type = "connect_retried" => /\ n >= 1 => e.host \in m_retried_peers
                                     /\ n = 2 => e.host \notin m_delayed_peers
SoFar ==
    step > 0 => /\ events # <<>>
                /\ events[1].type \in {"connected", "connect_delayed", "connect_retried"}
                /\ Done(events[1], step)

Sets == Disjoint /\ SoFar

IInv == TypeOK /\ InHand /\ Pending /\ Sets

-----------------------------------------------------------------------------
(* The queue of events *)

\* Raising an event appends one of its type.
LEMMA RaiseType ==
    ASSUME NEW q \in Seq(Event), NEW h \in Hosts \cup {None},
           NEW type \in EventTypes
    PROVE  /\ Raise(q, h, type) \in Seq(Event)
           /\ Len(Raise(q, h, type)) = Len(q) + 1
           /\ \A i \in 1..Len(q) : Raise(q, h, type)[i] = q[i]
           /\ Raise(q, h, type)[Len(q) + 1].type = type
           /\ Raise(q, h, type)[Len(q) + 1].host = h
<1> DEFINE e == [type |-> type, host |-> h]
<1>1. e \in Event /\ e.type = type /\ e.host = h
  BY DEF Event
<1> HIDE DEF e
<1>2. /\ Append(q, e) \in Seq(Event) /\ Len(Append(q, e)) = Len(q) + 1
      /\ \A i \in 1..Len(q) : Append(q, e)[i] = q[i]
      /\ Append(q, e)[Len(q) + 1] = e
  BY <1>1
<1> QED BY <1>1, <1>2 DEF Raise, e

\* Raising an event leaves the first one of the queue where it is.
LEMMA RaiseFirst ==
    ASSUME NEW q \in Seq(Event), NEW h \in Hosts \cup {None},
           NEW type \in EventTypes, q # <<>>
    PROVE  Raise(q, h, type) # <<>> /\ Raise(q, h, type)[1] = q[1]
<1> DEFINE r == Raise(q, h, type)
<1>1. r \in Seq(Event) /\ Len(r) = Len(q) + 1 /\ \A i \in 1..Len(q) : r[i] = q[i]
  BY RaiseType
<1> HIDE DEF r
<1>2. Len(q) \in Nat /\ Len(q) >= 1
  OBVIOUS
<1>3. r # <<>> /\ r[1] = q[1]
  BY <1>1, <1>2
<1> QED BY <1>3 DEF r

\* While the first event, the step of its handler and the sets stay, what is
\* said of them stays.
LEMMA SetsKept ==
    ASSUME Sets, UNCHANGED <<step, m_connected_peers, m_delayed_peers, m_retried_peers>>,
           step > 0 => events' # <<>> /\ events'[1] = events[1]
    PROVE  Sets'
BY DEF Sets, Disjoint, SoFar, Handling, Single, Done

\* An event about another host changes nothing for h.
LEMMA RaiseOther ==
    ASSUME NEW q \in Seq(Event), NEW g \in Hosts \cup {None},
           NEW type \in EventTypes,
           NEW m, NEW l, NEW h, g # h, Agrees(q, m, l, h)
    PROVE  Agrees(Raise(q, g, type), m, l, h)
<1> DEFINE r == Raise(q, g, type)
<1>1. /\ Len(r) = Len(q) + 1 /\ Len(q) \in Nat
      /\ \A i \in 1..Len(q) : r[i] = q[i]
      /\ r[Len(q) + 1].host = g
  BY RaiseType
<1> HIDE DEF r
<1>2. Settled(r, h) => Settled(q, h)
  BY <1>1 DEF Settled
<1>3. ASSUME NEW i \in 1..Len(r), LastIs(r, h, i)
      PROVE  i \in 1..Len(q) /\ r[i] = q[i] /\ LastIs(q, h, i)
  <2>1. i # Len(q) + 1
    BY <1>1, <1>3 DEF LastIs
  <2>2. i \in 1..Len(q) /\ r[i] = q[i]
    BY <1>1, <2>1
  <2> QED BY <1>1, <1>3, <2>2 DEF LastIs
<1>4. Agrees(r, m, l, h)
  BY <1>2, <1>3 DEF Agrees
<1> QED BY <1>4 DEF r

\* After an event about h it is this one that decides.
LEMMA RaiseOwn ==
    ASSUME NEW q \in Seq(Event), NEW h \in Hosts \cup {None},
           NEW type \in EventTypes,
           NEW m, NEW l, type = "connected" <=> l[h] = "up"
    PROVE  Agrees(Raise(q, h, type), m, l, h)
<1> DEFINE r == Raise(q, h, type)
<1>1. /\ Len(r) = Len(q) + 1 /\ Len(q) \in Nat
      /\ r[Len(q) + 1].host = h /\ r[Len(q) + 1].type = type
  BY RaiseType
<1> HIDE DEF r
<1>2. ~Settled(r, h)
  BY <1>1 DEF Settled
<1>3. \A i \in 1..Len(r) : LastIs(r, h, i) => i = Len(q) + 1
  BY <1>1 DEF LastIs
<1>4. Agrees(r, m, l, h)
  BY <1>1, <1>2, <1>3 DEF Agrees
<1> QED BY <1>4 DEF r

\* The events left when the first is handled.
LEMMA TailFacts ==
    ASSUME NEW q \in Seq(Event), q # <<>>
    PROVE  /\ Head(q) \in Event /\ Head(q) = q[1] /\ 1 \in 1..Len(q)
           /\ Tail(q) \in Seq(Event) /\ Len(Tail(q)) = Len(q) - 1 /\ Len(q) \in Nat
           /\ \A i \in 1..Len(Tail(q)) : i + 1 \in 1..Len(q) /\ Tail(q)[i] = q[i + 1]
OBVIOUS

\* The last event about h is still the last, one place earlier.
LEMMA TailLast ==
    ASSUME NEW q \in Seq(Event), q # <<>>, NEW h, NEW i \in 1..Len(Tail(q)),
           LastIs(Tail(q), h, i)
    PROVE  i + 1 \in 1..Len(q) /\ LastIs(q, h, i + 1) /\ Tail(q)[i] = q[i + 1]
<1> DEFINE r == Tail(q)
<1>1. /\ Len(r) = Len(q) - 1 /\ Len(q) \in Nat
      /\ \A j \in 1..Len(r) : j + 1 \in 1..Len(q) /\ r[j] = q[j + 1]
  BY TailFacts
<1> HIDE DEF r
<1>2. r[i].host = h /\ \A j \in 1..Len(r) : j > i => r[j].host # h
  BY DEF LastIs, r
<1>3. i \in 1..Len(r)
  BY DEF r
<1>4. ASSUME NEW j \in 1..Len(q), j > i + 1 PROVE q[j].host # h
  <2>1. j - 1 \in 1..Len(r) /\ j - 1 > i /\ (j - 1) + 1 = j
    BY <1>1, <1>3, <1>4
  <2> QED BY <1>1, <1>2, <2>1
<1> QED BY <1>1, <1>2, <1>3, <1>4 DEF LastIs, r

\* Handling an event about another host changes nothing for h.
LEMMA HandleOther ==
    ASSUME NEW q \in Seq(Event), q # <<>>, NEW m, NEW n, NEW l, NEW h,
           Head(q).host # h, h \in n <=> h \in m, Agrees(q, m, l, h)
    PROVE  Agrees(Tail(q), n, l, h)
<1>1. Settled(Tail(q), h) => Settled(q, h)
  <2> SUFFICES ASSUME Settled(Tail(q), h), NEW i \in 1..Len(q) PROVE q[i].host # h
    BY DEF Settled
  <2>1. CASE i = 1
    BY <2>1, TailFacts
  <2>2. CASE i # 1
    <3>1. i - 1 \in 1..Len(Tail(q)) /\ (i - 1) + 1 = i
      BY <2>2, TailFacts
    <3> QED BY <3>1, TailFacts DEF Settled
  <2> QED BY <2>1, <2>2
<1> QED BY <1>1, TailLast DEF Agrees

\* Handling an event about h leaves the rest of the queue to decide, or makes
\* the set what the event says.
LEMMA HandleOwn ==
    ASSUME NEW q \in Seq(Event), q # <<>>, NEW m, NEW n, NEW l, NEW h,
           Head(q).host = h, h \in n <=> Head(q).type = "connected", Agrees(q, m, l, h)
    PROVE  Agrees(Tail(q), n, l, h)
<1>1. ASSUME Settled(Tail(q), h) PROVE LastIs(q, h, 1)
  <2> SUFFICES ASSUME NEW j \in 1..Len(q), j > 1 PROVE q[j].host # h
    BY TailFacts DEF LastIs
  <2>1. j - 1 \in 1..Len(Tail(q)) /\ (j - 1) + 1 = j
    BY TailFacts
  <2>2. Tail(q)[j - 1] = q[j]
    BY <2>1, TailFacts
  <2> QED BY <1>1, <2>1, <2>2 DEF Settled
<1>2. Settled(Tail(q), h) => (h \in n <=> l[h] = "up")
  BY <1>1, TailFacts DEF Agrees
<1> QED BY <1>2, TailLast DEF Agrees

-----------------------------------------------------------------------------

LEMMA InitInv == Init => IInv
<1> SUFFICES ASSUME Init PROVE IInv
  OBVIOUS
<1>1. events = <<>> /\ events \in Seq(Event) /\ Len(events) = 0
  BY DEF Init
<1>2. TypeOK
  <2>1. /\ pc \in [Callers -> PCs] /\ host \in [Callers -> Hosts \cup {None}]
        /\ link \in [Hosts -> {"off", "dialing", "up"}]
    BY DEF Init, PCs
  <2>2. {connects, losses, sends} \subseteq Nat /\ step \in 0..2 /\ m_outgoing_msgs \in Nat /\ m_incoming_msgs \in Nat
    BY DEF Init
  <2> QED BY <1>1, <2>1, <2>2, Zenon DEF Init, TypeOK
<1>3. InHand /\ Sets
  BY <1>1 DEF Init, InHand, EventHosts, Sets, Disjoint, SoFar, Handling, Single
<1>4. Pending
  BY <1>1 DEF Init, Pending, Agrees
<1> QED BY <1>2, <1>3, <1>4 DEF IInv

\* Steps that leave the links, the events and the monitor alone: only the
\* types and the hosts of connects are at stake.
LEMMA CallerStep ==
    ASSUME IInv, NEW c \in Callers,
           \/ \E h \in Hosts : connect(c, h)
           \/ connect_lock(c) \/ connect_socket_lock(c) \/ connect_refused(c) \/ connect_wait(c)
           \/ connect_wake(c) \/ connect_end(c) \/ subscribe(c) \/ send(c) \/ messages(c)
    PROVE  IInv'
<1> USE DEF IInv, TypeOK, InHand, Goto, call_vars, queue_vars, link_vars, monitor_vars, Unlock,
            Return, PCs
<1>1. UNCHANGED <<life, link, events, cut, step, m_connected_peers, m_delayed_peers,
                  m_retried_peers>>
  BY DEF connect, connect_lock, connect_socket_lock, connect_refused, connect_wait, connect_wake,
         connect_end, subscribe, send, messages
<1>2. Pending' /\ Sets'
  BY <1>1, SetsKept DEF Pending, Open, Sets, SoFar
<1>3. ASSUME NEW h \in Hosts, connect(c, h) PROVE TypeOK' /\ InHand'
  BY <1>3 DEF connect
<1>4. CASE connect_lock(c) \/ connect_socket_lock(c)
  BY <1>2, <1>4 DEF connect_lock, connect_socket_lock
<1>5. CASE connect_refused(c)
  BY <1>2, <1>5 DEF connect_refused
<1>6. CASE connect_wait(c) \/ connect_wake(c)
  BY <1>2, <1>6 DEF connect_wait, connect_wake
<1>7. CASE connect_end(c)
  <2>1. /\ Return(c)
        /\ m_running' \in BOOLEAN
        /\ in' \in {"off", "loop", "poll", "sleep", "done"}
        /\ out' \in {"off", "loop", "queue", "send", "sleep", "done"}
        /\ UNCHANGED <<kind, connects, overlapped, life, queue_vars, link_vars, monitor_vars>>
    BY <1>7 DEF connect_end
  <2>2. pc' \in [Callers -> PCs] /\ host' \in [Callers -> Hosts \cup {None}]
    BY <2>1
  <2>3. \A d \in Callers : pc'[d] # "idle" => host'[d] \in Hosts
    BY <2>1
  <2>4. TypeOK'
    BY <2>1, <2>2
  <2> QED BY <1>1, <1>2, <2>3, <2>4
<1>8. CASE subscribe(c) \/ send(c) \/ messages(c)
  BY <1>2, <1>8 DEF subscribe, send, messages
<1> QED BY <1>2, <1>3, <1>4, <1>5, <1>6, <1>7, <1>8

\* The object's own threads and the destructor up to its joins.
LEMMA ThreadStep ==
    ASSUME IInv, incoming_thread \/ outgoing_thread \/ stop \/ join
    PROVE  IInv'
<1> USE DEF IInv, TypeOK, InHand, call_vars, queue_vars, link_vars, monitor_vars, In, Out
<1>1. /\ UNCHANGED <<link, events, cut, step, m_connected_peers, m_delayed_peers,
                      m_retried_peers>>
      /\ Open' => Open
  BY DEF Open, incoming_thread, outgoing_thread, stop, join, incoming_loop, incoming_poll, incoming_wake,
         outgoing_loop, outgoing_pop, outgoing_send, outgoing_wake
<1>2. Pending' /\ Sets'
  BY <1>1, SetsKept DEF Pending, Open, Sets, SoFar
<1>3. CASE incoming_thread
  BY <1>2, <1>3 DEF incoming_thread, incoming_loop, incoming_poll, incoming_wake
<1>4. CASE outgoing_thread
  BY <1>2, <1>4 DEF outgoing_thread, outgoing_loop, outgoing_pop, outgoing_send, outgoing_wake, Quit
<1>5. CASE stop \/ join
  <2>1. CASE stop
    BY <1>2, <2>1 DEF stop
  <2>2. CASE join
    BY <1>2, <2>2 DEF join
  <2> QED BY <1>5, <2>1, <2>2
<1> QED BY <1>2, <1>3, <1>4, <1>5

\* What every raised event keeps: the hosts of the events, and Pending for the
\* hosts it is not about.
LEMMA RaiseInHand ==
    ASSUME NEW q \in Seq(Event), NEW h, NEW type \in EventTypes,
           IF type = "listening" THEN h = None ELSE h \in Hosts,
           EventHosts(q)
    PROVE  Raise(q, h, type) \in Seq(Event) /\ EventHosts(Raise(q, h, type))
<1> DEFINE r == Raise(q, h, type)
<1>1. /\ r \in Seq(Event) /\ Len(r) = Len(q) + 1 /\ Len(q) \in Nat
      /\ \A i \in 1..Len(q) : r[i] = q[i]
      /\ r[Len(q) + 1].type = type /\ r[Len(q) + 1].host = h
  BY RaiseType
<1> HIDE DEF r
<1>2. ASSUME NEW i \in 1..Len(r)
      PROVE  IF r[i].type = "listening" THEN r[i].host = None ELSE r[i].host \in Hosts
  <2>1. CASE i = Len(q) + 1
    BY <1>1, <2>1
  <2>2. CASE i # Len(q) + 1
    <3>1. i \in 1..Len(q)
      BY <1>1, <2>2
    <3> QED BY <1>1, <3>1 DEF EventHosts
  <2> QED BY <2>1, <2>2
<1> QED BY <1>1, <1>2 DEF r, EventHosts

\* The steps that raise events.
LEMMA LinkStep ==
    ASSUME IInv, NEW h \in Hosts, link_up(h) \/ link_lost(h)
    PROVE  IInv'
<1> DEFINE broken == IF link[h] = "up" THEN "disconnected" ELSE "closed"
           q == Raise(events, h, broken)
<1>1. events \in Seq(Event) /\ h # None
  BY SocketsAssumption DEF IInv, TypeOK
<1>2. /\ UNCHANGED <<life, cut, step, m_connected_peers, m_delayed_peers, m_retried_peers>>
      /\ UNCHANGED <<kind, m_running, m_connecting, m_socket_mutex, pc, host, notified,
                     m_outgoing_msgs, m_incoming_msgs, subscribed, out, in, m_listening, connects,
                     sends, overlapped>>
  BY DEF link_up, link_lost, call_vars, queue_vars, monitor_vars
<1>3. ASSUME events # <<>> => events' # <<>> /\ events'[1] = events[1] PROVE Sets'
  BY <1>2, <1>3, SetsKept DEF IInv, Sets, SoFar
<1>4. CASE link_up(h)
  <2>1. events' = Raise(events, h, "connected") /\ link' = [link EXCEPT ![h] = "up"]
        /\ UNCHANGED losses
    BY <1>4 DEF link_up
  <2>2. /\ events' \in Seq(Event)
        /\ InHand'
    BY <1>1, <1>2, <2>1, RaiseInHand DEF IInv, InHand, EventTypes
  <2>3. link' \in [Hosts -> {"off", "dialing", "up"}] /\ link'[h] = "up"
    BY <2>1 DEF IInv, TypeOK
  <2>4. TypeOK'
    BY <1>2, <2>1, <2>2, <2>3 DEF IInv, TypeOK
  <2>5. ASSUME NEW g \in Hosts \ cut, Open
        PROVE  Agrees(events', m_connected_peers, link', g)
    <3>1. CASE g = h
      BY <1>1, <2>1, <2>3, <3>1, RaiseOwn DEF EventTypes
    <3>2. CASE g # h
      <4>1. Agrees(events, m_connected_peers, link', g)
        BY <2>1, <2>5, <3>2 DEF IInv, TypeOK, Pending, Agrees
      <4> QED BY <1>1, <2>1, <3>2, <4>1, RaiseOther DEF EventTypes
    <3> QED BY <3>1, <3>2
  <2>6. Pending'
    BY <1>2, <2>5 DEF Pending, Open
  <2>7. Sets'
    BY <1>1, <1>3, <2>1, RaiseFirst DEF EventTypes
  <2> QED BY <2>2, <2>4, <2>6, <2>7 DEF IInv
<1>5. CASE link_lost(h)
  <2>1. events' = Raise(q, h, "connect_retried") /\ link' = [link EXCEPT ![h] = "dialing"]
        /\ losses' = losses + 1
    BY <1>5 DEF link_lost
  <2>2. broken \in {"closed", "disconnected"}
    OBVIOUS
  <2> HIDE DEF broken
  <2>3. q \in Seq(Event) /\ EventHosts(q)
    BY <1>1, <2>2, RaiseInHand DEF IInv, InHand, EventTypes
  <2> HIDE DEF q
  <2>4. events' \in Seq(Event) /\ InHand'
    BY <1>2, <2>1, <2>3, RaiseInHand DEF IInv, InHand, EventTypes
  <2>5. link' \in [Hosts -> {"off", "dialing", "up"}] /\ link'[h] = "dialing" /\ losses' \in Nat
    BY <2>1 DEF IInv, TypeOK
  <2>6. TypeOK'
    BY <1>2, <2>4, <2>5 DEF IInv, TypeOK
  <2>7. ASSUME NEW g \in Hosts \ cut, Open
        PROVE  Agrees(events', m_connected_peers, link', g)
    <3>1. CASE g = h
      BY <2>1, <2>3, <2>5, <3>1, RaiseOwn DEF EventTypes
    <3>2. CASE g # h
      <4>1. Agrees(events, m_connected_peers, link', g)
        BY <2>1, <2>7, <3>2 DEF IInv, TypeOK, Pending, Agrees
      <4>2. Agrees(q, m_connected_peers, link', g)
        BY <1>1, <2>2, <3>2, <4>1, RaiseOther DEF q, EventTypes
      <4> QED BY <2>1, <2>3, <3>2, <4>2, RaiseOther DEF EventTypes
    <3> QED BY <3>1, <3>2
  <2>8. Pending'
    BY <1>2, <2>7 DEF Pending, Open
  <2>9. events # <<>> => q # <<>> /\ q[1] = events[1]
    BY <1>1, <2>2, RaiseFirst DEF q, EventTypes
  <2>10. Sets'
    BY <1>1, <1>3, <2>1, <2>3, <2>9, RaiseFirst DEF EventTypes
  <2> QED BY <2>4, <2>6, <2>8, <2>10 DEF IInv
<1> QED BY <1>4, <1>5

LEMMA DialStep ==
    ASSUME IInv, NEW c \in Callers, connect_dial(c)
    PROVE  IInv'
<1> DEFINE h == host[c]
<1>1. events \in Seq(Event) /\ h \in Hosts /\ h # None
  BY SocketsAssumption DEF connect_dial, IInv, TypeOK, InHand
<1>2. /\ UNCHANGED <<life, step, m_connected_peers, m_delayed_peers, m_retried_peers>>
      /\ UNCHANGED <<kind, m_running, m_connecting, m_socket_mutex, host, notified, losses,
                     m_outgoing_msgs, m_incoming_msgs, subscribed, out, in, m_listening, connects,
                     sends, overlapped>>
      /\ pc[c] = "dial" /\ pc' = [pc EXCEPT ![c] = "dialed"]
  BY DEF connect_dial, Goto, queue_vars, monitor_vars
<1>3. ASSUME events # <<>> => events' # <<>> /\ events'[1] = events[1] PROVE Sets'
  BY <1>2, <1>3, SetsKept DEF IInv, Sets, SoFar
<1>4. pc' \in [Callers -> PCs] /\ \A d \in Callers : pc'[d] # "idle" => host'[d] \in Hosts
  BY <1>2 DEF IInv, TypeOK, InHand, PCs
<1>5. CASE UNCHANGED <<link, events, cut>>
  <2>1. Sets' /\ Pending'
    BY <1>2, <1>3, <1>5 DEF IInv, Pending, Open
  <2> QED BY <1>2, <1>4, <1>5, <2>1 DEF IInv, TypeOK, InHand
<1>6. CASE /\ events' = Raise(events, h, "connect_delayed")
           /\ link' = [link EXCEPT ![h] = "dialing"]
           /\ cut' = cut \ {h}
  <2> HIDE DEF h
  <2>1. link' \in [Hosts -> {"off", "dialing", "up"}] /\ link'[h] = "dialing" /\ cut' \subseteq Hosts
    BY <1>1, <1>6 DEF IInv, TypeOK
  <2>2. events' \in Seq(Event) /\ InHand'
    BY <1>1, <1>4, <1>6, RaiseInHand DEF IInv, InHand, EventTypes
  <2>3. TypeOK'
    BY <1>2, <1>4, <2>1, <2>2 DEF IInv, TypeOK
  <2>4. ASSUME NEW g \in Hosts \ cut', Open
        PROVE  Agrees(events', m_connected_peers, link', g)
    <3>1. CASE g = h
      BY <1>1, <1>6, <2>1, <3>1, RaiseOwn DEF EventTypes
    <3>2. CASE g # h
      <4>1. Agrees(events, m_connected_peers, link', g)
        BY <1>6, <2>4, <3>2 DEF IInv, TypeOK, Pending, Agrees
      <4> QED BY <1>1, <1>6, <3>2, <4>1, RaiseOther DEF EventTypes
    <3> QED BY <3>1, <3>2
  <2>5. Pending'
    BY <1>2, <2>4 DEF Pending, Open
  <2>6. Sets'
    BY <1>1, <1>3, <1>6, RaiseFirst DEF EventTypes
  <2> QED BY <2>2, <2>3, <2>5, <2>6 DEF IInv
<1> QED BY <1>5, <1>6 DEF connect_dial

LEMMA BindStep ==
    ASSUME IInv, NEW c \in Callers, bind(c)
    PROVE  IInv'
<1>1. events \in Seq(Event) /\ events' = Raise(events, None, "listening")
  BY DEF bind, IInv, TypeOK
<1>2. events' \in Seq(Event) /\ InHand'
  BY <1>1, RaiseInHand DEF bind, call_vars, IInv, InHand, EventTypes
<1>3. TypeOK'
  BY <1>2 DEF bind, call_vars, queue_vars, monitor_vars, IInv, TypeOK
<1>4. ASSUME NEW g \in Hosts \ cut, Open
      PROVE  Agrees(events', m_connected_peers, link, g)
  <2>1. Agrees(events, m_connected_peers, link, g) /\ None # g
    BY <1>4, SocketsAssumption DEF IInv, Pending
  <2> QED BY <1>1, <2>1, RaiseOther DEF EventTypes
<1>5. Pending'
  BY <1>4 DEF bind, monitor_vars, Pending, Open
<1>6. UNCHANGED <<step, m_connected_peers, m_delayed_peers, m_retried_peers>>
  BY DEF bind, monitor_vars
<1>7. events # <<>> => events' # <<>> /\ events'[1] = events[1]
  BY <1>1, RaiseFirst DEF EventTypes
<1>8. Sets'
  BY <1>6, <1>7, SetsKept DEF IInv, Sets, SoFar
<1> QED BY <1>2, <1>3, <1>5, <1>8 DEF IInv

LEMMA DisconnectStep ==
    ASSUME IInv, NEW c \in Callers, NEW h \in Hosts, disconnect(c, h)
    PROVE  IInv'
<1>1. TypeOK' /\ InHand'
  BY DEF disconnect, call_vars, queue_vars, monitor_vars, IInv, TypeOK, InHand
<1>2. ASSUME NEW g \in Hosts \ cut', Open
      PROVE  Agrees(events, m_connected_peers, link', g)
  <2>1. g \in Hosts \ cut /\ g # h /\ link'[g] = link[g]
    BY <1>2 DEF disconnect, IInv, TypeOK
  <2> QED BY <1>2, <2>1 DEF IInv, Pending, Agrees
<1>3. Pending'
  BY <1>2 DEF disconnect, monitor_vars, Pending, Open
<1>4. Sets'
  BY SetsKept DEF disconnect, monitor_vars, IInv, Sets, SoFar
<1> QED BY <1>1, <1>3, <1>4 DEF IInv

LEMMA CloseStep == IInv /\ close => IInv'
<1> SUFFICES ASSUME IInv, close PROVE IInv'
  OBVIOUS
<1>1. TypeOK' /\ InHand'
  BY DEF close, call_vars, queue_vars, monitor_vars, IInv, TypeOK, InHand
<1>2. Pending'
  BY DEF close, Pending, Open
<1>3. Sets'
  BY SetsKept DEF close, monitor_vars, IInv, Sets, SoFar
<1> QED BY <1>1, <1>2, <1>3 DEF IInv

LEMMA MonitorJoinStep == IInv /\ monitor_join => IInv'
<1> SUFFICES ASSUME IInv, monitor_join PROVE IInv'
  OBVIOUS
<1>1. events' = <<>> /\ events' \in Seq(Event) /\ Len(events') = 0
  BY DEF monitor_join
<1>2. TypeOK' /\ InHand'
  BY <1>1 DEF monitor_join, call_vars, queue_vars, monitor_vars, IInv, TypeOK, InHand, EventHosts
<1>3. Pending'
  BY DEF monitor_join, Pending, Open
<1>4. ~(step > 0)
  BY DEF monitor_join
<1>5. Sets'
  BY <1>4, SetsKept DEF monitor_join, monitor_vars, IInv
<1> QED BY <1>2, <1>3, <1>5 DEF IInv

\* The end of the process leaves the monitor's sets as they are.
LEMMA TerminateStep == IInv /\ terminate => IInv'
<1> SUFFICES ASSUME IInv, Terminated PROVE IInv'
  BY DEF terminate, incoming_terminate, listener_terminate
<1>1. /\ pc' \in [Callers -> PCs] /\ host' \in [Callers -> Hosts \cup {None}]
      /\ link' \in [Hosts -> {"off", "dialing", "up"}]
      /\ \A c \in Callers : pc'[c] = "idle"
  BY DEF Terminated, PCs
<1>2. TypeOK' /\ InHand'
  BY <1>1 DEF Terminated, queue_vars, monitor_vars, IInv, TypeOK, InHand
<1>3. Pending'
  BY DEF Terminated, Pending, Open
<1>4. Sets'
  BY SetsKept DEF Terminated, monitor_vars, IInv, Sets, SoFar
<1> QED BY <1>2, <1>3, <1>4 DEF IInv

\* The three handlers that work on three sets.
ThreeSets(e) ==
    \/ e.type = "connected" /\ on_event_connected(e.host)
    \/ e.type = "connect_delayed" /\ on_event_connect_delayed(e.host)
    \/ e.type = "connect_retried" /\ on_event_connect_retried(e.host)

\* Inside a handler for h it is the event in hand, or a later one, that decides.
LEMMA HandlingOwn ==
    ASSUME NEW q \in Seq(Event), q # <<>>, NEW m, NEW n, NEW l, NEW h,
           q[1].host = h \/ (h \in n <=> h \in m),
           Agrees(q, m, l, h)
    PROVE  Agrees(q, n, l, h)
BY TailFacts DEF Agrees, Settled

\* The monitor does one set of the handler of the first event.
LEMMA ListenerStep == IInv /\ listener => IInv'
<1> SUFFICES ASSUME IInv, listener PROVE IInv'
  OBVIOUS
<1> PICK e : e = events[1]
  OBVIOUS
<1>1. /\ events \in Seq(Event) /\ events # <<>> /\ e = Head(events) /\ step \in 0..2
      /\ UNCHANGED <<kind, m_running, m_connecting, m_socket_mutex, pc, host, connects, overlapped,
                     out, in, life, m_outgoing_msgs, m_incoming_msgs, subscribed, sends, link,
                     losses, cut>>
  BY TailFacts DEF listener, queue_vars, IInv, TypeOK
<1>2. /\ e \in Event
      /\ IF e.type = "listening" THEN e.host = None ELSE e.host \in Hosts
  BY <1>1, TailFacts DEF IInv, InHand, EventHosts
<1>3. \/ ThreeSets(e)
      \/ e.type = "listening" /\ on_event_listening
      \/ e.type \in {"closed", "disconnected"} /\ on_event_closed(e.host)
  BY <1>1 DEF listener, ThreeSets
<1>4. step > 0 => Done(e, step)
  BY DEF IInv, Sets, SoFar
<1>5. \A g \in Hosts : g # e.host \/ step = 0 => Single(g)
  BY <1>1 DEF IInv, Sets, Disjoint, Handling
<1>6. step > 0 => ThreeSets(e)
  BY <1>3 DEF IInv, Sets, SoFar
<1>7. More \/ Handled
  BY <1>3 DEF ThreeSets, on_event_connected, on_event_connect_delayed, on_event_connect_retried,
              on_event_listening, on_event_closed
<1>8. /\ m_connected_peers' \subseteq Hosts /\ m_delayed_peers' \subseteq Hosts
      /\ m_retried_peers' \subseteq Hosts /\ notified' \subseteq Callers /\ m_listening' \in BOOLEAN
  BY <1>2, <1>3 DEF ThreeSets, IInv, TypeOK, on_event_connected, on_event_connect_delayed,
                    on_event_connect_retried, on_event_listening, on_event_closed
<1>9. /\ \A g \in Hosts : g # e.host => (g \in m_connected_peers' <=> g \in m_connected_peers)
      /\ \A g \in Hosts : g # e.host => (Single(g) => Single(g)')
  BY <1>3 DEF ThreeSets, Single, on_event_connected, on_event_connect_delayed,
              on_event_connect_retried, on_event_listening, on_event_closed
<1>10. CASE More
  <2>1. step' = step + 1 /\ step < 2 /\ events' = events /\ ThreeSets(e)
    BY <1>1, <1>3, <1>10 DEF More, Handled, ThreeSets, on_event_connected,
                             on_event_connect_delayed, on_event_connect_retried,
                             on_event_listening, on_event_closed
  <2>2. TypeOK' /\ InHand'
    BY <1>1, <1>8, <2>1 DEF IInv, TypeOK, InHand
  <2>3. \A n \in 1..2 : step + 1 = n => Done(e, n)'
    BY <1>1, <1>4, <2>1 DEF Done, ThreeSets, on_event_connected, on_event_connect_delayed,
                            on_event_connect_retried, Handled
  <2>4. SoFar'
    <3>1. /\ events' # <<>> /\ events'[1] = e
          /\ e.type \in {"connected", "connect_delayed", "connect_retried"}
      BY <1>1, <2>1 DEF ThreeSets
    <3>2. step' \in 1..2 /\ step' = step + 1
      BY <1>1, <2>1
    <3> QED BY <2>3, <3>1, <3>2 DEF SoFar, Done
  <2>5. Disjoint'
    <3> SUFFICES ASSUME NEW g \in Hosts, g # e.host PROVE Single(g)'
      BY <1>1, <2>1 DEF Disjoint, Handling
    <3> QED BY <1>5, <1>9
  <2>6. ASSUME NEW g \in Hosts \ cut, Open
        PROVE  Agrees(events, m_connected_peers', link, g)
    <3>1. Agrees(events, m_connected_peers, link, g)
      BY <2>6 DEF IInv, Pending
    <3>2. e.host = g \/ (g \in m_connected_peers' <=> g \in m_connected_peers)
      BY <1>9
    <3> QED BY <1>1, <3>1, <3>2, HandlingOwn
  <2>7. Pending'
    BY <1>1, <2>1, <2>6 DEF Pending, Open
  <2> QED BY <2>2, <2>4, <2>5, <2>7 DEF IInv, Sets
<1>11. CASE Handled
  <2>1. step' = 0 /\ events' = Tail(events) /\ events' \in Seq(Event)
    BY <1>1, <1>11, TailFacts DEF Handled
  <2>2. InHand'
    BY <1>1, <2>1, TailFacts DEF IInv, InHand, EventHosts
  <2>3. TypeOK'
    BY <1>1, <1>8, <2>1 DEF IInv, TypeOK
  <2>4. ThreeSets(e) => step = 2
    BY <1>1, <2>1 DEF ThreeSets, on_event_connected, on_event_connect_delayed,
                      on_event_connect_retried, More
  <2>5. e.host \in Hosts => Single(e.host)'
    <3>1. CASE ThreeSets(e)
      BY <1>4, <2>4, <3>1 DEF Done, Single, ThreeSets, on_event_connected,
                              on_event_connect_delayed, on_event_connect_retried
    <3>2. CASE ~ThreeSets(e)
      BY <1>1, <1>3, <1>5, <1>6, <3>2 DEF Single, on_event_listening, on_event_closed
    <3> QED BY <3>1, <3>2
  <2>6. Sets'
    BY <1>5, <1>9, <2>1, <2>5 DEF Sets, Disjoint, SoFar
  <2>7. e.type # "listening" => (e.host \in m_connected_peers' <=> e.type = "connected")
    BY <1>3, <1>4, <2>4 DEF Done, ThreeSets, on_event_connected, on_event_connect_delayed,
                            on_event_connect_retried, on_event_listening, on_event_closed
  <2>8. ASSUME NEW g \in Hosts \ cut, Open
        PROVE  Agrees(events', m_connected_peers', link, g)
    <3>1. Agrees(events, m_connected_peers, link, g)
      BY <2>8 DEF IInv, Pending
    <3>2. CASE e.host = g
      <4>1. e.type # "listening"
        BY <1>2, <3>2, SocketsAssumption
      <4> QED BY <1>1, <2>1, <2>7, <3>1, <3>2, <4>1, HandleOwn
    <3>3. CASE e.host # g
      BY <1>1, <1>9, <2>1, <3>1, <3>3, HandleOther
    <3> QED BY <3>2, <3>3
  <2>9. Pending'
    BY <1>1, <2>8 DEF Pending, Open
  <2> QED BY <2>2, <2>3, <2>6, <2>9 DEF IInv
<1> QED BY <1>7, <1>10, <1>11

\* Every step keeps the invariant.
LEMMA NextInv == IInv /\ [Next]_vars => IInv'
<1> SUFFICES ASSUME IInv, [Next]_vars PROVE IInv'
  OBVIOUS
<1>1. CASE UNCHANGED vars
  BY <1>1 DEF vars, call_vars, queue_vars, link_vars, monitor_vars, IInv, TypeOK, InHand, Pending,
              Open, Sets, Disjoint, SoFar, Handling, Single, Done
<1>2. ASSUME NEW c \in Callers, call(c) \/ connect_step(c) PROVE IInv'
  BY <1>2, CallerStep, DialStep, BindStep, DisconnectStep DEF call, connect_step
<1>3. ASSUME NEW h \in Hosts, link_up(h) \/ link_lost(h) PROVE IInv'
  BY <1>3, LinkStep
<1>4. CASE incoming_thread \/ outgoing_thread \/ stop \/ destructor \/ listener \/ terminate
  BY <1>4, ThreadStep, CloseStep, MonitorJoinStep, ListenerStep, TerminateStep DEF destructor
<1> QED BY <1>1, <1>2, <1>3, <1>4 DEF Next

-----------------------------------------------------------------------------

\* The invariant of the sockets holds in every state.
THEOREM Invariance == Spec => []IInv
BY InitInv, NextInv, PTL DEF Spec

\* Every variable keeps its type; in particular no thread pops an empty queue.
THEOREM TypeCorrect == Spec => []TypeOK
BY Invariance, PTL DEF IInv

\* Once the monitor is done with the events about a host, connected() tells the
\* truth about it unless it was disconnected on purpose, and the three sets
\* disagree only inside a handler, for any number of hosts, losses and
\* reconnects and whatever runs between two of a handler's set operations.
THEOREM MonitorAlwaysExact == Spec => []MonitorExact
<1>1. IInv => MonitorExact
  <2> SUFFICES ASSUME IInv PROVE MonitorExact
    OBVIOUS
  <2> QED BY DEF IInv, Pending, Agrees, Sets, Disjoint, Single, MonitorExact
<1> QED BY <1>1, Invariance, PTL

=============================================================================
