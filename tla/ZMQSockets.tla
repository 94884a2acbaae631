----------------------------- MODULE ZMQSockets -----------------------------
(***************************************************************************)
(* Networking::ZMQClient, ZMQSubscriber and ZMQPublisher with the          *)
(* zmq_connection_monitor each of them has: one object of one of the three *)
(* kinds, the threads that call it, its own threads and its monitor's.     *)
(*                                                                         *)
(* Callers connect (bind), send, subscribe and finally destroy the object. *)
(* The incoming and outgoing threads start with the first connect that     *)
(* succeeds; they and connect share the socket under m_socket_mutex.  ZMQ  *)
(* (links that come up, break and are retried, and the events it raises)   *)
(* is modelled from how the code uses it.                                  *)
(***************************************************************************)
EXTENDS Integers, Sequences, FiniteSets

CONSTANTS
    Callers,       \* threads that call the object
    Hosts,
    None,          \* a mutex nobody holds, an idle caller's host
    MaxConnects, MaxLosses, MaxSends, MaxEvents, MaxIncoming   \* bounds

ASSUME SocketsAssumption ==
    /\ None \notin Callers \cup Hosts
    /\ {MaxConnects, MaxLosses, MaxSends, MaxEvents, MaxIncoming} \subseteq Nat

VARIABLES
    kind,              \* "dealer" (ZMQClient), "sub" or "pub"; never changes
    m_running,
    m_connecting, m_socket_mutex,      \* who holds them
    pc, host,          \* where each caller is in connect, and with which host
    notified,          \* callers that cv_connected woke
    m_outgoing_msgs, m_incoming_msgs,  \* how many
    subscribed,        \* the subscriber has its subject
    out, in,           \* outgoing_thread and incoming_thread
    life,              \* how far the destructor is
    link,              \* ZMQ's connection to each host
    events,            \* what ZMQ raised and the monitor has not handled
    step,              \* how much of the first event's handler the monitor has done
    m_connected_peers, m_delayed_peers, m_retried_peers, m_listening,
    connects, losses, sends,
    overlapped,        \* history: two connects of one ZMQClient overlapped
    cut                \* history: hosts that disconnect() was called for

call_vars == <<m_connecting, pc, host, notified, connects, overlapped>>
queue_vars == <<m_outgoing_msgs, m_incoming_msgs, subscribed, sends>>
link_vars == <<link, events, losses, cut>>
monitor_vars == <<step, m_connected_peers, m_delayed_peers, m_retried_peers, m_listening>>
vars == <<kind, m_running, m_socket_mutex, out, in, life, call_vars, queue_vars, link_vars,
          monitor_vars>>

PCs == {"idle", "connecting", "socket", "dial", "dialed", "wait", "relock"}

Init ==
    /\ kind \in {"dealer", "sub", "pub"}
    /\ m_running = FALSE
    /\ m_connecting = None /\ m_socket_mutex = None
    /\ pc = [c \in Callers |-> "idle"]
    /\ host = [c \in Callers |-> None]
    /\ notified = {}
    /\ m_outgoing_msgs = 0 /\ m_incoming_msgs = 0 /\ subscribed = FALSE
    /\ out = "off" /\ in = "off" /\ life = "alive"
    /\ link = [h \in Hosts |-> "off"]
    /\ events = <<>> /\ step = 0
    /\ m_connected_peers = {} /\ m_delayed_peers = {} /\ m_retried_peers = {}
    /\ m_listening = FALSE
    /\ connects = 0 /\ losses = 0 /\ sends = 0 /\ overlapped = FALSE /\ cut = {}

Goto(c, l) == pc' = [pc EXCEPT ![c] = l]

\* ZMQ raises an event for h
Raise(q, h, type) == Append(q, [type |-> type, host |-> h])
Room(n) == Len(events) + n <= MaxEvents

-----------------------------------------------------------------------------
(* connect, of the client and of the subscriber *)

connect(c, h) ==
    /\ kind \in {"dealer", "sub"} /\ life = "alive" /\ pc[c] = "idle" /\ connects < MaxConnects
    /\ connects' = connects + 1
    /\ host' = [host EXCEPT ![c] = h]
    /\ Goto(c, IF kind = "dealer" THEN "connecting" ELSE "socket")
    /\ overlapped' = (overlapped \/ (kind = "dealer" /\ \E d \in Callers : pc[d] # "idle"))
    /\ UNCHANGED <<kind, m_running, m_connecting, m_socket_mutex, notified, out, in, life, queue_vars,
                   link_vars, monitor_vars>>

\* The client's first lock
connect_lock(c) ==
    /\ pc[c] = "connecting" /\ m_connecting = None
    /\ m_connecting' = c
    /\ Goto(c, "socket")
    /\ UNCHANGED <<kind, m_running, m_socket_mutex, host, notified, connects, overlapped, out, in, life,
                   queue_vars, link_vars, monitor_vars>>

connect_socket_lock(c) ==
    /\ pc[c] = "socket" /\ m_socket_mutex = None
    /\ m_socket_mutex' = c
    /\ Goto(c, "dial")
    /\ UNCHANGED <<kind, m_running, m_connecting, host, notified, connects, overlapped, out, in, life,
                   queue_vars, link_vars, monitor_vars>>

Unlock(c, m) == IF m = c THEN None ELSE m

\* connect returns, an error or not: its locks go
Return(c) ==
    /\ Goto(c, "idle")
    /\ host' = [host EXCEPT ![c] = None]
    /\ notified' = notified \ {c}
    /\ m_connecting' = Unlock(c, m_connecting)
    /\ m_socket_mutex' = Unlock(c, m_socket_mutex)

\* m_socket.connect: ZMQ goes on by itself
connect_dial(c) ==
    /\ pc[c] = "dial" /\ Room(1)
    /\ Goto(c, "dialed")
    /\ \/ /\ link[host[c]] = "off"
          /\ link' = [link EXCEPT ![host[c]] = "dialing"]
          /\ events' = Raise(events, host[c], "connect_delayed")
          /\ cut' = cut \ {host[c]}
       \/ /\ link[host[c]] # "off"
          /\ UNCHANGED <<link, events, cut>>
    /\ UNCHANGED <<kind, m_running, m_connecting, m_socket_mutex, host, notified, connects, overlapped,
                   losses, out, in, life, queue_vars, monitor_vars>>

\* ... or it throws
connect_refused(c) ==
    /\ pc[c] = "dial"
    /\ Return(c)
    /\ UNCHANGED <<kind, m_running, connects, overlapped, out, in, life, queue_vars, link_vars,
                   monitor_vars>>

\* wait_for gives up the lock it is passed: m_connecting in the client, which
\* keeps m_socket_mutex, and m_socket_mutex in the subscriber
connect_wait(c) ==
    /\ pc[c] = "dialed"
    /\ Goto(c, "wait")
    /\ \/ kind = "dealer" /\ m_connecting' = None /\ UNCHANGED m_socket_mutex
       \/ kind = "sub" /\ m_socket_mutex' = None /\ UNCHANGED m_connecting
    /\ UNCHANGED <<kind, m_running, host, notified, connects, overlapped, out, in, life, queue_vars,
                   link_vars, monitor_vars>>

\* A notification or the timeout
connect_wake(c) ==
    /\ pc[c] = "wait"
    /\ Goto(c, "relock")
    /\ UNCHANGED <<kind, m_running, m_connecting, m_socket_mutex, host, notified, connects, overlapped,
                   out, in, life, queue_vars, link_vars, monitor_vars>>

\* It takes the lock back, and the first connect that was notified starts the
\* threads
connect_end(c) ==
    /\ pc[c] = "relock"
    /\ IF kind = "dealer" THEN m_connecting = None ELSE m_socket_mutex = None
    /\ Return(c)
    /\ \/ /\ c \in notified /\ ~m_running
          /\ m_running' = TRUE
          /\ in' = "loop"
          /\ out' = IF kind = "dealer" THEN "loop" ELSE "off"
       \/ /\ c \notin notified \/ m_running
          /\ UNCHANGED <<m_running, in, out>>
    /\ UNCHANGED <<kind, connects, overlapped, life, queue_vars, link_vars, monitor_vars>>

-----------------------------------------------------------------------------
(* The other calls *)

Idle(c) == life = "alive" /\ pc[c] = "idle"

\* ZMQPublisher::bind: the first that does not throw starts the thread
bind(c) ==
    /\ kind = "pub" /\ Idle(c) /\ m_socket_mutex = None /\ Room(1) /\ ~m_running
    /\ m_running' = TRUE
    /\ out' = "loop"
    /\ events' = Raise(events, None, "listening")
    /\ UNCHANGED <<kind, m_socket_mutex, in, life, link, losses, cut, call_vars, queue_vars,
                   monitor_vars>>

\* ZMQSubscriber::disconnect: ZMQ tells nobody
disconnect(c, h) ==
    /\ kind = "sub" /\ Idle(c) /\ m_socket_mutex = None /\ link[h] # "off"
    /\ link' = [link EXCEPT ![h] = "off"]
    /\ cut' = cut \cup {h}
    /\ UNCHANGED <<kind, m_running, m_socket_mutex, out, in, life, events, losses, call_vars,
                   queue_vars, monitor_vars>>

\* subscribe and unsubscribe do not take the mutex
subscribe(c) ==
    /\ kind = "sub" /\ Idle(c)
    /\ subscribed' \in BOOLEAN
    /\ UNCHANGED <<kind, m_running, m_socket_mutex, out, in, life, m_outgoing_msgs, m_incoming_msgs,
                   sends, call_vars, link_vars, monitor_vars>>

\* A message is queued while the threads run
send(c) ==
    /\ kind \in {"dealer", "pub"} /\ Idle(c) /\ m_running /\ sends < MaxSends
    /\ sends' = sends + 1
    /\ m_outgoing_msgs' = m_outgoing_msgs + 1
    /\ UNCHANGED <<kind, m_running, m_socket_mutex, out, in, life, m_incoming_msgs, subscribed,
                   call_vars, link_vars, monitor_vars>>

\* The user of messages() takes one
messages(c) ==
    /\ Idle(c) /\ m_incoming_msgs > 0
    /\ m_incoming_msgs' = m_incoming_msgs - 1
    /\ UNCHANGED <<kind, m_running, m_socket_mutex, out, in, life, m_outgoing_msgs, subscribed, sends,
                   call_vars, link_vars, monitor_vars>>

-----------------------------------------------------------------------------
(* incoming_thread and outgoing_thread *)

In(l) == in' = l /\ UNCHANGED out
Out(l) == out' = l /\ UNCHANGED in

incoming_loop ==
    /\ in = "loop"
    /\ In(IF m_running THEN "poll" ELSE "done")
    /\ UNCHANGED <<kind, m_running, m_socket_mutex, life, call_vars, queue_vars, link_vars,
                   monitor_vars>>

\* A subscriber gets nothing without its subject
Deliverable == (kind = "sub" => subscribed) /\ \E h \in Hosts : link[h] = "up"

\* One receive without waiting, under the mutex: a message of the expected
\* parts is queued
incoming_poll ==
    /\ in = "poll" /\ m_socket_mutex = None
    /\ In("sleep")
    /\ \/ UNCHANGED m_incoming_msgs
       \/ /\ m_incoming_msgs < MaxIncoming /\ Deliverable
          /\ m_incoming_msgs' = m_incoming_msgs + 1
    /\ UNCHANGED <<kind, m_running, m_socket_mutex, life, m_outgoing_msgs, subscribed, sends,
                   call_vars, link_vars, monitor_vars>>

\* thread_sleep runs out; a notification is in stop
incoming_wake ==
    /\ in = "sleep"
    /\ In("loop")
    /\ UNCHANGED <<kind, m_running, m_socket_mutex, life, call_vars, queue_vars, link_vars,
                   monitor_vars>>

\* Mutant: only a notification ends the loop
outgoing_loop_forever ==
    /\ out = "loop"
    /\ Out("queue")
    /\ UNCHANGED <<kind, m_running, m_socket_mutex, life, call_vars, queue_vars, link_vars,
                   monitor_vars>>

outgoing_loop ==
    /\ out = "loop"
    /\ Out(IF m_running THEN "queue" ELSE "done")
    /\ UNCHANGED <<kind, m_running, m_socket_mutex, life, call_vars, queue_vars, link_vars,
                   monitor_vars>>

\* The inner loop: the client's empties the queue, the publisher's stops early
Quit == m_outgoing_msgs = 0 \/ (kind = "pub" /\ ~m_running)

\* Mutant: pop without asking whether the queue is empty
outgoing_pop_blind ==
    /\ out = "queue"
    /\ m_outgoing_msgs' = m_outgoing_msgs - 1
    /\ Out("send")
    /\ UNCHANGED <<kind, m_running, m_socket_mutex, life, m_incoming_msgs, subscribed, sends,
                   call_vars, link_vars, monitor_vars>>

outgoing_pop ==
    /\ out = "queue"
    /\ \/ Quit /\ Out("sleep") /\ UNCHANGED m_outgoing_msgs
       \/ ~Quit /\ Out("send") /\ m_outgoing_msgs' = m_outgoing_msgs - 1
    /\ UNCHANGED <<kind, m_running, m_socket_mutex, life, m_incoming_msgs, subscribed, sends,
                   call_vars, link_vars, monitor_vars>>

\* Under the mutex; an error is logged
outgoing_send ==
    /\ out = "send" /\ m_socket_mutex = None
    /\ Out("queue")
    /\ UNCHANGED <<kind, m_running, m_socket_mutex, life, call_vars, queue_vars, link_vars,
                   monitor_vars>>

outgoing_wake ==
    /\ out = "sleep"
    /\ Out("loop")
    /\ UNCHANGED <<kind, m_running, m_socket_mutex, life, call_vars, queue_vars, link_vars,
                   monitor_vars>>

-----------------------------------------------------------------------------
(* The destructor, once no call is left inside the object *)

\* notify_all ends the loop of a thread that sleeps just then
stop ==
    /\ life = "alive" /\ \A c \in Callers : pc[c] = "idle"
    /\ life' = "join_out"
    /\ m_running' = FALSE
    /\ out' = IF out = "sleep" THEN "done" ELSE out
    /\ in' = IF in = "sleep" THEN "done" ELSE in
    /\ UNCHANGED <<kind, m_socket_mutex, call_vars, queue_vars, link_vars, monitor_vars>>

join ==
    /\ \/ life = "join_out" /\ out \in {"off", "done"} /\ life' = "join_in"
       \/ life = "join_in" /\ in \in {"off", "done"} /\ life' = "close"
    /\ UNCHANGED <<kind, m_running, m_socket_mutex, out, in, call_vars, queue_vars, link_vars,
                   monitor_vars>>

close ==
    /\ life = "close" /\ m_socket_mutex = None
    /\ life' = "monitor"
    /\ link' = [h \in Hosts |-> "off"]
    /\ UNCHANGED <<kind, m_running, m_socket_mutex, out, in, events, losses, cut, call_vars,
                   queue_vars, monitor_vars>>

\* The monitor's destructor joins its listener, which ends once the handler it
\* is in has returned; what is left of the events is dropped
monitor_join ==
    /\ life = "monitor" /\ step = 0
    /\ life' = "closed"
    /\ events' = <<>>
    /\ UNCHANGED <<kind, m_running, m_socket_mutex, out, in, link, losses, cut, call_vars,
                   queue_vars, monitor_vars>>

-----------------------------------------------------------------------------
(* Exceptions other than zmq::error_t *)

\* std::terminate ends the process and all of its threads
Terminated ==
    /\ life' = "terminated"
    /\ m_running' = FALSE /\ out' = "done" /\ in' = "done"
    /\ m_connecting' = None /\ m_socket_mutex' = None /\ notified' = {}
    /\ pc' = [c \in Callers |-> "idle"]
    /\ host' = [c \in Callers |-> None]
    /\ link' = [h \in Hosts |-> "off"]
    /\ UNCHANGED <<kind, connects, overlapped, queue_vars, events, losses, cut, monitor_vars>>

\* The subject or the identity of a message has the wrong size, or its
\* Peer-Address does not parse: incoming_thread does not catch that
incoming_terminate ==
    /\ in = "poll" /\ m_socket_mutex = None /\ Deliverable
    /\ Terminated

\* Nor does the listener when the address of an event does not parse, which a
\* handler asks for before anything else
listener_terminate ==
    /\ events # <<>> /\ step = 0 /\ life \notin {"closed", "terminated"}
    /\ Head(events).type # "listening"
    /\ Terminated

-----------------------------------------------------------------------------
(* ZMQ's side of a link *)

link_up(h) ==
    /\ link[h] = "dialing" /\ Room(1)
    /\ link' = [link EXCEPT ![h] = "up"]
    /\ events' = Raise(events, h, "connected")
    /\ UNCHANGED <<kind, m_running, m_socket_mutex, out, in, life, losses, cut, call_vars, queue_vars,
                   monitor_vars>>

\* An attempt fails, or the link breaks: ZMQ tries again
link_lost(h) ==
    /\ link[h] # "off" /\ Room(2) /\ losses < MaxLosses
    /\ losses' = losses + 1
    /\ link' = [link EXCEPT ![h] = "dialing"]
    /\ LET broken == IF link[h] = "up" THEN "disconnected" ELSE "closed"
       IN  events' = Raise(Raise(events, h, broken), h, "connect_retried")
    /\ UNCHANGED <<kind, m_running, m_socket_mutex, out, in, life, cut, call_vars, queue_vars,
                   monitor_vars>>

-----------------------------------------------------------------------------
(* The monitor: check_event calls the handler of the first event, and returns *)
(* when it does.  A handler works on three sets, each with a mutex of its own *)

\* One set is done, the others are to come
More == step' = step + 1 /\ UNCHANGED events
\* The handler returns
Handled == step' = 0 /\ events' = Tail(events)

\* notify_all comes with the last erase: nobody who waits reads that set
on_event_connected(h) ==
    /\ \/ /\ step = 0 /\ More
          /\ m_connected_peers' = m_connected_peers \cup {h}
          /\ UNCHANGED <<m_delayed_peers, m_retried_peers, notified>>
       \/ /\ step = 1 /\ More
          /\ m_delayed_peers' = m_delayed_peers \ {h}
          /\ UNCHANGED <<m_connected_peers, m_retried_peers, notified>>
       \/ /\ step = 2 /\ Handled
          /\ m_retried_peers' = m_retried_peers \ {h}
          /\ notified' = notified \cup {c \in Callers : pc[c] = "wait"}
          /\ UNCHANGED <<m_connected_peers, m_delayed_peers>>
    /\ UNCHANGED m_listening

\* Mutant: a host that is dialled again stays among the connected ones
on_event_connect_delayed_kept(h) ==
    /\ \/ /\ step = 0 /\ More
          /\ m_delayed_peers' = m_delayed_peers \cup {h}
          /\ UNCHANGED m_retried_peers
       \/ /\ step = 1 /\ Handled
          /\ m_retried_peers' = m_retried_peers \ {h}
          /\ UNCHANGED m_delayed_peers
    /\ UNCHANGED <<m_connected_peers, notified, m_listening>>

on_event_connect_delayed(h) ==
    /\ \/ /\ step = 0 /\ More
          /\ m_delayed_peers' = m_delayed_peers \cup {h}
          /\ UNCHANGED <<m_retried_peers, m_connected_peers>>
       \/ /\ step = 1 /\ More
          /\ m_retried_peers' = m_retried_peers \ {h}
          /\ UNCHANGED <<m_delayed_peers, m_connected_peers>>
       \/ /\ step = 2 /\ Handled
          /\ m_connected_peers' = m_connected_peers \ {h}
          /\ UNCHANGED <<m_delayed_peers, m_retried_peers>>
    /\ UNCHANGED <<notified, m_listening>>

on_event_connect_retried(h) ==
    /\ \/ /\ step = 0 /\ More
          /\ m_retried_peers' = m_retried_peers \cup {h}
          /\ UNCHANGED <<m_delayed_peers, m_connected_peers>>
       \/ /\ step = 1 /\ More
          /\ m_delayed_peers' = m_delayed_peers \ {h}
          /\ UNCHANGED <<m_retried_peers, m_connected_peers>>
       \/ /\ step = 2 /\ Handled
          /\ m_connected_peers' = m_connected_peers \ {h}
          /\ UNCHANGED <<m_retried_peers, m_delayed_peers>>
    /\ UNCHANGED <<notified, m_listening>>

on_event_listening ==
    /\ Handled
    /\ m_listening' = TRUE
    /\ UNCHANGED <<m_connected_peers, m_delayed_peers, m_retried_peers, notified>>

\* on_event_closed and on_event_disconnected
on_event_closed(h) ==
    /\ Handled
    /\ m_connected_peers' = m_connected_peers \ {h}
    /\ UNCHANGED <<m_delayed_peers, m_retried_peers, notified, m_listening>>

listener ==
    /\ events # <<>> /\ life \notin {"closed", "terminated"}
    /\ LET e == Head(events)
       IN  \/ e.type = "connected" /\ on_event_connected(e.host)
           \/ e.type = "connect_delayed" /\ on_event_connect_delayed(e.host)
           \/ e.type = "connect_retried" /\ on_event_connect_retried(e.host)
           \/ e.type = "listening" /\ on_event_listening
           \/ e.type \in {"closed", "disconnected"} /\ on_event_closed(e.host)
    /\ UNCHANGED <<kind, m_running, m_connecting, m_socket_mutex, pc, host, connects, overlapped, out,
                   in, life, queue_vars, link, losses, cut>>

-----------------------------------------------------------------------------

connect_step(c) ==
    \/ connect_lock(c) \/ connect_socket_lock(c) \/ connect_dial(c) \/ connect_refused(c)
    \/ connect_wait(c) \/ connect_wake(c) \/ connect_end(c)

call(c) ==
    \/ \E h \in Hosts : connect(c, h) \/ disconnect(c, h)
    \/ bind(c) \/ subscribe(c) \/ send(c) \/ messages(c)

incoming_thread == incoming_loop \/ incoming_poll \/ incoming_wake
outgoing_thread == outgoing_loop \/ outgoing_pop \/ outgoing_send \/ outgoing_wake
destructor == join \/ close \/ monitor_join
terminate == incoming_terminate \/ listener_terminate

Next ==
    \/ \E c \in Callers : call(c) \/ connect_step(c)
    \/ \E h \in Hosts : link_up(h) \/ link_lost(h)
    \/ incoming_thread \/ outgoing_thread \/ stop \/ destructor \/ listener \/ terminate

\* Threads run and mutexes are handed on.  Nothing is said of when a caller
\* calls, of the destructor's start, of ZMQ's links, or of exceptions
Fairness ==
    /\ \A c \in Callers : SF_vars(connect_step(c))
    /\ SF_vars(incoming_thread) /\ SF_vars(outgoing_thread)
    /\ WF_vars(destructor) /\ WF_vars(listener)

Spec == Init /\ [][Next]_vars /\ Fairness

-----------------------------------------------------------------------------

EventTypes == {"connected", "connect_delayed", "connect_retried", "listening", "closed",
               "disconnected"}
Event == [type : EventTypes, host : Hosts \cup {None}]

\* The state has the shapes the code gives it
TypeOK ==
    /\ kind \in {"dealer", "sub", "pub"}
    /\ m_running \in BOOLEAN
    /\ m_connecting \in Callers \cup {None}
    /\ m_socket_mutex \in Callers \cup {None}
    /\ pc \in [Callers -> PCs]
    /\ host \in [Callers -> Hosts \cup {None}]
    /\ notified \subseteq Callers
    /\ m_outgoing_msgs \in Nat
    /\ m_incoming_msgs \in Nat
    /\ subscribed \in BOOLEAN
    /\ out \in {"off", "loop", "queue", "send", "sleep", "done"}
    /\ in \in {"off", "loop", "poll", "sleep", "done"}
    /\ life \in {"alive", "join_out", "join_in", "close", "monitor", "closed", "terminated"}
    /\ link \in [Hosts -> {"off", "dialing", "up"}]
    /\ events \in Seq(Event)
    /\ step \in 0..2
    /\ m_connected_peers \subseteq Hosts
    /\ m_delayed_peers \subseteq Hosts
    /\ m_retried_peers \subseteq Hosts
    /\ m_listening \in BOOLEAN
    /\ {connects, losses, sends} \subseteq Nat
    /\ overlapped \in BOOLEAN
    /\ cut \subseteq Hosts

\* The socket is there
Open == life \in {"alive", "join_out", "join_in", "close"}

\* No event of the queue q, the one that is being handled included, is about h
Settled(q, h) == \A i \in 1..Len(q) : q[i].host # h

\* The monitor is inside a handler for h
Handling(h) == step > 0 /\ events[1].host = h

\* is_connected() and connected() read what the monitor thread made of ZMQ's
\* events, some time after ZMQ raised them, and one set after the other.  Once
\* it is done with the events about a host, however many are left about
\* others, the host is named if and only if the socket is connected to it,
\* however links broke and came back, but for hosts that disconnect() was
\* called for; and no host is in two of the three sets, except in the middle of
\* a handler for it
MonitorExact ==
    /\ Open => \A h \in Hosts \ cut :
         Settled(events, h) => (h \in m_connected_peers <=> link[h] = "up")
    /\ \A h \in Hosts :
         \/ Handling(h)
         \/ h \notin (m_connected_peers \cap m_delayed_peers)
                      \cup (m_connected_peers \cap m_retried_peers)
                      \cup (m_delayed_peers \cap m_retried_peers)

\* connect waits for the monitor with m_socket_mutex (the client) held, and the
\* destructor joins threads that wait for it: every connect returns, unless two
\* of one ZMQClient overlapped, and a destructor that was started ends, unless
\* an exception that nobody catches ends the process
Returns ==
    /\ \A c \in Callers : pc[c] # "idle" ~> pc[c] = "idle" \/ overlapped
    /\ life # "alive" ~> life \in {"closed", "terminated"}

=============================================================================
