------------------------------ MODULE ZMQServer ------------------------------
(****************************************************************************)
(* Networking::ZMQServer (src/networking/zmq_server.cpp): a ROUTER socket   *)
(* that an incoming and an outgoing thread share under m_socket_mutex, and  *)
(* the map m_connections of the clients heard of, a ThreadSafeMap whose     *)
(* each() holds the map's shared lock while its callback runs.              *)
(*                                                                          *)
(* A message from a client is the client's name; a message to clients is a  *)
(* number with a destination.  The socket and the clients are modelled from *)
(* how the code uses them.                                                  *)
(****************************************************************************)
EXTENDS Integers, Sequences, FiniteSets

CONSTANTS
    Clients,       \* identities of clients
    None,          \* no destination: a broadcast; nobody holds a lock
    MaxSent,       \* bound: messages the callers send
    MaxArrived,    \* bound: messages the clients send
    Broadcasts     \* whether callers send broadcasts

ASSUME ServerAssumption ==
    /\ None \notin Clients /\ None \notin {"in", "out", "odd"} /\ "odd" \notin Clients
    /\ MaxSent \in Nat /\ MaxArrived \in Nat
    /\ Broadcasts \in BOOLEAN

VARIABLES
    m_running,
    m_socket_mutex,    \* who holds it
    each_lock,         \* the outgoing thread holds m_connections' shared lock
    m_connections,     \* registered clients
    m_incoming_msgs, m_outgoing_msgs,
    pc_in, pc_out,     \* where the two threads are
    from,              \* the client whose message the incoming thread has
    msg,               \* the message the outgoing thread has
    todo,              \* clients each() has still to visit
    dest,              \* the client m_socket.send goes to
    to_delete,
    dtor,              \* where the destructor is
    connected,         \* clients with a connection
    full,              \* connected clients whose pipe is at its high-water mark
    arrived,           \* messages in the socket; None: not two parts, or empty;
                       \* "odd": an identity or address that does not convert
    known,             \* clients the owner has had a message from
    arrivals, queued,  \* how many messages came from clients and from callers
    done,              \* messages the outgoing thread has dealt with
    unreachable,       \* clients a send has ever failed for
    heard              \* clients a message of which was queued since

in_vars == <<pc_in, from, m_incoming_msgs, arrived>>
out_vars == <<pc_out, msg, todo, dest, to_delete, m_outgoing_msgs, done, unreachable, full>>
env_vars == <<connected, known, arrivals, queued>>
vars == <<m_running, m_socket_mutex, each_lock, m_connections, in_vars, out_vars, dtor,
          heard, env_vars>>

Message == [id : 1 .. MaxSent, to : Clients \cup {None}]

Init ==
    /\ m_running = FALSE /\ m_socket_mutex = None /\ each_lock = FALSE
    /\ m_connections = {}
    /\ m_incoming_msgs = <<>> /\ m_outgoing_msgs = <<>>
    /\ pc_in = "none" /\ pc_out = "none"
    /\ from = None /\ msg = None /\ todo = {} /\ dest = None /\ to_delete = {}
    /\ dtor = "none"
    /\ connected = {} /\ known = {} /\ arrived = <<>> /\ arrivals = 0 /\ queued = 0
    /\ done = {} /\ unreachable = {} /\ full = {} /\ heard = {}

-----------------------------------------------------------------------------
\* thread_sleep(m_stopping) is false after a timeout; it is true, and ends the
\* thread's loop, after ~ZMQServer's notify_all and after a spurious wakeup
thread_sleep == BOOLEAN

-----------------------------------------------------------------------------
(* The callers *)

\* The constructor and bind: both threads start
bind ==
    /\ ~m_running /\ dtor = "none"
    /\ m_socket_mutex = None
    /\ m_running' = TRUE
    /\ pc_in' = "loop" /\ pc_out' = "loop"
    /\ UNCHANGED <<m_socket_mutex, each_lock, m_connections, from, m_incoming_msgs, arrived,
                   msg, todo, dest, to_delete, m_outgoing_msgs, done, unreachable, full, dtor,
                   heard, env_vars>>

\* The owner answers the clients it has heard of, or broadcasts
send(to) ==
    /\ m_running
    /\ to \in known \/ (to = None /\ Broadcasts)
    /\ queued < MaxSent
    /\ queued' = queued + 1
    /\ m_outgoing_msgs' = Append(m_outgoing_msgs, [id |-> queued + 1, to |-> to])
    /\ UNCHANGED <<m_running, m_socket_mutex, each_lock, m_connections, in_vars, pc_out, msg,
                   todo, dest, to_delete, done, unreachable, full, dtor, heard, connected, known,
                   arrivals>>

\* messages(): the owner takes a message out of the queue
pop ==
    /\ m_incoming_msgs # <<>> /\ dtor # "terminated"
    /\ known' = known \cup {Head(m_incoming_msgs)}
    /\ m_incoming_msgs' = Tail(m_incoming_msgs)
    /\ UNCHANGED <<m_running, m_socket_mutex, each_lock, m_connections, pc_in, from, arrived,
                   out_vars, dtor, heard, connected, arrivals, queued>>

-----------------------------------------------------------------------------
(* incoming_thread *)

In(l) ==
    /\ pc_in' = l
    /\ UNCHANGED <<m_running, each_lock, out_vars, dtor, env_vars>>

\* Mutant: the loop does not look at m_running
in_loop_forever ==
    /\ pc_in = "loop"
    /\ In("lock")
    /\ UNCHANGED <<m_socket_mutex, m_connections, heard, from, m_incoming_msgs, arrived>>

in_loop ==
    /\ pc_in = "loop"
    /\ In(IF m_running THEN "lock" ELSE "exit")
    /\ UNCHANGED <<m_socket_mutex, m_connections, heard, from, m_incoming_msgs, arrived>>

in_lock ==
    /\ pc_in = "lock"
    /\ m_socket_mutex = None
    /\ m_socket_mutex' = "in"
    /\ In("read")
    /\ UNCHANGED <<m_connections, heard, from, m_incoming_msgs, arrived>>

\* The read does not wait, and drops what is not two parts with a payload;
\* m_socket_mutex is kept until the message is queued
in_read ==
    /\ pc_in = "read"
    /\ \/ /\ arrived = <<>>
          /\ m_socket_mutex' = None
          /\ In("sleep")
          /\ UNCHANGED <<from, arrived>>
       \/ /\ arrived # <<>> /\ Head(arrived) = None
          /\ arrived' = Tail(arrived)
          /\ m_socket_mutex' = None
          /\ In("sleep")
          /\ UNCHANGED from
       \/ /\ arrived # <<>> /\ Head(arrived) \in Clients
          /\ from' = Head(arrived)
          /\ arrived' = Tail(arrived)
          /\ In("contains")
          /\ UNCHANGED m_socket_mutex
    /\ UNCHANGED <<m_connections, heard, m_incoming_msgs>>

\* crypto_hash_t of the identity or normalize_host_port throws: incoming_thread
\* catches zmq::error_t only, and std::terminate ends the process
in_terminate ==
    /\ pc_in = "read"
    /\ arrived # <<>> /\ Head(arrived) = "odd"
    /\ pc_in' = "exit" /\ pc_out' = "exit" /\ dtor' = "terminated"
    /\ m_running' = FALSE /\ m_socket_mutex' = None /\ each_lock' = FALSE
    /\ UNCHANGED <<m_connections, heard, from, m_incoming_msgs, arrived, msg, todo, dest,
                   to_delete, m_outgoing_msgs, done, unreachable, full, env_vars>>

\* Mutant: the message is delivered without registering the client
in_contains_push ==
    /\ pc_in = "contains"
    /\ In("push")
    /\ UNCHANGED <<m_socket_mutex, m_connections, heard, from, m_incoming_msgs, arrived>>

\* m_connections.contains: a shared lock, which each() does not keep away
in_contains ==
    /\ pc_in = "contains"
    /\ In(IF from \in m_connections THEN "push" ELSE "insert")
    /\ UNCHANGED <<m_socket_mutex, m_connections, heard, from, m_incoming_msgs, arrived>>

\* m_connections.insert: a unique lock
in_insert ==
    /\ pc_in = "insert"
    /\ ~each_lock
    /\ m_connections' = m_connections \cup {from}
    /\ In("push")
    /\ UNCHANGED <<m_socket_mutex, heard, from, m_incoming_msgs, arrived>>

in_push ==
    /\ pc_in = "push"
    /\ m_incoming_msgs' = Append(m_incoming_msgs, from)
    /\ heard' = heard \cup {from}
    /\ from' = None
    /\ m_socket_mutex' = None
    /\ In("sleep")
    /\ UNCHANGED <<m_connections, arrived>>

in_sleep ==
    /\ pc_in = "sleep"
    /\ \E woken \in thread_sleep : In(IF woken THEN "exit" ELSE "loop")
    /\ UNCHANGED <<m_socket_mutex, m_connections, heard, from, m_incoming_msgs, arrived>>

-----------------------------------------------------------------------------
(* outgoing_thread *)

Out(l) ==
    /\ pc_out' = l
    /\ UNCHANGED <<m_running, in_vars, dtor, env_vars>>

out_loop ==
    /\ pc_out = "loop"
    /\ Out(IF m_running THEN "drain" ELSE "exit")
    /\ UNCHANGED <<heard, m_socket_mutex, each_lock, m_connections, msg, todo, dest, to_delete,
                   m_outgoing_msgs, done, unreachable, full>>

\* The inner loop ends when the queue is empty or the server stops
out_drain ==
    /\ pc_out = "drain"
    /\ m_outgoing_msgs = <<>> \/ ~m_running
    /\ Out("sleep")
    /\ UNCHANGED <<heard, m_socket_mutex, each_lock, m_connections, msg, todo, dest, to_delete,
                   m_outgoing_msgs, done, unreachable, full>>

out_pop ==
    /\ pc_out = "drain"
    /\ m_outgoing_msgs # <<>> /\ m_running
    /\ msg' = Head(m_outgoing_msgs)
    /\ m_outgoing_msgs' = Tail(m_outgoing_msgs)
    /\ to_delete' = {}
    /\ Out(IF Head(m_outgoing_msgs).to = None THEN "each" ELSE "lock")
    /\ UNCHANGED <<heard, m_socket_mutex, each_lock, m_connections, todo, dest, done, unreachable, full>>

\* m_connections.each: the shared lock is held for all of the callbacks
out_each ==
    /\ pc_out = "each"
    /\ each_lock' = TRUE
    /\ todo' = m_connections
    /\ Out("lock")
    /\ UNCHANGED <<heard, m_socket_mutex, m_connections, msg, dest, to_delete, m_outgoing_msgs,
                   done, unreachable, full>>

\* Mutant: m_socket_mutex is not taken
out_lock_free ==
    /\ pc_out = "lock"
    /\ \/ msg.to # None /\ dest' = msg.to /\ UNCHANGED todo
       \/ /\ msg.to = None
          /\ \E c \in todo : dest' = c /\ todo' = todo \ {c}
    /\ Out("send")
    /\ UNCHANGED <<heard, m_socket_mutex, each_lock, m_connections, msg, to_delete, m_outgoing_msgs,
                   done, unreachable, full>>

out_lock ==
    /\ pc_out = "lock"
    /\ m_socket_mutex = None
    /\ \/ msg.to # None /\ dest' = msg.to /\ UNCHANGED todo
       \/ /\ msg.to = None
          /\ \E c \in todo : dest' = c /\ todo' = todo \ {c}
    /\ m_socket_mutex' = "out"
    /\ Out("send")
    /\ UNCHANGED <<heard, each_lock, m_connections, msg, to_delete, m_outgoing_msgs, done,
                   unreachable, full>>

\* The send of the first part waits, with m_socket_mutex held, while the
\* client's pipe is at its high-water mark.  It goes through, and may be the
\* one that fills the pipe ...
delivered ==
    /\ dest \in connected \ full
    /\ full' \in {full, full \cup {dest}}
    /\ UNCHANGED <<to_delete, unreachable, heard>>

\* ... or, as router_mandatory wants it, throws because the client is gone
undeliverable(lost) ==
    /\ dest \notin connected
    /\ to_delete' = to_delete \cup {lost}
    /\ unreachable' = unreachable \cup {dest}
    /\ heard' = heard \ {dest}
    /\ UNCHANGED full

sent ==
    /\ dest' = None
    /\ Out(IF msg.to = None THEN "lock" ELSE "erase")
    /\ UNCHANGED <<each_lock, m_connections, msg, todo, m_outgoing_msgs, done>>

\* Mutant: a failed broadcast unregisters the message's empty destination
out_send_to ==
    /\ pc_out = "send"
    /\ delivered \/ undeliverable(msg.to)
    /\ m_socket_mutex' = None
    /\ sent

\* Mutant: the exception leaves m_socket_mutex locked
out_send_locked ==
    /\ pc_out = "send"
    /\ \/ delivered /\ m_socket_mutex' = None
       \/ undeliverable(dest) /\ UNCHANGED m_socket_mutex
    /\ sent

out_send ==
    /\ pc_out = "send"
    /\ delivered \/ undeliverable(dest)
    /\ m_socket_mutex' = None
    /\ sent

out_each_done ==
    /\ pc_out = "lock" /\ msg.to = None /\ todo = {}
    /\ each_lock' = FALSE
    /\ Out("erase")
    /\ UNCHANGED <<heard, m_socket_mutex, m_connections, msg, todo, dest, to_delete,
                   m_outgoing_msgs, done, unreachable, full>>

\* m_connections.erase: a unique lock; nobody but this thread runs each()
out_erase ==
    /\ pc_out = "erase"
    /\ \E c \in to_delete :
         /\ m_connections' = m_connections \ {c}
         /\ to_delete' = to_delete \ {c}
    /\ Out("erase")
    /\ UNCHANGED <<heard, m_socket_mutex, each_lock, msg, todo, dest, m_outgoing_msgs, done,
                   unreachable, full>>

out_done ==
    /\ pc_out = "erase" /\ to_delete = {}
    /\ done' = done \cup {msg.id}
    /\ msg' = None
    /\ Out("drain")
    /\ UNCHANGED <<heard, m_socket_mutex, each_lock, m_connections, todo, dest, to_delete,
                   m_outgoing_msgs, unreachable, full>>

out_sleep ==
    /\ pc_out = "sleep"
    /\ \E woken \in thread_sleep : Out(IF woken THEN "exit" ELSE "loop")
    /\ UNCHANGED <<heard, m_socket_mutex, each_lock, m_connections, msg, todo, dest, to_delete,
                   m_outgoing_msgs, done, unreachable, full>>

-----------------------------------------------------------------------------
(* ~ZMQServer: stop, join the outgoing thread, the incoming one, close *)

Dtor(l) ==
    /\ dtor' = l
    /\ UNCHANGED <<m_socket_mutex, each_lock, m_connections, in_vars, out_vars, heard, env_vars>>

stop ==
    /\ dtor = "none"
    /\ m_running
    /\ m_running' = FALSE
    /\ Dtor("join_out")

join_out ==
    /\ dtor = "join_out"
    /\ pc_out = "exit"
    /\ Dtor("join_in")
    /\ UNCHANGED m_running

join_in ==
    /\ dtor = "join_in"
    /\ pc_in = "exit"
    /\ Dtor("close")
    /\ UNCHANGED m_running

close ==
    /\ dtor = "close"
    /\ m_socket_mutex = None
    /\ Dtor("closed")
    /\ UNCHANGED m_running

-----------------------------------------------------------------------------
(* The clients: they connect, send, lose the connection and come back with  *)
(* the same identity                                                        *)

Client == UNCHANGED <<m_running, m_socket_mutex, each_lock, m_connections, pc_in, from,
                      m_incoming_msgs, pc_out, msg, todo, dest, to_delete, m_outgoing_msgs,
                      done, unreachable, dtor, heard, known, queued>>

client_connect(c) ==
    /\ m_running
    /\ connected' = connected \cup {c}
    /\ UNCHANGED <<full, arrived, arrivals>>
    /\ Client

client_disconnect(c) ==
    /\ connected' = connected \ {c}
    /\ full' = full \ {c}
    /\ UNCHANGED <<arrived, arrivals>>
    /\ Client

\* The client reads on, and its pipe falls below the mark
client_read(c) ==
    /\ c \in full
    /\ full' = full \ {c}
    /\ UNCHANGED <<connected, arrived, arrivals>>
    /\ Client

client_send(c) ==
    /\ c \in connected
    /\ arrivals < MaxArrived
    /\ arrivals' = arrivals + 1
    /\ \E m \in {c, None, "odd"} : arrived' = Append(arrived, m)
    /\ UNCHANGED <<connected, full>>
    /\ Client

-----------------------------------------------------------------------------
incoming_thread == in_loop \/ in_lock \/ in_read \/ in_terminate \/ in_contains \/ in_insert
                     \/ in_push \/ in_sleep

outgoing_thread == out_loop \/ out_drain \/ out_pop \/ out_each \/ out_lock \/ out_send
                     \/ out_each_done \/ out_erase \/ out_done \/ out_sleep

destructor == join_out \/ join_in \/ close

Next ==
    \/ bind \/ pop \/ stop \/ destructor \/ incoming_thread \/ outgoing_thread
    \/ \E to \in Clients \cup {None} : send(to)
    \/ \E c \in Clients : \/ client_connect(c) \/ client_disconnect(c) \/ client_read(c)
                          \/ client_send(c)

Spec == Init /\ [][Next]_vars

\* Threads keep running; a mutex that is free again and again is obtained
Fairness == /\ WF_vars(incoming_thread) /\ WF_vars(outgoing_thread) /\ WF_vars(destructor)
            /\ SF_vars(in_lock) /\ SF_vars(out_lock)
FairSpec == Spec /\ Fairness

-----------------------------------------------------------------------------
(* Properties *)

\* Every variable stays in its type.
TypeOK ==
    /\ m_running \in BOOLEAN /\ each_lock \in BOOLEAN
    /\ m_socket_mutex \in {"in", "out", None}
    /\ m_connections \in SUBSET Clients /\ connected \in SUBSET Clients
    /\ known \in SUBSET Clients
    /\ m_incoming_msgs \in Seq(Clients) /\ arrived \in Seq(Clients \cup {None, "odd"})
    /\ m_outgoing_msgs \in Seq(Message)
    /\ pc_in \in {"none", "loop", "lock", "read", "contains", "insert", "push", "sleep", "exit"}
    /\ pc_out \in {"none", "loop", "drain", "each", "lock", "send", "erase", "sleep", "exit"}
    /\ from \in Clients \cup {None} /\ dest \in Clients \cup {None}
    /\ msg \in Message \cup {None}
    /\ todo \in SUBSET Clients /\ to_delete \in SUBSET Clients
    /\ dtor \in {"none", "join_out", "join_in", "close", "closed", "terminated"}
    /\ arrivals \in 0 .. MaxArrived /\ queued \in 0 .. MaxSent
    /\ done \in SUBSET (1 .. MaxSent) /\ unreachable \in SUBSET Clients
    /\ full \in SUBSET Clients
    /\ heard \in SUBSET Clients

\* A ZMQ socket is not thread safe: the two threads never use it at once, and
\* neither does once ~ZMQServer has closed it.
SocketExclusive ==
    /\ ~(pc_in = "read" /\ pc_out = "send")
    /\ dtor = "closed" => pc_in # "read" /\ pc_out # "send"

\* Whoever takes a client's message out of the queue can answer it by a
\* broadcast: the client is registered before its message is delivered, and
\* stays registered until a send to it fails.
RegisteredFirst ==
    /\ \A k \in 1 .. Len(m_incoming_msgs) :
          m_incoming_msgs[k] \in m_connections \cup unreachable
    /\ heard \subseteq m_connections \cup unreachable

\* No client stays at its high-water mark for ever: it reads, or it is gone.
\* One that stays connected and never reads stops both threads, because the
\* send that waits for it keeps m_socket_mutex.
ClientsRead == \A c \in Clients : []<>(c \notin full)

\* "Outgoing messages are queued and eventually sent unless the destination
\* client disconnected": while the server runs, the clients go on reading and
\* no spurious wakeup has ended its threads, every message is dealt with.
EventuallySent ==
    ClientsRead /\ []("exit" \in {pc_in, pc_out} => ~m_running) =>
        \A n \in 1 .. MaxSent : queued >= n ~> n \in done \/ ~m_running

\* ... which the code does for as long as no broadcast is under way: no failed
\* send, full pipe, dropped message or client that vanishes stops the outgoing
\* thread.
AnswersSent == []~each_lock => EventuallySent

\* "Destroying the instance auto-stops the threads and closes the socket":
\* where no broadcast is under way and the clients go on reading, joining the
\* threads one by one ends, unless the process ends first.
Stops ==
    []~each_lock /\ ClientsRead =>
        (dtor = "join_out" ~> dtor \in {"closed", "terminated"})

-----------------------------------------------------------------------------
(* The inductive invariant behind SocketExclusive and RegisteredFirst *)

Locks ==
    /\ m_socket_mutex = "in" <=> pc_in \in {"read", "contains", "insert", "push"}
    /\ m_socket_mutex = "out" <=> pc_out = "send"
    /\ dtor \in {"join_in", "close", "closed", "terminated"} => pc_out \in {"none", "exit"}
    /\ dtor \in {"close", "closed", "terminated"} => pc_in \in {"none", "exit"}
    /\ dtor # "none" => ~m_running
    /\ each_lock => pc_out \in {"lock", "send"} /\ msg.to = None
    /\ ~m_running /\ dtor = "none" => pc_out = "none" /\ ~each_lock

InHand ==
    /\ pc_in \in {"contains", "insert", "push"} => from \in Clients
    /\ pc_in = "push" => from \in m_connections \cup unreachable
    /\ pc_out \in {"each", "lock", "send", "erase"} => msg \in Message
    /\ pc_out = "each" => msg.to = None
    /\ pc_out = "send" => dest \in Clients
    /\ to_delete \subseteq unreachable

IInv == TypeOK /\ Locks /\ InHand /\ RegisteredFirst

=============================================================================
