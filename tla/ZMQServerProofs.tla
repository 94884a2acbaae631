--------------------------- MODULE ZMQServerProofs ---------------------------
(****************************************************************************)
(* ZMQServer's safety for every set of clients and any number of messages.  *)
(* IInv adds to the properties who holds the lock at which place of the     *)
(* code (Locks) and what the threads have in hand there (InHand).           *)
(****************************************************************************)
EXTENDS ZMQServer, TLAPS

\* Appending to a sequence keeps every element where it was.
LEMMA AppendAt ==
    ASSUME NEW S, NEW s \in Seq(S), NEW e \in S, NEW k \in 1 .. Len(Append(s, e))
    PROVE  Append(s, e)[k] = e \/ (k \in 1 .. Len(s) /\ Append(s, e)[k] = s[k])
OBVIOUS

\* Removing the head moves every other element one place forward.
LEMMA TailAt ==
    ASSUME NEW S, NEW s \in Seq(S), s # <<>>, NEW k \in 1 .. Len(Tail(s))
    PROVE  k + 1 \in 1 .. Len(s) /\ Tail(s)[k] = s[k + 1]
OBVIOUS

\* Taking the head of a queue, and what is left, stay in the queue's type.
LEMMA HeadTail ==
    ASSUME NEW S, NEW s \in Seq(S), s # <<>>
    PROVE  Head(s) \in S /\ Tail(s) \in Seq(S)
OBVIOUS

LEMMA EmptyQueue == ASSUME NEW S PROVE <<>> \in Seq(S)
OBVIOUS

\* The server starts with the invariant.
LEMMA InitInv == Init => IInv
<1> SUFFICES ASSUME Init PROVE IInv
  OBVIOUS
<1>1. TypeOK
  <2>1. /\ m_incoming_msgs \in Seq(Clients) /\ m_outgoing_msgs \in Seq(Message)
        /\ arrived \in Seq(Clients \cup {None, "odd"})
    BY EmptyQueue DEF Init
  <2>2. arrivals \in 0 .. MaxArrived /\ queued \in 0 .. MaxSent
    BY ServerAssumption DEF Init
  <2> QED BY <2>1, <2>2, Zenon DEF Init, TypeOK
<1>2. Locks /\ InHand
  BY ServerAssumption DEF Init, Locks, InHand
<1>3. RegisteredFirst
  BY DEF Init, RegisteredFirst
<1> QED BY <1>1, <1>2, <1>3 DEF IInv

\* Every action keeps the types, the locks and what the threads have in hand.
LEMMA CoreStep == IInv /\ [Next]_vars => TypeOK' /\ Locks' /\ InHand'
<1> SUFFICES ASSUME IInv, [Next]_vars PROVE TypeOK' /\ Locks' /\ InHand'
  OBVIOUS
<1> USE ServerAssumption DEF IInv, TypeOK, Locks, InHand, Message, in_vars, out_vars, env_vars
<1>1. CASE bind
  BY <1>1 DEF bind
<1>2. CASE pop
  BY <1>2 DEF pop
<1>3. CASE stop
  <2>1. TypeOK'
    BY <1>3 DEF stop, Dtor
  <2>2. Locks'
    BY <1>3 DEF stop, Dtor
  <2>3. InHand'
    BY <1>3 DEF stop, Dtor
  <2> QED BY <2>1, <2>2, <2>3
<1>4. CASE join_out
  BY <1>4 DEF join_out, Dtor
<1>5. CASE join_in
  BY <1>5 DEF join_in, Dtor
<1>6. CASE close
  BY <1>6 DEF close, Dtor
<1>7. CASE in_loop
  BY <1>7 DEF in_loop, In
<1>8. CASE in_lock
  BY <1>8 DEF in_lock, In
<1>9. CASE in_read
  <2>1. arrived # <<>> => /\ Head(arrived) \in Clients \cup {None, "odd"}
                            /\ Tail(arrived) \in Seq(Clients \cup {None, "odd"})
    BY HeadTail
  <2>2. TypeOK'
    BY <1>9, <2>1 DEF in_read, In
  <2>3. Locks'
    BY <1>9, <2>1 DEF in_read, In
  <2>4. InHand'
    BY <1>9, <2>1 DEF in_read, In
  <2> QED BY <2>2, <2>3, <2>4
<1>10. CASE in_contains
  BY <1>10 DEF in_contains, In
<1>11. CASE in_insert
  BY <1>11 DEF in_insert, In
<1>12. CASE in_push
  BY <1>12 DEF in_push, In
<1>13. CASE in_sleep
  <2>1. TypeOK'
    BY <1>13 DEF in_sleep, In, thread_sleep
  <2>2. Locks'
    BY <1>13 DEF in_sleep, In, thread_sleep
  <2>3. InHand'
    BY <1>13 DEF in_sleep, In, thread_sleep
  <2> QED BY <2>1, <2>2, <2>3
<1>14. CASE out_loop
  BY <1>14 DEF out_loop, Out
<1>15. CASE out_drain
  BY <1>15 DEF out_drain, Out
<1>16. CASE out_pop
  <2>1. Head(m_outgoing_msgs) \in Message /\ Tail(m_outgoing_msgs) \in Seq(Message)
    BY <1>16, HeadTail DEF out_pop
  <2>2. TypeOK'
    BY <1>16, <2>1 DEF out_pop, Out
  <2>3. Locks'
    BY <1>16, <2>1 DEF out_pop, Out
  <2>4. InHand'
    BY <1>16, <2>1 DEF out_pop, Out
  <2> QED BY <2>2, <2>3, <2>4
<1>17. CASE out_each
  BY <1>17 DEF out_each, Out
<1>18. CASE out_lock
  <2>1. /\ m_socket_mutex = None /\ pc_in' = pc_in /\ pc_out' = "send" /\ m_socket_mutex' = "out"
        /\ dest' \in Clients /\ todo' \in SUBSET Clients
    BY <1>18 DEF out_lock, Out
  <2>2. TypeOK'
    BY <1>18, <2>1 DEF out_lock, Out
  <2>3. Locks'
    BY <1>18, <2>1 DEF out_lock, Out
  <2>4. InHand'
    BY <1>18, <2>1 DEF out_lock, Out
  <2> QED BY <2>2, <2>3, <2>4
<1>19. CASE out_send
  <2>1. /\ m_socket_mutex = "out" /\ pc_in \notin {"read", "contains", "insert", "push"}
        /\ pc_in' = pc_in /\ pc_out' \in {"lock", "erase"} /\ m_socket_mutex' = None
        /\ each_lock => msg.to = None
    BY <1>19 DEF out_send, sent, delivered, undeliverable, Out
  <2>2. TypeOK'
    BY <1>19, <2>1 DEF out_send, sent, delivered, undeliverable, Out
  <2>3. Locks'
    BY <1>19, <2>1 DEF out_send, sent, delivered, undeliverable, Out
  <2>4. InHand'
    BY <1>19, <2>1 DEF out_send, sent, delivered, undeliverable, Out
  <2> QED BY <2>2, <2>3, <2>4
<1>20. CASE out_each_done
  BY <1>20 DEF out_each_done, Out
<1>21. CASE out_erase
  BY <1>21 DEF out_erase, Out
<1>22. CASE out_done
  BY <1>22 DEF out_done, Out
<1>23. CASE out_sleep
  BY <1>23 DEF out_sleep, Out, thread_sleep
<1>24. ASSUME NEW to \in Clients \cup {None}, send(to)
       PROVE  TypeOK' /\ Locks' /\ InHand'
  BY <1>24 DEF send
<1>25. ASSUME NEW c \in Clients, client_connect(c)
       PROVE  TypeOK' /\ Locks' /\ InHand'
  BY <1>25 DEF client_connect, Client
<1>26. ASSUME NEW c \in Clients, client_disconnect(c)
       PROVE  TypeOK' /\ Locks' /\ InHand'
  BY <1>26 DEF client_disconnect, Client
<1>27. ASSUME NEW c \in Clients, client_send(c)
       PROVE  TypeOK' /\ Locks' /\ InHand'
  BY <1>27 DEF client_send, Client
<1>28. ASSUME NEW c \in Clients, client_read(c)
       PROVE  TypeOK' /\ Locks' /\ InHand'
  BY <1>28 DEF client_read, Client
<1>29. CASE in_terminate
  BY <1>29 DEF in_terminate
<1>30. CASE UNCHANGED vars
  BY <1>30 DEF vars
<1> QED
  BY <1>1, <1>2, <1>3, <1>4, <1>5, <1>6, <1>7, <1>8, <1>9, <1>10, <1>11, <1>12, <1>13, <1>14, <1>15,
     <1>16, <1>17, <1>18, <1>19, <1>20, <1>21, <1>22, <1>23, <1>24, <1>25, <1>26, <1>27, <1>28,
     <1>29, <1>30
  DEF Next, destructor, incoming_thread, outgoing_thread

\* The registration that precedes a message in the queue: only in_push and
\* pop change the queue, and only out_erase takes clients out of the map, those
\* a send has failed for.
LEMMA RegisteredStep == IInv /\ [Next]_vars => RegisteredFirst'
<1> SUFFICES ASSUME IInv, [Next]_vars PROVE RegisteredFirst'
  OBVIOUS
<1> USE DEF IInv, RegisteredFirst
<1>1. CASE in_push
  <2>1. from \in Clients /\ from \in m_connections \cup unreachable
    BY <1>1 DEF in_push, InHand
  <2> SUFFICES ASSUME NEW k \in 1 .. Len(m_incoming_msgs')
               PROVE  m_incoming_msgs'[k] \in m_connections \cup unreachable
    BY <1>1 DEF in_push, In, out_vars
  <2>2. m_incoming_msgs'[k] = from
          \/ (k \in 1 .. Len(m_incoming_msgs) /\ m_incoming_msgs'[k] = m_incoming_msgs[k])
    BY <1>1, <2>1, AppendAt DEF in_push, TypeOK
  <2> QED BY <2>1, <2>2
<1>2. CASE pop
  <2> SUFFICES ASSUME NEW k \in 1 .. Len(m_incoming_msgs')
               PROVE  m_incoming_msgs'[k] \in m_connections \cup unreachable
    BY <1>2 DEF pop, out_vars
  <2>1. k + 1 \in 1 .. Len(m_incoming_msgs) /\ m_incoming_msgs'[k] = m_incoming_msgs[k + 1]
    BY <1>2, TailAt DEF pop, TypeOK
  <2> QED BY <2>1
<1>3. CASE out_erase
  BY <1>3 DEF out_erase, Out, in_vars, InHand
<1>4. CASE in_insert
  BY <1>4 DEF in_insert, In, out_vars
<1>5. CASE out_send
  BY <1>5 DEF out_send, sent, delivered, undeliverable, Out, in_vars
<1>6. CASE UNCHANGED <<m_incoming_msgs, m_connections, unreachable, heard>>
  BY <1>6
<1>7. CASE bind \/ stop \/ join_out \/ join_in \/ close \/ in_loop
  BY <1>6, <1>7 DEF bind, stop, join_out, join_in, close, in_loop,
     Dtor, In, in_vars, out_vars
<1>8. CASE in_lock \/ in_read \/ in_terminate \/ in_contains \/ in_sleep
  BY <1>6, <1>8 DEF in_lock, in_read, in_terminate, in_contains, in_sleep,
     In, Out, in_vars, out_vars
<1>9. CASE out_loop \/ out_drain \/ out_pop \/ out_each \/ out_lock
            \/ out_each_done \/ out_done \/ out_sleep
  BY <1>6, <1>9 DEF out_loop, out_drain, out_pop, out_each, out_lock, out_each_done,
     out_done, out_sleep, Out, in_vars, out_vars
<1>10. ASSUME NEW to \in Clients \cup {None}, send(to) PROVE RegisteredFirst'
  BY <1>6, <1>10 DEF send, in_vars
<1>11. ASSUME NEW c \in Clients,
              client_connect(c) \/ client_disconnect(c) \/ client_read(c) \/ client_send(c)
       PROVE  RegisteredFirst'
  BY <1>6, <1>11 DEF client_connect, client_disconnect, client_read, client_send, Client,
     out_vars
<1>12. CASE UNCHANGED vars
  BY <1>6, <1>12 DEF vars, in_vars, out_vars
<1> QED
  BY <1>1, <1>2, <1>3, <1>4, <1>5, <1>7, <1>8, <1>9, <1>10, <1>11, <1>12
  DEF Next, destructor, incoming_thread, outgoing_thread

-----------------------------------------------------------------------------
\* The invariant holds in every behaviour of the server.
THEOREM Invariance == Spec => []IInv
<1>1. IInv /\ [Next]_vars => IInv'
  BY CoreStep, RegisteredStep DEF IInv
<1> QED BY <1>1, InitInv, PTL DEF Spec

\* Every variable of the server keeps its type.
THEOREM TypeCorrect == Spec => []TypeOK
BY Invariance, PTL DEF IInv

\* incoming_thread and outgoing_thread never use m_socket at once, nor after
\* ~ZMQServer has closed it.
THEOREM SocketAlwaysExclusive == Spec => []SocketExclusive
<1>1. IInv => SocketExclusive
  BY ServerAssumption DEF IInv, Locks, SocketExclusive
<1> QED BY <1>1, Invariance, PTL

\* A client is registered before incoming_thread queues its message.
THEOREM AlwaysRegisteredFirst == Spec => []RegisteredFirst
BY Invariance, PTL DEF IInv
=============================================================================
