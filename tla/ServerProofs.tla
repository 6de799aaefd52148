---------------------------- MODULE ServerProofs ----------------------------
(***************************************************************************)
(* Proofs about module Server, for every set of connections, every bound   *)
(* and both kinds of server and client.                                    *)
(*                                                                         *)
(* The invariants that the runs check are not inductive one by one; IInv   *)
(* adds what connects them: where a connection can be while it is not in   *)
(* the list, when the threads' local variables are in use, and how far the *)
(* threads are when the destructor passes a join.                          *)
(***************************************************************************)
EXTENDS Server, TLAPS

-----------------------------------------------------------------------------
(* The type invariant is inductive together with the pointers' validity.   *)
Typed == TypeOK /\ PointersSet

(* Before the threads run, everything has its type, ...                    *)
LEMMA InitTypeOK == Init => Typed
<1> SUFFICES ASSUME Init PROVE Typed
  OBVIOUS
<1>1. PointersSet
  BY DEF Init, PointersSet
<1>2. TypeOK
  BY DEF Init, TypeOK, Status, InPass
<1> QED
  BY <1>1, <1>2 DEF Typed

(* ... and every step keeps it.                                            *)
LEMMA NextTypeOK == Typed /\ [Next]_vars => Typed'
<1> SUFFICES ASSUME Typed, [Next]_vars PROVE Typed'
  OBVIOUS
<1> USE ServerAssumption DEF Typed, TypeOK, PointersSet, Status, InPass
<1>1. ASSUME NEW c \in Conns, Connect(c) PROVE Typed'
  BY <1>1 DEF Connect, serverVars, listenerVars, handlerVars, bufferVars
<1>2. ASSUME NEW c \in Conns, Send(c) PROVE Typed'
  BY <1>2 DEF Send, serverVars, listenerVars, handlerVars
<1>3. ASSUME NEW c \in Conns, ReadReply(c) PROVE Typed'
  BY <1>3 DEF ReadReply, serverVars, listenerVars, handlerVars, clientVars
<1>4. ASSUME NEW c \in Conns, Break(c) PROVE Typed'
  BY <1>4 DEF Break, serverVars, listenerVars, handlerVars, bufferVars
<1>5. ASSUME NEW c \in Conns, Disconnect(c) PROVE Typed'
  BY <1>5 DEF Disconnect, serverVars, listenerVars, handlerVars, bufferVars
<1>6. CASE Listen
  BY <1>6 DEF Listen, handlerVars, clientVars, bufferVars
<1>7. CASE ListenerLoop
  BY <1>7 DEF ListenerLoop, serverVars, handlerVars, clientVars, bufferVars
<1>8. CASE ListenerTimeout
  BY <1>8 DEF ListenerTimeout, serverVars, handlerVars, clientVars, bufferVars
<1>25. CASE AcceptFails
  BY <1>25 DEF AcceptFails, handlerVars, bufferVars
<1>9. CASE Accept
  BY <1>9 DEF Accept, handlerVars, bufferVars
<1>10. CASE LockForAdd
  BY <1>10 DEF LockForAdd, handlerVars, clientVars, bufferVars
<1>11. CASE AddConnection
  BY <1>11 DEF AddConnection, handlerVars, clientVars, bufferVars
<1>12. CASE HandlerLoop
  BY <1>12 DEF HandlerLoop, serverVars, listenerVars, clientVars, bufferVars
<1>13. CASE MarkConnections
  BY <1>13 DEF MarkConnections, Finished, listenerVars, clientVars, bufferVars
<1>14. CASE SelectTimeout
  BY <1>14 DEF SelectTimeout, listenerVars, clientVars, bufferVars
<1>15. CASE SelectReady
  BY <1>15 DEF SelectReady, Reported, serverVars, listenerVars, clientVars, bufferVars
<1>16. ASSUME NEW c \in Conns, Dispatch(c) PROVE Typed'
  BY <1>16 DEF Dispatch, listenerVars, clientVars, bufferVars
<1>17. CASE EndPass
  BY <1>17 DEF EndPass, listenerVars, clientVars, bufferVars
<1>18. CASE ReceiveQuery
  BY <1>18 DEF ReceiveQuery, serverVars, listenerVars, clientVars
<1>19. CASE ReceiveFails
  BY <1>19 DEF ReceiveFails, FunctorEnds, listenerVars, clientVars, bufferVars
<1>20. CASE Reply
  BY <1>20 DEF Reply, FunctorEnds, listenerVars, clientVars
<1>21. CASE Stop
  BY <1>21 DEF Stop, listenerVars, handlerVars, clientVars, bufferVars
<1>22. CASE JoinListener
  BY <1>22 DEF JoinListener, serverVars, listenerVars, handlerVars, clientVars, bufferVars
<1>23. CASE JoinHandler
  BY <1>23 DEF JoinHandler, HandlerJoinable, listenerVars, handlerVars, clientVars, bufferVars
<1>24. CASE UNCHANGED vars
  BY <1>24 DEF vars, serverVars, listenerVars, handlerVars, clientVars, bufferVars
<1> QED
  BY <1>1, <1>2, <1>3, <1>4, <1>5, <1>6, <1>7, <1>8, <1>9, <1>10, <1>11, <1>12,
     <1>13, <1>14, <1>15, <1>16, <1>17, <1>18, <1>19, <1>20, <1>21, <1>22,
     <1>23, <1>24, <1>25
  DEF Next, Client, WaitForConnection, ConnectionHandler, Destructor

(* TypeOK holds in every reachable state.                                  *)
THEOREM TypeCorrect == Spec => []TypeOK
BY InitTypeOK, NextTypeOK, PTL DEF Spec, Typed
(* Every step preserves the inductive invariant.                           *)
LEMMA NextIInv == IInv /\ [Next]_vars => IInv'
<1> SUFFICES ASSUME IInv, [Next]_vars PROVE IInv'
  OBVIOUS
<1>0. TypeOK' /\ PointersSet'
  BY NextTypeOK DEF IInv, Typed
<1> USE <1>0, ServerAssumption DEF IInv, TypeOK, Status, InPass, PointersSet,
      LockDiscipline, ThreadsJoined, PortHeld, NotYetListed, SocketsAccounted,
      PassIsStable, RestOfPass, BusyIsServed, OneReplyPerQuery, ClosedIsDone,
      Readable, Writable, serverVars, listenerVars, handlerVars, clientVars, bufferVars
<1>1. ASSUME NEW c \in Conns, Connect(c) PROVE IInv'
  BY <1>1 DEF Connect
<1>2. ASSUME NEW c \in Conns, Send(c) PROVE IInv'
  BY <1>2 DEF Send
<1>3. ASSUME NEW c \in Conns, ReadReply(c) PROVE IInv'
  BY <1>3 DEF ReadReply
<1>4. ASSUME NEW c \in Conns, Break(c) PROVE IInv'
  BY <1>4 DEF Break
<1>5. ASSUME NEW c \in Conns, Disconnect(c) PROVE IInv'
  BY <1>5 DEF Disconnect
<1>6. CASE Listen
  BY <1>6 DEF Listen
<1>7. CASE ListenerLoop
  BY <1>7 DEF ListenerLoop
<1>8. CASE ListenerTimeout
  BY <1>8 DEF ListenerTimeout
<1>25. CASE AcceptFails
  BY <1>25 DEF AcceptFails
<1>9. CASE Accept
  BY <1>9 DEF Accept
<1>10. CASE LockForAdd
  BY <1>10 DEF LockForAdd
<1>11. CASE AddConnection
  BY <1>11 DEF AddConnection
<1>12. CASE HandlerLoop
  BY <1>12 DEF HandlerLoop
<1>13. CASE MarkConnections
  BY <1>13 DEF MarkConnections, Finished
<1>14. CASE SelectTimeout
  BY <1>14 DEF SelectTimeout
<1>15. CASE SelectReady
  BY <1>15 DEF SelectReady, Reported
<1>16. ASSUME NEW c \in Conns, Dispatch(c) PROVE IInv'
  BY <1>16 DEF Dispatch
<1>17. CASE EndPass
  BY <1>17 DEF EndPass
<1>18. CASE ReceiveQuery
  BY <1>18 DEF ReceiveQuery
<1>19. CASE ReceiveFails
  BY <1>19 DEF ReceiveFails, FunctorEnds
<1>20. CASE Reply
  BY <1>20 DEF Reply, FunctorEnds
<1>21. CASE Stop
  BY <1>21 DEF Stop
<1>22. CASE JoinListener
  BY <1>22 DEF JoinListener
<1>23. CASE JoinHandler
  BY <1>23 DEF JoinHandler, HandlerJoinable
<1>24. CASE UNCHANGED vars
  BY <1>24 DEF vars
<1> HIDE DEF IInv, TypeOK
<1> QED
  BY <1>1, <1>2, <1>3, <1>4, <1>5, <1>6, <1>7, <1>8, <1>9, <1>10, <1>11, <1>12,
     <1>13, <1>14, <1>15, <1>16, <1>17, <1>18, <1>19, <1>20, <1>21, <1>22,
     <1>23, <1>24, <1>25
  DEF Next, Client, WaitForConnection, ConnectionHandler, Destructor

(* The invariant holds of the empty list, ...                              *)
LEMMA InitIInv == Init => IInv
<1> SUFFICES ASSUME Init PROVE IInv
  OBVIOUS
<1>1. TypeOK /\ PointersSet
  BY InitTypeOK DEF Typed
<1>2. LockDiscipline /\ ThreadsJoined /\ PortHeld /\ NotYetListed /\ SocketsAccounted
  BY ServerAssumption
  DEF Init, InPass, LockDiscipline, ThreadsJoined, PortHeld, NotYetListed, SocketsAccounted
<1>3. PassIsStable /\ RestOfPass /\ BusyIsServed /\ ClosedIsDone
  BY DEF Init, InPass, PassIsStable, RestOfPass, BusyIsServed, ClosedIsDone
<1>4. OneReplyPerQuery
  BY DEF Init, OneReplyPerQuery
<1> QED
  BY <1>1, <1>2, <1>3, <1>4 DEF IInv

(* The inductive invariant holds in every reachable state.                 *)
THEOREM Invariance == Spec => []IInv
BY InitIInv, NextIInv, PTL DEF Spec

-----------------------------------------------------------------------------
(* The list is changed and iterated under m_conn_lock only.                *)
THEOREM MutualExclusion == Spec => []LockDiscipline
BY Invariance, PTL DEF IInv

(* No accepted socket leaks and none is closed while it is referred to.    *)
THEOREM NoSocketLeak == Spec => []SocketsAccounted
BY Invariance, PTL DEF IInv

(* Nothing that a pass refers to leaves the list during the pass.          *)
THEOREM NoStaleReference == Spec => []PassIsStable
BY Invariance, PTL DEF IInv

(* busy marks the connection whose functor runs and no other.              *)
THEOREM BusyCorrect == Spec => []BusyIsServed
BY Invariance, PTL DEF IInv

(* No query is lost and none is answered twice.                            *)
THEOREM EveryQueryAccounted == Spec => []OneReplyPerQuery
BY Invariance, PTL DEF IInv

(* A reply finds room in the send buffer.                                  *)
THEOREM NoBlockingReply == Spec => []ReplyDoesNotBlock
<1>1. IInv => ReplyDoesNotBlock
  BY DEF IInv, RestOfPass, ReplyDoesNotBlock
<1> QED
  BY <1>1, Invariance, PTL

-----------------------------------------------------------------------------
(* A pass removes only connections whose clients are lost and answered.    *)
LEMMA FinishedAnswered ==
  ASSUME IInv, handler = "lock", NEW c \in Finished
  PROVE  /\ c \in Conns
         /\ socket[c] = "open"
         /\ peer[c] \in {"broken", "gone"}
         /\ replied[c] = sent[c]
<1>1. c \in Conns /\ c \in openConnections /\ status[c] = "closed"
  BY DEF Finished, IInv, TypeOK
<1>2. main # "destroyed"
  BY DEF IInv, ThreadsJoined
<1>3. peer[c] \in {"broken", "gone"} /\ inbox[c] = 0
  BY <1>1, <1>2 DEF IInv, ClosedIsDone
<1>4. replied[c] = sent[c]
  BY <1>1, <1>3 DEF IInv, TypeOK, OneReplyPerQuery
<1>5. socket[c] = "open"
  BY <1>1 DEF IInv, SocketsAccounted
<1> QED
  BY <1>1, <1>3, <1>4, <1>5

(* A socket is closed by a pass, or by the destructor.                     *)
LEMMA WhoCloses ==
  ASSUME IInv, [Next]_vars, NEW c \in Conns,
         socket[c] = "open", socket'[c] = "closed"
  PROVE  (MarkConnections /\ c \in Finished) \/ JoinHandler
BY ServerAssumption
DEF IInv, TypeOK, NotYetListed, Next, vars, serverVars, listenerVars, handlerVars,
    clientVars, bufferVars, Client, Connect, Send, ReadReply, Break, Disconnect,
    WaitForConnection, Listen, ListenerLoop, ListenerTimeout, Accept, AcceptFails,
    LockForAdd, AddConnection, ConnectionHandler, HandlerLoop, MarkConnections, SelectTimeout,
    SelectReady, Dispatch, EndPass, ReceiveQuery, ReceiveFails, Reply,
    Destructor, Stop, JoinListener

(* The server closes a connection for cause only.                          *)
THEOREM CloseForCause == Spec => ClosedForCause
<1> DEFINE Cause(c) ==
      \/ main' = "destroyed"
      \/ peer[c] \in {"broken", "gone"} /\ replied[c] = sent[c]
<1>1. ASSUME IInv, [Next]_vars
      PROVE  \A c \in Conns : socket[c] = "open" /\ socket'[c] = "closed" => Cause(c)
  <2> SUFFICES ASSUME NEW c \in Conns, socket[c] = "open", socket'[c] = "closed"
               PROVE  Cause(c)
    OBVIOUS
  <2>1. CASE MarkConnections /\ c \in Finished
    <3>1. handler = "lock"
      BY <2>1 DEF MarkConnections
    <3> QED
      BY <1>1, <2>1, <3>1, FinishedAnswered
  <2>2. CASE JoinHandler
    BY <2>2 DEF JoinHandler
  <2> QED
    BY <1>1, <2>1, <2>2, WhoCloses
<1> QED
  BY <1>1, Invariance, PTL DEF Spec, ClosedForCause

-----------------------------------------------------------------------------
(* Refinement: every step is a step of the service or changes nothing that *)
(* a client could see.                                                     *)
LEMMA InitImplements == Init => Service!Init
BY DEF Init, Link, Port, Service!Init

(* Every step is one of the service, or a stutter of it.                   *)
LEMMA StepImplements == IInv /\ IInv' /\ [Next]_vars => [Service!Next]_(Service!vars)
<1> SUFFICES ASSUME IInv, IInv', [Next]_vars
             PROVE  Service!Next \/ UNCHANGED Service!vars
  OBVIOUS
<1> USE DEF Link, Port, serverVars, listenerVars, handlerVars, clientVars, bufferVars
<1>t. TypeOK /\ TypeOK'
  BY DEF IInv
<1>1. ASSUME NEW c \in Conns, Connect(c) PROVE Service!Knock(c)
  BY <1>1, <1>t DEF Connect, IInv, TypeOK, NotYetListed, Service!Knock
<1>2. ASSUME NEW c \in Conns, Send(c) PROVE Service!Ask(c)
  BY <1>2, <1>t DEF Send, TypeOK, Service!Ask
<1>3. ASSUME NEW c \in Conns, ReadReply(c) PROVE UNCHANGED Service!vars
  BY <1>3 DEF ReadReply, Service!vars
<1>4. ASSUME NEW c \in Conns, Break(c) PROVE Service!GiveUp(c)
  BY <1>4, <1>t DEF Break, TypeOK, Service!GiveUp
<1>5. ASSUME NEW c \in Conns, Disconnect(c) PROVE Service!GiveUp(c)
  BY <1>5, <1>t DEF Disconnect, TypeOK, Service!GiveUp
<1>6. CASE Listen
  BY <1>6 DEF Listen, IInv, PortHeld, Service!vars, Service!Next, Service!OpenPort
<1>7. CASE ListenerLoop
  BY <1>7 DEF ListenerLoop, Service!vars
<1>8. CASE ListenerTimeout
  BY <1>8 DEF ListenerTimeout, Service!vars
<1>9. CASE Accept
  <2>1. PICK c \in backlog : /\ backlog' = backlog \ {c}
                             /\ socket' = [socket EXCEPT ![c] = "open"]
    BY <1>9 DEF Accept
  <2>2. c \in Conns /\ peer[c] # "idle" /\ socket[c] = "none" /\ m_server_socket
    BY <2>1, <1>t DEF IInv, TypeOK, NotYetListed, PortHeld
  <2>3. main # "destroyed"
    BY <1>9 DEF Accept, IInv, ThreadsJoined
  <2>4. Service!Admit(c)
    BY <1>9, <2>1, <2>2, <2>3, <1>t DEF Accept, TypeOK, Service!Admit
  <2> QED
    BY <2>2, <2>4 DEF Service!Next
<1>26. CASE AcceptFails
  <2>1. m_server_socket /\ ~m_server_socket' /\ listener' = "top"
    BY <1>26 DEF AcceptFails, IInv, PortHeld
  <2>2. \A c \in Conns : c \in backlog => socket[c] = "none" /\ peer[c] # "idle"
    BY DEF IInv, NotYetListed
  <2>3. Service!LosePort
    BY <1>26, <2>1, <2>2, <1>t DEF AcceptFails, TypeOK, Service!LosePort
  <2> QED
    BY <2>3 DEF Service!Next
<1>10. CASE LockForAdd
  BY <1>10 DEF LockForAdd, Service!vars
<1>11. CASE AddConnection
  BY <1>11 DEF AddConnection, Service!vars
<1>12. CASE HandlerLoop
  BY <1>12 DEF HandlerLoop, Service!vars
<1>13. CASE MarkConnections
  <2>1. handler = "lock" /\ main # "destroyed"
    BY <1>13 DEF MarkConnections, IInv, ThreadsJoined
  <2>2. \A c \in Finished :
          /\ c \in Conns
          /\ socket[c] = "open"
          /\ peer[c] \in {"broken", "gone"}
          /\ replied[c] = sent[c]
    BY <2>1, FinishedAnswered
  <2>3. \A c \in Finished : c \notin backlog
    BY <2>2 DEF IInv, NotYetListed
  <2>4. PICK S \in SUBSET Conns : S = Finished
    BY <2>2
  <2>5. UNCHANGED <<m_server_socket, listener, main, peer, backlog, sent, replied>>
    BY <1>13 DEF MarkConnections
  <2>6. socket' = [c \in Conns |-> IF c \in S THEN "closed" ELSE socket[c]]
    BY <1>13, <2>4 DEF MarkConnections
  <2>7. Service!Drop(S)
    BY <2>1, <2>2, <2>3, <2>4, <2>5, <2>6, <1>t DEF TypeOK, Service!Drop
  <2> QED
    BY <2>4, <2>7 DEF Service!Next
<1>14. CASE SelectTimeout
  BY <1>14 DEF SelectTimeout, Service!vars
<1>15. CASE SelectReady
  BY <1>15 DEF SelectReady, Service!vars
<1>16. ASSUME NEW c \in Conns, Dispatch(c) PROVE UNCHANGED Service!vars
  BY <1>16 DEF Dispatch, Service!vars
<1>17. CASE EndPass
  BY <1>17 DEF EndPass, Service!vars
<1>18. CASE ReceiveQuery
  BY <1>18 DEF ReceiveQuery, Service!vars
<1>19. CASE ReceiveFails
  BY <1>19 DEF ReceiveFails, Service!vars
<1>20. CASE Reply
  <2>1. curConn \in Conns /\ curConn \in openConnections /\ main # "destroyed"
    BY <1>20 DEF Reply, IInv, TypeOK, InPass, PassIsStable, ThreadsJoined
  <2>2. replied[curConn] < sent[curConn]
    BY <1>20, <2>1 DEF Reply, IInv, TypeOK, OneReplyPerQuery
  <2>3. socket[curConn] = "open" /\ peer[curConn] # "idle" /\ curConn \notin backlog
    BY <2>1 DEF IInv, SocketsAccounted, NotYetListed
  <2>4. Service!Answer(curConn)
    BY <1>20, <2>1, <2>2, <2>3, <1>t DEF Reply, TypeOK, Service!Answer
  <2> QED
    BY <2>1, <2>4 DEF Service!Next
<1>21. CASE Stop
  BY <1>21 DEF Stop, Service!vars
<1>22. CASE JoinListener
  BY <1>22 DEF JoinListener, Service!vars
<1>23. CASE JoinHandler
  <2>1. main # "destroyed" /\ main' = "destroyed"
    BY <1>23 DEF JoinHandler, HandlerJoinable
  <2>2. \A c \in openConnections :
          c \in Conns /\ socket[c] = "open" /\ peer[c] # "idle" /\ c \notin backlog
    BY DEF IInv, TypeOK, SocketsAccounted, NotYetListed
  <2>3. PICK S \in SUBSET Conns : S = openConnections
    BY <2>2
  <2>4. Service!Shutdown(S)
    BY <1>23, <2>1, <2>2, <2>3, <1>t DEF JoinHandler, TypeOK, Service!Shutdown
  <2> QED
    BY <2>4 DEF Service!Next
<1>24. CASE UNCHANGED vars
  BY <1>24 DEF vars, Service!vars
<1>25. ASSUME NEW c \in Conns, Client(c) PROVE Service!Next \/ UNCHANGED Service!vars
  BY <1>25, <1>1, <1>2, <1>3, <1>4, <1>5 DEF Client, Service!Next
<1> QED
  BY <1>6, <1>7, <1>8, <1>9, <1>10, <1>11, <1>12, <1>13, <1>14, <1>15, <1>16,
     <1>17, <1>18, <1>19, <1>20, <1>21, <1>22, <1>23, <1>24, <1>25, <1>26
  DEF Next, WaitForConnection, ConnectionHandler, Destructor

(* The server implements the service that its clients are promised.        *)
THEOREM Refinement == Spec => ImplementsService
<1>1. IInv /\ IInv' /\ [Next]_vars => [Service!Next]_(Service!vars)
  BY StepImplements
<1> QED
  BY <1>1, InitImplements, Invariance, PTL
  DEF Spec, ImplementsService, Service!Spec
=============================================================================
