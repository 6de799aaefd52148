------------------------------- MODULE Server -------------------------------
(***************************************************************************)
(* The Modbus TCP front end of the gateway: class Server of                *)
(* src/base/Server.cpp and the life cycle of its Connection objects        *)
(* (src/base/Connection.cpp).                                              *)
(*                                                                         *)
(* Three threads share one Server object:                                  *)
(*   - waitForConnection accepts TCP connections ("listener");             *)
(*   - connection_handler multiplexes them with select() ("handler");      *)
(*   - the owner of the object, which destroys it ("main").                *)
(* They share openConnections under m_conn_lock, and m_server_running.     *)
(* The clients and the kernel's sockets are the environment.               *)
(*                                                                         *)
(* A query is one token here.  What happens between modbus_receive and     *)
(* modbus_reply (slave lookup, handlers) is the subject of module Query.   *)
(***************************************************************************)
EXTENDS Naturals, FiniteSets

CONSTANTS
  Conns,         \* the TCP connections that clients may open, each one once
  NoConn,        \* a null ctx_tmp or curConn
  MaxRequests,   \* bound: queries a client sends over one connection
  SendBuffer,    \* bound: unread replies after which a socket is not writable
  Backlog,       \* bound: connections the kernel queues on the listening socket
  CustomServer,  \* TRUE: the object made for --mb_port, which main destroys
  Pipelining     \* TRUE: clients may send before they have read a reply

ASSUME ServerAssumption ==
  /\ NoConn \notin Conns
  /\ MaxRequests \in Nat
  /\ SendBuffer \in Nat \ {0}
  /\ Backlog \in Nat \ {0}
  /\ CustomServer \in BOOLEAN
  /\ Pipelining \in BOOLEAN

VARIABLES
  \* members of the Server object
  m_server_running, \* polled by both threads, cleared by the destructor
  m_server_socket,  \* the port is listening
  m_conn_lock,      \* "free", or the thread that owns the mutex
  openConnections,  \* the list (its order within a pass is left open)
  status,           \* MBConnection status of every connection
  socket,           \* its socket: "none" until accepted, "open", "closed"
  \* the threads
  listener,         \* control state of waitForConnection
  ctx_tmp,          \* the accepted context not yet in the list
  handler,          \* control state of connection_handler
  rfds,             \* the fd_set
  todo,             \* connections that the second loop has not visited
  curConn,          \* the connection whose functor runs
  main,             \* control state of the destructor
  \* the environment
  peer,             \* the client end: "idle", "up", "broken", "gone"
  backlog,          \* established connections that wait for accept()
  sent,             \* queries sent
  inbox,            \* queries sent and not received
  unread,           \* replies in the send buffer, not read by the client
  replied           \* replies sent

serverVars == <<m_server_running, m_server_socket, m_conn_lock,
                openConnections, status, socket>>
listenerVars == <<listener, ctx_tmp>>
handlerVars == <<handler, rfds, todo, curConn>>
clientVars == <<peer, backlog, sent>>
bufferVars == <<inbox, unread, replied>>
vars == <<serverVars, listenerVars, handlerVars, main, clientVars, bufferVars>>

Status == {"none", "open", "wait", "busy", "closed"}

(* The control states in which connection_handler owns m_conn_lock. *)
InPass == {"select", "dispatch", "receive", "reply"}

Init ==
  /\ m_server_running = TRUE
  /\ m_server_socket = FALSE
  /\ m_conn_lock = "free"
  /\ openConnections = {}
  /\ status = [c \in Conns |-> "none"]
  /\ socket = [c \in Conns |-> "none"]
  /\ listener = "start"
  /\ ctx_tmp = NoConn
  /\ handler = "top"
  /\ rfds = {}
  /\ todo = {}
  /\ curConn = NoConn
  /\ main = "running"
  /\ peer = [c \in Conns |-> "idle"]
  /\ backlog = {}
  /\ sent = [c \in Conns |-> 0]
  /\ inbox = [c \in Conns |-> 0]
  /\ unread = [c \in Conns |-> 0]
  /\ replied = [c \in Conns |-> 0]

-----------------------------------------------------------------------------
(* Clients and kernel (external).  The kernel completes the handshake on   *)
(* its own, and buffers data before accept() returns the connection.       *)

Connect(c) ==
  /\ peer[c] = "idle"
  /\ m_server_socket
  /\ Cardinality(backlog) < Backlog
  /\ peer' = [peer EXCEPT ![c] = "up"]
  /\ backlog' = backlog \cup {c}
  /\ UNCHANGED <<serverVars, listenerVars, handlerVars, main, bufferVars, sent>>

(* A client that does not pipeline waits for a reply and reads it first.   *)
Send(c) ==
  /\ peer[c] = "up"
  /\ socket[c] # "closed"
  /\ sent[c] < MaxRequests
  /\ Pipelining \/ (sent[c] = replied[c] /\ unread[c] = 0)
  /\ sent' = [sent EXCEPT ![c] = @ + 1]
  /\ inbox' = [inbox EXCEPT ![c] = @ + 1]
  /\ UNCHANGED <<serverVars, listenerVars, handlerVars, main, peer, backlog,
                 unread, replied>>

ReadReply(c) ==
  /\ peer[c] \in {"up", "broken"}
  /\ unread[c] > 0
  /\ unread' = [unread EXCEPT ![c] = @ - 1]
  /\ UNCHANGED <<serverVars, listenerVars, handlerVars, main, clientVars,
                 inbox, replied>>

(* Malformed bytes, or a query of which the rest never arrives.            *)
Break(c) ==
  /\ peer[c] = "up"
  /\ peer' = [peer EXCEPT ![c] = "broken"]
  /\ UNCHANGED <<serverVars, listenerVars, handlerVars, main, backlog, sent,
                 bufferVars>>

Disconnect(c) ==
  /\ peer[c] \in {"up", "broken"}
  /\ peer' = [peer EXCEPT ![c] = "gone"]
  /\ UNCHANGED <<serverVars, listenerVars, handlerVars, main, backlog, sent,
                 bufferVars>>

(* What select() sees of an accepted socket.                               *)
Readable(c) == inbox[c] > 0 \/ peer[c] \in {"broken", "gone"}
Writable(c) == unread[c] < SendBuffer \/ peer[c] = "gone"

-----------------------------------------------------------------------------
(* Server::waitForConnection.                                              *)

Listen ==
  /\ listener = "start"
  /\ \/ listener' = "top" /\ m_server_socket' = TRUE
     \/ listener' = "failed" /\ UNCHANGED m_server_socket
  /\ UNCHANGED <<m_server_running, m_conn_lock, openConnections, status, socket,
                 ctx_tmp, handlerVars, main, clientVars, bufferVars>>

ListenerLoop ==
  /\ listener = "top"
  /\ listener' = IF m_server_running THEN "select" ELSE "done"
  /\ UNCHANGED <<serverVars, ctx_tmp, handlerVars, main, clientVars, bufferVars>>

(* Nobody waits, or m_server_socket is no descriptor any more: select()    *)
(* then fails, or accept() does, and neither leaves the loop.              *)
ListenerTimeout ==
  /\ listener = "select"
  /\ backlog = {}
  /\ listener' = "top"
  /\ UNCHANGED <<serverVars, ctx_tmp, handlerVars, main, clientVars, bufferVars>>

Accept ==
  /\ listener = "select"
  /\ \E c \in backlog :
       /\ backlog' = backlog \ {c}
       /\ ctx_tmp' = c
       /\ socket' = [socket EXCEPT ![c] = "open"]
  /\ listener' = "lock"
  /\ UNCHANGED <<m_server_running, m_server_socket, m_conn_lock, openConnections,
                 status, handlerVars, main, peer, sent, bufferVars>>

(* modbus_tcp_accept fails, for want of a descriptor or because the client *)
(* has reset what waited.  It closes the listening socket then and         *)
(* overwrites the descriptor it was given, m_server_socket; the kernel     *)
(* resets what waits there, and the thread loops on without a port.        *)
AcceptFails ==
  /\ listener = "select"
  /\ backlog # {}
  /\ m_server_socket' = FALSE
  /\ backlog' = {}
  /\ socket' = [c \in Conns |-> IF c \in backlog THEN "closed" ELSE socket[c]]
  /\ listener' = "top"
  /\ UNCHANGED <<m_server_running, m_conn_lock, openConnections, status, ctx_tmp,
                 handlerVars, main, peer, sent, bufferVars>>

(* Mutation: the list is changed without m_conn_lock.                      *)
AddUnlocked ==
  /\ listener = "lock"
  /\ m_conn_lock' = "listener"
  /\ listener' = "add"
  /\ UNCHANGED <<m_server_running, m_server_socket, openConnections, status,
                 socket, ctx_tmp, handlerVars, main, clientVars, bufferVars>>

LockForAdd ==
  /\ listener = "lock"
  /\ m_conn_lock = "free"
  /\ m_conn_lock' = "listener"
  /\ listener' = "add"
  /\ UNCHANGED <<m_server_running, m_server_socket, openConnections, status,
                 socket, ctx_tmp, handlerVars, main, clientVars, bufferVars>>

(* Mutation: the context is dropped when no Connection can be made.        *)
DropContext ==
  /\ listener = "add"
  /\ ctx_tmp' = NoConn
  /\ m_conn_lock' = "free"
  /\ listener' = "top"
  /\ UNCHANGED <<m_server_running, m_server_socket, openConnections, status,
                 socket, handlerVars, main, clientVars, bufferVars>>

AddConnection ==
  /\ listener = "add"
  /\ openConnections' = openConnections \cup {ctx_tmp}
  /\ status' = [status EXCEPT ![ctx_tmp] = "open"]
  /\ ctx_tmp' = NoConn
  /\ m_conn_lock' = "free"
  /\ listener' = "top"
  /\ UNCHANGED <<m_server_running, m_server_socket, socket, handlerVars, main,
                 clientVars, bufferVars>>

WaitForConnection ==
  \/ Listen \/ ListenerLoop \/ ListenerTimeout
  \/ Accept \/ AcceptFails \/ LockForAdd \/ AddConnection

-----------------------------------------------------------------------------
(* Server::connection_handler.  It holds m_conn_lock for a whole pass, the *)
(* blocking select() and modbus_receive() included.  Only this thread      *)
(* touches status, so each of its loops over the list without a blocking   *)
(* call is one step.                                                       *)

(* Mutation: the loop does not look at m_server_running.                   *)
HandlerLoopForever ==
  /\ handler = "top"
  /\ handler' = "lock"
  /\ UNCHANGED <<serverVars, listenerVars, rfds, todo, curConn, main, clientVars,
                 bufferVars>>

HandlerLoop ==
  /\ handler = "top"
  /\ handler' = IF m_server_running THEN "lock" ELSE "done"
  /\ UNCHANGED <<serverVars, listenerVars, rfds, todo, curConn, main, clientVars,
                 bufferVars>>

(* Mutation: a hang-up of the peer ends a connection at once.              *)
FinishedOnHangup ==
  {c \in openConnections : status[c] = "closed" \/ peer[c] = "gone"}

(* The connections that the first loop finds closed.                       *)
Finished == {c \in openConnections : status[c] = "closed"}

(* The first loop: open connections enter the set, closed ones leave the   *)
(* list, and with their last reference ~Connection closes the socket.      *)
MarkConnections ==
  LET opened == {c \in openConnections : status[c] = "open"}
  IN
  /\ handler = "lock"
  /\ m_conn_lock = "free"
  /\ m_conn_lock' = "handler"
  /\ rfds' = opened
  /\ status' = [c \in Conns |-> IF c \in opened THEN "wait" ELSE status[c]]
  /\ openConnections' = openConnections \ Finished
  /\ socket' = [c \in Conns |-> IF c \in Finished THEN "closed" ELSE socket[c]]
  /\ handler' = "select"
  /\ UNCHANGED <<m_server_running, m_server_socket, listenerVars, todo, curConn,
                 main, clientVars, bufferVars>>

(* select() returns 0: continue, which unlocks and restarts the pass.      *)
SelectTimeout ==
  /\ handler = "select"
  /\ \A c \in rfds : ~Readable(c) /\ ~Writable(c)
  /\ m_conn_lock' = "free"
  /\ handler' = "top"
  /\ UNCHANGED <<m_server_running, m_server_socket, openConnections, status,
                 socket, listenerVars, rfds, todo, curConn, main, clientVars,
                 bufferVars>>

(* Mutation: select gets a read set of its own.                            *)
ReportedReadable == {c \in rfds : Readable(c)}

(* rfds is both the read set and the write set.  The kernel counts both,   *)
(* and stores the write result last: what is left are the writable ones.   *)
Reported == {c \in rfds : Writable(c)}

SelectReady ==
  /\ handler = "select"
  /\ \E c \in rfds : Readable(c) \/ Writable(c)
  /\ rfds' = Reported
  /\ todo' = openConnections
  /\ handler' = "dispatch"
  /\ UNCHANGED <<serverVars, listenerVars, curConn, main, clientVars, bufferVars>>

(* The second loop, one connection at a time: one that the set reports is  *)
(* handed to its functor, one that is only marked is set back.             *)
Dispatch(c) ==
  /\ handler = "dispatch"
  /\ c \in todo
  /\ todo' = todo \ {c}
  /\ IF c \in rfds
     THEN /\ status' = [status EXCEPT ![c] = "busy"]
          /\ curConn' = c
          /\ handler' = "receive"
     ELSE /\ status' = [status EXCEPT ![c] = IF @ = "wait" THEN "open" ELSE @]
          /\ UNCHANGED <<curConn, handler>>
  /\ UNCHANGED <<m_server_running, m_server_socket, m_conn_lock, openConnections,
                 socket, listenerVars, rfds, main, clientVars, bufferVars>>

EndPass ==
  /\ handler = "dispatch"
  /\ todo = {}
  /\ m_conn_lock' = "free"
  /\ handler' = "top"
  /\ UNCHANGED <<m_server_running, m_server_socket, openConnections, status,
                 socket, listenerVars, rfds, todo, curConn, main, clientVars,
                 bufferVars>>

(* Mutation: the functor ends without telling the connection.              *)
FunctorEndsSilently(st) ==
  /\ status' = status
  /\ curConn' = NoConn
  /\ handler' = "dispatch"

(* The functor's last act is to set the status of its connection.          *)
FunctorEnds(st) ==
  /\ status' = [status EXCEPT ![curConn] = st]
  /\ curConn' = NoConn
  /\ handler' = "dispatch"

(* Mutation: modbus_receive does not block.                                *)
ReceiveNothing ==
  /\ handler = "receive"
  /\ inbox' = [inbox EXCEPT ![curConn] = @ - 1]
  /\ handler' = "reply"
  /\ UNCHANGED <<serverVars, listenerVars, rfds, todo, curConn, main, clientVars,
                 unread, replied>>

(* ConnFunctor::functor_function.  modbus_receive blocks until a query is  *)
(* there, or fails once the peer has closed or sent what is no query.      *)
ReceiveQuery ==
  /\ handler = "receive"
  /\ inbox[curConn] > 0
  /\ inbox' = [inbox EXCEPT ![curConn] = @ - 1]
  /\ handler' = "reply"
  /\ UNCHANGED <<serverVars, listenerVars, rfds, todo, curConn, main, clientVars,
                 unread, replied>>

ReceiveFails ==
  /\ handler = "receive"
  /\ inbox[curConn] = 0
  /\ peer[curConn] \in {"broken", "gone"}
  /\ FunctorEnds("closed")
  /\ UNCHANGED <<m_server_running, m_server_socket, m_conn_lock, openConnections,
                 socket, listenerVars, rfds, todo, main, clientVars, bufferVars>>

(* Mutation: a branch of the functor that neither replies nor reports an   *)
(* exception.                                                              *)
NoReply ==
  /\ handler = "reply"
  /\ FunctorEnds("open")
  /\ UNCHANGED <<m_server_running, m_server_socket, m_conn_lock, openConnections,
                 socket, listenerVars, rfds, todo, main, clientVars, bufferVars>>

(* modbus_reply or modbus_reply_exception: its result is not looked at.    *)
Reply ==
  /\ handler = "reply"
  /\ replied' = [replied EXCEPT ![curConn] = @ + 1]
  /\ unread' = [unread EXCEPT ![curConn] = IF peer[curConn] = "gone" THEN @ ELSE @ + 1]
  /\ FunctorEnds("open")
  /\ UNCHANGED <<m_server_running, m_server_socket, m_conn_lock, openConnections,
                 socket, listenerVars, rfds, todo, main, clientVars, inbox>>

ConnectionHandler ==
  \/ HandlerLoop \/ MarkConnections \/ SelectTimeout \/ SelectReady
  \/ \E c \in Conns : Dispatch(c)
  \/ EndPass \/ ReceiveQuery \/ ReceiveFails \/ Reply

-----------------------------------------------------------------------------
(* Server::~Server.  main() builds the server for --mb_port in an auto_ptr *)
(* whose scope ends with the block, so it destroys it at once; the default *)
(* server lives as long as the program.                                    *)

Stop ==
  /\ CustomServer
  /\ main = "running"
  /\ m_server_running' = FALSE
  /\ main' = "joinListener"
  /\ UNCHANGED <<m_server_socket, m_conn_lock, openConnections, status, socket,
                 listenerVars, handlerVars, clientVars, bufferVars>>

JoinListener ==
  /\ main = "joinListener"
  /\ listener \in {"done", "failed"}
  /\ main' = "joinHandler"
  /\ UNCHANGED <<serverVars, listenerVars, handlerVars, clientVars, bufferVars>>

(* Mutation: the destructor joins only the acceptor.                       *)
HandlerDetached == main = "joinHandler"

(* What the second join waits for.                                         *)
HandlerJoinable == main = "joinHandler" /\ handler = "done"

(* After the joins the list goes with the object, and every ~Connection    *)
(* closes its socket.  The listening socket stays open: modbus_close(ctx)  *)
(* does not know it.                                                       *)
JoinHandler ==
  /\ HandlerJoinable
  /\ main' = "destroyed"
  /\ openConnections' = {}
  /\ socket' = [c \in Conns |-> IF c \in openConnections THEN "closed" ELSE socket[c]]
  /\ status' = [c \in Conns |-> IF c \in openConnections THEN "closed" ELSE status[c]]
  /\ UNCHANGED <<m_server_running, m_server_socket, m_conn_lock, listenerVars,
                 handlerVars, clientVars, bufferVars>>

Destructor == Stop \/ JoinListener \/ JoinHandler

-----------------------------------------------------------------------------
Client(c) ==
  Connect(c) \/ Send(c) \/ ReadReply(c) \/ Break(c) \/ Disconnect(c)

Next ==
  \/ \E c \in Conns : Client(c)
  \/ WaitForConnection
  \/ ConnectionHandler
  \/ Destructor

Spec == Init /\ [][Next]_vars

(* The operating system runs every thread that can run, and grants a mutex *)
(* that is released again and again to every thread that waits for it.     *)
(* Whether main destroys the server at all is left open.                   *)
ThreadFairness ==
  /\ WF_vars(WaitForConnection)
  /\ SF_vars(LockForAdd)
  /\ WF_vars(ConnectionHandler)
  /\ SF_vars(MarkConnections)
  /\ WF_vars(JoinListener \/ JoinHandler)

(* Clients read the replies they get.                                      *)
ClientsRead == \A c \in Conns : WF_vars(ReadReply(c))

(* No connected client stays silent for ever.                              *)
ClientsTalk == \A c \in Conns : WF_vars(Send(c) \/ Break(c) \/ Disconnect(c))

SilentSpec == Spec /\ ThreadFairness /\ ClientsRead
FairSpec == SilentSpec /\ ClientsTalk

-----------------------------------------------------------------------------
(* Every variable keeps its type.                                          *)
TypeOK ==
  /\ m_server_running \in BOOLEAN
  /\ m_server_socket \in BOOLEAN
  /\ m_conn_lock \in {"free", "listener", "handler"}
  /\ openConnections \subseteq Conns
  /\ status \in [Conns -> Status]
  /\ socket \in [Conns -> {"none", "open", "closed"}]
  /\ listener \in {"start", "failed", "top", "select", "lock", "add", "done"}
  /\ ctx_tmp \in Conns \cup {NoConn}
  /\ handler \in {"top", "lock", "done"} \cup InPass
  /\ rfds \subseteq Conns
  /\ todo \subseteq Conns
  /\ curConn \in Conns \cup {NoConn}
  /\ main \in {"running", "joinListener", "joinHandler", "destroyed"}
  /\ peer \in [Conns -> {"idle", "up", "broken", "gone"}]
  /\ backlog \subseteq Conns
  /\ sent \in [Conns -> Nat]
  /\ inbox \in [Conns -> Nat]
  /\ unread \in [Conns -> Nat]
  /\ replied \in [Conns -> Nat]

(* m_conn_lock belongs to the thread that works on openConnections, and to *)
(* nobody while no thread does: the acceptor never appends to the list     *)
(* while the handler iterates over it.                                     *)
LockDiscipline ==
  /\ m_conn_lock = "listener" <=> listener = "add"
  /\ m_conn_lock = "handler" <=> handler \in InPass

(* A socket is open exactly as long as the list, or the acceptor on its    *)
(* way to the list, refers to its connection: none leaks, and none is      *)
(* closed while it can still be used.                                      *)
SocketsAccounted ==
  \A c \in Conns :
    socket[c] = "open" <=> (c \in openConnections \/ c = ctx_tmp)

(* During a pass of connection_handler the fd set, the rest of the second  *)
(* loop and the connection whose functor runs stay in the list, though the *)
(* destructor and the acceptor run beside it.                              *)
PassIsStable ==
  handler \in InPass =>
    /\ rfds \subseteq openConnections
    /\ todo \subseteq openConnections
    /\ handler \in {"receive", "reply"} => curConn \in openConnections

(* busy marks the connection whose functor runs and no other.              *)
BusyIsServed ==
  \A c \in Conns :
    status[c] = "busy" <=> (handler \in {"receive", "reply"} /\ curConn = c)

(* Every query of every connection is not received yet, being handled, or  *)
(* was answered once.                                                      *)
OneReplyPerQuery ==
  \A c \in Conns :
    sent[c] = inbox[c] + replied[c]
              + (IF handler = "reply" /\ curConn = c THEN 1 ELSE 0)

(* modbus_reply does not block the pass, and with it every other client,   *)
(* on a full send buffer: a functor runs only on a connection that select  *)
(* reported writable, and nobody else writes to it meanwhile.              *)
ReplyDoesNotBlock == handler = "reply" => Writable(curConn)

(* The server closes a connection only when its client left or broke the   *)
(* protocol and every query of it was answered, or when the Server object  *)
(* is destroyed.                                                           *)
ClosedForCause ==
  [][\A c \in Conns :
       socket[c] = "open" /\ socket'[c] = "closed" =>
         \/ main' = "destroyed"
         \/ peer[c] \in {"broken", "gone"} /\ replied[c] = sent[c]]_vars

(* The parts of the inductive invariant that are not properties of their   *)
(* own.  The threads' pointers are set exactly while they are used.        *)
PointersSet ==
  /\ ctx_tmp # NoConn <=> listener \in {"lock", "add"}
  /\ curConn # NoConn <=> handler \in {"receive", "reply"}

(* A connection has no socket until it is accepted, and is not in the list *)
(* until it is added.                                                      *)
NotYetListed ==
  /\ \A c \in Conns : peer[c] = "idle" \/ c \in backlog => socket[c] = "none"
  /\ \A c \in backlog : peer[c] # "idle"
  /\ ctx_tmp \notin openConnections

(* Connections wait only at a port, which there is none of before the      *)
(* acceptor listens.                                                       *)
PortHeld ==
  /\ listener \in {"start", "failed"} => ~m_server_socket
  /\ ~m_server_socket => backlog = {}

(* What the second loop has still to visit was writable when select        *)
(* returned, and is: only the functor of a connection writes to it.        *)
RestOfPass ==
  /\ handler \notin {"dispatch", "receive", "reply"} => todo = {}
  /\ handler \in {"dispatch", "receive", "reply"} => \A c \in todo \cap rfds : Writable(c)
  /\ handler \in {"receive", "reply"} => curConn \notin todo /\ Writable(curConn)

(* The destructor passes a join when the thread has ended.                 *)
ThreadsJoined ==
  /\ main \in {"joinHandler", "destroyed"} => listener \in {"done", "failed"}
  /\ main = "destroyed" => handler = "done"

(* A connection is marked closed after its client is lost and its last     *)
(* query was received.                                                     *)
ClosedIsDone ==
  \A c \in Conns :
    status[c] = "closed" =>
      \/ main = "destroyed"
      \/ peer[c] \in {"broken", "gone"} /\ inbox[c] = 0

IInv ==
  /\ TypeOK
  /\ PointersSet
  /\ LockDiscipline
  /\ ThreadsJoined
  /\ PortHeld
  /\ NotYetListed
  /\ SocketsAccounted
  /\ PassIsStable
  /\ RestOfPass
  /\ BusyIsServed
  /\ OneReplyPerQuery
  /\ ClosedIsDone

(* The port was lost while c waited at it: its client sees a reset.        *)
TurnedAway(c) == status[c] = "none" /\ socket[c] = "closed"

(* Every query is answered in the end, unless its client was turned away   *)
(* or the server is destroyed.                                             *)
QueriesAnswered ==
  \A c \in Conns :
    sent[c] > replied[c] ~>
      (sent[c] = replied[c] \/ TurnedAway(c) \/ main # "running")

(* The socket of a client that left or broke the protocol is closed, even  *)
(* while the server goes down.                                             *)
LostClientsReaped ==
  \A c \in Conns :
    socket[c] = "open" /\ peer[c] \in {"broken", "gone"} ~> socket[c] = "closed"

(* Every connection that the kernel established gets into the list or is   *)
(* turned away, unless the server is destroyed: none waits for ever, and   *)
(* none is lost between accept() and the list.                             *)
ConnectionsAdmitted ==
  \A c \in Conns :
    c \in backlog ~>
      (c \in openConnections \/ TurnedAway(c) \/ main # "running")

(* ~Server returns: both threads see m_server_running and end.             *)
ShutdownCompletes == main = "joinListener" ~> main = "destroyed"

(* A client that connects to the port of --mb_port, "extra custom modbus   *)
(* server port" (main.cpp:75), is accepted, or at least turned away.       *)
CustomPortServes == \A c \in Conns : c \in backlog ~> c \notin backlog

(* "reset connection without incoming data" (Server.cpp:250): a connection *)
(* that a pass marked does not wait for ever, it is set back or served.    *)
WaitIsReset == \A c \in Conns : status[c] = "wait" ~> status[c] # "wait"

(* What a client could tell of its connection, and of the port.            *)
Link(c) ==
  IF socket[c] = "closed" THEN "closed"
  ELSE IF c \in backlog THEN "waiting"
  ELSE IF peer[c] = "idle" THEN "none" ELSE "open"

Port ==
  IF m_server_socket THEN "open"
  ELSE IF listener \in {"start", "failed"} THEN "none" ELSE "lost"

(* The server implements the service of module ModbusService.              *)
Service == INSTANCE ModbusService WITH
  up <- main # "destroyed",
  port <- Port,
  link <- [c \in Conns |-> Link(c)],
  given <- {c \in Conns : peer[c] \in {"broken", "gone"}},
  asked <- sent,
  answered <- replied

ImplementsService == Service!Spec
=============================================================================
