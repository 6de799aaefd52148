--------------------------- MODULE ModbusService ---------------------------
(***************************************************************************)
(* What a Modbus TCP front end promises to its clients, without threads,   *)
(* locks, sockets or fd sets: a connection is admitted before it is        *)
(* served, every query is answered once, in the order of its connection,   *)
(* and an admitted connection goes down only after its client gave it up   *)
(* and every query on it was answered, or with the service.  The port may  *)
(* get lost: those who wait there are turned away, nobody new is let in,   *)
(* and everybody admitted is served on.                                    *)
(*                                                                         *)
(* Module Server implements this specification.                            *)
(***************************************************************************)
EXTENDS Naturals

CONSTANTS
  Conns,        \* the connections clients may open, each one once
  MaxRequests   \* bound: queries a client sends over one connection

VARIABLES
  up,           \* the service has not been shut down
  port,         \* "none" before it is opened, "open", "lost" for good
  link,         \* of every connection: "none", "waiting", "open", "closed"
  given,        \* connections whose clients gave them up
  asked,        \* queries sent over a connection
  answered      \* replies sent over a connection

vars == <<up, port, link, given, asked, answered>>

Init ==
  /\ up = TRUE
  /\ port = "none"
  /\ link = [c \in Conns |-> "none"]
  /\ given = {}
  /\ asked = [c \in Conns |-> 0]
  /\ answered = [c \in Conns |-> 0]

OpenPort ==
  /\ port = "none"
  /\ port' = "open"
  /\ UNCHANGED <<up, link, given, asked, answered>>

Knock(c) ==
  /\ port = "open"
  /\ link[c] = "none"
  /\ link' = [link EXCEPT ![c] = "waiting"]
  /\ UNCHANGED <<up, port, given, asked, answered>>

Admit(c) ==
  /\ up
  /\ port = "open"
  /\ link[c] = "waiting"
  /\ link' = [link EXCEPT ![c] = "open"]
  /\ UNCHANGED <<up, port, given, asked, answered>>

(* Whoever waits is turned away, with the queries it has sent already.     *)
LosePort ==
  /\ port = "open"
  /\ port' = "lost"
  /\ link' = [c \in Conns |-> IF link[c] = "waiting" THEN "closed" ELSE link[c]]
  /\ UNCHANGED <<up, given, asked, answered>>

Ask(c) ==
  /\ link[c] \in {"waiting", "open"}
  /\ c \notin given
  /\ asked[c] < MaxRequests
  /\ asked' = [asked EXCEPT ![c] = @ + 1]
  /\ UNCHANGED <<up, port, link, given, answered>>

Answer(c) ==
  /\ up
  /\ link[c] = "open"
  /\ answered[c] < asked[c]
  /\ answered' = [answered EXCEPT ![c] = @ + 1]
  /\ UNCHANGED <<up, port, link, given, asked>>

GiveUp(c) ==
  /\ link[c] # "none"
  /\ given' = given \cup {c}
  /\ UNCHANGED <<up, port, link, asked, answered>>

(* The service forgets connections, several at a time.                     *)
Drop(S) ==
  /\ up
  /\ \A c \in S : link[c] = "open" /\ c \in given /\ answered[c] = asked[c]
  /\ link' = [c \in Conns |-> IF c \in S THEN "closed" ELSE link[c]]
  /\ UNCHANGED <<up, port, given, asked, answered>>

(* It goes down and takes the connections it has admitted with it.         *)
Shutdown(S) ==
  /\ up
  /\ up' = FALSE
  /\ \A c \in S : link[c] = "open"
  /\ link' = [c \in Conns |-> IF c \in S THEN "closed" ELSE link[c]]
  /\ UNCHANGED <<port, given, asked, answered>>

Next ==
  \/ OpenPort \/ LosePort
  \/ \E c \in Conns : Knock(c) \/ Admit(c) \/ Ask(c) \/ Answer(c) \/ GiveUp(c)
  \/ \E S \in SUBSET Conns : Drop(S) \/ Shutdown(S)

Spec == Init /\ [][Next]_vars
=============================================================================
