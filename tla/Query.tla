------------------------------- MODULE Query -------------------------------
(***************************************************************************)
(* What happens to one Modbus query after another on one slave:            *)
(* ConnFunctor::functor_function and Connection::handleQuery of            *)
(* src/base/Connection.cpp, with the handlers of module Handlers.          *)
(*                                                                         *)
(* The slave has a Modbus mapping ("table", tab_registers) and stands for  *)
(* a board with registers of its own ("board") behind the I2C bus.  A read *)
(* goes chunk by chunk from the board to the table, then modbus_reply      *)
(* sends the table.  A write is checked chunk by chunk, modbus_reply       *)
(* stores it in the table and acknowledges it, and only then do the        *)
(* handlers send it to the board.                                          *)
(***************************************************************************)
EXTENDS Handlers, Sequences, FiniteSets

CONSTANTS
  Slaves,             \* the slaves of the gateway
  Layout,             \* what init() made of each
  VirtualDataRange,   \* what DataHandler::checkWriteAccess sets
  MaxRead, MaxWrite,  \* registers that libmodbus puts into a reply, takes
                      \* from a query: 125 and 123
  Addresses, Counts,  \* bound: what clients ask of each slave
  MaxQueries          \* bound: number of queries

(* The tables of a layout: registers that the mapping has, and handlers    *)
(* that there are.                                                         *)
WellFormed(l) ==
  LET names == DOMAIN l.handlers
  IN  /\ l.registers \in 0 .. Limit \div 2
      /\ l.inputRegisters \in 0 .. Limit \div 2
      /\ \A h \in names : l.handlers[h].fixed \in Int
      /\ DOMAIN l.holding \subseteq 0 .. l.registers - 1
      /\ \A r \in DOMAIN l.holding : l.holding[r] \in names
      /\ DOMAIN l.blocks \subseteq Nat
      /\ \A i \in DOMAIN l.blocks :
           /\ l.blocks[i].handler \in names
           /\ l.blocks[i].first \in Nat
           /\ l.blocks[i].last \in Int
           /\ l.blocks[i].last < l.registers
      /\ DOMAIN l.input \subseteq Nat
      /\ \A r \in DOMAIN l.input : l.input[r] \in names
      /\ DOMAIN l.range = names
      /\ "none" \notin names

(* What every init() of the repository makes sure of: handlers can address *)
(* the registers that they are put down for; the holding registers are     *)
(* served over the bus and the input registers by classes that serve them; *)
(* blocks do not overlap; and the read-only registers lie below all that   *)
(* clients may write.                                                      *)
Arranged(l) ==
  LET of(name) == l.handlers[name]
      Reaches(h, r) == h.wide \/ 2 * r < ByteLimit
      readOnly == {"HolRegRO", "Version"}
  IN  /\ \A h \in DOMAIN l.handlers :
           of(h).fixed < 0 \/ (of(h).class = "Register" /\ of(h).fixed = 1)
      /\ \A r \in DOMAIN l.holding :
           of(l.holding[r]).class # "Register" /\ Reaches(of(l.holding[r]), r)
      /\ \A r \in DOMAIN l.input :
           /\ of(l.input[r]).class \in {"MultiByte", "Data", "Register"}
           /\ Reaches(of(l.input[r]), r)
      /\ \A i \in DOMAIN l.blocks :
           /\ of(l.blocks[i].handler).class # "Register"
           /\ \A r \in l.blocks[i].first .. l.blocks[i].last :
                Reaches(of(l.blocks[i].handler), r)
           /\ \A j \in DOMAIN l.blocks :
                i < j => \/ l.blocks[i].last < l.blocks[j].first
                         \/ l.blocks[j].last < l.blocks[i].first
      /\ \A r \in DOMAIN l.holding :
           of(l.holding[r]).class \in readOnly =>
             /\ \A w \in DOMAIN l.holding : of(l.holding[w]).class \in readOnly \/ r < w
             /\ \A i \in DOMAIN l.blocks : r < l.blocks[i].first

(* A block in which a query for n registers can start and run past the     *)
(* mapping lies so far up that what the clamp makes of the query still     *)
(* runs past it, or so far down that the clamp wraps around 16 bits.       *)
Clampable(l, n) ==
  \A i \in DOMAIN l.blocks :
    LET last == l.blocks[i].last
    IN  last + n > l.registers =>
          \/ 2 * n < last + 2
          \/ last < n /\ l.registers + n <= Limit \div 2

ASSUME QueryAssumption ==
  /\ Limit % 2 = 0 /\ Limit > 2
  /\ MaxRead \in 1 .. (Limit \div 2) - 1
  /\ MaxWrite \in 1 .. (Limit \div 2) - 1
  /\ \A s \in Slaves :
       /\ WellFormed(Layout[s])
       /\ Addresses[s] \subseteq 0 .. Limit - 1
       /\ Counts[s] \subseteq 0 .. Limit - 1
  /\ MaxQueries \in Nat

(* LayoutsProofs shows this of the layouts that the program has.           *)
ASSUME LayoutAssumption ==
  \A s \in Slaves :
    /\ Arranged(Layout[s])
    /\ \A n \in 1 .. MaxWrite : Clampable(Layout[s], n)

VARIABLES
  slave,          \* the slave whose queries are followed; never changes
  table,          \* tab_registers of the slave's mapping
  board,          \* the registers of the I2C board
  range,          \* the range of each handler
  query,          \* the query in work, or the last one
  phase,          \* "idle", "read", "check" or "write"
  cur_address,    \* of handleQuery
  register_done,  \* of handleQuery
  reply,          \* what the client got: "none", "data", "ack", "exception"
  busFailed,      \* an I2C transfer of this query failed
  asked           \* number of queries

loopVars == <<cur_address, register_done>>
vars == <<slave, table, board, range, query, phase, loopVars, reply, busFailed, asked>>

Handler == Layout[slave].handlers
HoldingList == Layout[slave].holding
HoldingBlocks == Layout[slave].blocks
InputList == Layout[slave].input
NbRegisters == Layout[slave].registers
NbInputRegisters == Layout[slave].inputRegisters
InitRange == Layout[slave].range
Regs == 0 .. NbRegisters - 1

(* Values: the table starts with zeros, the board with ones, and the n-th  *)
(* query writes n + 1.                                                     *)
Init ==
  /\ slave \in Slaves
  /\ table = [r \in Regs |-> 0]
  /\ board = [r \in Regs |-> 1]
  /\ range = InitRange
  /\ query = [fc |-> "holding", address |-> 0, count |-> 0]
  /\ phase = "idle"
  /\ cur_address = 0
  /\ register_done = 0
  /\ reply = "none"
  /\ busFailed = FALSE
  /\ asked = 0

Requested == query.address .. query.address + query.count - 1
List == IF query.fc = "input" THEN InputList ELSE HoldingList
Blocks == IF query.fc = "input" THEN <<>> ELSE HoldingBlocks
Size == IF query.fc = "input" THEN NbInputRegisters ELSE NbRegisters

-----------------------------------------------------------------------------
(* The body of handleQuery's loop: which handler, and for how many         *)
(* registers.                                                              *)
Rest == U16(query.count - register_done)

(* A block that ends before the query does.                                *)
Clamped(b) ==
  IF cur_address + Rest - 1 > b.last THEN U16(b.last - Rest + 1) ELSE Rest

Hits == {i \in DOMAIN Blocks :
           Blocks[i].first <= cur_address /\ cur_address <= Blocks[i].last}

NoTarget == [handler |-> "none", count |-> 0]

(* The list is asked first; of several blocks the last one wins, and a     *)
(* block that leaves nothing to do fails the query.                        *)
Target ==
  IF cur_address \in DOMAIN List
  THEN [handler |-> List[cur_address], count |-> Rest]
  ELSE IF Hits = {} \/ \E i \in Hits : Clamped(Blocks[i]) = 0
  THEN NoTarget
  ELSE LET i == CHOOSE i \in Hits : \A j \in Hits : j <= i
       IN  [handler |-> Blocks[i].handler, count |-> Clamped(Blocks[i])]

Found == Target # NoTarget
Current == Handler[Target.handler]
Served == U16(Done(Current, Target.count))
Chunk == cur_address .. cur_address + Served - 1

More == cur_address < query.address + query.count

(* Mutation: the first register of the next chunk is skipped.              *)
AdvanceTooFar ==
  /\ cur_address' = U16(cur_address + Served + 1)
  /\ register_done' = U16(register_done + Served + 1)

(* Mutation: the loop goes on without counting what was done.              *)
AdvanceForgotten == UNCHANGED loopVars

Advance ==
  /\ cur_address' = U16(cur_address + Served)
  /\ register_done' = U16(register_done + Served)

Restart(address) ==
  /\ cur_address' = address
  /\ register_done' = 0

-----------------------------------------------------------------------------
Reads == {"holding", "input"}
Writes == {"single", "multiple"}
Codes == Reads \cup Writes \cup {"other"}

(* Mutation: a read falls through to the writes' case of the switch.       *)
ReceiveFallsThrough(fc, address, count) ==
  /\ phase = "idle"
  /\ asked < MaxQueries
  /\ asked' = asked + 1
  /\ query' = [fc |-> fc, address |-> address, count |-> count]
  /\ Restart(address)
  /\ busFailed' = FALSE
  /\ reply' = IF fc = "other" THEN "exception" ELSE "none"
  /\ phase' = IF fc = "other" THEN "idle" ELSE "check"
  /\ UNCHANGED <<slave, table, board, range>>

(* modbus_receive returned a query for this slave.                         *)
Receive(fc, address, count) ==
  /\ phase = "idle"
  /\ asked < MaxQueries
  /\ asked' = asked + 1
  /\ query' = [fc |-> fc, address |-> address,
               count |-> IF fc = "single" THEN 1 ELSE count]
  /\ Restart(address)
  /\ busFailed' = FALSE
  /\ IF fc = "other"
     THEN reply' = "exception" /\ phase' = "idle"
     ELSE /\ reply' = "none"
          /\ phase' = IF fc \in Writes THEN "check" ELSE "read"
  /\ UNCHANGED <<slave, table, board, range>>

(* modbus_reply (external) has a limit for the count, which handleQuery    *)
(* has not, and looks at the mapping once more.                            *)
Oversized ==
  \/ query.fc \in Reads /\ query.count > MaxRead
  \/ query.fc = "multiple" /\ query.count > MaxWrite

ReplyAccepts ==
  /\ query.count > 0
  /\ ~Oversized
  /\ query.address + query.count <= Size

-----------------------------------------------------------------------------
(* Reading.                                                                *)
ReadServed ==
  /\ Found
  /\ AcceptsRead(Current, query.fc, cur_address, Target.count,
                 range[Target.handler], Size)
  /\ Served > 0

ReadChunk ==
  /\ phase = "read"
  /\ More
  /\ ReadServed
  /\ table' = [r \in Regs |-> IF r \in Chunk /\ Current.class # "Register"
                              THEN board[r] ELSE table[r]]
  /\ Advance
  /\ UNCHANGED <<slave, board, range, query, phase, reply, busFailed, asked>>

(* The handler returns 0, or there is none: an exception.                  *)
ReadRefused ==
  /\ phase = "read"
  /\ More
  /\ \/ ~ReadServed /\ UNCHANGED busFailed
     \/ ReadServed /\ Current.class # "Register" /\ busFailed' = TRUE
  /\ reply' = "exception"
  /\ phase' = "idle"
  /\ UNCHANGED <<slave, table, board, range, query, loopVars, asked>>

ReadAnswered ==
  /\ phase = "read"
  /\ ~More
  /\ reply' = IF ReplyAccepts THEN "data" ELSE "exception"
  /\ phase' = "idle"
  /\ UNCHANGED <<slave, table, board, range, query, loopVars, busFailed, asked>>

-----------------------------------------------------------------------------
(* Writing: first every handler is asked.                                  *)

(* DataHandler::checkWriteAccess sets its range once the alignment is      *)
(* right, whichever data it serves.                                        *)
RangeAfterCheck ==
  IF /\ Found
     /\ Current.class = "Data"
     /\ Even(cur_address)
     /\ Even(Target.count)
  THEN [range EXCEPT ![Target.handler] = VirtualDataRange]
  ELSE range

CheckServed ==
  /\ Found
  /\ AcceptsCheck(Current, cur_address, Target.count, RangeAfterCheck[Target.handler])
  /\ Served > 0

CheckChunk ==
  /\ phase = "check"
  /\ More
  /\ CheckServed
  /\ range' = RangeAfterCheck
  /\ Advance
  /\ UNCHANGED <<slave, table, board, query, phase, reply, busFailed, asked>>

CheckRefused ==
  /\ phase = "check"
  /\ More
  /\ ~CheckServed
  /\ range' = RangeAfterCheck
  /\ reply' = "exception"
  /\ phase' = "idle"
  /\ UNCHANGED <<slave, table, board, query, loopVars, busFailed, asked>>

(* Mutation: the second pass of handleQuery starts where the first ended.  *)
WriteAnsweredNoRestart ==
  /\ phase = "check"
  /\ ~More
  /\ reply' = IF ReplyAccepts THEN "ack" ELSE "exception"
  /\ table' = [r \in Regs |-> IF ReplyAccepts /\ r \in Requested
                              THEN asked + 1 ELSE table[r]]
  /\ phase' = "write"
  /\ UNCHANGED <<slave, board, range, query, loopVars, busFailed, asked>>

(* modbus_reply stores the data and acknowledges, or sends an exception of *)
(* its own; its result is not looked at.                                   *)
WriteAnswered ==
  /\ phase = "check"
  /\ ~More
  /\ reply' = IF ReplyAccepts THEN "ack" ELSE "exception"
  /\ table' = [r \in Regs |-> IF ReplyAccepts /\ r \in Requested
                              THEN asked + 1 ELSE table[r]]
  /\ phase' = "write"
  /\ Restart(query.address)
  /\ UNCHANGED <<slave, board, range, query, busFailed, asked>>

(* Then the handlers send the registers to the board.                      *)
WriteServed ==
  /\ Found
  /\ AcceptsWrite(Current, query.fc, cur_address, Target.count, Size)
  /\ Served > 0

WriteChunk ==
  /\ phase = "write"
  /\ More
  /\ WriteServed
  /\ board' = [r \in Regs |-> IF r \in Chunk /\ Current.class # "Register"
                              THEN table[r] ELSE board[r]]
  /\ Advance
  /\ UNCHANGED <<slave, table, range, query, phase, reply, busFailed, asked>>

(* The rest of an acknowledged write is given up: nobody hears of it.      *)
WriteGivenUp ==
  /\ phase = "write"
  /\ More
  /\ \/ ~WriteServed /\ UNCHANGED busFailed
     \/ WriteServed /\ Current.class # "Register" /\ busFailed' = TRUE
  /\ phase' = "idle"
  /\ UNCHANGED <<slave, table, board, range, query, loopVars, reply, asked>>

WriteDone ==
  /\ phase = "write"
  /\ ~More
  /\ phase' = "idle"
  /\ UNCHANGED <<slave, table, board, range, query, loopVars, reply, busFailed, asked>>

-----------------------------------------------------------------------------
HandleQuery ==
  \/ ReadChunk \/ ReadRefused \/ ReadAnswered
  \/ CheckChunk \/ CheckRefused \/ WriteAnswered
  \/ WriteChunk \/ WriteGivenUp \/ WriteDone

Next ==
  \/ \E fc \in Codes, address \in Addresses[slave], count \in Counts[slave] :
       Receive(fc, address, count)
  \/ HandleQuery

Spec == Init /\ [][Next]_vars

-----------------------------------------------------------------------------
(* Every variable keeps its type, and the loop runs in a mode that belongs *)
(* to the function code of the query.                                      *)
TypeOK ==
  /\ slave \in Slaves
  /\ table \in [Regs -> Nat]
  /\ board \in [Regs -> Nat]
  /\ DOMAIN range = DOMAIN Handler
  /\ query \in [fc : Codes, address : 0 .. Limit - 1, count : 0 .. Limit - 1]
  /\ phase \in {"idle", "read", "check", "write"}
  /\ cur_address \in 0 .. Limit - 1
  /\ register_done \in 0 .. Limit - 1
  /\ reply \in {"none", "data", "ack", "exception"}
  /\ busFailed \in BOOLEAN
  /\ asked \in 0 .. MaxQueries
  /\ phase = "read" => query.fc \in Reads
  /\ phase \in {"check", "write"} => query.fc \in Writes

(* A client that gets data gets what the board held when it asked: no      *)
(* register of the reply is left over from an earlier query, however the   *)
(* query was cut into chunks.                                              *)
ReadsAreFresh ==
  reply = "data" /\ query.fc = "holding" =>
    \A r \in Requested : table[r] = board[r]

(* The query is served by one handler, as every caller in the repository   *)
(* asks: it starts at a register of the list, or ends within its block.    *)
OneHandler ==
  \/ query.address \in DOMAIN List
  \/ \E i \in DOMAIN Blocks :
       Requested \subseteq Blocks[i].first .. Blocks[i].last

(* An acknowledged write of that kind is on the board when the next query  *)
(* is received, unless the bus failed after the acknowledgement.           *)
AcknowledgedIsWritten ==
  phase = "idle" /\ reply = "ack" /\ OneHandler /\ ~busFailed =>
    \A r \in Requested : board[r] = table[r]

(* The mapping is not accessed beyond its end: the check that a handler    *)
(* makes, or the layout, keeps every transfer inside.                      *)
TransfersInBounds ==
  /\ phase = "read" /\ More /\ ReadServed => Chunk \subseteq 0 .. Size - 1
  /\ phase = "write" /\ More /\ WriteServed => Chunk \subseteq Regs

(* The registers of the read-only handlers never change on the board,      *)
(* whatever a client writes: a write that starts elsewhere does not reach  *)
(* them either.                                                            *)
Protected ==
  {r \in DOMAIN HoldingList :
     Handler[HoldingList[r]].class \in {"HolRegRO", "Version"}}
ProtectedNeverWritten == [][\A r \in Protected : board'[r] = board[r]]_vars

(* The board changes only for a client that got an acknowledgement: a      *)
(* query answered by an exception has no effect, unless it asks for more   *)
(* registers than libmodbus takes.                                         *)
NoEffectWithoutAck == [][board' # board => reply = "ack" \/ Oversized]_vars

(* "check writeAccess [...] -> extract data from query by modbus library   *)
(* to database -> handle writeAccess" (Connection.cpp:370-372): without    *)
(* data of the query in the database no write access is handled.           *)
RefusedHasNoEffect == [][board' # board => reply = "ack"]_vars

(* The loop of handleQuery ends: every turn leads to a higher address, so  *)
(* that its 16 bits neither stand still nor wrap around.                   *)
LoopAdvances ==
  [][phase # "idle" /\ phase' = phase => cur_address' > cur_address]_vars

(* "write operations -> check writeAccess [...] -> extract data from query *)
(* by modbus library to database -> handle writeAccess"                    *)
(* (Connection.cpp:367-373): what reaches the board is what the query      *)
(* wrote.                                                                  *)
WritesStayInQuery ==
  [][\A r \in Regs : board'[r] # board[r] => r \in Requested]_vars

(* Registers that the list and the mapping have can be read one by one or  *)
(* together: an exception means that the bus failed.  (Not so on an IO     *)
(* board, whose data and version are read in units.)                       *)
ListedIsReadable ==
  /\ \A h \in DOMAIN Handler : Handler[h].class \notin {"Data", "Version"}
  /\ phase = "idle"
  /\ reply = "exception"
  /\ query.fc \in Reads
  /\ query.count > 0
  /\ ~Oversized
  /\ Requested \subseteq DOMAIN List \cap 0 .. Size - 1
  => busFailed

-----------------------------------------------------------------------------
(* The slave as its clients see it: a write that modbus_reply refused is   *)
(* over for them, although the loop still runs for it, unless it was       *)
(* refused for its count; and the input registers belong to no device.     *)
Acked == phase = "write" /\ reply = "ack"
Writing == Acked \/ (phase = "write" /\ Oversized)

State ==
  CASE Writing -> "writing"
    [] phase \in {"read", "check"} -> "asked"
    [] OTHER -> "idle"

Told ==
  IF reply = "ack" \/ (reply = "data" /\ query.fc = "holding")
  THEN [r \in Requested |-> table[r]]
  ELSE [r \in {} |-> 0]

Access ==
  INSTANCE RegisterAccess WITH
    device    <- board,
    protected <- Protected,
    state     <- State,
    proper    <- OneHandler,
    oversized <- Oversized,
    answer    <- reply,
    told      <- Told,
    next      <- IF Acked THEN cur_address ELSE 0,
    failed    <- busFailed

(* Connection::handleQuery, called twice for a write and in any number of  *)
(* chunks, with a reply in between that is not looked at, still gives a    *)
(* client the service of module RegisterAccess.                            *)
ImplementsAccess == Access!Spec

-----------------------------------------------------------------------------
(* What the proofs need on top of that.                                    *)

(* The two counters of the loop go together.                               *)
InStep == phase # "idle" => register_done = cur_address - query.address

SingleIsOne == query.fc = "single" => query.count = 1

RepliesFit ==
  /\ phase \in {"read", "check"} => reply = "none"
  /\ phase = "write" => reply = IF ReplyAccepts THEN "ack" ELSE "exception"
  /\ reply = "ack" => ReplyAccepts

(* The loop that runs after modbus_reply has refused a write, though not   *)
(* for its count, does not get beyond its first turn.                      *)
RefusedStandsStill ==
  phase = "write" /\ reply = "exception" /\ ~Oversized => cur_address = query.address

(* What a read has passed is fresh.                                        *)
ReadSoFar ==
  phase = "read" /\ query.fc = "holding" =>
    \A r \in Requested \cap Regs : r < cur_address => table[r] = board[r]

(* A query for one handler is done in one turn of each loop, and the first *)
(* loop has asked the handler that the second one uses.                    *)
FirstHandler ==
  IF query.address \in DOMAIN HoldingList
  THEN HoldingList[query.address]
  ELSE LET Has(b) == query.address \in b.first .. b.last
       IN  HoldingBlocks[CHOOSE i \in DOMAIN HoldingBlocks : Has(HoldingBlocks[i])].handler

CheckedAtOnce ==
  phase = "check" /\ OneHandler /\ ~Oversized =>
    \/ cur_address = query.address
    \/ ~More /\ ~ReadOnly(Handler[FirstHandler])

WrittenAtOnce ==
  phase = "write" /\ reply = "ack" /\ OneHandler =>
    \/ cur_address = query.address /\ ~ReadOnly(Handler[FirstHandler])
    \/ ~More /\ \A r \in Requested : board[r] = table[r]

IInv ==
  /\ TypeOK
  /\ InStep
  /\ SingleIsOne
  /\ RepliesFit
  /\ RefusedStandsStill
  /\ ReadSoFar
  /\ CheckedAtOnce
  /\ WrittenAtOnce
  /\ ReadsAreFresh
  /\ ListedIsReadable
  /\ AcknowledgedIsWritten
=============================================================================
