# MB_Gateway in TLA+

MB_Gateway offers the devices of an I2C bus, IO boards above all, as Modbus TCP
slaves, and shows them on web pages. This directory holds TLA+ modules
translated from its source, TLC configurations that model-check them on small
instances, and TLAPS proofs of what matters most. Source paths are relative to
the root of the repository.

Run from this directory:

    tlc -config ServerSafety.cfg MCServer       # one run; the table below lists them
    tlapm ServerProofs.tla                      # the proofs of one module

`PROJECT.json` lists the components, the runs, the source lines of every
definition, a mutation of the code for every checked property, the findings,
the hazards and the theorems.

## 1. Inventory

### The parts, their state and their operations

| Part | Source | State | Operations |
|---|---|---|---|
| Server | `src/base/Server.cpp` | `openConnections`, `m_conn_lock`, `m_server_running`, the listening socket; locals of the two threads (`rfds`, iterator, `curConn`, `ctx_tmp`) | acceptor thread, handler thread, destructor |
| Connection | `src/base/Connection.cpp` | status (open, wait, busy, closed), libmodbus context, query buffer | query functor; `handleQuery` for reads, write checks, writes |
| Handlers | `src/I2C/Handler/`, `src/base/handler/`, `DataHandler` in `src/I2C/IOBoardSlave.cpp` | one range per handler | `handleReadAccess`, `checkWriteAccess`, `handleWriteAccess` |
| Slave layouts | `init()` in `src/I2C/I2CSlave.cpp`, `IOBoardSlave.cpp`, `src/base/SummerySlave.cpp` | lists and blocks of handlers, the Modbus mapping | `init` |
| SlaveList | `src/base/SlaveList.cpp` | map from address to slave, its lock | `addSlave`, `removeSlave`, `getSlave` (without the lock) |
| I2C_Scanner | `src/I2C/I2CScanner.cpp` | fail counters | thread that scans the bus, adds and removes slaves |
| SummerySlave | `src/base/SummerySlave.cpp` | registers with the kind of every slave | delayed functor that copies the kinds and posts itself again |
| IO board information | `IOBoard_Slave::getSlaveInfo` | functions of the pins in the mapping | read pin count and functions, store them |
| Page of an IO board | `src/webinterface/pages/I2C_IO_Board.ecpp` | one form per request | show, pin actions, selects, DB update, write enable |
| Page of a plain I2C slave | `src/webinterface/pages/I2C.ecpp` | `s_i2c_address` and its mode, per session | read and write cells, write a string, dump a range |
| Other pages, web server | `src/webinterface/` | none of their own | show |
| main | `src/base/main.cpp` | owners of everything | creation in order, then sleeps for ever |
| Outside the repository | MB_Framework, ThreadPool, I2C_Comm, libmodbus, Tntnet, board firmware | | modelled from their use, marked external |

### Interactions

- Acceptor and handler share `openConnections` under `m_conn_lock`. The handler
  runs the query functors itself, *under the lock*.
- A functor looks the slave up in SlaveList (no lock), converses with the board
  through the handlers, and works on the slave's Modbus mapping (no lock).
- Scanner, main, summery functor, functors of connections and web pages all use
  SlaveList; only additions and removals lock it.
- Web pages, functors and the scanner (`getSlaveInfo`) reach the same mapping
  and the same board; only single I2C transfers are ordered.

### What is hard here

Two threads and a destructor around one lock with blocking calls inside it;
one `fd_set` passed to `select()` twice; queries that run chunk by chunk with 16
bit arithmetic and acknowledge a write before it is sent; lookups in a map
while it changes; a scan whose decision is older than its action; functions of
pins kept twice, read and written by browsers, Modbus clients and the scanner
without a lock; forms made of values that are old when they are submitted, and a
session that all tabs of a browser share. `PROJECT.json` lists these one by one under `hazards`, each at
its line.

### What correct means

- *Server*: every query is answered once; sockets are neither leaked nor closed
  early; nothing keeps a reference to an erased connection; connections are
  admitted as long as there is a port, lost ones closed, and the destructor
  returns.
- *Connection and handlers*: what a read answers is fresh; what was acknowledged
  arrives; read-only registers stay; nothing is transferred beyond the mapping;
  the loop ends.
- *Registry*: present boards get listed, absent ones dropped, and only those; a
  slave is never exchanged under its address; the summery registers follow; the
  list page ends the process only where a board was given up under it.
- *Board*: functions change only by a write, by a select that asks for them, or
  to disabled where the page does not know them; pin actions use the functions the
  board has, switches that a user left alone stay, the mapping recovers from any
  disagreement.
- *I2C form*: a value is shown with the address it belongs to, a dump names the
  cells it read, no cell changes that nobody asked for, every request ends.

## 2. Modules

| Module | Models | Uses |
|---|---|---|
| `ModbusService` | abstract: a service that answers each query once, in order, and drops a connection only for cause | |
| `Server` | both threads, the lock, `select()`, the functor's calls, the destructor; clients, sockets and the kernel as environment | `ModbusService` (refined) |
| `ServerProofs` | theorems about Server | `Server`, TLAPS |
| `Handlers` | what each handler class accepts and reports | |
| `Layouts` | what `init()` of each slave builds | `Handlers` |
| `RegisterAccess` | abstract: registers of a device that are read, refused, or written in order | |
| `Query` | functor and `handleQuery`, one chunk per step, over any layout | `Handlers`, `RegisterAccess` (refined) |
| `QueryProofs` | theorems about Query, for any layout | `Query`, TLAPS |
| `AccessProofs` | Query implements `RegisterAccess` | `QueryProofs` |
| `LayoutsProofs` | the program's layouts are among those of the theorems | `Layouts`, `Query`, TLAPS |
| `BoardWatch` | abstract: a list of boards that follows the bus scan by scan | |
| `Registry` | SlaveList, scanner, main, summery functor, list page, lookups | `BoardWatch` (refined) |
| `RegistryProofs` | theorems about Registry | `Registry`, TLAPS |
| `Board` | functions of an IO board's pins: page, DB update, Modbus queries | |
| `BoardProofs` | theorems about Board | `Board`, TLAPS |
| `I2CForm` | page of a plain I2C slave: session, single cells, strings, dump | |
| `I2CFormProofs` | theorems about I2CForm | `I2CForm`, TLAPS |
| `MCServer`, `MCQuery`, `MCRegistry`, `MCBoard`, `MCI2CForm` | instances for TLC; `MCQuery` composes `Query` with `Layouts` | |

### Server

A step of a thread is the code between two points where another thread can see
a difference: taking or releasing the lock, a blocking call, the polled flag.
`listener` and `handler` are the program counters, `main` that of the
destructor. `HandlerLoop` is the test of `m_server_running`,
`MarkConnections` the first loop (erase finished connections, mark the others
`wait`, fill `rfds`), `SelectTimeout`/`SelectReady` the outcome of `select()`,
`Dispatch` an iteration of the second loop, `ReceiveQuery`, `ReceiveFails` and
`Reply` the functor at its blocking calls. `AcceptFails` is the branch for an error
of `accept()`: `modbus_tcp_accept` then closes the socket it was given and overwrites
the variable, which is `m_server_socket` itself, so that whoever waited in the backlog
is turned away and the loop goes on without a port. The abstract service has it as
`LosePort`. A query is a token; what happens to it is the subject of `Query`. Given the same set for reading and writing, the kernel
stores the writable sockets last, so `Reported` is the writable part of `rfds`.

### Query, Handlers, Layouts

`Receive` takes any function code, address and count of a bounded set;
`ReadChunk`, `CheckChunk` and `WriteChunk` are iterations of the loop of
`handleQuery` for one handler call that succeeds, `ReadRefused`, `CheckRefused`
and `WriteGivenUp` its exits. `Target` is the selection of the handler, with the
clamp at the end of a block as it is coded, and `U16` the width of `uint16_t`.
The value of a register is the number of the query that wrote it, which is all
the properties compare; a chunk over the bus may fail at any time. A handler is a
record of class, address width and fixed count, a layout a record of functions
from registers to handlers. `BareIOBoard` is what a failed `init()` leaves: the
scanner ignores its result, so that the board is listed with a mapping and
without handlers, and every query for it has to be refused.

`ReplyAccepts` is what `modbus_reply` (external) takes: at least one register, no more
than Modbus allows (`MaxRead`, `MaxWrite`; more is `Oversized`), and addresses inside of
the mapping. `handleQuery` works with the raw count and knows only the last of the
three, and only in its handlers.

Query implements `RegisterAccess`, the slave as clients see it, under the mapping

    device    <- board              protected <- registers of read-only handlers
    oversized <- Oversized
    state    <- "writing" in the third pass of a write that was acknowledged or
                oversized, "asked" in the first two, else "idle"
    told     <- what the mapping holds for the query, once answered
    next     <- cur_address while writing
    failed   <- a transfer of this query failed
    proper   <- the query is served by one handler (`OneHandler`)

The chunks of a read and of the check are stutters, those of a write carry out
the next registers. The abstract slave promises order and completeness only for
proper queries: the others meet the clamp of `QueryCrossing`. `modbus_reply` may refuse
after the handlers agreed, with the loop still run afterwards. Where it refuses the
addresses, `state` hides this: such a loop must not touch the device. Where it refuses
an oversized count nothing stops the loop, and the abstract slave says so
(`RefuseAndWrite`): the client gets an exception, and the device what was in the mapping.

### Registry

`addSlave` and `removeSlave` are two steps each, with the map in disorder between them.
A lookup in between is undefined behaviour: it returns what it should, or nothing, or
ends the process. The list page looks every slave up twice and uses the second result
unchecked (`PageLooksUp`, `PageShowsType`): without a slave that ends the process, too,
and `CrashesOnRemovalOnly` says for which slaves it can happen. The scanner's loop is
one step per lookup, decision and update of one address; the counters have 8 bits in the
code, and the type invariant shows that they stay far below. `missed` is a history
variable: the scans in a row that did not see a board.

Registry implements `BoardWatch`, a list without threads, locks, lookups or
counters, under the mapping

    bus      <- bus                 seen   <- live
    open     <- the addresses of this scan that the loop has not decided about
    misses   <- missed              entries <- list
    Patience <- MAX_SCAN_FAIL + 2   Others <- {Summery}

The decision (`FoundListed` and its three siblings) is `Judge`, the release of the
lock is `EnterBoard` or `LeaveBoard`, and of main `Enter`; lookups, the taking of
the lock, the functor and the page are stutters. `BoardWatch` allows an entry only
for a board that the running scan saw, of a kind that can be at its address
(`KindsAt`), and its end only in a scan that missed the board, as the last of
`Patience` in a row; each scan counts each board once, and the entry of the summery
slave stays. A crash stops the list, which a safety specification permits.

### Board

A function is on the board (`func`, two bytes) and in the mapping (`mapping`, a word).
Every bus transfer and every access to the mapping is a step of its own: `InfoCount`,
`InfoFunctions`, `InfoStore` of a DB update; `ReadQuery`/`ReadStored` and
`WriteQuery`/`WriteSent` of Modbus; `Ask` to `Render` of the page, with `ReadCount`
and `ReadPorts` before the functions and the write enable. `Stored` are the words that
the EEPROM may hold at first, 65535 in an erased one, and `Written` those that clients
write; neither need be a function that the page knows. The conversions of byte order
are modelled as the code makes them (`HostOrder`, `MBReg`, `BeByte`, `Low`), since
properties are about them. The count of the pins is a register, too: `getSlaveInfo`
takes the board's first byte of it, the page, by `memcpy` from a word of a little endian
host, the second, so `IoCount` has two bytes and `vio_word` is what the mapping has of
them. An `InfoCount` that fails leaves a pin count that the stack happened to hold
(`Garbage`).

A browser submits the form it was shown. Boxes exist for the pins that were switches,
toggles or pulses then (`Boxed`), among the 12, or 16, pins of the page (`Shown`), and
are checked for those that were on. So the box of a toggle that is on asks for a
toggle with every submit, whatever the user wanted; `UntouchedSwitchesKeep` is stated for
switches. A select has eight options. For a function that is none of them no option is
marked, the browser takes the first one, and a submit that was made for another purpose
disables the pin (`Unoffered`, `CurFunc`); `FunctionsChangeOnRequest` names this as the
third way for a function to change. A switch of a board with more pins than the page
shows has no box and is switched off by a submit, which is why
`UntouchedSwitchesKeep` is about boxes. The pin action sends two bytes more than it
has, mask and value for one port more (`Beyond`), with any values. The page after a
submit shows the levels read before it.

### I2CForm

A request of a tab is restored from the session (`Restore`), handled (`ReadCell`,
`WriteCells`, `NothingToHandle`, or `TransferFails`), dumps (`StartDump`, `DumpRow` once per
row of the table, `DumpFails`) and is rendered. Session and device are shared by
the tabs, and a step of another tab may fall between any two of these. `Restore` makes
the accesses of lines 86 to 93 to the session in one step: Tntnet (external) locks a
session from a request's first access to its end. This rules out more than the model
relies on, the tabs of one browser even come one after the other, while several
sessions of one device interleave as the model has it. `Wire` is
what remains of an address in one byte or two, `Written` what goes out for a value
or a string. The form is filled in from the session, while the transfer uses the
arguments of the request: a request without an address reads or writes cell -1,
the last one that the mode can name, next to the session's address.
`ValueBelongsToAddress` therefore asks for an address that the mode can express.
With addresses of 8 bits a string of full length loses its last character, with
16 bits it does not. `Entry` is where a dump has the content of an address: under the
label of its row, which is printed in decimal for the first row and in hex for the
others (`base`), in its column, and with the cell that two bytes of address name, which
beyond 65535 starts again. The labels 16 and 20 in a dump of 16 to 47 are what the code
prints; nothing in the repository says of a label that it is one or the other, and
`DumpExact` states it as it is. After a string the page shows `i2c_value`, which the module
marks as a value without a cell. The page of an IO board includes this form: its
raw writes pass by the mapping, which Board does not compose (boards there change
only on request).

## 3. Runs

| Run | Instance | What it shows |
|---|---|---|
| `ServerSafety` | 2 clients that pipeline 2 queries each, send buffer of 1 reply, destroyed server | list, lock, sockets and status consistent; every query accounted for; replies never block; implements `ModbusService` |
| `ServerLiveness` | 2 clients, 2 queries one at a time, buffer of 2, backlog of 1, fair | queries answered, lost clients closed, connections admitted, destructor returns |
| `ServerSilent` (violation) | clients may stay silent | one silent client stops everybody |
| `ServerStuck` (violation) | 1 client, 3 queries, buffer of 2 | a connection left marked `wait` for ever |
| `ServerCustom` (violation) | the server of `--mb_port` | its clients are never accepted |
| `Query` | IO board with 2 pins, one whose `init()` failed, plain slave, summery slave; 2 queries at all boundaries | reads fresh, writes complete, transfers in bounds, protected registers kept, the loop advances; implements `RegisterAccess` |
| `QueryCrossing` (violation) | 1 query to the IO board | a write over the end of a block sends registers outside the query |
| `QueryRefused` (violation) | plain slave with 128 registers, counts up to 125, the real 123 and 125 of Modbus | a refused write of 125 registers reaches the board |
| `Registry` | 2 addresses, an IO board that comes and goes at one, `MAX_SCAN_FAIL` 1, fair | boards listed and dropped, removal only after misses, no exchange, summery follows; implements `BoardWatch`; the list page ends the process only for a board given up |
| `Board` | 1 pin, erased EEPROM, a page with 3 functions, one browser, a Modbus client that writes a fourth, failing bus | functions change on request only, switches as checked, untouched switches keep their level, the mapping recovers |
| `BoardSelect` (violation) | without Modbus writes and failures | a select is stored in the byte nobody reads |
| `I2CForm` | 2 tabs of a session, 2 requests, 16 cells, failing bus, fair | value and address agree, dumps exact, cells change as asked, every request ends |

### Bounds, and why they are enough

- *Server*: the threads treat connections alike, one after the other, and share
  only list, lock and flag; two connections give one that is served while
  another waits, is added, marked or erased. Two queries give a query that
  arrives while another is handled. A send buffer of one reply makes a socket
  unwritable at once. In `ServerLiveness` the buffer holds all that a client can
  leave unread, so a socket is always writable and the situation of `ServerStuck`
  is left out *on purpose*: with it `LostClientsReaped` and `QueriesAnswered` do
  not hold of the code.
- *Query*: the constants of the layout are scaled down so that every block,
  every boundary between blocks and both ends of the mapping are among the
  asked addresses and counts. `Limit` stays 65536: the wrap of 16 bits is
  reached by the clamp. The limits of Modbus are scaled to 12 and 10, with counts on
  both sides of them; `QueryRefused` has the real ones. Two queries in a row show what
  one leaves behind for the next (ranges, mapping).
- *Registry*: slaves at different addresses share nothing but the list and its
  lock, which the second address and the summery slave contend for. A limit of
  1 gives the same three phases (below, at and above the limit) as 5 does.
- *Board*: pins are independent except for the loops over them, which do not
  carry state from one to the next. One browser, a Modbus client and the
  slave's scanner already race on both copies; the module allows any number of
  browsers. The functions are all three kinds of a box and one without; those
  of the switch and of the erased EEPROM are no option of the page here, so that
  selects show something else than they have. Garbage counts are none and all.
- *I2CForm*: with bytes of 4 values and 16 cells, an address of 8 bits is one digit
  and one of 16 bits two, as in the code with 256; rows of 2 let a dump begin and
  end inside a row and cross from 8 to 16 bits, into the last row and beyond it. The
  value is more than a byte holds: the page shows it as it was entered. Two
  requests are what can race: they share only session and device, each of which a
  request touches in one step apiece and a dump once per row.

Deadlock is not checked: every instance ends, with clients that have sent their
queries, a destroyed server, a crashed process or a slave without further queries.

### Fairness

- `ThreadFairness` (Server): the operating system runs both threads and the
  destructor. Taking `m_conn_lock` has strong fairness: the handler releases the
  lock and takes it again at once, so the acceptor is enabled again and again, and
  only a mutex that lets a waiter in eventually makes `ConnectionsAdmitted` hold.
  That is an assumption about the platform, not something the code ensures.
  `accept()` has no fairness beyond that of its thread: it may fail, and the port is
  gone then. `ConnectionsAdmitted` and `QueriesAnswered` therefore promise to clients
  that wait in the backlog either admission or that they are turned away.
- `ClientsRead`: clients read their replies, as TCP peers that are alive do.
- `ClientsTalk`: a client goes on sending, or leaves. The code *needs* it, since
  `modbus_receive` blocks under the lock: `ServerSilent` is `ServerLiveness`
  without it.
- Registry: scanner, main and thread pool run. Nothing makes a board come or go,
  a client ask, or a thread end. The liveness properties are stated for a process
  that lives and threads that were not ended by a wake-up that is not a timeout.
- Board has no fairness. `MappingRecovers` carries its own assumption: *if* the
  board's function settles and the register is refreshed again and again, then the
  mapping agrees with the board for good.
- I2CForm: the web server runs each request, and a transfer returns. No transfer is
  assumed to fail or to succeed.

## 4. Findings

| Run | Source | What |
|---|---|---|
| `ServerSilent` | `src/base/Server.cpp:210` | one `fd_set` as read set and write set: what is left are the writable sockets, and silent clients are dispatched to a blocking receive |
| `ServerStuck` | `src/base/Server.cpp:216` | `continue` after a timeout skips the loop that sets `wait` back |
| `ServerCustom` | `src/base/main.cpp:128` | the owner of the `--mb_port` server goes out of scope with its block |
| `QueryCrossing` | `src/base/Connection.cpp:224` | the clamp at a block's end subtracts `cur_count` instead of `cur_address` |
| `QueryRefused` | `src/base/Connection.cpp:378` | a write that `modbus_reply` refused for its count is sent to the board, with stale registers |
| `BoardSelect` | `src/webinterface/pages/I2C_IO_Board.ecpp:435` | the function is stored in the high byte, readers use the low one |

The first has a good side, which is proved: a reply never blocks
(`ReplyDoesNotBlock`), since a connection is dispatched only when writable.

Three more are in the model, and every property is checked with them, but they have
no run of their own:

- A failed `accept()` closes and overwrites the listening socket, and the acceptor
  loops on without a port (`AcceptFails`, `src/base/Server.cpp:142-159`).
- The write check replaces the range of a handler for good (`RangeAfterCheck`,
  `src/I2C/IOBoardSlave.cpp:115`).
- A function without an `<option>` is set to disabled by the next submit (`Unoffered`,
  `src/webinterface/pages/I2C_IO_Board.ecpp:469`). `FunctionsChangeOnRequest` names
  this as the one change of a function that nobody asked for.

Not a defect, but worth knowing: `src/I2C/I2CScanner.cpp:103` compares the counter
before it is incremented, and with `>`, so that a board goes at the seventh scan
without it when `MAX_SCAN_FAIL` is five. `RemovalIsDeserved` proves that count.

## 5. Proofs

All theorems hold for every value of the constants that the named `ASSUME`s of
the module admit, which TLC evaluates on each instance:

| Module | Any number of | Assumed |
|---|---|---|
| Server | clients, connections, queries, buffers | `ServerAssumption`: naturals, a null connection that is none |
| Registry | addresses, boards | `RegistryAssumption`: naturals, a limit of the counted misses above the removal limit |
| Query | slaves, registers, handlers, queries | `HandlersAssumption`, `QueryAssumption`: widths, lists and blocks inside of the mapping (`WellFormed`), counts of 16 bits, limits of `modbus_reply` below half of that; `LayoutAssumption`: `Arranged` and `Clampable`, below |
| Layouts | addresses of the header | `LayoutsAssumption`: RAM registers and EEPROM areas follow one another; `WidthsAssumption`: 8 and 16 bits have room for the mappings; `HasRoomFor(pins)` where a pin count is given |
| Board | browsers, pins, function codes | `BoardAssumption`: the page's codes are bytes below 255, disabled is one of them, a switch is neither 0 nor a toggle nor a pulse; `RegistersAssumption`: what EEPROM, clients and stack hold are words and bytes, any of them |
| I2CForm | tabs, requests, cells, cells per row | `I2CFormAssumption`: addresses are inside of the device, which has more cells than one byte can name; values are naturals, dumps begin and end at any natural, or lack one |

### ServerProofs

`IInv` is the inductive invariant. The properties alone are not inductive, for
three reasons that give its other parts:

- who holds the lock and which pointers are set follows from program counters
  (`LockDiscipline`, `PointersSet`, `ThreadsJoined`);
- a connection that is accepted is new to the list (`NotYetListed`), without
  which a second append would break the accounting of sockets;
- connections wait only at a port (`PortHeld`), so that the one that is lost takes all
  of them along;
- what the second loop still has to visit *stays* writable, since only its own
  functor writes to a socket (`RestOfPass`); this is what makes
  `ReplyDoesNotBlock` follow, together with `PassIsStable`.

`TypeCorrect` is proved first and on its own, `Invariance` by one step per action,
and from it by weakening `MutualExclusion`, `NoSocketLeak`, `NoStaleReference`,
`BusyCorrect`, `EveryQueryAccounted` and `NoBlockingReply`. `CloseForCause`, an
action property, needs `ClosedIsDone`: a connection marked closed has no query left
(lemmas `FinishedAnswered`, `WhoCloses`). `Refinement` states that Server
implements `ModbusService` under the mapping

    up       <- the object is not destroyed
    port     <- none before the acceptor listens, open while it has the socket, then lost
    link     <- closed with the socket, waiting in the backlog, open once accepted
    given    <- clients that left or broke the protocol
    asked    <- queries sent        answered <- replies sent

so that the lock, `select()` and marking are stutters, and listening, accepting and its
failure, the erasing in `MarkConnections`, the reply and the end of the destructor are
not.

### RegistryProofs

`IInv` says who holds the list's lock (`LockOwned`), what a pending update is
entitled to (`InsertsFit`: the entry is empty, the kind fits the address, the
running scan saw the board and its counter is zero; `RemovalsDue`: there is an
entry, the running scan did not see the board and its counter is at its limit), what the result of a lookup still means when it is used
(`LookupHolds`) and what the counters mean (`CountersMean`: a counter is at most
the number of scans in a row without the board). `PageHolds` relates what the list
page found at its first lookup to the list: the slave is still there, or it was
given up since, or an update of it is under way. From `IInv` follow `TypeCorrect`,
`RemovalIsDeserved`, `Identity` and `CrashIsRemoval`, whatever a racing lookup
returns: the page can end the process for a board that was given up between its
two lookups, and for nothing else outside an update.

`Refinement` states that Registry implements `BoardWatch`. Two things carry it. A
turn of the loop decides about one address and moves on by one (`OneDecided`), so
that a scan judges every board once, wherever the lock makes it wait. And an update
that ends is still entitled to what it does (`UpdateImplements`): between decision
and release of the lock no other thread can touch the entry or the picture of the
bus, which is what `InsertsFit` and `RemovalsDue` say.

### QueryProofs

The properties are about a loop over a layout, so the layout is a constant.
`Arranged` says what every `init()` of the repository makes sure of: handlers can
address the registers they are put down for; the holding registers are served over
the bus, the input registers by classes that serve them; blocks do not overlap; the
read-only registers lie below all that clients may write. `TypeCorrect` comes
first: it bounds what the clamp, a difference cut to 16 bits, can be. `LoopEnds`
then needs only that a handler which succeeds reports at least one register. The
parts of `IInv`:

- `InStep` ties `register_done` to `cur_address`. Counts are any that 16 bits hold;
  those of writes of one register are one (`SingleIsOne`), and those that libmodbus
  takes are below half of 16 bits (`SizedFacts`), so that neither wraps for them;
- `RepliesFit`: a loop that writes has been answered, and the answer is an
  acknowledgement exactly when `modbus_reply` accepted addresses and count;
- `RefusedStandsStill`: the loop that runs after a refusal is at its first turn, unless
  the query is oversized;
- `ReadSoFar`: what a read has passed is in the mapping as the board has it, which
  gives `ReadFresh` at the end of the loop;
- `CheckedAtOnce`, `WrittenAtOnce`: a query for one handler takes one turn of each
  loop, and the handler that writes (`FirstHandler`) is the one that was asked. The
  check is over when the write begins, so `WritesArrive` needs both.

`ProtectedKept` needs none of this: a write reaches a read-only handler only by an
address of its own, since the others lie above, and that one refuses. `InBounds`
follows from the counters in `IInv` and the checks in the handlers, `Readable` from
`IInv` itself.

`NoSilentEffect` hangs on the clamp. `handleQuery` looks for no end of the mapping, its
caller ignores what `modbus_reply` returns, and so the handlers are called for a write
that was refused. Of an oversized one the board gets what the mapping has, which the
property therefore leaves out and `QueryRefused` shows; of the others nothing. What
stops them is their own check of the size, of a count that the clamp has changed (lemma
`RefusedNotServed`). A query for a register of the list keeps its count and is refused
again. One that starts in a block and runs past the mapping gets `last - count + 1`:
this is still too much where the block lies high (`2 * count < last + 2`), and wraps to
something enormous where it ends before the count does. In between it fits, and a
refused write would reach the board. `Clampable` excludes just that. It is about the
numbers of the header, which is not in the repository; a mapping of three times the
longest query, 369 registers with the 123 that Modbus allows a write, is enough
(`IOBoardClampable`). A smaller board is where the property would fail. TLC evaluates
`Clampable` on each layout and count of the runs.

### AccessProofs

`Refinement` proves `ImplementsAccess`, one lemma per kind of step under the mapping of
section 2. Turns that read or check are stutters (`TurnStutters`); `AnswerImplements`
needs the freshness of the state after it; `StoreImplements` is where the parts of
`IInv` meet: the write was acknowledged or oversized (`RefusedNotServed`), a proper one
is at its first turn, with a chunk that is all of it (`WrittenAtOnce`, `AtOnce`), and
any other leaves the protected registers alone (`ProtectedUntouched`). A write that was
refused for its addresses is over for the abstract slave while the code still loops;
`RefusedStutters` shows that this changes nothing, not even `busFailed`.

### LayoutsProofs

`GatewayArranged` closes the gap between "any layout that is `WellFormed`, `Arranged`
and `Clampable`" and the program: it proves the three of what `init()` of the IO board
builds, for every header and every pin count for which its areas have room
(`HasRoomFor`, which a header made for the largest board has for every other one:
`RoomForFewer`), of a board whose `init()` failed, of the plain slave and of the
summery slave. A board that reports more pins than the header has room for is
outside: its blocks overlap, and `init()` does not check the byte it reads.

### BoardProofs

What a page does to the board depends on what it read, and on what it was asked,
several steps before, while others change board and mapping. `IInv` says what a
request in work still has to do with its form: selects left to do are ones that
were changed or have no option for the function (`SelectsAsked`), the boxes are the
form's but for the clicks (`BoxesAsClicked`), of pins beyond the count no function is
known (`UncountedIsUnknown`), only submits act on pins (`ActionIsSubmitted`). None of it mentions board or mapping, so
the other actors cannot disturb it; that a browser keeps its form while its
request is in work is what `BoxesAsClicked` hangs on. `SetOnRequest`, `ChecksCount`
and `SwitchesLeftAlone` are action properties that follow step by step;
`TypeCorrect` covers the conversions between bytes and words.

### I2CFormProofs

`Kept` says what a request has in hand at each stage: the address and mode that
came back from the session are its own if it gave any (`Restored`), nothing is in
the page before the dump (`Fresh`), and the dump is at a cell of its range that fits
the label of its row and the length of its table (`InRow`). Types are part of the same
induction, since that a label is a row's follows from `InRow`.
The arithmetic is in a few lemmas: `RowsMeet` (a row that was not cut ends where the
next begins, for any length of a row), `InsideRow` (up to there, all cells have its
label), `WireCell` (one byte or two name the cell that was meant if they can),
`CellsRead` (the device counts on modulo its size, wherever the transfer began; it rests
on `RemainderOfSum`) and `RowRead`. `RowExact` puts them together: the entries of a turn
are those of its addresses (`Entry`). From `IInv` follow `ValuesBelong` and
`DumpsExact`; `ChangesAsAsked` needs `WrittenBytes`, too: what goes out is never longer
than value or string.

### Only model-checked

Liveness and everything that depends on fairness, `MappingRecovers` included, since
neither fairness nor ENABLED is in the provers' reach; the disagreements of
section 4, which are counterexamples. Every invariant and every action property of
the passing runs is a theorem.

## 6. Not modelled, and limits

- Of the IO board's page the change of the I2C address (it gives the module of a
  slave two addresses of which the scanner finds one; with it the registry's state
  space leaves what TLC can search, and boards that come and go at will at both
  addresses already show what the list does then), the pulse time and the display
  of data and names; the list page beyond its two lookups; the web server and its
  login. Of `I2C.ecpp` the wording.
- `modbus_new_tcp` out of memory, and an error of `select()` in the handler: it
  takes the same `continue` as the timeout.
- After a failed `accept()` `m_server_socket` holds what libmodbus leaves there, 0 or -1
  by its version, and the loop works on with that descriptor, which is not the
  server's (0 may even be given to a connection later). The model has only that the
  port is gone.
- A write of multiple registers whose byte count does not fit its register count, and
  that libmodbus throws away what else the socket holds when it refuses a count: Server
  has queries as tokens, which a pipelining client would lose there.
- `~I2C_Scanner` (main does not end), the scanner's start before its bus object is
  set, the thread pool's numbers, options and log levels.
- Reuse of handlers through the global HandlerList.
- A build in which the compiler hoists the read of the plain `bool`
  `m_server_running` out of a loop: the model reads it every time.
- Board: the slave is listed for good and `PIN_DISABLED` is 0, as the code of the
  board has it. I2C transfers are atomic, and the ports are read in one. Memory beyond
  a buffer is not modelled: a count above 17 pins has `getSlaveInfo` read more than its
  34 bytes (`src/I2C/IOBoardSlave.cpp:345`), and the model goes on as if they were
  there. The levels of input pins, which nothing here sets, are not followed.
- I2CForm: the slave stays listed and the addresses of single cells fit into 16 bits.
  The numbers of a dump are not bounded, while those of the code are: a dump up to the
  largest `int`, whose end the loop could not pass, is outside of the model.

## 7. Plan

Done: Server with its abstract service, Registry with its abstract list, Query
with its abstract slave, Handlers, Layouts, Board and I2CForm, with TLC and with
proofs.

1. *Compositions*: Query with Board (an acknowledged write overwritten by a DB
   update before it is sent); Registry with Query (a slave removed during a query:
   the shared pointer keeps it alive); Board with two browsers on a smaller
   instance; the reuse of handlers.
