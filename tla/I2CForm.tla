------------------------------- MODULE I2CForm -------------------------------
(***************************************************************************)
(* The page that reads and writes single cells of an I2C device and dumps  *)
(* ranges of them (I2C.ecpp; the page of an IO board includes it), in the  *)
(* tabs of one user, who may have several of its requests under way.       *)
(*                                                                         *)
(* A transfer over the bus is one step, and so are the accesses of a       *)
(* request to the session, which Tntnet (external) locks from the first of *)
(* them to the end of the request.  The model asks for less: other         *)
(* requests may come in between the steps, as those of other sessions do.  *)
(* The slave stays listed; module Registry is about its list.              *)
(***************************************************************************)
EXTENDS Integers, Sequences

CONSTANTS
  Tabs,
  ByteLimit, Limit,      \* 2^8 and 2^16
  RowLength,             \* cells in a row of the dump
  i2c_max_stringlength,
  Addresses, Values,     \* bound: what is entered for a cell ...
  Lengths, Ranges,       \* ... or a string, or a dump
  MaxRequests            \* bound: number of requests

None == -1    \* an argument that the request does not carry
Device == 0 .. Limit - 1
Byte == 0 .. ByteLimit - 1

ASSUME I2CFormAssumption ==
  /\ RowLength \in Nat \ {0}
  /\ ByteLimit \in Nat \ {0, 1}
  /\ Limit \in Nat
  /\ Limit > ByteLimit
  /\ i2c_max_stringlength \in Nat \ {0}
  /\ Addresses \subseteq Device
  /\ Values \subseteq Nat
  /\ Lengths \subseteq 0 .. i2c_max_stringlength
  /\ Ranges \subseteq (Nat \cup {None}) \X (Nat \cup {None})
  /\ MaxRequests \in Nat

VARIABLES
  cells,     \* the device
  session,   \* s_i2c_address, s_i2c_address_mode
  request,   \* the request of every tab: its arguments, and how far it is
  page,      \* what every tab shows
  requests   \* number of requests

vars == <<cells, session, request, page, requests>>

Modes == {1, 2}   \* addresses of 8 and of 16 bits
Char == 1         \* the characters of strings are not told apart

NoArguments ==
  [button |-> "none", address |-> None, mode |-> None, value |-> None,
   length |-> None, start |-> None, stop |-> None]

NoRequest ==
  [pc |-> "none", args |-> NoArguments, address |-> None, mode |-> None,
   transfer |-> None, cell |-> None, cur |-> 0, label |-> 0, base |-> 10,
   table |-> <<>>, whole |-> FALSE]

Init ==
  /\ cells = [c \in Device |-> 0]
  /\ session = [address |-> None, mode |-> None]
  /\ request = [t \in Tabs |-> NoRequest]
  /\ page = [t \in Tabs |-> NoRequest]
  /\ requests = 0

-----------------------------------------------------------------------------
(* What a user may ask for: a button of the first form always sends the    *)
(* mode, the address may be left empty, and the radio buttons tell if the  *)
(* value or the string counts (the other is left empty here).  The second  *)
(* form is the dump's.                                                     *)
Cells == [address : Addresses \cup {None}, mode : Modes]

Arguments(button, cell, value, length) ==
  [NoArguments EXCEPT !.button = button, !.address = cell.address,
                      !.mode = cell.mode, !.value = value, !.length = length]

Asked ==
  {NoArguments}
  \cup {Arguments("Read", c, None, None) : c \in Cells}
  \cup {Arguments("Write", w[1], w[2], None) : w \in Cells \X (Values \cup {None})}
  \cup {Arguments("Write", w[1], None, w[2]) : w \in Cells \X Lengths}
  \cup {[NoArguments EXCEPT !.button = "Dump", !.start = r[1], !.stop = r[2]] :
          r \in Ranges}

Ask(t, args) ==
  /\ request[t].pc = "none"
  /\ requests < MaxRequests
  /\ requests' = requests + 1
  /\ request' = [request EXCEPT ![t] = [NoRequest EXCEPT !.pc = "restore",
                                                         !.args = args]]
  /\ UNCHANGED <<cells, session, page>>

Given(new, old) == IF new # None THEN new ELSE old

(* store/restore: the session keeps what is given, the form shows it.      *)
Restore(t) ==
  /\ request[t].pc = "restore"
  /\ session' = [address |-> Given(request[t].args.address, session.address),
                 mode |-> Given(request[t].args.mode, session.mode)]
  /\ request' = [request EXCEPT ![t].pc = "handle",
                                ![t].address = session'.address,
                                ![t].mode = session'.mode]
  /\ UNCHANGED <<cells, page, requests>>

-----------------------------------------------------------------------------
(* handle_form_i2c gets the arguments of the request, not what was         *)
(* restored.                                                               *)

(* The bytes of the address that go over the bus.                          *)
Wire(address, mode) == address % (IF mode = 1 THEN ByteLimit ELSE Limit)

Handling(t, button) ==
  /\ request[t].pc = "handle"
  /\ request[t].args.button = button

(* What comes after a transfer that made the page show this value.         *)
Handled(t, transfer, cell) ==
  request' = [request EXCEPT ![t].pc = "dump", ![t].transfer = transfer,
                             ![t].cell = cell]

ReadCell(t) ==
  LET args == request[t].args
      cell == Wire(args.address, args.mode)
  IN
  /\ Handling(t, "Read")
  /\ Handled(t, cells[cell], cell)
  /\ UNCHANGED <<cells, session, page, requests>>

(* Mutation: the string is not cut.                                        *)
WrittenUncut(args) ==
  IF args.length = None THEN <<args.value % ByteLimit>>
  ELSE [i \in 1 .. args.length + args.mode |-> IF i <= args.length THEN Char ELSE 0]

(* Mutation: the value goes out as it is.                                  *)
WrittenUnmasked(args) ==
  IF args.length = None THEN <<args.value>>
  ELSE [i \in 1 .. args.length + 1 |-> IF i <= args.length THEN Char ELSE 0]

(* recvbuffer behind the address: the value, or the string and its end.    *)
Written(args) ==
  LET max == IF args.mode = 1 THEN i2c_max_stringlength - 1 ELSE i2c_max_stringlength
      length == IF args.length > max THEN max ELSE args.length
  IN  IF args.length = None THEN <<args.value % ByteLimit>>
      ELSE [i \in 1 .. length + 1 |-> IF i <= length THEN Char ELSE 0]

(* The device (external) takes these bytes, from this cell on.             *)
Store(cell, bytes) ==
  [c \in Device |->
     IF c >= cell /\ c < cell + Len(bytes) THEN bytes[c - cell + 1] ELSE cells[c]]

(* The page shows i2c_value, whichever of the two was written.             *)
WriteCells(t) ==
  LET args == request[t].args
      cell == Wire(args.address, args.mode)
  IN
  /\ Handling(t, "Write")
  /\ cells' = Store(cell, Written(args))
  /\ Handled(t, args.value, IF args.length = None THEN cell ELSE None)
  /\ UNCHANGED <<session, page, requests>>

(* A transfer fails; a write may have got somewhere.                       *)
TransferFails(t) ==
  LET args == request[t].args
  IN
  /\ \/ Handling(t, "Read") /\ UNCHANGED cells
     \/ /\ Handling(t, "Write")
        /\ \E n \in 0 .. Len(Written(args)) :
             cells' = Store(Wire(args.address, args.mode), SubSeq(Written(args), 1, n))
  /\ Handled(t, None, None)
  /\ UNCHANGED <<session, page, requests>>

NothingToHandle(t) ==
  /\ Handling(t, "none") \/ Handling(t, "Dump")
  /\ Handled(t, None, None)
  /\ UNCHANGED <<cells, session, page, requests>>

-----------------------------------------------------------------------------
(* form_i2c_dump: a row of cells per transfer.                             *)
Valid(args) == args.start >= 0 /\ args.stop >= 0 /\ args.stop >= args.start

RowOf(cell) == cell - (cell % RowLength)

(* The label of the first row is printed in decimal, those of the others   *)
(* in hex.                                                                 *)

StartDump(t) ==
  LET args == request[t].args
  IN
  /\ request[t].pc = "dump"
  /\ request' = IF Valid(args)
                THEN [request EXCEPT ![t].pc = "row", ![t].cur = args.start,
                                     ![t].label = RowOf(args.start),
                                     ![t].base = 10]
                ELSE [request EXCEPT ![t].pc = "render"]
  /\ UNCHANGED <<cells, session, page, requests>>

ToRowEnd(cur) == RowLength - (cur % RowLength)

(* Mutation: the last cell is forgotten.                                   *)
CountWithoutLast(cur, stop) ==
  IF cur + ToRowEnd(cur) > stop THEN stop - cur ELSE ToRowEnd(cur)

(* Mutation: rows are not cut at the end of the dump.                      *)
CountWholeRow(cur, stop) == ToRowEnd(cur)

(* "count till end of full 16th byte", "count not more than stop"          *)
Count(cur, stop) ==
  IF cur + ToRowEnd(cur) > stop THEN stop - cur + 1 ELSE ToRowEnd(cur)

(* Mutation: all addresses go out with 8 bits.                             *)
DumpModeByte(cur) == 1

DumpMode(cur) == IF cur < ByteLimit THEN 1 ELSE 2

(* One turn of the loop.  A cell stands in a row, which has a label, and   *)
(* in a column; a new row starts where the last one is full.  The device   *)
(* (external) counts on from the address, and from its end on from 0.      *)
DumpRow(t) ==
  LET cur == request[t].cur
      count == Count(cur, request[t].args.stop)
      first == Wire(cur, DumpMode(cur))
      row == [i \in 1 .. count |->
                [label |-> request[t].label, base |-> request[t].base,
                 column |-> (cur % RowLength) + i - 1,
                 cell |-> (first + i - 1) % Limit]]
      done == cur + count > request[t].args.stop
      next == ~done /\ (cur + count) % RowLength = 0
  IN
  /\ request[t].pc = "row"
  /\ request' = [request EXCEPT ![t].pc = IF done THEN "render" ELSE "row",
                                ![t].cur = cur + count,
                                ![t].label = IF next THEN RowOf(cur) + RowLength ELSE @,
                                ![t].base = IF next THEN 16 ELSE @,
                                ![t].table = @ \o row,
                                ![t].whole = done]
  /\ UNCHANGED <<cells, session, page, requests>>

(* The rows so far stay in the page.                                       *)
DumpFails(t) ==
  /\ request[t].pc = "row"
  /\ request' = [request EXCEPT ![t].pc = "render"]
  /\ UNCHANGED <<cells, session, page, requests>>

(* Mutation: the form shows the address of the session.                    *)
RenderSession(t) ==
  /\ request[t].pc = "render"
  /\ page' = [page EXCEPT ![t] = [request[t] EXCEPT !.address = session.address]]
  /\ request' = [request EXCEPT ![t] = NoRequest]
  /\ UNCHANGED <<cells, session, requests>>

Render(t) ==
  /\ request[t].pc = "render"
  /\ page' = [page EXCEPT ![t] = request[t]]
  /\ request' = [request EXCEPT ![t] = NoRequest]
  /\ UNCHANGED <<cells, session, requests>>

-----------------------------------------------------------------------------
Works(t) ==
  \/ Restore(t)
  \/ ReadCell(t) \/ WriteCells(t) \/ NothingToHandle(t)
  \/ StartDump(t) \/ DumpRow(t)
  \/ Render(t)

Next ==
  \E t \in Tabs :
    \/ \E args \in Asked : Ask(t, args)
    \/ Works(t)
    \/ TransferFails(t) \/ DumpFails(t)

(* Each request has a worker of the web server, and transfers return; no   *)
(* transfer has to fail.                                                   *)
Spec == Init /\ [][Next]_vars /\ \A t \in Tabs : WF_vars(Works(t))

-----------------------------------------------------------------------------
Entries ==
  [label : Nat, base : {10, 16}, column : 0 .. RowLength - 1, cell : Device]

(* Every variable keeps its type.                                          *)
Requests ==
  [pc : {"none", "restore", "handle", "dump", "row", "render"}, args : Asked,
   address : Device \cup {None}, mode : Modes \cup {None},
   transfer : Nat \cup {None}, cell : Device \cup {None},
   cur : Nat, label : Nat, base : {10, 16},
   table : Seq(Entries), whole : BOOLEAN]

TypeOK ==
  /\ cells \in [Device -> Byte]
  /\ session \in [address : Device \cup {None}, mode : Modes \cup {None}]
  /\ request \in [Tabs -> Requests]
  /\ page \in [Tabs -> Requests]
  /\ requests \in 0 .. MaxRequests

Fits(args) == args.address # None /\ (args.mode = 2 \/ args.address < ByteLimit)

Belongs(r) ==
  r.cell # None /\ Fits(r.args) => r.cell = r.address /\ r.mode = r.args.mode

(* Where the page has the content of an address, and what it has there.    *)
Entry(address, start) ==
  [label |-> RowOf(address),
   base |-> IF RowOf(address) = RowOf(start) THEN 10 ELSE 16,
   column |-> address % RowLength,
   cell |-> address % Limit]

(* The part of a dump from start on that the table of a request has, and   *)
(* all of it if no transfer failed.                                        *)
Exact(r) ==
  LET n == Len(r.table)
  IN  /\ \A i \in 1 .. n : r.table[i] = Entry(r.args.start + i - 1, r.args.start)
      /\ n > 0 => n <= r.args.stop - r.args.start + 1
      /\ r.whole => n = r.args.stop - r.args.start + 1

(* A page that shows a value which went over the bus shows it next to its  *)
(* own address and mode, whatever other tabs of the session ask meanwhile, *)
(* provided that the request gave an address and the mode can express it.  *)
(* (Without an address the form shows the one of the session, while the    *)
(* transfer went to -1, the last cell of the mode.)                        *)
ValueBelongsToAddress == \A t \in Tabs : Belongs(page[t])

(* A dump has the addresses from start on one after the other, each in the *)
(* row and column that it belongs to, with its own content; if no transfer *)
(* failed, up to stop and not beyond.  The label of a row is its first     *)
(* address, but only that of the first row is decimal, the others are hex  *)
(* like the columns: the rows of 16 .. 47 are "16" and "20", and 80 .. 143 *)
(* has two rows "80".  Beyond its end the device starts again.             *)
DumpExact == \A t \in Tabs : Exact(page[t])

(* The device changes only where somebody who pressed "Write" asked for    *)
(* it: in the cell of the value, or from the address on as far as a string *)
(* and its end reach, and the field takes max characters.                  *)
Meant(args) ==
  args.address .. args.address + (IF args.length = None THEN 0 ELSE args.length)

CellsChangeAsAsked ==
  [][\A c \in Device :
       cells'[c] # cells[c] =>
         \E t \in Tabs :
           /\ Handling(t, "Write")
           /\ Fits(request[t].args) => c \in Meant(request[t].args)]_vars

(* Every request ends, a dump too: each turn of its loop gets further.     *)
RequestsEnd == \A t \in Tabs : request[t].pc # "none" ~> request[t].pc = "none"

-----------------------------------------------------------------------------
(* What the proofs need on top of that.                                    *)

(* What the session kept is what the request gave, ...                     *)
Restored(r) ==
  r.pc = "handle" =>
    /\ r.args.address # None => r.address = r.args.address
    /\ r.args.mode # None => r.mode = r.args.mode

(* ... nothing is in the page yet, and the dump is inside of its range, at *)
(* the row of its label.                                                   *)
Fresh(r) ==
  /\ r.pc \in {"restore", "handle"} => r.cell = None
  /\ r.pc \in {"restore", "handle", "dump"} => r.table = <<>> /\ ~r.whole

InRow(r) ==
  r.pc = "row" =>
    /\ Valid(r.args)
    /\ r.cur \in r.args.start .. r.args.stop
    /\ r.label = RowOf(r.cur)
    /\ r.label >= RowOf(r.args.start)
    /\ r.base = IF r.label = RowOf(r.args.start) THEN 10 ELSE 16
    /\ Len(r.table) = r.cur - r.args.start
    /\ ~r.whole

(* What holds of a request, however far it is.                             *)
Kept(r) == Restored(r) /\ Fresh(r) /\ InRow(r) /\ Belongs(r) /\ Exact(r)

IInv ==
  /\ TypeOK
  /\ \A t \in Tabs : Kept(request[t])
  /\ ValueBelongsToAddress
  /\ DumpExact
=============================================================================
