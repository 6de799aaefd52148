---------------------------- MODULE I2CFormProofs ----------------------------
(***************************************************************************)
(* Proofs about module I2CForm, for any number of tabs and requests, any   *)
(* limits and any length of a row.                                         *)
(*                                                                         *)
(* A page shows what a request gathered over several transfers, while the  *)
(* other tabs of the session change what a restore would give.  Kept says  *)
(* what a request has in hand at each of its stages.                       *)
(***************************************************************************)
EXTENDS I2CForm, SequenceTheorems, TLAPS

-----------------------------------------------------------------------------
(* Numbers.                                                                *)
LEMMA Remainder ==
  ASSUME NEW a \in Int, NEW k \in Nat \ {0}
  PROVE  a % k \in 0 .. k - 1
OBVIOUS

(* A number below the divisor is its own remainder.                        *)
LEMMA SmallRemainder ==
  ASSUME NEW a \in Nat, NEW k \in Nat \ {0}, a < k
  PROVE  a % k = a
OBVIOUS

(* A number is made of its quotient and its remainder.                     *)
LEMMA Division ==
  ASSUME NEW a \in Int, NEW k \in Nat \ {0}
  PROVE  a = k * (a \div k) + (a % k) /\ a \div k \in Int
OBVIOUS

(* A multiple leaves no remainder.                                         *)
LEMMA Multiple ==
  ASSUME NEW q \in Int, NEW k \in Nat \ {0}
  PROVE  (k * q) % k = 0
OBVIOUS

(* A number that differs by a multiple has the same remainder.             *)
LEMMA Shifted ==
  ASSUME NEW q \in Int, NEW b \in Int, NEW k \in Nat \ {0}
  PROVE  (k * q + b) % k = b % k
<1> DEFINE p == b \div k
           r == b % k
<1>1. p \in Int /\ r \in 0 .. k - 1 /\ b = k * p + r
  BY Division, Remainder
<1> HIDE DEF p, r
<1>2. k * q + b = k * (q + p) + r /\ q + p \in Int
  BY <1>1
<1>3. ASSUME NEW m \in Int, NEW d \in 0 .. k - 1
      PROVE  (k * m + d) % k = d
  OBVIOUS
<1>4. (k * (q + p) + r) % k = r
  BY <1>1, <1>2, <1>3
<1> QED
  BY <1>2, <1>4 DEF r

(* It makes no difference to a remainder if one is taken before.           *)
LEMMA RemainderOfSum ==
  ASSUME NEW a \in Int, NEW j \in Int, NEW k \in Nat \ {0}
  PROVE  ((a % k) + j) % k = (a + j) % k
<1> DEFINE q == a \div k
           r == a % k
<1>1. q \in Int /\ r \in Int /\ a = k * q + r
  BY Division, Remainder
<1> HIDE DEF q, r
<1>2. a + j = k * q + (r + j) /\ r + j \in Int
  BY <1>1
<1>3. (k * q + (r + j)) % k = (r + j) % k
  BY <1>1, <1>2, Shifted
<1> QED
  BY <1>2, <1>3 DEF r

(* Up to its end, the cells of a row have its label and their columns.     *)
LEMMA InsideRow ==
  ASSUME NEW a \in Nat, NEW j \in Nat, j < ToRowEnd(a)
  PROVE  /\ (a + j) % RowLength = (a % RowLength) + j
         /\ RowOf(a + j) = RowOf(a)
         /\ (a % RowLength) + j \in 0 .. RowLength - 1
<1> DEFINE r == a % RowLength
<1>1. RowLength \in Nat \ {0} /\ r \in 0 .. RowLength - 1
  BY I2CFormAssumption, Remainder
<1>2. r + j < RowLength
  <2>1. ToRowEnd(a) = RowLength - r
    BY DEF ToRowEnd
  <2> HIDE DEF r
  <2> QED
    BY <1>1, <2>1
<1>3. (r + j) % RowLength = (a + j) % RowLength
  <2>1. a \in Int /\ j \in Int
    OBVIOUS
  <2> QED
    BY <1>1, <2>1, RemainderOfSum, Zenon
<1>4. (r + j) % RowLength = r + j
  <2> HIDE DEF r
  <2> QED
    BY <1>1, <1>2, SmallRemainder
<1>5. (a + j) % RowLength = r + j
  BY <1>3, <1>4
<1>6. RowOf(a + j) = (a + j) - (r + j) /\ RowOf(a) = a - r
  BY <1>5 DEF RowOf
<1> HIDE DEF r
<1> QED
  BY <1>1, <1>2, <1>5, <1>6 DEF r

(* The cell after a row begins a row.                                      *)
LEMMA RowsMeet ==
  ASSUME NEW a \in Nat
  PROVE  /\ a + ToRowEnd(a) = RowOf(a) + RowLength
         /\ (a + ToRowEnd(a)) % RowLength = 0
         /\ RowOf(a + ToRowEnd(a)) = a + ToRowEnd(a)
         /\ a % RowLength \in Nat
         /\ RowOf(a) \in 0 .. a
         /\ ToRowEnd(a) \in Nat \ {0}
<1>1. RowLength \in Nat \ {0} /\ a % RowLength \in 0 .. RowLength - 1
  BY I2CFormAssumption, Remainder
<1>2. a + ToRowEnd(a) = RowOf(a) + RowLength /\ a + ToRowEnd(a) \in Int
  BY <1>1 DEF ToRowEnd, RowOf
<1>3. (a + ToRowEnd(a)) % RowLength = 0
  <2> DEFINE q == (a \div RowLength) + 1
  <2>1. q \in Int
    BY <1>1, Division
  <2>2. a + ToRowEnd(a) = RowLength * q
    BY <1>1, <1>2, Division DEF RowOf
  <2> HIDE DEF q
  <2> QED
    BY <1>1, <2>1, <2>2, Multiple
<1>4. RowOf(a) \in 0 .. a
  <2>1. a % RowLength <= a
    <3>1. CASE a < RowLength
      BY <1>1, <3>1, SmallRemainder
    <3>2. CASE ~(a < RowLength)
      BY <1>1, <3>2
    <3> QED
      BY <3>1, <3>2
  <2> QED
    BY <1>1, <2>1 DEF RowOf
<1>5. RowOf(a + ToRowEnd(a)) = a + ToRowEnd(a)
  <2> DEFINE b == a + ToRowEnd(a)
  <2>1. b \in Int /\ b % RowLength = 0
    BY <1>2, <1>3
  <2> HIDE DEF b
  <2>2. RowOf(b) = b
    BY <2>1 DEF RowOf
  <2> QED
    BY <2>2 DEF b
<1> QED
  BY <1>1, <1>2, <1>3, <1>4, <1>5 DEF ToRowEnd

(* What goes over the bus is a cell of the device, and the one of the form *)
(* if the mode can express it.                                             *)
LEMMA WireCell ==
  ASSUME NEW address \in Device \cup {None}, NEW mode \in Modes \cup {None}
  PROVE  /\ Wire(address, mode) \in Device
         /\ mode = 1 /\ address \in 0 .. ByteLimit - 1 => Wire(address, mode) = address
         /\ mode = 2 /\ address # None => Wire(address, mode) = address
<1>0. address \in Int
  BY I2CFormAssumption DEF Device, None
<1>1. address % ByteLimit \in 0 .. ByteLimit - 1 /\ address % Limit \in 0 .. Limit - 1
  BY <1>0, I2CFormAssumption, Remainder
<1>2. address \in 0 .. ByteLimit - 1 => address % ByteLimit = address
  BY I2CFormAssumption, SmallRemainder
<1>3. address \in Device => address % Limit = address
  BY I2CFormAssumption, SmallRemainder DEF Device
<1> QED
  BY <1>1, <1>2, <1>3, I2CFormAssumption DEF Wire, Device

-----------------------------------------------------------------------------
(* Types.                                                                  *)
Gives ==
  [button : {"none", "Read", "Write", "Dump"}, address : Device \cup {None},
   mode : Modes \cup {None}, value : Nat \cup {None},
   length : 0 .. i2c_max_stringlength \cup {None},
   start : Nat \cup {None}, stop : Nat \cup {None}]

(* What a request gives: a button of the first form sends the mode.        *)
LEMMA AskedGives ==
  ASSUME NEW args \in Asked
  PROVE  /\ args \in Gives
         /\ args.button \in {"Read", "Write"} => args.mode \in Modes
<1>1. NoArguments \in Gives
  BY DEF NoArguments, Gives
<1>2. CASE args = NoArguments
  BY <1>1, <1>2 DEF NoArguments
<1>3. ASSUME NEW button \in {"Read", "Write"}, NEW c \in Cells,
             NEW value \in Values \cup {None}, NEW length \in Lengths \cup {None},
             args = Arguments(button, c, value, length)
      PROVE  args \in Gives /\ args.mode \in Modes
  <2>1. /\ c.address \in Device \cup {None} /\ c.mode \in Modes
        /\ value \in Nat \cup {None} /\ length \in 0 .. i2c_max_stringlength \cup {None}
    BY I2CFormAssumption DEF Cells
  <2> QED
    BY <1>3, <2>1 DEF Arguments, NoArguments, Gives
<1>4. ASSUME NEW r \in Ranges,
             args = [NoArguments EXCEPT !.button = "Dump", !.start = r[1], !.stop = r[2]]
      PROVE  args \in Gives /\ args.button = "Dump"
  <2>1. r[1] \in Nat \cup {None} /\ r[2] \in Nat \cup {None}
    BY I2CFormAssumption
  <2> QED
    BY <1>4, <2>1 DEF NoArguments, Gives
<1>5. \/ args = NoArguments
      \/ \E c \in Cells : args = Arguments("Read", c, None, None)
      \/ \E w \in Cells \X (Values \cup {None}) : args = Arguments("Write", w[1], w[2], None)
      \/ \E w \in Cells \X Lengths : args = Arguments("Write", w[1], None, w[2])
      \/ \E r \in Ranges :
           args = [NoArguments EXCEPT !.button = "Dump", !.start = r[1], !.stop = r[2]]
  BY DEF Asked
<1> QED
  BY <1>2, <1>3, <1>4, <1>5

(* What goes out are bytes, no more than value or string need.             *)
LEMMA WrittenBytes ==
  ASSUME NEW args \in Gives
  PROVE  /\ Written(args) \in Seq(Byte)
         /\ Len(Written(args)) <= 1 + (IF args.length = None THEN 0 ELSE args.length)
<1> DEFINE max == IF args.mode = 1 THEN i2c_max_stringlength - 1 ELSE i2c_max_stringlength
           length == IF args.length > max THEN max ELSE args.length
<1>1. CASE args.length = None
  <2>1. Written(args) = <<args.value % ByteLimit>>
    BY <1>1 DEF Written
  <2>2. args.value \in Int
    BY DEF Gives, None
  <2>3. args.value % ByteLimit \in Byte
    BY <2>2, I2CFormAssumption, Remainder DEF Byte
  <2> QED
    BY <1>1, <2>1, <2>3
<1>2. CASE args.length # None
  <2>1. args.length \in Nat /\ length \in Nat /\ length <= args.length
    BY <1>2, I2CFormAssumption DEF Gives
  <2>2. Written(args) = [i \in 1 .. length + 1 |-> IF i <= length THEN Char ELSE 0]
    BY <1>2 DEF Written
  <2> HIDE DEF length
  <2>3. Char \in Byte /\ 0 \in Byte
    BY I2CFormAssumption DEF Char, Byte
  <2>4. Written(args) \in Seq(Byte) /\ Len(Written(args)) = length + 1
    BY <2>1, <2>2, <2>3
  <2> QED
    BY <1>2, <2>1, <2>4
<1> QED
  BY <1>1, <1>2

(* A write leaves bytes in the device, and changes what it reaches.        *)
LEMMA StoreType ==
  ASSUME TypeOK, NEW cell \in Device, NEW bytes \in Seq(Byte)
  PROVE  /\ Store(cell, bytes) \in [Device -> Byte]
         /\ \A c \in Device : Store(cell, bytes)[c] # cells[c] =>
              c >= cell /\ c < cell + Len(bytes)
<1>1. ASSUME NEW c \in Device, c >= cell, c < cell + Len(bytes)
      PROVE  bytes[c - cell + 1] \in Byte
  <2>1. c - cell + 1 \in 1 .. Len(bytes)
    BY <1>1 DEF Device
  <2> QED
    BY <2>1
<1> QED
  BY <1>1 DEF Store, TypeOK

(* A part of what is written.                                              *)
LEMMA PartType ==
  ASSUME NEW bytes \in Seq(Byte), NEW n \in 0 .. Len(bytes)
  PROVE  SubSeq(bytes, 1, n) \in Seq(Byte) /\ Len(SubSeq(bytes, 1, n)) <= Len(bytes)
OBVIOUS

-----------------------------------------------------------------------------
(* A step replaces one request by a record of its type that is kept.       *)
LEMMA RequestStep ==
  ASSUME IInv, NEW t \in Tabs, NEW r \in Requests, Kept(r),
         request' = [request EXCEPT ![t] = r],
         cells' \in [Device -> Byte], requests' \in 0 .. MaxRequests,
         session' \in [address : Device \cup {None}, mode : Modes \cup {None}],
         page' = page
  PROVE  IInv'
<1>1. TypeOK'
  BY DEF IInv, TypeOK
<1>2. \A u \in Tabs : Kept(request'[u])
  BY DEF IInv, TypeOK
<1>3. ValueBelongsToAddress' /\ DumpExact'
  BY DEF IInv, ValueBelongsToAddress, DumpExact
<1> QED
  BY <1>1, <1>2, <1>3 DEF IInv

(* A tab without a request has nothing in hand.                            *)
LEMMA NothingAsked == NoRequest \in Requests /\ Kept(NoRequest)
<1>1. NoArguments \in Asked
  BY DEF Asked
<1>2. NoRequest \in Requests
  BY <1>1 DEF NoRequest, Requests
<1>3. Kept(NoRequest)
  BY DEF NoRequest, Kept, Restored, Fresh, InRow, Belongs, Exact
<1> QED
  BY <1>2, <1>3

(* A page without a table is exact.                                        *)
LEMMA NoTable ==
  ASSUME NEW r, r.table = <<>>, ~r.whole
  PROVE  Exact(r)
BY DEF Exact

(* Nothing is asked and nothing shown at first.                            *)
LEMMA InitIInv == Init => IInv
<1> SUFFICES ASSUME Init PROVE IInv
  OBVIOUS
<1>1. 0 \in Byte
  BY I2CFormAssumption DEF Byte
<1>2. TypeOK
  BY <1>1, NothingAsked, I2CFormAssumption DEF Init, TypeOK
<1>3. \A t \in Tabs : Kept(request[t]) /\ Kept(page[t])
  BY NothingAsked DEF Init
<1> QED
  BY <1>2, <1>3 DEF IInv, Kept, ValueBelongsToAddress, DumpExact

(* A request comes in with its arguments and nothing else.                 *)
LEMMA AskKeeps ==
  ASSUME IInv, NEW t \in Tabs, NEW args \in Asked, Ask(t, args)
  PROVE  IInv'
<1> DEFINE r == [NoRequest EXCEPT !.pc = "restore", !.args = args]
<1>1. r \in Requests
  BY NothingAsked DEF Requests
<1>2. r.pc = "restore" /\ r.cell = None /\ r.table = <<>> /\ ~r.whole
  <2>1. NoRequest.cell = None /\ NoRequest.table = <<>> /\ ~NoRequest.whole
    BY DEF NoRequest
  <2>2. /\ r.pc = "restore" /\ r.cell = NoRequest.cell
        /\ r.table = NoRequest.table /\ r.whole = NoRequest.whole
    BY NothingAsked DEF Requests
  <2> QED
    BY <2>1, <2>2
<1>3. Kept(r)
  BY <1>2, NoTable DEF Kept, Restored, Fresh, InRow, Belongs
<1>4. requests' \in 0 .. MaxRequests
  BY I2CFormAssumption DEF Ask, IInv, TypeOK
<1> QED
  BY <1>1, <1>3, <1>4, RequestStep DEF Ask, IInv, TypeOK

(* What the session gives back is what was given, if anything was.         *)
LEMMA RestoreKeeps ==
  ASSUME IInv, NEW t \in Tabs, Restore(t)
  PROVE  IInv'
<1> DEFINE q == request[t]
           r == [q EXCEPT !.pc = "handle", !.address = session'.address,
                          !.mode = session'.mode]
<1>1. q \in Requests /\ Kept(q) /\ q.args \in Gives
  BY AskedGives DEF IInv, TypeOK, Requests
<1>2. /\ session'.address = Given(q.args.address, session.address)
      /\ session'.mode = Given(q.args.mode, session.mode)
      /\ session' \in [address : Device \cup {None}, mode : Modes \cup {None}]
  BY <1>1 DEF Restore, Given, Gives, IInv, TypeOK
<1>3. r \in Requests
  BY <1>1, <1>2 DEF Requests
<1>4. Kept(r)
  <2>1. q.table = <<>> /\ ~q.whole
    BY <1>1 DEF Restore, Kept, Fresh
  <2>2. r.table = <<>> /\ ~r.whole /\ r.pc = "handle" /\ r.args = q.args /\ r.cell = q.cell
    BY <1>1, <2>1 DEF Requests
  <2>3. r.address = session'.address /\ r.mode = session'.mode
    BY <1>1 DEF Requests
  <2>4. Restored(r)
    BY <1>2, <2>2, <2>3 DEF Restored, Given
  <2>5. Belongs(r)
    <3>1. q.cell = None
      BY <1>1 DEF Restore, Kept, Fresh
    <3> QED
      BY <2>2, <3>1 DEF Belongs
  <2>6. Exact(r)
    BY <2>2 DEF Exact
  <2>7. r.cell = None
    BY <1>1, <2>2 DEF Restore, Kept, Fresh
  <2> HIDE DEF r
  <2> QED
    BY <2>2, <2>4, <2>5, <2>6, <2>7 DEF Kept, Fresh, InRow
<1>5. request' = [request EXCEPT ![t] = r]
  BY DEF Restore
<1> QED
  BY <1>2, <1>3, <1>4, <1>5, RequestStep DEF Restore, IInv, TypeOK

(* A request in hand, of which the steps below take the fields.            *)
LEMMA InHand ==
  ASSUME IInv, NEW t \in Tabs
  PROVE  /\ request[t] \in Requests /\ Kept(request[t])
         /\ request[t].args \in Gives
         /\ request[t].args.button \in {"Read", "Write"} => request[t].args.mode \in Modes
BY AskedGives DEF IInv, TypeOK, Requests

(* What is shown of a transfer belongs to it.                              *)
LEMMA HandledKeeps ==
  ASSUME IInv, NEW t \in Tabs, NEW transfer \in Nat \cup {None},
         NEW cell \in Device \cup {None},
         request[t].pc = "handle", Handled(t, transfer, cell),
         \/ cell = None
         \/ /\ cell = Wire(request[t].args.address, request[t].args.mode)
            /\ request[t].args.mode \in Modes,
         cells' \in [Device -> Byte], UNCHANGED <<session, page, requests>>
  PROVE  IInv'
<1> DEFINE q == request[t]
           r == [q EXCEPT !.pc = "dump", !.transfer = transfer, !.cell = cell]
<1>1. q \in Requests /\ Kept(q) /\ q.args \in Gives
  BY InHand
<1>2. /\ r \in Requests /\ r.pc = "dump" /\ r.args = q.args /\ r.cell = cell
      /\ r.address = q.address /\ r.mode = q.mode
      /\ r.table = q.table /\ r.whole = q.whole
  BY <1>1 DEF Requests
<1>3. r.table = <<>> /\ ~r.whole
  BY <1>1, <1>2 DEF Kept, Fresh
<1>4. Belongs(r)
  <2>1. SUFFICES ASSUME cell # None, Fits(q.args) PROVE cell = q.address /\ q.mode = q.args.mode
    BY <1>2 DEF Belongs
  <2>2. q.args.address # None /\ q.args.mode \in Modes /\ q.args.mode # None
    BY <2>1 DEF Fits, Modes, None
  <2>3. q.address = q.args.address /\ q.mode = q.args.mode
    BY <1>1, <2>2 DEF Kept, Restored
  <2>4. q.args.address \in Device
    BY <1>1, <2>2 DEF Gives
  <2>5. q.args.mode = 2 \/ (q.args.mode = 1 /\ q.args.address \in 0 .. ByteLimit - 1)
    BY <2>1, <2>2, <2>4, I2CFormAssumption DEF Fits, Modes, Device
  <2> QED
    BY <2>1, <2>2, <2>3, <2>4, <2>5, WireCell
<1>5. Kept(r)
  BY <1>2, <1>3, <1>4, NoTable DEF Kept, Restored, Fresh, InRow
<1> QED
  BY <1>2, <1>5, RequestStep DEF Handled, IInv, TypeOK

(* A read shows a cell that the bus can name, ...                          *)
LEMMA ReadCellKeeps ==
  ASSUME IInv, NEW t \in Tabs, ReadCell(t)
  PROVE  IInv'
<1> DEFINE cell == Wire(request[t].args.address, request[t].args.mode)
<1>1. request[t].pc = "handle" /\ request[t].args.mode \in Modes
  BY InHand DEF ReadCell, Handling
<1>2. cell \in Device
  BY <1>1, InHand, WireCell DEF Gives
<1>3. cells[cell] \in Nat
  BY <1>2, I2CFormAssumption DEF IInv, TypeOK, Byte
<1>4. Handled(t, cells[cell], cell)
  BY DEF ReadCell
<1> QED
  BY <1>1, <1>2, <1>3, <1>4, HandledKeeps DEF ReadCell, IInv, TypeOK

(* ... a write the value that went there, ...                              *)
LEMMA WriteCellsKeeps ==
  ASSUME IInv, NEW t \in Tabs, WriteCells(t)
  PROVE  IInv'
<1> DEFINE args == request[t].args
           cell == Wire(args.address, args.mode)
           shown == IF args.length = None THEN cell ELSE None
<1>1. request[t].pc = "handle" /\ args.mode \in Modes /\ args \in Gives
  BY InHand DEF WriteCells, Handling
<1>2. cell \in Device
  BY <1>1, WireCell DEF Gives
<1>3. cells' \in [Device -> Byte]
  BY <1>1, <1>2, WrittenBytes, StoreType DEF WriteCells, IInv
<1>4. Handled(t, args.value, shown) /\ args.value \in Nat \cup {None}
  BY <1>1 DEF WriteCells, Gives
<1> QED
  BY <1>1, <1>2, <1>3, <1>4, HandledKeeps DEF WriteCells

(* ... and a failed transfer, or none, shows nothing.                      *)
LEMMA TransferFailsKeeps ==
  ASSUME IInv, NEW t \in Tabs, TransferFails(t)
  PROVE  IInv'
<1> DEFINE args == request[t].args
<1>1. request[t].pc = "handle" /\ args \in Gives
  BY InHand DEF TransferFails, Handling
<1>2. Wire(args.address, args.mode) \in Device
  BY <1>1, WireCell DEF Gives
<1>3. cells' \in [Device -> Byte]
  BY <1>1, <1>2, WrittenBytes, PartType, StoreType DEF TransferFails, IInv, TypeOK
<1> QED
  BY <1>1, <1>3, HandledKeeps DEF TransferFails

(* A dump has no cell to handle first.                                     *)
LEMMA NothingToHandleKeeps ==
  ASSUME IInv, NEW t \in Tabs, NothingToHandle(t)
  PROVE  IInv'
<1>1. request[t].pc = "handle" /\ Handled(t, None, None) /\ cells' \in [Device -> Byte]
  BY DEF NothingToHandle, Handling, IInv, TypeOK
<1> QED
  BY <1>1, HandledKeeps DEF NothingToHandle

-----------------------------------------------------------------------------
(* The dump.                                                               *)
LEMMA StartDumpKeeps ==
  ASSUME IInv, NEW t \in Tabs, StartDump(t)
  PROVE  IInv'
<1> DEFINE q == request[t]
           into == [q EXCEPT !.pc = "row", !.cur = q.args.start,
                             !.label = RowOf(q.args.start), !.base = 10]
           refused == [q EXCEPT !.pc = "render"]
<1>1. q \in Requests /\ Kept(q) /\ q.args \in Gives /\ q.pc = "dump"
  BY InHand DEF StartDump
<1>2. q.table = <<>> /\ ~q.whole
  BY <1>1 DEF Kept, Fresh
<1>3. CASE Valid(q.args)
  <2>1. /\ q.args.start \in Nat
        /\ q.args.start \in q.args.start .. q.args.stop
        /\ RowOf(q.args.start) \in Nat
    <3>1. q.args.start \in Nat /\ q.args.stop \in Nat /\ q.args.stop >= q.args.start
      BY <1>1, <1>3 DEF Valid, Gives, None
    <3>2. RowOf(q.args.start) \in 0 .. q.args.start
      BY <3>1, RowsMeet
    <3> QED
      BY <3>1, <3>2
  <2>2. /\ into \in Requests /\ into.pc = "row" /\ into.cur = q.args.start
        /\ into.label = RowOf(q.args.start) /\ into.base = 10 /\ into.args = q.args
        /\ into.cell = q.cell /\ into.address = q.address /\ into.mode = q.mode
        /\ into.table = <<>> /\ ~into.whole
    BY <1>1, <1>2, <2>1 DEF Requests
  <2>3. InRow(into)
    <3>1. into.label >= RowOf(q.args.start)
      BY <2>1, <2>2
    <3> HIDE DEF into
    <3> QED
      BY <1>3, <2>1, <2>2, <3>1 DEF InRow
  <2>4. Kept(into)
    BY <1>1, <2>2, <2>3, NoTable DEF Kept, Restored, Fresh, Belongs
  <2>5. request' = [request EXCEPT ![t] = into]
    BY <1>3 DEF StartDump
  <2>6. UNCHANGED <<cells, session, page, requests>>
    BY DEF StartDump
  <2> HIDE DEF into
  <2> QED
    BY <2>2, <2>4, <2>5, <2>6, RequestStep DEF IInv, TypeOK
<1>4. CASE ~Valid(q.args)
  <2>1. /\ refused \in Requests /\ refused.pc = "render" /\ refused.args = q.args
        /\ refused.cell = q.cell /\ refused.address = q.address
        /\ refused.mode = q.mode /\ refused.table = <<>> /\ ~refused.whole
    BY <1>1, <1>2 DEF Requests
  <2>2. Kept(refused)
    BY <1>1, <2>1, NoTable DEF Kept, Restored, Fresh, InRow, Belongs
  <2> QED
    BY <1>4, <2>1, <2>2, RequestStep DEF StartDump, IInv, TypeOK
<1> QED
  BY <1>3, <1>4

(* What a turn of the loop reads: cells of one row, up to the end of it    *)
(* or of the dump.                                                         *)
LEMMA RowRead ==
  ASSUME NEW cur \in Nat, NEW stop \in Nat, cur <= stop
  PROVE  /\ Count(cur, stop) \in 1 .. stop - cur + 1
         /\ Count(cur, stop) <= ToRowEnd(cur)
         /\ cur + Count(cur, stop) > stop => cur + Count(cur, stop) = stop + 1
         /\ cur + Count(cur, stop) <= stop =>
              /\ (cur + Count(cur, stop)) % RowLength = 0
              /\ RowOf(cur) + RowLength = RowOf(cur + Count(cur, stop))
<1>1. /\ cur + ToRowEnd(cur) = RowOf(cur) + RowLength
      /\ (cur + ToRowEnd(cur)) % RowLength = 0
      /\ RowOf(cur + ToRowEnd(cur)) = cur + ToRowEnd(cur)
      /\ ToRowEnd(cur) \in Nat \ {0}
  BY RowsMeet
<1>2. CASE cur + ToRowEnd(cur) > stop
  BY <1>1, <1>2 DEF Count
<1>3. CASE ~(cur + ToRowEnd(cur) > stop)
  <2>1. Count(cur, stop) = ToRowEnd(cur)
    BY <1>3 DEF Count
  <2> QED
    BY <1>1, <1>3, <2>1
<1> QED
  BY <1>2, <1>3

(* The device gives the cells that are due, from its end on the first ones.*)
LEMMA CellsRead ==
  ASSUME NEW cur \in Nat, NEW j \in Nat
  PROVE  (Wire(cur, DumpMode(cur)) + j) % Limit = (cur + j) % Limit
<1>1. ByteLimit \in Nat \ {0} /\ Limit \in Nat \ {0}
  BY I2CFormAssumption
<1>2. CASE cur < ByteLimit
  <2>1. cur % ByteLimit = cur
    BY <1>1, <1>2, SmallRemainder
  <2> QED
    BY <1>2, <2>1 DEF Wire, DumpMode
<1>3. CASE ~(cur < ByteLimit)
  <2>1. Wire(cur, DumpMode(cur)) = cur % Limit
    BY <1>3 DEF Wire, DumpMode
  <2>2. ((cur % Limit) + j) % Limit = (cur + j) % Limit
    <3>1. cur \in Int /\ j \in Int
      OBVIOUS
    <3> QED
      BY <1>1, <3>1, RemainderOfSum, Zenon
  <2> QED
    BY <2>1, <2>2, Zenon
<1> QED
  BY <1>2, <1>3

(* An entry is one of the table's.                                         *)
LEMMA EntryType ==
  ASSUME NEW address \in Nat, NEW start \in Nat
  PROVE  Entry(address, start) \in Entries
<1>1. RowOf(address) \in Nat
  BY RowsMeet
<1>2. address % RowLength \in 0 .. RowLength - 1
  BY I2CFormAssumption, Remainder
<1>3. address % Limit \in Device
  BY I2CFormAssumption, Remainder DEF Device
<1> QED
  BY <1>1, <1>2, <1>3 DEF Entry, Entries

Tables == Seq(Entries)

(* A table has the addresses from first on, of a dump that begins at start.*)
Named(table, first, start) ==
  \A i \in 1 .. Len(table) : table[i] = Entry(first + i - 1, start)

(* A row joins the table at the address that is due.                       *)
LEMMA Joined ==
  ASSUME NEW start \in Nat, NEW s \in Tables, NEW row \in Tables,
         Named(s, start, start), Named(row, start + Len(s), start)
  PROVE  /\ s \o row \in Tables
         /\ Len(s \o row) = Len(s) + Len(row)
         /\ Named(s \o row, start, start)
<1>1. s \o row \in Tables /\ Len(s \o row) = Len(s) + Len(row)
  BY ConcatProperties DEF Tables
<1>2. ASSUME NEW i \in 1 .. Len(s) + Len(row)
      PROVE  (s \o row)[i] = Entry(start + i - 1, start)
  <2>1. (s \o row)[i] = IF i <= Len(s) THEN s[i] ELSE row[i - Len(s)]
    BY ConcatProperties, Zenon DEF Tables
  <2>2. Len(s) \in Nat /\ Len(row) \in Nat
    BY DEF Tables
  <2>3. CASE i <= Len(s)
    <3>1. i \in 1 .. Len(s)
      BY <2>2, <2>3
    <3> QED
      BY <2>1, <2>3, <3>1 DEF Named
  <2>4. CASE ~(i <= Len(s))
    <3>1. /\ i - Len(s) \in 1 .. Len(row)
          /\ start + Len(s) + (i - Len(s)) - 1 = start + i - 1
      BY <2>2, <2>4
    <3> QED
      BY <2>1, <2>4, <3>1 DEF Named
  <2> QED
    BY <2>3, <2>4
<1> QED
  BY <1>1, <1>2 DEF Named

(* The entries of a turn are those of its addresses: they have one label,  *)
(* and the base that goes with it.                                         *)
LEMMA RowExact ==
  ASSUME NEW cur \in Nat, NEW start \in Nat, NEW label, NEW base,
         label = RowOf(cur), base = IF label = RowOf(start) THEN 10 ELSE 16,
         NEW i \in Nat \ {0}, i <= ToRowEnd(cur)
  PROVE  [label |-> label, base |-> base, column |-> (cur % RowLength) + i - 1,
          cell |-> (Wire(cur, DumpMode(cur)) + i - 1) % Limit]
           = Entry(cur + i - 1, start)
<1> DEFINE j == i - 1
           wire == Wire(cur, DumpMode(cur))
           r == cur % RowLength
<1>1. j \in Nat /\ j < ToRowEnd(cur)
  <2>1. ToRowEnd(cur) \in Nat
    BY RowsMeet
  <2> QED
    BY <2>1
<1>2. wire \in Int /\ r \in Int
  <2>1. wire \in Int
    BY I2CFormAssumption, Remainder DEF Wire
  <2>2. r \in Int
    BY I2CFormAssumption, Remainder
  <2> QED
    BY <2>1, <2>2
<1>3. RowOf(cur + j) = RowOf(cur) /\ (cur + j) % RowLength = r + j
  BY <1>1, InsideRow
<1>4. (wire + j) % Limit = (cur + j) % Limit
  BY <1>1, CellsRead
<1> HIDE DEF wire, r
<1>5. r + i - 1 = r + j /\ wire + i - 1 = wire + j /\ cur + i - 1 = cur + j
  BY <1>2
<1>6. base = IF RowOf(cur + j) = RowOf(start) THEN 10 ELSE 16
  BY <1>3
<1> HIDE DEF j
<1>7. [label |-> label, base |-> base, column |-> r + i - 1,
       cell |-> (wire + i - 1) % Limit] = Entry(cur + i - 1, start)
  BY <1>3, <1>4, <1>5, <1>6, Zenon DEF Entry
<1> QED
  BY <1>7 DEF wire, r

(* What a turn leaves of a request.                                        *)
Turned(q, pc, cur, label, base, table, whole) ==
  [q EXCEPT !.pc = pc, !.cur = cur, !.label = label, !.base = base,
            !.table = table, !.whole = whole]

LEMMA TurnType ==
  ASSUME NEW q \in Requests, NEW pc \in {"row", "render"}, NEW cur \in Nat,
         NEW label \in Nat, NEW base \in {10, 16}, NEW table \in Tables,
         NEW whole \in BOOLEAN, NEW r,
         r = Turned(q, pc, cur, label, base, table, whole)
  PROVE  /\ r \in Requests /\ r.pc = pc /\ r.cur = cur /\ r.label = label
         /\ r.base = base /\ r.table = table /\ r.whole = whole /\ r.args = q.args
         /\ r.cell = q.cell /\ r.address = q.address /\ r.mode = q.mode
BY DEF Turned, Requests, Tables

(* A turn of the loop adds the row that is due, and no more.               *)
LEMMA DumpRowKeeps ==
  ASSUME IInv, NEW t \in Tabs, DumpRow(t)
  PROVE  IInv'
<1> DEFINE q == request[t]
           start == q.args.start
           stop == q.args.stop
           cur == q.cur
           count == Count(cur, stop)
           first == Wire(cur, DumpMode(cur))
           read == [i \in 1 .. count |->
                      [label |-> q.label, base |-> q.base,
                       column |-> (cur % RowLength) + i - 1,
                       cell |-> (first + i - 1) % Limit]]
           row == [i \in 1 .. count |-> Entry(cur + i - 1, start)]
           done == cur + count > stop
           next == ~done /\ (cur + count) % RowLength = 0
           label == IF next THEN RowOf(cur) + RowLength ELSE q.label
           base == IF next THEN 16 ELSE q.base
           r == [q EXCEPT !.pc = IF done THEN "render" ELSE "row",
                          !.cur = cur + count, !.label = label, !.base = base,
                          !.table = q.table \o row, !.whole = done]
<1>1. q \in Requests /\ Kept(q) /\ q.args \in Gives /\ q.pc = "row"
  BY InHand DEF DumpRow
<1>2. /\ start \in Nat /\ stop \in Nat
      /\ cur \in start .. stop /\ cur \in Nat
      /\ q.label = RowOf(cur) /\ q.label >= RowOf(start)
      /\ q.base = IF q.label = RowOf(start) THEN 10 ELSE 16
      /\ Len(q.table) = cur - start /\ q.table \in Tables
  <2>1. Valid(q.args) /\ InRow(q)
    BY <1>1 DEF Kept, InRow
  <2>2. start \in Nat /\ stop \in Nat
    BY <1>1, <2>1 DEF Valid, Gives, None
  <2> QED
    BY <1>1, <2>1, <2>2 DEF InRow, Requests, Tables
<1>3. /\ count \in 1 .. stop - cur + 1 /\ count <= ToRowEnd(cur)
      /\ done => cur + count = stop + 1
      /\ ~done => /\ (cur + count) % RowLength = 0
                  /\ RowOf(cur) + RowLength = RowOf(cur + count)
  <2>1. cur <= stop
    BY <1>2
  <2>2. cur \in Nat /\ stop \in Nat
    BY <1>2
  <2> HIDE DEF cur, stop
  <2>3. /\ Count(cur, stop) \in 1 .. stop - cur + 1
        /\ Count(cur, stop) <= ToRowEnd(cur)
        /\ cur + Count(cur, stop) > stop => cur + Count(cur, stop) = stop + 1
        /\ cur + Count(cur, stop) <= stop =>
             /\ (cur + Count(cur, stop)) % RowLength = 0
             /\ RowOf(cur) + RowLength = RowOf(cur + Count(cur, stop))
    BY <2>1, <2>2, RowRead
  <2>4. count = Count(cur, stop)
    OBVIOUS
  <2> HIDE DEF count
  <2> QED
    BY <2>2, <2>3, <2>4
<1> HIDE DEF count
<1>4. read = row
  <2>1. ToRowEnd(cur) \in Nat
    BY <1>2, RowsMeet
  <2>2. ASSUME NEW i \in 1 .. count
        PROVE  [label |-> q.label, base |-> q.base,
                column |-> (cur % RowLength) + i - 1,
                cell |-> (first + i - 1) % Limit] = Entry(cur + i - 1, start)
    <3>1. i \in Nat \ {0} /\ i <= ToRowEnd(cur)
      BY <1>3, <2>1
    <3>2. cur \in Nat /\ start \in Nat /\ q.label = RowOf(cur)
          /\ q.base = IF q.label = RowOf(start) THEN 10 ELSE 16
      BY <1>2
    <3> DEFINE label0 == q.label
               base0 == q.base
    <3> HIDE DEF q, cur, start, label0, base0
    <3>3. label0 = RowOf(cur) /\ base0 = IF label0 = RowOf(start) THEN 10 ELSE 16
      BY <3>2 DEF label0, base0
    <3>4. [label |-> label0, base |-> base0,
           column |-> (cur % RowLength) + i - 1,
           cell |-> (Wire(cur, DumpMode(cur)) + i - 1) % Limit] = Entry(cur + i - 1, start)
      BY <3>1, <3>2, <3>3, RowExact
    <3> QED
      BY <3>4 DEF label0, base0
  <2> QED
    BY <2>2, Zenon
<1>5. request' = [request EXCEPT ![t] = r]
  BY <1>4 DEF DumpRow, count
<1>6. Valid(q.args) /\ Named(q.table, start, start)
  BY <1>1 DEF Kept, InRow, Exact, Named
<1> HIDE DEF cur, start, stop, first
<1>7. row \in Tables /\ Len(row) = count /\ Named(row, cur, start)
  <2>1. ASSUME NEW i \in 1 .. count PROVE Entry(cur + i - 1, start) \in Entries
    <3>1. cur + i - 1 \in Nat
      BY <1>2, <1>3
    <3> QED
      BY <1>2, <3>1, EntryType
  <2> QED
    BY <1>3, <2>1 DEF Named, Tables
<1> HIDE DEF row
<1> DEFINE table == q.table \o row
<1>8. table \in Tables /\ Len(table) = cur - start + count /\ Named(table, start, start)
  <2>1. start + Len(q.table) = cur /\ start \in Nat
    BY <1>2
  <2>2. Len(q.table) = cur - start /\ q.table \in Tables
    BY <1>2
  <2> HIDE DEF q
  <2> QED
    BY <1>6, <1>7, <2>1, <2>2, Joined
<1> HIDE DEF table
<1>9. /\ cur + count \in Nat
      /\ ~done => cur + count \in start .. stop
      /\ label \in Nat /\ base \in {10, 16}
      /\ ~done => /\ label = RowOf(cur + count)
                  /\ label >= RowOf(start)
                  /\ base = IF label = RowOf(start) THEN 10 ELSE 16
  <2>1. q.label \in Nat /\ q.base \in {10, 16}
    BY <1>1 DEF Requests
  <2> HIDE DEF q
  <2>2. cur + count \in Nat /\ (~done => cur + count \in start .. stop)
    BY <1>2, <1>3
  <2>3. CASE done
    BY <2>1, <2>2, <2>3
  <2>4. CASE ~done
    <3>1. next /\ RowOf(cur) + RowLength = RowOf(cur + count)
      BY <1>3, <2>4
    <3>2. label = RowOf(cur) + RowLength /\ base = 16
      BY <3>1
    <3>3. RowOf(cur) \in Nat /\ RowOf(start) \in Nat /\ RowOf(cur) >= RowOf(start)
      BY <1>2, RowsMeet
    <3> HIDE DEF label, base, next
    <3>4. label \in Nat /\ label > RowOf(start)
      BY <3>2, <3>3, I2CFormAssumption
    <3>5. label # RowOf(start) /\ label >= RowOf(start)
      BY <3>3, <3>4
    <3> QED
      BY <2>2, <2>4, <3>1, <3>2, <3>4, <3>5
  <2> QED
    BY <2>3, <2>4
<1> DEFINE pc == IF done THEN "render" ELSE "row"
<1>10. pc \in {"row", "render"} /\ (pc = "row" <=> ~done) /\ done \in BOOLEAN
  OBVIOUS
<1> HIDE DEF label, base, pc
<1>11. /\ r \in Requests /\ r.pc = pc /\ r.cur = cur + count /\ r.label = label
       /\ r.base = base /\ r.table = table /\ r.whole = done /\ r.args = q.args
       /\ r.cell = q.cell /\ r.address = q.address /\ r.mode = q.mode
  <2> DEFINE end == done
             due == cur + count
  <2>1. r = Turned(q, pc, due, label, base, table, end)
    BY DEF pc, table, Turned
  <2>2. end \in BOOLEAN
    BY <1>10
  <2>3. q \in Requests /\ pc \in {"row", "render"} /\ due \in Nat
        /\ label \in Nat /\ base \in {10, 16} /\ table \in Tables
    BY <1>1, <1>8, <1>9, <1>10
  <2> HIDE DEF end, due, q, r, read
  <2>4. /\ r \in Requests /\ r.pc = pc /\ r.cur = due /\ r.label = label
        /\ r.base = base /\ r.table = table /\ r.whole = end /\ r.args = q.args
        /\ r.cell = q.cell /\ r.address = q.address /\ r.mode = q.mode
    BY <2>1, <2>2, <2>3, TurnType
  <2> QED
    BY <2>4 DEF end, due
<1>12. r.args.start = start /\ r.args.stop = stop
  BY <1>11 DEF start, stop
<1> HIDE DEF r
<1>13. Exact(r)
  <2>1. Len(table) <= stop - start + 1 /\ (done => Len(table) = stop - start + 1)
    BY <1>2, <1>3, <1>8
  <2> QED
    BY <1>8, <1>11, <1>12, <2>1 DEF Exact, Named
<1>14. InRow(r)
  <2>1. SUFFICES ASSUME r.pc = "row" PROVE InRow(r)
    BY DEF InRow
  <2>2. ~done
    BY <1>10, <1>11, <2>1
  <2>3. Len(table) = (cur + count) - start
    BY <1>2, <1>3, <1>8
  <2>4. /\ cur + count \in start .. stop
        /\ label = RowOf(cur + count) /\ label >= RowOf(start)
        /\ base = IF label = RowOf(start) THEN 10 ELSE 16
    BY <1>9, <2>2
  <2>5. Valid(r.args) /\ ~r.whole
    BY <1>6, <1>11, <2>2
  <2>6. r.cur = cur + count /\ r.label = label /\ r.base = base /\ r.table = table
    BY <1>11
  <2> HIDE DEF q, read, done, next
  <2>7. r.cur \in r.args.start .. r.args.stop
    BY <1>12, <2>4, <2>6, Zenon
  <2>8. r.label = RowOf(r.cur) /\ r.label >= RowOf(r.args.start)
    BY <1>12, <2>4, <2>6, Zenon
  <2>9. r.base = IF r.label = RowOf(r.args.start) THEN 10 ELSE 16
    BY <1>12, <2>4, <2>6, Zenon
  <2>10. Len(r.table) = r.cur - r.args.start
    BY <1>12, <2>3, <2>6, Zenon
  <2> QED
    BY <2>5, <2>7, <2>8, <2>9, <2>10, Zenon DEF InRow
<1>15. Kept(r)
  BY <1>1, <1>10, <1>11, <1>13, <1>14 DEF Kept, Restored, Fresh, Belongs
<1> QED
  BY <1>5, <1>11, <1>15, RequestStep DEF DumpRow, IInv, TypeOK

(* A dump that fails leaves the rows it has.                               *)
LEMMA DumpFailsKeeps ==
  ASSUME IInv, NEW t \in Tabs, DumpFails(t)
  PROVE  IInv'
<1> DEFINE q == request[t]
           r == [q EXCEPT !.pc = "render"]
<1>1. q \in Requests /\ Kept(q) /\ q.pc = "row"
  BY InHand DEF DumpFails
<1>2. /\ r \in Requests /\ r.pc = "render" /\ r.args = q.args /\ r.cell = q.cell
      /\ r.address = q.address /\ r.mode = q.mode
      /\ r.table = q.table /\ r.whole = q.whole
  BY <1>1 DEF Requests
<1>3. request' = [request EXCEPT ![t] = r]
  BY DEF DumpFails
<1> HIDE DEF r
<1>4. Kept(r)
  BY <1>1, <1>2 DEF Kept, Restored, Fresh, InRow, Belongs, Exact
<1> QED
  BY <1>2, <1>3, <1>4, RequestStep DEF DumpFails, IInv, TypeOK

(* The page shows what the request has in hand.                            *)
LEMMA RenderKeeps ==
  ASSUME IInv, NEW t \in Tabs, Render(t)
  PROVE  IInv'
<1>1. request[t] \in Requests /\ Kept(request[t])
  BY InHand
<1>2. page' \in [Tabs -> Requests] /\ request' \in [Tabs -> Requests]
  BY <1>1, NothingAsked DEF Render, IInv, TypeOK
<1>3. TypeOK'
  BY <1>2 DEF Render, IInv, TypeOK
<1>4. \A u \in Tabs : Kept(request'[u])
  BY NothingAsked DEF Render, IInv, TypeOK
<1>5. \A u \in Tabs : Belongs(page'[u]) /\ Exact(page'[u])
  BY <1>1 DEF Render, Kept, IInv, TypeOK, ValueBelongsToAddress, DumpExact
<1> QED
  BY <1>3, <1>4, <1>5 DEF IInv, ValueBelongsToAddress, DumpExact

-----------------------------------------------------------------------------
(* IInv is inductive.                                                      *)
LEMMA NextIInv == IInv /\ [Next]_vars => IInv'
<1> SUFFICES ASSUME IInv, [Next]_vars PROVE IInv'
  OBVIOUS
<1>1. CASE UNCHANGED vars
  BY <1>1 DEF vars, IInv, TypeOK, ValueBelongsToAddress, DumpExact
<1>2. CASE Next
  BY <1>2, AskKeeps, RestoreKeeps, ReadCellKeeps, WriteCellsKeeps, TransferFailsKeeps,
     NothingToHandleKeeps, StartDumpKeeps, DumpRowKeeps, DumpFailsKeeps, RenderKeeps
     DEF Next, Works
<1> QED
  BY <1>1, <1>2

(* What every request has in hand, and every page shows, as IInv says.     *)
THEOREM Invariance == Spec => []IInv
BY InitIInv, NextIInv, PTL DEF Spec

(* Every variable keeps its type; what a dump shows is in the device.      *)
THEOREM TypeCorrect == Spec => []TypeOK
<1>1. IInv => TypeOK
  BY DEF IInv
<1> QED
  BY <1>1, Invariance, PTL

(* A value from the bus is shown next to its own address and mode.         *)
THEOREM ValuesBelong == Spec => []ValueBelongsToAddress
<1>1. IInv => ValueBelongsToAddress
  BY DEF IInv
<1> QED
  BY <1>1, Invariance, PTL

(* Dumps have every address of their range once and in order, in its row   *)
(* and column, with its own content; the first row's label is decimal, all *)
(* others are hex; a range beyond the device starts again at its first     *)
(* cell.                                                                   *)
THEOREM DumpsExact == Spec => []DumpExact
<1>1. IInv => DumpExact
  BY DEF IInv
<1> QED
  BY <1>1, Invariance, PTL

-----------------------------------------------------------------------------
(* A write, a part of one too, changes cells that were meant.              *)
LEMMA StoredAsMeant ==
  ASSUME IInv, NEW t \in Tabs, Handling(t, "Write"), NEW bytes \in Seq(Byte),
         Len(bytes) <= Len(Written(request[t].args)),
         cells' = Store(Wire(request[t].args.address, request[t].args.mode), bytes),
         NEW c \in Device, cells'[c] # cells[c], Fits(request[t].args)
  PROVE  c \in Meant(request[t].args)
<1> DEFINE args == request[t].args
<1>1. args \in Gives /\ args.mode \in Modes
  BY InHand DEF Handling
<1>2. args.address \in Device /\ args.address # None
  BY <1>1 DEF Fits, Gives
<1>3. args.mode = 2 \/ (args.mode = 1 /\ args.address \in 0 .. ByteLimit - 1)
  BY <1>1, <1>2, I2CFormAssumption DEF Fits, Modes, Device
<1>4. Wire(args.address, args.mode) = args.address
  BY <1>1, <1>2, <1>3, WireCell
<1>5. c >= args.address /\ c < args.address + Len(bytes)
  BY <1>2, <1>4, StoreType DEF IInv
<1>6. Len(Written(args)) <= 1 + (IF args.length = None THEN 0 ELSE args.length)
  BY <1>1, WrittenBytes
<1>7. Written(args) \in Seq(Byte) /\ (args.length # None => args.length \in Nat)
  BY <1>1, WrittenBytes, I2CFormAssumption DEF Gives
<1>8. Len(bytes) \in Nat /\ Len(Written(args)) \in Nat /\ c \in Int /\ args.address \in Int
  BY <1>2, <1>7, I2CFormAssumption DEF Device
<1> QED
  BY <1>5, <1>6, <1>7, <1>8 DEF Meant

(* Only writes change the device, and in cells that were meant.            *)
LEMMA NextAsAsked ==
  ASSUME IInv, [Next]_vars, NEW c \in Device, cells'[c] # cells[c]
  PROVE  \E t \in Tabs :
           /\ Handling(t, "Write")
           /\ Fits(request[t].args) => c \in Meant(request[t].args)
<1>0. ASSUME NEW t \in Tabs,
             \/ \E args \in Asked : Ask(t, args)
             \/ Restore(t) \/ ReadCell(t) \/ NothingToHandle(t)
             \/ StartDump(t) \/ DumpRow(t) \/ DumpFails(t) \/ Render(t)
      PROVE  cells' = cells
  <2>1. StartDump(t) => cells' = cells
    BY DEF StartDump
  <2>2. DumpRow(t) => cells' = cells
    BY DEF DumpRow
  <2> QED
    BY <1>0, <2>1, <2>2 DEF Ask, Restore, ReadCell, NothingToHandle, DumpFails, Render
<1>1. PICK t \in Tabs : WriteCells(t) \/ TransferFails(t)
  BY <1>0 DEF Next, Works, vars
<1> DEFINE args == request[t].args
           cell == Wire(args.address, args.mode)
<1>2. Handling(t, "Write")
  BY <1>1 DEF WriteCells, TransferFails
<1>3. Written(args) \in Seq(Byte)
  BY InHand, WrittenBytes
<1>4. CASE WriteCells(t)
  BY <1>2, <1>3, <1>4, StoredAsMeant DEF WriteCells
<1>5. CASE TransferFails(t)
  <2>1. PICK n \in 0 .. Len(Written(args)) : cells' = Store(cell, SubSeq(Written(args), 1, n))
    BY <1>2, <1>5 DEF TransferFails, Handling
  <2> QED
    BY <1>2, <1>3, <2>1, PartType, StoredAsMeant
<1> QED
  BY <1>1, <1>4, <1>5

(* The device changes only in cells that a request in work asked to write. *)
THEOREM ChangesAsAsked == Spec => CellsChangeAsAsked
<1>1. IInv /\ [Next]_vars =>
        [\A c \in Device :
           cells'[c] # cells[c] =>
             \E t \in Tabs :
               /\ Handling(t, "Write")
               /\ Fits(request[t].args) => c \in Meant(request[t].args)]_vars
  BY NextAsAsked
<1> QED
  BY <1>1, Invariance, PTL DEF Spec, CellsChangeAsAsked
=============================================================================
