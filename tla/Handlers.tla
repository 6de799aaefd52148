------------------------------ MODULE Handlers ------------------------------
(***************************************************************************)
(* The handlers that serve the registers of a slave, as far as a query can *)
(* tell them apart: which accesses they accept and how many registers they *)
(* report as done.                                                         *)
(*                                                                         *)
(* A handler is a record:                                                  *)
(*   class - "MultiByte", "HolReg", "HolRegRO", "Version", "Data" (all on  *)
(*           the I2C bus), or "Register" (MultiRegisterHandler, whose      *)
(*           storage is the Modbus mapping itself);                        *)
(*   wide  - 16 bit I2C addresses instead of 8 bit ones;                   *)
(*   fixed - m_byte_count or m_register_count; negative: as requested.     *)
(* fc is "holding" or "input" for reads, "single" or "multiple" for writes.*)
(***************************************************************************)
EXTENDS Integers

CONSTANTS
  Limit,      \* number of values of uint16_t
  ByteLimit   \* number of values of uint8_t, the 8 bit I2C addresses

ASSUME HandlersAssumption ==
  /\ ByteLimit \in Nat \ {0}
  /\ Limit \in Nat
  /\ Limit > ByteLimit

U16(n) == n % Limit

(* MBHandlerInt::setRange and checkRange (external).                       *)
Interval(first, last) == [first |-> first, last |-> last]
CheckRange(range, address, count) ==
  range.first <= address /\ address + count - 1 <= range.last

ByteCount(h, count) == IF h.fixed < 0 THEN U16(2 * count) ELSE h.fixed

(* The registers a handler transfers, and reports, when it accepts.        *)
Done(h, count) ==
  IF h.class = "Register"
  THEN IF h.fixed < 0 THEN count ELSE h.fixed
  ELSE ByteCount(h, count) \div 2 + (ByteCount(h, count) % 2)

(* Mutation: bytes are compared with registers.                            *)
FitsInBytes(h, address, count, size) == address + ByteCount(h, count) <= size

(* The size check before the mapping is accessed.                          *)
Fits(h, address, count, size) ==
  IF h.class = "Register"
  THEN address + Done(h, count) <= size
  ELSE address + ByteCount(h, count) \div 2 <= size

(* An 8 bit handler cannot address a byte beyond the first 256.            *)
Addressable(h, address) == h.wide \/ U16(2 * address) < ByteLimit

Even(n) == n % 2 = 0

(* What a class demands of a read on top of that.  VersionHandler is read  *)
(* as a whole, DataHandler in pairs of registers within its range.         *)
ReadRule(h, address, count, range) ==
  CASE h.class = "Version" ->
         /\ CheckRange(range, address, count)
         /\ count = range.last - range.first + 1
    [] h.class = "Data" ->
         /\ Even(address)
         /\ Even(count)
         /\ CheckRange(range, address, count)
    [] OTHER -> TRUE

(* Mutation: the size of the mapping is not checked.                       *)
AcceptsReadBeyond(h, fc, address, count, range, size) ==
  /\ ReadRule(h, address, count, range)
  /\ Addressable(h, address)

AcceptsRead(h, fc, address, count, range, size) ==
  /\ fc = "input" => h.class \in {"MultiByte", "Data", "Register"}
  /\ ReadRule(h, address, count, range)
  /\ Fits(h, address, count, size)
  /\ Addressable(h, address)

(* Mutation: HoldingRegisterHandler_RO inherits the write access.          *)
ReadOnlyVersion(h) == h.class = "Version"

ReadOnly(h) == h.class \in {"HolRegRO", "Version"}

(* checkWriteAccess looks at neither the size nor the bus.  DataHandler    *)
(* has already set its range to that of the virtual data.                  *)
AcceptsCheck(h, address, count, range) ==
  /\ ~ReadOnly(h)
  /\ h.class = "Data" =>
       /\ Even(address)
       /\ Even(count)
       /\ CheckRange(range, address, count)

(* Mutation: what modbus_reply has stored is taken to fit.                 *)
AcceptsWriteBeyond(h, fc, address, count, size) ==
  /\ ~ReadOnly(h)
  /\ Addressable(h, address)

(* handleWriteAccess, before it sends anything.  MultiRegisterHandler has  *)
(* no case for a single register: it falls through to "nothing done".      *)
AcceptsWrite(h, fc, address, count, size) ==
  /\ ~ReadOnly(h)
  /\ Addressable(h, address)
  /\ fc = "multiple" => Fits(h, address, count, size)
  /\ h.class = "Register" => fc = "multiple"
=============================================================================
