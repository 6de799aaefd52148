----------------------------- MODULE BoardWatch -----------------------------
(***************************************************************************)
(* What the gateway promises about its list of slaves, without threads,    *)
(* locks, lookups or counters: it follows the I2C bus scan by scan.  Every *)
(* scan judges every board exactly once, by one picture of the bus.  A     *)
(* board gets its entry after a scan that saw it, and loses it after a     *)
(* scan that missed it, if that was the last of enough in a row.  Entries  *)
(* that are not boards' are made once and stay.                            *)
(*                                                                         *)
(* Module Registry implements this specification.                          *)
(***************************************************************************)
EXTENDS Naturals

CONSTANTS
  Boards,      \* the addresses that are scanned
  Others,      \* the other addresses of the list
  KindsAt,     \* the kinds of slaves that may be at each address
  Patience,    \* how many misses in a row cost a board its entry
  Cap          \* bound: where misses are no longer counted

VARIABLES
  bus,         \* the boards that are there
  seen,        \* the boards that the latest scan saw
  open,        \* the boards that the latest scan has still to judge
  misses,      \* how many scans in a row have missed each board
  entries      \* the kind of slave at each address, or "none"

vars == <<bus, seen, open, misses, entries>>

Init ==
  /\ bus = {}
  /\ seen = {}
  /\ open = {}
  /\ misses = [b \in Boards |-> 0]
  /\ entries = [a \in Boards \cup Others |-> "none"]

(* Boards are plugged in and pulled out at any time.                       *)
BusChanges ==
  /\ bus' \subseteq Boards
  /\ UNCHANGED <<seen, open, misses, entries>>

Scan ==
  /\ open = {}
  /\ seen' = bus
  /\ open' = Boards
  /\ UNCHANGED <<bus, misses, entries>>

Judge(b) ==
  /\ b \in open
  /\ open' = open \ {b}
  /\ misses' = [misses EXCEPT ![b] = IF b \in seen THEN 0
                                     ELSE IF @ < Cap THEN @ + 1 ELSE @]
  /\ UNCHANGED <<bus, seen, entries>>

(* An address without an entry gets one that fits it.                      *)
Enter(a) ==
  /\ entries[a] = "none"
  /\ \E kind \in KindsAt[a] : entries' = [entries EXCEPT ![a] = kind]
  /\ UNCHANGED <<bus, seen, open, misses>>

EnterBoard(b) ==
  /\ b \in seen \ open
  /\ Enter(b)

LeaveBoard(b) ==
  /\ b \notin seen \cup open
  /\ misses[b] >= Patience
  /\ entries[b] # "none"
  /\ entries' = [entries EXCEPT ![b] = "none"]
  /\ UNCHANGED <<bus, seen, open, misses>>

Next ==
  \/ BusChanges
  \/ Scan
  \/ \E b \in Boards : Judge(b) \/ EnterBoard(b) \/ LeaveBoard(b)
  \/ \E a \in Others : Enter(a)

Spec == Init /\ [][Next]_vars
=============================================================================
