---------------------------- MODULE LayoutsProofs ----------------------------
(***************************************************************************)
(* The layouts that init() of the three kinds of slave builds are among    *)
(* those that the theorems about module Query are for, whatever the header *)
(* of the IO board says its addresses are and however many pins a board    *)
(* has, as long as the areas of the header have room for them.             *)
(***************************************************************************)
EXTENDS Layouts, Query, TLAPS

-----------------------------------------------------------------------------
(* Half of 16 bits.                                                        *)
LEMMA HalfLimit == Limit \in Nat /\ Limit \div 2 \in Nat /\ Limit \div 2 < Limit
BY HandlersAssumption, WidthsAssumption

(* A product of two naturals is one.                                       *)
LEMMA ProductNat == \A m, n \in Nat : m * n \in Nat
OBVIOUS

(* The addresses of the header are naturals.                               *)
LEMMA HeaderNat ==
  /\ VERSION_START \in Nat /\ VERSION_LENGTH \in Nat
  /\ VIRTUAL_IO_COUNT \in Nat /\ VIRTUAL_IO_START \in Nat
  /\ VIRTUAL_DATA_START \in Nat /\ VIRTUAL_DATA_LENGTH \in Nat
  /\ I2C_BUFFER_SIZE \in Nat /\ EEPROM_SIZE \in Nat
  /\ EEPROM_FUNC_START \in Nat /\ EEPROM_NAME_START \in Nat
  /\ IO_BOARD_MAX_IO_PIN_NAME_LENGTH \in Nat
  /\ EEPROM_DATA_START \in Nat /\ EEPROM_DATA_LENGTH \in Nat
  /\ EEPROM_SHARED_DATA_START \in Nat /\ EEPROM_SHARED_DATA_LENGTH \in Nat
  /\ IOBOARD_MAX_IO_PINS \in Nat
BY LayoutsAssumption

(* Fewer pins need less room: a header that is made for the largest board  *)
(* is for every other one, too.                                            *)
LEMMA RoomForFewer ==
  ASSUME NEW pins \in Nat, NEW fewer \in 0 .. pins, HasRoomFor(pins)
  PROVE  HasRoomFor(fewer)
<1>1. ASSUME NEW n \in Nat PROVE fewer * n <= pins * n
  OBVIOUS
<1>2. /\ VIRTUAL_DATA_LENGTH \div 2 \in Nat /\ EEPROM_DATA_LENGTH \div 2 \in Nat
      /\ IO_BOARD_MAX_IO_PIN_NAME_LENGTH \div 2 \in Nat
  BY HeaderNat
<1>3. /\ fewer * (VIRTUAL_DATA_LENGTH \div 2) <= pins * (VIRTUAL_DATA_LENGTH \div 2)
      /\ fewer * (EEPROM_DATA_LENGTH \div 2) <= pins * (EEPROM_DATA_LENGTH \div 2)
      /\ fewer * (IO_BOARD_MAX_IO_PIN_NAME_LENGTH \div 2)
           <= pins * (IO_BOARD_MAX_IO_PIN_NAME_LENGTH \div 2)
  BY <1>1, <1>2
<1> QED
  BY <1>2, <1>3, HeaderNat, ProductNat
  DEF HasRoomFor, TmpDataFirst, FuncFirst, NameFirst, PermDataFirst, SharedFirst

-----------------------------------------------------------------------------
(* The IO board.                                                           *)

(* Its single registers, from the first to the last.                       *)
LEMMA RamRegisters ==
  /\ 1 < VERSION_START \div 2
  /\ VERSION_START \div 2 < VIRTUAL_IO_COUNT \div 2
  /\ VIRTUAL_IO_COUNT \div 2 < VIRTUAL_IO_START \div 2
  /\ VIRTUAL_IO_START \div 2 + 1 < TmpDataFirst
  /\ TmpDataFirst <= I2C_BUFFER_SIZE \div 2
  /\ I2C_BUFFER_SIZE \div 2 < IOBoardRegisters
  /\ IOBoardRegisters \in 0 .. Limit \div 2
  /\ {VERSION_START \div 2, VIRTUAL_IO_COUNT \div 2, VIRTUAL_IO_START \div 2,
      TmpDataFirst, I2C_BUFFER_SIZE \div 2, IOBoardRegisters} \subseteq Nat
BY HeaderNat, LayoutsAssumption, WidthsAssumption, HalfLimit DEF TmpDataFirst, IOBoardRegisters

(* Its areas, one after the other.                                         *)
LEMMA Areas ==
  ASSUME NEW pins, HasRoomFor(pins)
  PROVE  /\ pins \in Nat
         /\ TmpDataFirst \in Nat /\ FuncFirst \in Nat /\ NameFirst \in Nat
         /\ PermDataFirst \in Nat /\ SharedFirst \in Nat
         /\ IOBoardBlocks(pins)[1].last \in Int
         /\ IOBoardBlocks(pins)[1].last < FuncFirst
         /\ TmpDataFirst <= FuncFirst
         /\ IOBoardBlocks(pins)[2].last \in Int
         /\ IOBoardBlocks(pins)[2].last < NameFirst
         /\ FuncFirst <= NameFirst
         /\ IOBoardBlocks(pins)[3].last \in Int
         /\ IOBoardBlocks(pins)[3].last < PermDataFirst
         /\ NameFirst <= PermDataFirst
         /\ IOBoardBlocks(pins)[4].last \in Int
         /\ IOBoardBlocks(pins)[4].last < SharedFirst
         /\ PermDataFirst <= SharedFirst
         /\ IOBoardBlocks(pins)[5].last \in Int
         /\ IOBoardBlocks(pins)[5].last < IOBoardRegisters
         /\ SharedFirst <= IOBoardRegisters
<1> DEFINE t == pins * (VIRTUAL_DATA_LENGTH \div 2)
           n == pins * (IO_BOARD_MAX_IO_PIN_NAME_LENGTH \div 2)
           d == pins * (EEPROM_DATA_LENGTH \div 2)
<1>1. /\ pins \in Nat /\ t \in Nat /\ n \in Nat /\ d \in Nat
  <2>1. /\ VIRTUAL_DATA_LENGTH \div 2 \in Nat /\ EEPROM_DATA_LENGTH \div 2 \in Nat
        /\ IO_BOARD_MAX_IO_PIN_NAME_LENGTH \div 2 \in Nat
    BY HeaderNat
  <2> QED
    BY <2>1, ProductNat DEF HasRoomFor
<1>2. /\ TmpDataFirst + t <= I2C_BUFFER_SIZE \div 2
      /\ FuncFirst + pins <= NameFirst
      /\ NameFirst + n <= PermDataFirst
      /\ PermDataFirst + d <= SharedFirst
  BY DEF HasRoomFor
<1>3. /\ IOBoardBlocks(pins)[1].last = U16(TmpDataFirst + t - 1)
      /\ IOBoardBlocks(pins)[2].last = FuncFirst + pins - 1
      /\ IOBoardBlocks(pins)[3].last = NameFirst + n - 1
      /\ IOBoardBlocks(pins)[4].last = PermDataFirst + d - 1
      /\ IOBoardBlocks(pins)[5].last = SharedFirst + EEPROM_SHARED_DATA_LENGTH - 1
  BY DEF IOBoardBlocks, Block, TmpDataLast
<1> HIDE DEF t, n, d
<1>4. /\ FuncFirst \in Nat /\ NameFirst \in Nat
      /\ PermDataFirst \in Nat /\ SharedFirst \in Nat
      /\ I2C_BUFFER_SIZE \div 2 <= FuncFirst
      /\ SharedFirst + EEPROM_SHARED_DATA_LENGTH <= IOBoardRegisters
      /\ I2C_BUFFER_SIZE \div 2 \in Nat
  BY HeaderNat, LayoutsAssumption
  DEF FuncFirst, NameFirst, PermDataFirst, SharedFirst, IOBoardRegisters
<1>5. U16(TmpDataFirst + t - 1) = TmpDataFirst + t - 1
  <2>1. TmpDataFirst + t - 1 \in 0 .. Limit - 1
    BY <1>1, <1>2, <1>4, RamRegisters, HalfLimit
  <2> QED
    BY <2>1, HalfLimit DEF U16
<1> QED
  BY <1>1, <1>2, <1>3, <1>4, <1>5, RamRegisters, HeaderNat

(* Its handlers are wide ones on the bus, ...                              *)
LEMMA BoardHandlers ==
  /\ DOMAIN IOBoardHandlers = {"HoldingRO", "Holding", "Version", "TmpData", "PermData"}
  /\ \A h \in DOMAIN IOBoardHandlers :
       /\ IOBoardHandlers[h].fixed = -1
       /\ IOBoardHandlers[h].wide
       /\ IOBoardHandlers[h].class # "Register"
  /\ IOBoardHandlers["HoldingRO"].class = "HolRegRO"
  /\ IOBoardHandlers["Version"].class = "Version"
  /\ IOBoardHandlers["Holding"].class = "HolReg"
BY DEF IOBoardHandlers, Class

(* ... its single registers are read-only up to the pin count, ...         *)
LEMMA BoardList ==
  ASSUME NEW r \in DOMAIN IOBoardList
  PROVE  /\ r \in 0 .. IOBoardRegisters - 1
         /\ \/ IOBoardList[r] \in {"HoldingRO", "Version"} /\ r <= VIRTUAL_IO_COUNT \div 2
            \/ IOBoardList[r] = "Holding" /\ r > VIRTUAL_IO_COUNT \div 2
<1>1. r \in {0, 1, VIRTUAL_IO_COUNT \div 2} \cup {VERSION_START \div 2}
              \cup {VIRTUAL_IO_START \div 2, VIRTUAL_IO_START \div 2 + 1,
                    I2C_BUFFER_SIZE \div 2}
  BY DEF IOBoardList
<1>2. IOBoardList[r] = IF r \in {0, 1, VIRTUAL_IO_COUNT \div 2} THEN "HoldingRO"
                       ELSE IF r \in {VERSION_START \div 2} THEN "Version" ELSE "Holding"
  BY <1>1 DEF IOBoardList
<1> QED
  BY <1>1, <1>2, RamRegisters

(* ... and its blocks lie above them, one after the other.                 *)
LEMMA BoardBlocks ==
  ASSUME NEW pins, HasRoomFor(pins), NEW i \in DOMAIN IOBoardBlocks(pins)
  PROVE  /\ i \in Nat
         /\ IOBoardBlocks(pins)[i].handler \in {"TmpData", "Holding", "PermData"}
         /\ IOBoardBlocks(pins)[i].first \in Nat
         /\ IOBoardBlocks(pins)[i].first >= TmpDataFirst
         /\ IOBoardBlocks(pins)[i].last \in Int
         /\ IOBoardBlocks(pins)[i].last < IOBoardRegisters
         /\ \A j \in DOMAIN IOBoardBlocks(pins) :
              i < j => IOBoardBlocks(pins)[i].last < IOBoardBlocks(pins)[j].first
<1>1. DOMAIN IOBoardBlocks(pins) = 1 .. 5
  BY DEF IOBoardBlocks
<1>2. /\ IOBoardBlocks(pins)[1].handler = "TmpData"
      /\ IOBoardBlocks(pins)[2].handler = "Holding"
      /\ IOBoardBlocks(pins)[3].handler = "Holding"
      /\ IOBoardBlocks(pins)[4].handler = "PermData"
      /\ IOBoardBlocks(pins)[5].handler = "Holding"
      /\ IOBoardBlocks(pins)[1].first = TmpDataFirst
      /\ IOBoardBlocks(pins)[2].first = FuncFirst
      /\ IOBoardBlocks(pins)[3].first = NameFirst
      /\ IOBoardBlocks(pins)[4].first = PermDataFirst
      /\ IOBoardBlocks(pins)[5].first = SharedFirst
  BY DEF IOBoardBlocks, Block
<1>3. i \in {1, 2, 3, 4, 5}
  BY <1>1
<1>4. IOBoardRegisters \in Nat
  BY RamRegisters
<1>5. ASSUME NEW j \in {1, 2, 3, 4, 5}, i < j
      PROVE  IOBoardBlocks(pins)[i].last < IOBoardBlocks(pins)[j].first
  BY <1>2, <1>3, <1>5, Areas
<1> QED
  BY <1>1, <1>2, <1>3, <1>4, <1>5, Areas

(* The parts of the layout.                                                *)
LEMMA BoardParts ==
  ASSUME NEW pins
  PROVE  /\ IOBoard(pins).handlers = IOBoardHandlers
         /\ IOBoard(pins).holding = IOBoardList
         /\ IOBoard(pins).blocks = IOBoardBlocks(pins)
         /\ IOBoard(pins).input = NoHandlers
         /\ IOBoard(pins).registers = IOBoardRegisters
         /\ IOBoard(pins).inputRegisters = 0
         /\ DOMAIN IOBoard(pins).range = DOMAIN IOBoardHandlers
<1>1. DOMAIN IOBoardRange(pins) = DOMAIN IOBoardHandlers
  BY DEF IOBoardRange, IOBoardHandlers
<1> QED
  BY <1>1 DEF IOBoard

(* IOBoard_Slave::init builds a layout that the theorems are for.          *)
LEMMA IOBoardArranged ==
  ASSUME NEW pins, HasRoomFor(pins)
  PROVE  WellFormed(IOBoard(pins)) /\ Arranged(IOBoard(pins))
<1>1. DOMAIN NoHandlers = {}
  BY DEF NoHandlers
<1> DEFINE l == IOBoard(pins)
<1>2. /\ l.handlers = IOBoardHandlers /\ l.holding = IOBoardList
      /\ l.blocks = IOBoardBlocks(pins) /\ l.input = NoHandlers
      /\ l.registers = IOBoardRegisters /\ l.inputRegisters = 0
      /\ DOMAIN l.range = DOMAIN IOBoardHandlers
  BY BoardParts
<1> HIDE DEF l
<1>3. \A i \in DOMAIN IOBoardBlocks(pins) :
        /\ i \in Nat
        /\ IOBoardBlocks(pins)[i].handler \in DOMAIN IOBoardHandlers
        /\ IOBoardBlocks(pins)[i].first \in Nat
        /\ IOBoardBlocks(pins)[i].first > VIRTUAL_IO_COUNT \div 2
        /\ IOBoardBlocks(pins)[i].last \in Int
        /\ IOBoardBlocks(pins)[i].last < IOBoardRegisters
        /\ \A j \in DOMAIN IOBoardBlocks(pins) :
             i < j => IOBoardBlocks(pins)[i].last < IOBoardBlocks(pins)[j].first
  <2> TAKE i \in DOMAIN IOBoardBlocks(pins)
  <2>1. IOBoardBlocks(pins)[i].handler \in DOMAIN IOBoardHandlers
    BY BoardBlocks, BoardHandlers
  <2>2. IOBoardBlocks(pins)[i].first > VIRTUAL_IO_COUNT \div 2
    BY BoardBlocks, RamRegisters
  <2> QED
    BY <2>1, <2>2, BoardBlocks
<1>4. \A r \in DOMAIN IOBoardList :
        /\ r \in 0 .. IOBoardRegisters - 1
        /\ IOBoardList[r] \in DOMAIN IOBoardHandlers
        /\ IOBoardHandlers[IOBoardList[r]].class \in {"HolRegRO", "Version"} =>
             r <= VIRTUAL_IO_COUNT \div 2
        /\ IOBoardHandlers[IOBoardList[r]].class \notin {"HolRegRO", "Version"} =>
             r > VIRTUAL_IO_COUNT \div 2
  BY BoardList, BoardHandlers
<1>5. WellFormed(l)
  <2>1. l.registers \in 0 .. Limit \div 2 /\ l.inputRegisters \in 0 .. Limit \div 2
    BY <1>2, RamRegisters, HalfLimit
  <2>2. \A h \in DOMAIN l.handlers : l.handlers[h].fixed \in Int
    BY <1>2, BoardHandlers
  <2>3. "none" \notin DOMAIN l.handlers
    BY <1>2, BoardHandlers
  <2>4. /\ DOMAIN l.input \subseteq Nat
        /\ \A r \in DOMAIN l.input : l.input[r] \in DOMAIN l.handlers
    BY <1>1, <1>2
  <2>5. /\ DOMAIN l.holding \subseteq 0 .. l.registers - 1
        /\ \A r \in DOMAIN l.holding : l.holding[r] \in DOMAIN l.handlers
    BY <1>2, <1>4
  <2>6. /\ DOMAIN l.blocks \subseteq Nat
        /\ \A i \in DOMAIN l.blocks :
             /\ l.blocks[i].handler \in DOMAIN l.handlers
             /\ l.blocks[i].first \in Nat
             /\ l.blocks[i].last \in Int
             /\ l.blocks[i].last < l.registers
    BY <1>2, <1>3
  <2> QED
    BY <1>2, <2>1, <2>2, <2>3, <2>4, <2>5, <2>6 DEF WellFormed
<1>6. Arranged(l)
  <2>1. \A h \in DOMAIN IOBoardHandlers :
          /\ IOBoardHandlers[h].fixed < 0
          /\ IOBoardHandlers[h].wide
          /\ IOBoardHandlers[h].class # "Register"
    BY BoardHandlers
  <2>2. ASSUME NEW r \in DOMAIN IOBoardList,
               IOBoardHandlers[IOBoardList[r]].class \in {"HolRegRO", "Version"}
        PROVE  /\ \A w \in DOMAIN IOBoardList :
                    \/ IOBoardHandlers[IOBoardList[w]].class \in {"HolRegRO", "Version"}
                    \/ r < w
               /\ \A i \in DOMAIN IOBoardBlocks(pins) : r < IOBoardBlocks(pins)[i].first
    BY <1>3, <1>4, <2>2, RamRegisters
  <2> QED
    BY <1>1, <1>2, <1>3, <1>4, <2>1, <2>2 DEF Arranged
<1> QED
  BY <1>5, <1>6 DEF l

(* A mapping of three times the registers of a query is large enough for   *)
(* the clamp to refuse the query if it runs past the end.                  *)
LEMMA IOBoardClampable ==
  ASSUME NEW pins, HasRoomFor(pins), NEW n \in Nat, 3 * n <= IOBoardRegisters
  PROVE  Clampable(IOBoard(pins), n)
<1>1. ASSUME NEW i \in DOMAIN IOBoardBlocks(pins),
             IOBoardBlocks(pins)[i].last + n > IOBoardRegisters
      PROVE  2 * n < IOBoardBlocks(pins)[i].last + 2
  BY <1>1, BoardBlocks, RamRegisters
<1> QED
  BY <1>1, BoardParts DEF Clampable

-----------------------------------------------------------------------------
(* The slaves without blocks.                                              *)

(* A layout without any handler promises nothing.                          *)
LEMMA BareArranged ==
  /\ WellFormed(BareIOBoard) /\ Arranged(BareIOBoard)
  /\ \A n \in Nat : Clampable(BareIOBoard, n)
<1>1. DOMAIN NoHandlers = {}
  BY DEF NoHandlers
<1>2. /\ BareIOBoard.handlers = NoHandlers /\ BareIOBoard.holding = NoHandlers
      /\ BareIOBoard.blocks = NoHandlers /\ BareIOBoard.input = NoHandlers
      /\ BareIOBoard.registers = IOBoardRegisters /\ BareIOBoard.inputRegisters = 0
      /\ BareIOBoard.range = NoHandlers
  BY DEF BareIOBoard, NoHandlers
<1> QED
  BY <1>1, <1>2, RamRegisters, HalfLimit DEF WellFormed, Arranged, Clampable

(* I2C_Slave::init: bytes of 8 bits reach the last of its registers.       *)
LEMMA DefaultArranged ==
  /\ WellFormed(Default) /\ Arranged(Default)
  /\ \A n \in Nat : Clampable(Default, n)
<1>1. DOMAIN NoHandlers = {}
  BY DEF NoHandlers
<1>2. /\ DOMAIN Default.handlers = {"Multi"} /\ DOMAIN Default.range = {"Multi"}
      /\ Default.handlers["Multi"].class = "MultiByte"
      /\ Default.handlers["Multi"].fixed = -1
      /\ Default.holding = DefaultList /\ Default.input = DefaultList
      /\ Default.blocks = NoHandlers
      /\ Default.registers = 128 /\ Default.inputRegisters = 0
  BY DEF Default, Class, NoHandlers
<1>3. \A r \in DOMAIN DefaultList :
        r \in 0 .. 127 /\ r \in Nat /\ 2 * r < ByteLimit /\ DefaultList[r] = "Multi"
  BY WidthsAssumption, HandlersAssumption DEF DefaultList
<1>4. 128 \in 0 .. Limit \div 2 /\ 0 \in 0 .. Limit \div 2
  BY HalfLimit, WidthsAssumption
<1>5. WellFormed(Default)
  BY <1>1, <1>2, <1>3, <1>4 DEF WellFormed
<1>6. Arranged(Default)
  BY <1>1, <1>2, <1>3 DEF Arranged
<1>7. \A n \in Nat : Clampable(Default, n)
  BY <1>1, <1>2 DEF Clampable
<1> QED
  BY <1>5, <1>6, <1>7

(* SummerySlave::init: its handlers work on the mapping itself.            *)
LEMMA SummeryArranged ==
  /\ WellFormed(Summery) /\ Arranged(Summery)
  /\ \A n \in Nat : Clampable(Summery, n)
<1>1. DOMAIN NoHandlers = {}
  BY DEF NoHandlers
<1>2. /\ DOMAIN Summery.handlers = {"Single", "Multi"}
      /\ DOMAIN Summery.range = {"Single", "Multi"}
      /\ Summery.handlers["Single"] = Class("Register", TRUE, 1)
      /\ Summery.handlers["Multi"] = Class("Register", TRUE, -1)
      /\ Summery.holding = NoHandlers /\ Summery.input = SummeryList
      /\ Summery.blocks = NoHandlers
      /\ Summery.registers = 0 /\ Summery.inputRegisters = 256 + 10
  BY DEF Summery, NoHandlers
<1>3. \A h \in DOMAIN Summery.handlers :
        /\ Summery.handlers[h].class = "Register"
        /\ Summery.handlers[h].wide
        /\ Summery.handlers[h].fixed \in {-1, 1}
  BY <1>2 DEF Class
<1>4. \A r \in DOMAIN SummeryList : r \in Nat /\ SummeryList[r] \in {"Single", "Multi"}
  BY DEF SummeryList
<1>5. 0 \in 0 .. Limit \div 2 /\ 256 + 10 \in 0 .. Limit \div 2
  BY HalfLimit, WidthsAssumption
<1>6. WellFormed(Summery)
  BY <1>1, <1>2, <1>3, <1>4, <1>5 DEF WellFormed
<1>7. Arranged(Summery)
  BY <1>1, <1>2, <1>3, <1>4 DEF Arranged
<1>8. \A n \in Nat : Clampable(Summery, n)
  BY <1>1, <1>2 DEF Clampable
<1> QED
  BY <1>6, <1>7, <1>8

(* The slaves that the gateway can have, boards with more pins than the    *)
(* header has room for aside, are slaves that the theorems of QueryProofs  *)
(* and AccessProofs are for.                                               *)
THEOREM GatewayArranged ==
  ASSUME NEW pins, HasRoomFor(pins),
         NEW l \in {IOBoard(pins), BareIOBoard, Default, Summery}
  PROVE  /\ WellFormed(l)
         /\ Arranged(l)
         /\ \A n \in Nat : 3 * n <= IOBoardRegisters => Clampable(l, n)
BY IOBoardArranged, IOBoardClampable, BareArranged, DefaultArranged, SummeryArranged
=============================================================================
