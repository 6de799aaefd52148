------------------------------ MODULE Layouts ------------------------------
(***************************************************************************)
(* Which handler serves which register: what init() of the three kinds of  *)
(* slave puts into the handler lists, the block lists and the handlers'    *)
(* ranges.  The addresses of the IO board are byte addresses of its header *)
(* slave_eeprom_mapping.h (external); a register is two bytes.             *)
(***************************************************************************)
EXTENDS Handlers, Sequences

CONSTANTS
  VERSION_START, VERSION_LENGTH,
  VIRTUAL_IO_COUNT, VIRTUAL_IO_START,
  VIRTUAL_DATA_START, VIRTUAL_DATA_LENGTH, IOBOARD_MAX_IO_PINS,
  I2C_BUFFER_SIZE, EEPROM_SIZE,
  EEPROM_FUNC_START,
  EEPROM_NAME_START, IO_BOARD_MAX_IO_PIN_NAME_LENGTH,
  EEPROM_DATA_START, EEPROM_DATA_LENGTH,
  EEPROM_SHARED_DATA_START, EEPROM_SHARED_DATA_LENGTH

(* The RAM registers follow one another below the EEPROM, a register or    *)
(* two each, and the EEPROM areas lie below the end of the mapping.        *)
ASSUME LayoutsAssumption ==
  /\ {VERSION_START, VERSION_LENGTH, VIRTUAL_IO_COUNT, VIRTUAL_IO_START,
      VIRTUAL_DATA_START, VIRTUAL_DATA_LENGTH, IOBOARD_MAX_IO_PINS,
      I2C_BUFFER_SIZE, EEPROM_SIZE, EEPROM_FUNC_START, EEPROM_NAME_START,
      IO_BOARD_MAX_IO_PIN_NAME_LENGTH, EEPROM_DATA_START, EEPROM_DATA_LENGTH,
      EEPROM_SHARED_DATA_START, EEPROM_SHARED_DATA_LENGTH} \subseteq Nat
  /\ 4 <= VERSION_START
  /\ 2 <= VERSION_LENGTH
  /\ VERSION_START + VERSION_LENGTH <= VIRTUAL_IO_COUNT
  /\ VIRTUAL_IO_COUNT + 2 <= VIRTUAL_IO_START
  /\ VIRTUAL_IO_START + 4 <= VIRTUAL_DATA_START
  /\ VIRTUAL_DATA_START < I2C_BUFFER_SIZE
  /\ 0 < EEPROM_FUNC_START
  /\ (I2C_BUFFER_SIZE + EEPROM_SHARED_DATA_START) \div 2 + EEPROM_SHARED_DATA_LENGTH
       <= I2C_BUFFER_SIZE + EEPROM_SIZE \div 2

(* The widths of the machine have room for the mappings, whose largest     *)
(* besides the IO board's is SummerySlave's.                               *)
ASSUME WidthsAssumption ==
  /\ I2C_BUFFER_SIZE + EEPROM_SIZE \div 2 <= Limit \div 2
  /\ 266 <= Limit \div 2
  /\ 254 <= ByteLimit

Class(class, wide, fixed) == [class |-> class, wide |-> wide, fixed |-> fixed]
Block(handler, first, last) ==
  [handler |-> handler, first |-> first, last |-> last]

-----------------------------------------------------------------------------
(* IOBoard_Slave::init, for a board with the given number of pins.         *)
IOBoardHandlers ==
  [HoldingRO |-> Class("HolRegRO", TRUE, -1),
   Holding   |-> Class("HolReg", TRUE, -1),
   Version   |-> Class("Version", TRUE, -1),
   TmpData   |-> Class("Data", TRUE, -1),
   PermData  |-> Class("Data", TRUE, -1)]

IOBoardList ==
  LET readOnly == {0, 1, VIRTUAL_IO_COUNT \div 2}
      version == {VERSION_START \div 2}
      holding == {VIRTUAL_IO_START \div 2, VIRTUAL_IO_START \div 2 + 1,
                  I2C_BUFFER_SIZE \div 2}
  IN  [r \in readOnly \cup version \cup holding |->
         IF r \in readOnly THEN "HoldingRO"
         ELSE IF r \in version THEN "Version" ELSE "Holding"]

TmpDataFirst == VIRTUAL_DATA_START \div 2
TmpDataLast(pins) == U16(TmpDataFirst + pins * (VIRTUAL_DATA_LENGTH \div 2) - 1)
PermDataFirst == (I2C_BUFFER_SIZE + EEPROM_DATA_START) \div 2

FuncFirst == I2C_BUFFER_SIZE \div 2 + EEPROM_FUNC_START \div 2
NameFirst == (I2C_BUFFER_SIZE + EEPROM_NAME_START) \div 2
SharedFirst == (I2C_BUFFER_SIZE + EEPROM_SHARED_DATA_START) \div 2

IOBoardBlocks(pins) ==
  LET name == IO_BOARD_MAX_IO_PIN_NAME_LENGTH \div 2
      data == EEPROM_DATA_LENGTH \div 2
  IN <<Block("TmpData", TmpDataFirst, TmpDataLast(pins)),
       Block("Holding", FuncFirst, FuncFirst + pins - 1),
       Block("Holding", NameFirst, NameFirst + pins * name - 1),
       Block("PermData", PermDataFirst, PermDataFirst + pins * data - 1),
       Block("Holding", SharedFirst, SharedFirst + EEPROM_SHARED_DATA_LENGTH - 1)>>

(* The areas of the header have room for that many pins, each before the   *)
(* next.                                                                   *)
HasRoomFor(pins) ==
  /\ pins \in Nat
  /\ TmpDataFirst + pins * (VIRTUAL_DATA_LENGTH \div 2) <= I2C_BUFFER_SIZE \div 2
  /\ FuncFirst + pins <= NameFirst
  /\ NameFirst + pins * (IO_BOARD_MAX_IO_PIN_NAME_LENGTH \div 2) <= PermDataFirst
  /\ PermDataFirst + pins * (EEPROM_DATA_LENGTH \div 2) <= SharedFirst

(* setRange of the data handlers; VersionHandler sets its own before every *)
(* read, the others never use theirs.                                      *)
IOBoardRange(pins) ==
  [HoldingRO |-> Interval(0, 0),
   Holding   |-> Interval(0, 0),
   Version   |-> Interval(VERSION_START \div 2,
                   VERSION_START \div 2 + VERSION_LENGTH \div 2 + (VERSION_LENGTH % 2) - 1),
   TmpData   |-> Interval(TmpDataFirst, TmpDataLast(pins)),
   PermData  |-> Interval(PermDataFirst, PermDataFirst + 2 * pins - 1)]

(* What DataHandler::checkWriteAccess sets.                                *)
IOBoardVirtualData ==
  Interval(TmpDataFirst, TmpDataFirst + IOBOARD_MAX_IO_PINS \div 2 - 1)

IOBoardRegisters == I2C_BUFFER_SIZE + EEPROM_SIZE \div 2

NoHandlers == <<>>

IOBoard(pins) ==
  [handlers |-> IOBoardHandlers, holding |-> IOBoardList,
   blocks |-> IOBoardBlocks(pins), input |-> NoHandlers,
   registers |-> IOBoardRegisters, inputRegisters |-> 0,
   range |-> IOBoardRange(pins)]

(* One whose pin count could not be read: init() returned before it had    *)
(* made any handler, and the scanner lists the slave all the same.         *)
BareIOBoard ==
  [handlers |-> NoHandlers, holding |-> NoHandlers, blocks |-> <<>>,
   input |-> NoHandlers, registers |-> IOBoardRegisters, inputRegisters |-> 0,
   range |-> NoHandlers]

-----------------------------------------------------------------------------
(* I2C_Slave::init, the default slave: one 8 bit handler.                  *)
DefaultList == [r \in 0 .. 126 |-> "Multi"]

Default ==
  [handlers |-> [Multi |-> Class("MultiByte", FALSE, -1)],
   holding |-> DefaultList, blocks |-> <<>>, input |-> DefaultList,
   registers |-> 128, inputRegisters |-> 0,
   range |-> [Multi |-> Interval(0, 127)]]

-----------------------------------------------------------------------------
(* SummerySlave::init: DEFAULT_SUMMERY_COUNT types, then five numbers of   *)
(* the thread pool.                                                        *)
SummeryList == [r \in 0 .. 260 |-> IF r < 256 THEN "Single" ELSE "Multi"]

Summery ==
  [handlers |-> [Single |-> Class("Register", TRUE, 1),
                 Multi  |-> Class("Register", TRUE, -1)],
   holding |-> NoHandlers, blocks |-> <<>>, input |-> SummeryList,
   registers |-> 0, inputRegisters |-> 256 + 10,
   range |-> [Single |-> Interval(0, 0), Multi |-> Interval(0, 0)]]
=============================================================================
