-------------------------------- MODULE Board --------------------------------
(***************************************************************************)
(* The functions of an IO board's pins, and everybody who reads and sets   *)
(* them: the web page of the board (I2C_IO_Board.ecpp), which any number   *)
(* of browsers use at once, IOBoard_Slave::getSlaveInfo, and the Modbus    *)
(* queries (Connection.cpp) for the registers of the functions.            *)
(*                                                                         *)
(* A function is kept twice: on the board ("func", behind the I2C bus) and *)
(* in the Modbus mapping of the slave ("mapping").  Nothing locks either.  *)
(* A transfer over the bus is one step, and so is each access to the       *)
(* mapping.  The slave stays listed; module Registry is about its list.    *)
(***************************************************************************)
EXTENDS Integers

CONSTANTS
  PinCount,     \* number of virtual pins
  IoCount,      \* the two bytes of the board's register VIRTUAL_IO_COUNT
  Options,      \* function codes that the page offers, a few of its eight for TLC
  PIN_DISABLED, PIN_SWITCH, PIN_TOGGLE, PIN_PULSE,
  Browsers,     \* those that show the page
  Scanner,      \* the thread that creates the slave
  Stored,       \* bound: what the board's EEPROM has for a function at first
  Written,      \* bound: what Modbus clients write into a function's register
  Garbage,      \* bound: what the stack holds
  BusFails      \* TRUE: transfers over the I2C bus may fail

ASSUME BoardAssumption ==
  /\ PinCount \in Nat \ {0}
  /\ Options \subseteq 0 .. 254
  /\ PIN_DISABLED \in Options
  /\ PIN_SWITCH \notin {0, PIN_TOGGLE, PIN_PULSE}
  /\ Scanner \notin Browsers
  /\ BusFails \in BOOLEAN

Pins == 0 .. PinCount - 1
Callers == Browsers \cup {Scanner}

VARIABLES
  func,     \* the board: the function register of every pin
  level,    \* the board: the pins that are on
  enabled,  \* the board: its EEPROM may be written
  mapping,  \* tab_registers: the function register of every pin
  vio_word, \* tab_registers: the number of pins
  info,     \* getSlaveInfo of every caller: pc, count, buffer
  mb,       \* the Modbus query in work: pc, pin, value
  request,  \* the page request of every browser
  form      \* the page that every browser shows

board == <<func, level, enabled>>
vars == <<board, mapping, vio_word, info, mb, request, form>>

Byte == {n \in Nat : n < 256}
Word == {n \in Nat : n < 65536}

ASSUME RegistersAssumption ==
  /\ IoCount \in Byte \X Byte
  /\ Stored \subseteq Word
  /\ Written \subseteq Word
  /\ Garbage \subseteq Byte

(* Mutation: pin_function keeps the whole register.                        *)
WholeWord(word) == word

(* A uint8_t that is assigned a register, or its first byte in memory.     *)
Low(word) == word % 256

(* Mutation: the bytes are taken in the order of a little endian host.     *)
HostOrder(bytes) == bytes[2] * 256 + bytes[1]

(* writeBeBytetoMBReg and writeMBRegtoBeByte, for one register.            *)
MBReg(bytes) == bytes[1] * 256 + bytes[2]
BeByte(word) == <<word \div 256, word % 256>>

(* The bytes that stand for a function on the board.                       *)
Code(f) == <<0, f>>

Untouched == 255   \* a select that the user left alone
NoChoice == [p \in Pins |-> Untouched]

NoRequest ==
  [pc |-> "none", button |-> "none", choice |-> NoChoice, boxes |-> {},
   clicked |-> {}, enable |-> FALSE, vio_count |-> 0, pin_function |-> [p \in Pins |-> 0],
   editable |-> FALSE, port |-> {}, todo |-> {}, cur_pin |-> 0]

NoInfo == [pc |-> "done", count |-> 0, buffer |-> [p \in Pins |-> Code(0)]]
NoForm ==
  [func |-> [p \in Pins |-> 0], vio_count |-> 0, editable |-> FALSE, port |-> {}]

(* The scanner has just made the slave, whose mapping is all zeros.        *)
Init ==
  /\ func \in [Pins -> {BeByte(word) : word \in Stored}]
  /\ level = {}
  /\ enabled \in BOOLEAN
  /\ mapping = [p \in Pins |-> 0]
  /\ vio_word = 0
  /\ info = [t \in Callers |->
               IF t = Scanner THEN [NoInfo EXCEPT !.pc = "count"] ELSE NoInfo]
  /\ mb = [pc |-> "idle", pin |-> 0, value |-> Code(0)]
  /\ request = [b \in Browsers |-> NoRequest]
  /\ form = [b \in Browsers |-> NoForm]

(* The slave is in the list once its constructor has returned.             *)
Listed == info[Scanner].pc = "done"

(* A transfer fails, on a bus that may fail.                               *)
Fails == BusFails

(* The board (external) takes a function, or drops it while its EEPROM is  *)
(* protected; the transfer succeeds all the same.                          *)
SetFunction(p, bytes) ==
  \/ func' = [func EXCEPT ![p] = bytes]
  \/ ~enabled /\ UNCHANGED func

-----------------------------------------------------------------------------
(* IOBoard_Slave::getSlaveInfo, as far as it concerns the functions.       *)

(* pincount is the first byte of the register; if it cannot be read,       *)
(* pincount keeps what the stack held.                                     *)
InfoCount(t) ==
  /\ info[t].pc = "count"
  /\ \/ /\ info' = [info EXCEPT ![t].pc = "functions", ![t].count = IoCount[1]]
        /\ vio_word' = MBReg(IoCount)
     \/ /\ Fails
        /\ \E garbage \in Garbage :
             info' = [info EXCEPT ![t].pc = "functions", ![t].count = garbage]
        /\ UNCHANGED vio_word
     \/ /\ Fails   \* i2cOpen
        /\ info' = [info EXCEPT ![t] = NoInfo]
        /\ UNCHANGED vio_word
  /\ UNCHANGED <<board, mapping, mb, request, form>>

InfoFunctions(t) ==
  /\ info[t].pc = "functions"
  /\ \/ info' = [info EXCEPT ![t].pc = "store", ![t].buffer = func]
     \/ Fails /\ info' = [info EXCEPT ![t] = NoInfo]
  /\ UNCHANGED <<board, mapping, vio_word, mb, request, form>>

InfoStore(t) ==
  /\ info[t].pc = "store"
  /\ mapping' = [p \in Pins |->
                   IF p < info[t].count THEN MBReg(info[t].buffer[p]) ELSE mapping[p]]
  /\ info' = [info EXCEPT ![t] = NoInfo]
  /\ UNCHANGED <<board, vio_word, mb, request, form>>

GetSlaveInfo(t) == InfoCount(t) \/ InfoFunctions(t) \/ InfoStore(t)

-----------------------------------------------------------------------------
(* Modbus queries for the function of a pin (module Query has the rest).   *)
ReadQuery(p) ==
  /\ Listed
  /\ mb.pc = "idle"
  /\ mb' = [pc |-> "fetched", pin |-> p, value |-> func[p]]
  /\ UNCHANGED <<board, mapping, vio_word, info, request, form>>

ReadStored ==
  /\ mb.pc = "fetched"
  /\ mapping' = [mapping EXCEPT ![mb.pin] = MBReg(mb.value)]
  /\ mb' = [mb EXCEPT !.pc = "idle", !.value = Code(0)]
  /\ UNCHANGED <<board, vio_word, info, request, form>>

(* modbus_reply stores the word and acknowledges the write, ...            *)
WriteQuery(p, word) ==
  /\ Listed
  /\ mb.pc = "idle"
  /\ mapping' = [mapping EXCEPT ![p] = word]
  /\ mb' = [pc |-> "send", pin |-> p, value |-> Code(0)]
  /\ UNCHANGED <<board, vio_word, info, request, form>>

(* ... the handler sends what it finds in the mapping.                     *)
WriteSent ==
  /\ mb.pc = "send"
  /\ \/ SetFunction(mb.pin, BeByte(mapping[mb.pin]))
     \/ Fails /\ UNCHANGED func
  /\ mb' = [mb EXCEPT !.pc = "idle"]
  /\ UNCHANGED <<level, enabled, mapping, vio_word, info, request, form>>

-----------------------------------------------------------------------------
(* The page has 12 pins, 16 if the board has more than 12.                 *)
Shown(b) == {p \in Pins : p < IF form[b].vio_count > 12 THEN 16 ELSE 12}

(* elem_pin_action: a pin that can be set has a box, which is checked if   *)
(* the pin was on when the page was made.                                  *)
Boxed == {PIN_SWITCH, PIN_TOGGLE, PIN_PULSE}
Boxes(b) == {p \in Shown(b) : form[b].func[p] \in Boxed}

(* Mutation: the boxes are drawn empty.                                    *)
CheckedNever(b) == {}

Checked(b) == Boxes(b) \cap form[b].port

(* print_func_select: the pins that have a select, ...                     *)
Selects(b) == IF form[b].editable THEN Shown(b) ELSE {}

(* ... and those whose function is none of its options.  No option is      *)
(* marked as the selected one, so that the browser takes the first.        *)
Unoffered(b) == {p \in Selects(b) : form[b].func[p] \notin Options}

Buttons == {"load", "submit", "update", "enable"}

(* A user changes selects, clicks boxes of the form and submits it, or     *)
(* asks for the page, a DB update or another write enable.                 *)
Ask(b, button) ==
  /\ Listed
  /\ request[b].pc = "none"
  /\ \E choice \in [Pins -> Options \cup {Untouched}], clicked \in SUBSET Boxes(b),
        enable \in BOOLEAN :
       /\ choice # NoChoice => button = "submit"
       /\ \A p \in Pins : choice[p] # Untouched =>
            p \in Selects(b) /\ choice[p] # form[b].func[p]
       /\ clicked # {} => button = "submit"
       /\ enable => button = "enable"
       /\ request' = [request EXCEPT ![b] =
            [NoRequest EXCEPT !.pc = "count", !.button = button,
                              !.choice = choice, !.clicked = clicked,
                              !.boxes = IF button # "submit" THEN {}
                                        ELSE (Checked(b) \ clicked)
                                             \cup (clicked \ Checked(b)),
                              !.enable = enable]]
  /\ UNCHANGED <<board, mapping, vio_word, info, mb, form>>

(* memcpy takes the word as this little endian host has it: vio_count is   *)
(* the second byte of the board's register.                                *)
ReadCount(b) ==
  /\ request[b].pc = "count"
  /\ request' = [request EXCEPT ![b].pc = IF Low(vio_word) > 0 THEN "ports" ELSE "functions",
                                ![b].vio_count = Low(vio_word)]
  /\ UNCHANGED <<board, mapping, vio_word, info, mb, form>>

(* vio_port: a read that fails leaves in it what the stack held.           *)
ReadPorts(b) ==
  /\ request[b].pc = "ports"
  /\ \E port \in SUBSET Pins :
       /\ port = level \/ Fails
       /\ request' = [request EXCEPT ![b].pc = "functions", ![b].port = port]
  /\ UNCHANGED <<board, mapping, vio_word, info, mb, form>>

(* uint8_t pin_function; what it has not got reads as 0.                   *)
ReadFunctions(b) ==
  /\ request[b].pc = "functions"
  /\ request' = [request EXCEPT
       ![b].pc = "enabled",
       ![b].pin_function =
         [p \in Pins |-> IF p < request[b].vio_count THEN Low(mapping[p]) ELSE 0]]
  /\ UNCHANGED <<board, mapping, vio_word, info, mb, form>>

AfterReading(b) ==
  CASE request[b].button = "submit" -> "action"
    [] request[b].button = "update" -> "updating"
    [] OTHER -> "render"

(* glob_write_enable; a DB update calls getSlaveInfo next.                 *)
ReadEnabled(b) ==
  /\ request[b].pc = "enabled"
  /\ \E editable \in BOOLEAN :
       /\ editable = enabled \/ (Fails /\ editable)
       /\ request' = [request EXCEPT ![b].pc = AfterReading(b),
                                     ![b].editable = editable]
  /\ info' = IF request[b].button = "update"
             THEN [info EXCEPT ![b].pc = "count"] ELSE info
  /\ UNCHANGED <<board, mapping, vio_word, mb, form>>

(* Mutation: only the pins that are checked get into the mask.             *)
MaskOfBoxes(b) == request[b].boxes

(* "all switch pin masks bit have to be activated": the pins that are      *)
(* switches now, and the boxes of the form.                                *)
Mask(b) ==
  {p \in Pins : request[b].pin_function[p] = PIN_SWITCH} \cup request[b].boxes

(* The ports of the request, of eight pins each.  It sends two bytes too   *)
(* many, whatever is in them, as mask and value of one port more.          *)
Port(p) == p \div 8
vio_port_count(b) == (request[b].vio_count + 7) \div 8
Sent(b) == {p \in Pins : Port(p) < vio_port_count(b)}
Beyond(b) == {p \in Pins : Port(p) = vio_port_count(b)}

(* The pins that are on when the board (external) has got mask and values. *)
Driven(mask, value) ==
  {p \in Pins :
     CASE p \in mask /\ func[p] = Code(PIN_SWITCH) -> p \in value
       [] p \in mask /\ func[p] = Code(PIN_TOGGLE) -> (p \in level) # (p \in value)
       [] p \in mask /\ func[p] = Code(PIN_PULSE) -> p \in level \/ p \in value
       [] OTHER -> p \in level}

(* The board (external) ends a pulse.                                      *)
PulseEnds(p) ==
  /\ func[p] = Code(PIN_PULSE)
  /\ p \in level
  /\ level' = level \ {p}
  /\ UNCHANGED <<func, enabled, mapping, vio_word, info, mb, request, form>>

(* Mutation: the option of the present function is sent like the others.   *)
SelectedAlways(b) == IF form[b].editable THEN Pins ELSE {}

(* The selects that name a pin: the option that shows the present function *)
(* is 255 << 8, which names none.                                          *)
Selected(b) == {p \in Pins : request[b].choice[p] # Untouched} \cup Unoffered(b)

(* The function that the option of a select stands for, which is the first *)
(* option if the user left alone one without the function of the page.     *)
CurFunc(b, p) ==
  IF request[b].choice[p] # Untouched THEN request[b].choice[p]
  ELSE IF p \in Unoffered(b) THEN PIN_DISABLED ELSE form[b].func[p]

(* Where a request goes with these selects still to handle.                *)
NextSelect(b, todo) ==
  [request EXCEPT ![b].pc = IF todo = {} THEN "render" ELSE "select",
                  ![b].boxes = {}, ![b].clicked = {},
                  ![b].todo = todo, ![b].cur_pin = 0]

PinAction(b) ==
  /\ request[b].pc = "action"
  /\ \E mask \in SUBSET Beyond(b) : \E value \in SUBSET mask :
       level' = Driven((Mask(b) \cap Sent(b)) \cup mask,
                       (request[b].boxes \cap Sent(b)) \cup value)
  /\ request' = NextSelect(b, Selected(b))
  /\ UNCHANGED <<func, enabled, mapping, vio_word, info, mb, form>>

PinActionFails(b) ==
  /\ Fails
  /\ request[b].pc = "action"
  /\ request' = NextSelect(b, Selected(b))
  /\ UNCHANGED <<board, mapping, vio_word, info, mb, form>>

(* The selects are handled in their order in the page, here in any order.  *)
SendSelect(b) ==
  /\ request[b].pc = "select"
  /\ \E p \in request[b].todo :
       \/ /\ SetFunction(p, Code(CurFunc(b, p)))
          /\ request' = [request EXCEPT ![b].pc = "stored", ![b].cur_pin = p]
       \/ /\ Fails
          /\ request' = NextSelect(b, request[b].todo \ {p})
          /\ UNCHANGED func
  /\ UNCHANGED <<level, enabled, mapping, vio_word, info, mb, form>>

(* tab_registers[i2c_address/2] = cur_func << 8                            *)
StoreSelect(b) ==
  LET p == request[b].cur_pin
  IN
  /\ request[b].pc = "stored"
  /\ mapping' = [mapping EXCEPT ![p] = CurFunc(b, p) * 256]
  /\ request' = NextSelect(b, request[b].todo \ {p})
  /\ UNCHANGED <<board, vio_word, info, mb, form>>

UpdateDone(b) ==
  /\ request[b].pc = "updating"
  /\ info[b].pc = "done"
  /\ request' = [request EXCEPT ![b].pc = "render"]
  /\ UNCHANGED <<board, mapping, vio_word, info, mb, form>>

(* handle_request_write_enable, for a request that carries its form.       *)
WriteEnable(b) ==
  \/ request[b].button = "enable" /\ enabled' = request[b].enable
  \/ (request[b].button # "enable" \/ Fails) /\ UNCHANGED enabled

(* It is called where its form is written, and the form of the pins shows  *)
(* what was read before.                                                   *)
Render(b) ==
  /\ request[b].pc = "render"
  /\ WriteEnable(b)
  /\ form' = [form EXCEPT ![b] = [func |-> request[b].pin_function,
                                  vio_count |-> request[b].vio_count,
                                  editable |-> request[b].editable,
                                  port |-> request[b].port]]
  /\ request' = [request EXCEPT ![b] = NoRequest]
  /\ UNCHANGED <<func, level, mapping, vio_word, info, mb>>

Page(b) ==
  \/ \E button \in Buttons : Ask(b, button)
  \/ ReadCount(b) \/ ReadPorts(b) \/ ReadFunctions(b) \/ ReadEnabled(b)
  \/ PinAction(b) \/ PinActionFails(b) \/ SendSelect(b) \/ StoreSelect(b)
  \/ UpdateDone(b) \/ Render(b)

-----------------------------------------------------------------------------
Next ==
  \/ \E t \in Callers : GetSlaveInfo(t)
  \/ \E p \in Pins : ReadQuery(p) \/ \E word \in Written : WriteQuery(p, word)
  \/ ReadStored \/ WriteSent
  \/ \E p \in Pins : PulseEnds(p)
  \/ \E b \in Browsers : Page(b)

Spec == Init /\ [][Next]_vars

-----------------------------------------------------------------------------
Infos ==
  [pc : {"count", "functions", "store", "done"},
   count : Byte, buffer : [Pins -> Byte \X Byte]]

Forms ==
  [func : [Pins -> Byte], vio_count : Byte, editable : BOOLEAN, port : SUBSET Pins]

Requests ==
  [pc : {"none", "count", "ports", "functions", "enabled", "action",
         "select", "stored", "updating", "render"},
   button : Buttons \cup {"none"}, choice : [Pins -> Byte],
   boxes : SUBSET Pins, clicked : SUBSET Pins, enable : BOOLEAN,
   vio_count : Byte, pin_function : [Pins -> Byte], editable : BOOLEAN,
   port : SUBSET Pins, todo : SUBSET Pins, cur_pin : Pins]

(* Every variable keeps its type.                                          *)
TypeOK ==
  /\ func \in [Pins -> Byte \X Byte]
  /\ level \subseteq Pins
  /\ enabled \in BOOLEAN
  /\ mapping \in [Pins -> Word]
  /\ vio_word \in Word
  /\ info \in [Callers -> Infos]
  /\ mb \in [pc : {"idle", "fetched", "send"}, pin : Pins, value : Byte \X Byte]
  /\ form \in [Browsers -> Forms]
  /\ request \in [Browsers -> Requests]

(* The function of a pin changes on the board only through a Modbus write  *)
(* to it, or to the one that a user chose in the select of that pin, or,   *)
(* if the page had a function that it does not offer, to "disabled".  So a *)
(* page that shows an old function, because another browser or a client    *)
(* has set a new one since, does not set the old one back.                 *)
FunctionsChangeOnRequest ==
  [][\A p \in Pins :
       func'[p] # func[p] =>
         \/ mb.pc = "send" /\ mb.pin = p
         \/ \E b \in Browsers :
              /\ request[b].pc = "select"
              /\ \/ /\ request[b].choice[p] # Untouched
                    /\ func'[p] = Code(request[b].choice[p])
                 \/ /\ request[b].choice[p] = Untouched
                    /\ form[b].func[p] \notin Options
                    /\ func'[p] = Code(PIN_DISABLED)]_vars

(* "all switch pin masks bit have to be activated (else no deactivating    *)
(* possible)": once a submit has reached the board, a pin that is a switch *)
(* there and in the page's eyes is on exactly if its box was checked.      *)
SwitchesAsChecked ==
  [][\A b \in Browsers, p \in Pins :
       /\ PinAction(b)
       /\ request[b].pin_function[p] = PIN_SWITCH
       /\ func[p] = Code(PIN_SWITCH)
       => (p \in level' <=> p \in request[b].boxes)]_vars

(* A submit changes no more than its user did: a switch whose box was not  *)
(* clicked, on a page that showed it as it is, keeps its level, whatever   *)
(* else the form asks for and whatever the mapping has for it meanwhile.   *)
(* (Not so a toggle that is on: its box is checked, and a checked box asks *)
(* for a toggle.)                                                          *)
UntouchedSwitchesKeep ==
  [][\A b \in Browsers, p \in Pins :
       /\ PinAction(b)
       /\ p \in Boxes(b) \cap Sent(b)
       /\ p \notin request[b].clicked
       /\ form[b].func[p] = PIN_SWITCH
       /\ func[p] = Code(PIN_SWITCH)
       /\ p \in form[b].port <=> p \in level
       => (p \in level' <=> p \in level)]_vars

(* The mapping recovers: when the function of a pin has settled on the     *)
(* board, whatever it is, and nobody selects or writes it any more, each   *)
(* further DB update that reads the pin, or Modbus query that does, leaves *)
(* the mapping with the board's function for good, whatever overtook what  *)
(* before.                                                                 *)
Unwritten(p) ==
  /\ ~(mb.pc = "send" /\ mb.pin = p)
  /\ \A b \in Browsers : ~(request[b].pc = "stored" /\ request[b].cur_pin = p)

Refreshed(p) ==
  \/ \E t \in Callers : InfoStore(t) /\ p < info[t].count
  \/ ReadStored /\ mb.pin = p

MappingRecovers ==
  \A p \in Pins :
    /\ <>[]Unwritten(p)
    /\ <>[][func'[p] = func[p]]_vars
    /\ []<><<Refreshed(p)>>_vars
    => <>[](BeByte(mapping[p]) = func[p])

(* pin_function is read "from internal DB", which a select has updated     *)
(* ("update MB DB", I2C_IO_Board.ecpp:160 and 435): while no request is in *)
(* work, a page that is loaded shows the functions of the board.           *)
Quiet ==
  /\ mb.pc = "idle"
  /\ \A t \in Callers : info[t].pc = "done"

PageShowsFunctions ==
  \A b \in Browsers :
    /\ Quiet
    /\ request[b].pc = "render"
    /\ request[b].button = "load"
    /\ \A other \in Browsers \ {b} : request[other].pc = "none"
    => \A p \in Pins : Code(request[b].pin_function[p]) = func[p]

-----------------------------------------------------------------------------
(* What the proofs need on top of that.                                    *)

(* Only selects that a user changed are handled.                           *)
SelectsAsked ==
  \A b \in Browsers :
    /\ request[b].todo \subseteq Selected(b)
    /\ request[b].pc = "stored" => request[b].cur_pin \in Selected(b)

(* Of pins beyond the count, no function is known.                         *)
UncountedIsUnknown ==
  \A b \in Browsers, p \in Pins :
    request[b].pc \in {"enabled", "action"} /\ p >= request[b].vio_count =>
      request[b].pin_function[p] = 0

(* What is submitted is the form as it was shown, but for the clicks.      *)
BoxesAsClicked ==
  \A b \in Browsers :
    request[b].pc \in {"count", "ports", "functions", "enabled", "action"}
    /\ request[b].button = "submit" =>
      request[b].boxes = (Checked(b) \ request[b].clicked)
                         \cup (request[b].clicked \ Checked(b))

ActionIsSubmitted ==
  \A b \in Browsers : request[b].pc = "action" => request[b].button = "submit"

IInv ==
  /\ TypeOK
  /\ SelectsAsked
  /\ UncountedIsUnknown
  /\ BoxesAsClicked
  /\ ActionIsSubmitted
=============================================================================
