----------------------------- MODULE BoardProofs -----------------------------
(***************************************************************************)
(* Proofs about module Board, for every number of pins, of browsers and of *)
(* function codes.                                                         *)
(*                                                                         *)
(* What a page does to the board depends on what it read and was asked     *)
(* several steps before, while others change board and mapping.  IInv says *)
(* what a request in work still has to do with its form.                   *)
(***************************************************************************)
EXTENDS Board, TLAPS

-----------------------------------------------------------------------------
(* Bytes and words.                                                        *)
LEMMA Conversions ==
  /\ \A w \in Word : Low(w) \in Byte /\ BeByte(w) \in Byte \X Byte
  /\ \A bytes \in Byte \X Byte : MBReg(bytes) \in Word
  /\ \A f \in Byte : Code(f) \in Byte \X Byte /\ f * 256 \in Word
  /\ Options \subseteq Byte /\ Written \subseteq Word /\ Garbage \subseteq Byte
  /\ IoCount \in Byte \X Byte
  /\ \A word \in Stored : BeByte(word) \in Byte \X Byte
  /\ 0 \in Byte /\ 0 \in Word /\ Untouched \in Byte
<1>1. \A w \in Word : Low(w) \in Byte /\ BeByte(w) \in Byte \X Byte
  BY DEF Low, BeByte, Byte, Word
<1>2. \A bytes \in Byte \X Byte : MBReg(bytes) \in Word
  BY DEF Byte, Word, MBReg
<1>3. \A f \in Byte : Code(f) \in Byte \X Byte /\ f * 256 \in Word
  BY DEF Byte, Word, Code
<1>4. Options \subseteq Byte /\ Byte \subseteq Word
  BY BoardAssumption DEF Byte, Word
<1>5. \A word \in Stored : BeByte(word) \in Byte \X Byte
  BY <1>1, RegistersAssumption
<1>6. 0 \in Byte /\ 0 \in Word /\ Untouched \in Byte
  BY DEF Byte, Word, Untouched
<1> QED
  BY <1>1, <1>2, <1>3, <1>4, <1>5, <1>6, RegistersAssumption

(* Nothing selected, asked or known is of its type, too.                   *)
LEMMA Zeros ==
  /\ 0 \in Pins
  /\ NoChoice \in [Pins -> Byte]
  /\ NoRequest \in Requests
  /\ NoInfo \in Infos
  /\ NoForm \in Forms
<1>1. 0 \in Pins
  BY BoardAssumption DEF Pins
<1>2. NoChoice \in [Pins -> Byte]
  BY Conversions DEF NoChoice
<1> QED
  BY <1>1, <1>2, Conversions DEF NoRequest, Requests, NoInfo, Infos, NoForm, Forms

(* Codes of functions are told apart.                                      *)
LEMMA CodesDiffer ==
  Code(PIN_SWITCH) # Code(PIN_TOGGLE) /\ Code(PIN_SWITCH) # Code(PIN_PULSE)
BY BoardAssumption DEF Code

-----------------------------------------------------------------------------
(* Types.                                                                  *)
LEMMA InitTypeOK == Init => TypeOK
<1> SUFFICES ASSUME Init PROVE TypeOK
  OBVIOUS
<1>1. func \in [Pins -> Byte \X Byte]
  BY Conversions DEF Init
<1>2. info \in [Callers -> Infos]
  BY Zeros DEF Init, Infos
<1>3. mb \in [pc : {"idle", "fetched", "send"}, pin : Pins, value : Byte \X Byte]
  BY Zeros, Conversions DEF Init
<1>4. form \in [Browsers -> Forms] /\ request \in [Browsers -> Requests]
  BY Zeros DEF Init
<1> QED
  BY <1>1, <1>2, <1>3, <1>4, Conversions DEF Init, TypeOK

(* The records of calls of getSlaveInfo that its steps make.               *)
LEMMA InfoUpdates ==
  ASSUME NEW i \in Infos
  PROVE  /\ \A count \in Byte :
              [i EXCEPT !.pc = "functions", !.count = count] \in Infos
         /\ \A buffer \in [Pins -> Byte \X Byte] :
              [i EXCEPT !.pc = "store", !.buffer = buffer] \in Infos
BY DEF Infos

(* The steps of getSlaveInfo keep the types, ...                           *)
LEMMA InfoType ==
  ASSUME TypeOK, NEW t \in Callers, GetSlaveInfo(t)
  PROVE  TypeOK'
<1>0. info \in [Callers -> Infos] /\ info[t] \in Infos /\ NoInfo \in Infos
  BY Zeros DEF TypeOK
<1>1. CASE InfoCount(t)
  <2>1. info' \in [Callers -> Infos]
    <3>1. IoCount[1] \in Byte /\ Garbage \subseteq Byte
      BY Conversions
    <3>2. \/ \E count \in Byte :
               info' = [info EXCEPT ![t] = [info[t] EXCEPT !.pc = "functions", !.count = count]]
          \/ info' = [info EXCEPT ![t] = NoInfo]
      BY <1>1, <3>1 DEF InfoCount
    <3> QED
      BY <1>0, <3>2, InfoUpdates
  <2>2. vio_word' \in Word
    BY <1>1, Conversions DEF InfoCount, TypeOK
  <2> QED
    BY <1>1, <2>1, <2>2 DEF InfoCount, TypeOK, board
<1>2. CASE InfoFunctions(t)
  <2>1. info' \in [Callers -> Infos]
    <3>1. func \in [Pins -> Byte \X Byte]
      BY DEF TypeOK
    <3>2. \/ info' = [info EXCEPT ![t] = [info[t] EXCEPT !.pc = "store", !.buffer = func]]
          \/ info' = [info EXCEPT ![t] = NoInfo]
      BY <1>2 DEF InfoFunctions
    <3> QED
      BY <1>0, <3>1, <3>2, InfoUpdates
  <2> QED
    BY <1>2, <2>1 DEF InfoFunctions, TypeOK, board
<1>3. CASE InfoStore(t)
  <2>1. info' \in [Callers -> Infos]
    BY <1>3, Zeros DEF InfoStore, TypeOK
  <2>2. mapping' \in [Pins -> Word]
    BY <1>3, Conversions DEF InfoStore, TypeOK, Infos
  <2> QED
    BY <1>3, <2>1, <2>2 DEF InfoStore, TypeOK, board
<1> QED
  BY <1>1, <1>2, <1>3 DEF GetSlaveInfo

(* ... a function that is sent, ...                                        *)
LEMMA SetFunctionType ==
  ASSUME TypeOK, NEW p \in Pins, NEW bytes \in Byte \X Byte, SetFunction(p, bytes)
  PROVE  func' \in [Pins -> Byte \X Byte]
BY DEF SetFunction, TypeOK

(* ... the queries of Modbus clients, ...                                  *)
LEMMA ModbusType ==
  ASSUME TypeOK,
         \/ \E p \in Pins : ReadQuery(p) \/ \E word \in Written : WriteQuery(p, word)
         \/ ReadStored \/ WriteSent
  PROVE  TypeOK'
<1>1. ASSUME NEW p \in Pins, ReadQuery(p) PROVE TypeOK'
  BY <1>1 DEF ReadQuery, TypeOK, board
<1>2. ASSUME NEW p \in Pins, NEW word \in Written, WriteQuery(p, word) PROVE TypeOK'
  BY <1>2, Conversions DEF WriteQuery, TypeOK, board
<1>3. CASE ReadStored
  BY <1>3, Conversions DEF ReadStored, TypeOK, board
<1>4. CASE WriteSent
  <2>1. mb.pin \in Pins /\ BeByte(mapping[mb.pin]) \in Byte \X Byte
    BY Conversions DEF TypeOK
  <2>2. func' \in [Pins -> Byte \X Byte]
    BY <1>4, <2>1, SetFunctionType DEF WriteSent, TypeOK
  <2> QED
    BY <1>4, <2>2 DEF WriteSent, TypeOK
<1> QED
  BY <1>1, <1>2, <1>3, <1>4

(* The records of requests that the steps of a page make.                  *)
LEMMA RequestUpdates ==
  ASSUME NEW r \in Requests
  PROVE  /\ \A pc \in {"ports", "functions"}, vio_count \in Byte :
              [r EXCEPT !.pc = pc, !.vio_count = vio_count] \in Requests
         /\ \A port \in SUBSET Pins :
              [r EXCEPT !.pc = "functions", !.port = port] \in Requests
         /\ \A pin_function \in [Pins -> Byte] :
              [r EXCEPT !.pc = "enabled", !.pin_function = pin_function] \in Requests
         /\ \A pc \in {"action", "updating", "render"}, editable \in BOOLEAN :
              [r EXCEPT !.pc = pc, !.editable = editable] \in Requests
         /\ \A pc \in {"select", "render"}, todo \in SUBSET Pins :
              0 \in Pins =>
                [r EXCEPT !.pc = pc, !.boxes = {}, !.clicked = {}, !.todo = todo,
                          !.cur_pin = 0] \in Requests
         /\ \A p \in Pins : [r EXCEPT !.pc = "stored", !.cur_pin = p] \in Requests
         /\ [r EXCEPT !.pc = "render"] \in Requests
BY DEF Requests

(* What a browser sends is a request.                                      *)
LEMMA AskedRequest ==
  ASSUME NEW button \in Buttons, NEW choice \in [Pins -> Options \cup {Untouched}],
         NEW clicked \in SUBSET Pins, NEW boxes \in SUBSET Pins, NEW enable \in BOOLEAN
  PROVE  [NoRequest EXCEPT !.pc = "count", !.button = button, !.choice = choice,
                           !.clicked = clicked, !.boxes = boxes, !.enable = enable]
           \in Requests
<1>1. choice \in [Pins -> Byte]
  BY Conversions
<1>2. NoRequest \in Requests
  BY Zeros
<1> QED
  BY <1>1, <1>2 DEF Requests

(* A request that is replaced by a record of its type keeps the type.      *)
LEMMA RequestType ==
  ASSUME TypeOK, NEW b \in Browsers, NEW r \in Requests,
         request' = [request EXCEPT ![b] = r]
  PROVE  request' \in [Browsers -> Requests]
BY DEF TypeOK

(* The loop over the selects goes on with what is left of them.            *)
LEMMA NextSelectType ==
  ASSUME TypeOK, NEW b \in Browsers, NEW todo \in SUBSET Pins,
         request' = NextSelect(b, todo)
  PROVE  request' \in [Browsers -> Requests]
<1>1. request[b] \in Requests
  BY DEF TypeOK
<1> DEFINE pc == IF todo = {} THEN "render" ELSE "select"
           r == [request[b] EXCEPT !.pc = pc, !.boxes = {}, !.clicked = {},
                                   !.todo = todo, !.cur_pin = 0]
<1>2. pc \in {"select", "render"}
  OBVIOUS
<1>3. request' = [request EXCEPT ![b] = r]
  BY DEF NextSelect
<1> HIDE DEF pc
<1>4. r \in Requests
  BY <1>1, <1>2, RequestUpdates, Zeros
<1> QED
  BY <1>3, <1>4, RequestType

(* ... a request that comes in, ...                                        *)
LEMMA AskType ==
  ASSUME TypeOK, NEW b \in Browsers, NEW button \in Buttons, Ask(b, button)
  PROVE  TypeOK'
<1>1. PICK choice \in [Pins -> Options \cup {Untouched}], clicked \in SUBSET Boxes(b),
           enable \in BOOLEAN :
        request' = [request EXCEPT ![b] =
          [NoRequest EXCEPT !.pc = "count", !.button = button,
                            !.choice = choice, !.clicked = clicked,
                            !.boxes = IF button # "submit" THEN {}
                                      ELSE (Checked(b) \ clicked)
                                           \cup (clicked \ Checked(b)),
                            !.enable = enable]]
  BY DEF Ask
<1> DEFINE boxes == IF button # "submit" THEN {}
                    ELSE (Checked(b) \ clicked) \cup (clicked \ Checked(b))
<1>2. clicked \in SUBSET Pins /\ boxes \in SUBSET Pins
  BY DEF Boxes, Shown, Checked
<1>3. request' \in [Browsers -> Requests]
  <2> HIDE DEF boxes
  <2>1. [NoRequest EXCEPT !.pc = "count", !.button = button, !.choice = choice,
                          !.clicked = clicked, !.boxes = boxes, !.enable = enable]
          \in Requests
    BY <1>2, AskedRequest
  <2> QED
    BY <1>1, <2>1, RequestType DEF boxes
<1> QED
  BY <1>3 DEF Ask, TypeOK, board

(* ... what the page reads first, ...                                      *)
LEMMA ReadingType ==
  ASSUME TypeOK, NEW b \in Browsers,
         ReadCount(b) \/ ReadPorts(b) \/ ReadFunctions(b) \/ ReadEnabled(b)
  PROVE  TypeOK'
<1>0. request[b] \in Requests
  BY DEF TypeOK
<1>1. CASE ReadCount(b)
  <2>1. Low(vio_word) \in Byte
    BY Conversions DEF TypeOK
  <2>2. request' = [request EXCEPT ![b] =
          [request[b] EXCEPT !.pc = IF Low(vio_word) > 0 THEN "ports" ELSE "functions",
                             !.vio_count = Low(vio_word)]]
    BY <1>1 DEF ReadCount
  <2>3. request' \in [Browsers -> Requests]
    BY <1>0, <2>1, <2>2, RequestUpdates, RequestType
  <2> QED
    BY <1>1, <2>3 DEF ReadCount, TypeOK, board
<1>2. CASE ReadPorts(b)
  <2>1. request' \in [Browsers -> Requests]
    <3>1. PICK port \in SUBSET Pins :
            request' = [request EXCEPT ![b] =
              [request[b] EXCEPT !.pc = "functions", !.port = port]]
      BY <1>2 DEF ReadPorts
    <3>2. [request[b] EXCEPT !.pc = "functions", !.port = port] \in Requests
      BY <1>0, RequestUpdates
    <3> QED
      BY <3>1, <3>2, RequestType
  <2> QED
    BY <1>2, <2>1 DEF ReadPorts, TypeOK, board
<1>3. CASE ReadFunctions(b)
  <2> DEFINE read == [p \in Pins |-> IF p < request[b].vio_count THEN Low(mapping[p]) ELSE 0]
  <2>1. read \in [Pins -> Byte]
    BY Conversions DEF TypeOK
  <2>2. request' \in [Browsers -> Requests]
    <3>1. request' = [request EXCEPT ![b] =
            [request[b] EXCEPT !.pc = "enabled", !.pin_function = read]]
      BY <1>3 DEF ReadFunctions
    <3> HIDE DEF read
    <3>2. [request[b] EXCEPT !.pc = "enabled", !.pin_function = read] \in Requests
      BY <1>0, <2>1, RequestUpdates
    <3> QED
      BY <3>1, <3>2, RequestType
  <2> QED
    BY <1>3, <2>2 DEF ReadFunctions, TypeOK, board
<1>4. CASE ReadEnabled(b)
  <2>1. AfterReading(b) \in {"action", "updating", "render"}
    BY DEF AfterReading
  <2>2. request' \in [Browsers -> Requests]
    <3>1. PICK editable \in BOOLEAN :
            request' = [request EXCEPT ![b] =
              [request[b] EXCEPT !.pc = AfterReading(b), !.editable = editable]]
      BY <1>4 DEF ReadEnabled
    <3>2. [request[b] EXCEPT !.pc = AfterReading(b), !.editable = editable] \in Requests
      BY <1>0, <2>1, RequestUpdates
    <3> QED
      BY <3>1, <3>2, RequestType
  <2>3. info' \in [Callers -> Infos]
    <3>1. info \in [Callers -> Infos] /\ b \in Callers
      BY DEF TypeOK, Callers
    <3>2. [info[b] EXCEPT !.pc = "count"] \in Infos
      BY <3>1 DEF Infos
    <3>3. info' = info \/ info' = [info EXCEPT ![b] = [info[b] EXCEPT !.pc = "count"]]
      BY <1>4 DEF ReadEnabled
    <3> QED
      BY <3>1, <3>2, <3>3
  <2> QED
    BY <1>4, <2>2, <2>3 DEF ReadEnabled, TypeOK, board
<1> QED
  BY <1>1, <1>2, <1>3, <1>4

(* ... and what it does then.                                              *)
LEMMA HandlingType ==
  ASSUME TypeOK, NEW b \in Browsers,
         \/ PinAction(b) \/ PinActionFails(b) \/ SendSelect(b) \/ StoreSelect(b)
         \/ UpdateDone(b) \/ Render(b)
  PROVE  TypeOK'
<1>0. request[b] \in Requests
  BY DEF TypeOK
<1>1. Selected(b) \subseteq Pins /\ request[b].todo \subseteq Pins /\ request[b].cur_pin \in Pins
  BY <1>0 DEF Selected, Unoffered, Selects, Shown, Requests
<1>2. \A p \in Pins : CurFunc(b, p) \in Byte
  <2>1. PIN_DISABLED \in Byte
    BY BoardAssumption, Conversions
  <2> QED
    BY <1>0, <2>1 DEF CurFunc, Requests, TypeOK, Forms
<1>3. CASE PinAction(b) \/ PinActionFails(b)
  <2>1. level' \subseteq Pins
    BY <1>3 DEF PinAction, PinActionFails, Driven, TypeOK, board
  <2>2. request' \in [Browsers -> Requests]
    BY <1>1, <1>3, NextSelectType DEF PinAction, PinActionFails
  <2> QED
    BY <1>3, <2>1, <2>2 DEF PinAction, PinActionFails, TypeOK, board
<1>4. CASE SendSelect(b)
  <2>1. PICK p \in request[b].todo :
          \/ /\ SetFunction(p, Code(CurFunc(b, p)))
             /\ request' = [request EXCEPT ![b] = [request[b] EXCEPT !.pc = "stored",
                                                                     !.cur_pin = p]]
          \/ /\ request' = NextSelect(b, request[b].todo \ {p})
             /\ UNCHANGED func
    BY <1>4 DEF SendSelect
  <2>2. p \in Pins
    BY <1>1
  <2>3. func' \in [Pins -> Byte \X Byte]
    <3>1. Code(CurFunc(b, p)) \in Byte \X Byte
      BY <1>2, <2>2, Conversions
    <3> QED
      BY <2>1, <2>2, <3>1, SetFunctionType DEF TypeOK
  <2>4. request' \in [Browsers -> Requests]
    <3>1. [request[b] EXCEPT !.pc = "stored", !.cur_pin = p] \in Requests
      BY <1>0, <2>2, RequestUpdates
    <3>2. request[b].todo \ {p} \in SUBSET Pins
      BY <1>1
    <3> QED
      BY <2>1, <3>1, <3>2, RequestType, NextSelectType
  <2> QED
    BY <1>4, <2>3, <2>4 DEF SendSelect, TypeOK
<1>5. CASE StoreSelect(b)
  <2>1. CurFunc(b, request[b].cur_pin) * 256 \in Word
    BY <1>1, <1>2, Conversions
  <2>2. mapping' \in [Pins -> Word]
    BY <1>5, <2>1 DEF StoreSelect, TypeOK
  <2>3. request' \in [Browsers -> Requests]
    <3>1. request[b].todo \ {request[b].cur_pin} \in SUBSET Pins
      BY <1>1
    <3> QED
      BY <1>5, <3>1, NextSelectType DEF StoreSelect
  <2> QED
    BY <1>5, <2>2, <2>3 DEF StoreSelect, TypeOK, board
<1>6. CASE UpdateDone(b)
  <2>1. request' \in [Browsers -> Requests]
    <3>1. [request[b] EXCEPT !.pc = "render"] \in Requests
      BY <1>0, RequestUpdates
    <3> QED
      BY <1>6, <3>1, RequestType DEF UpdateDone
  <2> QED
    BY <1>6, <2>1 DEF UpdateDone, TypeOK, board
<1>7. CASE Render(b)
  <2>1. request' \in [Browsers -> Requests]
    BY <1>7, Zeros, RequestType DEF Render
  <2>2. [func |-> request[b].pin_function, vio_count |-> request[b].vio_count,
         editable |-> request[b].editable, port |-> request[b].port] \in Forms
    BY <1>0 DEF Requests, Forms
  <2>3. form' \in [Browsers -> Forms]
    BY <1>7, <2>2 DEF Render, TypeOK
  <2>4. enabled' \in BOOLEAN
    BY <1>0, <1>7 DEF Render, WriteEnable, TypeOK, Requests
  <2> QED
    BY <1>7, <2>1, <2>3, <2>4 DEF Render, TypeOK
<1> QED
  BY <1>3, <1>4, <1>5, <1>6, <1>7

(* TypeOK is inductive.                                                    *)
LEMMA NextTypeOK == TypeOK /\ [Next]_vars => TypeOK'
<1> SUFFICES ASSUME TypeOK, [Next]_vars PROVE TypeOK'
  OBVIOUS
<1>1. CASE UNCHANGED vars
  BY <1>1 DEF vars, board, TypeOK
<1>2. CASE Next
  <2>1. ASSUME NEW p \in Pins, PulseEnds(p) PROVE TypeOK'
    BY <2>1 DEF PulseEnds, TypeOK
  <2> QED
    BY <1>2, <2>1, InfoType, ModbusType, AskType, ReadingType, HandlingType DEF Next, Page
<1> QED
  BY <1>1, <1>2

(* Every variable keeps its type.                                          *)
THEOREM TypeCorrect == Spec => []TypeOK
BY InitTypeOK, NextTypeOK, PTL DEF Spec

-----------------------------------------------------------------------------
(* The rest of the invariant, browser by browser.                          *)
Kept(b) ==
  /\ request[b].todo \subseteq Selected(b)
  /\ request[b].pc = "stored" => request[b].cur_pin \in Selected(b)
  /\ \A p \in Pins :
       request[b].pc \in {"enabled", "action"} /\ p >= request[b].vio_count =>
         request[b].pin_function[p] = 0
  /\ request[b].pc \in {"count", "ports", "functions", "enabled", "action"}
     /\ request[b].button = "submit" =>
       request[b].boxes = (Checked(b) \ request[b].clicked)
                          \cup (request[b].clicked \ Checked(b))
  /\ request[b].pc = "action" => request[b].button = "submit"

(* IInv speaks of one browser at a time.                                   *)
LEMMA IInvByBrowser == IInv <=> TypeOK /\ \A b \in Browsers : Kept(b)
BY DEF IInv, SelectsAsked, UncountedIsUnknown, BoxesAsClicked, ActionIsSubmitted, Kept

(* Without requests there is nothing to keep.                              *)
LEMMA InitIInv == Init => IInv
<1> SUFFICES ASSUME Init PROVE IInv
  OBVIOUS
<1>1. ASSUME NEW b \in Browsers PROVE Kept(b)
  BY DEF Init, Kept, NoRequest
<1> QED
  BY <1>1, InitTypeOK, IInvByBrowser

(* A browser whose request and form stay the same keeps its part.          *)
LEMMA KeptUnchanged ==
  ASSUME NEW b \in Browsers, Kept(b),
         request'[b] = request[b], form'[b] = form[b]
  PROVE  Kept(b)'
BY DEF Kept, Selected, Unoffered, Selects, Checked, Boxes, Shown

(* The requests that Ask makes have nothing handled yet.                   *)
LEMMA AskKeeps ==
  ASSUME TypeOK, NEW b \in Browsers, NEW button \in Buttons, Ask(b, button)
  PROVE  Kept(b)'
<1>1. PICK choice \in [Pins -> Options \cup {Untouched}], clicked \in SUBSET Boxes(b),
           enable \in BOOLEAN :
        /\ clicked # {} => button = "submit"
        /\ request' = [request EXCEPT ![b] =
             [NoRequest EXCEPT !.pc = "count", !.button = button,
                               !.choice = choice, !.clicked = clicked,
                               !.boxes = IF button # "submit" THEN {}
                                         ELSE (Checked(b) \ clicked)
                                              \cup (clicked \ Checked(b)),
                               !.enable = enable]]
  BY DEF Ask
<1>2. form' = form /\ Checked(b)' = Checked(b)
  BY DEF Ask, Checked, Boxes, Shown
<1>3. /\ request'[b].pc = "count" /\ request'[b].button = button
      /\ request'[b].todo = {} /\ request'[b].clicked = clicked
      /\ request'[b].boxes = IF button # "submit" THEN {}
                             ELSE (Checked(b) \ clicked) \cup (clicked \ Checked(b))
  BY <1>1 DEF TypeOK, NoRequest
<1> QED
  BY <1>2, <1>3 DEF Kept

(* What the page reads leaves the form of the request alone.               *)
LEMMA ReadingKeeps ==
  ASSUME TypeOK, NEW b \in Browsers, Kept(b),
         ReadCount(b) \/ ReadPorts(b) \/ ReadFunctions(b) \/ ReadEnabled(b)
  PROVE  Kept(b)'
<1>0. request[b] \in Requests /\ b \in DOMAIN request
  BY DEF TypeOK
<1>1. /\ form' = form
      /\ UNCHANGED <<request[b].todo, request[b].choice, request[b].button,
                     request[b].boxes, request[b].clicked>>
  <2>1. CASE ReadCount(b)
    BY <1>0, <2>1 DEF ReadCount, Requests
  <2>2. CASE ReadPorts(b)
    <3>1. PICK port \in SUBSET Pins :
            request' = [request EXCEPT ![b] =
              [request[b] EXCEPT !.pc = "functions", !.port = port]]
      BY <2>2 DEF ReadPorts
    <3> QED
      BY <1>0, <2>2, <3>1 DEF ReadPorts, Requests
  <2>3. CASE ReadFunctions(b)
    BY <1>0, <2>3 DEF ReadFunctions, Requests
  <2>4. CASE ReadEnabled(b)
    <3>1. PICK editable \in BOOLEAN :
            request' = [request EXCEPT ![b] =
              [request[b] EXCEPT !.pc = AfterReading(b), !.editable = editable]]
      BY <2>4 DEF ReadEnabled
    <3> QED
      BY <1>0, <2>4, <3>1 DEF ReadEnabled, Requests
  <2> QED
    BY <2>1, <2>2, <2>3, <2>4
<1>2. UNCHANGED <<Selected(b), Checked(b)>>
  BY <1>1 DEF Selected, Unoffered, Selects, Checked, Boxes, Shown
<1>3. CASE ReadCount(b) \/ ReadPorts(b)
  <2>1. request[b].pc \in {"count", "ports"} /\ request'[b].pc \in {"ports", "functions"}
    BY <1>0, <1>3 DEF ReadCount, ReadPorts, Requests
  <2> QED
    BY <1>1, <1>2, <2>1 DEF Kept
<1>4. CASE ReadFunctions(b)
  <2>1. /\ request[b].pc = "functions" /\ request'[b].pc = "enabled"
        /\ request'[b].vio_count = request[b].vio_count
        /\ request'[b].pin_function =
             [p \in Pins |-> IF p < request[b].vio_count THEN Low(mapping[p]) ELSE 0]
    BY <1>0, <1>4 DEF ReadFunctions, Requests
  <2>2. \A p \in Pins : p >= request'[b].vio_count => request'[b].pin_function[p] = 0
    BY <1>0, <2>1 DEF Pins, Requests, Byte
  <2> QED
    BY <1>1, <1>2, <2>1, <2>2 DEF Kept
<1>5. CASE ReadEnabled(b)
  <2>1. /\ request[b].pc = "enabled" /\ request'[b].pc = AfterReading(b)
        /\ UNCHANGED <<request[b].vio_count, request[b].pin_function>>
    BY <1>0, <1>5 DEF ReadEnabled, Requests
  <2>2. /\ request'[b].pc \in {"action", "updating", "render"}
        /\ request'[b].pc = "action" => request[b].button = "submit"
    BY <2>1 DEF AfterReading
  <2> QED
    BY <1>1, <1>2, <2>1, <2>2 DEF Kept
<1> QED
  BY <1>3, <1>4, <1>5

(* What is left of the selects was selected.                               *)
LEMMA NextSelectKeeps ==
  ASSUME TypeOK, NEW b \in Browsers, NEW todo \in SUBSET Selected(b),
         request' = NextSelect(b, todo), form' = form
  PROVE  Kept(b)'
<1>1. request[b] \in Requests /\ b \in DOMAIN request
  BY DEF TypeOK
<1>2. /\ request'[b].pc \in {"render", "select"} /\ request'[b].todo = todo
      /\ request'[b].choice = request[b].choice
  BY <1>1 DEF NextSelect, Requests
<1>3. Selected(b)' = Selected(b)
  BY <1>2 DEF Selected, Unoffered, Selects, Shown
<1> QED
  BY <1>2, <1>3 DEF Kept

(* Pin actions and selects are about what was asked.                       *)
LEMMA HandlingKeeps ==
  ASSUME TypeOK, NEW b \in Browsers, Kept(b),
         \/ PinAction(b) \/ PinActionFails(b) \/ SendSelect(b) \/ StoreSelect(b)
         \/ UpdateDone(b) \/ Render(b)
  PROVE  Kept(b)'
<1>0. request[b] \in Requests /\ b \in DOMAIN request /\ request[b].todo \subseteq Selected(b)
  BY DEF TypeOK, Kept
<1>1. CASE PinAction(b) \/ PinActionFails(b)
  BY <1>1, NextSelectKeeps DEF PinAction, PinActionFails
<1>2. CASE SendSelect(b)
  <2>1. PICK p \in request[b].todo :
          \/ request' = [request EXCEPT ![b].pc = "stored", ![b].cur_pin = p]
          \/ request' = NextSelect(b, request[b].todo \ {p})
    BY <1>2 DEF SendSelect
  <2>2. CASE request' = [request EXCEPT ![b].pc = "stored", ![b].cur_pin = p]
    <3>1. /\ request'[b].pc = "stored" /\ request'[b].cur_pin = p
          /\ UNCHANGED <<request[b].todo, request[b].choice>>
      BY <1>0, <2>2 DEF Requests
    <3>2. Selected(b)' = Selected(b)
      BY <1>2, <3>1 DEF SendSelect, Selected, Unoffered, Selects, Shown
    <3> QED
      BY <1>0, <3>1, <3>2 DEF Kept
  <2>3. CASE request' = NextSelect(b, request[b].todo \ {p})
    <3>1. request[b].todo \ {p} \in SUBSET Selected(b)
      BY <1>0
    <3> QED
      BY <1>2, <2>3, <3>1, NextSelectKeeps DEF SendSelect
  <2> QED
    BY <2>1, <2>2, <2>3
<1>3. CASE StoreSelect(b)
  <2>1. request[b].todo \ {request[b].cur_pin} \in SUBSET Selected(b)
    BY <1>0
  <2> QED
    BY <1>3, <2>1, NextSelectKeeps DEF StoreSelect
<1>4. CASE UpdateDone(b)
  <2>1. /\ request'[b].pc = "render"
        /\ UNCHANGED <<request[b].todo, request[b].choice>>
    BY <1>0, <1>4 DEF UpdateDone, Requests
  <2>2. Selected(b)' = Selected(b)
    BY <1>4, <2>1 DEF UpdateDone, Selected, Unoffered, Selects, Shown
  <2> QED
    BY <1>0, <2>1, <2>2 DEF Kept
<1>5. CASE Render(b)
  <2>1. request'[b] = NoRequest
    BY <1>0, <1>5 DEF Render
  <2> QED
    BY <2>1 DEF Kept, NoRequest
<1> QED
  BY <1>1, <1>2, <1>3, <1>4, <1>5

(* A request of one browser leaves those of the others alone.              *)
LEMMA PageIsLocal ==
  ASSUME TypeOK, NEW b \in Browsers, Page(b), NEW c \in Browsers \ {b}
  PROVE  request'[c] = request[c] /\ form'[c] = form[c]
<1>1. request \in [Browsers -> Requests] /\ form \in [Browsers -> Forms]
  BY DEF TypeOK
<1>2. form'[c] = form[c]
  BY <1>1 DEF Page, Ask, ReadCount, ReadPorts, ReadFunctions, ReadEnabled, PinAction,
     PinActionFails, SendSelect, StoreSelect, UpdateDone, Render
<1>3. request'[c] = request[c]
  BY <1>1 DEF Page, Ask, ReadCount, ReadPorts, ReadFunctions, ReadEnabled, PinAction,
     PinActionFails, SendSelect, StoreSelect, UpdateDone, Render, NextSelect
<1> QED
  BY <1>2, <1>3

(* Every request in work has to do with its form what IInv says.           *)
THEOREM Invariance == Spec => []IInv
<1>1. ASSUME IInv, [Next]_vars PROVE IInv'
  <2>0. TypeOK /\ TypeOK' /\ \A b \in Browsers : Kept(b)
    BY <1>1, NextTypeOK, IInvByBrowser DEF IInv
  <2>1. ASSUME NEW b \in Browsers, Page(b), NEW c \in Browsers PROVE Kept(c)'
    <3>1. CASE c = b
      BY <2>0, <2>1, <3>1, AskKeeps, ReadingKeeps, HandlingKeeps DEF Page
    <3>2. CASE c # b
      BY <2>0, <2>1, <3>2, PageIsLocal, KeptUnchanged
    <3> QED
      BY <3>1, <3>2
  <2>2. ASSUME UNCHANGED <<request, form>>, NEW c \in Browsers PROVE Kept(c)'
    BY <2>0, <2>2, KeptUnchanged
  <2>3. ~(\E b \in Browsers : Page(b)) => UNCHANGED <<request, form>>
    BY <1>1 DEF Next, vars, GetSlaveInfo, InfoCount, InfoFunctions, InfoStore,
       ReadQuery, WriteQuery, ReadStored, WriteSent, PulseEnds
  <2>4. \A c \in Browsers : Kept(c)'
    BY <2>1, <2>2, <2>3
  <2>5. (IInv <=> TypeOK /\ \A b \in Browsers : Kept(b))'
    BY IInvByBrowser, PTL
  <2> QED
    BY <2>0, <2>4, <2>5
<1> QED
  BY InitIInv, <1>1, PTL DEF Spec

-----------------------------------------------------------------------------
(* However many browsers show old pages, and whatever others have set      *)
(* meanwhile, also to functions that no page offers: a function is only    *)
(* set to what somebody asked for, or disabled where the page did not know *)
(* it.                                                                     *)
THEOREM SetOnRequest == Spec => FunctionsChangeOnRequest
<1> DEFINE AsAsked(p) ==
      \/ mb.pc = "send" /\ mb.pin = p
      \/ \E b \in Browsers :
           /\ request[b].pc = "select"
           /\ \/ /\ request[b].choice[p] # Untouched
                 /\ func'[p] = Code(request[b].choice[p])
              \/ /\ request[b].choice[p] = Untouched
                 /\ form[b].func[p] \notin Options
                 /\ func'[p] = Code(PIN_DISABLED)
<1>1. ASSUME IInv, [Next]_vars, NEW p \in Pins, func'[p] # func[p]
      PROVE  AsAsked(p)
  <2>0. func \in [Pins -> Byte \X Byte] /\ mb.pin \in Pins
    BY <1>1 DEF IInv, TypeOK
  <2>1. WriteSent \/ \E b \in Browsers : SendSelect(b)
    BY <1>1 DEF Next, vars, board, GetSlaveInfo, InfoCount, InfoFunctions, InfoStore,
       ReadQuery, WriteQuery, ReadStored, PulseEnds, Page, Ask, ReadCount, ReadPorts,
       ReadFunctions, ReadEnabled, PinAction, PinActionFails, StoreSelect,
       UpdateDone, Render
  <2>2. CASE WriteSent
    BY <1>1, <2>0, <2>2 DEF WriteSent, SetFunction
  <2>3. ASSUME NEW b \in Browsers, SendSelect(b)
        PROVE  AsAsked(p)
    <3>1. PICK q \in request[b].todo :
            SetFunction(q, Code(CurFunc(b, q))) \/ UNCHANGED func
      BY <2>3 DEF SendSelect
    <3>2. q = p /\ func'[p] = Code(CurFunc(b, p))
      BY <1>1, <2>0, <3>1 DEF SetFunction
    <3>3. p \in Selected(b)
      BY <1>1, <3>2 DEF IInv, SelectsAsked
    <3>4. CASE request[b].choice[p] # Untouched
      BY <2>3, <3>2, <3>4 DEF SendSelect, CurFunc
    <3>5. CASE request[b].choice[p] = Untouched
      <4>1. p \in Unoffered(b)
        BY <3>3, <3>5 DEF Selected
      <4>2. CurFunc(b, p) = PIN_DISABLED
        BY <3>5, <4>1 DEF CurFunc
      <4> QED
        BY <2>3, <3>2, <3>5, <4>1, <4>2 DEF SendSelect, Unoffered
    <3> QED
      BY <3>4, <3>5
  <2> QED
    BY <2>1, <2>2, <2>3
<1>2. IInv /\ [Next]_vars =>
        [\A p \in Pins :
           func'[p] # func[p] =>
             \/ mb.pc = "send" /\ mb.pin = p
             \/ \E b \in Browsers :
                  /\ request[b].pc = "select"
                  /\ \/ /\ request[b].choice[p] # Untouched
                        /\ func'[p] = Code(request[b].choice[p])
                     \/ /\ request[b].choice[p] = Untouched
                        /\ form[b].func[p] \notin Options
                        /\ func'[p] = Code(PIN_DISABLED)]_vars
  BY <1>1
<1> QED
  BY Invariance, <1>2, PTL DEF Spec, FunctionsChangeOnRequest

(* A switch in the mask gets its value.                                    *)
LEMMA MaskedSwitch ==
  ASSUME NEW b \in Browsers, NEW p \in Pins, PinAction(b),
         p \in Mask(b), p \in Sent(b), p \notin Beyond(b), func[p] = Code(PIN_SWITCH)
  PROVE  p \in level' <=> p \in request[b].boxes
<1>1. PICK mask \in SUBSET Beyond(b) : \E value \in SUBSET mask :
        level' = Driven((Mask(b) \cap Sent(b)) \cup mask,
                        (request[b].boxes \cap Sent(b)) \cup value)
  BY DEF PinAction
<1>2. PICK value \in SUBSET mask :
        level' = Driven((Mask(b) \cap Sent(b)) \cup mask,
                        (request[b].boxes \cap Sent(b)) \cup value)
  BY <1>1
<1>3. p \in level' <=> p \in (request[b].boxes \cap Sent(b)) \cup value
  BY <1>2, CodesDiffer DEF Driven
<1> QED
  BY <1>3

(* Somebody who unchecks a box switches its pin off.                       *)
THEOREM ChecksCount == Spec => SwitchesAsChecked
<1>1. ASSUME IInv, NEW b \in Browsers, NEW p \in Pins, PinAction(b),
             request[b].pin_function[p] = PIN_SWITCH, func[p] = Code(PIN_SWITCH)
      PROVE  p \in level' <=> p \in request[b].boxes
  <2>1. request[b].vio_count \in Byte
    BY <1>1 DEF IInv, TypeOK, Requests
  <2>2. p < request[b].vio_count
    BY <1>1, <2>1, BoardAssumption DEF IInv, UncountedIsUnknown, PinAction, Pins, Byte
  <2>3. p \in Sent(b) /\ p \notin Beyond(b)
    BY <2>1, <2>2, BoardAssumption DEF Sent, Beyond, Port, vio_port_count, Pins, Byte
  <2>4. p \in Mask(b)
    BY <1>1 DEF Mask
  <2> QED
    BY <1>1, <2>3, <2>4, MaskedSwitch
<1>2. IInv /\ [Next]_vars =>
        [\A b \in Browsers, p \in Pins :
           /\ PinAction(b)
           /\ request[b].pin_function[p] = PIN_SWITCH
           /\ func[p] = Code(PIN_SWITCH)
           => (p \in level' <=> p \in request[b].boxes)]_vars
  BY <1>1
<1> QED
  BY Invariance, <1>2, PTL DEF Spec, SwitchesAsChecked

(* Somebody who leaves a switch alone leaves its pin alone, although the   *)
(* mapping may have another function for it by the time of the submit.     *)
THEOREM SwitchesLeftAlone == Spec => UntouchedSwitchesKeep
<1>1. ASSUME IInv, NEW b \in Browsers, NEW p \in Pins, PinAction(b),
             p \in Boxes(b) \cap Sent(b), p \notin request[b].clicked,
             form[b].func[p] = PIN_SWITCH, func[p] = Code(PIN_SWITCH),
             p \in form[b].port <=> p \in level
      PROVE  p \in level' <=> p \in level
  <2>1. request[b].pc = "action" /\ request[b].button = "submit"
    BY <1>1 DEF IInv, ActionIsSubmitted, PinAction
  <2>2. request[b].boxes = (Checked(b) \ request[b].clicked)
                          \cup (request[b].clicked \ Checked(b))
    BY <1>1, <2>1 DEF IInv, BoxesAsClicked
  <2>4. p \in request[b].boxes <=> p \in level
    BY <1>1, <2>2 DEF Checked
  <2>5. p \notin Beyond(b)
    <3>1. request[b].vio_count \in Byte
      BY <1>1 DEF IInv, TypeOK, Requests
    <3> QED
      BY <1>1, <3>1, BoardAssumption DEF Sent, Beyond, Port, vio_port_count, Pins, Byte
  <2>6. CASE p \in Mask(b)
    BY <1>1, <2>4, <2>5, <2>6, MaskedSwitch
  <2>7. CASE p \notin Mask(b)
    <3>1. PICK mask \in SUBSET Beyond(b) : \E value \in SUBSET mask :
            level' = Driven((Mask(b) \cap Sent(b)) \cup mask,
                            (request[b].boxes \cap Sent(b)) \cup value)
      BY <1>1 DEF PinAction
    <3>2. p \notin (Mask(b) \cap Sent(b)) \cup mask
      BY <2>5, <2>7
    <3> QED
      BY <3>1, <3>2 DEF Driven
  <2> QED
    BY <2>6, <2>7
<1>2. IInv /\ [Next]_vars =>
        [\A b \in Browsers, p \in Pins :
           /\ PinAction(b)
           /\ p \in Boxes(b) \cap Sent(b)
           /\ p \notin request[b].clicked
           /\ form[b].func[p] = PIN_SWITCH
           /\ func[p] = Code(PIN_SWITCH)
           /\ p \in form[b].port <=> p \in level
           => (p \in level' <=> p \in level)]_vars
  BY <1>1
<1> QED
  BY Invariance, <1>2, PTL DEF Spec, UntouchedSwitchesKeep
=============================================================================
