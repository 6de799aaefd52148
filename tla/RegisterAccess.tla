--------------------------- MODULE RegisterAccess ---------------------------
(***************************************************************************)
(* What a slave of the gateway promises to Modbus clients, without         *)
(* handlers, chunks or a mapping: a query for data is answered with what   *)
(* the device holds, or refused; a write is refused without any effect, or *)
(* acknowledged and then carried out from the first register to the last.  *)
(* Only a failure of the bus cuts an acknowledged write short, and that    *)
(* leaves a first part of it on the device.                                *)
(*                                                                         *)
(* This holds for proper queries.  Of the others, the ones that start in a *)
(* block of registers and leave it, it promises that a refusal has no      *)
(* effect and that protected registers are never written.  Of writes that  *)
(* are larger than a message can be it promises only the latter: they are  *)
(* refused, and may leave something on the device all the same.            *)
(*                                                                         *)
(* Module Query implements this specification.                             *)
(***************************************************************************)
EXTENDS Naturals

VARIABLES
  device,      \* the registers of the device
  protected,   \* those that clients only read; never changes
  state,       \* "idle", "asked" or "writing"
  proper,      \* the query is a proper one
  oversized,   \* the query is larger than a message can be
  answer,      \* "none", "data", "ack" or "exception"
  told,        \* the values that were answered or acknowledged
  next,        \* of a write: the first register still to be carried out
  failed       \* the bus failed during this query

vars == <<device, protected, state, proper, oversized, answer, told, next, failed>>

Nothing == [r \in {} |-> 0]

Init ==
  /\ state = "idle"
  /\ answer = "none"
  /\ told = Nothing
  /\ next = 0
  /\ failed = FALSE

(* Every action but Store leaves the device alone.                         *)
Untouched == UNCHANGED <<device, protected>>

Ask ==
  /\ state = "idle"
  /\ state' = "asked"
  /\ answer' = "none"
  /\ told' = Nothing
  /\ next' = 0
  /\ failed' = FALSE
  /\ Untouched

(* A function code that the gateway does not serve is refused at once.     *)
Reject ==
  /\ state = "idle"
  /\ state' = "idle"
  /\ answer' = "exception"
  /\ told' = Nothing
  /\ next' = 0
  /\ failed' = FALSE
  /\ Untouched

Refuse ==
  /\ state = "asked"
  /\ state' = "idle"
  /\ answer' = "exception"
  /\ UNCHANGED <<proper, oversized, told, next>>
  /\ Untouched

(* A write refused for its size alone.                                     *)
RefuseAndWrite ==
  /\ state = "asked"
  /\ oversized
  /\ state' = "writing"
  /\ answer' = "exception"
  /\ UNCHANGED <<proper, oversized, told, next, failed>>
  /\ Untouched

(* Values of registers that are not the device's are not promised.         *)
Tell ==
  /\ state = "asked"
  /\ state' = "idle"
  /\ answer' = "data"
  /\ \A r \in DOMAIN told' : told'[r] = device[r]
  /\ UNCHANGED <<proper, oversized, next, failed>>
  /\ Untouched

Acknowledge ==
  /\ state = "asked"
  /\ state' = "writing"
  /\ ~oversized
  /\ answer' = "ack"
  /\ next' \in DOMAIN told'
  /\ \A r \in DOMAIN told' : next' <= r
  /\ UNCHANGED <<proper, oversized, failed>>
  /\ Untouched

(* What the slave stands for: an acknowledged write of the proper kind.    *)
Promised == proper /\ answer = "ack"

(* Some of the registers are carried out, in their order.                  *)
Store ==
  /\ state = "writing"
  /\ IF Promised
     THEN /\ next' > next
          /\ \A r \in next .. next' - 1 : r \in DOMAIN told
          /\ device' = [r \in DOMAIN device |->
                          IF r \in next .. next' - 1 THEN told[r] ELSE device[r]]
     ELSE /\ DOMAIN device' = DOMAIN device
          /\ \A r \in protected : device'[r] = device[r]
  /\ UNCHANGED <<protected, state, proper, oversized, answer, told, failed>>

Complete == next \notin DOMAIN told

Finish ==
  /\ state = "writing"
  /\ state' = "idle"
  /\ Promised => Complete \/ failed'
  /\ next' = 0
  /\ UNCHANGED <<proper, oversized, answer, told>>
  /\ Untouched

Next ==
  \/ Ask \/ Reject \/ Refuse \/ RefuseAndWrite \/ Tell
  \/ Acknowledge \/ Store \/ Finish

Spec == Init /\ [][Next]_vars
=============================================================================
