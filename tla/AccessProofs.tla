---------------------------- MODULE AccessProofs ----------------------------
(***************************************************************************)
(* Module Query implements module RegisterAccess: whatever the handlers    *)
(* and the chunks, a client sees a device of registers that answers,       *)
(* refuses, or acknowledges and then carries out.                          *)
(***************************************************************************)
EXTENDS QueryProofs

-----------------------------------------------------------------------------
(* How the clients see each phase.                                         *)
LEMMA AskedView ==
  ASSUME phase \in {"read", "check"}, reply = "none"
  PROVE  State = "asked" /\ ~Acked /\ Told = Access!Nothing
BY DEF State, Writing, Acked, Told, Access!Nothing

(* A write that modbus_reply acknowledged, ...                             *)
LEMMA WritingView ==
  ASSUME phase = "write", reply = "ack"
  PROVE  State = "writing" /\ Acked /\ Told = [r \in Requested |-> table[r]]
BY DEF State, Writing, Acked, Told

(* ... and one that it refused, for its count or for another reason.       *)
LEMMA RefusedView ==
  ASSUME phase = "write", reply = "exception"
  PROVE  /\ State = IF Oversized THEN "writing" ELSE "idle"
         /\ ~Acked /\ Told = Access!Nothing
BY DEF State, Writing, Acked, Told, Access!Nothing

(* Between two queries.                                                    *)
LEMMA IdleView ==
  ASSUME phase = "idle"
  PROVE  State = "idle" /\ ~Acked
BY DEF State, Writing, Acked

(* The view of the next state.                                             *)
LEMMA NextView ==
  /\ phase' \in {"read", "check"} /\ reply' = "none" =>
       State' = "asked" /\ ~Acked' /\ Told' = Access!Nothing
  /\ phase' = "write" /\ reply' = "ack" =>
       State' = "writing" /\ Acked' /\ Told' = [r \in Requested' |-> table'[r]]
  /\ phase' = "idle" => State' = "idle" /\ ~Acked'
  /\ phase' = "write" /\ reply' = "exception" =>
       State' = (IF Oversized' THEN "writing" ELSE "idle") /\ ~Acked'
  /\ reply' \in {"none", "exception"} => Told' = Access!Nothing
BY DEF State, Writing, Acked, Told, Access!Nothing

(* A query leaves the slave what it is, and what is asked of it.           *)
LEMMA SameSlave ==
  ASSUME HandleQuery
  PROVE  UNCHANGED <<slave, query, Protected, OneHandler, Requested, ReplyAccepts,
                      Oversized>>
<1>1. UNCHANGED <<slave, query>>
  BY SameQuery
<1> QED
  BY <1>1, SameParts DEF Protected, HoldingList, Handler
-----------------------------------------------------------------------------
(* Step by step.                                                           *)

(* Between queries the slave has nothing to do.                            *)
LEMMA InitImplements == Init => Access!Init
BY IdleView DEF Init, Access!Init, Told, Access!Nothing

(* A new query is asked, or rejected for its function code.                *)
LEMMA ReceiveImplements ==
  ASSUME NEW fc \in Codes, NEW address, NEW count, Receive(fc, address, count)
  PROVE  Access!Ask \/ Access!Reject
<1>1. /\ State = "idle" /\ ~Acked' /\ Told' = Access!Nothing
      /\ busFailed' = FALSE /\ UNCHANGED <<slave, board>>
      /\ \/ reply' = "exception" /\ State' = "idle"
         \/ reply' = "none" /\ State' = "asked"
  BY IdleView, NextView DEF Receive
<1>2. UNCHANGED Protected
  BY <1>1 DEF Protected, HoldingList, Handler
<1> QED
  BY <1>1, <1>2 DEF Access!Ask, Access!Reject, Access!Untouched

(* A turn that reads or checks is invisible.                               *)
LEMMA TurnStutters ==
  ASSUME RepliesFit, ReadChunk \/ CheckChunk
  PROVE  UNCHANGED Access!vars
<1>1. /\ HandleQuery /\ phase \in {"read", "check"} /\ reply = "none"
      /\ UNCHANGED <<board, phase, reply, busFailed>>
  BY DEF ReadChunk, CheckChunk, HandleQuery, RepliesFit
<1> QED
  BY <1>1, AskedView, NextView, SameSlave DEF Access!vars

(* No handler, a handler that refuses, or a bus that fails.                *)
LEMMA RefusalImplements ==
  ASSUME RepliesFit, ReadRefused \/ CheckRefused
  PROVE  Access!Refuse
<1>1. /\ HandleQuery /\ phase \in {"read", "check"} /\ reply = "none"
      /\ phase' = "idle" /\ reply' = "exception" /\ UNCHANGED board
  BY DEF ReadRefused, CheckRefused, HandleQuery, RepliesFit
<1> QED
  BY <1>1, AskedView, NextView, SameSlave DEF Access!Refuse, Access!Untouched

(* The answer to a read is fresh.                                          *)
LEMMA AnswerImplements ==
  ASSUME RepliesFit, ReadsAreFresh', ReadAnswered
  PROVE  Access!Tell \/ Access!Refuse
<1>1. /\ HandleQuery /\ phase = "read" /\ reply = "none"
      /\ phase' = "idle" /\ reply' \in {"data", "exception"}
      /\ UNCHANGED <<board, table, busFailed>>
  BY DEF ReadAnswered, HandleQuery, RepliesFit
<1>2. CASE reply' = "exception"
  BY <1>1, <1>2, AskedView, NextView, SameSlave DEF Access!Refuse, Access!Untouched
<1>3. CASE reply' = "data"
  <2>1. \A r \in DOMAIN Told' : Told'[r] = board[r]
    BY <1>1, <1>3 DEF Told, ReadsAreFresh
  <2> QED
    BY <1>1, <1>3, <2>1, AskedView, NextView, SameSlave DEF Access!Tell, Access!Untouched
<1> QED
  BY <1>1, <1>2, <1>3

(* modbus_reply decides about a write.                                     *)
LEMMA WriteAnswerImplements ==
  ASSUME TypeOK, RepliesFit, WriteAnswered
  PROVE  Access!Acknowledge \/ Access!Refuse \/ Access!RefuseAndWrite
<1>1. /\ HandleQuery /\ phase = "check" /\ reply = "none"
      /\ phase' = "write" /\ cur_address' = query.address
      /\ reply' = IF ReplyAccepts THEN "ack" ELSE "exception"
      /\ UNCHANGED <<board, busFailed>>
  BY DEF WriteAnswered, HandleQuery, RepliesFit, Restart
<1>2. CASE reply' = "exception" /\ ~Oversized
  BY <1>1, <1>2, AskedView, NextView, SameSlave DEF Access!Refuse, Access!Untouched
<1>4. CASE reply' = "exception" /\ Oversized
  BY <1>1, <1>4, AskedView, NextView, SameSlave DEF Access!RefuseAndWrite, Access!Untouched
<1>3. CASE reply' = "ack"
  <2>1. query.address \in Nat /\ query.count \in Nat \ {0}
    BY <1>1, <1>3, Width DEF TypeOK, ReplyAccepts
  <2>2. query.address \in Requested /\ \A r \in Requested : query.address <= r
    BY <2>1 DEF Requested
  <2>4. ~Oversized
    BY <1>1, <1>3 DEF ReplyAccepts
  <2>3. DOMAIN Told' = Requested
    BY <1>1, <1>3, NextView, SameSlave
  <2> QED
    BY <1>1, <1>3, <2>2, <2>3, <2>4, AskedView, NextView, SameSlave
    DEF Access!Acknowledge, Access!Untouched
<1> QED
  BY <1>1, <1>2, <1>3, <1>4

(* What a turn of the second loop sends is next of what was acknowledged.  *)
LEMMA StoreImplements ==
  ASSUME IInv, WriteChunk
  PROVE  Access!Store
<1> USE DEF IInv
<1>1. /\ HandleQuery /\ phase = "write" /\ More /\ WriteServed /\ query.fc \in Writes
      /\ UNCHANGED <<table, phase, reply, busFailed>>
  BY DEF WriteChunk, HandleQuery, TypeOK
<1>2. reply = "ack" \/ (reply = "exception" /\ Oversized)
  <2>1. reply \in {"ack", "exception"}
    BY <1>1 DEF RepliesFit
  <2>2. reply = "exception" /\ ~Oversized => FALSE
    BY <1>1, RefusedNotServed DEF RepliesFit, RefusedStandsStill
  <2> QED
    BY <2>1, <2>2
<1>3. State = "writing" /\ State' = "writing" /\ Told' = Told
  BY <1>1, <1>2, WritingView, RefusedView, NextView, SameSlave
<1>7. reply = "ack" =>
        /\ Acked /\ Acked' /\ ~Oversized
        /\ Told = [r \in Requested |-> table[r]]
  BY <1>1, WritingView, NextView DEF RepliesFit, ReplyAccepts
<1>4. DOMAIN board = Regs /\ DOMAIN board' = Regs
  BY DEF WriteChunk, TypeOK
<1>5. ASSUME OneHandler, reply = "ack"
      PROVE  /\ cur_address' > cur_address
             /\ \A r \in cur_address .. cur_address' - 1 : r \in DOMAIN Told
             /\ board' = [r \in DOMAIN board |->
                            IF r \in cur_address .. cur_address' - 1
                            THEN Told[r] ELSE board[r]]
  <2>1. cur_address = query.address
    BY <1>1, <1>5 DEF WrittenAtOnce
  <2>2. Served = query.count /\ Current.class # "Register"
    BY <1>1, <1>5, <1>7, <2>1, AtOnce
  <2>3. cur_address' = cur_address + Served /\ Served > 0
    BY Turns
  <2>4. cur_address \in Nat /\ Served \in Nat
    BY <2>2, Width DEF TypeOK
  <2>5. cur_address .. cur_address' - 1 = Requested /\ Chunk = Requested
    BY <2>1, <2>2, <2>3, <2>4 DEF Requested, Chunk
  <2>6. board' = [r \in Regs |-> IF r \in Requested THEN table[r] ELSE board[r]]
    BY <2>2, <2>5 DEF WriteChunk
  <2> QED
    BY <1>4, <1>5, <1>7, <2>3, <2>4, <2>5, <2>6
<1>6. \A r \in Protected : board'[r] = board[r]
  BY <1>1, ProtectedUntouched DEF Next
<1> QED
  BY <1>1, <1>3, <1>4, <1>5, <1>6, <1>7, SameSlave DEF Access!Store, Access!Promised

(* The second loop ends with all of it, or with a bus that failed.         *)
LEMMA FinishImplements ==
  ASSUME IInv, WriteGivenUp \/ WriteDone, reply = "ack" \/ Oversized
  PROVE  Access!Finish
<1> USE DEF IInv
<1>1. /\ HandleQuery /\ phase = "write" /\ phase' = "idle"
      /\ UNCHANGED <<table, board, reply>>
  BY DEF WriteGivenUp, WriteDone, HandleQuery
<1>2. /\ State = "writing" /\ State' = "idle" /\ ~Acked' /\ Told' = Told
      /\ reply = "ack" => Acked /\ Told = [r \in Requested |-> table[r]]
  <2>1. reply \in {"ack", "exception"}
    BY <1>1 DEF RepliesFit
  <2> QED
    BY <1>1, <2>1, WritingView, RefusedView, NextView, SameSlave DEF Told
<1>3. ASSUME OneHandler, WriteGivenUp, reply = "ack" PROVE busFailed'
  <2>1. /\ More /\ cur_address = query.address
        /\ ~ReadOnly(Handler[FirstHandler])
    BY <1>1, <1>3 DEF WriteGivenUp, WrittenAtOnce
  <2>2. WriteServed
    BY <1>1, <1>3, <2>1, AcknowledgedIsServed
  <2> QED
    BY <1>3, <2>2 DEF WriteGivenUp
<1>4. ASSUME WriteDone PROVE cur_address \notin Requested
  BY <1>4, Width DEF WriteDone, More, Requested, TypeOK
<1> QED
  BY <1>1, <1>2, <1>3, <1>4, SameSlave
  DEF Access!Finish, Access!Complete, Access!Promised, Access!Untouched

(* For a write that was refused, and not for its count, the second loop    *)
(* ends unseen: no handler serves it, so that no transfer can fail for it  *)
(* either.                                                                 *)
LEMMA RefusedStutters ==
  ASSUME IInv, WriteGivenUp \/ WriteDone, reply = "exception", ~Oversized
  PROVE  UNCHANGED Access!vars
<1> USE DEF IInv
<1>1. /\ HandleQuery /\ phase = "write" /\ phase' = "idle"
      /\ UNCHANGED <<board, reply>>
  BY DEF WriteGivenUp, WriteDone, HandleQuery
<1>2. UNCHANGED busFailed
  <2>1. CASE WriteGivenUp
    <3>1. More /\ cur_address = query.address /\ ~ReplyAccepts
      BY <1>1, <2>1 DEF WriteGivenUp, RepliesFit, RefusedStandsStill
    <3>2. ~WriteServed
      BY <1>1, <3>1, RefusedNotServed
    <3> QED
      BY <2>1, <3>2 DEF WriteGivenUp
  <2>2. CASE WriteDone
    BY <2>2 DEF WriteDone
  <2> QED
    BY <2>1, <2>2
<1> QED
  BY <1>1, <1>2, RefusedView, NextView, SameSlave DEF Access!vars

(* Every step of handleQuery is one of the abstract slave, or unseen.      *)
LEMMA StepImplements ==
  IInv /\ IInv' /\ [Next]_vars => [Access!Next]_(Access!vars)
<1> SUFFICES ASSUME IInv, IInv', [Next]_vars
             PROVE  Access!Next \/ UNCHANGED Access!vars
  OBVIOUS
<1>0. TypeOK /\ RepliesFit /\ ReadsAreFresh'
  BY DEF IInv
<1>1. ASSUME NEW fc \in Codes, NEW address \in Addresses[slave],
             NEW count \in Counts[slave], Receive(fc, address, count)
      PROVE  Access!Next
  BY <1>1, ReceiveImplements DEF Access!Next
<1>2. CASE ReadChunk \/ CheckChunk
  BY <1>0, <1>2, TurnStutters
<1>3. CASE ReadRefused \/ CheckRefused
  BY <1>0, <1>3, RefusalImplements DEF Access!Next
<1>4. CASE ReadAnswered
  BY <1>0, <1>4, AnswerImplements DEF Access!Next
<1>5. CASE WriteAnswered
  BY <1>0, <1>5, WriteAnswerImplements DEF Access!Next
<1>6. CASE WriteChunk
  BY <1>6, StoreImplements DEF Access!Next
<1>7. CASE WriteGivenUp \/ WriteDone
  <2>1. reply \in {"ack", "exception"}
    BY <1>0, <1>7 DEF WriteGivenUp, WriteDone, RepliesFit
  <2> QED
    BY <1>7, <2>1, FinishImplements, RefusedStutters DEF Access!Next
<1>8. CASE UNCHANGED vars
  BY <1>8 DEF vars, loopVars, Access!vars, Protected, HoldingList, Handler, State,
     Writing, Acked, Oversized, OneHandler, List, Blocks, HoldingBlocks, InputList, Requested, Told
<1> QED
  BY <1>1, <1>2, <1>3, <1>4, <1>5, <1>6, <1>7, <1>8 DEF Next, HandleQuery

(* Connection::handleQuery gives clients the service of RegisterAccess, on *)
(* any layout and for any query that can be asked.                         *)
THEOREM Refinement == Spec => ImplementsAccess
<1>1. IInv /\ IInv' /\ [Next]_vars => [Access!Next]_(Access!vars)
  BY StepImplements
<1> QED
  BY <1>1, InitImplements, Invariance, PTL DEF Spec, ImplementsAccess, Access!Spec
=============================================================================
