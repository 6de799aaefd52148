----------------------------- MODULE QueryProofs -----------------------------
(***************************************************************************)
(* Proofs about module Query, for every layout of handlers with the        *)
(* properties that LayoutAssumption names.                                 *)
(***************************************************************************)
EXTENDS Query, TLAPS

-----------------------------------------------------------------------------
(* Arithmetic of 16 bits.                                                  *)
LEMMA Width ==
  /\ Limit \in Nat /\ Limit > 1
  /\ Limit \div 2 \in Nat /\ 2 * (Limit \div 2) = Limit
  /\ 0 .. (Limit \div 2) - 1 \subseteq 0 .. Limit - 1
BY HandlersAssumption, QueryAssumption

(* What 16 bits hold, ...                                                  *)
LEMMA U16Type == \A n \in Int : U16(n) \in 0 .. Limit - 1
BY Width DEF U16

(* ... and what they do not change.                                        *)
LEMMA U16Same == \A n \in 0 .. Limit - 1 : U16(n) = n
BY Width DEF U16

(* Twice a number of 16 bits stays even when it is cut to 16 bits.         *)
LEMMA U16Double ==
  ASSUME NEW n \in 0 .. Limit - 1
  PROVE  /\ U16(2 * n) = 2 * (U16(2 * n) \div 2)
         /\ U16(2 * n) \div 2 \in 0 .. (Limit \div 2) - 1
         /\ U16(2 * n) % 2 = 0
         /\ n < Limit \div 2 => U16(2 * n) \div 2 = n
<1>1. CASE 2 * n < Limit
  <2>1. U16(2 * n) = 2 * n
    BY <1>1, Width, U16Same
  <2> QED
    BY <1>1, <2>1, Width
<1>2. CASE 2 * n >= Limit
  <2>1. U16(2 * n) = 2 * n - Limit
    BY <1>2, Width DEF U16
  <2>2. 2 * n - Limit = 2 * (n - (Limit \div 2))
    BY Width
  <2> QED
    BY <1>2, <2>1, <2>2, Width
<1> QED
  BY <1>1, <1>2, Width

-----------------------------------------------------------------------------
(* What a handler reports.                                                 *)
LEMMA BusDone ==
  ASSUME NEW h, h.class # "Register", h.fixed \in Int, h.fixed < 0,
         NEW n \in 0 .. Limit - 1
  PROVE  /\ Done(h, n) = ByteCount(h, n) \div 2
         /\ ByteCount(h, n) \div 2 \in 0 .. (Limit \div 2) - 1
         /\ U16(Done(h, n)) = Done(h, n)
         /\ n < Limit \div 2 => Done(h, n) = n
<1>1. ByteCount(h, n) = U16(2 * n)
  BY DEF ByteCount
<1>2. Done(h, n) = U16(2 * n) \div 2
  <2>1. Done(h, n) = U16(2 * n) \div 2 + (U16(2 * n) % 2)
    BY <1>1 DEF Done
  <2> QED
    BY <2>1, U16Double, Width
<1>3. U16(2 * n) \div 2 \in 0 .. Limit - 1
  BY U16Double, Width
<1> QED
  BY <1>1, <1>2, <1>3, U16Double, U16Same, Width

(* A handler reports a number of 16 bits.                                  *)
LEMMA DoneType ==
  ASSUME NEW h, h.fixed \in Int, NEW n \in 0 .. Limit - 1
  PROVE  Done(h, n) \in Nat
<1>1. ByteCount(h, n) \in Nat
  BY U16Type, Width DEF ByteCount
<1>2. ByteCount(h, n) \div 2 \in Nat /\ ByteCount(h, n) % 2 \in Nat
  BY <1>1
<1> QED
  BY <1>2, Width DEF Done

(* The properties of the slave in work.                                    *)
LEMMA LayoutFacts ==
  ASSUME TypeOK
  PROVE  /\ NbRegisters \in 0 .. Limit \div 2
         /\ NbInputRegisters \in 0 .. Limit \div 2
         /\ \A h \in DOMAIN Handler :
              /\ Handler[h].fixed \in Int
              /\ \/ Handler[h].fixed < 0
                 \/ Handler[h].class = "Register" /\ Handler[h].fixed = 1
         /\ \A r \in DOMAIN HoldingList :
              /\ r \in Regs
              /\ HoldingList[r] \in DOMAIN Handler
              /\ Handler[HoldingList[r]].class # "Register"
              /\ Handler[HoldingList[r]].wide \/ 2 * r < ByteLimit
         /\ DOMAIN HoldingBlocks \subseteq Nat
         /\ \A i \in DOMAIN HoldingBlocks :
              /\ HoldingBlocks[i].handler \in DOMAIN Handler
              /\ HoldingBlocks[i].first \in Nat
              /\ HoldingBlocks[i].last \in Int
              /\ HoldingBlocks[i].last < NbRegisters
              /\ Handler[HoldingBlocks[i].handler].class # "Register"
              /\ \A r \in HoldingBlocks[i].first .. HoldingBlocks[i].last :
                   Handler[HoldingBlocks[i].handler].wide \/ 2 * r < ByteLimit
              /\ \A j \in DOMAIN HoldingBlocks :
                   i < j => \/ HoldingBlocks[i].last < HoldingBlocks[j].first
                            \/ HoldingBlocks[j].last < HoldingBlocks[i].first
         /\ DOMAIN InputList \subseteq Nat
         /\ \A r \in DOMAIN InputList :
              /\ InputList[r] \in DOMAIN Handler
              /\ Handler[InputList[r]].class \in {"MultiByte", "Data", "Register"}
              /\ Handler[InputList[r]].wide \/ 2 * r < ByteLimit
         /\ DOMAIN InitRange = DOMAIN Handler
         /\ "none" \notin DOMAIN Handler
<1>1. slave \in Slaves
  BY DEF TypeOK
<1> USE <1>1, QueryAssumption, LayoutAssumption
    DEF Handler, HoldingList, HoldingBlocks, InputList, NbRegisters,
        NbInputRegisters, InitRange, Regs, WellFormed, Arranged
<1> QED
  BY Width

-----------------------------------------------------------------------------
(* The selection of a handler.                                             *)
LEMMA RestType == TypeOK => Rest \in 0 .. Limit - 1
BY U16Type, Width DEF TypeOK, Rest

(* Blocks do not overlap: a register is in one of them at most.            *)
LEMMA OneHit ==
  ASSUME TypeOK, NEW i \in Hits
  PROVE  Hits = {i} /\ i \in DOMAIN HoldingBlocks /\ Blocks = HoldingBlocks
<1>1. Blocks = HoldingBlocks
  BY DEF Hits, Blocks
<1>2. \A j \in Hits : j = i
  <2> TAKE j \in Hits
  <2>1. i \in Nat /\ j \in Nat /\ i \in DOMAIN HoldingBlocks /\ j \in DOMAIN HoldingBlocks
    BY <1>1, LayoutFacts DEF Hits
  <2>2. /\ HoldingBlocks[i].first <= cur_address /\ cur_address <= HoldingBlocks[i].last
        /\ HoldingBlocks[j].first <= cur_address /\ cur_address <= HoldingBlocks[j].last
    BY <1>1 DEF Hits
  <2>3. cur_address \in Int
    BY Width DEF TypeOK
  <2>4. ~(i < j) /\ ~(j < i)
    BY <2>1, <2>2, <2>3, LayoutFacts
  <2> QED
    BY <2>1, <2>4
<1> QED
  BY <1>1, <1>2 DEF Hits

(* Either the list or the one block that has the address.                  *)
LEMMA TargetCases ==
  ASSUME TypeOK, Found
  PROVE  \/ /\ cur_address \in DOMAIN List
            /\ Target = [handler |-> List[cur_address], count |-> Rest]
         \/ /\ cur_address \notin DOMAIN List
            /\ \E i \in Hits : Target = [handler |-> HoldingBlocks[i].handler,
                                        count |-> Clamped(HoldingBlocks[i])]
<1>1. CASE cur_address \in DOMAIN List
  BY <1>1 DEF Target
<1>2. CASE cur_address \notin DOMAIN List
  <2>1. PICK i \in Hits : TRUE
    BY <1>2 DEF Found, Target
  <2>2. (CHOOSE k \in Hits : \A j \in Hits : j <= k) = i
    BY <2>1, OneHit, LayoutFacts
  <2> QED
    BY <1>2, <2>1, <2>2, OneHit DEF Found, Target
<1> QED
  BY <1>1, <1>2

(* The clamp gives a count of 16 bits.                                     *)
LEMMA ClampedType ==
  ASSUME TypeOK, NEW i \in Hits
  PROVE  Clamped(HoldingBlocks[i]) \in 0 .. Limit - 1
<1>1. HoldingBlocks[i].last - Rest + 1 \in Int
  BY OneHit, LayoutFacts, RestType
<1> QED
  BY <1>1, RestType, U16Type DEF Clamped

(* What the selection finds is a handler with a count of 16 bits.          *)
LEMMA TargetFacts ==
  ASSUME TypeOK, Found
  PROVE  /\ Target.handler \in DOMAIN Handler
         /\ Target.count \in 0 .. Limit - 1
         /\ Current.fixed \in Int
         /\ Current.class # "Register" => Current.fixed < 0
         /\ query.fc # "input" => cur_address \in Regs /\ Current.class # "Register"
<1>1. CASE /\ cur_address \in DOMAIN List
           /\ Target = [handler |-> List[cur_address], count |-> Rest]
  BY <1>1, RestType, LayoutFacts DEF List, Current
<1>2. CASE \E i \in Hits : Target = [handler |-> HoldingBlocks[i].handler,
                                     count |-> Clamped(HoldingBlocks[i])]
  <2>1. PICK i \in Hits : Target = [handler |-> HoldingBlocks[i].handler,
                                    count |-> Clamped(HoldingBlocks[i])]
    BY <1>2
  <2>2. /\ i \in DOMAIN HoldingBlocks
        /\ HoldingBlocks[i].first <= cur_address /\ cur_address <= HoldingBlocks[i].last
    BY OneHit DEF Hits
  <2>3. cur_address \in Regs
    BY <2>2, LayoutFacts, Width DEF Regs, TypeOK
  <2> QED
    BY <2>1, <2>2, <2>3, ClampedType, LayoutFacts DEF Current
<1> QED
  BY <1>1, <1>2, TargetCases

(* How far a handler gets.                                                 *)
LEMMA ServedFacts ==
  ASSUME TypeOK, Found
  PROVE  /\ Served \in 0 .. Limit - 1
         /\ Served <= Done(Current, Target.count)
         /\ Current.class # "Register" =>
              /\ Served = ByteCount(Current, Target.count) \div 2
              /\ Served < Limit \div 2
              /\ Target.count < Limit \div 2 => Served = Target.count
<1>1. Done(Current, Target.count) \in Nat
  BY TargetFacts, DoneType
<1>2. Served \in 0 .. Limit - 1 /\ Served <= Done(Current, Target.count)
  <2>1. CASE Done(Current, Target.count) \in 0 .. Limit - 1
    BY <2>1, U16Same, Width DEF Served
  <2>2. CASE Done(Current, Target.count) >= Limit
    BY <1>1, <2>2, U16Type, Width DEF Served
  <2> QED
    BY <1>1, <2>1, <2>2, Width
<1>3. ASSUME Current.class # "Register"
      PROVE  /\ Served = ByteCount(Current, Target.count) \div 2
             /\ Served < Limit \div 2
             /\ Target.count < Limit \div 2 => Served = Target.count
  BY <1>3, TargetFacts, BusDone, Width DEF Served
<1> QED
  BY <1>2, <1>3
-----------------------------------------------------------------------------
(* Types.                                                                  *)
LEMMA InitTypeOK == Init => TypeOK
<1> SUFFICES ASSUME Init PROVE TypeOK
  OBVIOUS
<1>1. slave \in Slaves /\ DOMAIN range = DOMAIN Handler /\ asked \in 0 .. MaxQueries
  BY QueryAssumption DEF Init, Handler, InitRange, WellFormed
<1>2. query \in [fc : Codes, address : 0 .. Limit - 1, count : 0 .. Limit - 1]
  BY Width DEF Init, Codes, Reads, Writes
<1> QED
  BY <1>1, <1>2, Width DEF Init, TypeOK

(* A turn of the loop keeps its counters in 16 bits.                       *)
LEMMA AdvanceType ==
  ASSUME TypeOK, Found, Advance
  PROVE  cur_address' \in 0 .. Limit - 1 /\ register_done' \in 0 .. Limit - 1
<1>1. cur_address + Served \in Int /\ register_done + Served \in Int
  BY ServedFacts, Width DEF TypeOK
<1> QED
  BY <1>1, U16Type DEF Advance

(* Nothing but a new query changes what is asked.                          *)
LEMMA SameQuery ==
  HandleQuery => UNCHANGED <<slave, query, asked>>
BY DEF HandleQuery, ReadChunk, ReadRefused, ReadAnswered, CheckChunk, CheckRefused,
   WriteAnswered, WriteChunk, WriteGivenUp, WriteDone

(* TypeOK is inductive.                                                    *)
LEMMA NextTypeOK == TypeOK /\ [Next]_vars => TypeOK'
<1> SUFFICES ASSUME TypeOK, [Next]_vars PROVE TypeOK'
  OBVIOUS
<1> USE DEF TypeOK
<1>1. ASSUME NEW fc \in Codes, NEW address \in Addresses[slave],
             NEW count \in Counts[slave], Receive(fc, address, count)
      PROVE  TypeOK'
  <2>1. address \in 0 .. Limit - 1 /\ count \in 0 .. Limit - 1 /\ 1 \in 0 .. Limit - 1
        /\ 0 \in 0 .. Limit - 1
    BY Width, QueryAssumption
  <2>2. query' \in [fc : Codes, address : 0 .. Limit - 1, count : 0 .. Limit - 1]
    BY <1>1, <2>1 DEF Receive
  <2>3. asked' \in 0 .. MaxQueries
    BY <1>1, QueryAssumption DEF Receive
  <2>4. cur_address' \in 0 .. Limit - 1 /\ register_done' \in 0 .. Limit - 1
    BY <1>1, <2>1 DEF Receive, Restart
  <2>5. /\ phase' \in {"idle", "read", "check"} /\ reply' \in {"none", "exception"}
        /\ phase' = "read" => query'.fc \in Reads
        /\ phase' \in {"check", "write"} => query'.fc \in Writes
    BY <1>1 DEF Receive, Codes
  <2>6. UNCHANGED <<slave, table, board, range>> /\ busFailed' \in BOOLEAN
    BY <1>1 DEF Receive
  <2> QED
    BY <2>2, <2>3, <2>4, <2>5, <2>6 DEF Handler, Regs, NbRegisters
<1>2. CASE HandleQuery
  <2>0. UNCHANGED <<slave, query, asked, Handler, Regs>>
    BY <1>2, SameQuery DEF Handler, Regs, NbRegisters
  <2>1. CASE ReadChunk
    <3>1. table' \in [Regs -> Nat]
      BY <2>1 DEF ReadChunk
    <3> QED
      BY <2>0, <2>1, <3>1, AdvanceType DEF ReadChunk, ReadServed
  <2>2. CASE ReadRefused \/ ReadAnswered
    BY <2>0, <2>2 DEF ReadRefused, ReadAnswered, loopVars
  <2>3. CASE CheckChunk \/ CheckRefused
    <3>1. DOMAIN range' = DOMAIN range
      BY <2>3 DEF CheckChunk, CheckRefused, RangeAfterCheck
    <3>2. CASE CheckChunk
      BY <2>0, <3>1, <3>2, AdvanceType DEF CheckChunk, CheckServed
    <3>3. CASE CheckRefused
      BY <2>0, <3>1, <3>3 DEF CheckRefused, loopVars
    <3> QED
      BY <2>3, <3>2, <3>3
  <2>4. CASE WriteAnswered
    <3>1. asked + 1 \in Nat
      BY QueryAssumption
    <3>2. table' \in [Regs -> Nat]
      BY <2>4, <3>1 DEF WriteAnswered
    <3> QED
      BY <2>0, <2>4, <3>2, Width DEF WriteAnswered, Restart
  <2>5. CASE WriteChunk
    <3>1. board' \in [Regs -> Nat]
      BY <2>5 DEF WriteChunk
    <3> QED
      BY <2>0, <2>5, <3>1, AdvanceType DEF WriteChunk, WriteServed
  <2>6. CASE WriteGivenUp \/ WriteDone
    BY <2>0, <2>6 DEF WriteGivenUp, WriteDone, loopVars
  <2> QED
    BY <1>2, <2>1, <2>2, <2>3, <2>4, <2>5, <2>6 DEF HandleQuery
<1>3. CASE UNCHANGED vars
  BY <1>3 DEF vars, loopVars, Handler, Regs, NbRegisters
<1> QED
  BY <1>1, <1>2, <1>3 DEF Next

(* Every variable keeps its type, whatever is asked of whichever slave.    *)
THEOREM TypeCorrect == Spec => []TypeOK
BY InitTypeOK, NextTypeOK, PTL DEF Spec
-----------------------------------------------------------------------------
(* The loop.                                                               *)

(* A handler that accepts brings the loop further, within 16 bits.         *)
LEMMA Further ==
  ASSUME TypeOK, Found, Served > 0,
         query.fc = "input" =>
           AcceptsRead(Current, query.fc, cur_address, Target.count,
                       range[Target.handler], Size)
  PROVE  /\ cur_address + Served \in 0 .. Limit - 1
         /\ Advance => cur_address' = cur_address + Served
<1>1. cur_address + Served \in 0 .. Limit - 1
  <2>0. /\ cur_address \in 0 .. Limit - 1 /\ Served \in 0 .. Limit - 1
        /\ NbInputRegisters \in 0 .. Limit \div 2 /\ NbRegisters \in 0 .. Limit \div 2
    BY ServedFacts, LayoutFacts DEF TypeOK
  <2>1. CASE query.fc # "input"
    BY <2>0, <2>1, TargetFacts, ServedFacts, Width DEF Regs
  <2>2. CASE query.fc = "input"
    <3>1. Fits(Current, cur_address, Target.count, NbInputRegisters)
      BY <2>2 DEF AcceptsRead, Size
    <3>2. Done(Current, Target.count) \in Nat
      BY TargetFacts, DoneType
    <3>3. CASE Current.class = "Register"
      BY <2>0, <3>1, <3>2, <3>3, ServedFacts, Width DEF Fits
    <3>4. CASE Current.class # "Register"
      BY <2>0, <3>1, <3>4, ServedFacts, Width DEF Fits
    <3> QED
      BY <3>3, <3>4
  <2> QED
    BY <2>1, <2>2
<1> QED
  BY <1>1, U16Same DEF Advance

(* The three turns of the loop.                                            *)
LEMMA Turns ==
  ASSUME TypeOK, ReadChunk \/ CheckChunk \/ WriteChunk
  PROVE  /\ Found /\ Served > 0 /\ More
         /\ cur_address + Served \in 0 .. Limit - 1
         /\ cur_address' = cur_address + Served
<1>1. CASE ReadChunk
  BY <1>1, Further DEF ReadChunk, ReadServed
<1>2. CASE CheckChunk
  <2>1. query.fc # "input"
    BY <1>2 DEF CheckChunk, TypeOK, Writes
  <2> QED
    BY <1>2, <2>1, Further DEF CheckChunk, CheckServed
<1>3. CASE WriteChunk
  <2>1. query.fc # "input"
    BY <1>3 DEF WriteChunk, TypeOK, Writes
  <2> QED
    BY <1>3, <2>1, Further DEF WriteChunk, WriteServed
<1> QED
  BY <1>1, <1>2, <1>3

(* The loop of handleQuery gets further with every turn: 16 bits neither   *)
(* stand still nor wrap around, whatever count the clamp came to.          *)
THEOREM LoopEnds == Spec => LoopAdvances
<1>1. ASSUME TypeOK, [Next]_vars, phase # "idle", phase' = phase, ~UNCHANGED vars
      PROVE  cur_address' > cur_address
  <2>1. ReadChunk \/ CheckChunk \/ WriteChunk
    BY <1>1 DEF Next, HandleQuery, Receive, ReadRefused, ReadAnswered, CheckRefused,
       WriteAnswered, WriteGivenUp, WriteDone
  <2>2. cur_address \in Int /\ Served \in Int
    BY <1>1, <2>1, Turns, ServedFacts, Width DEF TypeOK
  <2> QED
    BY <1>1, <2>1, <2>2, Turns
<1>2. TypeOK /\ [Next]_vars =>
        [phase # "idle" /\ phase' = phase => cur_address' > cur_address]_vars
  BY <1>1
<1> QED
  BY TypeCorrect, <1>2, PTL DEF Spec, LoopAdvances

(* Whatever reaches the board, it is not meant for a read-only handler.    *)
LEMMA ProtectedUntouched ==
  ASSUME TypeOK, [Next]_vars, NEW r \in Protected
  PROVE  board'[r] = board[r]
<1> SUFFICES ASSUME board'[r] # board[r] PROVE FALSE
  OBVIOUS
<1>1. WriteChunk
  BY DEF Next, HandleQuery, Receive, ReadRefused, ReadAnswered, CheckRefused,
     WriteAnswered, WriteGivenUp, WriteDone, ReadChunk, CheckChunk, vars
<1>2. query.fc # "input" /\ List = HoldingList /\ Blocks = HoldingBlocks
  BY <1>1 DEF WriteChunk, TypeOK, Writes, List, Blocks
<1>3. /\ Found /\ r \in Regs /\ r \in cur_address .. cur_address + Served - 1
      /\ ~ReadOnly(Current)
  BY <1>1, LayoutFacts
  DEF WriteChunk, WriteServed, AcceptsWrite, Chunk, Protected, TypeOK
<1>4. cur_address \in Nat /\ r \in Nat /\ r >= cur_address
  BY <1>3, Width DEF TypeOK, Regs
<1>5. slave \in Slaves /\ r \in DOMAIN HoldingList
      /\ Handler[HoldingList[r]].class \in {"HolRegRO", "Version"}
  BY DEF TypeOK, Protected
<1>6. CASE /\ cur_address \in DOMAIN List
           /\ Target = [handler |-> List[cur_address], count |-> Rest]
  <2>1. Handler[HoldingList[cur_address]].class \notin {"HolRegRO", "Version"}
    BY <1>2, <1>3, <1>6 DEF ReadOnly, Current
  <2>2. r < cur_address
    BY <1>2, <1>5, <1>6, <2>1, LayoutAssumption DEF HoldingList, Handler, Arranged
  <2> QED
    BY <1>4, <2>2
<1>7. CASE \E i \in Hits : TRUE
  <2>1. PICK i \in DOMAIN HoldingBlocks : HoldingBlocks[i].first <= cur_address
    BY <1>2, <1>7 DEF Hits
  <2>2. r < HoldingBlocks[i].first
    BY <1>5, <2>1, LayoutAssumption DEF HoldingList, HoldingBlocks, Handler, Arranged
  <2>3. HoldingBlocks[i].first \in Nat
    BY <2>1, LayoutFacts
  <2> QED
    BY <1>4, <2>1, <2>2, <2>3
<1> QED
  BY <1>3, <1>6, <1>7, TargetCases

(* The registers of the read-only handlers never change on the board.      *)
THEOREM ProtectedKept == Spec => ProtectedNeverWritten
<1>1. TypeOK /\ [Next]_vars => [\A r \in Protected : board'[r] = board[r]]_vars
  BY ProtectedUntouched
<1> QED
  BY TypeCorrect, <1>1, PTL DEF Spec, ProtectedNeverWritten
-----------------------------------------------------------------------------
(* A count within the limits of libmodbus is below half of 16 bits.        *)
LEMMA SizedFacts ==
  ASSUME TypeOK, SingleIsOne, ~Oversized, query.fc # "other"
  PROVE  /\ query.count \in 0 .. (Limit \div 2) - 1
         /\ query.fc = "multiple" => query.count \in 0 .. MaxWrite
BY QueryAssumption, Width DEF TypeOK, SingleIsOne, Oversized, Codes, Reads, Writes

(* Queries for one handler.                                                *)
LEMMA RestFacts ==
  ASSUME TypeOK, InStep, SingleIsOne, phase # "idle", More
  PROVE  /\ Rest = query.address + query.count - cur_address
         /\ Rest \in 1 .. query.count
         /\ cur_address >= query.address
<1>1. query.count - register_done \in 0 .. Limit - 1
  BY Width DEF TypeOK, InStep, More
<1> QED
  BY <1>1, U16Same, Width DEF TypeOK, InStep, More, Rest

(* They are served as a whole, by a handler that reaches them.             *)
LEMMA AtOnce ==
  ASSUME TypeOK, InStep, SingleIsOne, OneHandler, ~Oversized,
         phase # "idle", query.fc \in Writes, cur_address = query.address, More
  PROVE  /\ Found
         /\ Current = Handler[FirstHandler]
         /\ Target.count = query.count
         /\ Served = query.count
         /\ Current.class # "Register" /\ Current.fixed < 0
         /\ Current.wide \/ 2 * cur_address < ByteLimit
<1>0. List = HoldingList /\ Blocks = HoldingBlocks
  BY DEF List, Blocks, Writes
<1>1. Rest = query.count /\ query.count \in 1 .. (Limit \div 2) - 1
  BY RestFacts, SizedFacts, Width DEF Writes, TypeOK
<1>2. CASE cur_address \in DOMAIN HoldingList
  <2>1. Target = [handler |-> FirstHandler, count |-> query.count]
    BY <1>0, <1>1, <1>2 DEF Target, FirstHandler
  <2>2. HoldingList[cur_address] = FirstHandler /\ FirstHandler # "none"
    BY <1>2, LayoutFacts DEF FirstHandler
  <2> QED
    BY <1>1, <1>2, <2>1, <2>2, LayoutFacts, ServedFacts, Width DEF Found, NoTarget, Current
<1>3. CASE cur_address \notin DOMAIN HoldingList
  <2>1. PICK i \in DOMAIN HoldingBlocks :
          Requested \subseteq HoldingBlocks[i].first .. HoldingBlocks[i].last
    BY <1>0, <1>3 DEF OneHandler
  <2>2. /\ HoldingBlocks[i].first \in Nat /\ HoldingBlocks[i].last \in Int
        /\ query.address \in Nat
    BY <2>1, LayoutFacts, Width DEF TypeOK
  <2>3. query.address \in Requested /\ query.address + query.count - 1 \in Requested
    BY <1>1, <2>2 DEF Requested
  <2>4. /\ cur_address \in HoldingBlocks[i].first .. HoldingBlocks[i].last
        /\ cur_address + Rest - 1 <= HoldingBlocks[i].last
    BY <1>1, <2>1, <2>2, <2>3
  <2>5. i \in Hits
    BY <1>0, <2>1, <2>4 DEF Hits
  <2>6. Clamped(HoldingBlocks[i]) = query.count
    BY <1>1, <2>2, <2>4 DEF Clamped
  <2>7. (CHOOSE k \in Hits : \A j \in Hits : j <= k) = i
    BY <2>5, OneHit, LayoutFacts
  <2>8. FirstHandler = HoldingBlocks[i].handler
    <3>1. \A j \in DOMAIN HoldingBlocks :
            query.address \in HoldingBlocks[j].first .. HoldingBlocks[j].last => j \in Hits
      BY <1>0, <2>2, LayoutFacts DEF Hits
    <3>2. \A j \in DOMAIN HoldingBlocks :
            query.address \in HoldingBlocks[j].first .. HoldingBlocks[j].last <=> j = i
      BY <2>1, <2>4, <2>5, <3>1, OneHit
    <3>3. (CHOOSE j \in DOMAIN HoldingBlocks :
            query.address \in HoldingBlocks[j].first .. HoldingBlocks[j].last) = i
      BY <2>1, <3>2
    <3> QED
      BY <1>3, <3>3 DEF FirstHandler
  <2>9. \A j \in Hits : j = i
    BY <2>5, OneHit
  <2>10. Target = [handler |-> FirstHandler, count |-> query.count]
    <3>1. query.count # 0
      BY <1>1, Width
    <3>2. ~(Hits = {} \/ \E j \in Hits : Clamped(Blocks[j]) = 0)
      BY <1>0, <2>5, <2>6, <2>9, <3>1
    <3> QED
      BY <1>0, <1>3, <2>6, <2>7, <2>8, <3>2 DEF Target
  <2>11. FirstHandler # "none"
    BY <2>1, <2>8, LayoutFacts
  <2> QED
    BY <1>1, <2>1, <2>4, <2>8, <2>10, <2>11, LayoutFacts, ServedFacts, Width
    DEF Found, NoTarget, Current
<1> QED
  BY <1>2, <1>3

(* ... so that nothing but the bus can stop what has been acknowledged.    *)
LEMMA AcknowledgedIsServed ==
  ASSUME TypeOK, InStep, SingleIsOne, RepliesFit, OneHandler,
         phase = "write", reply = "ack", cur_address = query.address, More,
         ~ReadOnly(Handler[FirstHandler])
  PROVE  WriteServed
<1>1. query.fc \in Writes
  BY DEF TypeOK
<1>2. List = HoldingList /\ Size = NbRegisters
  BY <1>1 DEF List, Size, Writes
<1>3. query.count \in 1 .. (Limit \div 2) - 1 /\ query.address + query.count <= NbRegisters
  BY <1>1, <1>2, SizedFacts, Width DEF RepliesFit, ReplyAccepts, Writes, TypeOK
<1>o. ~Oversized
  BY DEF RepliesFit, ReplyAccepts
<1>4. Fits(Current, cur_address, Target.count, Size)
  <2>1. ByteCount(Current, Target.count) \div 2 = query.count
    BY <1>1, <1>o, AtOnce, ServedFacts
  <2> QED
    BY <1>1, <1>o, <1>2, <1>3, <2>1, AtOnce DEF Fits
<1>5. Addressable(Current, cur_address)
  <2>1. CASE 2 * cur_address < ByteLimit
    <3>1. 2 * cur_address \in 0 .. Limit - 1
      BY <2>1, HandlersAssumption, Width DEF TypeOK
    <3> QED
      BY <2>1, <3>1, U16Same DEF Addressable
  <2> QED
    BY <1>1, <1>o, <2>1, AtOnce DEF Addressable
<1> QED
  BY <1>1, <1>o, <1>3, <1>4, <1>5, AtOnce DEF WriteServed, AcceptsWrite

(* Twice a number below zero, cut to 16 bits twice over.                   *)
LEMMA U16Wrapped ==
  ASSUME NEW n \in Int, n < 0, -(Limit \div 2) <= n
  PROVE  /\ U16(n) \in 0 .. Limit - 1
         /\ U16(2 * U16(n)) \div 2 = n + (Limit \div 2)
<1>1. U16(n) = n + Limit
  BY Width DEF U16
<1>2. 2 * U16(n) = (2 * n + Limit) + Limit /\ 2 * n + Limit \in 0 .. Limit - 1
  BY <1>1, Width
<1>3. U16(2 * U16(n)) = 2 * n + Limit
  BY <1>2, Width DEF U16
<1>4. 2 * n + Limit = 2 * (n + (Limit \div 2))
  BY Width
<1> QED
  BY <1>1, <1>3, <1>4, Width

(* A write that modbus_reply refused, since it runs past the mapping and   *)
(* not for its count, does not get past the handlers either: what the      *)
(* clamp leaves of it does not fit.                                        *)
LEMMA RefusedNotServed ==
  ASSUME TypeOK, InStep, SingleIsOne, phase = "write", More, ~Oversized,
         cur_address = query.address, ~ReplyAccepts, WriteServed
  PROVE  FALSE
<1>1. query.fc \in Writes /\ Found
  BY DEF TypeOK, WriteServed
<1>2. List = HoldingList /\ Blocks = HoldingBlocks /\ Size = NbRegisters
  BY <1>1 DEF List, Blocks, Size, Writes
<1>3. /\ query.count \in 1 .. (Limit \div 2) - 1 /\ Rest = query.count
      /\ NbRegisters \in 0 .. Limit \div 2
      /\ cur_address \in 0 .. NbRegisters - 1
      /\ cur_address + query.count > NbRegisters
  <2>1. cur_address \in 0 .. NbRegisters - 1
    BY <1>1, TargetFacts DEF Writes, Regs
  <2> QED
    BY <1>1, <1>2, <2>1, RestFacts, SizedFacts, LayoutFacts, Width
    DEF ReplyAccepts, Writes, TypeOK
<1>4. query.fc = "multiple" /\ query.count \in 1 .. MaxWrite
  BY <1>1, <1>3, SizedFacts, QueryAssumption, Width DEF SingleIsOne, Writes
<1>5. Current.class # "Register" /\ Served > 0
  BY <1>1, TargetFacts DEF Writes, WriteServed
<1>6. cur_address + Served <= NbRegisters /\ Served \in Nat
  <2>1. Fits(Current, cur_address, Target.count, NbRegisters)
    BY <1>2, <1>4 DEF WriteServed, AcceptsWrite
  <2> QED
    BY <1>1, <1>5, <2>1, ServedFacts DEF Fits
<1>7. Target.count # Rest
  BY <1>1, <1>3, <1>5, <1>6, ServedFacts, Width
<1>8. PICK i \in Hits : Target.count = Clamped(HoldingBlocks[i])
  BY <1>1, <1>7, TargetCases
<1> DEFINE last == HoldingBlocks[i].last
           left == last - query.count + 1
<1>9. /\ i \in DOMAIN HoldingBlocks /\ last \in Int
      /\ cur_address <= last /\ last < NbRegisters
  BY OneHit, LayoutFacts DEF Hits
<1>10. Target.count = U16(left) /\ left \in Int
  BY <1>3, <1>8, <1>9 DEF Clamped
<1>11. \/ 2 * query.count < last + 2
       \/ last < query.count /\ NbRegisters + query.count <= Limit \div 2
  <2>1. last + query.count > NbRegisters
    BY <1>3, <1>9
  <2>2. slave \in Slaves
    BY DEF TypeOK
  <2> QED
    BY <1>4, <1>9, <2>1, <2>2, LayoutAssumption DEF Clampable, HoldingBlocks, NbRegisters
<1> HIDE DEF last
<1>12. CASE left >= 0
  <2>1. left \in 0 .. (Limit \div 2) - 1
    BY <1>3, <1>9, <1>12, Width
  <2>2. Target.count = left /\ Served = left
    BY <1>1, <1>5, <1>10, <2>1, U16Same, ServedFacts, Width
  <2> QED
    BY <1>3, <1>5, <1>6, <1>9, <1>11, <2>2
<1>13. CASE left < 0
  <2>1. -(Limit \div 2) <= left
    BY <1>3, <1>9, Width
  <2>2. Current.fixed < 0
    BY <1>1, <1>5, TargetFacts
  <2>3. Served = left + (Limit \div 2)
    <3>1. ByteCount(Current, Target.count) = U16(2 * U16(left))
      BY <1>10, <2>2 DEF ByteCount
    <3> QED
      BY <1>1, <1>5, <1>10, <1>13, <2>1, <3>1, U16Wrapped, ServedFacts
  <2> QED
    BY <1>3, <1>6, <1>9, <1>11, <1>13, <2>3, Width
<1> QED
  BY <1>10, <1>12, <1>13
-----------------------------------------------------------------------------
(* The inductive invariant.                                                *)
LEMMA InitIInv == Init => IInv
<1> SUFFICES ASSUME Init PROVE IInv
  OBVIOUS
<1>1. TypeOK
  BY InitTypeOK
<1>2. SingleIsOne
  BY DEF Init, SingleIsOne
<1>3. /\ InStep /\ RepliesFit /\ RefusedStandsStill /\ ReadSoFar
      /\ CheckedAtOnce /\ WrittenAtOnce
  BY DEF Init, InStep, RepliesFit, RefusedStandsStill, ReadSoFar, CheckedAtOnce,
     WrittenAtOnce
<1>4. ReadsAreFresh /\ AcknowledgedIsWritten /\ ListedIsReadable
  BY DEF Init, ReadsAreFresh, AcknowledgedIsWritten, ListedIsReadable
<1> QED
  BY <1>1, <1>2, <1>3, <1>4 DEF IInv

(* What depends on slave and query alone.                                  *)
LEMMA SameParts ==
  ASSUME UNCHANGED <<slave, query>>
  PROVE  UNCHANGED <<Regs, Requested, OneHandler, FirstHandler, Handler, ReplyAccepts,
                      Oversized>>
BY DEF Regs, NbRegisters, Requested, OneHandler, FirstHandler, Handler, ReplyAccepts, Oversized,
   Size, NbInputRegisters, HoldingList, HoldingBlocks, InputList, List, Blocks

(* The two counters of the loop stay in step, and replies fit.             *)
LEMMA NextCounters ==
  ASSUME TypeOK, InStep, SingleIsOne, RepliesFit, [Next]_vars
  PROVE  InStep' /\ SingleIsOne' /\ RepliesFit'
<1>1. ASSUME NEW fc \in Codes, NEW address \in Addresses[slave],
             NEW count \in Counts[slave], Receive(fc, address, count)
      PROVE  InStep' /\ SingleIsOne' /\ RepliesFit'
  <2>1. address \in Int
    BY <1>1, Width, QueryAssumption DEF TypeOK
  <2>2. InStep' /\ SingleIsOne'
    BY <1>1, <2>1, Width DEF Receive, Restart, InStep, SingleIsOne
  <2>3. RepliesFit'
    BY <1>1 DEF Receive, RepliesFit
  <2> QED
    BY <2>2, <2>3
<1>2. CASE ReadChunk \/ CheckChunk \/ WriteChunk
  <2>1. UNCHANGED <<query, slave, phase, reply>>
    BY <1>2 DEF ReadChunk, CheckChunk, WriteChunk
  <2>2. register_done' = register_done + Served
    <3>1. register_done + Served \in 0 .. Limit - 1
      <4>1. phase # "idle"
        BY <1>2 DEF ReadChunk, CheckChunk, WriteChunk
      <4>2. register_done = cur_address - query.address
        BY <4>1 DEF InStep
      <4> QED
        BY <1>2, <4>2, Turns, ServedFacts, Width DEF TypeOK
    <3> QED
      BY <1>2, <3>1, U16Same DEF ReadChunk, CheckChunk, WriteChunk, Advance
  <2>3. InStep'
    BY <1>2, <2>1, <2>2, Turns, ServedFacts, Width DEF InStep, TypeOK
  <2> QED
    BY <2>1, <2>3, SameParts DEF SingleIsOne, RepliesFit
<1>3. CASE ReadRefused \/ CheckRefused \/ ReadAnswered
  BY <1>3 DEF ReadRefused, CheckRefused, ReadAnswered, InStep, SingleIsOne, RepliesFit
<1>4. CASE WriteAnswered
  <2>1. UNCHANGED ReplyAccepts
    BY <1>4, SameParts DEF WriteAnswered
  <2> QED
    BY <1>4, <2>1, Width DEF WriteAnswered, Restart, InStep, SingleIsOne, RepliesFit, TypeOK
<1>5. CASE WriteGivenUp \/ WriteDone
  <2>1. UNCHANGED ReplyAccepts
    BY <1>5, SameParts DEF WriteGivenUp, WriteDone
  <2> QED
    BY <1>5, <2>1 DEF WriteGivenUp, WriteDone, InStep, SingleIsOne, RepliesFit
<1>6. CASE UNCHANGED vars
  <2>1. UNCHANGED ReplyAccepts
    BY <1>6, SameParts DEF vars
  <2> QED
    BY <1>6, <2>1 DEF vars, loopVars, InStep, SingleIsOne, RepliesFit
<1> QED
  BY <1>1, <1>2, <1>3, <1>4, <1>5, <1>6 DEF Next, HandleQuery

(* The loop for a refused write stays at its first turn.                   *)
LEMMA NextRefused ==
  ASSUME TypeOK, InStep, SingleIsOne, RepliesFit, RefusedStandsStill, [Next]_vars
  PROVE  RefusedStandsStill'
<1> USE DEF RefusedStandsStill
<1>1. CASE WriteAnswered
  BY <1>1 DEF WriteAnswered, Restart
<1>2. CASE WriteChunk
  <2>1. Oversized \/ reply # "exception"
    <3>1. Oversized \/ ReplyAccepts \/ reply # "exception"
      BY <1>2, RefusedNotServed DEF WriteChunk
    <3> QED
      BY <1>2, <3>1 DEF WriteChunk, RepliesFit
  <2>2. UNCHANGED <<reply, Oversized>>
    BY <1>2, SameParts DEF WriteChunk
  <2> QED
    BY <2>1, <2>2
<1>3. CASE UNCHANGED vars
  BY <1>3, SameParts DEF vars, loopVars
<1>4. ASSUME Next, ~WriteAnswered, ~WriteChunk PROVE phase' # "write"
  BY <1>4 DEF Next, HandleQuery, Receive, ReadRefused, ReadAnswered, ReadChunk,
     CheckChunk, CheckRefused, WriteGivenUp, WriteDone
<1> QED
  BY <1>1, <1>2, <1>3, <1>4

(* A read: every turn refreshes the registers it passes.                   *)
LEMMA NextRead ==
  ASSUME TypeOK, InStep, RepliesFit, ReadSoFar, ReadsAreFresh, [Next]_vars
  PROVE  ReadSoFar' /\ ReadsAreFresh'
<1>1. ASSUME NEW fc \in Codes, NEW address \in Addresses[slave],
             NEW count \in Counts[slave], Receive(fc, address, count)
      PROVE  ReadSoFar' /\ ReadsAreFresh'
  <2>1. reply' # "data" /\ cur_address' = query'.address /\ query'.address \in Int
    BY <1>1, QueryAssumption DEF Receive, Restart, TypeOK
  <2>2. query'.count \in Int
    BY <1>1, QueryAssumption, Width DEF Receive, TypeOK
  <2>3. ReadSoFar'
    BY <2>1, <2>2 DEF ReadSoFar, Requested
  <2> QED
    BY <2>1, <2>3 DEF ReadsAreFresh
<1>2. CASE ReadChunk
  <2>1. UNCHANGED <<slave, query, board, phase, reply>>
    BY <1>2 DEF ReadChunk
  <2>2. reply = "none"
    BY <1>2 DEF ReadChunk, RepliesFit
  <2>3. ASSUME query.fc = "holding", NEW r \in Requested \cap Regs, r < cur_address'
        PROVE  table'[r] = board[r]
    <3>1. cur_address' = cur_address + Served /\ Found
      BY <1>2, Turns
    <3>2. r \in Int /\ cur_address \in Int /\ Served \in Int
      <4>1. r \in Int
        BY <2>3, LayoutFacts DEF Regs
      <4>2. cur_address \in Int
        BY Width DEF TypeOK
      <4>3. Served \in Int
        BY <3>1, ServedFacts
      <4> QED
        BY <4>1, <4>2, <4>3
    <3>3. r < cur_address \/ r \in Chunk
      BY <2>3, <3>1, <3>2 DEF Chunk
    <3>4. Current.class # "Register"
      BY <2>3, <3>1, TargetFacts
    <3>5. r < cur_address => table[r] = board[r]
      BY <1>2, <2>3 DEF ReadChunk, ReadSoFar
    <3> QED
      BY <1>2, <3>3, <3>4, <3>5 DEF ReadChunk
  <2>4. ReadSoFar'
    BY <2>1, <2>3, SameParts DEF ReadSoFar
  <2> QED
    BY <2>1, <2>2, <2>4 DEF ReadsAreFresh
<1>3. CASE ReadAnswered
  <2>1. UNCHANGED <<slave, query, board, table>> /\ phase' = "idle"
    BY <1>3 DEF ReadAnswered
  <2>2. ASSUME reply' = "data", query.fc = "holding", NEW r \in Requested
        PROVE  table[r] = board[r]
    <3>1. query.address \in Nat /\ query.count \in Nat /\ cur_address \in Nat
          /\ NbRegisters \in Nat
      BY LayoutFacts, Width DEF TypeOK
    <3>2. query.address + query.count <= NbRegisters
      BY <1>3, <2>2 DEF ReadAnswered, ReplyAccepts, Size
    <3>3. r \in Regs /\ r < cur_address
      BY <1>3, <2>2, <3>1, <3>2 DEF ReadAnswered, More, Requested, Regs
    <3> QED
      BY <1>3, <2>2, <3>3 DEF ReadAnswered, ReadSoFar
  <2> QED
    BY <2>1, <2>2, SameParts DEF ReadSoFar, ReadsAreFresh
<1>4. CASE ReadRefused \/ CheckRefused \/ CheckChunk \/ WriteAnswered
  BY <1>4 DEF ReadRefused, CheckRefused, CheckChunk, WriteAnswered, RepliesFit,
     ReadSoFar, ReadsAreFresh
<1>5. CASE WriteChunk \/ WriteGivenUp \/ WriteDone
  BY <1>5 DEF WriteChunk, WriteGivenUp, WriteDone, RepliesFit, ReadSoFar, ReadsAreFresh
<1>6. CASE UNCHANGED vars
  <2>1. UNCHANGED <<Requested, Regs>>
    BY <1>6, SameParts DEF vars
  <2> QED
    BY <1>6, <2>1 DEF vars, loopVars, ReadSoFar, ReadsAreFresh
<1> QED
  BY <1>1, <1>2, <1>3, <1>4, <1>5, <1>6 DEF Next, HandleQuery

(* A register of the list, of a slave without data in units, is served.    *)
LEMMA ListedServed ==
  ASSUME TypeOK, InStep, SingleIsOne, phase = "read", More, ~Oversized,
         Requested \subseteq DOMAIN List \cap 0 .. Size - 1,
         \A h \in DOMAIN Handler : Handler[h].class \notin {"Data", "Version"}
  PROVE  ReadServed
<1>1. /\ query.address \in Nat /\ query.count \in Nat /\ cur_address \in 0 .. Limit - 1
      /\ Size \in Nat /\ query.fc \in Reads
  BY LayoutFacts, Width DEF TypeOK, Size
<1>2. /\ Rest = query.address + query.count - cur_address
      /\ Rest \in 1 .. query.count /\ cur_address >= query.address
  BY RestFacts
<1>3. cur_address \in Requested /\ query.address + query.count - 1 \in Requested
  BY <1>1, <1>2 DEF More, Requested
<1>4. cur_address \in DOMAIN List /\ query.address + query.count <= Size
  BY <1>1, <1>3
<1>5. /\ Target = [handler |-> List[cur_address], count |-> Rest]
      /\ Current = Handler[List[cur_address]]
  BY <1>4 DEF Target, Current
<1>6. /\ List[cur_address] \in DOMAIN Handler
      /\ Current.fixed < 0 \/ (Current.class = "Register" /\ Current.fixed = 1)
      /\ Current.fixed \in Int
      /\ Current.wide \/ 2 * cur_address < ByteLimit
      /\ query.fc = "input" => Current.class \in {"MultiByte", "Data", "Register"}
      /\ Current.class \notin {"Data", "Version"}
  BY <1>4, <1>5, LayoutFacts DEF List
<1>7. Found
  BY <1>5, <1>6, LayoutFacts DEF Found, NoTarget
<1>8. Target.count = Rest /\ Rest \in 1 .. (Limit \div 2) - 1
  BY <1>1, <1>2, <1>5, SizedFacts, Width DEF Reads
<1>9. Served > 0 /\ Fits(Current, cur_address, Target.count, Size)
  <2>1. CASE Current.class # "Register"
    <3>0. Rest < Limit \div 2
      BY <1>8, Width
    <3>1. ByteCount(Current, Target.count) \div 2 = Rest /\ Served = Rest
      BY <1>7, <1>8, <2>1, <3>0, ServedFacts
    <3> QED
      BY <1>1, <1>2, <1>4, <1>8, <2>1, <3>1, Width DEF Fits
  <2>2. CASE Current.class = "Register"
    <3>1. Done(Current, Target.count) \in {1, Rest}
      BY <1>6, <1>8, <2>2 DEF Done
    <3>2. Done(Current, Target.count) \in 1 .. Rest
      BY <1>8, <3>1, Width
    <3>3. Done(Current, Target.count) \in 1 .. Limit - 1
      BY <1>8, <3>2, Width
    <3>4. Served = Done(Current, Target.count)
      BY <3>3, U16Same, Width DEF Served
    <3> QED
      BY <1>1, <1>2, <1>4, <2>2, <3>2, <3>4 DEF Fits
  <2> QED
    BY <2>1, <2>2
<1>10. Addressable(Current, cur_address)
  <2>1. CASE 2 * cur_address < ByteLimit
    <3>1. 2 * cur_address \in 0 .. Limit - 1
      BY <1>1, <2>1, HandlersAssumption, Width
    <3> QED
      BY <2>1, <3>1, U16Same DEF Addressable
  <2> QED
    BY <1>6, <2>1 DEF Addressable
<1> QED
  BY <1>6, <1>7, <1>9, <1>10 DEF ReadServed, AcceptsRead, ReadRule

(* No step refuses to read what is listed.                                 *)
LEMMA NextListed ==
  ASSUME TypeOK, InStep, SingleIsOne, RepliesFit, ListedIsReadable, [Next]_vars
  PROVE  ListedIsReadable'
<1> USE DEF ListedIsReadable
<1>1. ASSUME NEW fc \in Codes, NEW address \in Addresses[slave],
             NEW count \in Counts[slave], Receive(fc, address, count)
      PROVE  ListedIsReadable'
  BY <1>1 DEF Receive, Reads, Writes, Codes
<1>2. CASE ReadChunk \/ CheckChunk \/ WriteChunk \/ WriteAnswered
  <2>1. phase' # "idle"
    BY <1>2 DEF ReadChunk, CheckChunk, WriteChunk, WriteAnswered
  <2> QED
    BY <2>1
<1>3. CASE CheckRefused \/ WriteGivenUp \/ WriteDone
  <2>1. query'.fc \notin Reads
    BY <1>3 DEF CheckRefused, WriteGivenUp, WriteDone, TypeOK, Reads, Writes
  <2> QED
    BY <2>1
<1>4. CASE ReadRefused \/ ReadAnswered
  <2>1. /\ UNCHANGED <<slave, query, Handler, List, Size, Requested, Oversized>>
        /\ phase = "read"
    BY <1>4 DEF ReadRefused, ReadAnswered, Handler, List, Size, Requested, Oversized,
       HoldingList, InputList, NbRegisters, NbInputRegisters
  <2>2. ASSUME \A h \in DOMAIN Handler : Handler[h].class \notin {"Data", "Version"},
               ~Oversized, Requested \subseteq DOMAIN List \cap 0 .. Size - 1,
               query.count > 0, reply' = "exception"
        PROVE  busFailed'
    <3>1. CASE ReadRefused
      BY <2>1, <2>2, <3>1, ListedServed DEF ReadRefused
    <3>2. CASE ReadAnswered
      <4>1. query.address \in Nat /\ query.count \in Nat /\ Size \in Nat
        BY LayoutFacts, Width DEF TypeOK, Size
      <4>2. query.address + query.count - 1 \in Requested
        BY <2>2, <4>1 DEF Requested
      <4>3. ReplyAccepts
        BY <2>2, <4>1, <4>2 DEF ReplyAccepts
      <4> QED
        BY <2>2, <3>2, <4>3 DEF ReadAnswered
    <3> QED
      BY <1>4, <3>1, <3>2
  <2> QED
    BY <2>1, <2>2
<1>5. CASE UNCHANGED vars
  BY <1>5 DEF vars, Handler, List, Size, Requested, Oversized, HoldingList, InputList,
     NbRegisters, NbInputRegisters
<1> QED
  BY <1>1, <1>2, <1>3, <1>4, <1>5 DEF Next, HandleQuery

(* A write: the handler that was asked gets all of it.                     *)
LEMMA NextWrite ==
  ASSUME TypeOK, InStep, SingleIsOne, RepliesFit, CheckedAtOnce, WrittenAtOnce,
         AcknowledgedIsWritten, [Next]_vars
  PROVE  CheckedAtOnce' /\ WrittenAtOnce' /\ AcknowledgedIsWritten'
<1> USE DEF CheckedAtOnce, WrittenAtOnce, AcknowledgedIsWritten
<1>1. ASSUME NEW fc \in Codes, NEW address \in Addresses[slave],
             NEW count \in Counts[slave], Receive(fc, address, count)
      PROVE  CheckedAtOnce' /\ WrittenAtOnce' /\ AcknowledgedIsWritten'
  <2>1. /\ reply' # "ack" /\ phase' # "write"
        /\ cur_address' = query'.address
    BY <1>1 DEF Receive, Restart
  <2> QED
    BY <2>1
<1>2. CASE ReadChunk \/ ReadRefused \/ ReadAnswered
  <2>1. phase' \notin {"check", "write"} /\ reply' # "ack"
    BY <1>2 DEF ReadChunk, ReadRefused, ReadAnswered, RepliesFit
  <2> QED
    BY <2>1
<1>3. CASE CheckChunk
  <2>1. /\ UNCHANGED <<slave, query, phase, reply>>
        /\ phase = "check" /\ reply = "none" /\ More /\ CheckServed
        /\ query.fc \in Writes
    BY <1>3 DEF CheckChunk, RepliesFit, TypeOK
  <2>2. ASSUME OneHandler, ~Oversized PROVE ~More' /\ ~ReadOnly(Handler[FirstHandler])
    <3>1. cur_address = query.address
      BY <2>1, <2>2
    <3>2. cur_address' = cur_address + query.count
      BY <1>3, <2>1, <2>2, <3>1, Turns, AtOnce
    <3>3. ~More'
      BY <2>1, <3>1, <3>2, Width DEF More, TypeOK
    <3>4. ~ReadOnly(Handler[FirstHandler])
      BY <2>1, <2>2, <3>1, AtOnce DEF CheckServed, AcceptsCheck
    <3> QED
      BY <3>3, <3>4
  <2> QED
    BY <2>1, <2>2, SameParts
<1>4. CASE CheckRefused
  <2>1. phase' = "idle" /\ reply' = "exception"
    BY <1>4 DEF CheckRefused
  <2> QED
    BY <2>1
<1>5. CASE WriteAnswered
  <2>1. /\ UNCHANGED <<slave, query>> /\ phase = "check" /\ ~More
        /\ phase' = "write" /\ cur_address' = query.address
        /\ reply' = IF ReplyAccepts THEN "ack" ELSE "exception"
    BY <1>5 DEF WriteAnswered, Restart
  <2>2. ASSUME OneHandler, reply' = "ack" PROVE ~ReadOnly(Handler[FirstHandler])
    <3>1. query.count > 0 /\ ~Oversized
      BY <2>1, <2>2 DEF ReplyAccepts
    <3>2. cur_address # query.address
      BY <2>1, <3>1, Width DEF More, TypeOK
    <3> QED
      BY <2>1, <2>2, <3>1, <3>2
  <2> QED
    BY <2>1, <2>2, SameParts
<1>6. CASE WriteChunk
  <2>1. /\ UNCHANGED <<slave, query, phase, reply, table>>
        /\ phase = "write" /\ More /\ WriteServed /\ query.fc \in Writes
    BY <1>6 DEF WriteChunk, TypeOK
  <2>2. ASSUME OneHandler, reply = "ack"
        PROVE  ~More' /\ \A r \in Requested : board'[r] = table[r]
    <3>1. cur_address = query.address /\ ~Oversized
      BY <2>1, <2>2 DEF RepliesFit, ReplyAccepts
    <3>2. Served = query.count /\ Current.class # "Register"
      BY <2>1, <2>2, <3>1, AtOnce
    <3>3. cur_address' = cur_address + query.count
      BY <1>6, <3>2, Turns
    <3>4. ~More'
      BY <2>1, <3>1, <3>3, Width DEF More, TypeOK
    <3>5. Requested = Chunk
      BY <3>1, <3>2 DEF Requested, Chunk
    <3>6. Requested \subseteq Regs
      <4>1. query.address + query.count <= NbRegisters
        BY <2>1, <2>2 DEF RepliesFit, ReplyAccepts, Size, Writes
      <4> QED
        BY <4>1, LayoutFacts, Width DEF Requested, Regs, TypeOK
    <3> QED
      BY <1>6, <3>2, <3>4, <3>5, <3>6 DEF WriteChunk
  <2> QED
    BY <2>1, <2>2, SameParts
<1>7. CASE WriteGivenUp
  <2>1. /\ UNCHANGED <<slave, query, reply, table, board>>
        /\ phase = "write" /\ phase' = "idle" /\ More
    BY <1>7 DEF WriteGivenUp
  <2>2. ASSUME OneHandler, reply = "ack" PROVE busFailed'
    <3>1. cur_address = query.address /\ ~ReadOnly(Handler[FirstHandler])
      BY <2>1, <2>2
    <3>2. WriteServed
      BY <2>1, <2>2, <3>1, AcknowledgedIsServed
    <3> QED
      BY <1>7, <3>2 DEF WriteGivenUp
  <2> QED
    BY <2>1, <2>2, SameParts
<1>8. CASE WriteDone
  <2>1. /\ UNCHANGED <<slave, query, reply, table, board>>
        /\ phase = "write" /\ phase' = "idle" /\ ~More
    BY <1>8 DEF WriteDone
  <2>2. ASSUME OneHandler, reply = "ack" PROVE \A r \in Requested : board[r] = table[r]
    <3>1. query.count > 0
      BY <2>2 DEF RepliesFit, ReplyAccepts
    <3>2. cur_address # query.address
      BY <2>1, <3>1, Width DEF More, TypeOK
    <3> QED
      BY <2>1, <2>2, <3>2
  <2> QED
    BY <2>1, <2>2, SameParts
<1>9. CASE UNCHANGED vars
  <2>1. UNCHANGED <<OneHandler, FirstHandler, Handler, Requested, Oversized>>
    BY <1>9, SameParts DEF vars
  <2>2. More' = More
    BY <1>9 DEF vars, loopVars, More
  <2> QED
    BY <1>9, <2>1, <2>2 DEF vars, loopVars
<1> QED
  BY <1>1, <1>2, <1>3, <1>4, <1>5, <1>6, <1>7, <1>8, <1>9 DEF Next, HandleQuery

(* What the loops have done so far is as IInv says.                        *)
THEOREM Invariance == Spec => []IInv
<1>1. IInv /\ [Next]_vars => IInv'
  BY NextTypeOK, NextCounters, NextRefused, NextRead, NextListed, NextWrite DEF IInv
<1> QED
  BY InitIInv, <1>1, PTL DEF Spec

(* Nothing reaches the board but what the client got an acknowledgement    *)
(* for, although the second loop of handleQuery runs either way; a query   *)
(* with more registers than libmodbus takes excepted.                      *)
THEOREM NoSilentEffect == Spec => NoEffectWithoutAck
<1>1. ASSUME IInv, [Next]_vars, board' # board
      PROVE  reply = "ack" \/ Oversized
  <2>1. WriteChunk
    BY <1>1 DEF Next, HandleQuery, Receive, ReadRefused, ReadAnswered, CheckRefused,
       WriteAnswered, WriteGivenUp, WriteDone, ReadChunk, CheckChunk, vars
  <2>2. reply \in {"ack", "exception"}
    BY <1>1, <2>1 DEF IInv, RepliesFit, WriteChunk
  <2>3. ASSUME reply = "exception", ~Oversized PROVE FALSE
    <3>1. cur_address = query.address /\ ~ReplyAccepts
      BY <1>1, <2>1, <2>3 DEF IInv, RepliesFit, RefusedStandsStill, WriteChunk
    <3> QED
      BY <1>1, <2>1, <2>3, <3>1, RefusedNotServed DEF IInv, WriteChunk
  <2> QED
    BY <2>2, <2>3
<1>2. IInv /\ [Next]_vars => [board' # board => reply = "ack" \/ Oversized]_vars
  BY <1>1
<1> QED
  BY Invariance, <1>2, PTL DEF Spec, NoEffectWithoutAck

(* A client that gets holding registers gets what the board held.          *)
THEOREM ReadFresh == Spec => []ReadsAreFresh
<1>1. IInv => ReadsAreFresh
  BY DEF IInv
<1> QED
  BY Invariance, <1>1, PTL

(* What was acknowledged has been carried out, unless the bus failed.      *)
THEOREM WritesArrive == Spec => []AcknowledgedIsWritten
<1>1. IInv => AcknowledgedIsWritten
  BY DEF IInv
<1> QED
  BY Invariance, <1>1, PTL

(* Listed registers can be read, whichever of them a client asks for.      *)
THEOREM Readable == Spec => []ListedIsReadable
<1>1. IInv => ListedIsReadable
  BY DEF IInv
<1> QED
  BY Invariance, <1>1, PTL

(* No handler that accepts is given registers beyond the mapping.          *)
THEOREM InBounds == Spec => []TransfersInBounds
<1>1. ASSUME IInv PROVE TransfersInBounds
  <2> USE <1>1 DEF IInv
  <2>1. ASSUME phase = "read", More, ReadServed PROVE Chunk \subseteq 0 .. Size - 1
    <3>1. Found /\ Fits(Current, cur_address, Target.count, Size)
      BY <2>1 DEF ReadServed, AcceptsRead
    <3>2. cur_address + Served <= Size
      <4>1. CASE Current.class = "Register"
        BY <3>1, <4>1, TargetFacts, DoneType, ServedFacts, LayoutFacts, Width
        DEF Fits, Size, TypeOK
      <4>2. CASE Current.class # "Register"
        BY <3>1, <4>2, ServedFacts DEF Fits
      <4> QED
        BY <4>1, <4>2
    <3>3. cur_address \in Nat /\ Served \in Nat /\ Size \in Nat
      BY <3>1, ServedFacts, LayoutFacts, Width DEF TypeOK, Size
    <3> QED
      BY <3>2, <3>3 DEF Chunk
  <2>2. ASSUME phase = "write", More, WriteServed PROVE Chunk \subseteq Regs
    <3>0. query.fc \in Writes
      BY <2>2 DEF TypeOK
    <3>1. Found /\ Size = NbRegisters /\ cur_address \in Regs /\ Current.class # "Register"
      BY <2>2, <3>0, TargetFacts DEF WriteServed, Size, Writes
    <3>2. cur_address \in Nat /\ Served \in Nat /\ NbRegisters \in Nat
      BY <3>1, ServedFacts, LayoutFacts, Width DEF TypeOK
    <3>3. CASE query.fc = "multiple"
      <4>1. cur_address + Served <= NbRegisters
        BY <2>2, <3>1, <3>3, ServedFacts DEF WriteServed, AcceptsWrite, Fits
      <4> QED
        BY <3>2, <4>1 DEF Chunk, Regs
    <3>4. CASE query.fc = "single"
      <4>1. Rest = 1
        BY <2>2, <3>4, RestFacts DEF SingleIsOne
      <4>2. Target.count = 1
        <5>1. ASSUME NEW i \in Hits PROVE Clamped(HoldingBlocks[i]) = 1
          <6>1. cur_address <= HoldingBlocks[i].last /\ HoldingBlocks[i].last \in Int
            BY OneHit, LayoutFacts DEF Hits
          <6> QED
            BY <3>2, <4>1, <6>1 DEF Clamped
        <5> QED
          BY <3>1, <4>1, <5>1, TargetCases
      <4>3. Served = 1
        BY <3>1, <4>2, ServedFacts, QueryAssumption, Width
      <4> QED
        BY <3>1, <3>2, <4>3 DEF Chunk
    <3> QED
      BY <3>0, <3>3, <3>4 DEF Writes
  <2> QED
    BY <2>1, <2>2 DEF TransfersInBounds
<1> QED
  BY Invariance, <1>1, PTL
=============================================================================
