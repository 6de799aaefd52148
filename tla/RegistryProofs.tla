--------------------------- MODULE RegistryProofs ---------------------------
(***************************************************************************)
(* Proofs about module Registry, for every number of addresses, every      *)
(* number of tolerated misses and every set of boards.                     *)
(*                                                                         *)
(* That a board is only removed after enough misses in a row does not      *)
(* follow from the step that removes it: what was looked up may be stale,  *)
(* and the counter is not reset by a removal.  IInv says why it is true    *)
(* all the same: the scanner alone changes boards' entries, and an         *)
(* exhausted counter is the counter of a board that is off the list.       *)
(***************************************************************************)
EXTENDS Registry, TLAPS

(* Nothing is listed, counted or pending at first.                         *)
LEMMA InitIInv == Init => IInv
<1> SUFFICES ASSUME Init PROVE IInv
  OBVIOUS
<1> USE RegistryAssumption DEF Init
<1>1. TypeOK
  BY DEF TypeOK, Kinds, NoUpdate, Boards, Addresses
<1>2. LookupHolds /\ LockOwned /\ InsertsFit /\ RemovalsDue
  BY DEF LookupHolds, LockOwned, InsertsFit, RemovalsDue, NoUpdate
<1>3. CountersMean
  BY DEF CountersMean, Boards, Addresses
<1>4. PageHolds
  BY DEF PageHolds
<1> QED
  BY <1>1, <1>2, <1>3, <1>4 DEF IInv

(* The addresses of the boards and of the summery slave.                   *)
LEMMA AddressFacts ==
  /\ Boards \subseteq Addresses
  /\ Summery \in Addresses
  /\ Summery \notin Boards
  /\ 0 \in Boards
  /\ \A b \in Boards : b # LastBoard => b + 1 \in Boards
  /\ \A a \in Addresses : a # Summery => a \in Boards /\ a + 1 \in Addresses
BY RegistryAssumption DEF Boards, Summery, Addresses

(* Where the scanner goes next is a place of its loop.                     *)
LEMMA NextSlaveType ==
  ASSUME TypeOK
  PROVE  /\ NextSlave \in [pc : {"wait", "look", "act", "update", "exited"},
                           slave : Boards, cur : Kinds \cup {"none"}]
         /\ NextSlave.pc \in {"wait", "look"}
<1>1. scan.slave \in Boards
  BY DEF TypeOK
<1> QED
  BY <1>1, AddressFacts DEF NextSlave

(* The history of misses stays below its cap and only grows.               *)
LEMMA MissedType ==
  ASSUME TypeOK, Missed
  PROVE  /\ missed' \in [Boards -> 0 .. MissedCap]
         /\ \A b \in Boards : missed'[b] >= missed[b]
<1> DEFINE once == IF missed[scan.slave] < MissedCap
                   THEN missed[scan.slave] + 1 ELSE missed[scan.slave]
<1>1. missed \in [Boards -> 0 .. MissedCap] /\ scan.slave \in Boards
  BY DEF TypeOK
<1>2. once \in 0 .. MissedCap /\ once >= missed[scan.slave]
  BY <1>1, RegistryAssumption
<1>3. missed' = [missed EXCEPT ![scan.slave] = once]
  BY DEF Missed
<1>4. \A b \in Boards : missed'[b] >= missed[b]
  <2> TAKE b \in Boards
  <2>1. missed[b] \in Int
    BY <1>1
  <2> QED
    BY <1>1, <1>2, <1>3, <2>1
<1> HIDE DEF once
<1> QED
  BY <1>1, <1>2, <1>3, <1>4

(* A board that the scanner is about to count as missed is on the list, so *)
(* its counter is not exhausted.                                           *)
LEMMA NotExhausted ==
  ASSUME IInv, scan.pc = "act", scan.cur # "none"
  PROVE  counter[scan.slave] \in 0 .. MAX_SCAN_FAIL + 1
<1>1. scan.slave \in Boards /\ counter[scan.slave] \in 0 .. MAX_SCAN_FAIL + 2
  BY DEF IInv, TypeOK
<1>2. list[scan.slave] # "none"
  BY DEF IInv, LookupHolds
<1>3. update.by # "scanner"
  BY DEF IInv, LockOwned
<1>4. counter[scan.slave] # MAX_SCAN_FAIL + 2
  BY <1>1, <1>2, <1>3 DEF IInv, CountersMean
<1> QED
  BY <1>1, <1>4, RegistryAssumption

(* A step keeps the types, ...                                             *)
LEMMA NextTypeOK == IInv /\ [Next]_vars => TypeOK'
<1> SUFFICES ASSUME IInv, [Next]_vars PROVE TypeOK'
  OBVIOUS
<1>0. TypeOK
  BY DEF IInv
<1>a. /\ Pluggable \subseteq Boards
      /\ NoUpdate \in [by : {"nobody", "scanner", "main"}, address : Addresses,
                       kind : Kinds \cup {"none", "Summery"}]
  BY AddressFacts, RegistryAssumption DEF NoUpdate, Boards
<1>b. "none" \notin Kinds /\ "Summery" \notin Kinds
  BY DEF Kinds
<1>c. 0 \in 0 .. MAX_SCAN_FAIL + 2 /\ 0 \in 0 .. MissedCap
  BY RegistryAssumption
<1> USE <1>0, <1>a, <1>b, <1>c, AddressFacts DEF TypeOK, lists, scanner, summeryVars
<1>1. ASSUME NEW b \in Pluggable, Plug(b) \/ Unplug(b) PROVE TypeOK'
  BY <1>1 DEF Plug, Unplug
<1>2. CASE ScanBus \/ ScannerExits
  BY <1>2 DEF ScanBus, ScannerExits
<1>3. CASE LookUpSlave
  BY <1>3 DEF LookUpSlave
<1>4. CASE FoundListed
  BY <1>4, NextSlaveType DEF FoundListed, CounterReset, Acting
<1>5. CASE FoundUnlisted
  <2>1. PICK kind \in Created(scan.slave) : BeginAdd("scanner", scan.slave, kind)
    BY <1>5 DEF FoundUnlisted
  <2>2. kind \in Kinds
    BY DEF Created, Kinds
  <2>3. list' = list /\ update' \in [by : {"nobody", "scanner", "main"},
          address : Addresses, kind : Kinds \cup {"none", "Summery"}]
    BY <2>1, <2>2 DEF BeginAdd
  <2> QED
    BY <1>5, <2>3 DEF FoundUnlisted, CounterReset
<1>6. CASE NotFoundListed
  <2> USE DEF NotFoundListed, Acting
  <2>0. counter[scan.slave] + 1 \in 0 .. MAX_SCAN_FAIL + 2
    BY <1>6, NotExhausted, RegistryAssumption
  <2>1. counter' \in [Boards -> 0 .. MAX_SCAN_FAIL + 2]
    BY <1>6, <2>0
  <2>2. missed' \in [Boards -> 0 .. MissedCap]
    BY <1>6, MissedType
  <2>3. CASE GivenUp
    BY <1>6, <2>1, <2>2, <2>3 DEF BeginRemove
  <2>4. CASE ~GivenUp
    BY <1>6, <2>1, <2>2, <2>4, NextSlaveType
  <2> QED
    BY <2>3, <2>4
<1>7. CASE NotFoundUnlisted
  <2>1. missed' \in [Boards -> 0 .. MissedCap]
    BY <1>7, MissedType DEF NotFoundUnlisted
  <2> QED
    BY <1>7, <2>1, NextSlaveType DEF NotFoundUnlisted
<1>8. CASE ScannerUpdated
  BY <1>8, NextSlaveType DEF ScannerUpdated, EndUpdate
<1>9. CASE StartFunctor
  BY <1>9 DEF StartFunctor
<1>10. CASE AddSummery
  BY <1>10 DEF AddSummery, BeginAdd
<1>11. CASE SummeryAdded
  BY <1>11 DEF SummeryAdded, EndUpdate
<1>12. CASE RunFunctor \/ FunctorTimeout \/ FunctorExits
  BY <1>12 DEF RunFunctor, FunctorTimeout, FunctorExits
<1>13. CASE CopySlave
  BY <1>13 DEF CopySlave, CopyKind
<1>14. CASE PageLooksUp \/ PageShowsType
  <2>1. page' = page \/ page' = [page EXCEPT !.found = TRUE] \/ page' = PageSlave(FALSE)
    BY <1>14 DEF PageLooksUp, PageShowsType, PageSlave
  <2>2. page' \in [slave : Addresses, found : BOOLEAN]
    <3>1. page.slave \in Addresses
      OBVIOUS
    <3>2. (IF page.slave = Summery THEN 0 ELSE page.slave + 1) \in Addresses
      BY <3>1
    <3>3. PageSlave(FALSE) \in [slave : Addresses, found : BOOLEAN]
      BY <3>2 DEF PageSlave
    <3>4. [page EXCEPT !.found = TRUE] \in [slave : Addresses, found : BOOLEAN]
      OBVIOUS
    <3> QED
      BY <2>1, <3>3, <3>4
  <2>3. health' \in {"well", "crashed"}
    BY <1>14 DEF PageLooksUp, PageShowsType
  <2> QED
    BY <1>14, <2>2, <2>3 DEF PageLooksUp, PageShowsType
<1>15. CASE LookupCrashes
  BY <1>15 DEF LookupCrashes
<1>16. CASE UNCHANGED vars
  BY <1>16 DEF vars
<1> QED
  BY <1>1, <1>2, <1>3, <1>4, <1>5, <1>6, <1>7, <1>8, <1>9, <1>10, <1>11, <1>12,
     <1>13, <1>14, <1>15, <1>16
  DEF Next, ScannerStep, MainStep, FunctorStep

-----------------------------------------------------------------------------
(* Steps that concern the list, the lock, the scanner or main change the   *)
(* rest of the invariant; all others leave it alone.                       *)
Rest == LookupHolds /\ LockOwned /\ InsertsFit /\ RemovalsDue /\ CountersMean

(* ... what leaves list, lock and counters alone keeps the rest, ...       *)
LEMMA RestUnchanged ==
  ASSUME Rest,
         UNCHANGED <<list, update, scan, live, counter, missed, main>>
  PROVE  Rest'
BY DEF Rest, LookupHolds, LockOwned, InsertsFit, RemovalsDue, CountersMean

(* The lock is free, or its holder is known by name.                       *)
LEMMA LockHeld ==
  ASSUME IInv
  PROVE  /\ update.by \in {"nobody", "scanner", "main"}
         /\ update.by = "nobody" <=> update = NoUpdate
         /\ NoUpdate.by = "nobody"
         /\ scan.pc # "update" => update.by # "scanner"
         /\ main # "adding" => update.by # "main"
BY DEF IInv, TypeOK, LockOwned, NoUpdate

(* What scanner and main put into the list fits the address.               *)
LEMMA KindsFacts ==
  /\ "Summery" \in KindsAt[Summery]
  /\ \A b \in Boards : Created(b) \subseteq KindsAt[b]
  /\ \A a \in Addresses : "none" \notin KindsAt[a]
<1>1. "I2C" \in Kinds /\ "none" \notin Kinds
  BY DEF Kinds
<1>2. ASSUME NEW a \in Addresses, a = Summery
      PROVE  KindsAt[a] = {"Summery"}
  BY <1>2 DEF KindsAt
<1>3. ASSUME NEW b \in Boards
      PROVE  /\ b \in IOBoards => KindsAt[b] = Kinds
             /\ b \notin IOBoards => KindsAt[b] = {"I2C"}
  <2>1. b \in Addresses /\ b # Summery
    BY AddressFacts
  <2> QED
    BY <2>1 DEF KindsAt
<1>4. \A b \in Boards : Created(b) \subseteq KindsAt[b]
  BY <1>1, <1>3 DEF Created
<1>5. \A a \in Addresses : "none" \notin KindsAt[a]
  <2> TAKE a \in Addresses
  <2>1. a = Summery \/ a \in Boards
    BY AddressFacts
  <2> QED
    BY <1>1, <1>2, <1>3, <2>1
<1>6. "Summery" \in KindsAt[Summery]
  BY <1>2, AddressFacts
<1> QED
  BY <1>4, <1>5, <1>6

(* ... and so does every other step.                                       *)
LEMMA NextRest == IInv /\ [Next]_vars => Rest'
<1> SUFFICES ASSUME IInv, [Next]_vars PROVE Rest'
  OBVIOUS
<1>0. TypeOK /\ Rest
  BY DEF IInv, Rest
<1> USE RegistryAssumption, <1>0 DEF lists, scanner, summeryVars
<1>1. ASSUME NEW b \in Pluggable, Plug(b) \/ Unplug(b) PROVE Rest'
  BY <1>1, RestUnchanged DEF Plug, Unplug
<1>2. CASE ScanBus \/ ScannerExits
  <2>1. /\ scan'.pc \in {"look", "exited"}
        /\ update.by # "scanner"
        /\ UNCHANGED <<list, update, counter, missed, main>>
    BY <1>2, LockHeld DEF ScanBus, ScannerExits, TypeOK
  <2>2. LookupHolds' /\ LockOwned'
    BY <2>1 DEF Rest, LookupHolds, LockOwned
  <2>3. update # NoUpdate => update.address = Summery /\ update.kind = "Summery"
    BY <2>1, LockHeld DEF Rest, LockOwned
  <2>4. InsertsFit' /\ RemovalsDue' /\ CountersMean'
    BY <2>1, <2>3, AddressFacts DEF Rest, InsertsFit, RemovalsDue, CountersMean
  <2> QED
    BY <2>2, <2>4 DEF Rest
<1>3. CASE LookUpSlave
  BY <1>3, LockHeld DEF LookUpSlave, Found, Rest, LookupHolds, LockOwned, InsertsFit,
     RemovalsDue, CountersMean
<1>4. CASE FoundListed
  <2>1. LookupHolds' /\ LockOwned'
    BY <1>4, LockHeld, NextSlaveType DEF FoundListed, Acting, Rest, LookupHolds, LockOwned
  <2>2. InsertsFit'
    BY <1>4, LockHeld DEF FoundListed, Acting, CounterReset, Rest, InsertsFit, TypeOK
  <2>3. RemovalsDue'
    <3>1. update = NoUpdate \/ update.by = "main"
      BY <1>4, LockHeld DEF FoundListed, Acting
    <3>2. update.by = "main" => update.kind # "none"
      BY DEF Rest, LockOwned
    <3> QED
      BY <1>4, <3>1, <3>2 DEF FoundListed, RemovalsDue
  <2>4. CountersMean'
    BY <1>4 DEF FoundListed, Acting, CounterReset, Rest, CountersMean, TypeOK
  <2> QED
    BY <2>1, <2>2, <2>3, <2>4 DEF Rest
<1>5. CASE FoundUnlisted
  <2> USE DEF FoundUnlisted, Acting, BeginAdd, CounterReset
  <2>0. PICK kind \in Created(scan.slave) : BeginAdd("scanner", scan.slave, kind)
    BY <1>5
  <2>1. kind \in Kinds /\ kind # "none"
    BY <2>0 DEF Created, Kinds
  <2>2. LookupHolds' /\ LockOwned'
    BY <1>5, <2>0, <2>1, LockHeld DEF Rest, LookupHolds, LockOwned, NoUpdate
  <2>3. /\ scan.slave \in Boards
        /\ counter'[scan.slave] = 0 /\ missed'[scan.slave] = 0
        /\ \A b \in Boards : b # scan.slave =>
             counter'[b] = counter[b] /\ missed'[b] = missed[b]
    BY <1>5 DEF TypeOK
  <2>4. InsertsFit' /\ RemovalsDue'
    <3>1. kind \in KindsAt[scan.slave]
      BY <2>3, KindsFacts
    <3>2. scan.slave \in live /\ live' = live /\ list' = list
      BY <1>5, <2>0
    <3>3. update' # NoUpdate =>
            /\ update' = [by |-> "scanner", address |-> scan.slave, kind |-> kind]
            /\ list[scan.slave] = "none"
      BY <2>0
    <3> QED
      BY <2>1, <2>3, <3>1, <3>2, <3>3 DEF InsertsFit, RemovalsDue
  <2>5. CountersMean'
    <3>1. list' = list /\ update = NoUpdate
      BY <2>0
    <3>2. \A b \in Boards : counter[b] = MAX_SCAN_FAIL + 2 => list[b] = "none"
      BY <3>1, LockHeld DEF Rest, CountersMean
    <3> QED
      BY <2>3, <3>1, <3>2 DEF Rest, CountersMean
  <2> QED
    BY <2>2, <2>4, <2>5 DEF Rest
<1>6. CASE NotFoundListed
  <2> USE DEF NotFoundListed, Acting
  <2>0. /\ scan.slave \in Boards
        /\ counter[scan.slave] \in 0 .. MAX_SCAN_FAIL + 1
        /\ missed[scan.slave] \in 0 .. MissedCap
        /\ counter[scan.slave] <= missed[scan.slave]
        /\ update.by # "scanner"
    BY <1>6, NotExhausted, LockHeld DEF TypeOK, Rest, CountersMean
  <2>1. counter'[scan.slave] = counter[scan.slave] + 1
    BY <1>6, <2>0 DEF TypeOK
  <2>2. counter'[scan.slave] <= missed'[scan.slave]
    BY <1>6, <2>0, <2>1 DEF Missed, TypeOK
  <2>3. \A b \in Boards : b # scan.slave =>
          counter'[b] = counter[b] /\ missed'[b] = missed[b]
    BY <1>6 DEF Missed, TypeOK
  <2>4. CASE GivenUp
    <3>1. /\ update = NoUpdate
          /\ update' = [by |-> "scanner", address |-> scan.slave, kind |-> "none"]
          /\ scan' = [scan EXCEPT !.pc = "update"]
          /\ list' = list
      BY <1>6, <2>4 DEF BeginRemove, Rest, LookupHolds
    <3>2. counter'[scan.slave] = MAX_SCAN_FAIL + 2
      BY <2>0, <2>1, <2>4 DEF GivenUp
    <3>3. LookupHolds' /\ LockOwned'
      BY <3>1 DEF LookupHolds, LockOwned, TypeOK
    <3>4. InsertsFit' /\ RemovalsDue'
      <4>1. scan.slave \notin live /\ live' = live /\ list[scan.slave] # "none"
        BY <1>6 DEF Rest, LookupHolds
      <4> QED
        BY <3>1, <3>2, <4>1 DEF InsertsFit, RemovalsDue
    <3>5. CountersMean'
      BY <2>2, <2>3, <3>1 DEF Rest, CountersMean, NoUpdate
    <3> QED
      BY <3>3, <3>4, <3>5 DEF Rest
  <2>5. CASE ~GivenUp
    <3>1. list' = list /\ update' = update /\ scan' = NextSlave /\ main' = main
      BY <1>6, <2>5
    <3>2. counter'[scan.slave] # MAX_SCAN_FAIL + 2
      BY <2>0, <2>1, <2>5 DEF GivenUp
    <3>3. LookupHolds' /\ LockOwned'
      BY <3>1, <2>0, NextSlaveType DEF Rest, LookupHolds, LockOwned
    <3>4. InsertsFit'
      <4>1. update = NoUpdate \/ update.address = Summery
        BY <2>0, LockHeld DEF Rest, LockOwned
      <4>2. Summery \notin Boards
        BY DEF Summery, Boards
      <4> QED
        BY <3>1, <4>1, <4>2 DEF Rest, InsertsFit
    <3>5. RemovalsDue'
      BY <3>1, <2>0, LockHeld DEF Rest, RemovalsDue, LockOwned
    <3>6. CountersMean'
      BY <2>2, <2>3, <3>1, <3>2 DEF Rest, CountersMean
    <3> QED
      BY <3>3, <3>4, <3>5, <3>6 DEF Rest
  <2> QED
    BY <2>4, <2>5
<1>7. CASE NotFoundUnlisted
  <2>1. \A b \in Boards : missed'[b] >= missed[b]
    BY <1>7, MissedType DEF NotFoundUnlisted
  <2>2. LookupHolds' /\ LockOwned' /\ InsertsFit' /\ RemovalsDue'
    BY <1>7, LockHeld, NextSlaveType DEF NotFoundUnlisted, Acting, Rest, LookupHolds,
       LockOwned, InsertsFit, RemovalsDue
  <2>3. missed' \in [Boards -> 0 .. MissedCap]
    BY <1>7, MissedType DEF NotFoundUnlisted
  <2>4. CountersMean'
    BY <1>7, <2>1, <2>3 DEF NotFoundUnlisted, Rest, CountersMean, TypeOK
  <2> QED
    BY <2>2, <2>4 DEF Rest
<1>8. CASE ScannerUpdated
  <2> USE DEF ScannerUpdated
  <2>1. CASE update.by = "scanner"
    <3>1. /\ list' = [list EXCEPT ![update.address] = update.kind]
          /\ update' = NoUpdate
          /\ scan' = NextSlave
          /\ UNCHANGED <<counter, missed, main>>
      BY <1>8, <2>1 DEF EndUpdate
    <3>2. LookupHolds' /\ LockOwned' /\ InsertsFit' /\ RemovalsDue'
      BY <3>1, NextSlaveType DEF LookupHolds, LockOwned, InsertsFit, RemovalsDue, NoUpdate
    <3>3. update.address \in Boards /\ update # NoUpdate
      BY <2>1 DEF Rest, LockOwned, TypeOK, NoUpdate
    <3>4. list'[update.address] = "none" \/ counter[update.address] = 0
      BY <3>1, <3>3 DEF Rest, InsertsFit, TypeOK, Addresses
    <3>5. \A b \in Boards : b # update.address => list'[b] = list[b]
      BY <3>1 DEF TypeOK, Addresses
    <3>6. CountersMean'
      BY <3>1, <3>3, <3>4, <3>5 DEF Rest, CountersMean, TypeOK
    <3> QED
      BY <3>2, <3>6 DEF Rest
  <2>2. CASE update.by # "scanner"
    BY <1>8, <2>2, NextSlaveType DEF EndUpdate, Rest, LookupHolds, LockOwned, InsertsFit,
       RemovalsDue, CountersMean
  <2> QED
    BY <2>1, <2>2
<1>9. CASE StartFunctor
  BY <1>9, LockHeld DEF StartFunctor, Rest, LookupHolds, LockOwned, InsertsFit,
     RemovalsDue, CountersMean
<1>10. CASE AddSummery
  <2> DEFINE adding == [by |-> "main", address |-> Summery, kind |-> "Summery"]
  <2>1. /\ update = NoUpdate /\ main' = "adding"
        /\ update' = IF list[Summery] = "none" THEN adding ELSE NoUpdate
        /\ UNCHANGED <<list, scan, live, counter, missed>>
    BY <1>10 DEF AddSummery, BeginAdd
  <2>2. LookupHolds' /\ LockOwned'
    BY <2>1 DEF Rest, LookupHolds, LockOwned, NoUpdate
  <2>3. InsertsFit' /\ RemovalsDue'
    BY <2>1, KindsFacts, AddressFacts DEF InsertsFit, RemovalsDue
  <2>4. CountersMean'
    BY <2>1 DEF Rest, CountersMean, NoUpdate
  <2> QED
    BY <2>2, <2>3, <2>4 DEF Rest
<1>11. CASE SummeryAdded
  <2>1. /\ update.address = Summery
        /\ list' = [list EXCEPT ![Summery] = "Summery"]
        /\ update' = NoUpdate
        /\ UNCHANGED <<scan, counter, missed>>
    BY <1>11 DEF SummeryAdded, EndUpdate, Rest, LockOwned
  <2>2. \A b \in Boards : list'[b] = list[b]
    BY <2>1 DEF TypeOK, Summery, Boards, Addresses
  <2>3. scan.slave \in Boards
    BY DEF TypeOK
  <2>4. LookupHolds' /\ LockOwned' /\ InsertsFit' /\ RemovalsDue'
    BY <2>1, <2>2, <2>3 DEF Rest, LookupHolds, LockOwned, InsertsFit, RemovalsDue, NoUpdate
  <2>5. update.by = "main"
    BY <1>11 DEF SummeryAdded, EndUpdate
  <2>6. CountersMean'
    BY <2>1, <2>2, <2>5 DEF Rest, CountersMean
  <2> QED
    BY <2>4, <2>6 DEF Rest
<1>12. CASE RunFunctor \/ FunctorTimeout \/ FunctorExits
  BY <1>12, RestUnchanged DEF RunFunctor, FunctorTimeout, FunctorExits
<1>13. CASE CopySlave
  BY <1>13, RestUnchanged DEF CopySlave
<1>14. CASE PageLooksUp \/ PageShowsType
  BY <1>14, RestUnchanged DEF PageLooksUp, PageShowsType
<1>15. CASE LookupCrashes
  BY <1>15, RestUnchanged DEF LookupCrashes
<1>16. CASE UNCHANGED vars
  BY <1>16, RestUnchanged DEF vars
<1> QED
  BY <1>1, <1>2, <1>3, <1>4, <1>5, <1>6, <1>7, <1>8, <1>9, <1>10, <1>11, <1>12,
     <1>13, <1>14, <1>15, <1>16
  DEF Next, ScannerStep, MainStep, FunctorStep

-----------------------------------------------------------------------------
(* What the page has found, seen from the page: only the scanner's steps   *)
(* and the ends of updates matter, and the page's own lookup.              *)
LEMMA NextPageHolds == IInv /\ [Next]_vars => PageHolds'
<1> SUFFICES ASSUME IInv, [Next]_vars PROVE PageHolds'
  OBVIOUS
<1>0. TypeOK /\ PageHolds
  BY DEF IInv
<1> USE <1>0, RegistryAssumption DEF PageHolds, lists, scanner, summeryVars
<1>1. CASE FoundListed
  <2>1. list[scan.slave] # "none"
    BY <1>1 DEF FoundListed, Acting, IInv, LookupHolds
  <2>2. \A b \in Boards : b # scan.slave => missed'[b] = missed[b]
    BY <1>1 DEF FoundListed, TypeOK
  <2> QED
    BY <1>1, <2>1, <2>2 DEF FoundListed
<1>2. CASE FoundUnlisted
  <2>1. PICK kind \in Created(scan.slave) : BeginAdd("scanner", scan.slave, kind)
    BY <1>2 DEF FoundUnlisted
  <2>2. kind # "none" /\ NoUpdate.kind = "none"
    BY DEF Created, Kinds, NoUpdate
  <2>3. /\ \A b \in Boards : b # scan.slave => missed'[b] = missed[b]
        /\ page' = page /\ list' = list
    BY <1>2, <2>1 DEF FoundUnlisted, BeginAdd, TypeOK
  <2>4. \/ list[scan.slave] # "none"
        \/ update'.address = scan.slave /\ update'.kind # "none"
    BY <2>1, <2>2 DEF BeginAdd
  <2> QED
    BY <2>1, <2>2, <2>3, <2>4 DEF BeginAdd
<1>3. CASE NotFoundListed \/ NotFoundUnlisted
  <2>1. \A b \in Boards : missed'[b] >= missed[b] /\ missed[b] \in Int /\ missed'[b] \in Int
    BY <1>3, MissedType DEF NotFoundListed, NotFoundUnlisted, TypeOK
  <2>2. /\ page' = page /\ list' = list
        /\ update' = update \/ update = NoUpdate
    BY <1>3 DEF NotFoundListed, NotFoundUnlisted, BeginRemove
  <2> QED
    BY <2>1, <2>2 DEF NoUpdate
<1>4. CASE ScannerUpdated \/ SummeryAdded
  <2>1. CASE UNCHANGED <<list, update, missed, page>>
    BY <2>1
  <2>2. CASE /\ update.by \in {"scanner", "main"}
             /\ list' = [list EXCEPT ![update.address] = update.kind]
             /\ UNCHANGED <<missed, page>>
    <3>1. \A a \in Addresses : a # update.address => list'[a] = list[a]
      BY <2>2 DEF TypeOK
    <3>2. list'[update.address] = update.kind /\ update.address \in Addresses
      BY <2>2 DEF TypeOK
    <3>3. ASSUME update.kind = "none"
          PROVE  /\ update.address \in Boards
                 /\ missed[update.address] >= MAX_SCAN_FAIL + 2
      <4>1. update.by = "scanner" /\ update # NoUpdate
        BY <2>2, <3>3 DEF IInv, LockOwned, NoUpdate
      <4>2. update.address \in Boards
        BY <4>1 DEF IInv, LockOwned, TypeOK
      <4>3. counter[update.address] = MAX_SCAN_FAIL + 2
        BY <3>3, <4>1 DEF IInv, RemovalsDue
      <4> QED
        BY <4>2, <4>3 DEF IInv, CountersMean, TypeOK
    <3>4. page.slave \in Addresses
      BY DEF TypeOK
    <3> QED
      BY <2>2, <3>1, <3>2, <3>3, <3>4
  <2> QED
    BY <1>4, <2>1, <2>2 DEF ScannerUpdated, SummeryAdded, EndUpdate
<1>5. CASE AddSummery
  BY <1>5 DEF AddSummery, BeginAdd, NoUpdate
<1>6. CASE PageLooksUp
  <2>1. PICK kind \in Kinds \cup {"Summery", "none"} :
          Found(page.slave, kind) /\ page' = PageSlave(kind # "none")
    BY <1>6 DEF PageLooksUp
  <2>2. list' = list
    BY <1>6 DEF PageLooksUp
  <2>3. CASE kind # "none"
    BY <2>1, <2>2, <2>3 DEF Found, PageSlave, TypeOK
  <2>4. CASE kind = "none"
    BY <2>1, <2>4 DEF PageSlave
  <2> QED
    BY <2>3, <2>4
<1>7. CASE PageShowsType
  BY <1>7 DEF PageShowsType, PageSlave
<1>8. ASSUME UNCHANGED <<list, update, missed, page>> PROVE PageHolds'
  BY <1>8
<1> QED
  BY <1>1, <1>2, <1>3, <1>4, <1>5, <1>6, <1>7, <1>8
  DEF Next, vars, ScannerStep, MainStep, FunctorStep, Plug, Unplug, ScanBus,
      ScannerExits, LookUpSlave, StartFunctor, RunFunctor, FunctorTimeout,
      FunctorExits, CopySlave, LookupCrashes

(* The invariant holds in every reachable state of the registry.           *)
THEOREM Invariance == Spec => []IInv
<1>1. IInv /\ [Next]_vars => IInv'
  BY NextTypeOK, NextRest, NextPageHolds DEF IInv, Rest
<1> QED
  BY InitIInv, <1>1, PTL DEF Spec

(* Every variable keeps its type, and the counters stay below what a       *)
(* uint8_t holds although a removal does not reset them.                   *)
THEOREM TypeCorrect == Spec => []TypeOK
<1>1. IInv => TypeOK
  BY DEF IInv
<1> QED
  BY Invariance, <1>1, PTL

(* Every step that changes the list ends an update.                        *)
LEMMA ListChanges ==
  ASSUME [Next]_vars, IInv
  PROVE  \/ list' = list
         \/ /\ update # NoUpdate
            /\ list' = [list EXCEPT ![update.address] = update.kind]
<1> USE DEF lists, scanner, summeryVars
<1>1. ASSUME ScannerUpdated \/ SummeryAdded
      PROVE  list' = list \/ /\ update # NoUpdate
                             /\ list' = [list EXCEPT ![update.address] = update.kind]
  BY <1>1 DEF ScannerUpdated, SummeryAdded, EndUpdate, NoUpdate
<1>2. CASE ~ScannerUpdated /\ ~SummeryAdded
  BY <1>2 DEF Next, ScannerStep, MainStep, FunctorStep, vars, Plug, Unplug, ScanBus,
     ScannerExits, LookUpSlave, FoundListed, FoundUnlisted, BeginAdd, NotFoundListed,
     BeginRemove, NotFoundUnlisted, StartFunctor, AddSummery, RunFunctor,
     FunctorTimeout, FunctorExits, CopySlave, PageLooksUp,
     PageShowsType, LookupCrashes
<1> QED
  BY <1>1, <1>2

(* A board that keeps coming back in time keeps its slave.                 *)
THEOREM RemovalIsDeserved == Spec => RemovedAfterMisses
<1>1. ASSUME IInv, [Next]_vars, NEW b \in Boards, list[b] # "none", list'[b] = "none"
      PROVE  missed[b] >= MAX_SCAN_FAIL + 2
  <2>1. update # NoUpdate /\ update.address = b /\ update.kind = "none"
    BY <1>1, ListChanges DEF IInv, TypeOK, Addresses
  <2>2. counter[b] = MAX_SCAN_FAIL + 2
    BY <1>1, <2>1 DEF IInv, RemovalsDue
  <2> QED
    BY <1>1, <2>2, RegistryAssumption DEF IInv, CountersMean, TypeOK
<1>2. IInv /\ [Next]_vars =>
        [\A b \in Boards : list[b] # "none" /\ list'[b] = "none" =>
           missed[b] >= MAX_SCAN_FAIL + 2]_vars
  BY <1>1
<1> QED
  BY Invariance, <1>2, PTL DEF Spec, RemovedAfterMisses

(* The slave at an address is never exchanged for another one, although    *)
(* the scanner looks it up without the lock.                               *)
THEOREM Identity == Spec => NeverExchanged
<1>1. ASSUME IInv, [Next]_vars, NEW a \in Addresses, list[a] # "none"
      PROVE  list'[a] \in {list[a], "none"}
  <2>1. CASE list' = list
    BY <2>1
  <2>2. CASE /\ update # NoUpdate
             /\ list' = [list EXCEPT ![update.address] = update.kind]
    BY <1>1, <2>2 DEF IInv, TypeOK, InsertsFit
  <2> QED
    BY <1>1, <2>1, <2>2, ListChanges
<1>2. IInv /\ [Next]_vars =>
        [\A a \in Addresses : list[a] # "none" => list'[a] \in {list[a], "none"}]_vars
  BY <1>1
<1> QED
  BY Invariance, <1>2, PTL DEF Spec, NeverExchanged

(* Short of a lookup in the middle of an update, the page of the list ends *)
(* the process only for a board that was given up between its two lookups. *)
THEOREM CrashIsRemoval == Spec => CrashesOnRemovalOnly
<1>1. ASSUME IInv, [Next]_vars, Alive, ~Alive', update = NoUpdate
      PROVE  page.slave \in Boards /\ missed[page.slave] >= MAX_SCAN_FAIL + 2
  <2>1. health' # health
    BY <1>1 DEF Alive
  <2>2. PageShowsType \/ LookupCrashes
    BY <1>1, <2>1 DEF Next, vars, ScannerStep, MainStep, FunctorStep, Plug, Unplug,
       ScanBus, ScannerExits, LookUpSlave, FoundListed, FoundUnlisted,
       NotFoundListed, NotFoundUnlisted, ScannerUpdated, StartFunctor, AddSummery,
       SummeryAdded, RunFunctor, FunctorTimeout, FunctorExits, CopySlave, PageLooksUp
  <2>3. page.found /\ list[page.slave] = "none"
    BY <1>1, <2>1, <2>2 DEF PageShowsType, LookupCrashes, Found
  <2>4. update.kind = "none"
    BY <1>1 DEF NoUpdate
  <2> QED
    BY <1>1, <2>3, <2>4 DEF IInv, PageHolds
<1>2. IInv /\ [Next]_vars =>
        [Alive /\ ~Alive' /\ update = NoUpdate =>
           page.slave \in Boards /\ missed[page.slave] >= MAX_SCAN_FAIL + 2]_vars
  BY <1>1
<1> QED
  BY Invariance, <1>2, PTL DEF Spec, CrashesOnRemovalOnly

-----------------------------------------------------------------------------
(* Registry implements BoardWatch.                                         *)

(* What the scanner has still to decide, seen from where it is.            *)
LEMMA UndecidedView ==
  /\ scan.pc \in {"wait", "exited"} => Undecided = {}
  /\ scan.pc \in {"look", "act"} => Undecided = scan.slave .. LastBoard
  /\ scan.pc = "update" => Undecided = scan.slave + 1 .. LastBoard
  /\ scan'.pc \in {"wait", "exited"} => Undecided' = {}
  /\ scan'.pc \in {"look", "act"} => Undecided' = scan'.slave .. LastBoard
  /\ scan'.pc = "update" => Undecided' = scan'.slave + 1 .. LastBoard
BY DEF Undecided

(* A board that is done is decided, the ones after it are not, ...         *)
LEMMA DoneDecided ==
  ASSUME TypeOK, scan' = NextSlave \/ scan' = [scan EXCEPT !.pc = "update"]
  PROVE  Undecided' = scan.slave + 1 .. LastBoard
<1>1. scan.slave \in 0 .. LastBoard
  BY DEF TypeOK, Boards
<1>2. CASE scan' = [scan EXCEPT !.pc = "update"]
  <2>1. scan'.pc = "update" /\ scan'.slave = scan.slave
    BY <1>2 DEF TypeOK
  <2> QED
    BY <2>1, UndecidedView
<1>3. CASE scan' = NextSlave /\ scan.slave = LastBoard
  <2>1. scan'.pc = "wait"
    BY <1>3 DEF NextSlave
  <2>2. scan.slave + 1 .. LastBoard = {}
    BY <1>3, RegistryAssumption
  <2> QED
    BY <2>1, <2>2, UndecidedView
<1>4. CASE scan' = NextSlave /\ scan.slave # LastBoard
  <2>1. scan'.pc = "look" /\ scan'.slave = scan.slave + 1
    BY <1>4 DEF NextSlave
  <2> QED
    BY <2>1, UndecidedView
<1> QED
  BY <1>2, <1>3, <1>4

(* ... so a turn of the scanner decides about the board it looks at.       *)
LEMMA OneDecided ==
  ASSUME TypeOK, scan.pc = "act",
         scan' = NextSlave \/ scan' = [scan EXCEPT !.pc = "update"]
  PROVE  scan.slave \in Undecided /\ Undecided' = Undecided \ {scan.slave}
<1>1. scan.slave \in 0 .. LastBoard /\ LastBoard \in Nat
  BY RegistryAssumption DEF TypeOK, Boards
<1>2. Undecided = scan.slave .. LastBoard
  BY UndecidedView
<1>3. Undecided' = scan.slave + 1 .. LastBoard
  BY DoneDecided
<1> QED
  BY <1>1, <1>2, <1>3

(* Nothing is scanned, listed or missed at first.                          *)
LEMMA InitWatch == Init => Watch!Init
BY UndecidedView DEF Init, Watch!Init, Addresses

(* Boards come and go as they like.                                        *)
LEMMA BusImplements ==
  ASSUME TypeOK, NEW b \in Pluggable, Plug(b) \/ Unplug(b)
  PROVE  Watch!BusChanges
<1>1. bus' \subseteq Boards
  <2>1. b \in Boards /\ bus \subseteq Boards
    BY RegistryAssumption DEF TypeOK, Boards
  <2>2. bus' = bus \cup {b} \/ bus' = bus \ {b}
    BY DEF Plug, Unplug
  <2> QED
    BY <2>1, <2>2
<1>2. UNCHANGED <<live, scan, missed, list>>
  BY DEF Plug, Unplug, lists, scanner
<1>3. Undecided' = Undecided
  BY <1>2 DEF Undecided
<1> QED
  BY <1>1, <1>2, <1>3 DEF Watch!BusChanges

(* A new scan takes its picture when the last one has decided everything.  *)
LEMMA ScanImplements ==
  ASSUME ScanBus
  PROVE  Watch!Scan
<1>1. scan.pc = "wait" /\ scan'.pc = "look" /\ scan'.slave = 0
  BY DEF ScanBus
<1>2. Undecided = {} /\ Undecided' = Boards
  BY <1>1, UndecidedView DEF Boards
<1> QED
  BY <1>2 DEF ScanBus, Watch!Scan, lists

(* A board that is found is judged, whatever the lookup returned, ...      *)
LEMMA FoundImplements ==
  ASSUME TypeOK, FoundListed \/ FoundUnlisted
  PROVE  Watch!Judge(scan.slave)
<1>1. /\ scan.pc = "act" /\ scan.slave \in live
      /\ scan' = NextSlave \/ scan' = [scan EXCEPT !.pc = "update"]
      /\ missed' = [missed EXCEPT ![scan.slave] = 0]
      /\ UNCHANGED <<bus, live, list>>
  BY DEF FoundListed, FoundUnlisted, Acting, BeginAdd, lists
<1> QED
  BY <1>1, OneDecided DEF Watch!Judge

(* ... and so is one that is not found, even one that is not listed.       *)
LEMMA NotFoundImplements ==
  ASSUME TypeOK, NotFoundListed \/ NotFoundUnlisted
  PROVE  Watch!Judge(scan.slave)
<1>1. /\ scan.pc = "act" /\ scan.slave \notin live
      /\ scan' = NextSlave \/ scan' = [scan EXCEPT !.pc = "update"]
      /\ Missed
      /\ UNCHANGED <<bus, live, list>>
  BY DEF NotFoundListed, NotFoundUnlisted, Acting, BeginRemove, lists
<1> QED
  BY <1>1, OneDecided DEF Watch!Judge, Missed

(* The scanner's update is the decision that the scan entitles it to: what *)
(* the scan saw and the list still say the same when the lock is released. *)
LEMMA UpdateImplements ==
  ASSUME IInv, ScannerUpdated, update.by = "scanner"
  PROVE  Watch!EnterBoard(scan.slave) \/ Watch!LeaveBoard(scan.slave)
<1>1. TypeOK /\ scan.slave \in Boards /\ LastBoard \in Nat
  BY RegistryAssumption DEF IInv, TypeOK
<1>2. /\ scan.pc = "update" /\ scan' = NextSlave
      /\ list' = [list EXCEPT ![update.address] = update.kind]
      /\ UNCHANGED <<bus, live, missed>>
  BY DEF ScannerUpdated, EndUpdate
<1>3. update # NoUpdate /\ update.address = scan.slave
  BY DEF IInv, LockOwned, NoUpdate
<1>4. Undecided' = Undecided /\ scan.slave \notin Undecided
  <2>1. Undecided' = scan.slave + 1 .. LastBoard
    BY <1>1, <1>2, DoneDecided
  <2>2. Undecided = scan.slave + 1 .. LastBoard
    BY <1>2, UndecidedView
  <2> QED
    BY <1>1, <2>1, <2>2 DEF Boards
<1>5. CASE update.kind = "none"
  <2>1. /\ list[scan.slave] # "none" /\ scan.slave \notin live
        /\ counter[scan.slave] = MAX_SCAN_FAIL + 2
    BY <1>3, <1>5 DEF IInv, RemovalsDue
  <2>2. missed[scan.slave] >= MAX_SCAN_FAIL + 2
    BY <1>1, <2>1 DEF IInv, CountersMean, TypeOK
  <2> QED
    BY <1>2, <1>3, <1>4, <1>5, <2>1, <2>2 DEF Watch!LeaveBoard
<1>6. CASE update.kind # "none"
  <2>1. /\ list[scan.slave] = "none" /\ scan.slave \in live
        /\ update.kind \in KindsAt[scan.slave]
    BY <1>1, <1>3, <1>6 DEF IInv, InsertsFit
  <2> QED
    BY <1>2, <1>3, <1>4, <2>1 DEF Watch!EnterBoard, Watch!Enter
<1> QED
  BY <1>5, <1>6

(* The summery slave gets its entry when there is none.                    *)
LEMMA SummeryImplements ==
  ASSUME IInv, SummeryAdded
  PROVE  Watch!Enter(Summery)
<1>1. /\ update.by = "main"
      /\ list' = [list EXCEPT ![update.address] = update.kind]
      /\ UNCHANGED <<bus, scan, live, missed>>
  BY DEF SummeryAdded, EndUpdate, scanner
<1>2. update # NoUpdate /\ update.address = Summery /\ update.kind = "Summery"
  BY <1>1 DEF IInv, LockOwned, NoUpdate
<1>3. list[Summery] = "none" /\ "Summery" \in KindsAt[Summery]
  BY <1>2, KindsFacts DEF IInv, InsertsFit
<1>4. Undecided' = Undecided
  BY <1>1 DEF Undecided
<1> QED
  BY <1>1, <1>2, <1>3, <1>4 DEF Watch!Enter

(* All other steps change nothing that is promised: lookups, the pages and *)
(* the summery slave's functor leave the list alone, and the scanner       *)
(* decides nothing by looking.                                             *)
LEMMA OthersStutter ==
  ASSUME \/ ScannerExits \/ LookUpSlave
         \/ ScannerUpdated /\ update.by # "scanner"
         \/ StartFunctor \/ AddSummery \/ FunctorStep \/ FunctorExits
         \/ PageLooksUp \/ PageShowsType \/ LookupCrashes
         \/ UNCHANGED vars,
         TypeOK
  PROVE  UNCHANGED Watch!vars
<1>1. UNCHANGED <<bus, live, missed, list>>
  BY DEF ScannerExits, LookUpSlave, ScannerUpdated, EndUpdate, StartFunctor, AddSummery,
     BeginAdd, FunctorStep, RunFunctor, FunctorTimeout, CopySlave, FunctorExits,
     PageLooksUp, PageShowsType, LookupCrashes, vars, lists, scanner
<1>2. Undecided' = Undecided
  <2>1. CASE ScannerExits
    BY <2>1, UndecidedView DEF ScannerExits, TypeOK
  <2>2. CASE LookUpSlave
    <3>1. scan.pc = "look" /\ scan'.pc = "act" /\ scan'.slave = scan.slave
      BY <2>2 DEF LookUpSlave, TypeOK
    <3> QED
      BY <3>1, UndecidedView
  <2>3. CASE ScannerUpdated
    BY <2>3, DoneDecided, UndecidedView DEF ScannerUpdated
  <2>4. CASE UNCHANGED scan
    BY <2>4 DEF Undecided
  <2> QED
    BY <2>1, <2>2, <2>3, <2>4 DEF StartFunctor, AddSummery, FunctorStep, RunFunctor,
       FunctorTimeout, CopySlave, FunctorExits, PageLooksUp, PageShowsType,
       LookupCrashes, vars, scanner
<1> QED
  BY <1>1, <1>2 DEF Watch!vars

(* Every step of the registry is one of BoardWatch, or invisible to it.    *)
LEMMA StepImplements ==
  ASSUME IInv, [Next]_vars
  PROVE  [Watch!Next]_(Watch!vars)
<1>0. TypeOK /\ scan.slave \in Boards
  BY DEF IInv, TypeOK
<1>1. ASSUME NEW b \in Pluggable, Plug(b) \/ Unplug(b) PROVE Watch!Next
  BY <1>0, <1>1, BusImplements DEF Watch!Next
<1>2. CASE ScanBus
  BY <1>2, ScanImplements DEF Watch!Next
<1>3. CASE FoundListed \/ FoundUnlisted
  BY <1>0, <1>3, FoundImplements DEF Watch!Next
<1>4. CASE NotFoundListed \/ NotFoundUnlisted
  BY <1>0, <1>4, NotFoundImplements DEF Watch!Next
<1>5. CASE ScannerUpdated /\ update.by = "scanner"
  BY <1>0, <1>5, UpdateImplements DEF Watch!Next
<1>6. CASE SummeryAdded
  BY <1>6, SummeryImplements DEF Watch!Next
<1>7. CASE \/ ScannerExits \/ LookUpSlave
           \/ ScannerUpdated /\ update.by # "scanner"
           \/ StartFunctor \/ AddSummery \/ FunctorStep \/ FunctorExits
           \/ PageLooksUp \/ PageShowsType \/ LookupCrashes
           \/ UNCHANGED vars
  BY <1>0, <1>7, OthersStutter
<1> QED
  BY <1>1, <1>2, <1>3, <1>4, <1>5, <1>6, <1>7 DEF Next, ScannerStep, MainStep

(* The list follows the bus scan by scan, whatever the addresses, the      *)
(* number of misses that is tolerated and the interleaving of the scanner  *)
(* with main, the summery slave's functor and the pages.                   *)
THEOREM Refinement == Spec => ImplementsWatch
<1>1. IInv /\ [Next]_vars => [Watch!Next]_(Watch!vars)
  BY StepImplements
<1> QED
  BY <1>1, InitWatch, Invariance, PTL DEF Spec, ImplementsWatch, Watch!Spec
=============================================================================
