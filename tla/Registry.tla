------------------------------ MODULE Registry ------------------------------
(***************************************************************************)
(* The list of slaves and everybody who uses it: SlaveList (base),         *)
(* I2C_Scanner, which keeps it in step with the I2C bus, the functor of    *)
(* SummerySlave, which copies it into registers, main, the connections'    *)
(* functors and the page that shows the list.                              *)
(*                                                                         *)
(* addSlave and removeSlave hold the lock of the list, getSlave does not.  *)
(* An update is therefore two steps, between which the map is in disorder; *)
(* a lookup is one step, and one that falls between them finds what it     *)
(* should, or nothing, or brings the process down.                         *)
(*                                                                         *)
(* Boards stand for the I2C addresses below MAX_I2C_SLAVE_ADR.             *)
(***************************************************************************)
EXTENDS Integers

CONSTANTS
  LastBoard,     \* the last I2C address
  Pluggable,     \* bound: the addresses at which boards come and go
  IOBoards,      \* those of IO boards
  MAX_SCAN_FAIL,
  MissedCap      \* bound: where the misses of a board are no longer counted

ASSUME RegistryAssumption ==
  /\ LastBoard \in Nat
  /\ Pluggable \subseteq 0 .. LastBoard
  /\ IOBoards \subseteq 0 .. LastBoard
  /\ MAX_SCAN_FAIL \in Nat
  /\ MissedCap \in Nat
  /\ MissedCap > MAX_SCAN_FAIL + 1

Boards == 0 .. LastBoard
Summery == LastBoard + 1   \* DEFAULT_SUMMERY_ADDR: not an I2C address
Addresses == Boards \cup {Summery}

VARIABLES
  list,      \* m_slavelist: the kind of the slave at each address, or "none"
  update,    \* who holds m_slavelist_lock and changes which entry to what
  bus,       \* the boards on the I2C bus
  scan,      \* the scanner thread: pc, slaveID, curSlave
  live,      \* the live list of the scan
  counter,   \* slave_not_found_counter
  missed,    \* history: how many scans in a row a board was not found
  main,      \* where main is
  functor,   \* the summery slave's functor: pc, slave
  table,     \* tab_input_registers of the summery slave
  page,      \* the page of the list: the slave it shows, and if it was found
  health     \* "well" or "crashed"

lists == <<list, update>>
scanner == <<scan, live, counter, missed>>
summeryVars == <<functor, table>>
vars == <<lists, bus, scanner, main, summeryVars, page, health>>

Kinds == {"I2C", "IOBoard"}
NoUpdate == [by |-> "nobody", address |-> 0, kind |-> "none"]

Init ==
  /\ list = [a \in Addresses |-> "none"]
  /\ update = NoUpdate
  /\ bus = {}
  /\ scan = [pc |-> "wait", slave |-> 0, cur |-> "none"]
  /\ live = {}
  /\ counter = [b \in Boards |-> 0]
  /\ missed = [b \in Boards |-> 0]
  /\ main = "startFunctor"
  /\ functor = [pc |-> "none", slave |-> 0]
  /\ table = [b \in Boards |-> "none"]
  /\ page = [slave |-> 0, found |-> FALSE]
  /\ health = "well"

Alive == health # "crashed"

-----------------------------------------------------------------------------
(* SlaveList.                                                              *)

(* Mutation: addSlave overwrites a slave that is already listed.           *)
BeginAddAnyway(who, address, kind) ==
  /\ update = NoUpdate
  /\ update' = [by |-> who, address |-> address, kind |-> kind]
  /\ UNCHANGED list

(* Mutation: the test for a listed slave is the wrong way round.           *)
BeginAddIfListed(who, address, kind) ==
  /\ update = NoUpdate
  /\ update' = IF list[address] # "none"
               THEN [by |-> who, address |-> address, kind |-> kind]
               ELSE NoUpdate
  /\ UNCHANGED list

(* addSlave: nothing happens if the address is taken.                      *)
BeginAdd(who, address, kind) ==
  /\ update = NoUpdate
  /\ update' = IF list[address] = "none"
               THEN [by |-> who, address |-> address, kind |-> kind]
               ELSE NoUpdate
  /\ UNCHANGED list

BeginRemove(who, address) ==
  /\ update = NoUpdate
  /\ update' = IF list[address] # "none"
               THEN [by |-> who, address |-> address, kind |-> "none"]
               ELSE NoUpdate
  /\ UNCHANGED list

EndUpdate(who) ==
  /\ update.by = who
  /\ list' = [list EXCEPT ![update.address] = update.kind]
  /\ update' = NoUpdate

(* getSlave: Found says what a lookup returns.                             *)
Found(address, kind) ==
  \/ kind = list[address]
  \/ update # NoUpdate /\ kind = "none"

-----------------------------------------------------------------------------
(* The I2C bus: boards come and go.                                        *)
Plug(b) ==
  /\ b \notin bus
  /\ bus' = bus \cup {b}
  /\ UNCHANGED <<lists, scanner, main, summeryVars, page, health>>

Unplug(b) ==
  /\ b \in bus
  /\ bus' = bus \ {b}
  /\ UNCHANGED <<lists, scanner, main, summeryVars, page, health>>

-----------------------------------------------------------------------------
(* I2C_Scanner::thread_function.                                           *)

(* The timeout is over and ScanBus has worked; if not, the thread waits    *)
(* again.                                                                  *)
ScanBus ==
  /\ Alive
  /\ scan.pc = "wait"
  /\ live' = bus
  /\ scan' = [pc |-> "look", slave |-> 0, cur |-> "none"]
  /\ UNCHANGED <<lists, bus, counter, missed, main, summeryVars, page, health>>

(* wait_for returned for another reason: the thread ends.                  *)
ScannerExits ==
  /\ Alive
  /\ scan.pc = "wait"
  /\ scan' = [scan EXCEPT !.pc = "exited"]
  /\ UNCHANGED <<lists, bus, live, counter, missed, main, summeryVars, page, health>>

(* Mutation: the result of the lookup is dropped.                          *)
LookUpDropped ==
  /\ Alive
  /\ scan.pc = "look"
  /\ scan' = [scan EXCEPT !.pc = "act", !.cur = "none"]
  /\ UNCHANGED <<lists, bus, live, counter, missed, main, summeryVars, page, health>>

LookUpSlave ==
  /\ Alive
  /\ scan.pc = "look"
  /\ \E kind \in Kinds \cup {"none"} :
       /\ Found(scan.slave, kind)
       /\ scan' = [scan EXCEPT !.pc = "act", !.cur = kind]
  /\ UNCHANGED <<lists, bus, live, counter, missed, main, summeryVars, page, health>>

(* Mutation: the loop does not advance.                                    *)
SameSlave ==
  IF scan.slave = LastBoard
  THEN [pc |-> "wait", slave |-> 0, cur |-> "none"]
  ELSE [pc |-> "look", slave |-> scan.slave, cur |-> "none"]

(* Where the thread goes when it is done with a slave.                     *)
NextSlave ==
  IF scan.slave = LastBoard
  THEN [pc |-> "wait", slave |-> 0, cur |-> "none"]
  ELSE [pc |-> "look", slave |-> scan.slave + 1, cur |-> "none"]

Acting ==
  /\ Alive
  /\ scan.pc = "act"

(* Mutation: a board that is found keeps its counter.                      *)
CounterKept == UNCHANGED counter

CounterReset == counter' = [counter EXCEPT ![scan.slave] = 0]

FoundListed ==
  /\ Acting
  /\ scan.slave \in live
  /\ scan.cur # "none"
  /\ CounterReset
  /\ missed' = [missed EXCEPT ![scan.slave] = 0]
  /\ scan' = NextSlave
  /\ UNCHANGED <<lists, bus, live, main, summeryVars, page, health>>

(* createSlavebyType: an IO board that answers is one, anything else, or   *)
(* an IO board that does not answer this time, is a plain I2C slave.       *)
Created(b) == IF b \in IOBoards /\ b \in bus THEN Kinds ELSE {"I2C"}

FoundUnlisted ==
  /\ Acting
  /\ scan.slave \in live
  /\ scan.cur = "none"
  /\ CounterReset
  /\ missed' = [missed EXCEPT ![scan.slave] = 0]
  /\ \E kind \in Created(scan.slave) : BeginAdd("scanner", scan.slave, kind)
  /\ scan' = [scan EXCEPT !.pc = "update"]
  /\ UNCHANGED <<bus, live, main, summeryVars, page, health>>

(* Mutation: the comparison is off by two.                                 *)
GivenUpLate == counter[scan.slave] > MAX_SCAN_FAIL + 1

(* slave_not_found_counter[slaveID]++ > MAX_SCAN_FAIL                      *)
GivenUp == counter[scan.slave] > MAX_SCAN_FAIL

Missed == missed' = [missed EXCEPT ![scan.slave] =
                       IF @ < MissedCap THEN @ + 1 ELSE @]

NotFoundListed ==
  /\ Acting
  /\ scan.slave \notin live
  /\ scan.cur # "none"
  /\ counter' = [counter EXCEPT ![scan.slave] = @ + 1]
  /\ Missed
  /\ IF GivenUp
     THEN /\ BeginRemove("scanner", scan.slave)
          /\ scan' = [scan EXCEPT !.pc = "update"]
     ELSE /\ scan' = NextSlave
          /\ UNCHANGED lists
  /\ UNCHANGED <<bus, live, main, summeryVars, page, health>>

NotFoundUnlisted ==
  /\ Acting
  /\ scan.slave \notin live
  /\ scan.cur = "none"
  /\ Missed
  /\ scan' = NextSlave
  /\ UNCHANGED <<lists, bus, live, counter, main, summeryVars, page, health>>

(* addSlave or removeSlave ends; it may have had nothing to do.            *)
ScannerUpdated ==
  /\ Alive
  /\ scan.pc = "update"
  /\ \/ EndUpdate("scanner")
     \/ update.by # "scanner" /\ UNCHANGED lists
  /\ scan' = NextSlave
  /\ UNCHANGED <<bus, live, counter, missed, main, summeryVars, page, health>>

-----------------------------------------------------------------------------
(* main, after the servers and the scanner were created.                   *)
StartFunctor ==
  /\ Alive
  /\ main = "startFunctor"
  /\ main' = "addSlave"
  /\ functor' = [functor EXCEPT !.pc = "posted"]
  /\ UNCHANGED <<lists, bus, scanner, table, page, health>>

AddSummery ==
  /\ Alive
  /\ main = "addSlave"
  /\ BeginAdd("main", Summery, "Summery")
  /\ main' = "adding"
  /\ UNCHANGED <<bus, scanner, summeryVars, page, health>>

SummeryAdded ==
  /\ Alive
  /\ main = "adding"
  /\ EndUpdate("main")
  /\ main' = "sleep"
  /\ UNCHANGED <<bus, scanner, summeryVars, page, health>>

-----------------------------------------------------------------------------
(* SummerySlaveFunctor::functor_function.                                  *)
RunFunctor ==
  /\ Alive
  /\ functor.pc = "posted"
  /\ functor' = [pc |-> "wait", slave |-> 0]
  /\ UNCHANGED <<lists, bus, scanner, main, table, page, health>>

FunctorTimeout ==
  /\ Alive
  /\ functor.pc = "wait"
  /\ functor' = [pc |-> "copy", slave |-> 0]
  /\ UNCHANGED <<lists, bus, scanner, main, table, page, health>>

(* wait_for returned for another reason: the functor is not posted again.  *)
FunctorExits ==
  /\ Alive
  /\ functor.pc = "wait"
  /\ functor' = [functor EXCEPT !.pc = "exited"]
  /\ UNCHANGED <<lists, bus, scanner, main, table, page, health>>

(* Mutation: an address without a slave keeps its old type.                *)
CopyKindIfListed(kind) ==
  table' = IF kind = "none" THEN table ELSE [table EXCEPT ![functor.slave] = kind]

CopyKind(kind) == table' = [table EXCEPT ![functor.slave] = kind]

(* One turn of its loop; after the last one it posts a new functor.        *)
CopySlave ==
  /\ Alive
  /\ functor.pc = "copy"
  /\ \E kind \in Kinds \cup {"none"} :
       /\ Found(functor.slave, kind)
       /\ CopyKind(kind)
  /\ functor' = IF functor.slave = LastBoard
                THEN [pc |-> "posted", slave |-> 0]
                ELSE [functor EXCEPT !.slave = @ + 1]
  /\ UNCHANGED <<lists, bus, scanner, main, page, health>>

-----------------------------------------------------------------------------
(* Lookups of the pages and of the connections' functors.                  *)

PageSlave(found) ==
  IF found THEN [page EXCEPT !.found = TRUE]
  ELSE [slave |-> IF page.slave = Summery THEN 0 ELSE page.slave + 1,
        found |-> FALSE]

(* Mutation: the first lookup is not tested.                               *)
PageTrusts ==
  /\ Alive
  /\ ~page.found
  /\ page' = PageSlave(TRUE)
  /\ UNCHANGED <<lists, bus, scanner, main, summeryVars, health>>

(* slave_list.ecpp: a slave that is there ...                              *)
PageLooksUp ==
  /\ Alive
  /\ ~page.found
  /\ \E kind \in Kinds \cup {"Summery", "none"} :
       /\ Found(page.slave, kind)
       /\ page' = PageSlave(kind # "none")
  /\ UNCHANGED <<lists, bus, scanner, main, summeryVars, health>>

(* ... is looked up again for its type, and used without another look.     *)
PageShowsType ==
  /\ Alive
  /\ page.found
  /\ \E kind \in Kinds \cup {"Summery", "none"} :
       /\ Found(page.slave, kind)
       /\ IF kind = "none"
          THEN health' = "crashed" /\ UNCHANGED page
          ELSE page' = PageSlave(FALSE) /\ UNCHANGED health
  /\ UNCHANGED <<lists, bus, scanner, main, summeryVars>>

(* Any lookup, also that of a connection's functor, may meet a half made   *)
(* update and follow a dead pointer.  (One that does not is no step of its *)
(* own: a functor that holds a slave goes on with it, listed or not.)      *)
LookupCrashes ==
  /\ Alive
  /\ update # NoUpdate
  /\ health' = "crashed"
  /\ UNCHANGED <<lists, bus, scanner, main, summeryVars, page>>

-----------------------------------------------------------------------------
ScannerStep ==
  \/ ScanBus \/ LookUpSlave \/ FoundListed \/ FoundUnlisted
  \/ NotFoundListed \/ NotFoundUnlisted \/ ScannerUpdated

MainStep == StartFunctor \/ AddSummery \/ SummeryAdded

FunctorStep == RunFunctor \/ FunctorTimeout \/ CopySlave

Next ==
  \/ \E b \in Pluggable : Plug(b) \/ Unplug(b)
  \/ ScannerStep \/ ScannerExits
  \/ MainStep
  \/ FunctorStep \/ FunctorExits
  \/ PageLooksUp \/ PageShowsType
  \/ LookupCrashes

Spec == Init /\ [][Next]_vars

(* The threads run; the scanner's includes that ScanBus works again and    *)
(* again, the functor's that a worker of the pool becomes free.            *)
FairSpec ==
  Spec /\ WF_vars(ScannerStep) /\ WF_vars(MainStep) /\ WF_vars(FunctorStep)

-----------------------------------------------------------------------------
(* Every variable keeps its type; the counters stay far below what a       *)
(* uint8_t holds, although removing a slave does not reset its counter.    *)
TypeOK ==
  /\ list \in [Addresses -> Kinds \cup {"none", "Summery"}]
  /\ update \in [by : {"nobody", "scanner", "main"}, address : Addresses,
                 kind : Kinds \cup {"none", "Summery"}]
  /\ bus \subseteq Boards
  /\ scan \in [pc : {"wait", "look", "act", "update", "exited"},
               slave : Boards, cur : Kinds \cup {"none"}]
  /\ live \subseteq Boards
  /\ counter \in [Boards -> 0 .. MAX_SCAN_FAIL + 2]
  /\ missed \in [Boards -> 0 .. MissedCap]
  /\ main \in {"startFunctor", "addSlave", "adding", "sleep"}
  /\ functor \in [pc : {"none", "posted", "wait", "copy", "exited"}, slave : Boards]
  /\ table \in [Boards -> Kinds \cup {"none"}]
  /\ page \in [slave : Addresses, found : BOOLEAN]
  /\ health \in {"well", "crashed"}

(* A board is only taken off the list after MAX_SCAN_FAIL + 2 scans in a   *)
(* row did not find it: one that comes back in time, however often it is   *)
(* lost and found, keeps its slave.                                        *)
RemovedAfterMisses ==
  [][\A b \in Boards :
       list[b] # "none" /\ list'[b] = "none" => missed[b] >= MAX_SCAN_FAIL + 2]_vars

(* The slave at an address is never exchanged for another one: clients     *)
(* that find a slave talk to one mapping until the board is given up.      *)
NeverExchanged ==
  [][\A a \in Addresses :
       list[a] # "none" => list'[a] \in {list[a], "none"}]_vars

(* The page of the list uses the result of its second lookup unchecked.    *)
(* Short of a lookup in the middle of an update, that ends the process     *)
(* only for a board given up since the first lookup: neither the summery   *)
(* slave nor a board that comes and goes in time can bring it down.        *)
CrashesOnRemovalOnly ==
  [][Alive /\ ~Alive' /\ update = NoUpdate =>
       page.slave \in Boards /\ missed[page.slave] >= MAX_SCAN_FAIL + 2]_vars

Running == Alive /\ scan.pc # "exited"

(* A board that stays on the bus is on the list in the end, and stays.     *)
BoardsListed ==
  \A b \in Boards :
    <>[](b \in bus /\ Running) => <>[](list[b] # "none")

(* A board that stays away is off the list in the end.                     *)
BoardsDropped ==
  \A b \in Boards :
    <>[](b \notin bus /\ Running) => <>[](list[b] = "none")

(* When the list has settled, the summery registers tell its types.  (A    *)
(* list that goes on changing disturbs the lookups of all addresses.)      *)
SummeryFollows ==
  \A b \in Boards, kind \in Kinds \cup {"none"} :
    <>[](/\ update = NoUpdate
         /\ list[b] = kind
         /\ Alive
         /\ functor.pc # "exited") => <>[](table[b] = kind)

(* The boards that the scanner has still to decide about.                  *)
Undecided ==
  CASE scan.pc \in {"look", "act"} -> scan.slave .. LastBoard
    [] scan.pc = "update" -> scan.slave + 1 .. LastBoard
    [] OTHER -> {}

(* What can be at an address.  An IO board may fail to say that it is one. *)
KindsAt ==
  [a \in Addresses |-> IF a = Summery THEN {"Summery"}
                       ELSE IF a \in IOBoards THEN Kinds ELSE {"I2C"}]

Watch ==
  INSTANCE BoardWatch WITH
    Others   <- {Summery},
    Patience <- MAX_SCAN_FAIL + 2,
    Cap      <- MissedCap,
    seen     <- live,
    open     <- Undecided,
    misses   <- missed,
    entries  <- list

(* A counter that survives removals, lookups without the lock and updates  *)
(* in two steps still add up to a list that follows the bus scan by scan,  *)
(* the promise of module BoardWatch: each scan judges each board once, a   *)
(* board is listed by a scan that saw it and dropped by one that missed it *)
(* for the last time, and the summery slave stays.                         *)
ImplementsWatch == Watch!Spec

(* The parts of the invariant from which the others follow.                *)

(* Only the scanner changes the entries of boards, so what it has looked   *)
(* up stays true until it acts.                                            *)
LookupHolds ==
  scan.pc = "act" /\ scan.cur # "none" => list[scan.slave] = scan.cur

(* Whoever holds the lock is where the code says.                          *)
LockOwned ==
  /\ update.by = "nobody" => update = NoUpdate
  /\ update.by = "scanner" =>
       /\ scan.pc = "update"
       /\ update.address = scan.slave
       /\ update.kind \in Kinds \cup {"none"}
  /\ update.by = "main" =>
       /\ main = "adding"
       /\ update.address = Summery
       /\ update.kind = "Summery"

(* Slaves are put where there is none, boards that this scan has found.    *)
InsertsFit ==
  update # NoUpdate /\ update.kind # "none" =>
    /\ list[update.address] = "none"
    /\ update.kind \in KindsAt[update.address]
    /\ update.address \in Boards =>
         update.address \in live /\ counter[update.address] = 0

(* Boards are removed that this scan has not found, nor those before.      *)
RemovalsDue ==
  update # NoUpdate /\ update.kind = "none" =>
    /\ list[update.address] # "none"
    /\ update.address \notin live
    /\ counter[update.address] = MAX_SCAN_FAIL + 2

(* The counter never exceeds the misses it stands for, and at its limit    *)
(* the board is off the list, or about to be.                              *)
CountersMean ==
  \A b \in Boards :
    /\ counter[b] <= missed[b]
    /\ counter[b] = MAX_SCAN_FAIL + 2 =>
         \/ list[b] = "none"
         \/ update = [by |-> "scanner", address |-> b, kind |-> "none"]

(* A slave that the page has found is there, or was given up since and,    *)
(* if it was found again, is about to be there.                            *)
PageHolds ==
  page.found =>
    \/ list[page.slave] # "none"
    \/ update.address = page.slave /\ update.kind # "none"
    \/ page.slave \in Boards /\ missed[page.slave] >= MAX_SCAN_FAIL + 2

IInv ==
  /\ TypeOK
  /\ LookupHolds
  /\ LockOwned
  /\ InsertsFit
  /\ RemovalsDue
  /\ CountersMean
  /\ PageHolds
=============================================================================
