------------------------------- MODULE SpiFlash -------------------------------
(***************************************************************************)
(* The driver of the serial flash, sst25vfxx.c, on the bus of Spi1Lock.    *)
(*                                                                         *)
(* A command is a dozen transfers under spi1_lock: a write erases, then    *)
(* programs word after word; a read copies block after block.  The caller  *)
(* may lose the CPU between any two, and the board its power.  A transfer  *)
(* that could not wait (SendNow) talks to another chip, with another       *)
(* configuration of the bus, in the middle of a command: what the flash    *)
(* makes of the rest is not known, and no more what it holds.              *)
(*                                                                         *)
(* A word is the set of the values programmed since it was erased: the     *)
(* chip can only clear bits, two values leave their conjunction.  All the  *)
(* words of a write are written with one value.                            *)
(***************************************************************************)
EXTENDS Spi1Lock

CONSTANTS
  Flash,   \* the users of the bus that access the flash
  Sectors, \* geometry.sector_count
  W,       \* words of a sector (4096 bytes in the chip)
  MaxSize, \* sectors of one read or write of the file system
  Data,
  Unknown

ASSUME SpiFlashAssumption ==
  /\ Flash \subseteq Users /\ Unknown \notin Data
  /\ Sectors \in Nat \ {0} /\ W \in Nat \ {0} /\ MaxSize \in 1..Sectors

VARIABLES
  chip,  \* what the words hold
  op,    \* what a thread is doing with the flash
  holds  \* history: the last completed write of each sector, or Unknown

flashVars == <<chip, op, holds>>
allVars == <<vars, flashVars>>

Sector == 0..Sectors-1
Blank == [w \in 0..W-1 |-> {}]
Junk == [w \in 0..W-1 |-> Data]
None == [pc |-> "none", page |-> 0, size |-> 1, data |-> Unknown, at |-> 0,
         seen |-> {}, good |-> {}]

Pages(o) == o.page .. o.page + o.size - 1

(* Where the address counter of the chip is.                                *)
SectorAt(o) == o.page + o.at \div W
WordAt(o) == o.at % W

(* The sectors that a write leaves as it should: the driver erases the      *)
(* first of them only.                                                      *)
Erased(o) == {o.page} \cup {s \in Pages(o) : chip[s] = Blank}

(* A thread executes a transfer of its command.                             *)
At(t, step) == Runs(t) /\ t \in using /\ op[t].pc = step

Then(t, o) == op' = [op EXCEPT ![t] = o]
Forget(S) == holds' = [s \in Sector |-> IF s \in S THEN Unknown ELSE holds[s]]

(* The rest of a command that something else came into.                     *)
Garbled ==
  /\ shared
  /\ \E s \in Sector : chip' = [chip EXCEPT ![s] = Junk] \/ UNCHANGED chip
  /\ Forget(Sector)

-----------------------------------------------------------------------------

(* sst25vfxx_read and sst25vfxx_page_write, up to the lock; or a transfer   *)
(* with the codec.                                                          *)
Begin(t) ==
  /\ Take(t)
  /\ IF t \in Flash
     THEN \E page \in Sector, size \in 1..MaxSize, step \in {"read", "erase"}, d \in Data :
            /\ page + size <= Sectors
            /\ Then(t, [None EXCEPT !.pc = step, !.page = page, !.size = size,
                                    !.data = IF step = "read" THEN Unknown ELSE d])
     ELSE UNCHANGED op
  /\ UNCHANGED <<chip, holds>>

(* Fault: the write begins with the program command.                        *)
EraseNothing(t) ==
  /\ At(t, "erase")
  /\ UNCHANGED chip
  /\ Forget(Pages(op[t]))
  /\ Then(t, [op[t] EXCEPT !.pc = "program", !.good = Erased(op[t])])
  /\ UNCHANGED vars

(* CMD_WREN and CMD_ERASE_4K, and the wait until it is done.                *)
Erase(t) ==
  /\ At(t, "erase")
  /\ \/ Garbled
     \/ /\ ~shared
        /\ chip' = [chip EXCEPT ![op[t].page] = Blank]
        /\ Forget(Pages(op[t]))
  /\ Then(t, [op[t] EXCEPT !.pc = "program", !.good = Erased(op[t])])
  /\ UNCHANGED vars

(* CMD_AAIP: the next word, across the end of a sector.                     *)
Program(t) ==
  /\ At(t, "program")
  /\ \/ Garbled
     \/ /\ ~shared
        /\ chip' = [chip EXCEPT ![SectorAt(op[t])][WordAt(op[t])] = @ \cup {op[t].data}]
        /\ UNCHANGED holds
  /\ LET o == [op[t] EXCEPT !.at = @ + 1]
     IN Then(t, IF o.at = o.size * W THEN [o EXCEPT !.pc = "done"] ELSE o)
  /\ UNCHANGED vars

(* One block by DMA into the driver's buffer and from there to the caller.  *)
Read(t) ==
  /\ At(t, "read")
  /\ \/ Garbled
     \/ ~shared /\ UNCHANGED <<chip, holds>>
  /\ LET o == [op[t] EXCEPT !.seen = @ \cup {chip[SectorAt(op[t])][WordAt(op[t])]},
                            !.at = @ + 1]
     IN Then(t, IF o.at = o.size * W THEN [o EXCEPT !.pc = "done"] ELSE o)
  /\ UNCHANGED vars

(* CMD_WRDI and the release of the lock.                                    *)
End(t) ==
  /\ Release(t)
  /\ t \in Flash => op[t].pc = "done"
  /\ IF t \in Flash /\ op[t].data # Unknown
     THEN holds' = [s \in Sector |->
            IF shared THEN Unknown
            ELSE IF s \in op[t].good THEN op[t].data ELSE holds[s]]
     ELSE UNCHANGED holds
  /\ IF t \in Flash THEN Then(t, None) ELSE UNCHANGED op
  /\ UNCHANGED chip

(* The board loses its power: the sector that is being written may hold     *)
(* anything.                                                                *)
PowerFails ==
  /\ \E S \in SUBSET {SectorAt(op[t]) :
                        t \in {u \in Flash \cap using : op[u].pc \in {"erase", "program"}}} :
       /\ chip' = [s \in Sector |-> IF s \in S THEN Junk ELSE chip[s]]
       /\ Forget(S)
  /\ value' = 1 /\ list' = <<>>
  /\ asleep' = {} /\ waiting' = {} /\ using' = {}
  /\ cur' = Top(Threads)
  /\ shared' = FALSE /\ fault' = FALSE
  /\ op' = [t \in Flash |-> None]

-----------------------------------------------------------------------------

FlashInit ==
  /\ Init
  /\ chip = [s \in Sector |-> Blank]
  /\ op = [t \in Flash |-> None]
  /\ holds = [s \in Sector |-> Unknown]

Transfer(t) == Erase(t) \/ Program(t) \/ Read(t)

FlashNext ==
  \/ \E t \in Threads : Begin(t) \/ End(t)
  \/ \E t \in Flash : Transfer(t)
  \/ /\ \/ \E t \in Threads : Suspend(t) \/ rt_thread_timeout(t)
        \/ rt_schedule \/ SendNow \/ SendNowRelinks
     /\ UNCHANGED flashVars
  \/ PowerFails

FlashSpec == FlashInit /\ [][FlashNext]_allVars

-----------------------------------------------------------------------------
(* Properties.                                                              *)

(* After a completed write each word of its sectors holds what was written, *)
(* and goes on holding it: through writes of other sectors by other         *)
(* threads, and through a power failure that does not strike the sector     *)
(* itself.  Not so when a transfer that could not wait came into a command, *)
(* nor for the second sector of a write unless it was blank.                *)
StoredAsWritten ==
  \A s \in Sector : holds[s] # Unknown => \A w \in 0..W-1 : chip[s][w] = {holds[s]}

(* A read of any number of sectors that nothing came into returns the last  *)
(* completed write of each.                                                 *)
ReadsBack ==
  \A t \in Flash :
    LET o == op[t] IN
    o.pc = "done" /\ o.data = Unknown /\ ~shared
    /\ (\A s \in Pages(o) : holds[s] # Unknown)
    => o.seen = {{holds[s]} : s \in Pages(o)}
=============================================================================
