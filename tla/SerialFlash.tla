----------------------------- MODULE SerialFlash -----------------------------
(***************************************************************************)
(* The W25X16 driver of Application/serialflash.c and, as far as the       *)
(* driver relies on it, the chip: a step is one command, from chip select  *)
(* low to chip select high (SpiDma shows the bytes of a command arrive).   *)
(* While the chip is busy it obeys nothing but Read Status; it obeys an    *)
(* erase or a program only with its write enable latch set, and resets the *)
(* latch when it has done so.                                              *)
(*                                                                         *)
(* The processor may be reset in the middle of a call; the chip is not.    *)
(*                                                                         *)
(* Addresses are pages: WritePage cuts its data to one page, and its       *)
(* callers pass addresses at which a page starts.                          *)
(***************************************************************************)
EXTENDS Naturals, FiniteSets

CONSTANTS
  Pages,
  Sector,         \* the sector of each page
  Data            \* what a page can be programmed with

ASSUME SectorAssumption == Sector \in [Pages -> Nat]

Erased  == "erased"
Garbled == "garbled"     \* programmed without having been erased
NoOp    == [kind |-> "none"]

VARIABLES
  at,             \* where the caller is in the driver
  op,             \* the call in progress
  quiet,          \* history: the chip was idle when the call began
  before,         \* history: what the pages held when the call began
  rx_buff,        \* what the last Read found
  cell,           \* chip: what each page holds
  wel,            \* chip: write enable latch
  job             \* chip: the erase or program being carried out (BUSY)

chipVars == <<cell, wel, job>>
began == <<op, quiet, before>>
flashVars == <<at, began, rx_buff, chipVars>>

Busy == job.kind # "none"

FlashInit ==
  /\ at = "idle" /\ op = NoOp /\ quiet = TRUE /\ rx_buff = Erased
  /\ cell \in [Pages -> Data \cup {Erased}]
  /\ wel = 0 /\ job = NoOp
  /\ before = cell

\* What an operation makes of the memory.
Effect(o, mem) ==
  [p \in Pages |->
     CASE o.kind = "EraseChip" -> Erased
       [] o.kind = "SectorErase" /\ Sector[p] = o.sector -> Erased
       [] o.kind = "WritePage" /\ p = o.page ->
            (IF mem[p] = Erased THEN o.data ELSE Garbled)
       [] OTHER -> mem[p]]

-----------------------------------------------------------------------------
(* The chip *)

ChipWriteEnable == IF Busy THEN UNCHANGED wel ELSE wel' = 1

ChipExecute(o) ==
  IF ~Busy /\ wel = 1 THEN job' = o ELSE UNCHANGED job

ChipRead(p) == IF Busy THEN Garbled ELSE cell[p]

\* The chip finishes, in its own time.
ChipFinish ==
  /\ Busy
  /\ cell' = Effect(job, cell)
  /\ wel' = 0
  /\ job' = NoOp
  /\ UNCHANGED <<at, began, rx_buff>>

-----------------------------------------------------------------------------
(* The driver *)

\* Mutant of Begin: WritePage leaves the write enable to its caller.
BeginUnenabled(o, first) ==
  /\ at = "idle"
  /\ at' = IF o.kind = "WritePage" THEN "command" ELSE first
  /\ op' = o /\ quiet' = ~Busy /\ before' = cell
  /\ UNCHANGED <<rx_buff, chipVars>>

Begin(o, first) ==
  /\ at = "idle"
  /\ at' = first
  /\ op' = o /\ quiet' = ~Busy /\ before' = cell
  /\ UNCHANGED <<rx_buff, chipVars>>

FLASH_SectorErase(s) == Begin([kind |-> "SectorErase", sector |-> s], "enable")

FLASH_WritePage(p, d) ==
  Begin([kind |-> "WritePage", page |-> p, data |-> d], "enable")

FLASH_Read(p) == Begin([kind |-> "Read", page |-> p], "command")

\* No write enable, and no wait for the end.
FLASH_EraseChip == Begin([kind |-> "EraseChip"], "command")

\* SectorErase waits after the write enable, WritePage does not.
FLASH_WriteEnable ==
  /\ at = "enable"
  /\ at' = IF op.kind = "SectorErase" THEN "waitBefore" ELSE "command"
  /\ ChipWriteEnable
  /\ UNCHANGED <<began, rx_buff, cell, job>>

\* FLASH_WaitWriteOver: status is read until BUSY is clear.
WaitBefore ==
  /\ at = "waitBefore"
  /\ ~Busy
  /\ at' = "command"
  /\ UNCHANGED <<began, rx_buff, chipVars>>

\* Mutant of WriteCommand: no wait for the end of the operation.
WriteCommandNoWait ==
  /\ at = "command" /\ op.kind # "Read"
  /\ ChipExecute(op)
  /\ at' = "idle"
  /\ UNCHANGED <<began, rx_buff, cell, wel>>

WriteCommand ==
  /\ at = "command" /\ op.kind # "Read"
  /\ ChipExecute(op)
  /\ at' = IF op.kind = "EraseChip" THEN "idle" ELSE "waitAfter"
  /\ UNCHANGED <<began, rx_buff, cell, wel>>

\* Mutant of WaitAfter: the loop stays while the chip is idle.
WaitForBusy ==
  /\ at = "waitAfter"
  /\ Busy
  /\ at' = "idle"
  /\ UNCHANGED <<began, rx_buff, chipVars>>

WaitAfter ==
  /\ at = "waitAfter"
  /\ ~Busy
  /\ at' = "idle"
  /\ UNCHANGED <<began, rx_buff, chipVars>>

\* Read does not look at BUSY.
ReadCommand ==
  /\ at = "command" /\ op.kind = "Read"
  /\ rx_buff' = ChipRead(op.page)
  /\ at' = "idle"
  /\ UNCHANGED <<began, chipVars>>

\* The processor starts again and the call is forgotten; the chip goes on.
Restart ==
  /\ at # "idle"
  /\ at' = "idle" /\ op' = NoOp
  /\ UNCHANGED <<quiet, before, rx_buff, chipVars>>

Driver ==
  \/ FLASH_WriteEnable \/ WaitBefore \/ WriteCommand \/ WaitAfter
  \/ ReadCommand

FlashNext ==
  \/ \E p \in Pages : FLASH_SectorErase(Sector[p])
  \/ \E p \in Pages, d \in Data : FLASH_WritePage(p, d)
  \/ \E p \in Pages : FLASH_Read(p)
  \/ FLASH_EraseChip
  \/ Driver
  \/ ChipFinish
  \/ Restart

FlashSpec == FlashInit /\ [][FlashNext]_flashVars

\* The caller is scheduled, and the chip ends what it has begun.
FlashFairSpec == FlashSpec /\ WF_flashVars(Driver) /\ WF_flashVars(ChipFinish)

-----------------------------------------------------------------------------
(* Properties *)

\* "Everytime try to write, enable flash write status first"
\* (serialflash.c:107): an erase or program command finds the latch set and
\* the chip idle, unless the chip was busy already when the call began, which
\* takes a reset of the processor.  FLASH_EraseChip does not enable.
EnabledUnlessBusy ==
  at = "command" /\ op.kind \in {"SectorErase", "WritePage"} /\ quiet =>
    wel = 1 /\ ~Busy

\* A call that found the chip idle and returned has had its whole effect, and
\* no other: nothing was dropped by the chip, nothing is left of a call that a
\* reset cut off.  A Read has found what the page holds.  Whatever it found, a
\* write that returned leaves an idle chip with its latch reset to the next
\* call: a reset in the middle of a write costs at most the first write after.
EffectInPlace ==
  at = "idle" =>
    /\ quiet /\ op.kind \in {"SectorErase", "WritePage"} => cell = Effect(op, before)
    /\ quiet /\ op.kind = "Read" => cell = before /\ rx_buff = cell[op.page]
    /\ op.kind \in {"SectorErase", "WritePage"} => ~Busy /\ wel = 0

\* Every call returns: the polls of BUSY end.
CallReturns == at # "idle" ~> at = "idle"
==============================================================================
