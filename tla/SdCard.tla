------------------------------- MODULE SdCard -------------------------------
(***************************************************************************)
(* The SD card driver of Application/sdcard.c under the drive table of     *)
(* FatFs/diskio.c, with the two timers the TIM6 interrupt counts down and, *)
(* as far as the driver relies on it, the card: an initialisation is a     *)
(* sequence of commands whose answers, delays and busy times the card      *)
(* chooses, and the card may be pulled or exchanged at any moment.         *)
(*                                                                         *)
(* A step is one command with its answer, one poll of the busy line, or    *)
(* one look at a timer.  FatFs is not re-entrant here: one caller.         *)
(***************************************************************************)
EXTENDS Naturals, Sequences

CONSTANTS
  Ncr,            \* how many bytes late a card may answer
  ReadyMs,        \* bound: wait_ready's 500 ms, in ticks
  InitMs          \* bound: the 1500 ms of the initialisation, in ticks

ASSUME NcrAssumption == Ncr \subseteq 0..9
ASSUME TimeoutAssumption == ReadyMs \in Nat /\ InitMs \in Nat

\* diskio.h: DRESULT, and the one bit of DSTATUS the driver sets.
RES_OK     == 0
RES_ERROR  == 1
RES_NOTRDY == 3
RES_PARERR == 4
STA_NOINIT == 1

\* diskio.c's table: only the card is there.
DEV_MMC == 0
DEV_RAM == 1
DEV_USB == 2
Drives  == {DEV_MMC, DEV_RAM, DEV_USB, 3}

Kinds == {"none", "MMC", "SD1", "SD2", "SDHC"}

VARIABLES
  pc,             \* "idle", or where SD_initialize or CTRL_SYNC is
  caller,         \* the function that called SD_ChipSelect
  call, ret,      \* the last function of the card that returned, or "data" if
                  \* it came to its transfer of data, and its result
  Stat, CardType,
  sd_type, ocr,   \* locals of SD_initialize
  data,           \* the byte wait_ready read last
  cs,             \* the card's chip select
  Time_SD, Time_SD_Init,
  card,           \* the card in the socket
  awake,          \* that card has left its idle state
  swapped         \* history: the card changed since SD_initialize began

timers   == <<Time_SD, Time_SD_Init>>
socket   == <<card, awake, swapped>>
locals   == <<sd_type, ocr, data, caller>>
vars == <<pc, call, ret, Stat, CardType, cs, locals, timers, socket>>

Init ==
  /\ pc = "idle" /\ caller = "none" /\ call = "none" /\ ret = RES_OK
  /\ Stat = STA_NOINIT /\ CardType = "none"
  /\ sd_type = "none" /\ ocr = <<255, 255, 255, 255>> /\ data = "ff"
  /\ cs = "high"
  /\ Time_SD = 0 /\ Time_SD_Init = 0
  /\ card \in Kinds /\ awake = FALSE /\ swapped = FALSE

-----------------------------------------------------------------------------
(* The card *)

R7  == <<0, 0, 1, 170>>
OCR == <<IF card = "SDHC" THEN 192 ELSE 128, 255, 128, 0>>

R1 == IF awake THEN 0 ELSE 1       \* bit 0: in idle state
NoAnswer == 255

\* What the card answers to a command, and whether it is awake then.  When
\* an initialisation ends is the card's to choose.
Answers(cmd) ==
  IF cs = "high" \/ card = "none" THEN { <<NoAnswer, awake>> }
  ELSE
  CASE cmd = "CMD0" -> { <<1, FALSE>> }
    [] cmd = "ACMD41" /\ card # "MMC" -> { <<R1, awake>>, <<0, TRUE>> }
    [] cmd = "CMD1" /\ card = "MMC" -> { <<R1, awake>>, <<0, TRUE>> }
    [] \/ cmd = "ACMD41" /\ card = "MMC"
       \/ cmd = "CMD8" /\ card \notin {"SD2", "SDHC"} ->
         { <<R1 + 4, awake>> }     \* illegal command
    [] OTHER -> { <<R1, awake>> }

\* The card in the socket is exchanged.
Swap ==
  /\ card' \in Kinds \ {card}
  /\ awake' = FALSE
  /\ swapped' = TRUE
  /\ UNCHANGED <<pc, call, ret, Stat, CardType, cs, locals, timers>>

-----------------------------------------------------------------------------
(* The timers *)

\* Mutant of Down: the counter is not kept at 0 and wraps.
DownWraps(n) == (n + InitMs + 1) % (InitMs + 2)

Down(n) == IF n > 0 THEN n - 1 ELSE 0

TIM6_IRQHandler ==
  /\ Time_SD' = Down(Time_SD)
  /\ Time_SD_Init' = Down(Time_SD_Init)
  /\ UNCHANGED <<pc, call, ret, Stat, CardType, cs, locals, socket>>

-----------------------------------------------------------------------------
(* SD_SendCmd, SD_ChipSelect and the return of a function *)

\* The command cmd gets the answer r.  An ACMD and the CMD55 sent before it
\* get one answer in one step: if CMD55 is refused, what it answered is the
\* result.
SD_SendCmd(cmd, r) ==
  /\ awake' \in BOOLEAN
  /\ <<r, awake'>> \in Answers(cmd)

R1s == {0, 1, 4, 5, NoAnswer}

\* The four bytes the driver reads after a command.  SD_SendCmd has read ten
\* bytes already: if the card answered n bytes late, 9 - n of those that
\* follow the answer are gone, and past the end the line is idle.
FourBytesAfter(response, n) ==
  [i \in 1..4 |-> IF i + 9 - n <= 4 THEN response[i + 9 - n] ELSE 255]

\* SD_ChipSelect, up to the first poll.
SD_ChipSelect(f) ==
  /\ cs' = "low"
  /\ Time_SD' = ReadyMs
  /\ caller' = f /\ pc' = "sample"

\* Mutant of Return: the chip select is left as it is.
ReturnSelected(f, r) ==
  /\ pc' = "idle" /\ call' = f /\ ret' = r
  /\ UNCHANGED cs

Return(f, r) ==
  /\ pc' = "idle" /\ call' = f /\ ret' = r
  /\ cs' = "high"

\* wait_ready reads a byte: a card may hold the line low as long as it likes.
Sample ==
  /\ pc = "sample"
  /\ data' \in IF card = "none" THEN {"ff"} ELSE {"ff", "busy"}
  /\ pc' = "test"
  /\ UNCHANGED <<call, ret, Stat, CardType, cs, sd_type, ocr, caller, timers,
                 socket>>

StillBusy ==
  /\ pc = "test" /\ data = "busy" /\ Time_SD > 0
  /\ pc' = "sample"
  /\ UNCHANGED <<call, ret, Stat, CardType, cs, locals, timers, socket>>

\* Mutant of TimedOut: the timer decides, not the byte.
TimedOutByTimer ==
  /\ pc = "test" /\ Time_SD = 0
  /\ Return(caller, IF caller = "initialize" THEN RES_NOTRDY ELSE RES_ERROR)
  /\ UNCHANGED <<Stat, CardType, locals, timers, socket>>

TimedOut ==
  /\ pc = "test" /\ data = "busy" /\ Time_SD = 0
  /\ Return(caller, IF caller = "initialize" THEN RES_NOTRDY ELSE RES_ERROR)
  /\ UNCHANGED <<Stat, CardType, locals, timers, socket>>

\* The last byte decides, whatever the timer says.
Selected ==
  /\ pc = "test" /\ data = "ff"
  /\ IF caller = "sync" THEN Return("sync", RES_OK)
     ELSE pc' = "CMD0" /\ UNCHANGED <<call, ret, cs>>
  /\ UNCHANGED <<Stat, CardType, locals, timers, socket>>

-----------------------------------------------------------------------------
(* SD_initialize *)

SD_initialize ==
  /\ pc = "idle"
  /\ Stat' = STA_NOINIT
  /\ sd_type' = "none"
  /\ swapped' = FALSE
  /\ SD_ChipSelect("initialize")
  /\ UNCHANGED <<call, ret, CardType, ocr, data, Time_SD_Init, card, awake>>

\* What the commands of the initialisation leave alone.
Quiet == UNCHANGED <<call, ret, Stat, CardType, cs, data, caller, Time_SD,
                     card, swapped>>

GoIdle ==
  /\ pc = "CMD0"
  /\ \E r \in R1s :
       /\ SD_SendCmd("CMD0", r)
       /\ IF r = 1 THEN pc' = "CMD8" /\ Time_SD_Init' = InitMs
                   ELSE pc' = "finish" /\ UNCHANGED Time_SD_Init
  /\ Quiet /\ UNCHANGED <<sd_type, ocr>>

SendIfCond ==
  /\ pc = "CMD8"
  /\ \E r \in R1s, n \in Ncr :
       /\ SD_SendCmd("CMD8", r)
       /\ IF r = 1 THEN pc' = "voltage" /\ ocr' = FourBytesAfter(R7, n)
                   ELSE pc' = "version1" /\ UNCHANGED ocr
  /\ Quiet /\ UNCHANGED <<sd_type, Time_SD_Init>>

CheckVoltage ==
  /\ pc = "voltage"
  /\ pc' = IF ocr[3] = 1 /\ ocr[4] = 170 THEN "loop2" ELSE "finish"
  /\ Quiet /\ UNCHANGED <<sd_type, ocr, awake, Time_SD_Init>>

\* The loops of lines 235 and 259 end with the answer 0 or with the time.
WaitVersion2 ==
  /\ pc = "loop2" /\ Time_SD_Init > 0
  /\ \E r \in R1s : /\ SD_SendCmd("ACMD41", r)
                    /\ pc' = IF r = 0 THEN "end2" ELSE "loop2"
  /\ Quiet /\ UNCHANGED <<sd_type, ocr, Time_SD_Init>>

InitTimedOut ==
  /\ Time_SD_Init = 0
  /\ \/ pc = "loop2" /\ pc' = "end2"
     \/ pc = "loop1" /\ pc' = "end1"
  /\ Quiet /\ UNCHANGED <<sd_type, ocr, awake, Time_SD_Init>>

\* Mutant of GiveUp: the type found so far is kept.
GiveUpKeepsType ==
  /\ pc \in {"end1", "end2"} /\ Time_SD_Init = 0
  /\ pc' = "finish"
  /\ Quiet /\ UNCHANGED <<sd_type, ocr, awake, Time_SD_Init>>

\* The time is looked at again after the loop: a card that answered in the
\* last tick is given up as well.
GiveUp ==
  /\ pc \in {"end1", "end2"} /\ Time_SD_Init = 0
  /\ pc' = "finish" /\ sd_type' = "none"
  /\ Quiet /\ UNCHANGED <<ocr, awake, Time_SD_Init>>

\* Bit 6 of the first byte read says that the card has block addresses.
ReadOCR ==
  /\ pc = "end2" /\ Time_SD_Init > 0
  /\ pc' = "finish"
  /\ \E r \in R1s, n \in Ncr :
       /\ SD_SendCmd("CMD58", r)
       /\ ocr' = IF r = 0 THEN FourBytesAfter(OCR, n) ELSE ocr
       /\ sd_type' = IF r # 0 THEN sd_type
                     ELSE IF (ocr'[1] \div 64) % 2 = 1 THEN "SDHC" ELSE "SD2"
  /\ Quiet /\ UNCHANGED Time_SD_Init

\* An MMC refuses ACMD41.
TellVersion1 ==
  /\ pc = "version1"
  /\ pc' = "loop1"
  /\ \E r \in R1s : /\ SD_SendCmd("ACMD41", r)
                    /\ sd_type' = IF r <= 1 THEN "SD1" ELSE "MMC"
  /\ Quiet /\ UNCHANGED <<ocr, Time_SD_Init>>

WaitVersion1 ==
  /\ pc = "loop1" /\ Time_SD_Init > 0
  /\ \E r \in R1s :
       /\ SD_SendCmd(IF sd_type = "SD1" THEN "ACMD41" ELSE "CMD1", r)
       /\ pc' = IF r = 0 THEN "end1" ELSE "loop1"
  /\ Quiet /\ UNCHANGED <<sd_type, ocr, Time_SD_Init>>

SetBlockLength ==
  /\ pc = "end1" /\ Time_SD_Init > 0
  /\ pc' = "finish"
  /\ \E r \in R1s : /\ SD_SendCmd("CMD16", r)
                    /\ sd_type' = IF r = 0 THEN sd_type ELSE "none"
  /\ Quiet /\ UNCHANGED <<ocr, Time_SD_Init>>

Finish ==
  /\ pc = "finish"
  /\ CardType' = sd_type
  /\ Stat' = IF sd_type = "none" THEN STA_NOINIT ELSE 0
  /\ Return("initialize", Stat')
  /\ UNCHANGED <<locals, timers, socket>>

-----------------------------------------------------------------------------
(* The other functions of the driver *)

\* A function that returns without touching the card.
Refuse(f, r) ==
  /\ pc = "idle"
  /\ call' = f /\ ret' = r
  /\ UNCHANGED <<pc, Stat, CardType, cs, locals, timers, socket>>

SD_status == Refuse("status", Stat)

\* A first command; only if the card accepts it is there a transfer of data,
\* which may succeed or fail.  The blocks are one step, with their loops of
\* lines 98 to 102 and 118 and with CMD12 and the stop token after them, and
\* so is ACMD23, whose answer is not looked at.  What they do to the timers is
\* left out: Time_SD is set again before it is read again.  As no caller
\* selects the card, none accepts a first command, and no run gets that far.
Transfer(f, cmd) ==
  IF Stat = STA_NOINIT THEN Refuse(f, RES_NOTRDY)
  ELSE /\ pc = "idle"
       /\ \E r \in R1s :
            /\ SD_SendCmd(cmd, r)
            /\ \E result \in IF r = 0 THEN {RES_OK, RES_ERROR} ELSE {RES_ERROR} :
                 Return(IF r = 0 THEN "data" ELSE f, result)
       /\ UNCHANGED <<Stat, CardType, locals, timers, card, swapped>>

SD_read(count) ==
  IF count = 0 THEN Refuse("read", RES_PARERR)
  ELSE Transfer("read", IF count = 1 THEN "CMD17" ELSE "CMD18")

SD_write(count) ==
  IF count = 0 THEN Refuse("write", RES_PARERR)
  ELSE Transfer("write", IF count = 1 THEN "CMD24" ELSE "CMD25")

\* CTRL_SYNC is the one that selects the card.  CTRL_TRIM asks for MMC_GET_CSD,
\* which is in the default case.
SD_ioctl(cmd) ==
  CASE cmd = "CTRL_SYNC" /\ Stat = 0 ->
         /\ pc = "idle"
         /\ SD_ChipSelect("sync")
         /\ UNCHANGED <<call, ret, Stat, CardType, sd_type, ocr, data,
                        Time_SD_Init, socket>>
    [] cmd = "GET_SECTOR_COUNT" -> Transfer("ioctl", "CMD9")
    [] cmd = "GET_BLOCK_SIZE" ->
         Transfer("ioctl", IF CardType \in {"SD2", "SDHC"} THEN "ACMD13" ELSE "CMD9")
    [] OTHER ->
         Refuse("ioctl", IF Stat = STA_NOINIT THEN RES_NOTRDY
                         ELSE IF cmd = "CTRL_TRIM" THEN RES_ERROR
                         ELSE RES_PARERR)

-----------------------------------------------------------------------------
(* diskio.c *)

\* The drives that are not there, and those the table does not know.
NoSuchStatus(drive) ==
  Refuse("other", IF drive \in {DEV_RAM, DEV_USB} THEN RES_PARERR ELSE STA_NOINIT)

NoSuchDrive == Refuse("other", RES_PARERR)

disk_status(drive) ==
  IF drive = DEV_MMC THEN SD_status ELSE NoSuchStatus(drive)

disk_initialize(drive) ==
  IF drive = DEV_MMC THEN SD_initialize ELSE NoSuchStatus(drive)

disk_read(drive, count) == IF drive = DEV_MMC THEN SD_read(count) ELSE NoSuchDrive

disk_write(drive, count) ==
  IF drive = DEV_MMC THEN SD_write(count) ELSE NoSuchDrive

disk_ioctl(drive, cmd) == IF drive = DEV_MMC THEN SD_ioctl(cmd) ELSE NoSuchDrive

Commands ==
  {"CTRL_SYNC", "GET_SECTOR_COUNT", "GET_BLOCK_SIZE", "CTRL_TRIM", "MMC_GET_CSD"}

Driver ==
  \/ Sample \/ StillBusy \/ TimedOut \/ Selected
  \/ GoIdle \/ SendIfCond \/ CheckVoltage \/ WaitVersion2 \/ InitTimedOut
  \/ GiveUp \/ ReadOCR \/ TellVersion1 \/ WaitVersion1 \/ SetBlockLength
  \/ Finish

Next ==
  \/ \E drive \in Drives :
       \/ disk_status(drive) \/ disk_initialize(drive)
       \/ \E count \in 0..2 : disk_read(drive, count) \/ disk_write(drive, count)
       \/ \E cmd \in Commands : disk_ioctl(drive, cmd)
  \/ Driver
  \/ TIM6_IRQHandler
  \/ Swap

Spec == Init /\ [][Next]_vars

\* The task is scheduled and the timer's interrupt is served.
FairSpec == Spec /\ WF_vars(Driver) /\ WF_vars(TIM6_IRQHandler)

-----------------------------------------------------------------------------
(* Properties *)

\* Whichever way a function returns, the card is off the bus it shares with
\* the serial flash.
DeselectedBetween == pc = "idle" => cs = "high"

\* A drive that is not marked STA_NOINIT has a card that left its idle state,
\* of the family the driver took it for, unless it was exchanged since.
ReadyIsReady ==
  pc = "idle" /\ Stat = 0 /\ ~swapped =>
    /\ awake
    /\ \/ CardType = card
       \/ {CardType, card} \subseteq {"SD2", "SDHC"}

\* A card is called not ready only if it was busy when last looked at: a card
\* that comes ready in the tick in which the time runs out is not refused.
TimeoutMeansBusy ==
  (/\ pc = "idle"
   /\ \/ call = "initialize" /\ ret = RES_NOTRDY
      \/ call = "sync" /\ ret = RES_ERROR)
  => data = "busy"

\* Whatever the card does, stays busy or never wakes up, the timers end every
\* loop of SD_initialize and of CTRL_SYNC, so that the call returns.
CallReturns == pc # "idle" ~> pc = "idle"

\* diskio.h:21, RES_ERROR is "R/W Error": a read or a write of a card that was
\* initialised and is still in the socket, and of which no block was lost, as
\* it never came to the transfer of data, gives none.
ErrorIsTransferError ==
  pc = "idle" /\ call \in {"read", "write"} /\ ret = RES_ERROR => swapped
=============================================================================
