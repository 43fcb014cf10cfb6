----------------------------- MODULE SdCardProof -----------------------------
(***************************************************************************)
(* Proofs about the SD card driver, for every delay of the card and every  *)
(* length of the two time-outs: the card is deselected between calls, a    *)
(* drive said to be ready holds a card that left its idle state and is of  *)
(* the family the driver took it for, and a time-out means a busy card.    *)
(***************************************************************************)
EXTENDS SdCard, TLAPS

-----------------------------------------------------------------------------
(* The inductive invariant *)

Version2  == {"SD2", "SDHC"}
Version1  == {"MMC", "SD1"}
Selecting == {"sample", "test"}
Before    == {"CMD0", "CMD8", "voltage", "loop2", "end2", "version1"}
After     == {"loop1", "end1", "finish"}

Types ==
  /\ pc \in {"idle"} \cup Selecting \cup Before \cup After
  /\ caller \in {"none", "initialize", "sync"}
  /\ Stat \in {0, STA_NOINIT}
  /\ CardType \in Kinds /\ sd_type \in Kinds /\ card \in Kinds
  /\ cs \in {"high", "low"}
  /\ Time_SD \in Nat /\ Time_SD_Init \in Nat
  /\ awake \in BOOLEAN /\ swapped \in BOOLEAN

\* The card is selected exactly while a function that needs it runs, and only
\* SD_initialize gets past wait_ready without returning.
SelectInv ==
  /\ cs = IF pc = "idle" THEN "high" ELSE "low"
  /\ pc \in Selecting => caller # "none"
  /\ pc \in Before \cup After => caller = "initialize"

\* While SD_initialize runs the drive is marked, and the type is not set
\* before the first command that can tell it.
MarkInv ==
  /\ pc # "idle" /\ caller = "initialize" => Stat = STA_NOINIT
  /\ pc \in Selecting /\ caller = "initialize" => sd_type = "none"
  /\ pc \in Before => sd_type = "none"

Matches(type) == type = card \/ {type, card} \subseteq Version2

\* What the answers so far say about the card, as long as it is still in the
\* socket.  A card that ended its loop is awake, if the time is not over.
KnownInv ==
  ~swapped =>
    /\ pc = "CMD8" => card # "none" /\ ~awake
    /\ pc \in {"voltage", "loop2"} => card \in Version2
    /\ pc = "end2" /\ Time_SD_Init > 0 => card \in Version2 /\ awake
    /\ pc = "version1" => card \in Version1
    /\ pc = "loop1" => sd_type = card /\ card \in Version1
    /\ pc = "end1" /\ Time_SD_Init > 0 => sd_type = card /\ awake
    /\ pc = "finish" /\ sd_type # "none" => Matches(sd_type) /\ awake
    /\ Stat = 0 => Matches(CardType) /\ awake

IInv == Types /\ SelectInv /\ MarkInv /\ KnownInv /\ TimeoutMeansBusy

-----------------------------------------------------------------------------
(* What the card answers *)

LEMMA AnswerCases ==
  ASSUME NEW cmd, NEW r, SD_SendCmd(cmd, r), awake \in BOOLEAN
  PROVE  /\ awake' \in BOOLEAN
         /\ \/ (cs = "high" \/ card = "none") /\ r = NoAnswer /\ awake' = awake
            \/ /\ cs # "high" /\ card # "none"
               /\ \/ cmd = "CMD0" /\ r = 1 /\ awake' = FALSE
                  \/ cmd = "ACMD41" /\ card # "MMC" /\ r = 0 /\ awake' = TRUE
                  \/ cmd = "CMD1" /\ card = "MMC" /\ r = 0 /\ awake' = TRUE
                  \/ /\ \/ cmd = "ACMD41" /\ card = "MMC"
                        \/ cmd = "CMD8" /\ card \notin Version2
                     /\ r = R1 + 4 /\ awake' = awake
                  \/ /\ cmd # "CMD0"
                     /\ ~(cmd = "ACMD41" /\ card = "MMC")
                     /\ ~(cmd = "CMD8" /\ card \notin Version2)
                     /\ r = R1 /\ awake' = awake
  <1>1. awake' \in BOOLEAN /\ <<r, awake'>> \in Answers(cmd)
    BY DEF SD_SendCmd
  <1>2. CASE cs = "high" \/ card = "none"
    <2>1. \A x : x \in Answers(cmd) => x = <<NoAnswer, awake>>
      <3>1. CASE cs = "high"
        BY <3>1 DEF Answers
      <3>2. CASE card = "none"
        BY <3>2 DEF Answers
      <3> QED BY <1>2, <3>1, <3>2
    <2>2. r = NoAnswer /\ awake' = awake
      BY <1>1, <2>1
    <2> QED BY <1>2, <2>2
  <1>3. CASE ~(cs = "high" \/ card = "none")
    <2>1. CASE cmd = "CMD0"
      BY <1>1, <1>3, <2>1 DEF Answers
    <2>2. CASE cmd = "ACMD41"
      BY <1>1, <1>3, <2>2 DEF Answers
    <2>3. CASE cmd = "CMD1"
      BY <1>1, <1>3, <2>3 DEF Answers
    <2>4. CASE cmd = "CMD8"
      BY <1>1, <1>3, <2>4 DEF Answers, Version2
    <2>5. CASE cmd \notin {"CMD0", "ACMD41", "CMD1", "CMD8"}
      BY <1>1, <1>3, <2>5 DEF Answers
    <2> QED BY <2>1, <2>2, <2>3, <2>4, <2>5
  <1> QED BY <1>2, <1>3


(* What the invariant needs of it, command by command. *)

LEMMA Answered ==
  ASSUME NEW cmd, NEW r, SD_SendCmd(cmd, r), Types, cs = "low"
  PROVE  /\ awake' \in BOOLEAN
         /\ cmd = "CMD0" /\ r = 1 => card # "none" /\ ~awake'
         /\ cmd \notin {"CMD0", "ACMD41", "CMD1"} => (awake' <=> awake)
         /\ cmd # "CMD0" /\ awake => awake'
         /\ cmd = "CMD8" /\ r = 1 => card \in Version2
         /\ cmd = "CMD8" /\ r # 1 /\ card # "none" /\ ~awake
            => card \in Version1
         /\ cmd = "ACMD41" /\ r = 0 /\ card \in Version2 \cup {"SD1"} => awake'
         /\ cmd = "CMD1" /\ r = 0 /\ card = "MMC" => awake'
         /\ cmd = "ACMD41" /\ card = "SD1" => r <= 1
         /\ cmd = "ACMD41" /\ card = "MMC" => ~(r <= 1)
  <1> awake \in BOOLEAN /\ card \in Kinds
    BY DEF Types
  <1>1. R1 = (IF awake THEN 0 ELSE 1) /\ R1 + 4 = (IF awake THEN 4 ELSE 5)
    BY DEF R1
  <1>2. CASE (cs = "high" \/ card = "none") /\ r = NoAnswer /\ awake' = awake
    BY <1>2 DEF NoAnswer
  <1>3. CASE /\ cs # "high" /\ card # "none"
             /\ \/ cmd = "CMD0" /\ r = 1 /\ awake' = FALSE
                \/ cmd = "ACMD41" /\ card # "MMC" /\ r = 0 /\ awake' = TRUE
                \/ cmd = "CMD1" /\ card = "MMC" /\ r = 0 /\ awake' = TRUE
    <2>1. CASE cmd = "CMD0"
      BY <1>3, <2>1
    <2>2. CASE cmd = "ACMD41"
      BY <1>3, <2>2
    <2>3. CASE cmd = "CMD1"
      BY <1>3, <2>3
    <2> QED BY <1>3, <2>1, <2>2, <2>3
  <1>4. CASE /\ cs # "high" /\ card # "none"
             /\ \/ cmd = "ACMD41" /\ card = "MMC"
                \/ cmd = "CMD8" /\ card \notin Version2
             /\ r = R1 + 4 /\ awake' = awake
    <2>1. r \in {4, 5} /\ (awake' <=> awake)
      BY <1>1, <1>4
    <2>2. card \notin Version2 => card \in Version1 \cup {"none"}
      BY DEF Version1, Version2, Kinds
    <2>3. cmd # "CMD8" => cmd = "ACMD41" /\ card = "MMC" /\ card \notin Version2
      BY <1>4 DEF Version2
    <2> QED BY <1>4, <2>1, <2>2, <2>3
  <1>5. CASE /\ cs # "high" /\ card # "none"
             /\ cmd # "CMD0"
             /\ ~(cmd = "ACMD41" /\ card = "MMC")
             /\ ~(cmd = "CMD8" /\ card \notin Version2)
             /\ r = R1 /\ awake' = awake
    BY <1>1, <1>5 DEF Version1, Version2
  <1> QED BY AnswerCases, <1>2, <1>3, <1>4, <1>5

-----------------------------------------------------------------------------
(* The initial states *)

LEMMA SetUp == Init => IInv
  <1> SUFFICES ASSUME Init PROVE IInv
    OBVIOUS
  <1>1. Types
    BY TimeoutAssumption DEF Init, Types, Kinds
  <1>2. SelectInv /\ MarkInv /\ TimeoutMeansBusy
    BY DEF Init, SelectInv, MarkInv, TimeoutMeansBusy, Selecting, Before, After,
           STA_NOINIT, RES_OK, RES_NOTRDY, RES_ERROR
  <1>3. KnownInv
    BY DEF Init, KnownInv, STA_NOINIT
  <1> QED BY <1>1, <1>2, <1>3 DEF IInv

-----------------------------------------------------------------------------
(* The steps *)

\* The variables the invariant does not read stay out of the way.
USE DEF locals, timers, socket, Quiet

LEMMA SwapStep == IInv /\ Swap => IInv'
  <1> SUFFICES ASSUME IInv, Swap PROVE IInv'
    OBVIOUS
  <1>1. Types'
    BY DEF IInv, Types, Swap
  <1>2. SelectInv' /\ MarkInv' /\ TimeoutMeansBusy'
    BY DEF IInv, SelectInv, MarkInv, TimeoutMeansBusy, Swap
  <1>3. KnownInv'
    BY DEF KnownInv, Swap
  <1> QED BY <1>1, <1>2, <1>3 DEF IInv

LEMMA TimerStep == IInv /\ TIM6_IRQHandler => IInv'
  <1> SUFFICES ASSUME IInv, TIM6_IRQHandler PROVE IInv'
    OBVIOUS
  <1>1. Types' /\ (Time_SD_Init' > 0 => Time_SD_Init > 0)
    BY DEF IInv, Types, TIM6_IRQHandler, Down
  <1>2. SelectInv' /\ MarkInv' /\ TimeoutMeansBusy'
    BY DEF IInv, SelectInv, MarkInv, TimeoutMeansBusy, TIM6_IRQHandler
  <1>3. KnownInv'
    BY <1>1 DEF IInv, KnownInv, Matches, TIM6_IRQHandler
  <1> QED BY <1>1, <1>2, <1>3 DEF IInv

LEMMA PollStep == IInv /\ (Sample \/ StillBusy \/ TimedOut \/ Selected) => IInv'
  <1> SUFFICES ASSUME IInv, Sample \/ StillBusy \/ TimedOut \/ Selected
               PROVE  IInv'
    OBVIOUS
  <1>1. Types'
    BY DEF IInv, Types, SelectInv, Sample, StillBusy, TimedOut, Selected, Return,
           Selecting, Before, After
  <1>2. SelectInv'
    BY DEF IInv, Types, SelectInv, Sample, StillBusy, TimedOut, Selected, Return,
           Selecting, Before, After
  <1>3. MarkInv'
    BY DEF IInv, Types, SelectInv, MarkInv, Sample, StillBusy, TimedOut, Selected,
           Return, Selecting, Before, After
  <1>4. TimeoutMeansBusy'
    BY DEF IInv, TimeoutMeansBusy, Sample, StillBusy, TimedOut, Selected, Return,
           RES_OK, RES_ERROR
  <1>5. KnownInv'
    BY DEF IInv, KnownInv, Matches, Sample, StillBusy, TimedOut, Selected, Return
  <1> QED BY <1>1, <1>2, <1>3, <1>4, <1>5 DEF IInv

LEMMA BeginStep == IInv /\ SD_initialize => IInv'
  <1> SUFFICES ASSUME IInv, SD_initialize PROVE IInv'
    OBVIOUS
  <1>1. Types'
    BY TimeoutAssumption
    DEF IInv, Types, SD_initialize, SD_ChipSelect, Selecting, Kinds
  <1>2. SelectInv' /\ MarkInv'
    BY DEF SelectInv, MarkInv, SD_initialize, SD_ChipSelect, Selecting, Before, After
  <1>3. TimeoutMeansBusy' /\ KnownInv'
    BY DEF TimeoutMeansBusy, KnownInv, SD_initialize, SD_ChipSelect, STA_NOINIT
  <1> QED BY <1>1, <1>2, <1>3 DEF IInv

(* What a command of the initialisation leaves alone is enough for all but *)
(* the types of what it sets and what it learns of the card.               *)
LEMMA CommandStep ==
  ASSUME IInv, Quiet, pc \in Before \cup After, pc' \in Before \cup After,
         pc' \in Before => sd_type' = "none",
         sd_type' \in Kinds, Time_SD_Init' \in Nat, awake' \in BOOLEAN,
         KnownInv'
  PROVE  IInv'
  <1>1. Types'
    BY DEF IInv, Types
  <1>2. SelectInv'
    BY DEF IInv, SelectInv, Selecting, Before, After
  <1>3. MarkInv'
    BY DEF IInv, SelectInv, MarkInv, Selecting, Before, After
  <1>4. TimeoutMeansBusy'
    BY DEF TimeoutMeansBusy, Before, After
  <1> QED BY <1>1, <1>2, <1>3, <1>4 DEF IInv

LEMMA CommandFacts ==
  ASSUME IInv, pc \in Before \cup After
  PROVE  /\ Types /\ KnownInv /\ cs = "low" /\ Stat = STA_NOINIT
         /\ pc \in Before => sd_type = "none"
  BY DEF IInv, SelectInv, MarkInv, Before, After

LEMMA GoIdleStep == IInv /\ GoIdle => IInv'
  <1> SUFFICES ASSUME IInv, GoIdle PROVE IInv'
    OBVIOUS
  <1>1. PICK r \in R1s : /\ SD_SendCmd("CMD0", r)
                         /\ IF r = 1 THEN pc' = "CMD8" /\ Time_SD_Init' = InitMs
                                     ELSE pc' = "finish" /\ UNCHANGED Time_SD_Init
    BY DEF GoIdle
  <1>2. pc \in Before /\ pc' \in Before \cup After
    BY <1>1 DEF GoIdle, Before, After
  <1>3. Types /\ cs = "low" /\ Stat = STA_NOINIT /\ sd_type = "none"
    BY <1>2, CommandFacts
  <1>4. awake' \in BOOLEAN /\ (r = 1 => card # "none" /\ ~awake')
    BY <1>1, <1>3, Answered
  <1>5. KnownInv'
    BY <1>1, <1>3, <1>4 DEF KnownInv, GoIdle, STA_NOINIT
  <1>6. sd_type' = "none" /\ sd_type' \in Kinds /\ Time_SD_Init' \in Nat
    BY <1>1, <1>3, TimeoutAssumption DEF GoIdle, Types, Kinds
  <1> QED BY <1>2, <1>4, <1>5, <1>6, CommandStep DEF GoIdle

LEMMA SendIfCondStep == IInv /\ SendIfCond => IInv'
  <1> SUFFICES ASSUME IInv, SendIfCond PROVE IInv'
    OBVIOUS
  <1>1. PICK r \in R1s : /\ SD_SendCmd("CMD8", r)
                         /\ pc' = IF r = 1 THEN "voltage" ELSE "version1"
    BY DEF SendIfCond
  <1>2. pc \in Before /\ pc' \in Before \cup After
    BY <1>1 DEF SendIfCond, Before, After
  <1>3. Types /\ KnownInv /\ cs = "low" /\ Stat = STA_NOINIT /\ sd_type = "none"
    BY <1>2, CommandFacts
  <1>4. /\ awake' \in BOOLEAN
        /\ r = 1 => card \in Version2
        /\ r # 1 /\ card # "none" /\ ~awake => card \in Version1
    BY <1>1, <1>3, Answered
  <1>5. KnownInv'
    BY <1>1, <1>3, <1>4 DEF KnownInv, SendIfCond, STA_NOINIT
  <1>6. sd_type' = "none" /\ sd_type' \in Kinds /\ Time_SD_Init' \in Nat
    BY <1>3 DEF SendIfCond, Types, Kinds
  <1> QED BY <1>2, <1>4, <1>5, <1>6, CommandStep DEF SendIfCond

LEMMA CheckVoltageStep == IInv /\ CheckVoltage => IInv'
  <1> SUFFICES ASSUME IInv, CheckVoltage PROVE IInv'
    OBVIOUS
  <1>1. pc \in Before /\ pc' \in {"loop2", "finish"} /\ pc' \in Before \cup After
    BY DEF CheckVoltage, Before, After
  <1>2. Types /\ KnownInv /\ cs = "low" /\ Stat = STA_NOINIT /\ sd_type = "none"
    BY <1>1, CommandFacts
  <1>3. KnownInv'
    BY <1>1, <1>2 DEF KnownInv, CheckVoltage, STA_NOINIT
  <1>4. /\ sd_type' = "none" /\ sd_type' \in Kinds /\ Time_SD_Init' \in Nat
        /\ awake' \in BOOLEAN
    BY <1>2 DEF CheckVoltage, Types
  <1> QED BY <1>1, <1>3, <1>4, CommandStep DEF CheckVoltage

LEMMA WaitVersion2Step == IInv /\ WaitVersion2 => IInv'
  <1> SUFFICES ASSUME IInv, WaitVersion2 PROVE IInv'
    OBVIOUS
  <1>1. PICK r \in R1s : /\ SD_SendCmd("ACMD41", r)
                         /\ pc' = IF r = 0 THEN "end2" ELSE "loop2"
    BY DEF WaitVersion2
  <1>2. pc \in Before /\ pc' \in Before \cup After
    BY <1>1 DEF WaitVersion2, Before, After
  <1>3. Types /\ KnownInv /\ cs = "low" /\ Stat = STA_NOINIT /\ sd_type = "none"
    BY <1>2, CommandFacts
  <1>4. awake' \in BOOLEAN /\ (r = 0 /\ card \in Version2 => awake')
    BY <1>1, <1>3, Answered
  <1>5. KnownInv'
    BY <1>1, <1>3, <1>4 DEF KnownInv, WaitVersion2, STA_NOINIT
  <1>6. sd_type' = "none" /\ sd_type' \in Kinds /\ Time_SD_Init' \in Nat
    BY <1>3 DEF WaitVersion2, Types
  <1> QED BY <1>2, <1>4, <1>5, <1>6, CommandStep DEF WaitVersion2

LEMMA InitTimedOutStep == IInv /\ InitTimedOut => IInv'
  <1> SUFFICES ASSUME IInv, InitTimedOut PROVE IInv'
    OBVIOUS
  <1>1. /\ pc \in Before \cup After /\ pc' \in {"end1", "end2"}
        /\ pc' \in Before \cup After /\ (pc' \in Before => pc \in Before)
        /\ Time_SD_Init' = 0
    BY DEF InitTimedOut, Before, After
  <1>2. /\ Types /\ KnownInv /\ Stat = STA_NOINIT
        /\ pc \in Before => sd_type = "none"
    BY <1>1, CommandFacts
  <1>3. KnownInv'
    BY <1>1, <1>2 DEF KnownInv, InitTimedOut, STA_NOINIT
  <1>4. /\ sd_type' = sd_type /\ sd_type' \in Kinds /\ awake' \in BOOLEAN
        /\ Time_SD_Init' \in Nat
    BY <1>2 DEF InitTimedOut, Types
  <1> QED BY <1>1, <1>2, <1>3, <1>4, CommandStep DEF InitTimedOut

LEMMA GiveUpStep == IInv /\ GiveUp => IInv'
  <1> SUFFICES ASSUME IInv, GiveUp PROVE IInv'
    OBVIOUS
  <1>1. pc \in Before \cup After /\ pc' = "finish" /\ pc' \in Before \cup After
    BY DEF GiveUp, Before, After
  <1>2. Types /\ KnownInv /\ Stat = STA_NOINIT
    BY <1>1, CommandFacts
  <1>3. KnownInv'
    BY <1>1, <1>2 DEF KnownInv, GiveUp, STA_NOINIT
  <1>4. /\ sd_type' = "none" /\ sd_type' \in Kinds /\ awake' \in BOOLEAN
        /\ Time_SD_Init' \in Nat
    BY <1>2 DEF GiveUp, Types, Kinds
  <1> QED BY <1>1, <1>3, <1>4, CommandStep DEF GiveUp

LEMMA ReadOCRStep == IInv /\ ReadOCR => IInv'
  <1> SUFFICES ASSUME IInv, ReadOCR PROVE IInv'
    OBVIOUS
  <1>1. pc \in Before /\ pc' = "finish" /\ pc' \in Before \cup After
    BY DEF ReadOCR, Before, After
  <1>2. Types /\ KnownInv /\ cs = "low" /\ Stat = STA_NOINIT /\ sd_type = "none"
    BY <1>1, CommandFacts
  <1>3. PICK r \in R1s :
          /\ SD_SendCmd("CMD58", r)
          /\ sd_type' = IF r # 0 THEN sd_type
                        ELSE IF (ocr'[1] \div 64) % 2 = 1 THEN "SDHC" ELSE "SD2"
    BY DEF ReadOCR
  <1>4. awake' \in BOOLEAN /\ (awake' <=> awake)
    BY <1>2, <1>3, Answered
  <1>5. sd_type' \in Version2 \cup {"none"}
    BY <1>2, <1>3 DEF Version2
  <1>6. KnownInv'
    BY <1>1, <1>2, <1>4, <1>5 DEF KnownInv, Matches, Version2, ReadOCR, STA_NOINIT
  <1>7. sd_type' \in Kinds /\ Time_SD_Init' \in Nat
    BY <1>2, <1>5 DEF ReadOCR, Types, Version2, Kinds
  <1> QED BY <1>1, <1>4, <1>6, <1>7, CommandStep DEF ReadOCR, Before

LEMMA TellVersion1Step == IInv /\ TellVersion1 => IInv'
  <1> SUFFICES ASSUME IInv, TellVersion1 PROVE IInv'
    OBVIOUS
  <1>1. pc \in Before /\ pc' = "loop1" /\ pc' \in After
    BY DEF TellVersion1, Before, After
  <1>2. Types /\ KnownInv /\ cs = "low" /\ Stat = STA_NOINIT
    BY <1>1, CommandFacts
  <1>3. PICK r \in R1s : /\ SD_SendCmd("ACMD41", r)
                         /\ sd_type' = IF r <= 1 THEN "SD1" ELSE "MMC"
    BY DEF TellVersion1
  <1>4. /\ awake' \in BOOLEAN
        /\ card = "SD1" => r <= 1
        /\ card = "MMC" => ~(r <= 1)
    BY <1>2, <1>3, Answered
  <1>5. KnownInv'
    BY <1>1, <1>2, <1>3, <1>4 DEF KnownInv, Version1, TellVersion1, STA_NOINIT
  <1>6. sd_type' \in Kinds /\ Time_SD_Init' \in Nat
    BY <1>2, <1>3 DEF TellVersion1, Types, Kinds
  <1> QED BY <1>1, <1>4, <1>5, <1>6, CommandStep DEF TellVersion1, Before

LEMMA WaitVersion1Step == IInv /\ WaitVersion1 => IInv'
  <1> SUFFICES ASSUME IInv, WaitVersion1 PROVE IInv'
    OBVIOUS
  <1>1. pc \in After /\ pc' \in {"end1", "loop1"} /\ pc' \in After
    BY DEF WaitVersion1, After
  <1>2. Types /\ KnownInv /\ cs = "low" /\ Stat = STA_NOINIT
    BY <1>1, CommandFacts
  <1>3. PICK r \in R1s :
          /\ SD_SendCmd(IF sd_type = "SD1" THEN "ACMD41" ELSE "CMD1", r)
          /\ pc' = IF r = 0 THEN "end1" ELSE "loop1"
    BY DEF WaitVersion1
  <1>4. /\ awake' \in BOOLEAN
        /\ r = 0 /\ sd_type = card /\ card \in Version1 => awake'
    <2>1. CASE sd_type = "SD1"
      <3>1. SD_SendCmd("ACMD41", r)
        BY <1>3, <2>1
      <3> QED BY <1>2, <2>1, <3>1, Answered
    <2>2. CASE sd_type # "SD1"
      <3>1. SD_SendCmd("CMD1", r)
        BY <1>3, <2>2
      <3>2. awake' \in BOOLEAN /\ (r = 0 /\ card = "MMC" => awake')
        BY <1>2, <3>1, Answered
      <3> QED BY <2>2, <3>2 DEF Version1
    <2> QED BY <2>1, <2>2
  <1>5. KnownInv'
    BY <1>1, <1>2, <1>3, <1>4 DEF KnownInv, WaitVersion1, STA_NOINIT
  <1>6. sd_type' \in Kinds /\ Time_SD_Init' \in Nat
    BY <1>2 DEF WaitVersion1, Types
  <1>7. pc' \notin Before
    BY <1>1 DEF Before
  <1> QED BY <1>1, <1>4, <1>5, <1>6, <1>7, CommandStep DEF WaitVersion1

LEMMA SetBlockLengthStep == IInv /\ SetBlockLength => IInv'
  <1> SUFFICES ASSUME IInv, SetBlockLength PROVE IInv'
    OBVIOUS
  <1>1. pc \in After /\ pc' = "finish" /\ pc' \in After
    BY DEF SetBlockLength, After
  <1>2. Types /\ KnownInv /\ cs = "low" /\ Stat = STA_NOINIT
    BY <1>1, CommandFacts
  <1>3. PICK r \in R1s : /\ SD_SendCmd("CMD16", r)
                         /\ sd_type' = IF r = 0 THEN sd_type ELSE "none"
    BY DEF SetBlockLength
  <1>4. awake' \in BOOLEAN /\ (awake' <=> awake)
    BY <1>2, <1>3, Answered
  <1>5. KnownInv'
    BY <1>1, <1>2, <1>3, <1>4 DEF KnownInv, Matches, SetBlockLength, STA_NOINIT
  <1>6. sd_type' \in Kinds /\ Time_SD_Init' \in Nat
    BY <1>2, <1>3 DEF SetBlockLength, Types, Kinds
  <1> QED BY <1>1, <1>4, <1>5, <1>6, CommandStep DEF SetBlockLength, Before

LEMMA FinishStep == IInv /\ Finish => IInv'
  <1> SUFFICES ASSUME IInv, Finish PROVE IInv'
    OBVIOUS
  <1>1. Types /\ KnownInv /\ Stat' \in {0, STA_NOINIT}
    BY DEF IInv, Finish
  <1>2. Types'
    BY <1>1 DEF Types, Finish, Return
  <1>3. SelectInv' /\ MarkInv'
    BY DEF SelectInv, MarkInv, Finish, Return, Selecting, Before, After
  <1>4. TimeoutMeansBusy'
    BY <1>1 DEF TimeoutMeansBusy, Finish, Return, RES_NOTRDY, STA_NOINIT
  <1>5. KnownInv'
    BY <1>1 DEF KnownInv, Matches, Finish, Return, STA_NOINIT
  <1> QED BY <1>2, <1>3, <1>4, <1>5 DEF IInv

(* A function that returns at once: the card, if it was sent a command, is *)
(* not selected and keeps its state.                                       *)
LEMMA ReturnStep ==
  ASSUME IInv, pc = "idle", pc' = "idle", cs' = "high",
         \/ call' \in {"status", "read", "write", "ioctl", "other", "data"}
         \/ ret' \notin {RES_NOTRDY, RES_ERROR},
         awake' \in BOOLEAN, awake' <=> awake,
         UNCHANGED <<Stat, CardType, sd_type, caller, timers, card, swapped>>
  PROVE  IInv'
  <1>1. Types'
    BY DEF IInv, Types
  <1>2. SelectInv' /\ MarkInv'
    BY DEF SelectInv, MarkInv, Selecting, Before, After
  <1>3. TimeoutMeansBusy'
    BY DEF TimeoutMeansBusy
  <1>4. KnownInv'
    BY DEF IInv, KnownInv, Matches
  <1> QED BY <1>1, <1>2, <1>3, <1>4 DEF IInv

LEMMA RefuseStep ==
  ASSUME IInv, NEW f \in {"status", "read", "write", "ioctl", "other"}, NEW r,
         Refuse(f, r)
  PROVE  IInv'
  <1>1. cs = "high" /\ awake \in BOOLEAN
    BY DEF IInv, SelectInv, Types, Refuse
  <1> QED BY <1>1, ReturnStep DEF Refuse

LEMMA TransferStep ==
  ASSUME IInv, NEW f \in {"read", "write", "ioctl"}, NEW cmd, Transfer(f, cmd)
  PROVE  IInv'
  <1>1. CASE Stat = STA_NOINIT
    BY <1>1, RefuseStep DEF Transfer
  <1>2. CASE Stat # STA_NOINIT
    <2>1. PICK r \in R1s : /\ SD_SendCmd(cmd, r)
                           /\ \E g \in {f, "data"} : \E result : Return(g, result)
      BY <1>2 DEF Transfer
    <2>2. pc = "idle" /\ cs = "high" /\ awake \in BOOLEAN
      BY <1>2 DEF Transfer, IInv, SelectInv, Types
    <2>3. awake' \in BOOLEAN /\ (awake' <=> awake)
      BY <2>1, <2>2, AnswerCases
    <2>4. pc' = "idle" /\ call' \in {f, "data"} /\ cs' = "high"
      BY <2>1 DEF Return
    <2>5. UNCHANGED <<Stat, CardType, sd_type, caller, timers, card, swapped>>
      BY <1>2 DEF Transfer
    <2> QED BY <2>2, <2>3, <2>4, <2>5, ReturnStep
  <1> QED BY <1>1, <1>2

LEMMA SyncStep ==
  ASSUME IInv, pc = "idle", SD_ChipSelect("sync"),
         UNCHANGED <<call, ret, Stat, CardType, sd_type, ocr, data, Time_SD_Init,
                     socket>>
  PROVE  IInv'
  <1>1. Types'
    BY TimeoutAssumption DEF IInv, Types, SD_ChipSelect, Selecting
  <1>2. SelectInv' /\ MarkInv'
    BY DEF SelectInv, MarkInv, SD_ChipSelect, Selecting, Before, After
  <1>3. TimeoutMeansBusy' /\ KnownInv'
    BY DEF IInv, TimeoutMeansBusy, KnownInv, Matches, SD_ChipSelect
  <1> QED BY <1>1, <1>2, <1>3 DEF IInv

LEMMA IoctlStep ==
  ASSUME IInv, NEW cmd \in Commands, SD_ioctl(cmd)
  PROVE  IInv'
  <1>1. CASE cmd = "CTRL_SYNC" /\ Stat = 0
    <2>1. /\ pc = "idle" /\ SD_ChipSelect("sync")
          /\ UNCHANGED <<call, ret, Stat, CardType, sd_type, ocr, data,
                         Time_SD_Init, socket>>
      BY <1>1 DEF SD_ioctl
    <2> QED BY <2>1, SyncStep
  <1>2. CASE cmd = "GET_SECTOR_COUNT"
    <2>1. Transfer("ioctl", "CMD9")
      BY <1>2 DEF SD_ioctl
    <2> QED BY <2>1, TransferStep
  <1>3. CASE cmd = "GET_BLOCK_SIZE"
    <2>1. Transfer("ioctl",
                   IF CardType \in {"SD2", "SDHC"} THEN "ACMD13" ELSE "CMD9")
      BY <1>3 DEF SD_ioctl
    <2> QED BY <2>1, TransferStep
  <1>4. CASE /\ ~(cmd = "CTRL_SYNC" /\ Stat = 0)
             /\ cmd \notin {"GET_SECTOR_COUNT", "GET_BLOCK_SIZE"}
    <2>1. Refuse("ioctl", IF Stat = STA_NOINIT THEN RES_NOTRDY
                          ELSE IF cmd = "CTRL_TRIM" THEN RES_ERROR
                          ELSE RES_PARERR)
      BY <1>4 DEF SD_ioctl
    <2> QED BY <2>1, RefuseStep
  <1> QED BY <1>1, <1>2, <1>3, <1>4

LEMMA CallStep ==
  ASSUME IInv, NEW drive \in Drives,
         \/ disk_status(drive) \/ disk_initialize(drive)
         \/ \E count \in 0..2 : disk_read(drive, count) \/ disk_write(drive, count)
         \/ \E cmd \in Commands : disk_ioctl(drive, cmd)
  PROVE  IInv'
  <1>1. CASE disk_status(drive)
    BY <1>1, RefuseStep DEF disk_status, SD_status, NoSuchStatus
  <1>2. CASE disk_initialize(drive)
    BY <1>2, BeginStep, RefuseStep DEF disk_initialize, NoSuchStatus
  <1>3. ASSUME NEW count \in 0..2, disk_read(drive, count)
        PROVE  IInv'
    BY <1>3, TransferStep, RefuseStep DEF disk_read, SD_read, NoSuchDrive
  <1>4. ASSUME NEW count \in 0..2, disk_write(drive, count)
        PROVE  IInv'
    BY <1>4, TransferStep, RefuseStep DEF disk_write, SD_write, NoSuchDrive
  <1>5. ASSUME NEW cmd \in Commands, disk_ioctl(drive, cmd)
        PROVE  IInv'
    BY <1>5, IoctlStep, RefuseStep DEF disk_ioctl, NoSuchDrive
  <1> QED BY <1>1, <1>2, <1>3, <1>4, <1>5

LEMMA StutterStep == IInv /\ UNCHANGED vars => IInv'
  <1> SUFFICES ASSUME IInv, UNCHANGED vars PROVE IInv'
    OBVIOUS
  <1>1. Types' /\ SelectInv' /\ MarkInv'
    BY DEF IInv, Types, SelectInv, MarkInv, vars
  <1>2. KnownInv' /\ TimeoutMeansBusy'
    BY DEF IInv, KnownInv, Matches, TimeoutMeansBusy, vars
  <1> QED BY <1>1, <1>2 DEF IInv

LEMMA EveryStep == IInv /\ [Next]_vars => IInv'
  <1> SUFFICES ASSUME IInv, [Next]_vars PROVE IInv'
    OBVIOUS
  <1>1. CASE Driver
    BY <1>1, PollStep, GoIdleStep, SendIfCondStep, CheckVoltageStep,
       WaitVersion2Step, InitTimedOutStep, GiveUpStep, ReadOCRStep,
       TellVersion1Step, WaitVersion1Step, SetBlockLengthStep, FinishStep
    DEF Driver
  <1>2. CASE TIM6_IRQHandler
    BY <1>2, TimerStep
  <1>3. CASE Swap
    BY <1>3, SwapStep
  <1>4. CASE UNCHANGED vars
    BY <1>4, StutterStep
  <1> QED BY <1>1, <1>2, <1>3, <1>4, CallStep DEF Next

-----------------------------------------------------------------------------
(* The theorems *)

\* The chip select, the place in the initialisation, the marks of the drive
\* and what the answers told about the card always fit together.
THEOREM Invariant == Spec => []IInv
  BY SetUp, EveryStep, PTL DEF Spec

\* Whichever way SD_initialize, SD_read, SD_write and SD_ioctl return, on an
\* error, a time-out or an answer, the card is off the bus.
THEOREM CardIsDeselectedBetween == Spec => []DeselectedBetween
  <1>1. IInv => DeselectedBetween
    BY DEF IInv, SelectInv, DeselectedBetween
  <1> QED BY <1>1, Invariant, PTL

\* A drive disk_status calls ready has a card that answered, in time, that it
\* left its idle state, and that is of the family SD_initialize found.
THEOREM ReadyCardIsReady == Spec => []ReadyIsReady
  <1>1. IInv => ReadyIsReady
    BY DEF IInv, KnownInv, Matches, Version2, ReadyIsReady
  <1> QED BY <1>1, Invariant, PTL

\* wait_ready gives up only on a byte that says busy, however the interrupt
\* that counts its timer falls between the read and the two tests.
THEOREM TimeoutIsOfABusyCard == Spec => []TimeoutMeansBusy
  <1>1. IInv => TimeoutMeansBusy
    BY DEF IInv
  <1> QED BY <1>1, Invariant, PTL
==============================================================================
