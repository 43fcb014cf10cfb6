------------------------------ MODULE SpiProof -------------------------------
(***************************************************************************)
(* Proofs about SPI1 and the serial flash on it.                           *)
(*                                                                         *)
(* SpiDma: what a return of SPIx_TransferDMA means, for transfers of any   *)
(* length a channel can count.  The bytes of a transfer are in a row:      *)
(* those in memory, then the one in the data register that came in, the    *)
(* one being shifted, and the one that waits to go out.  As long as no     *)
(* byte is lost they are 1, 2, and so on up to the last one the transmit   *)
(* channel fetched (InARow).                                               *)
(* After a loss at most one byte ever gets to memory and two were asked    *)
(* for, so the receive channel never comes to its end (Lost).              *)
(*                                                                         *)
(* SerialFlash: what a return of a call means, for any pages and sectors   *)
(* and a processor that may be reset anywhere.  A call that found the chip *)
(* idle has it to itself (QuietInv); whatever a call found, what WaitAfter *)
(* waits for leaves the latch reset (LatchInv).                            *)
(***************************************************************************)
EXTENDS SpiDma, SerialFlash, TLAPS

Places == {"idle", "disable", "setTx", "setRx", "request", "poll", "reset", "settle"}

Typed ==
  /\ pc \in Places
  /\ status \in {"none", "ARM_DRIVER_OK", "ARM_DRIVER_ERROR_PARAMETER"}
  /\ translen \in Nat
  /\ spi_trans_over \in {0, 1} /\ cr2 \in {0, 1} /\ ovr \in {0, 1}
  /\ tx \in [on : {0, 1}, left : Nat]
  /\ rx \in [on : {0, 1}, left : Nat, irq : {0, 1}, tc : {0, 1}]
  /\ txdr \in Nat /\ shift \in Nat /\ rxdr \in Nat
  /\ memory \in Seq(Nat)

\* How many bytes a register holds.
Holds(register) == IF register = 0 THEN 0 ELSE 1

InARow ==
  /\ rxdr # 0  => rxdr = Len(memory) + 1
  /\ shift # 0 => shift = Len(memory) + Holds(rxdr) + 1
  /\ txdr # 0  => txdr = Len(memory) + Holds(rxdr) + Holds(shift) + 1
  /\ Len(memory) + Holds(rxdr) + Holds(shift) + Holds(txdr) = translen - tx.left

Lost ==
  /\ cr2 = 1 /\ translen >= 2
  /\ Len(memory) + Holds(rxdr) <= 1
  /\ rxdr # 0 => rxdr = Len(memory) + 1

\* Nothing on its way and nothing left to move.
Still ==
  /\ txdr = 0 /\ shift = 0 /\ rxdr = 0 /\ ovr = 0
  /\ tx.left = 0 /\ rx.left = 0 /\ rx.tc = 0

InOrder == \A i \in 1..Len(memory) : memory[i] = Sent(i)

Moving ==
  pc \in {"setRx", "request", "poll"} =>
    /\ IF ovr = 0 THEN InARow ELSE Lost
    /\ tx.left <= translen
    /\ cr2 = 0 => pc # "poll" /\ tx.left = translen

Receiving ==
  pc \in {"request", "poll"} =>
    /\ rx.on = 1 /\ rx.left + Len(memory) = translen
    /\ rx.tc = 1 => rx.left = 0 /\ spi_trans_over = 0
    /\ spi_trans_over = 1 => rx.left = 0

Resting ==
  /\ pc \in {"idle", "disable", "setTx", "reset", "settle"} => Still
  /\ pc \in {"idle", "disable", "setTx", "setRx", "settle"} => spi_trans_over = 0
  /\ pc \in {"disable", "setTx", "setRx"} => Len(memory) = 0
  /\ pc = "setRx" => rx.left = 0 /\ rx.tc = 0
  /\ pc \in {"reset", "settle"} => Len(memory) = translen
  /\ status = "ARM_DRIVER_OK" => pc = "idle" /\ Len(memory) = translen

IInv == Typed /\ InOrder /\ Moving /\ Receiving /\ Resting

-----------------------------------------------------------------------------
(* The steps of the caller *)

LEMMA InitInv == Init => IInv
BY DEF Init, IInv, Typed, Places, InOrder, Moving, Receiving, Resting, Still

LEMMA CallerInv ==
  ASSUME IInv,
         \/ RejectParameters \/ PollAgain
         \/ \E n \in 1..MaxLen : Call(n)
         \/ CallerStep
  PROVE  IInv'
<1> MaxLen \in Nat
  BY MaxLenAssumption DEF MaxLenAssumption
<1>1. CASE RejectParameters \/ PollAgain
  BY <1>1 DEF RejectParameters, PollAgain, vars, spiVars, IInv, Typed, Places, InOrder,
              Moving, Receiving, Resting, Still, InARow, Lost
<1>2. ASSUME NEW n \in 1..MaxLen, Call(n) PROVE IInv'
  <2>1. Typed'
    BY <1>2 DEF Call, Goto, spiVars, IInv, Typed, Places
  <2>2. QED
    BY <1>2, <2>1 DEF Call, Goto, spiVars, IInv, InOrder, Moving, Receiving, Resting, Still
<1>3. CASE DisableChannels
  <2>1. /\ tx'.left = tx.left /\ rx'.left = rx.left /\ rx'.tc = rx.tc
        /\ Typed'
    BY <1>3 DEF DisableChannels, Goto, spiVars, IInv, Typed, Places
  <2>2. QED
    BY <1>3, <2>1 DEF DisableChannels, Goto, spiVars, IInv, InOrder, Moving, Receiving,
                      Resting, Still
<1>4. CASE SetupTx
  <2>1. tx'.left = translen /\ Typed'
    BY <1>4 DEF SetupTx, Goto, spiVars, IInv, Typed, Places
  <2>2. InARow'
    BY <1>4, <2>1 DEF SetupTx, Goto, spiVars, IInv, Typed, Resting, Still, InARow, Holds
  <2>3. QED
    BY <1>4, <2>1, <2>2 DEF SetupTx, Goto, spiVars, IInv, Typed, InOrder, Moving,
                            Receiving, Resting, Still
<1>5. CASE SetupRx
  <2>1. rx'.left = translen /\ rx'.on = 1 /\ rx'.tc = rx.tc /\ Typed'
    BY <1>5 DEF SetupRx, Goto, spiVars, IInv, Typed, Places
  <2>2. QED
    BY <1>5, <2>1 DEF SetupRx, Goto, spiVars, IInv, Typed, InOrder, Moving, Receiving,
                      Resting, Still, InARow, Lost
<1>6. CASE RequestDma
  <2>1. Typed'
    BY <1>6 DEF RequestDma, Goto, IInv, Typed, Places
  <2>2. QED
    BY <1>6, <2>1 DEF RequestDma, Goto, IInv, Typed, InOrder, Moving, Receiving,
                      Resting, Still, InARow, Lost
<1>7. CASE PollOver
  <2>1. Typed' /\ InOrder'
    BY <1>7 DEF PollOver, Goto, spiVars, IInv, Typed, Places, InOrder
  <2>2. Len(memory) = translen /\ rx.left = 0 /\ rx.tc = 0
    BY <1>7 DEF PollOver, Goto, IInv, Receiving, Typed
  <2>3. ovr = 0
    BY <1>7, <2>2 DEF PollOver, Goto, IInv, Moving, Lost, Holds, Typed
  <2>4. txdr = 0 /\ shift = 0 /\ rxdr = 0 /\ tx.left = 0
    BY <1>7, <2>2, <2>3 DEF PollOver, Goto, IInv, Moving, InARow, Holds, Typed
  <2>5. QED
    BY <1>7, <2>1, <2>2, <2>3, <2>4
       DEF PollOver, Goto, spiVars, IInv, Typed, Moving, Receiving, Resting, Still
<1>8. CASE ResetOver \/ Return
  BY <1>8 DEF ResetOver, Return, Goto, spiVars, IInv, Typed, Places, InOrder, Moving,
              Receiving, Resting, Still
<1>9. QED
  BY <1>1, <1>2, <1>3, <1>4, <1>5, <1>6, <1>7, <1>8 DEF CallerStep

-----------------------------------------------------------------------------
(* The steps of the hardware *)

\* A byte is on its way or left to fetch only while a transfer is under way.
LEMMA UnderWay ==
  ASSUME IInv,
         txdr # 0 \/ shift # 0 \/ rxdr # 0 \/ tx.left > 0 \/ rx.left > 0 \/ rx.tc = 1
  PROVE  pc \in {"setRx", "request", "poll"}
BY DEF IInv, Typed, Places, Resting, Still

LEMMA TxMoveInv == ASSUME IInv, TxMove PROVE IInv'
<1>1. pc \in {"setRx", "request", "poll"}
  BY UnderWay DEF TxMove
<1>2. /\ tx'.left = tx.left - 1 /\ txdr' = translen - tx.left + 1 /\ txdr = 0
      /\ Typed'
  BY <1>1 DEF TxMove, Sent, IInv, Typed, Places, Moving
<1>3. IF ovr' = 0 THEN InARow' ELSE Lost'
  <2>1. CASE ovr = 0
    <3>1. InARow /\ UNCHANGED <<memory, rxdr, shift, translen>> /\ txdr' # 0
      BY <1>1, <1>2, <2>1 DEF TxMove, IInv, Typed, Moving
    <3>2. /\ Len(memory) \in Nat /\ translen \in Nat /\ tx.left \in Nat
          /\ Holds(rxdr) \in Nat /\ Holds(shift) \in Nat
          /\ Holds(txdr) = 0 /\ Holds(txdr') = 1
      BY <1>2, <3>1 DEF IInv, Typed, Holds
    <3>3. Len(memory) + Holds(rxdr) + Holds(shift) = translen - tx.left
      BY <3>1, <3>2 DEF InARow
    <3>4. Len(memory) + Holds(rxdr) + Holds(shift) + 1 = translen - (tx.left - 1)
      BY <3>2, <3>3
    <3>5. txdr' = Len(memory) + Holds(rxdr) + Holds(shift) + 1
      BY <1>2, <3>2, <3>3
    <3>6. InARow'
      BY <1>2, <3>1, <3>2, <3>4, <3>5 DEF InARow
    <3>7. QED
      BY <2>1, <3>6 DEF TxMove
  <2>2. CASE ovr # 0
    BY <1>1, <2>2 DEF TxMove, IInv, Moving, Lost
  <2>3. QED
    BY <2>1, <2>2 DEF TxMove
<1>4. Moving'
  BY <1>1, <1>2, <1>3 DEF TxMove, IInv, Typed, Moving
<1>5. InOrder' /\ Receiving' /\ Resting'
  BY <1>1 DEF TxMove, IInv, InOrder, Receiving, Resting
<1>6. QED
  BY <1>2, <1>4, <1>5 DEF IInv

LEMMA ShiftStartInv == ASSUME IInv, ShiftStart PROVE IInv'
<1>1. pc \in {"setRx", "request", "poll"}
  BY UnderWay DEF ShiftStart
<1>2. Typed'
  BY DEF ShiftStart, IInv, Typed, Places
<1>3. ovr = 0 => InARow'
  BY <1>1 DEF ShiftStart, IInv, Typed, Moving, InARow, Holds
<1>4. QED
  BY <1>1, <1>2, <1>3 DEF ShiftStart, IInv, Typed, InOrder, Moving, Receiving, Resting, Lost

\* A byte that comes in finds the one before still there only while the receive
\* channel is not set up.
LEMMA LossPlace ==
  ASSUME IInv, ShiftEnd, rxdr # 0, ovr = 0
  PROVE  pc = "setRx" /\ cr2 = 1 /\ translen >= 2
<1>1. pc \in {"setRx", "request", "poll"}
  BY UnderWay DEF ShiftEnd
<1>2. InARow /\ tx.left <= translen
  BY <1>1 DEF IInv, Moving
<1>3. Len(memory) + 2 <= translen - tx.left
  BY <1>2 DEF ShiftEnd, InARow, Holds, IInv, Typed
<1>4. cr2 = 1 /\ translen >= 2
  BY <1>1, <1>3 DEF IInv, Typed, Moving
<1>5. CASE pc \in {"request", "poll"}
  BY <1>3, <1>4, <1>5 DEF ShiftEnd, RxPending, IInv, Typed, Receiving
<1>6. QED
  BY <1>1, <1>4, <1>5

LEMMA ShiftEndInv == ASSUME IInv, ShiftEnd PROVE IInv'
<1>1. pc \in {"setRx", "request", "poll"}
  BY UnderWay DEF ShiftEnd
<1>2. Typed'
  BY DEF ShiftEnd, IInv, Typed, Places
<1>3. CASE rxdr = 0 /\ ovr = 0
  <2>1. ovr' = 0 /\ InARow'
    BY <1>1, <1>3 DEF ShiftEnd, IInv, Typed, Moving, InARow, Holds
  <2>2. QED
    BY <1>1, <1>2, <2>1 DEF ShiftEnd, IInv, Typed, InOrder, Moving, Receiving, Resting
<1>4. CASE rxdr # 0 /\ ovr = 0
  <2>1. pc = "setRx" /\ cr2 = 1 /\ translen >= 2
    BY <1>4, LossPlace
  <2>2. Len(memory) = 0 /\ rxdr = 1
    BY <1>4, <2>1 DEF IInv, Moving, Resting, InARow
  <2>3. ovr' = 1 /\ Lost'
    BY <1>4, <2>1, <2>2 DEF ShiftEnd, Lost, Holds
  <2>4. QED
    BY <1>1, <1>2, <2>3 DEF ShiftEnd, IInv, Typed, InOrder, Moving, Receiving, Resting
<1>5. CASE ovr = 1
  BY <1>1, <1>2, <1>5 DEF ShiftEnd, IInv, Typed, InOrder, Moving, Receiving, Resting, Lost
<1>6. QED
  BY <1>3, <1>4, <1>5 DEF IInv, Typed

LEMMA RxMoveInv == ASSUME IInv, RxMove PROVE IInv'
<1>1. pc \in {"request", "poll"}
  BY UnderWay DEF RxMove, RxPending, IInv, Resting
<1>2. /\ rxdr = Len(memory) + 1 /\ rxdr' = 0
      /\ memory' \in Seq(Nat) /\ Len(memory') = Len(memory) + 1
      /\ \A i \in 1..Len(memory) : memory'[i] = memory[i]
      /\ memory'[Len(memory) + 1] = rxdr
  BY <1>1 DEF RxMove, RxPending, IInv, Typed, Moving, InARow, Lost
<1>3. /\ rx'.on = rx.on /\ rx'.left = rx.left - 1
      /\ rx'.tc = IF rx.left = 1 THEN 1 ELSE rx.tc
      /\ rx' \in [on : {0, 1}, left : Nat, irq : {0, 1}, tc : {0, 1}]
  <2>1. rx \in [on : {0, 1}, left : Nat, irq : {0, 1}, tc : {0, 1}] /\ rx.left > 0
    BY DEF RxMove, RxPending, IInv, Typed
  <2>2. CASE rx.left = 1
    <3>1. rx' = [on |-> rx.on, left |-> rx.left - 1, irq |-> rx.irq, tc |-> 1]
      BY <2>1, <2>2 DEF RxMove
    <3>2. QED
      BY <2>1, <2>2, <3>1
  <2>3. CASE rx.left # 1
    <3>1. rx' = [on |-> rx.on, left |-> rx.left - 1, irq |-> rx.irq, tc |-> rx.tc]
      BY <2>1, <2>3 DEF RxMove
    <3>2. QED
      BY <2>1, <2>3, <3>1
  <2>4. QED
    BY <2>2, <2>3
<1>4. Typed'
  BY <1>1, <1>2, <1>3 DEF RxMove, IInv, Typed
<1>5. InOrder'
  BY <1>2 DEF RxMove, IInv, InOrder, Sent, Typed
<1>6. IF ovr = 0 THEN InARow' ELSE Lost'
  BY <1>1, <1>2, <1>3 DEF RxMove, RxPending, IInv, Typed, Moving, InARow, Lost, Holds
<1>7. Moving'
  BY <1>1, <1>6 DEF RxMove, IInv, Moving
<1>8. Receiving'
  BY <1>1, <1>2, <1>3 DEF RxMove, RxPending, IInv, Typed, Receiving
<1>9. Resting'
  BY <1>1 DEF RxMove, IInv, Resting
<1>10. QED
  BY <1>4, <1>5, <1>7, <1>8, <1>9 DEF IInv

LEMMA IrqInv == ASSUME IInv, DMA1_Channel2_IRQHandler PROVE IInv'
<1>1. pc \in {"setRx", "request", "poll"}
  BY UnderWay DEF DMA1_Channel2_IRQHandler
<1>2. pc \in {"request", "poll"}
  BY <1>1 DEF DMA1_Channel2_IRQHandler, IInv, Resting
<1>3. rx'.on = rx.on /\ rx'.left = rx.left /\ rx'.tc = 0 /\ Typed'
  BY DEF DMA1_Channel2_IRQHandler, spiVars, IInv, Typed
<1>4. QED
  BY <1>2, <1>3 DEF DMA1_Channel2_IRQHandler, spiVars, IInv, Typed, InOrder, Moving,
                    Receiving, Resting, InARow, Lost

-----------------------------------------------------------------------------
(* Theorems *)

LEMMA StepInv == ASSUME IInv, [Next]_vars PROVE IInv'
<1>1. CASE UNCHANGED vars
  BY <1>1 DEF vars, spiVars, IInv, Typed, InOrder, Moving, Receiving, Resting, Still,
              InARow, Lost
<1>2. QED
  BY <1>1, CallerInv, TxMoveInv, ShiftStartInv, ShiftEndInv, RxMoveInv, IrqInv
     DEF Next, Hardware

LEMMA Invariant == Spec => []IInv
BY InitInv, StepInv, PTL DEF Spec

\* For transfers of any length, however the caller is preempted: the flag is that
\* of the transfer which polls it, and ARM_DRIVER_OK means that memory holds
\* every byte, once and in order.
THEOREM AlwaysReceivedWhole == Spec => []ReceivedWhole
<1>1. IInv => ReceivedWhole
  <2> SUFFICES ASSUME IInv PROVE ReceivedWhole
    OBVIOUS
  <2>1. ASSUME spi_trans_over = 1
        PROVE  pc \in {"request", "poll", "reset"} /\ Len(memory) = translen /\ rx.tc = 0
    <3>1. pc \in {"request", "poll", "reset"}
      BY <2>1 DEF IInv, Typed, Places, Resting
    <3>2. CASE pc = "reset"
      BY <2>1, <3>2 DEF IInv, Resting, Still
    <3>3. CASE pc \in {"request", "poll"}
      BY <2>1, <3>3 DEF IInv, Typed, Receiving
    <3>4. QED
      BY <3>1, <3>2, <3>3
  <2>2. ASSUME status = "ARM_DRIVER_OK"
        PROVE  memory = [i \in 1..translen |-> Sent(i)]
    <3>1. Len(memory) = translen /\ memory \in Seq(Nat)
      BY <2>2 DEF IInv, Typed, Resting
    <3>2. DOMAIN memory = 1..translen /\ memory = [i \in DOMAIN memory |-> memory[i]]
      BY <3>1
    <3>3. QED
      BY <3>1, <3>2 DEF IInv, InOrder
  <2>3. QED
    BY <2>1, <2>2 DEF ReceivedWhole
<1>2. QED
  BY <1>1, Invariant, PTL

\* The registers are empty whenever the caller has the processor back.
THEOREM AlwaysQuietBetween == Spec => []QuietBetween
<1>1. IInv => QuietBetween
  BY DEF IInv, Resting, Still, QuietBetween
<1>2. QED
  BY <1>1, Invariant, PTL

\* Nothing is ever lost but between the lines that set up the two channels.
THEOREM LossOnlyInSetup == Spec => LostOnlyInSetup
<1>1. ASSUME IInv, [Next]_vars PROVE [ovr' # ovr => pc = "setRx"]_vars
  <2>1. CASE ShiftEnd
    <3>1. ovr' # ovr => rxdr # 0 /\ ovr = 0
      BY <1>1, <2>1 DEF ShiftEnd, IInv, Typed
    <3>2. QED
      BY <1>1, <2>1, <3>1, LossPlace
  <2>2. CASE ~ShiftEnd
    BY <1>1, <2>2 DEF Next, CallerStep, Hardware, RejectParameters, Call, PollAgain,
       DisableChannels, SetupTx, SetupRx, RequestDma, PollOver, ResetOver, Return,
       TxMove, ShiftStart, RxMove, DMA1_Channel2_IRQHandler, vars, spiVars
  <2>3. QED
    BY <2>1, <2>2
<1>2. QED
  BY <1>1, Invariant, PTL DEF Spec, LostOnlyInSetup

-----------------------------------------------------------------------------
(* The serial flash: the inductive invariant *)

Writes == {"SectorErase", "WritePage"}

\* Where a call can be.
PlaceInv ==
  /\ at \in {"idle", "enable", "waitBefore", "command", "waitAfter"}
  /\ at = "enable" => op.kind \in Writes
  /\ at = "waitBefore" => op.kind = "SectorErase"
  /\ at = "command" => op.kind \in Writes \cup {"Read", "EraseChip"}
  /\ at = "waitAfter" => op.kind \in Writes

\* The latch is set as long as the chip is busy, and what WaitAfter waits for
\* leaves it reset, whatever the chip did with the command.
LatchInv ==
  /\ wel \in {0, 1}
  /\ Busy => wel = 1
  /\ at = "waitAfter" /\ ~Busy => wel = 0
  /\ at = "idle" /\ op.kind \in Writes => ~Busy /\ wel = 0

\* A call that found the chip idle has it to itself.
QuietInv ==
  quiet =>
    /\ at \in {"enable", "waitBefore", "command"} /\ op.kind \in Writes =>
         ~Busy /\ cell = before
    /\ at \in {"waitBefore", "command"} /\ op.kind \in Writes => wel = 1
    /\ at = "waitAfter" =>
         \/ job = op /\ cell = before
         \/ ~Busy /\ cell = Effect(op, before)
    /\ at = "idle" /\ op.kind \in Writes => cell = Effect(op, before)
    /\ op.kind = "Read" => ~Busy /\ cell = before
    /\ at = "idle" /\ op.kind = "Read" => rx_buff = cell[op.page]

FlashInv == PlaceInv /\ LatchInv /\ QuietInv

-----------------------------------------------------------------------------
(* The serial flash: the steps *)

LEMMA FlashSetUp == FlashInit => FlashInv
  BY DEF FlashInit, FlashInv, PlaceInv, LatchInv, QuietInv, Busy, NoOp, Writes

\* A call begins.
LEMMA BeginStep ==
  ASSUME FlashInv, NEW o, NEW first, Begin(o, first),
         \/ first = "enable" /\ o.kind \in Writes
         \/ first = "command" /\ o.kind \in {"Read", "EraseChip"}
  PROVE  FlashInv'
  <1>1. PlaceInv'
    BY DEF Begin, PlaceInv, Writes
  <1>2. LatchInv'
    BY DEF FlashInv, LatchInv, Begin, Busy, chipVars
  <1>3. QuietInv'
    BY DEF QuietInv, Begin, Busy, chipVars, Writes
  <1> QED BY <1>1, <1>2, <1>3 DEF FlashInv

LEMMA CallStep ==
  ASSUME FlashInv,
         \/ \E p \in Pages : FLASH_SectorErase(Sector[p])
         \/ \E p \in Pages, d \in Data : FLASH_WritePage(p, d)
         \/ \E p \in Pages : FLASH_Read(p)
         \/ FLASH_EraseChip
  PROVE  FlashInv'
  <1>1. ASSUME NEW p \in Pages, FLASH_SectorErase(Sector[p])
        PROVE  FlashInv'
    <2> DEFINE o == [kind |-> "SectorErase", sector |-> Sector[p]]
    <2>1. Begin(o, "enable")
      BY <1>1 DEF FLASH_SectorErase
    <2>2. o.kind \in Writes
      BY DEF Writes
    <2> HIDE DEF o
    <2> QED BY <2>1, <2>2, BeginStep
  <1>2. ASSUME NEW p \in Pages, NEW d \in Data, FLASH_WritePage(p, d)
        PROVE  FlashInv'
    <2> DEFINE o == [kind |-> "WritePage", page |-> p, data |-> d]
    <2>1. Begin(o, "enable")
      BY <1>2 DEF FLASH_WritePage
    <2>2. o.kind \in Writes
      BY DEF Writes
    <2> HIDE DEF o
    <2> QED BY <2>1, <2>2, BeginStep
  <1>3. ASSUME NEW p \in Pages, FLASH_Read(p)
        PROVE  FlashInv'
    <2> DEFINE o == [kind |-> "Read", page |-> p]
    <2>1. Begin(o, "command")
      BY <1>3 DEF FLASH_Read
    <2>2. o.kind \in {"Read", "EraseChip"}
      OBVIOUS
    <2> HIDE DEF o
    <2> QED BY <2>1, <2>2, BeginStep
  <1>4. ASSUME FLASH_EraseChip
        PROVE  FlashInv'
    <2> DEFINE o == [kind |-> "EraseChip"]
    <2>1. Begin(o, "command")
      BY <1>4 DEF FLASH_EraseChip
    <2>2. o.kind \in {"Read", "EraseChip"}
      OBVIOUS
    <2> HIDE DEF o
    <2> QED BY <2>1, <2>2, BeginStep
  <1> QED BY <1>1, <1>2, <1>3, <1>4

LEMMA EnableStep == FlashInv /\ FLASH_WriteEnable => FlashInv'
  <1> SUFFICES ASSUME FlashInv, FLASH_WriteEnable PROVE FlashInv'
    OBVIOUS
  <1>1. PlaceInv'
    BY DEF FlashInv, PlaceInv, FLASH_WriteEnable, began, Writes
  <1>2. LatchInv'
    BY DEF FlashInv, PlaceInv, LatchInv, FLASH_WriteEnable, ChipWriteEnable, Busy, began
  <1>3. QuietInv'
    BY DEF FlashInv, PlaceInv, QuietInv, FLASH_WriteEnable, ChipWriteEnable, Busy,
           began, Writes
  <1> QED BY <1>1, <1>2, <1>3 DEF FlashInv

LEMMA WaitStep == FlashInv /\ (WaitBefore \/ WaitAfter) => FlashInv'
  <1> SUFFICES ASSUME FlashInv, WaitBefore \/ WaitAfter PROVE FlashInv'
    OBVIOUS
  <1>1. PlaceInv'
    BY DEF FlashInv, PlaceInv, WaitBefore, WaitAfter, began, Writes
  <1>2. LatchInv'
    BY DEF FlashInv, LatchInv, WaitBefore, WaitAfter, Busy, began, chipVars
  <1>3. QuietInv'
    BY DEF FlashInv, PlaceInv, QuietInv, WaitBefore, WaitAfter, Busy, began,
           chipVars, Writes
  <1> QED BY <1>1, <1>2, <1>3 DEF FlashInv

LEMMA WriteStep == FlashInv /\ WriteCommand => FlashInv'
  <1> SUFFICES ASSUME FlashInv, WriteCommand PROVE FlashInv'
    OBVIOUS
  <1>0. op.kind \in Writes \cup {"EraseChip"} /\ op.kind # "none"
    BY DEF FlashInv, PlaceInv, WriteCommand, Writes
  <1>1. PlaceInv'
    BY <1>0 DEF PlaceInv, WriteCommand, began, Writes
  <1>2. LatchInv'
    BY <1>0 DEF FlashInv, LatchInv, WriteCommand, ChipExecute, Busy, began, Writes
  <1>3. QuietInv'
    BY <1>0 DEF FlashInv, QuietInv, WriteCommand, ChipExecute, Busy, began, Writes
  <1> QED BY <1>1, <1>2, <1>3 DEF FlashInv

LEMMA ReadStep == FlashInv /\ ReadCommand => FlashInv'
  <1> SUFFICES ASSUME FlashInv, ReadCommand PROVE FlashInv'
    OBVIOUS
  <1>1. PlaceInv'
    BY DEF PlaceInv, ReadCommand
  <1>2. LatchInv'
    BY DEF FlashInv, LatchInv, ReadCommand, Busy, began, chipVars, Writes
  <1>3. QuietInv'
    BY DEF FlashInv, QuietInv, ReadCommand, ChipRead, Busy, began, chipVars, Writes
  <1> QED BY <1>1, <1>2, <1>3 DEF FlashInv

LEMMA ChipStep == FlashInv /\ ChipFinish => FlashInv'
  <1> SUFFICES ASSUME FlashInv, ChipFinish PROVE FlashInv'
    OBVIOUS
  <1>1. PlaceInv'
    BY DEF FlashInv, PlaceInv, ChipFinish, began
  <1>2. ~Busy' /\ wel' = 0
    BY DEF ChipFinish, Busy, NoOp
  <1>3. LatchInv'
    BY <1>2 DEF LatchInv
  <1>4. QuietInv'
    <2>1. CASE at = "waitAfter" /\ quiet
      <3>1. job = op /\ cell = before
        BY <2>1 DEF FlashInv, QuietInv, ChipFinish
      <3>2. cell' = Effect(op, before)'
        BY <3>1 DEF ChipFinish, Effect, began
      <3>3. ~Busy' /\ at' = "waitAfter" /\ op'.kind \in Writes
        BY <1>2, <2>1 DEF FlashInv, PlaceInv, ChipFinish, began
      <3> QED BY <3>2, <3>3 DEF QuietInv, Writes
    <2>2. CASE ~(at = "waitAfter" /\ quiet)
      BY <1>2, <2>2 DEF FlashInv, LatchInv, QuietInv, ChipFinish, began
    <2> QED BY <2>1, <2>2
  <1> QED BY <1>1, <1>3, <1>4 DEF FlashInv

LEMMA RestartStep == FlashInv /\ Restart => FlashInv'
  BY DEF FlashInv, PlaceInv, LatchInv, QuietInv, Restart, NoOp, Busy, chipVars, Writes

LEMMA FlashStep == FlashInv /\ [FlashNext]_flashVars => FlashInv'
  <1> SUFFICES ASSUME FlashInv, [FlashNext]_flashVars PROVE FlashInv'
    OBVIOUS
  <1>1. CASE UNCHANGED flashVars
    BY <1>1 DEF FlashInv, PlaceInv, LatchInv, QuietInv, Effect, Busy, flashVars,
                began, chipVars
  <1>2. CASE Driver
    BY <1>2, EnableStep, WaitStep, WriteStep, ReadStep DEF Driver
  <1> QED BY <1>1, <1>2, CallStep, ChipStep, RestartStep DEF FlashNext

-----------------------------------------------------------------------------
(* The serial flash: the theorems *)

LEMMA FlashInvariant == FlashSpec => []FlashInv
  BY FlashSetUp, FlashStep, PTL DEF FlashSpec

\* An erase or program command of a call that found the chip idle reaches it
\* with the latch set and idle, wherever resets cut off the calls before.
THEOREM AlwaysEnabled == FlashSpec => []EnabledUnlessBusy
  <1>1. FlashInv => EnabledUnlessBusy
    BY DEF FlashInv, QuietInv, EnabledUnlessBusy, Writes
  <1> QED BY <1>1, FlashInvariant, PTL

\* A call that found the chip idle and returned has had its whole effect and no
\* other: a write did what it was to do and nothing else, a Read found what the
\* page holds.  A write that found the chip busy, after a reset, may have been
\* ignored; but it too leaves an idle chip with its latch reset.
THEOREM AlwaysInPlace == FlashSpec => []EffectInPlace
  <1>1. FlashInv => EffectInPlace
    BY DEF FlashInv, LatchInv, QuietInv, EffectInPlace, Writes
  <1> QED BY <1>1, FlashInvariant, PTL
==============================================================================
