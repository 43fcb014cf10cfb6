------------------------------- MODULE SpiDma -------------------------------
(***************************************************************************)
(* SPIx_TransferDMA of SPI_Driver.c: one task, the SPI1 shift register,    *)
(* the two DMA channels and the interrupt of channel 2.                    *)
(*                                                                         *)
(* CR2's two request bits are set by every transfer and reset by none, so  *)
(* from the second transfer on the transmit channel runs as soon as it is  *)
(* enabled, before the receive channel is set up.  If the task loses the   *)
(* processor there until a second byte is in (a byte takes 28 us at the    *)
(* divider of 256), that byte is lost.  A transfer of one byte is not      *)
(* affected: its byte waits in the data register.                          *)
(***************************************************************************)
EXTENDS Naturals, Sequences

CONSTANTS
  MaxLen        \* bound: the longest transfer

\* A channel counts in 16 bits (CNDTR): it would cut a longer length, and no
\* caller passes one.
ASSUME MaxLenAssumption == MaxLen \in 0..65535

VARIABLES
  pc,             \* where the caller is in the transfer, "idle" outside
  status,         \* what the last transfer returned
  translen,
  spi_trans_over,
  cr2,            \* SPI_CR2: both request bits, set together
  tx,             \* DMA1 channel 3: [on, left]
  rx,             \* DMA1 channel 2: [on, left, irq, tc]
  txdr,           \* the byte waiting in the data register, 0 if none (TXE)
  shift,          \* the byte being shifted, 0 if none (BSY)
  rxdr,           \* the byte received and not read yet, 0 if none (RXNE)
  ovr,            \* SR.OVR: no more bytes are received until it is cleared
  memory          \* the bytes the receive channel stored for this transfer

spiVars == <<cr2, txdr, shift, rxdr, ovr>>
vars == <<pc, status, translen, spi_trans_over, tx, rx, memory, spiVars>>

\* The i-th byte of a transfer, going out and coming back, is i.
Sent(i) == i

Init ==
  /\ pc = "idle" /\ status = "none" /\ translen = 0
  /\ spi_trans_over = 0
  /\ cr2 = 0
  /\ tx = [on |-> 0, left |-> 0]
  /\ rx = [on |-> 0, left |-> 0, irq |-> 0, tc |-> 0]
  /\ txdr = 0 /\ shift = 0 /\ rxdr = 0 /\ ovr = 0
  /\ memory = <<>>

Goto(from, to) == pc = from /\ pc' = to

-----------------------------------------------------------------------------
(* SPIx_TransferDMA *)

\* Neither buffer, or no bytes: the registers are not touched.
RejectParameters ==
  /\ pc = "idle"
  /\ status' = "ARM_DRIVER_ERROR_PARAMETER"
  /\ UNCHANGED <<pc, translen, spi_trans_over, tx, rx, memory, spiVars>>

\* Buffers that are absent are replaced by one dummy byte without increment:
\* both channels move translen bytes in each of the three modes.
Call(n) ==
  /\ Goto("idle", "disable")
  /\ translen' = n
  /\ status' = "none"
  /\ memory' = <<>>
  /\ UNCHANGED <<spi_trans_over, tx, rx, spiVars>>

DisableChannels ==
  /\ Goto("disable", "setTx")
  /\ tx' = [tx EXCEPT !.on = 0]
  /\ rx' = [rx EXCEPT !.on = 0]
  /\ UNCHANGED <<status, translen, spi_trans_over, memory, spiVars>>

SetupTx ==
  /\ Goto("setTx", "setRx")
  /\ tx' = [on |-> 1, left |-> translen]
  /\ UNCHANGED <<status, translen, spi_trans_over, rx, memory, spiVars>>

\* Mutant of SetupRx: one byte fewer.
SetupRxShort ==
  /\ Goto("setRx", "request")
  /\ rx' = [rx EXCEPT !.on = 1, !.left = translen - 1, !.irq = 1]
  /\ UNCHANGED <<status, translen, spi_trans_over, tx, memory, spiVars>>

\* Mutant of SetupRx: the size of the dummy buffer, one byte.
SetupRxOne ==
  /\ Goto("setRx", "request")
  /\ rx' = [rx EXCEPT !.on = 1, !.left = 1, !.irq = 1]
  /\ UNCHANGED <<status, translen, spi_trans_over, tx, memory, spiVars>>

SetupRx ==
  /\ Goto("setRx", "request")
  /\ rx' = [rx EXCEPT !.on = 1, !.left = translen, !.irq = 1]
  /\ UNCHANGED <<status, translen, spi_trans_over, tx, memory, spiVars>>

RequestDma ==
  /\ Goto("request", "poll")
  /\ cr2' = 1
  /\ UNCHANGED <<status, translen, spi_trans_over, tx, rx, memory, txdr, shift,
                 rxdr, ovr>>

\* Mutant of PollOver: it waits for the transmit channel instead.
PollTransmitted ==
  /\ tx.left = 0
  /\ Goto("poll", "reset")
  /\ UNCHANGED <<status, translen, spi_trans_over, tx, rx, memory, spiVars>>

\* Line 177.  The flag is not volatile, but the project is built with -O0.
PollOver ==
  /\ spi_trans_over = 1
  /\ Goto("poll", "reset")
  /\ UNCHANGED <<status, translen, spi_trans_over, tx, rx, memory, spiVars>>

\* The poll has no limit.
PollAgain ==
  /\ pc = "poll" /\ spi_trans_over = 0
  /\ UNCHANGED vars

ResetOver ==
  /\ Goto("reset", "settle")
  /\ spi_trans_over' = 0
  /\ UNCHANGED <<status, translen, tx, rx, memory, spiVars>>

\* Line 180: not busy and the data register empty.  The end of the receive
\* channel implies both, so the line never waits.
Return ==
  /\ shift = 0 /\ txdr = 0
  /\ Goto("settle", "idle")
  /\ status' = "ARM_DRIVER_OK"
  /\ UNCHANGED <<translen, spi_trans_over, tx, rx, memory, spiVars>>

-----------------------------------------------------------------------------
(* The hardware and the interrupt *)

TxMove ==
  /\ cr2 = 1 /\ tx.on = 1 /\ tx.left > 0
  /\ txdr = 0
  /\ txdr' = Sent(translen - tx.left + 1)
  /\ tx' = [tx EXCEPT !.left = @ - 1]
  /\ UNCHANGED <<pc, status, translen, spi_trans_over, rx, memory, cr2, shift,
                 rxdr, ovr>>

ShiftStart ==
  /\ shift = 0 /\ txdr # 0
  /\ shift' = txdr /\ txdr' = 0
  /\ UNCHANGED <<pc, status, translen, spi_trans_over, tx, rx, memory, cr2,
                 rxdr, ovr>>

\* The receive channel has a byte to fetch, which it does in far less than the
\* time of another byte.
RxPending == cr2 = 1 /\ rx.on = 1 /\ rx.left > 0 /\ rxdr # 0

\* A byte has gone out and one has come in.  It is lost if the one before
\* was not read, and so are all later ones until OVR is cleared.
ShiftEnd ==
  /\ shift # 0
  /\ ~RxPending
  /\ shift' = 0
  /\ rxdr' = IF rxdr = 0 /\ ovr = 0 THEN shift ELSE rxdr
  /\ ovr' = IF rxdr = 0 THEN ovr ELSE 1
  /\ UNCHANGED <<pc, status, translen, spi_trans_over, tx, rx, memory, cr2,
                 txdr>>

RxMove ==
  /\ RxPending
  /\ memory' = Append(memory, rxdr)
  /\ rxdr' = 0
  /\ rx' = [rx EXCEPT !.left = @ - 1, !.tc = IF rx.left = 1 THEN 1 ELSE @]
  /\ UNCHANGED <<pc, status, translen, spi_trans_over, tx, cr2, txdr, shift,
                 ovr>>

\* Mutant of the handler: it looks at another channel's flag.
IrqSeesNothing ==
  /\ rx.irq = 1 /\ rx.tc = 1
  /\ UNCHANGED vars

DMA1_Channel2_IRQHandler ==
  /\ rx.irq = 1 /\ rx.tc = 1
  /\ spi_trans_over' = 1
  /\ rx' = [rx EXCEPT !.tc = 0]
  /\ UNCHANGED <<pc, status, translen, tx, memory, spiVars>>

Hardware == TxMove \/ ShiftStart \/ ShiftEnd \/ RxMove

CallerStep ==
  DisableChannels \/ SetupTx \/ SetupRx \/ RequestDma \/ PollOver \/ ResetOver
    \/ Return

Next ==
  \/ RejectParameters
  \/ \E n \in 1..MaxLen : Call(n)
  \/ CallerStep \/ PollAgain
  \/ Hardware
  \/ DMA1_Channel2_IRQHandler

Spec == Init /\ [][Next]_vars

\* The task is scheduled, the SPI clock runs, the interrupt is served.
FairSpec ==
  /\ Spec
  /\ WF_vars(CallerStep)
  /\ WF_vars(TxMove) /\ WF_vars(ShiftStart) /\ WF_vars(ShiftEnd)
  /\ WF_vars(RxMove) /\ WF_vars(DMA1_Channel2_IRQHandler)

-----------------------------------------------------------------------------
(* Properties *)

\* spi_trans_over announces the transfer that polls it, complete in memory,
\* never an earlier one, and ARM_DRIVER_OK means that every byte was stored, once
\* and in order.
ReceivedWhole ==
  /\ spi_trans_over = 1 => /\ pc \in {"request", "poll", "reset"}
                           /\ Len(memory) = translen /\ rx.tc = 0
  /\ status = "ARM_DRIVER_OK" => memory = [i \in 1..translen |-> Sent(i)]

\* When the caller has the processor back, to raise the chip select, no byte
\* is on its way or unread: the next transfer starts from a clean register.
QuietBetween ==
  pc \in {"idle", "disable"} => txdr = 0 /\ shift = 0 /\ rxdr = 0 /\ ovr = 0

\* A byte is lost at one place only: between the lines that set up the two
\* channels (SPI_Driver.c:99-118), by a task that is preempted there.
LostOnlyInSetup == [][ovr' # ovr => pc = "setRx"]_vars

\* A transfer that has started returns, unless it lost a byte: then the poll of
\* the completion flag is all that is left.
TransferReturns == pc = "disable" ~> pc = "idle" \/ ovr = 1
==============================================================================
