------------------------------ MODULE DebugUart ------------------------------
(***************************************************************************)
(* The debug log: Debug_Message (Application/DebugMessage.c), the FreeRTOS *)
(* mutex it takes, the USART1 DMA transfer under it (USART_Driver.c) and   *)
(* the boot order of MainConfig/main.c that makes the lazily created mutex *)
(* safe.                                                                   *)
(*                                                                         *)
(* Tasks interleave at every access to shared state: the kernel preempts,  *)
(* so nothing here relies on who has which priority.  A mutex is named by  *)
(* the task that created it, a task creating at most one.                  *)
(***************************************************************************)
EXTENDS Integers, Sequences

CONSTANTS
  Tasks,        \* all tasks
  Main,         \* vMainTask, the only task before it creates the others
  Order,        \* the tasks vMainTask creates, in the order it does
  Lens,         \* the lengths of the messages tasks print
  BannerLen,    \* the length of vMainTask's banner
  BufSize,      \* sizeof(usart_message)
  None          \* NULL

ASSUME MainAssumption == Main \in Tasks /\ None \notin Tasks
ASSUME OrderAssumption ==
  /\ Order \in Seq(Tasks \ {Main})
  /\ \A i, j \in DOMAIN Order : Order[i] = Order[j] => i = j
\* No message of the source formats to nothing: a DMA transfer of 0 bytes
\* never completes.
ASSUME LensAssumption == /\ Lens \subseteq Nat \ {0}
                         /\ BannerLen \in Lens
ASSUME BufAssumption == BufSize \in Nat \ {0}

VARIABLES
  pc,           \* where each task is
  str_len,      \* Debug_Message's local: the length vsnprintf reports
  made,         \* how many tasks vMainTask has created
  sem,          \* _xSemphrUsart: None or the mutex's name
  count,        \* uxMessagesWaiting of each mutex
  holder,       \* xMutexHolder of each mutex
  buffer,       \* usart_message: [by, len], by = None when all zero
  over,         \* usart1_trans_over
  en, tcie,     \* DMA1 channel 4: enabled, transfer-complete interrupt on
  cndtr, tcif,  \* its count of bytes to go, its transfer-complete flag
  dmat,         \* USART1 CR3.DMAT
  inflight,     \* bytes in the USART's data and shift registers
  srTC,         \* USART1 SR.TC
  line          \* history: bytes sent since the channel was last programmed

taskVars  == <<pc, str_len, made>>
mutexVars == <<sem, count, holder>>
dmaVars   == <<en, tcie, cndtr, tcif>>
uartVars  == <<over, dmaVars, dmat, inflight, srTC, line>>
vars      == <<taskVars, mutexVars, buffer, uartVars>>

\* Labels of the steps of Debug_Message, and of a task outside of it.
Using    == {"memset", "format", "disable", "program", "enable",
             "poll", "reset", "drain", "clear"}
Labels   == Using \cup {"absent", "app", "lock", "create", "take", "unlock",
                        "spawn", "spin", "deleted"}

\* The task whose message is on the line: from the programming of the
\* channel until the completion flag has been seen and reset.
Senders == { t \in Tasks : pc[t] \in {"enable", "poll", "reset"} }

LogOwner == IF Senders = {} THEN None ELSE CHOOSE t \in Senders : TRUE

Uart == INSTANCE UartLog WITH
  owner <- LogOwner,
  size <- IF LogOwner = None THEN 0 ELSE str_len[LogOwner]

Goto(t, from, to) == pc[t] = from /\ pc' = [pc EXCEPT ![t] = to]

\* The hardware after reset.
UartReset ==
  /\ over = 0
  /\ en = 0 /\ tcie = 0 /\ cndtr = 0 /\ tcif = 0
  /\ dmat = 0
  /\ inflight = 0
  /\ srTC = 1
  /\ line = <<>>

\* Mutant of Init: the tasks are created before the banner is printed.
InitTasksFirst ==
  /\ pc = [t \in Tasks |-> IF t = Main THEN "lock" ELSE "app"]
  /\ str_len = [t \in Tasks |-> BannerLen]
  /\ made = Len(Order)
  /\ sem = None
  /\ count = [m \in Tasks |-> 0]
  /\ holder = [m \in Tasks |-> None]
  /\ buffer = [by |-> None, len |-> 0]
  /\ UartReset

Init ==
  /\ pc = [t \in Tasks |-> IF t = Main THEN "lock" ELSE "absent"]
  /\ str_len = [t \in Tasks |-> BannerLen]
  /\ made = 0
  /\ sem = None
  /\ count = [m \in Tasks |-> 0]
  /\ holder = [m \in Tasks |-> None]
  /\ buffer = [by |-> None, len |-> 0]
  /\ UartReset

-----------------------------------------------------------------------------
(* Debug_Message and the mutex *)

Call(t, n) ==
  /\ Goto(t, "app", "lock")
  /\ str_len' = [str_len EXCEPT ![t] = n]
  /\ UNCHANGED <<made, mutexVars, buffer, uartVars>>

\* Line 18: the test of _xSemphrUsart, and line 24 is another step.
Lock(t) ==
  /\ Goto(t, "lock", IF sem = None THEN "create" ELSE "take")
  /\ UNCHANGED <<str_len, made, mutexVars, buffer, uartVars>>

\* The new mutex is free: the creator goes on without holding it.
CreateMutex(t) ==
  /\ Goto(t, "create", "memset")
  /\ sem' = t
  /\ count' = [count EXCEPT ![t] = 1]
  /\ holder' = [holder EXCEPT ![t] = None]
  /\ UNCHANGED <<str_len, made, buffer, uartVars>>

\* pvPortMalloc finds no block: vApplicationMallocFailedHook never returns.
CreateFails(t) ==
  /\ Goto(t, "create", "spin")
  /\ UNCHANGED <<str_len, made, mutexVars, buffer, uartVars>>

\* Mutant of Take: a caller that does not wait for the mutex.
TakeWithoutWaiting(t) ==
  /\ Goto(t, "take", "memset")
  /\ count' = [count EXCEPT ![sem] = 0]
  /\ holder' = [holder EXCEPT ![sem] = t]
  /\ UNCHANGED <<str_len, made, sem, buffer, uartVars>>

\* xSemaphoreTake with portMAX_DELAY, as a step that waits: KernelMutex has
\* the steps of queue.c that implement it.
Take(t) ==
  /\ Goto(t, "take", "memset")
  /\ count[sem] = 1
  /\ count' = [count EXCEPT ![sem] = 0]
  /\ holder' = [holder EXCEPT ![sem] = t]
  /\ UNCHANGED <<str_len, made, sem, buffer, uartVars>>

Memset(t) ==
  /\ Goto(t, "memset", "format")
  /\ buffer' = [by |-> None, len |-> 0]
  /\ UNCHANGED <<str_len, made, mutexVars, uartVars>>

Format(t) ==
  /\ Goto(t, "format", "disable")
  /\ buffer' = [by |-> t, len |-> str_len[t]]
  /\ UNCHANGED <<str_len, made, mutexVars, uartVars>>

AfterUnlock(t) == IF t = Main THEN "spawn" ELSE "app"

\* Mutant of Unlock: the mutex is not given back.
LeaveLocked(t) ==
  /\ Goto(t, "unlock", AfterUnlock(t))
  /\ UNCHANGED <<str_len, made, mutexVars, buffer, uartVars>>

\* xSemaphoreGive: a full mutex makes it fail with errQUEUE_FULL, which
\* nobody looks at; otherwise it frees the mutex whoever holds it.
Unlock(t) ==
  /\ Goto(t, "unlock", AfterUnlock(t))
  /\ IF sem # None /\ count[sem] = 0
       THEN /\ count' = [count EXCEPT ![sem] = 1]
            /\ holder' = [holder EXCEPT ![sem] = None]
       ELSE UNCHANGED <<count, holder>>
  /\ UNCHANGED <<str_len, made, sem, buffer, uartVars>>

-----------------------------------------------------------------------------
(* USARTx_TransferDMA *)

DisableChannel(t) ==
  /\ Goto(t, "disable", "program")
  /\ en' = 0 /\ tcie' = 0
  /\ UNCHANGED <<str_len, made, mutexVars, buffer, over, cndtr, tcif, dmat,
                 inflight, srTC, line>>

\* Mutant of ProgramChannel: the transfer-complete interrupt stays off.
ProgramWithoutIrq(t) ==
  /\ Goto(t, "program", "enable")
  /\ en' = 1 /\ cndtr' = str_len[t]
  /\ line' = <<>>
  /\ UNCHANGED <<str_len, made, mutexVars, buffer, over, tcie, tcif, dmat,
                 inflight, srTC>>

ProgramChannel(t) ==
  /\ Goto(t, "program", "enable")
  /\ en' = 1 /\ tcie' = 1 /\ cndtr' = str_len[t]
  /\ line' = <<>>
  /\ UNCHANGED <<str_len, made, mutexVars, buffer, over, tcif, dmat, inflight,
                 srTC>>

EnableRequests(t) ==
  /\ Goto(t, "enable", "poll")
  /\ dmat' = 1
  /\ UNCHANGED <<str_len, made, mutexVars, buffer, over, dmaVars, inflight, srTC,
                 line>>

\* Line 147.  The flag is not volatile, but the project is built with -O0:
\* every turn of the loop reads it again.
PollOver(t) ==
  /\ over = 1
  /\ Goto(t, "poll", "reset")
  /\ UNCHANGED <<str_len, made, mutexVars, buffer, uartVars>>

\* Mutant of ResetOver: line 148 is missing.
KeepOver(t) ==
  /\ Goto(t, "reset", "drain")
  /\ UNCHANGED <<str_len, made, mutexVars, buffer, uartVars>>

ResetOver(t) ==
  /\ Goto(t, "reset", "drain")
  /\ over' = 0
  /\ UNCHANGED <<str_len, made, mutexVars, buffer, dmaVars, dmat, inflight,
                 srTC, line>>

Drain(t) ==
  /\ srTC = 1
  /\ Goto(t, "drain", "clear")
  /\ UNCHANGED <<str_len, made, mutexVars, buffer, uartVars>>

ClearRequests(t) ==
  /\ Goto(t, "clear", "unlock")
  /\ srTC' = 0
  /\ dmat' = 0
  /\ UNCHANGED <<str_len, made, mutexVars, buffer, over, dmaVars, inflight,
                 line>>

-----------------------------------------------------------------------------
(* The hardware and the interrupt *)

\* The byte DMA channel 4 reads next, out of memory as it is at that moment.
MemoryByte(i) ==
  IF i > BufSize THEN Uart!Beyond
  ELSE IF buffer.by = None \/ i = BufSize \/ i > buffer.len THEN Uart!Nul
  ELSE <<buffer.by, buffer.len, i>>

\* The channel serves the request the USART raises while its data register
\* is free.  Writing the data register after a read of SR resets SR.TC;
\* whether the read is that of an earlier poll is the hardware's business.
DmaMove ==
  /\ en = 1 /\ dmat = 1 /\ cndtr > 0
  /\ inflight < 2
  /\ line' = Append(line, MemoryByte(Len(line) + 1))
  /\ cndtr' = cndtr - 1
  /\ tcif' = IF cndtr = 1 THEN 1 ELSE tcif
  /\ inflight' = inflight + 1
  /\ srTC' \in {srTC, 0}
  /\ UNCHANGED <<taskVars, mutexVars, buffer, over, en, tcie, dmat>>

ShiftOut ==
  /\ inflight > 0
  /\ inflight' = inflight - 1
  /\ srTC' = IF inflight = 1 THEN 1 ELSE srTC
  /\ UNCHANGED <<taskVars, mutexVars, buffer, over, dmaVars, dmat, line>>

\* Mutant of the handler: the TC flag is not cleared.
IrqKeepsFlag ==
  /\ tcie = 1 /\ tcif = 1
  /\ over' = 1
  /\ UNCHANGED <<taskVars, mutexVars, buffer, dmaVars, dmat, inflight, srTC,
                 line>>

\* Mutant of the handler: it looks at another channel's flag.
IrqSeesNothing ==
  /\ tcie = 1 /\ tcif = 1
  /\ UNCHANGED vars

DMA1_Channel4_IRQHandler ==
  /\ tcie = 1 /\ tcif = 1
  /\ over' = 1
  /\ tcif' = 0
  /\ UNCHANGED <<taskVars, mutexVars, buffer, en, tcie, cndtr, dmat, inflight,
                 srTC, line>>

-----------------------------------------------------------------------------
(* vMainTask after its banner *)

CreateTask ==
  /\ pc[Main] = "spawn"
  /\ made < Len(Order)
  /\ made' = made + 1
  /\ pc' = [pc EXCEPT ![Order[made + 1]] = "app"]
  /\ UNCHANGED <<str_len, mutexVars, buffer, uartVars>>

\* xTaskCreate runs out of heap: the hook, or the for (;;) after the call.
CreateTaskFails ==
  /\ made < Len(Order)
  /\ Goto(Main, "spawn", "spin")
  /\ UNCHANGED <<str_len, made, mutexVars, buffer, uartVars>>

DeleteMain ==
  /\ made = Len(Order)
  /\ Goto(Main, "spawn", "deleted")
  /\ UNCHANGED <<str_len, made, mutexVars, buffer, uartVars>>

Spin(t) == pc[t] = "spin" /\ UNCHANGED vars

TaskStep(t) ==
  \/ Lock(t) \/ CreateMutex(t) \/ CreateFails(t) \/ Take(t)
  \/ Memset(t) \/ Format(t)
  \/ DisableChannel(t) \/ ProgramChannel(t) \/ EnableRequests(t)
  \/ PollOver(t) \/ ResetOver(t) \/ Drain(t) \/ ClearRequests(t)
  \/ Unlock(t)

Hardware == DmaMove \/ ShiftOut \/ DMA1_Channel4_IRQHandler

Next ==
  \/ \E t \in Tasks : TaskStep(t) \/ Spin(t) \/ \E n \in Lens : Call(t, n)
  \/ Hardware
  \/ CreateTask \/ CreateTaskFails \/ DeleteMain

Spec == Init /\ [][Next]_vars

\* Bytes move, interrupts are served, and a task that can run is scheduled
\* again: all tasks of the board spend almost all of their period in
\* vTaskDelay, whatever their priorities.
Fairness ==
  /\ WF_vars(DmaMove) /\ WF_vars(ShiftOut) /\ WF_vars(DMA1_Channel4_IRQHandler)
  /\ \A t \in Tasks : WF_vars(TaskStep(t))

FairSpec == Spec /\ Fairness

-----------------------------------------------------------------------------
(* Properties *)

TypeOK ==
  /\ pc \in [Tasks -> Labels]
  /\ str_len \in [Tasks -> Lens]
  /\ made \in 0..Len(Order)
  /\ sem \in Tasks \cup {None}
  /\ count \in [Tasks -> {0, 1}]
  /\ holder \in [Tasks -> Tasks \cup {None}]
  /\ buffer \in [by : Tasks \cup {None}, len : Lens \cup {0}]
  /\ over \in {0, 1}
  /\ en \in {0, 1} /\ tcie \in {0, 1} /\ cndtr \in Nat /\ tcif \in {0, 1}
  /\ dmat \in {0, 1}
  /\ inflight \in 0..2
  /\ srTC \in {0, 1}

\* At most one task is between _DebugMessageLock and _DebugMessageUnock, so
\* usart_message, the DMA channel and its flag have one user, although the
\* first caller never takes the mutex it creates and gives it back.
MutualExclusion ==
  \A t, u \in Tasks : pc[t] \in Using /\ pc[u] \in Using => t = u

\* usart1_trans_over announces the transfer that is waited for, never one
\* that is already over: while it is set the waiting task's own transfer
\* has moved its last byte.
NoStaleCompletion ==
  over = 1 => /\ \E t \in Tasks : pc[t] \in {"poll", "reset"}
              /\ cndtr = 0 /\ tcif = 0

\* usart_message never changes under a channel that may still read it.
BufferStableUnderDma ==
  [][buffer' # buffer => ~(en = 1 /\ dmat = 1 /\ cndtr > 0)]_vars

\* The log carries whole messages, one at a time and in order: the code
\* implements UartLog.
LogImplemented == Uart!Spec

\* A transfer that has started ends: the poll of line 147 and that of line
\* 150 are both left, so Debug_Message gives the mutex back.
TransferEnds == \A t \in Tasks : pc[t] = "disable" ~> pc[t] = "unlock"

\* Somebody waiting for the mutex never means that nobody gets it.
WaitersServed ==
  (\E t \in Tasks : pc[t] = "take") ~> (\E t \in Tasks : pc[t] = "memset")
==============================================================================
