--------------------------- MODULE DebugUartProof ---------------------------
(***************************************************************************)
(* Machine-checked proofs about DebugUart, for every set of tasks, every   *)
(* creation order, all message lengths and any buffer size.                *)
(***************************************************************************)
EXTENDS DebugUart, TLAPS

(***************************************************************************)
(* Every variable keeps its type: the mutex never counts past one although *)
(* the first caller gives back what it did not take.                       *)
(***************************************************************************)
THEOREM Typing == Spec => []TypeOK
<1>1. Init => TypeOK
  <2> SUFFICES ASSUME Init PROVE TypeOK
    OBVIOUS
  <2>1. made \in 0..Len(Order)
    BY OrderAssumption DEF OrderAssumption, Init
  <2>2. str_len \in [Tasks -> Lens]
    BY LensAssumption DEF LensAssumption, Init
  <2>3. pc \in [Tasks -> Labels]
    BY DEF Init, Labels
  <2> QED
    BY <2>1, <2>2, <2>3 DEF Init, TypeOK, UartReset
<1>2. TypeOK /\ [Next]_vars => TypeOK'
  <2> SUFFICES ASSUME TypeOK, [Next]_vars
               PROVE  TypeOK'
    OBVIOUS
  <2> USE DEF TypeOK, Labels, Using, Goto, mutexVars, uartVars, taskVars,
          dmaVars
  <2>1. ASSUME NEW t \in Tasks, Lock(t) PROVE TypeOK'
    BY <2>1 DEF Lock
  <2>2. ASSUME NEW t \in Tasks, CreateMutex(t) PROVE TypeOK'
    BY <2>2 DEF CreateMutex
  <2>3. ASSUME NEW t \in Tasks, CreateFails(t) PROVE TypeOK'
    BY <2>3 DEF CreateFails
  <2>4. ASSUME NEW t \in Tasks, Take(t) PROVE TypeOK'
    BY <2>4 DEF Take
  <2>5. ASSUME NEW t \in Tasks, Memset(t) PROVE TypeOK'
    BY <2>5 DEF Memset
  <2>6. ASSUME NEW t \in Tasks, Format(t) PROVE TypeOK'
    BY <2>6 DEF Format
  <2>7. ASSUME NEW t \in Tasks, DisableChannel(t) PROVE TypeOK'
    BY <2>7 DEF DisableChannel
  <2>8. ASSUME NEW t \in Tasks, ProgramChannel(t) PROVE TypeOK'
    BY <2>8, LensAssumption DEF ProgramChannel, LensAssumption
  <2>9. ASSUME NEW t \in Tasks, EnableRequests(t) PROVE TypeOK'
    BY <2>9 DEF EnableRequests
  <2>10. ASSUME NEW t \in Tasks, PollOver(t) PROVE TypeOK'
    BY <2>10 DEF PollOver
  <2>11. ASSUME NEW t \in Tasks, ResetOver(t) PROVE TypeOK'
    BY <2>11 DEF ResetOver
  <2>12. ASSUME NEW t \in Tasks, Drain(t) PROVE TypeOK'
    BY <2>12 DEF Drain
  <2>13. ASSUME NEW t \in Tasks, ClearRequests(t) PROVE TypeOK'
    BY <2>13 DEF ClearRequests
  <2>14. ASSUME NEW t \in Tasks, Unlock(t) PROVE TypeOK'
    BY <2>14 DEF Unlock, AfterUnlock
  <2>15. ASSUME NEW t \in Tasks, Spin(t) PROVE TypeOK'
    BY <2>15 DEF Spin, vars
  <2>16. ASSUME NEW t \in Tasks, NEW n \in Lens, Call(t, n) PROVE TypeOK'
    BY <2>16 DEF Call
  <2>17. CASE DmaMove
    BY <2>17 DEF DmaMove
  <2>18. CASE ShiftOut
    BY <2>18 DEF ShiftOut
  <2>19. CASE DMA1_Channel4_IRQHandler
    BY <2>19 DEF DMA1_Channel4_IRQHandler
  <2>20. CASE CreateTask
    BY <2>20, MainAssumption, OrderAssumption
    DEF CreateTask, MainAssumption, OrderAssumption
  <2>21. CASE CreateTaskFails
    BY <2>21, MainAssumption DEF MainAssumption, CreateTaskFails
  <2>22. CASE DeleteMain
    BY <2>22, MainAssumption DEF MainAssumption, DeleteMain
  <2>23. CASE UNCHANGED vars
    BY <2>23 DEF vars
  <2> QED
    BY <2>1, <2>2, <2>3, <2>4, <2>5, <2>6, <2>7, <2>8, <2>9, <2>10, <2>11,
       <2>12, <2>13, <2>14, <2>15, <2>16, <2>17, <2>18, <2>19, <2>20, <2>21,
       <2>22, <2>23 DEF Next, TaskStep, Hardware
<1> QED
  BY <1>1, <1>2, PTL DEF Spec
-----------------------------------------------------------------------------
(***************************************************************************)
(* The inductive invariant behind mutual exclusion.  While vMainTask is in *)
(* its one call there is no other task; it is the only creator of a mutex; *)
(* and once others exist, a task in the critical section means count 0.    *)
(***************************************************************************)
Holding == Using \cup {"unlock"}

MainPlaces == Holding \cup {"lock", "create", "spawn", "spin", "deleted"}

BootAlone ==
  pc[Main] \in Holding \cup {"lock", "create"} =>
    \A t \in Tasks \ {Main} : pc[t] = "absent"

OneCreator ==
  /\ pc[Main] \in MainPlaces
  /\ \A t \in Tasks \ {Main} :
       pc[t] \notin {"create", "spawn", "spin", "deleted"}
  /\ pc[Main] \in {"lock", "create"} => sem = None
  /\ sem # Main => /\ sem = None
                   /\ pc[Main] \in {"lock", "create", "spin"}
                   /\ \A t \in Tasks \ {Main} : pc[t] = "absent"

HeldOnce ==
  \A t \in Tasks \ {Main} : pc[t] \in Holding =>
    /\ count[Main] = 0
    /\ \A u \in Tasks \ {Main} : pc[u] \in Holding => t = u

LockInv == BootAlone /\ OneCreator /\ HeldOnce

\* In every state of LockInv one task at most uses the buffer.
LEMMA LockInvExcludes ==
  ASSUME LockInv
  PROVE  \A t, u \in Tasks : pc[t] \in Holding /\ pc[u] \in Holding => t = u
BY MainAssumption
DEF MainAssumption, LockInv, BootAlone, OneCreator, HeldOnce, Holding, Using

\* A step of one task inside its critical section, or anything that moves
\* no task and leaves the mutex alone, keeps LockInv.
LEMMA StayingKeepsLockInv ==
  ASSUME TypeOK, LockInv, UNCHANGED mutexVars,
         NEW t \in Tasks, NEW from \in Using, NEW to \in Holding,
         Goto(t, from, to)
  PROVE  LockInv'
BY MainAssumption
DEF MainAssumption, LockInv, BootAlone, OneCreator, HeldOnce, Holding, Using,
    MainPlaces, Goto, TypeOK, mutexVars

\* Steps that leave the mutex and the places of all tasks alone keep LockInv.
LEMMA QuietKeepsLockInv ==
  ASSUME LockInv, UNCHANGED pc, UNCHANGED mutexVars
  PROVE  LockInv'
BY DEF LockInv, BootAlone, OneCreator, HeldOnce, mutexVars

(***************************************************************************)
(* Mutual exclusion in Debug_Message, in the boot order of main.c.         *)
(***************************************************************************)
LEMMA LockInvariant == Spec => []LockInv
<1>1. Init => LockInv
  BY MainAssumption
  DEF MainAssumption, Init, LockInv, BootAlone, OneCreator, HeldOnce,
      Holding, Using, MainPlaces
<1>2. TypeOK /\ LockInv /\ [Next]_vars => LockInv'
  <2> SUFFICES ASSUME TypeOK, LockInv, [Next]_vars
               PROVE  LockInv'
    OBVIOUS
  <2> USE MainAssumption DEF MainAssumption
  <2>1. ASSUME NEW t \in Tasks, Lock(t) PROVE LockInv'
    <3>1. sem = None <=> t = Main
      BY <2>1 DEF Lock, Goto, LockInv, BootAlone, OneCreator, Holding, Using
    <3>2. CASE t = Main
      <4>1. sem = None
        BY <3>1, <3>2
      <4>2. pc' = [pc EXCEPT ![Main] = "create"]
        BY <2>1, <3>2, <4>1 DEF Lock, Goto
      <4> QED
        BY <2>1, <3>2, <4>1, <4>2 DEF Lock, Goto, TypeOK, LockInv, BootAlone,
           OneCreator, HeldOnce, Holding, Using, MainPlaces, mutexVars
    <3>3. CASE t # Main
      <4>1. pc' = [pc EXCEPT ![t] = "take"]
        BY <2>1, <3>1, <3>3 DEF Lock, Goto
      <4> QED
        BY <2>1, <3>3, <4>1 DEF Lock, Goto, TypeOK, LockInv, BootAlone,
           OneCreator, HeldOnce, Holding, Using, MainPlaces, mutexVars
    <3> QED
      BY <3>2, <3>3
  <2>2. ASSUME NEW t \in Tasks, CreateMutex(t) PROVE LockInv'
    BY <2>2 DEF CreateMutex, Goto, TypeOK, LockInv, BootAlone, OneCreator,
       HeldOnce, Holding, Using, MainPlaces
  <2>3. ASSUME NEW t \in Tasks, CreateFails(t) PROVE LockInv'
    BY <2>3 DEF CreateFails, Goto, TypeOK, LockInv, BootAlone, OneCreator,
       HeldOnce, Holding, Using, MainPlaces, mutexVars
  <2>4. ASSUME NEW t \in Tasks, Take(t) PROVE LockInv'
    BY <2>4 DEF Take, Goto, TypeOK, LockInv, BootAlone, OneCreator,
       HeldOnce, Holding, Using, MainPlaces
  <2>5. ASSUME NEW t \in Tasks, Memset(t) PROVE LockInv'
    BY <2>5, StayingKeepsLockInv DEF Memset, Holding, Using
  <2>6. ASSUME NEW t \in Tasks, Format(t) PROVE LockInv'
    BY <2>6, StayingKeepsLockInv DEF Format, Holding, Using
  <2>7. ASSUME NEW t \in Tasks, DisableChannel(t) PROVE LockInv'
    BY <2>7, StayingKeepsLockInv DEF DisableChannel, Holding, Using
  <2>8. ASSUME NEW t \in Tasks, ProgramChannel(t) PROVE LockInv'
    BY <2>8, StayingKeepsLockInv DEF ProgramChannel, Holding, Using
  <2>9. ASSUME NEW t \in Tasks, EnableRequests(t) PROVE LockInv'
    BY <2>9, StayingKeepsLockInv DEF EnableRequests, Holding, Using
  <2>10. ASSUME NEW t \in Tasks, PollOver(t) PROVE LockInv'
    BY <2>10, StayingKeepsLockInv DEF PollOver, Holding, Using
  <2>11. ASSUME NEW t \in Tasks, ResetOver(t) PROVE LockInv'
    BY <2>11, StayingKeepsLockInv DEF ResetOver, Holding, Using
  <2>12. ASSUME NEW t \in Tasks, Drain(t) PROVE LockInv'
    BY <2>12, StayingKeepsLockInv DEF Drain, Holding, Using
  <2>13. ASSUME NEW t \in Tasks, ClearRequests(t) PROVE LockInv'
    BY <2>13, StayingKeepsLockInv DEF ClearRequests, Holding, Using
  <2>14. ASSUME NEW t \in Tasks, Unlock(t) PROVE LockInv'
    BY <2>14 DEF Unlock, AfterUnlock, Goto, TypeOK, LockInv, BootAlone,
       OneCreator, HeldOnce, Holding, Using, MainPlaces
  <2>15. ASSUME NEW t \in Tasks, Spin(t) PROVE LockInv'
    BY <2>15, QuietKeepsLockInv DEF Spin, vars, taskVars
  <2>16. ASSUME NEW t \in Tasks, NEW n \in Lens, Call(t, n) PROVE LockInv'
    BY <2>16 DEF Call, Goto, TypeOK, LockInv, BootAlone, OneCreator,
       HeldOnce, Holding, Using, MainPlaces, mutexVars
  <2>17. CASE Hardware
    BY <2>17, QuietKeepsLockInv
    DEF Hardware, DmaMove, ShiftOut, DMA1_Channel4_IRQHandler, taskVars
  <2>18. CASE CreateTask
    <3>1. Order[made + 1] \in Tasks \ {Main}
      BY <2>18, OrderAssumption DEF CreateTask, OrderAssumption, TypeOK
    <3> QED
      BY <2>18, <3>1 DEF CreateTask, TypeOK, LockInv, BootAlone, OneCreator,
         HeldOnce, Holding, Using, MainPlaces, mutexVars
  <2>19. CASE CreateTaskFails
    BY <2>19 DEF CreateTaskFails, Goto, TypeOK, LockInv, BootAlone,
       OneCreator, HeldOnce, Holding, Using, MainPlaces, mutexVars
  <2>20. CASE DeleteMain
    BY <2>20 DEF DeleteMain, Goto, TypeOK, LockInv, BootAlone, OneCreator,
       HeldOnce, Holding, Using, MainPlaces, mutexVars
  <2>21. CASE UNCHANGED vars
    BY <2>21, QuietKeepsLockInv DEF vars, taskVars
  <2> QED
    BY <2>1, <2>2, <2>3, <2>4, <2>5, <2>6, <2>7, <2>8, <2>9, <2>10, <2>11,
       <2>12, <2>13, <2>14, <2>15, <2>16, <2>17, <2>18, <2>19, <2>20, <2>21
    DEF Next, TaskStep
<1> QED
  BY <1>1, <1>2, Typing, PTL DEF Spec

\* usart_message, DMA1 channel 4 and usart1_trans_over have one user at a
\* time, for any number of tasks.
THEOREM MutualExclusionHolds == Spec => []MutualExclusion
<1>1. LockInv => MutualExclusion
  BY LockInvExcludes DEF MutualExclusion, Holding
<1> QED
  BY <1>1, LockInvariant, PTL
-----------------------------------------------------------------------------
\* The tasks vMainTask has not come to yet do not exist.
Uncreated ==
  \A i \in DOMAIN Order : i > made => pc[Order[i]] = "absent"

\* A task runs only after vMainTask's xTaskCreate for it (main.c:29-36).
LEMMA UncreatedInvariant == Spec => []Uncreated
<1>1. Init => Uncreated
  BY MainAssumption, OrderAssumption
  DEF MainAssumption, OrderAssumption, Init, Uncreated
<1>2. TypeOK /\ Uncreated /\ [Next]_vars => Uncreated'
  <2> SUFFICES ASSUME TypeOK, Uncreated, [Next]_vars
               PROVE  Uncreated'
    OBVIOUS
  <2>1. ASSUME NEW t \in Tasks, NEW to, pc[t] # "absent",
               pc' = [pc EXCEPT ![t] = to], UNCHANGED made
        PROVE  Uncreated'
    BY <2>1 DEF Uncreated, TypeOK
  <2>2. ASSUME NEW t \in Tasks, TaskStep(t) PROVE Uncreated'
    BY <2>1, <2>2 DEF TaskStep, Goto, Lock, CreateMutex, CreateFails, Take,
       Memset, Format, DisableChannel, ProgramChannel, EnableRequests,
       PollOver, ResetOver, Drain, ClearRequests, Unlock
  <2>3. ASSUME NEW t \in Tasks, NEW n \in Lens, Call(t, n) PROVE Uncreated'
    BY <2>1, <2>3 DEF Call, Goto
  <2>4. CASE CreateTask
    BY <2>4, OrderAssumption DEF CreateTask, OrderAssumption, Uncreated, TypeOK
  <2>5. CASE CreateTaskFails \/ DeleteMain
    BY <2>1, <2>5, MainAssumption
    DEF CreateTaskFails, DeleteMain, Goto, MainAssumption
  <2>6. ASSUME UNCHANGED taskVars PROVE Uncreated'
    BY <2>6 DEF taskVars, Uncreated
  <2> QED
    BY <2>2, <2>3, <2>4, <2>5, <2>6
    DEF Next, Spin, vars, Hardware, DmaMove, ShiftOut,
        DMA1_Channel4_IRQHandler
<1> QED
  BY <1>1, <1>2, Typing, PTL DEF Spec

-----------------------------------------------------------------------------
(***************************************************************************)
(* The hand-shake of the transfer: between transfers the flag is down and  *)
(* the channel idle; during one, bytes to go, TC flag and usart1_trans_over *)
(* follow each other; only the user of the channel has requests enabled.   *)
(***************************************************************************)
Engaged == {"enable", "poll", "reset"}

Quiet == over = 0 /\ cndtr = 0 /\ tcif = 0

QuietBetween == (\A t \in Tasks : pc[t] \notin Engaged) => Quiet

Handshake ==
  \A t \in Tasks :
    /\ pc[t] = "enable" => over = 0 /\ tcif = 0 /\ cndtr = str_len[t]
    /\ pc[t] = "poll" => IF cndtr > 0 THEN over = 0 /\ tcif = 0
                                      ELSE over = 1 - tcif
    /\ pc[t] = "reset" => over = 1 /\ cndtr = 0 /\ tcif = 0

RequestsOwned ==
  dmat = 1 => \E t \in Tasks : pc[t] \in {"poll", "reset", "drain", "clear"}

\* What the channel reads is the message of the task that programmed it.
BufferOwned ==
  \A t \in Tasks : pc[t] \in {"disable", "program"} \cup Engaged =>
    buffer = [by |-> t, len |-> str_len[t]]

Bytes == (Tasks \X Lens \X Nat) \cup {Uart!Nul, Uart!Beyond}

LineCounts ==
  /\ line \in Seq(Bytes)
  /\ \A t \in Tasks : pc[t] \in Engaged => Len(line) + cndtr = str_len[t]

UartInv == QuietBetween /\ Handshake /\ RequestsOwned /\ BufferOwned
             /\ LineCounts

\* The DMA hand-shake of USARTx_TransferDMA in one inductive invariant.
LEMMA UartInvariant == Spec => []UartInv
<1>1. Init => UartInv
  BY MainAssumption
  DEF MainAssumption, Init, UartReset, UartInv, QuietBetween, Quiet,
      Handshake, RequestsOwned, BufferOwned, LineCounts, Engaged
<1>2. /\ TypeOK /\ LockInv /\ Uncreated /\ UartInv
      /\ [Next]_vars
      => UartInv'
  <2> SUFFICES ASSUME TypeOK, LockInv, Uncreated, UartInv, [Next]_vars
               PROVE  UartInv'
    OBVIOUS
  <2>0. \A t, u \in Tasks : pc[t] \in Holding /\ pc[u] \in Holding => t = u
    BY LockInvExcludes
  <2> USE DEF Goto, TypeOK, UartInv, QuietBetween, Quiet, Handshake,
              RequestsOwned, BufferOwned, LineCounts, Engaged, Holding, Using,
              mutexVars, uartVars, taskVars, dmaVars
  <2>1. ASSUME NEW t \in Tasks, Lock(t) PROVE UartInv'
    BY <2>0, <2>1 DEF Lock
  <2>2. ASSUME NEW t \in Tasks, CreateMutex(t) PROVE UartInv'
    BY <2>0, <2>2 DEF CreateMutex
  <2>3. ASSUME NEW t \in Tasks, CreateFails(t) PROVE UartInv'
    BY <2>0, <2>3 DEF CreateFails
  <2>4. ASSUME NEW t \in Tasks, Take(t) PROVE UartInv'
    BY <2>0, <2>4 DEF Take
  <2>5. ASSUME NEW t \in Tasks, Memset(t) PROVE UartInv'
    BY <2>0, <2>5 DEF Memset
  <2>6. ASSUME NEW t \in Tasks, Format(t) PROVE UartInv'
    BY <2>0, <2>6 DEF Format
  <2>7. ASSUME NEW t \in Tasks, DisableChannel(t) PROVE UartInv'
    BY <2>0, <2>7 DEF DisableChannel
  <2>8. ASSUME NEW t \in Tasks, ProgramChannel(t) PROVE UartInv'
    BY <2>0, <2>8, LensAssumption DEF ProgramChannel, LensAssumption
  <2>9. ASSUME NEW t \in Tasks, EnableRequests(t) PROVE UartInv'
    BY <2>0, <2>9, LensAssumption DEF EnableRequests, LensAssumption
  <2>10. ASSUME NEW t \in Tasks, PollOver(t) PROVE UartInv'
    BY <2>0, <2>10 DEF PollOver
  <2>11. ASSUME NEW t \in Tasks, ResetOver(t) PROVE UartInv'
    BY <2>0, <2>11 DEF ResetOver
  <2>12. ASSUME NEW t \in Tasks, Drain(t) PROVE UartInv'
    BY <2>0, <2>12 DEF Drain
  <2>13. ASSUME NEW t \in Tasks, ClearRequests(t) PROVE UartInv'
    BY <2>0, <2>13 DEF ClearRequests
  <2>14. ASSUME NEW t \in Tasks, Unlock(t) PROVE UartInv'
    BY <2>0, <2>14 DEF Unlock, AfterUnlock
  <2>15. ASSUME NEW t \in Tasks, Spin(t) PROVE UartInv'
    BY <2>0, <2>15 DEF Spin, vars
  <2>16. ASSUME NEW t \in Tasks, NEW n \in Lens, Call(t, n) PROVE UartInv'
    BY <2>0, <2>16 DEF Call
  <2>17. CASE DmaMove
    <3>1. PICK u \in Tasks : pc[u] = "poll"
      BY <2>0, <2>17 DEF DmaMove
    <3>2. /\ over = 0 /\ tcif = 0
          /\ \A t \in Tasks : pc[t] \in Engaged => t = u
      BY <2>0, <2>17, <3>1 DEF DmaMove
    <3>3. MemoryByte(Len(line) + 1) \in Bytes
      BY <3>1 DEF MemoryByte, Bytes
    <3>4. /\ line' \in Seq(Bytes)
          /\ Len(line') = Len(line) + 1
      BY <2>17, <3>3 DEF DmaMove
    <3> QED
      BY <2>17, <3>1, <3>2, <3>4 DEF DmaMove
  <2>18. CASE ShiftOut
    BY <2>0, <2>18 DEF ShiftOut
  <2>19. CASE DMA1_Channel4_IRQHandler
    BY <2>0, <2>19 DEF DMA1_Channel4_IRQHandler
  <2>20. CASE CreateTask
    <3>1. /\ Order[made + 1] \in Tasks
          /\ pc[Order[made + 1]] = "absent"
      BY <2>20, OrderAssumption DEF CreateTask, OrderAssumption, Uncreated
    <3> QED
      BY <2>0, <2>20, <3>1 DEF CreateTask
  <2>21. CASE CreateTaskFails
    BY <2>0, <2>21 DEF CreateTaskFails
  <2>22. CASE DeleteMain
    BY <2>0, <2>22 DEF DeleteMain
  <2>23. CASE UNCHANGED vars
    BY <2>0, <2>23 DEF vars
  <2> QED
    BY <2>1, <2>2, <2>3, <2>4, <2>5, <2>6, <2>7, <2>8, <2>9, <2>10, <2>11, <2>12, <2>13, <2>14, <2>15, <2>16, <2>17, <2>18, <2>19, <2>20, <2>21, <2>22, <2>23
    DEF Next, TaskStep, Hardware
<1> QED
  BY <1>1, <1>2, Typing, LockInvariant, UncreatedInvariant, PTL DEF Spec
\* usart1_trans_over is up only for a transfer whose last byte has left the
\* buffer and whose task is still to see it.
THEOREM NoStaleCompletionHolds == Spec => []NoStaleCompletion
<1>1. UartInv /\ TypeOK => NoStaleCompletion
  BY DEF UartInv, QuietBetween, Quiet, Handshake, Engaged, NoStaleCompletion,
         TypeOK
<1> QED
  BY <1>1, UartInvariant, Typing, PTL

\* No task writes usart_message while the DMA channel reads it.
THEOREM BufferStable == Spec => BufferStableUnderDma
<1>1. /\ TypeOK /\ LockInv /\ UartInv /\ [Next]_vars
      => [buffer' # buffer => ~(en = 1 /\ dmat = 1 /\ cndtr > 0)]_vars
  <2> SUFFICES ASSUME TypeOK, LockInv, UartInv, Next,
                      en = 1, dmat = 1, cndtr > 0
               PROVE  buffer' = buffer
    OBVIOUS
  <2>1. PICK u \in Tasks : pc[u] = "poll"
    <3>1. PICK u \in Tasks : pc[u] \in {"poll", "reset", "drain", "clear"}
      BY DEF UartInv, RequestsOwned
    <3>2. \A t \in Tasks : pc[t] \in Engaged => t = u
      BY <3>1, LockInvExcludes DEF Engaged, Holding, Using
    <3> QED
      BY <3>1, <3>2 DEF UartInv, QuietBetween, Quiet, Handshake, Engaged
  <2>2. \A t \in Tasks : ~Memset(t) /\ ~Format(t)
    BY <2>1, LockInvExcludes DEF Memset, Format, Goto, Holding, Using
  <2> QED
    BY <2>2 DEF Next, TaskStep, Lock, CreateMutex, CreateFails, Take,
       DisableChannel, ProgramChannel, EnableRequests, PollOver, ResetOver,
       Drain, ClearRequests, Unlock, Spin, vars, Call, Hardware, DmaMove,
       ShiftOut, DMA1_Channel4_IRQHandler, CreateTask, CreateTaskFails,
       DeleteMain
<1> QED
  BY <1>1, Typing, LockInvariant, UartInvariant, PTL
  DEF Spec, BufferStableUnderDma

-----------------------------------------------------------------------------
\* The one task whose message is on the line is the abstract owner.
LEMMA OwnerIsSender ==
  ASSUME LockInv, NEW t \in Tasks, pc[t] \in Engaged
  PROVE  LogOwner = t
<1>1. Senders = {t}
  BY LockInvExcludes DEF Senders, Engaged, Holding, Using
<1> QED
  BY <1>1 DEF LogOwner

\* Between two transfers the line belongs to no task.
LEMMA NoSenderNoOwner ==
  ASSUME \A t \in Tasks : pc[t] \notin Engaged
  PROVE  LogOwner = None
BY DEF Senders, LogOwner, Engaged

(***************************************************************************)
(* Debug_Message implements the log that UartLog specifies: whole messages *)
(* in order, never mixed.                                                  *)
(***************************************************************************)
THEOREM Refinement == Spec => LogImplemented
<1>1. Init => Uart!Init
  <2> SUFFICES ASSUME Init PROVE Uart!Init
    OBVIOUS
  <2>1. LogOwner = None
    BY NoSenderNoOwner DEF Init, Engaged
  <2> QED
    BY <2>1 DEF Init, UartReset, Uart!Init
<1>2. /\ TypeOK /\ TypeOK' /\ LockInv /\ LockInv' /\ Uncreated
      /\ UartInv /\ UartInv' /\ [Next]_vars
      => [Uart!Next]_(Uart!vars)
  <2> SUFFICES ASSUME TypeOK, TypeOK', LockInv, LockInv', Uncreated,
                      UartInv, UartInv', [Next]_vars
               PROVE  [Uart!Next]_(Uart!vars)
    OBVIOUS
  <2> USE DEF TypeOK
  \* A step that leaves the line, the set of senders and their lengths alone
  \* is a stutter of the log.
  <2>1. ASSUME UNCHANGED line,
               \A t \in Tasks : pc[t] \in Engaged <=> pc'[t] \in Engaged,
               \A t \in Tasks : pc[t] \in Engaged => str_len'[t] = str_len[t]
        PROVE  UNCHANGED Uart!vars
    <3>1. CASE \A t \in Tasks : pc[t] \notin Engaged
      <4>1. LogOwner = None
        BY <3>1, NoSenderNoOwner
      <4>2. LogOwner' = None
        BY <2>1, <3>1 DEF Senders, LogOwner, Engaged
      <4> QED
        BY <2>1, <4>1, <4>2 DEF Uart!vars
    <3>2. CASE \E t \in Tasks : pc[t] \in Engaged
      <4>1. PICK t \in Tasks : pc[t] \in Engaged
        BY <3>2
      <4>2. LogOwner = t
        BY <4>1, OwnerIsSender
      <4>3. Senders' = Senders
        BY <2>1 DEF Senders, Engaged
      <4>4. LogOwner' = t
        BY <4>2, <4>3 DEF LogOwner
      <4> QED
        BY <2>1, <4>1, <4>2, <4>4 DEF Uart!vars
    <3> QED
      BY <3>1, <3>2
  <2>2. ASSUME NEW t \in Tasks, ProgramChannel(t)
        PROVE  Uart!Begin(t, str_len[t])
    <3>1. \A u \in Tasks : pc[u] \notin Engaged
      BY <2>2, LockInvExcludes
      DEF ProgramChannel, Goto, Engaged, Holding, Using
    <3>2. LogOwner = None
      BY <3>1, NoSenderNoOwner
    <3>3. Senders' = {t}
      BY <2>2, <3>1 DEF ProgramChannel, Goto, Senders, Engaged
    <3>4. LogOwner' = t
      BY <3>3 DEF LogOwner
    <3> QED
      BY <2>2, <3>2, <3>4, MainAssumption
      DEF ProgramChannel, MainAssumption, Uart!Begin
  <2>3. ASSUME NEW t \in Tasks, ResetOver(t)
        PROVE  Uart!End
    <3>1. LogOwner = t
      BY <2>3, OwnerIsSender DEF ResetOver, Goto, Engaged
    <3>2. \A u \in Tasks : pc'[u] \notin Engaged
      BY <2>3, LockInvExcludes DEF ResetOver, Goto, Engaged, Holding, Using
    <3>3. LogOwner' = None
      BY <3>2 DEF Senders, LogOwner, Engaged
    <3>4. Len(line) = str_len[t]
      BY <2>3 DEF ResetOver, Goto, UartInv, Handshake, LineCounts, Engaged
    <3> QED
      BY <2>3, <3>1, <3>3, <3>4, MainAssumption
      DEF ResetOver, MainAssumption, Uart!End
  <2>4. ASSUME DmaMove
        PROVE  Uart!Emit
    <3>1. PICK u \in Tasks : pc[u] \in {"poll", "reset", "drain", "clear"}
      BY <2>4 DEF DmaMove, UartInv, RequestsOwned
    <3>2. \A t \in Tasks : pc[t] \in Engaged => t = u
      BY <3>1, LockInvExcludes DEF Engaged, Holding, Using
    <3>3. pc[u] = "poll"
      BY <2>4, <3>1, <3>2
      DEF DmaMove, UartInv, QuietBetween, Quiet, Handshake, Engaged
    <3>4. LogOwner = u
      BY <3>3, OwnerIsSender DEF Engaged
    <3>5. LogOwner' = u
      <4>1. Senders' = Senders
        BY <2>4 DEF DmaMove, taskVars, Senders
      <4> QED
        BY <3>4, <4>1 DEF LogOwner
    <3>6. /\ buffer = [by |-> u, len |-> str_len[u]]
          /\ Len(line) + cndtr = str_len[u]
          /\ Len(line) \in Nat
      BY <3>3 DEF UartInv, BufferOwned, LineCounts, Engaged
    <3>7. MemoryByte(Len(line) + 1) = Uart!Byte(u, str_len[u], Len(line) + 1)
      BY <3>6, MainAssumption DEF MainAssumption, MemoryByte, Uart!Byte
    <3>8. Len(line) < str_len[u]
      BY <2>4, <3>6, LensAssumption DEF DmaMove, LensAssumption
    <3> QED
      BY <2>4, <3>4, <3>5, <3>7, <3>8, MainAssumption
      DEF DmaMove, taskVars, MainAssumption, Uart!Emit
  <2>5. ASSUME NEW t \in Tasks, TaskStep(t), ~ProgramChannel(t), ~ResetOver(t)
        PROVE  UNCHANGED Uart!vars
    BY <2>1, <2>5 DEF TaskStep, Goto, Lock, CreateMutex, CreateFails, Take,
       Memset, Format, DisableChannel, EnableRequests, PollOver, Drain,
       ClearRequests, Unlock, AfterUnlock, Engaged, uartVars
  <2>6. ASSUME NEW t \in Tasks, NEW n \in Lens, Call(t, n)
        PROVE  UNCHANGED Uart!vars
    BY <2>1, <2>6 DEF Call, Goto, Engaged, uartVars
  <2>7. ASSUME UNCHANGED taskVars, UNCHANGED line
        PROVE  UNCHANGED Uart!vars
    BY <2>1, <2>7 DEF taskVars
  <2>8. CASE CreateTask
    <3>1. /\ Order[made + 1] \in Tasks
          /\ pc[Order[made + 1]] = "absent"
      BY <2>8, OrderAssumption DEF CreateTask, OrderAssumption, Uncreated
    <3> QED
      BY <2>1, <2>8, <3>1 DEF CreateTask, Engaged, uartVars
  <2>9. CASE CreateTaskFails \/ DeleteMain
    BY <2>1, <2>9, MainAssumption
    DEF CreateTaskFails, DeleteMain, Goto, Engaged, uartVars, MainAssumption
  <2>10. ASSUME NEW t \in Tasks, TaskStep(t)
         PROVE  [Uart!Next]_(Uart!vars)
    BY <2>2, <2>3, <2>5, <2>10 DEF Uart!Next
  <2>11. CASE Hardware
    BY <2>4, <2>7, <2>11
    DEF Hardware, ShiftOut, DMA1_Channel4_IRQHandler, Uart!Next
  <2> QED
    BY <2>6, <2>7, <2>8, <2>9, <2>10, <2>11
    DEF Next, Spin, vars, uartVars
<1> QED
  BY <1>1, <1>2, Typing, LockInvariant, UncreatedInvariant, UartInvariant, PTL
  DEF Spec, LogImplemented, Uart!Spec
=============================================================================
