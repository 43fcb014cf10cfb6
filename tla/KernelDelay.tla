----------------------------- MODULE KernelDelay -----------------------------
(***************************************************************************)
(* The time of FreeRTOS V10.1.0 (tasks.c): the tick count, which wraps,    *)
(* the two lists of delayed tasks, the ticks that are pended while the     *)
(* scheduler is suspended, and the calls that sleep and wake: vTaskDelay,  *)
(* xTaskNotifyWait and xTaskNotify.                                        *)
(*                                                                         *)
(* Which of the ready tasks runs is left open (KernelMutex has the         *)
(* priorities).  A list is the set of its tasks: its order is that of      *)
(* xItemValue.  xPendingReadyList stays empty, because no interrupt of the *)
(* board's calls the kernel but the tick.                                  *)
(***************************************************************************)
EXTENDS Integers

CONSTANTS
  Tasks,
  None,
  portMAX_DELAY,   \* the greatest TickType_t
  MaxPended        \* bound: ticks in one suspension of the scheduler

ASSUME DelayAssumption ==
  /\ portMAX_DELAY \in Nat \ {0}
  /\ MaxPended \in Nat
  /\ None \notin Tasks

Ticks == 0..portMAX_DELAY

VARIABLES
  xTickCount, xNextTaskUnblockTime,
  pxDelayedTaskList, pxOverflowDelayedTaskList, xSuspendedTaskList,
  xItemValue,       \* of a delayed task's xStateListItem: when it is to wake
  uxPendedTicks,
  uxPendedCounts,   \* of these, the ones xTaskResumeAll has still to count
  suspender,        \* who has the scheduler suspended
  ucNotifyState, ulNotifiedValue,
  pc,               \* "run", "delay", "resume" or "waited"
  now               \* history: the tick interrupts, modulo 2^32

lists == <<pxDelayedTaskList, pxOverflowDelayedTaskList, xSuspendedTaskList>>
time  == <<xTickCount, xNextTaskUnblockTime, lists, xItemValue>>
pended == <<uxPendedTicks, uxPendedCounts>>
notes == <<ucNotifyState, ulNotifiedValue>>
vars  == <<time, pended, suspender, notes, pc, now>>

Delayed == pxDelayedTaskList \cup pxOverflowDelayedTaskList
Asleep  == Delayed \cup xSuspendedTaskList

\* A TickType_t sum.
Wrap(n) == IF n > portMAX_DELAY THEN n - (portMAX_DELAY + 1) ELSE n

Init ==
  /\ xTickCount = 0 /\ xNextTaskUnblockTime = portMAX_DELAY
  /\ pxDelayedTaskList = {} /\ pxOverflowDelayedTaskList = {}
  /\ xSuspendedTaskList = {}
  /\ xItemValue = [t \in Tasks |-> 0]
  /\ uxPendedTicks = 0 /\ uxPendedCounts = 0
  /\ suspender = None
  /\ ucNotifyState = [t \in Tasks |-> "none"]
  /\ ulNotifiedValue = [t \in Tasks |-> 0]
  /\ pc = [t \in Tasks |-> "run"]
  /\ now = 0

\* A task may run: with the scheduler suspended it is the one that did it, also
\* once it is on a delayed list.  Interrupts are off while ticks are caught up.
Runs(t) ==
  /\ uxPendedCounts = 0
  /\ IF suspender = None THEN t \notin Asleep ELSE t = suspender

Goto(t, from, to) == pc[t] = from /\ pc' = [pc EXCEPT ![t] = to]

-----------------------------------------------------------------------------
(* Ticks *)

\* prvResetNextTaskUnblockTime: the wake time at the head of the list.
Head(list) ==
  {m \in Ticks : IF list = {} THEN m = portMAX_DELAY
                 ELSE /\ \E t \in list : xItemValue[t] = m
                      /\ \A t \in list : m <= xItemValue[t]}

\* Mutant of Counted: the task whose time it is stays for another round.
CountedAfter ==
  LET tick  == Wrap(xTickCount + 1)
      list  == IF tick = 0 THEN pxOverflowDelayedTaskList ELSE pxDelayedTaskList
      due   == {t \in list : xItemValue[t] < tick}
  IN /\ xTickCount' = tick
     /\ pxOverflowDelayedTaskList' =
          IF tick = 0 THEN pxDelayedTaskList ELSE pxOverflowDelayedTaskList
     /\ pxDelayedTaskList' = list \ due
     /\ xNextTaskUnblockTime' \in Head(list \ due)
     /\ UNCHANGED <<xSuspendedTaskList, xItemValue>>

\* Mutant of Counted: the lists are not switched.
CountedInPlace ==
  LET tick  == Wrap(xTickCount + 1)
      due   == {t \in pxDelayedTaskList : xItemValue[t] <= tick}
      looks == tick >= xNextTaskUnblockTime
  IN /\ xTickCount' = tick
     /\ IF looks
        THEN /\ pxDelayedTaskList' = pxDelayedTaskList \ due
             /\ xNextTaskUnblockTime' \in Head(pxDelayedTaskList \ due)
        ELSE UNCHANGED <<pxDelayedTaskList, xNextTaskUnblockTime>>
     /\ UNCHANGED <<pxOverflowDelayedTaskList, xSuspendedTaskList, xItemValue>>

\* xTaskIncrementTick with the scheduler running.  When the count wraps the lists
\* are switched and xNextTaskUnblockTime is that of the new one; the tasks at
\* the head of the list whose time has come are made ready.
Counted ==
  LET tick  == Wrap(xTickCount + 1)
      list  == IF tick = 0 THEN pxOverflowDelayedTaskList ELSE pxDelayedTaskList
      due   == {t \in list : xItemValue[t] <= tick}
      looks == tick = 0 \/ tick >= xNextTaskUnblockTime
  IN /\ xTickCount' = tick
     /\ pxOverflowDelayedTaskList' =
          IF tick = 0 THEN pxDelayedTaskList ELSE pxOverflowDelayedTaskList
     /\ IF looks
        THEN /\ pxDelayedTaskList' = list \ due
             /\ xNextTaskUnblockTime' \in Head(list \ due)
        ELSE UNCHANGED <<pxDelayedTaskList, xNextTaskUnblockTime>>
     /\ UNCHANGED <<xSuspendedTaskList, xItemValue>>

\* The SysTick interrupt.
Tick ==
  /\ uxPendedCounts = 0
  /\ suspender = None
  /\ Counted
  /\ now' = Wrap(now + 1)
  /\ UNCHANGED <<pended, suspender, notes, pc>>

TickPended ==
  /\ uxPendedCounts = 0
  /\ suspender # None /\ uxPendedTicks < MaxPended
  /\ uxPendedTicks' = uxPendedTicks + 1
  /\ now' = Wrap(now + 1)
  /\ UNCHANGED <<time, uxPendedCounts, suspender, notes, pc>>

-----------------------------------------------------------------------------
(* The scheduler suspended: by vTaskDelay, and by the heap around its work *)

CallDelay(t) ==
  /\ Runs(t) /\ suspender = None
  /\ Goto(t, "run", "delay")
  /\ suspender' = t
  /\ UNCHANGED <<time, pended, notes, now>>

Hold(t) ==
  /\ Runs(t) /\ suspender = None
  /\ Goto(t, "run", "resume")
  /\ suspender' = t
  /\ UNCHANGED <<time, pended, notes, now>>

\* Mutant of AddToDelayed: the time of the next look is left as it is.
AddUnannounced(t, d) ==
  LET wake == Wrap(xTickCount + d)
  IN /\ xItemValue' = [xItemValue EXCEPT ![t] = wake]
     /\ IF wake < xTickCount
        THEN /\ pxOverflowDelayedTaskList' = pxOverflowDelayedTaskList \cup {t}
             /\ UNCHANGED pxDelayedTaskList
        ELSE /\ pxDelayedTaskList' = pxDelayedTaskList \cup {t}
             /\ UNCHANGED pxOverflowDelayedTaskList
     /\ UNCHANGED <<xTickCount, xNextTaskUnblockTime, xSuspendedTaskList>>

\* prvAddCurrentTaskToDelayedList.
AddToDelayed(t, d) ==
  LET wake == Wrap(xTickCount + d)
  IN /\ xItemValue' = [xItemValue EXCEPT ![t] = wake]
     /\ IF wake < xTickCount
        THEN /\ pxOverflowDelayedTaskList' = pxOverflowDelayedTaskList \cup {t}
             /\ UNCHANGED <<pxDelayedTaskList, xNextTaskUnblockTime>>
        ELSE /\ pxDelayedTaskList' = pxDelayedTaskList \cup {t}
             /\ xNextTaskUnblockTime' =
                  IF wake < xNextTaskUnblockTime THEN wake ELSE xNextTaskUnblockTime
             /\ UNCHANGED pxOverflowDelayedTaskList
     /\ UNCHANGED <<xTickCount, xSuspendedTaskList>>

AddIndefinitely(t) ==
  /\ xSuspendedTaskList' = xSuspendedTaskList \cup {t}
  /\ UNCHANGED <<xTickCount, xNextTaskUnblockTime, pxDelayedTaskList,
                 pxOverflowDelayedTaskList, xItemValue>>

DelaySleeps(t, d) ==
  /\ Runs(t)
  /\ Goto(t, "delay", "resume")
  /\ AddToDelayed(t, d)
  /\ UNCHANGED <<pended, suspender, notes, now>>

xTaskResumeAll(t) ==
  /\ Runs(t)
  /\ Goto(t, "resume", "run")
  /\ suspender' = None
  /\ uxPendedCounts' = uxPendedTicks
  /\ UNCHANGED <<time, uxPendedTicks, notes, now>>

\* Mutant of Unwind: a suspension is taken for one tick.
UnwindOne ==
  /\ uxPendedCounts > 0
  /\ Counted
  /\ uxPendedCounts' = 0 /\ uxPendedTicks' = 0
  /\ UNCHANGED <<suspender, notes, pc, now>>

\* One turn of the loop of xTaskResumeAll, in its critical section.
Unwind ==
  /\ uxPendedCounts > 0
  /\ Counted
  /\ uxPendedCounts' = uxPendedCounts - 1
  /\ uxPendedTicks' = IF uxPendedCounts = 1 THEN 0 ELSE uxPendedTicks
  /\ UNCHANGED <<suspender, notes, pc, now>>

-----------------------------------------------------------------------------
(* Notifications: xTaskNotifyWait(0, 0xffffffff, &events, d), xTaskNotify with eSetBits *)

\* The first critical section; d is 0 for no wait.
NotifyWait(t, d) ==
  /\ Runs(t) /\ suspender = None
  /\ Goto(t, "run", "waited")
  /\ IF ucNotifyState[t] = "received"
     THEN UNCHANGED <<time, ucNotifyState>>
     ELSE /\ ucNotifyState' = [ucNotifyState EXCEPT ![t] = "waiting"]
          /\ \/ d = 0 /\ UNCHANGED time
             \/ d = portMAX_DELAY /\ AddIndefinitely(t)
             \/ d \notin {0, portMAX_DELAY} /\ AddToDelayed(t, d)
  /\ UNCHANGED <<pended, suspender, ulNotifiedValue, now>>

\* The second one, when the task runs again.
NotifyReturn(t) ==
  /\ Runs(t) /\ suspender = None
  /\ Goto(t, "waited", "run")
  /\ ulNotifiedValue' = IF ucNotifyState[t] = "received"
                        THEN [ulNotifiedValue EXCEPT ![t] = 0] ELSE ulNotifiedValue
  /\ ucNotifyState' = [ucNotifyState EXCEPT ![t] = "none"]
  /\ UNCHANGED <<time, pended, suspender, now>>

\* Mutant of MakesReady: only a wait without a limit is ended.
EndsIndefinite(u) ==
  /\ IF ucNotifyState[u] = "waiting"
     THEN xSuspendedTaskList' = xSuspendedTaskList \ {u}
     ELSE UNCHANGED xSuspendedTaskList
  /\ UNCHANGED <<pxDelayedTaskList, pxOverflowDelayedTaskList>>

\* uxListRemove and prvAddTaskToReadyList: also of a task whose time is over and
\* that has not run since, which is in a ready list then.
MakesReady(u) ==
  IF ucNotifyState[u] = "waiting"
  THEN /\ pxDelayedTaskList' = pxDelayedTaskList \ {u}
       /\ pxOverflowDelayedTaskList' = pxOverflowDelayedTaskList \ {u}
       /\ xSuspendedTaskList' = xSuspendedTaskList \ {u}
  ELSE UNCHANGED lists

xTaskGenericNotify(t, u) ==
  /\ Runs(t) /\ pc[t] = "run"
  /\ ucNotifyState' = [ucNotifyState EXCEPT ![u] = "received"]
  /\ ulNotifiedValue' = [ulNotifiedValue EXCEPT ![u] = 1]
  /\ MakesReady(u)
  /\ UNCHANGED <<xTickCount, xNextTaskUnblockTime, xItemValue, pended,
                 suspender, pc, now>>

-----------------------------------------------------------------------------
Step(t) ==
  \/ CallDelay(t) \/ Hold(t)
  \/ \E d \in Ticks \ {0} : DelaySleeps(t, d)
  \/ xTaskResumeAll(t)
  \/ \E d \in Ticks : NotifyWait(t, d)
  \/ NotifyReturn(t)
  \/ \E u \in Tasks : xTaskGenericNotify(t, u)

Next == Tick \/ TickPended \/ Unwind \/ \E t \in Tasks : Step(t)

Spec == Init /\ [][Next]_vars

\* The timer goes on: its interrupt stays pending while it is masked, so that it
\* comes when it can be taken again and again.  What the heap does with the
\* scheduler suspended ends, and so does the loop of xTaskResumeAll.
Fairness ==
  /\ SF_vars(Tick \/ TickPended) /\ WF_vars(Unwind)
  /\ \A t \in Tasks : /\ WF_vars(xTaskResumeAll(t))
                      /\ WF_vars(\E d \in Ticks \ {0} : DelaySleeps(t, d))

FairSpec == Spec /\ Fairness

-----------------------------------------------------------------------------
(* Properties *)

TypeOK ==
  /\ xTickCount \in Ticks /\ xNextTaskUnblockTime \in Ticks /\ now \in Ticks
  /\ pxDelayedTaskList \subseteq Tasks /\ pxOverflowDelayedTaskList \subseteq Tasks
  /\ xSuspendedTaskList \subseteq Tasks
  /\ xItemValue \in [Tasks -> Ticks]
  /\ uxPendedTicks \in Nat /\ uxPendedCounts \in 0..uxPendedTicks
  /\ suspender \in Tasks \cup {None}
  /\ ucNotifyState \in [Tasks -> {"none", "waiting", "received"}]
  /\ ulNotifiedValue \in [Tasks -> {0, 1}]
  /\ pc \in [Tasks -> {"run", "delay", "resume", "waited"}]

\* tasks.c:218 "The delayed tasks list should be empty when the lists are
\* switched": before the tick that wraps nobody is left on it, else that task
\* would sleep for another 2^32 ticks.
NobodyLeftBehind == xTickCount = portMAX_DELAY => pxDelayedTaskList = {}

\* The ticks counted and the ones pended are the interrupts there were: the
\* count does not slip while the scheduler is suspended or catches up.
ToCount == IF uxPendedCounts > 0 THEN uxPendedCounts ELSE uxPendedTicks
TickCountDoesNotSlip == (now - xTickCount - ToCount) % (portMAX_DELAY + 1) = 0

\* A task is not left asleep in xTaskNotifyWait with news for it, also when the
\* notification comes at the tick its time-out does, or before it runs again.
AwakeWithNews ==
  \A t \in Tasks : ulNotifiedValue[t] # 0 /\ pc[t] = "waited" => t \notin Asleep

\* vTaskDelay and a time-out last exactly as many counted ticks as were asked
\* for, across the wrap of the count, however they are spread over suspensions
\* of the scheduler, and a notification ends a wait and no delay: DelayPromise,
\* with the ticks a task has left computed from its wake time.
Left(t) ==
  IF t \in pxDelayedTaskList THEN xItemValue[t] - xTickCount
  ELSE IF t \in pxOverflowDelayedTaskList
       THEN xItemValue[t] + (portMAX_DELAY + 1) - xTickCount
  ELSE IF t \in xSuspendedTaskList THEN portMAX_DELAY + 1
  ELSE 0

Promise == INSTANCE DelayPromise WITH
  left <- [t \in Tasks |-> Left(t)],
  rousable <- {t \in Asleep : pc[t] = "waited"}
DelaysAreExact == Promise!Spec

\* Whoever sleeps for a time wakes.
DelayEnds == \A t \in Tasks : t \in Delayed ~> t \notin Delayed
=============================================================================
