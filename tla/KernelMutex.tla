----------------------------- MODULE KernelMutex -----------------------------
(***************************************************************************)
(* The FreeRTOS V10.1.0 mutex as the board's tasks use it: queue.c's       *)
(* xQueueSemaphoreTake with portMAX_DELAY and xQueueGenericSend without    *)
(* waiting, the priority inheritance of tasks.c, and the preemptive        *)
(* fixed-priority scheduler with time slicing that decides who runs        *)
(* between the critical sections.                                          *)
(*                                                                         *)
(* One mutex, held by a task only while it works (Debug_Message does not   *)
(* delay while it holds the log), so a holder is never in vTaskDelay.      *)
(***************************************************************************)
EXTENDS Integers, Sequences, SequencesExt

CONSTANTS
  Tasks,
  BasePriority,   \* uxBasePriority: the priority given to xTaskCreate
  None

ASSUME PriorityAssumption == BasePriority \in [Tasks -> Nat]
ASSUME NoneAssumption == None \notin Tasks

VARIABLES
  uxMessagesWaiting,       \* 1: the mutex is free
  xMutexHolder,
  xTasksWaitingToReceive,  \* the blocked tasks, most urgent first
  uxPriority,              \* the priority each task runs at now
  state,                   \* "ready", "blocked" on the mutex or "delayed"
  pc                       \* "out", "try", "suspend", "in"

vars == <<uxMessagesWaiting, xMutexHolder, xTasksWaitingToReceive, uxPriority,
          state, pc>>

Waiting == ToSet(xTasksWaitingToReceive)

\* vTaskSwitchContext: a task of the highest priority that has a ready task;
\* which one of several is the time slice's choice.
Runs(t) ==
  /\ state[t] = "ready"
  /\ \A u \in Tasks : state[u] = "ready" => uxPriority[u] <= uxPriority[t]

Init ==
  /\ uxMessagesWaiting = 1
  /\ xMutexHolder = None
  /\ xTasksWaitingToReceive = <<>>
  /\ uxPriority = BasePriority
  /\ state = [t \in Tasks |-> "ready"]
  /\ pc = [t \in Tasks |-> "out"]

Goto(t, from, to) == pc[t] = from /\ pc' = [pc EXCEPT ![t] = to]

-----------------------------------------------------------------------------
(* The caller *)

\* The task comes to a call of xSemaphoreTake.
CallTake(t) ==
  /\ Runs(t)
  /\ Goto(t, "out", "try")
  /\ UNCHANGED <<uxMessagesWaiting, xMutexHolder, xTasksWaitingToReceive,
                 uxPriority, state>>

vTaskDelay(t) ==
  /\ Runs(t)
  /\ pc[t] = "out"
  /\ state' = [state EXCEPT ![t] = "delayed"]
  /\ UNCHANGED <<uxMessagesWaiting, xMutexHolder, xTasksWaitingToReceive,
                 uxPriority, pc>>

\* xTaskIncrementTick: the delay is over.
Wake(t) ==
  /\ state[t] = "delayed"
  /\ state' = [state EXCEPT ![t] = "ready"]
  /\ UNCHANGED <<uxMessagesWaiting, xMutexHolder, xTasksWaitingToReceive,
                 uxPriority, pc>>

-----------------------------------------------------------------------------
(* xQueueSemaphoreTake(mutex, portMAX_DELAY) *)

\* Mutant of TryTake: the count is not looked at.
TakeAnyway(t) ==
  /\ Runs(t)
  /\ Goto(t, "try", "in")
  /\ uxMessagesWaiting' = 0
  /\ xMutexHolder' = t
  /\ UNCHANGED <<xTasksWaitingToReceive, uxPriority, state>>

\* The first critical section: take it if the count allows.
TryTake(t) ==
  /\ Runs(t)
  /\ uxMessagesWaiting > 0
  /\ Goto(t, "try", "in")
  /\ uxMessagesWaiting' = uxMessagesWaiting - 1
  /\ xMutexHolder' = t
  /\ UNCHANGED <<xTasksWaitingToReceive, uxPriority, state>>

TryFails(t) ==
  /\ Runs(t)
  /\ uxMessagesWaiting = 0
  /\ Goto(t, "try", "suspend")
  /\ UNCHANGED <<uxMessagesWaiting, xMutexHolder, xTasksWaitingToReceive,
                 uxPriority, state>>

\* Mutant of xTaskPriorityInherit: nobody inherits.
NoInheritance(t) == uxPriority

xTaskPriorityInherit(t) ==
  IF xMutexHolder # None /\ uxPriority[xMutexHolder] < uxPriority[t]
  THEN [uxPriority EXCEPT ![xMutexHolder] = uxPriority[t]]
  ELSE uxPriority

\* Mutant of vTaskPlaceOnEventList: first come, first served.
PlaceLast(t) ==
  xTasksWaitingToReceive' = Append(xTasksWaitingToReceive, t)

\* vListInsert: behind the tasks that are no less urgent, before the others.
vTaskPlaceOnEventList(t) ==
  \E k \in 1..(Len(xTasksWaitingToReceive) + 1) :
    /\ \A i \in 1..(k - 1) :
         uxPriority[xTasksWaitingToReceive[i]] >= uxPriority[t]
    /\ \A i \in k..Len(xTasksWaitingToReceive) :
         uxPriority[xTasksWaitingToReceive[i]] < uxPriority[t]
    /\ xTasksWaitingToReceive' = InsertAt(xTasksWaitingToReceive, k, t)

\* Mutant of Block: prvIsQueueEmpty is not asked again.
BlockUnchecked(t) ==
  /\ Runs(t)
  /\ Goto(t, "suspend", "try")
  /\ uxPriority' = xTaskPriorityInherit(t)
  /\ vTaskPlaceOnEventList(t)
  /\ state' = [state EXCEPT ![t] = "blocked"]
  /\ UNCHANGED <<uxMessagesWaiting, xMutexHolder>>

\* The part with the scheduler suspended: the mutex may have been given
\* since, so it looks again before it blocks.  Woken, it tries again.
Block(t) ==
  /\ Runs(t)
  /\ uxMessagesWaiting = 0
  /\ Goto(t, "suspend", "try")
  /\ uxPriority' = xTaskPriorityInherit(t)
  /\ vTaskPlaceOnEventList(t)
  /\ state' = [state EXCEPT ![t] = "blocked"]
  /\ UNCHANGED <<uxMessagesWaiting, xMutexHolder>>

TryAgain(t) ==
  /\ Runs(t)
  /\ uxMessagesWaiting > 0
  /\ Goto(t, "suspend", "try")
  /\ UNCHANGED <<uxMessagesWaiting, xMutexHolder, xTasksWaitingToReceive,
                 uxPriority, state>>

-----------------------------------------------------------------------------
(* xQueueGenericSend(mutex, NULL, 0, queueSEND_TO_BACK) *)

\* Mutant of xTaskPriorityDisinherit: the inherited priority stays.
KeepPriority(h) == uxPriority

\* The holder holds no other mutex: it falls back to its own priority.
xTaskPriorityDisinherit(h) ==
  IF h = None THEN uxPriority
  ELSE [uxPriority EXCEPT ![h] = BasePriority[h]]

\* Mutant of Give: nobody is woken.
GiveWithoutWaking(t) ==
  /\ Runs(t)
  /\ Goto(t, "in", "out")
  /\ uxMessagesWaiting' = uxMessagesWaiting + 1
  /\ uxPriority' = xTaskPriorityDisinherit(xMutexHolder)
  /\ xMutexHolder' = None
  /\ UNCHANGED <<xTasksWaitingToReceive, state>>

Give(t) ==
  /\ Runs(t)
  /\ uxMessagesWaiting < 1
  /\ Goto(t, "in", "out")
  /\ uxMessagesWaiting' = uxMessagesWaiting + 1
  /\ uxPriority' = xTaskPriorityDisinherit(xMutexHolder)
  /\ xMutexHolder' = None
  /\ IF xTasksWaitingToReceive = <<>>
       THEN UNCHANGED <<xTasksWaitingToReceive, state>>
       ELSE /\ xTasksWaitingToReceive' = Tail(xTasksWaitingToReceive)
            /\ state' = [state EXCEPT ![Head(xTasksWaitingToReceive)] = "ready"]

TaskStep(t) ==
  \/ TryTake(t) \/ TryFails(t) \/ Block(t) \/ TryAgain(t) \/ Give(t)

Next == \E t \in Tasks : CallTake(t) \/ vTaskDelay(t) \/ Wake(t) \/ TaskStep(t)

Spec == Init /\ [][Next]_vars

\* The processor executes the running task.  A task that stays runnable is
\* therefore executed; one that more urgent tasks keep out is not.
FairSpec == Spec /\ \A t \in Tasks : WF_vars(TaskStep(t))

-----------------------------------------------------------------------------
(* Properties *)

TypeOK ==
  /\ uxMessagesWaiting \in {0, 1}
  /\ xMutexHolder \in Tasks \cup {None}
  /\ xTasksWaitingToReceive \in Seq(Tasks)
  /\ IsInjective(xTasksWaitingToReceive)
  /\ uxPriority \in [Tasks -> Nat]
  /\ state \in [Tasks -> {"ready", "blocked", "delayed"}]
  /\ pc \in [Tasks -> {"out", "try", "suspend", "in"}]

\* queue.c implements the mutex the code above it counts on.
Promise == INSTANCE MutexPromise WITH
  owner <- IF uxMessagesWaiting = 1 THEN None ELSE xMutexHolder

MutexImplemented == Promise!Spec

\* Between finding the mutex taken and blocking on it the holder may have
\* given it: whenever the mutex is free and tasks wait for it, one that was
\* woken or has not blocked is on its way to take it.
NoLostWakeup ==
  uxMessagesWaiting = 1 /\ Waiting # {} =>
    \E t \in Tasks : state[t] = "ready" /\ pc[t] \in {"try", "suspend"}

\* No task runs that is less urgent than a task that waits for the mutex:
\* the holder has the waiter's priority, and when the mutex is free the
\* most urgent waiter has already been made ready.
NoPriorityInversion ==
  \A w \in Waiting, t \in Tasks : Runs(t) => uxPriority[t] >= uxPriority[w]

\* An inherited priority lasts as long as the mutex is held, no longer.
InheritedOnlyByHolder ==
  \A t \in Tasks : uxPriority[t] # BasePriority[t] =>
    xMutexHolder = t /\ uxPriority[t] > BasePriority[t]

\* The one most urgent task gets the mutex whatever the others do.
MostUrgent == { t \in Tasks : \A u \in Tasks \ {t} :
                                BasePriority[u] < BasePriority[t] }

UrgentServed == \A t \in MostUrgent : pc[t] = "try" ~> pc[t] = "in"
==============================================================================
