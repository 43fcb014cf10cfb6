-------------------------- MODULE KernelDelayProof ---------------------------
(***************************************************************************)
(* The two ways to wait: the kernel's delays for any number of tasks and   *)
(* any width of the tick count, and at the end delay_ms, for a counter of  *)
(* any width (TickTimers).                                                 *)
(*                                                                         *)
(* The invariant says where the wake times are: above the count on the     *)
(* list of the current round, below it on the list of the next one, and    *)
(* xNextTaskUnblockTime is no later than any of the current round.  So     *)
(* item - count, or item + 2^w - count, is what a task has left to sleep,  *)
(* and a tick makes it one less, also the tick that wraps.                 *)
(***************************************************************************)
EXTENDS KernelDelay, TickTimers, TLAPS

Apart ==
  /\ pxDelayedTaskList \cap pxOverflowDelayedTaskList = {}
  /\ Delayed \cap xSuspendedTaskList = {}

InOrder ==
  /\ \A t \in pxDelayedTaskList :
       /\ xTickCount < xItemValue[t]
       /\ xNextTaskUnblockTime <= xItemValue[t]
  /\ \A t \in pxOverflowDelayedTaskList : xItemValue[t] < xTickCount

Noted ==
  \A t \in Tasks :
    /\ pc[t] = "delay" => t \notin Asleep
    /\ ucNotifyState[t] = "waiting" => pc[t] = "waited"
    /\ pc[t] = "waited" => ucNotifyState[t] # "none"
    /\ pc[t] = "waited" /\ ucNotifyState[t] = "received" => t \notin Asleep
    /\ ulNotifiedValue[t] # 0 => ucNotifyState[t] = "received"

IInv == TypeOK /\ Apart /\ InOrder /\ Noted

LEMMA InitInv == Init => IInv
BY DelayAssumption DEF Init, IInv, TypeOK, Apart, InOrder, Noted, Delayed, Asleep, Ticks

\* The ticks a task has left are at least one while it sleeps.
LEMMA LeftRange ==
  ASSUME IInv, NEW t \in Tasks
  PROVE  /\ t \in Delayed => Left(t) \in 1..portMAX_DELAY
         /\ t \in xSuspendedTaskList => Left(t) = portMAX_DELAY + 1
         /\ t \notin Asleep => Left(t) = 0
BY DelayAssumption DEF IInv, TypeOK, Apart, InOrder, Delayed, Asleep, Ticks, Left

-----------------------------------------------------------------------------
(* Ticks *)

\* Nobody is on the list of the round that ends.
LEMMA EmptyAtWrap == IInv /\ xTickCount = portMAX_DELAY => pxDelayedTaskList = {}
BY DelayAssumption DEF IInv, TypeOK, InOrder, Ticks

\* What one counted tick does to the lists, and to the ticks left.
LEMMA CountedFacts ==
  ASSUME IInv, Counted
  PROVE  /\ xTickCount' \in Ticks /\ xNextTaskUnblockTime' \in Ticks
         /\ pxDelayedTaskList' \subseteq Tasks
         /\ pxOverflowDelayedTaskList' \subseteq Tasks
         /\ Apart' /\ InOrder'
         /\ Asleep' \subseteq Asleep
         /\ \A t \in Tasks : Left(t)' = IF Left(t) \in 1..portMAX_DELAY
                                         THEN Left(t) - 1 ELSE Left(t)
<1> DEFINE tick == Wrap(xTickCount + 1)
           list == IF tick = 0 THEN pxOverflowDelayedTaskList ELSE pxDelayedTaskList
           due  == {t \in list : xItemValue[t] <= tick}
<1>0. xItemValue' = xItemValue /\ xSuspendedTaskList' = xSuspendedTaskList /\ xTickCount' = tick
  BY DEF Counted
<1>1. tick \in Ticks
  BY DelayAssumption DEF IInv, TypeOK, Ticks, Wrap
<1>2. CASE xTickCount = portMAX_DELAY
  <2>1. tick = 0
    BY <1>2, DelayAssumption DEF Wrap
  <2>2. pxDelayedTaskList = {}
    BY <1>2, EmptyAtWrap
  <2>3. /\ pxOverflowDelayedTaskList' = {}
        /\ pxDelayedTaskList' = pxOverflowDelayedTaskList \ due
        /\ xNextTaskUnblockTime' \in Head(pxDelayedTaskList')
    BY <2>1, <2>2 DEF Counted
  <2>4. /\ xNextTaskUnblockTime' \in Ticks
        /\ \A t \in pxDelayedTaskList' : xNextTaskUnblockTime' <= xItemValue[t]
    BY <2>3 DEF Head
  <2>5. \A t \in pxOverflowDelayedTaskList :
          /\ t \in Tasks /\ xItemValue[t] \in Ticks
          /\ t \in pxDelayedTaskList' <=> xItemValue[t] > 0
          /\ t \notin xSuspendedTaskList
    BY <2>1, <2>3, DelayAssumption DEF IInv, TypeOK, Apart, Delayed, Ticks
  <2>6. Apart' /\ InOrder' /\ Asleep' \subseteq Asleep
    BY <1>0, <2>1, <2>3, <2>4, <2>5 DEF Apart, InOrder, Asleep, Delayed
  <2>7. ASSUME NEW t \in Tasks
        PROVE  Left(t)' = IF Left(t) \in 1..portMAX_DELAY THEN Left(t) - 1 ELSE Left(t)
    <3>1. CASE t \in pxOverflowDelayedTaskList
      <4>1. Left(t) = xItemValue[t] + 1 /\ Left(t) \in 1..portMAX_DELAY
        BY <3>1, <2>2, <1>2, LeftRange, DelayAssumption DEF Left, IInv, TypeOK, Ticks, Delayed
      <4>2. Left(t)' = xItemValue[t]
        BY <3>1, <1>0, <2>1, <2>3, <2>5, DelayAssumption DEF Left, Ticks
      <4>3. QED
        BY <4>1, <4>2, <2>5, <3>1 DEF Ticks
    <3>2. CASE t \notin pxOverflowDelayedTaskList
      BY <3>2, <1>0, <2>2, <2>3, DelayAssumption DEF Left
    <3>3. QED
      BY <3>1, <3>2
  <2>8. pxDelayedTaskList' \subseteq Tasks /\ pxOverflowDelayedTaskList' \subseteq Tasks
    BY <2>3, <2>5
  <2>9. QED
    BY <1>0, <1>1, <2>4, <2>6, <2>7, <2>8
<1>3. CASE xTickCount # portMAX_DELAY
  <2>1. tick = xTickCount + 1 /\ tick # 0
    BY <1>3, DelayAssumption DEF IInv, TypeOK, Ticks, Wrap
  <2>2. \A t \in pxDelayedTaskList :
          /\ t \in Tasks /\ xItemValue[t] \in Ticks /\ xTickCount < xItemValue[t]
          /\ xNextTaskUnblockTime <= xItemValue[t]
          /\ t \notin xSuspendedTaskList /\ t \notin pxOverflowDelayedTaskList
    BY DEF IInv, TypeOK, Apart, InOrder, Delayed
  <2>3. \A t \in pxOverflowDelayedTaskList :
          t \in Tasks /\ xItemValue[t] \in Ticks /\ xItemValue[t] < xTickCount
    BY DEF IInv, TypeOK, InOrder
  <2>4. /\ pxOverflowDelayedTaskList' = pxOverflowDelayedTaskList
        /\ pxDelayedTaskList' = {t \in pxDelayedTaskList : xItemValue[t] > tick}
        /\ xNextTaskUnblockTime' \in Ticks
        /\ \A t \in pxDelayedTaskList' : xNextTaskUnblockTime' <= xItemValue[t]
    <3>1. CASE tick >= xNextTaskUnblockTime
      <4>1. /\ pxDelayedTaskList' = pxDelayedTaskList \ due
            /\ xNextTaskUnblockTime' \in Head(pxDelayedTaskList')
            /\ pxOverflowDelayedTaskList' = pxOverflowDelayedTaskList
        BY <2>1, <3>1 DEF Counted
      <4>2. due = {t \in pxDelayedTaskList : xItemValue[t] <= tick}
        BY <2>1
      <4>3. pxDelayedTaskList' = {t \in pxDelayedTaskList : xItemValue[t] > tick}
        BY <4>1, <4>2, <1>1, <2>2 DEF Ticks
      <4>4. QED
        BY <4>1, <4>3 DEF Head
    <3>2. CASE ~(tick >= xNextTaskUnblockTime)
      <4>1. /\ pxDelayedTaskList' = pxDelayedTaskList
            /\ xNextTaskUnblockTime' = xNextTaskUnblockTime
            /\ pxOverflowDelayedTaskList' = pxOverflowDelayedTaskList
        BY <2>1, <3>2 DEF Counted
      <4>2. \A t \in pxDelayedTaskList : xItemValue[t] > tick
        BY <2>2, <3>2, <1>1 DEF IInv, TypeOK, Ticks
      <4>3. QED
        BY <4>1, <4>2, <2>2 DEF IInv, TypeOK
    <3>3. QED
      BY <3>1, <3>2
  <2>5. Apart' /\ InOrder' /\ Asleep' \subseteq Asleep
    <3>1. Apart' /\ Asleep' \subseteq Asleep
      BY <1>0, <2>4 DEF IInv, Apart, Asleep, Delayed
    <3>2. InOrder'
      BY <1>0, <1>1, <2>1, <2>3, <2>4, DelayAssumption DEF InOrder, IInv, TypeOK, Ticks
    <3>3. QED
      BY <3>1, <3>2
  <2>6. ASSUME NEW t \in Tasks
        PROVE  Left(t)' = IF Left(t) \in 1..portMAX_DELAY THEN Left(t) - 1 ELSE Left(t)
    <3>1. CASE t \in pxDelayedTaskList
      <4>1. Left(t) = xItemValue[t] - xTickCount /\ Left(t) \in 1..portMAX_DELAY
        BY <3>1, LeftRange DEF Left, Delayed
      <4>2. CASE xItemValue[t] > tick
        BY <4>1, <4>2, <3>1, <1>0, <2>1, <2>2, <2>4, DelayAssumption DEF Left, IInv, TypeOK, Ticks
      <4>3. CASE ~(xItemValue[t] > tick)
        <5>1. t \notin pxDelayedTaskList' /\ t \notin pxOverflowDelayedTaskList'
              /\ t \notin xSuspendedTaskList'
          BY <4>3, <3>1, <1>0, <2>2, <2>4
        <5>2. Left(t)' = 0
          BY <5>1 DEF Left
        <5>3. xItemValue[t] = xTickCount + 1
          BY <4>3, <3>1, <2>1, <2>2, DelayAssumption DEF IInv, TypeOK, Ticks
        <5>4. QED
          BY <5>2, <5>3, <4>1 DEF IInv, TypeOK, Ticks
      <4>4. QED
        BY <4>2, <4>3
    <3>2. CASE t \in pxOverflowDelayedTaskList
      <4>1. t \notin pxDelayedTaskList /\ t \notin pxDelayedTaskList'
        BY <3>2, <2>2, <2>4
      <4>2. /\ Left(t) = xItemValue[t] + (portMAX_DELAY + 1) - xTickCount
            /\ Left(t) \in 1..portMAX_DELAY
        BY <3>2, <4>1, LeftRange DEF Left, Delayed
      <4>3. Left(t)' = xItemValue[t] + (portMAX_DELAY + 1) - (xTickCount + 1)
        BY <3>2, <4>1, <1>0, <2>1, <2>4 DEF Left
      <4>4. QED
        BY <4>2, <4>3, <2>3, <3>2, DelayAssumption DEF IInv, TypeOK, Ticks
    <3>3. CASE t \notin pxDelayedTaskList /\ t \notin pxOverflowDelayedTaskList
      BY <3>3, <1>0, <2>4, DelayAssumption DEF Left
    <3>4. QED
      BY <3>1, <3>2, <3>3
  <2>7. QED
    BY <1>0, <1>1, <2>2, <2>3, <2>4, <2>5, <2>6
<1>4. QED
  BY <1>2, <1>3

-----------------------------------------------------------------------------
(* Sleeping and waking *)

\* A task that goes to sleep for d ticks has d ticks left, and nobody else's
\* change.
LEMMA AddFacts ==
  ASSUME IInv, NEW t \in Tasks, t \notin Asleep, NEW d \in 1..portMAX_DELAY,
         AddToDelayed(t, d)
  PROVE  /\ xTickCount' \in Ticks /\ xNextTaskUnblockTime' \in Ticks
         /\ pxDelayedTaskList' \subseteq Tasks
         /\ pxOverflowDelayedTaskList' \subseteq Tasks
         /\ xItemValue' \in [Tasks -> Ticks]
         /\ Apart' /\ InOrder'
         /\ Delayed' = Delayed \cup {t}
         /\ xSuspendedTaskList' = xSuspendedTaskList
         /\ \A u \in Tasks : Left(u)' = IF u = t THEN d ELSE Left(u)
<1> DEFINE wake == Wrap(xTickCount + d)
<1>0. /\ xTickCount' = xTickCount /\ xSuspendedTaskList' = xSuspendedTaskList
      /\ xItemValue' = [xItemValue EXCEPT ![t] = wake]
  BY DEF AddToDelayed
<1>1. wake \in Ticks
  BY DelayAssumption DEF IInv, TypeOK, Ticks, Wrap
<1>2. /\ xItemValue' \in [Tasks -> Ticks] /\ xItemValue'[t] = wake
      /\ \A u \in Tasks : u # t => xItemValue'[u] = xItemValue[u]
  BY <1>0, <1>1 DEF IInv, TypeOK
<1>3. t \notin pxDelayedTaskList /\ t \notin pxOverflowDelayedTaskList /\ t \notin xSuspendedTaskList
  BY DEF Asleep, Delayed
<1>4. CASE wake < xTickCount
  <2>1. /\ pxOverflowDelayedTaskList' = pxOverflowDelayedTaskList \cup {t}
        /\ pxDelayedTaskList' = pxDelayedTaskList
        /\ xNextTaskUnblockTime' = xNextTaskUnblockTime
    BY <1>4 DEF AddToDelayed
  <2>2. wake = xTickCount + d - (portMAX_DELAY + 1)
    BY <1>4, DelayAssumption DEF Wrap, IInv, TypeOK, Ticks
  <2>3. Apart' /\ InOrder'
    <3>1. Apart'
      BY <1>0, <1>3, <2>1 DEF Apart, Delayed, IInv
    <3>2. InOrder'
      BY <1>0, <1>2, <1>3, <1>4, <2>1 DEF InOrder, IInv, TypeOK
    <3>3. QED
      BY <3>1, <3>2
  <2>4. Left(t)' = d
    BY <1>0, <1>2, <1>3, <2>1, <2>2, DelayAssumption DEF Left, IInv, TypeOK, Ticks
  <2>5. \A u \in Tasks : u # t => Left(u)' = Left(u)
    BY <1>0, <1>2, <2>1 DEF Left
  <2>6. QED
    BY <1>0, <1>2, <2>1, <2>3, <2>4, <2>5 DEF IInv, TypeOK, Delayed
<1>5. CASE ~(wake < xTickCount)
  <2>1. /\ pxDelayedTaskList' = pxDelayedTaskList \cup {t}
        /\ pxOverflowDelayedTaskList' = pxOverflowDelayedTaskList
        /\ xNextTaskUnblockTime' =
             IF wake < xNextTaskUnblockTime THEN wake ELSE xNextTaskUnblockTime
    BY <1>5 DEF AddToDelayed
  <2>2. wake = xTickCount + d
    BY <1>5, DelayAssumption DEF Wrap, IInv, TypeOK, Ticks
  <2>3. xNextTaskUnblockTime' \in Ticks /\ xNextTaskUnblockTime' <= wake
        /\ xNextTaskUnblockTime' <= xNextTaskUnblockTime
    BY <1>1, <2>1 DEF IInv, TypeOK, Ticks
  <2>4. Apart' /\ InOrder'
    <3>1. Apart'
      BY <1>0, <1>3, <2>1 DEF Apart, Delayed, IInv
    <3>2. \A u \in pxDelayedTaskList' :
            xTickCount' < xItemValue'[u] /\ xNextTaskUnblockTime' <= xItemValue'[u]
      <4>1. ASSUME NEW u \in pxDelayedTaskList', u # t
            PROVE  xTickCount' < xItemValue'[u] /\ xNextTaskUnblockTime' <= xItemValue'[u]
        BY <4>1, <1>0, <1>2, <2>1, <2>3 DEF IInv, TypeOK, InOrder, Ticks
      <4>2. xTickCount' < xItemValue'[t] /\ xNextTaskUnblockTime' <= xItemValue'[t]
        BY <1>0, <1>2, <2>2, <2>3 DEF IInv, TypeOK, Ticks
      <4>3. QED
        BY <4>1, <4>2
    <3>3. InOrder'
      BY <1>0, <1>2, <1>3, <2>1, <3>2 DEF InOrder, IInv, TypeOK
    <3>4. QED
      BY <3>1, <3>3
  <2>5. Left(t)' = d
    BY <1>0, <1>2, <2>1, <2>2 DEF Left, IInv, TypeOK, Ticks
  <2>6. \A u \in Tasks : u # t => Left(u)' = Left(u)
    BY <1>0, <1>2, <2>1 DEF Left
  <2>7. QED
    BY <1>0, <1>2, <2>1, <2>3, <2>4, <2>5, <2>6 DEF IInv, TypeOK, Delayed
<1>6. QED
  BY <1>4, <1>5

\* A notification wakes the task it is for if that waits, and changes nobody
\* else's time.
LEMMA NotifyFacts ==
  ASSUME IInv, NEW t \in Tasks, NEW u \in Tasks, xTaskGenericNotify(t, u)
  PROVE  /\ Apart' /\ InOrder' /\ lists' \in (SUBSET Tasks) \X (SUBSET Tasks) \X (SUBSET Tasks)
         /\ Asleep' \subseteq Asleep
         /\ ucNotifyState[u] = "waiting" => Asleep' = Asleep \ {u}
         /\ ucNotifyState[u] # "waiting" => lists' = lists
         /\ \A v \in Tasks : v # u => Left(v)' = Left(v)
<1>1. CASE ucNotifyState[u] = "waiting"
  <2>1. /\ pxDelayedTaskList' = pxDelayedTaskList \ {u}
        /\ pxOverflowDelayedTaskList' = pxOverflowDelayedTaskList \ {u}
        /\ xSuspendedTaskList' = xSuspendedTaskList \ {u}
        /\ xTickCount' = xTickCount /\ xItemValue' = xItemValue
        /\ xNextTaskUnblockTime' = xNextTaskUnblockTime
    BY <1>1 DEF xTaskGenericNotify, MakesReady
  <2>2. Apart' /\ InOrder' /\ Asleep' = Asleep \ {u}
    BY <2>1 DEF IInv, Apart, InOrder, Asleep, Delayed
  <2>3. \A v \in Tasks : v # u => Left(v)' = Left(v)
    BY <2>1 DEF Left
  <2>4. QED
    BY <1>1, <2>1, <2>2, <2>3 DEF lists, IInv, TypeOK
<1>2. CASE ucNotifyState[u] # "waiting"
  <2>1. /\ pxDelayedTaskList' = pxDelayedTaskList
        /\ pxOverflowDelayedTaskList' = pxOverflowDelayedTaskList
        /\ xSuspendedTaskList' = xSuspendedTaskList
        /\ xTickCount' = xTickCount /\ xItemValue' = xItemValue
        /\ xNextTaskUnblockTime' = xNextTaskUnblockTime
    BY <1>2 DEF xTaskGenericNotify, MakesReady, lists
  <2>2. QED
    BY <1>2, <2>1 DEF IInv, TypeOK, Apart, InOrder, Asleep, Delayed, Left, lists
<1>3. QED
  BY <1>1, <1>2

-----------------------------------------------------------------------------
(* The invariant *)

LEMMA StepInv ==
  ASSUME IInv, [Next]_vars PROVE IInv'
<1> USE DEF IInv
<1>0. CASE UNCHANGED vars
  BY <1>0 DEF vars, time, lists, pended, notes, TypeOK, Apart, InOrder, Noted, Delayed, Asleep
<1>1. ASSUME Counted, UNCHANGED <<suspender, notes, pc>>,
             uxPendedTicks' \in Nat, uxPendedCounts' \in 0..uxPendedTicks', now' \in Ticks
      PROVE  IInv'
  <2>1. TypeOK'
    BY <1>1, CountedFacts DEF TypeOK, notes, Counted
  <2>2. Noted'
    BY <1>1, CountedFacts DEF Noted, notes
  <2>3. QED
    BY <1>1, <2>1, <2>2, CountedFacts
<1>2. CASE Tick
  <2>1. now' \in Ticks
    BY <1>2, DelayAssumption DEF Tick, TypeOK, Ticks, Wrap
  <2>2. QED
    BY <1>1, <1>2, <2>1 DEF Tick, TypeOK, pended
<1>3. CASE TickPended
  <2>1. now' \in Ticks
    BY <1>3, DelayAssumption DEF TickPended, TypeOK, Ticks, Wrap
  <2>2. QED
    BY <1>3, <2>1 DEF TickPended, time, lists, notes, TypeOK, Apart, InOrder, Noted, Delayed, Asleep
<1>4. CASE Unwind
  <2>1. uxPendedTicks' \in Nat /\ uxPendedCounts' \in 0..uxPendedTicks'
    BY <1>4 DEF Unwind, TypeOK
  <2>2. QED
    BY <1>1, <1>4, <2>1 DEF Unwind, TypeOK
<1>5. ASSUME NEW t \in Tasks, Step(t)
      PROVE  IInv'
  <2>1. CASE CallDelay(t)
    BY <2>1 DEF CallDelay, Runs, Goto, time, lists, pended, notes, TypeOK, Apart, InOrder, Noted, Delayed, Asleep
  <2>2. CASE Hold(t)
    BY <2>2 DEF Hold, Runs, Goto, time, lists, pended, notes, TypeOK, Apart, InOrder, Noted, Delayed, Asleep
  <2>3. ASSUME NEW d \in Ticks \ {0}, DelaySleeps(t, d)
        PROVE  IInv'
    <3>1. t \notin Asleep /\ pc[t] = "delay"
      BY <2>3 DEF DelaySleeps, Goto, Noted
    <3>2. d \in 1..portMAX_DELAY
      BY DelayAssumption DEF Ticks
    <3>3. AddToDelayed(t, d)
      BY <2>3 DEF DelaySleeps
    <3>4. TypeOK' /\ Apart' /\ InOrder'
      BY <3>1, <3>2, <3>3, <2>3, AddFacts DEF DelaySleeps, Goto, TypeOK, pended, notes
    <3>5. Asleep' = Asleep \cup {t}
      BY <3>1, <3>2, <3>3, AddFacts DEF Asleep
    <3>6. Noted'
      BY <3>5, <2>3 DEF DelaySleeps, Goto, Noted, notes, TypeOK
    <3>7. QED
      BY <3>4, <3>6
  <2>4. CASE xTaskResumeAll(t)
    BY <2>4 DEF xTaskResumeAll, Runs, Goto, time, lists, pended, notes, TypeOK, Apart, InOrder, Noted, Delayed, Asleep
  <2>5. ASSUME NEW d \in Ticks, NotifyWait(t, d)
        PROVE  IInv'
    <3>1. t \notin Asleep /\ pc[t] = "run" /\ pc' = [pc EXCEPT ![t] = "waited"]
          /\ UNCHANGED <<pended, suspender, ulNotifiedValue, now>>
      BY <2>5 DEF NotifyWait, Runs, Goto
    <3>2. CASE UNCHANGED time
      <4>1. \/ /\ ucNotifyState' = ucNotifyState /\ ucNotifyState[t] = "received"
            \/ /\ ucNotifyState' = [ucNotifyState EXCEPT ![t] = "waiting"]
               /\ ucNotifyState[t] # "received"
        BY <2>5 DEF NotifyWait
      <4>2. TypeOK' /\ Apart' /\ InOrder'
        BY <3>1, <3>2, <4>1 DEF time, lists, pended, TypeOK, Apart, InOrder, Delayed
      <4>3. Noted'
        BY <3>1, <3>2, <4>1 DEF time, lists, TypeOK, Noted, Delayed, Asleep
      <4>4. QED
        BY <4>2, <4>3
    <3>3. CASE ~UNCHANGED time
      <4>1. /\ ucNotifyState' = [ucNotifyState EXCEPT ![t] = "waiting"]
            /\ ucNotifyState[t] # "received"
            /\ \/ d = portMAX_DELAY /\ AddIndefinitely(t)
               \/ d \in 1..portMAX_DELAY /\ AddToDelayed(t, d)
        BY <2>5, <3>3, DelayAssumption DEF NotifyWait, Ticks
      <4>2. TypeOK' /\ Apart' /\ InOrder' /\ Asleep' = Asleep \cup {t}
        <5>1. CASE AddIndefinitely(t)
          BY <5>1, <3>1, <4>1 DEF AddIndefinitely, pended, TypeOK, Apart, InOrder, Delayed, Asleep
        <5>2. CASE d \in 1..portMAX_DELAY /\ AddToDelayed(t, d)
          BY <5>2, <3>1, <4>1, AddFacts DEF pended, TypeOK, Asleep
        <5>3. QED
          BY <4>1, <5>1, <5>2
      <4>3. Noted'
        BY <3>1, <4>1, <4>2 DEF TypeOK, Noted
      <4>4. QED
        BY <4>2, <4>3
    <3>4. QED
      BY <3>2, <3>3
  <2>6. CASE NotifyReturn(t)
    BY <2>6 DEF NotifyReturn, Runs, Goto, time, lists, pended, TypeOK, Apart, InOrder, Noted, Delayed, Asleep
  <2>7. ASSUME NEW u \in Tasks, xTaskGenericNotify(t, u)
        PROVE  IInv'
    <3>1. TypeOK' /\ Apart' /\ InOrder'
      BY <2>7, NotifyFacts DEF xTaskGenericNotify, lists, pended, TypeOK
    <3>2. Noted'
      <4>1. SUFFICES ASSUME NEW v \in Tasks
                     PROVE  /\ pc[v] = "delay" => v \notin Asleep'
                            /\ ucNotifyState'[v] = "waiting" => pc[v] = "waited"
                            /\ pc[v] = "waited" => ucNotifyState'[v] # "none"
                            /\ pc[v] = "waited" /\ ucNotifyState'[v] = "received" => v \notin Asleep'
                            /\ ulNotifiedValue'[v] # 0 => ucNotifyState'[v] = "received"
        BY <2>7 DEF xTaskGenericNotify, Noted
      <4>2. CASE v # u
        BY <4>2, <2>7, NotifyFacts DEF xTaskGenericNotify, Noted, TypeOK
      <4>3. CASE v = u /\ ucNotifyState[u] = "waiting"
        <5>1. ucNotifyState'[u] = "received"
          BY <2>7 DEF xTaskGenericNotify, TypeOK
        <5>2. v \notin Asleep'
          BY <4>3, <2>7, NotifyFacts
        <5>3. pc[u] = "waited"
          BY <4>3 DEF Noted
        <5>4. QED
          BY <4>3, <5>1, <5>2, <5>3
      <4>4. CASE v = u /\ ucNotifyState[u] # "waiting"
        BY <4>4, <2>7, NotifyFacts DEF xTaskGenericNotify, Noted, TypeOK
      <4>5. QED
        BY <4>2, <4>3, <4>4
    <3>3. QED
      BY <3>1, <3>2
  <2>8. QED
    BY <1>5, <2>1, <2>2, <2>3, <2>4, <2>5, <2>6, <2>7 DEF Step
<1>6. QED
  BY <1>0, <1>2, <1>3, <1>4, <1>5 DEF Next

\* The invariant of the proofs below holds at every moment.
LEMMA Invariant == Spec => []IInv
BY InitInv, StepInv, PTL DEF Spec

-----------------------------------------------------------------------------
(* Theorems *)

\* The types of the kernel's variables.
THEOREM TypeCorrect == Spec => []TypeOK
BY Invariant, PTL DEF IInv

\* The assertion of taskSWITCH_DELAYED_LISTS (tasks.c:218) holds whenever the
\* count is about to wrap.
THEOREM NobodyStays == Spec => []NobodyLeftBehind
<1>1. IInv => NobodyLeftBehind
  BY EmptyAtWrap DEF NobodyLeftBehind
<1>2. QED
  BY <1>1, Invariant, PTL

\* xTaskNotifyWait and xTaskNotify lose no wake-up, whatever the time-out does.
THEOREM NewsWakes == Spec => []AwakeWithNews
<1>1. IInv => AwakeWithNews
  BY DEF IInv, Noted, AwakeWithNews
<1>2. QED
  BY <1>1, Invariant, PTL

-----------------------------------------------------------------------------
(* The tick count and the clock *)

\* The interrupts that are neither counted nor pended are whole rounds of the
\* count: one more or one less when either of the two counters wraps.
NoSlip ==
  \E k \in Int : now - xTickCount - ToCount = k * (portMAX_DELAY + 1)

LEMMA NextMultiple ==
  ASSUME NEW W \in Nat, NEW k \in Int
  PROVE  (k + 1) * W = k * W + W /\ (k - 1) * W = k * W - W
OBVIOUS

LEMMA ModOfMultiple ==
  ASSUME NEW W \in Nat \ {0}, NEW k \in Int
  PROVE  (k * W) % W = 0
OBVIOUS

LEMMA ToCountInt == TypeOK => ToCount \in Nat
BY DEF TypeOK, ToCount

LEMMA WrapNext ==
  ASSUME NEW n \in Ticks
  PROVE  /\ Wrap(n + 1) \in Ticks
         /\ Wrap(n + 1) = n + 1 \/ Wrap(n + 1) = (n + 1) - (portMAX_DELAY + 1)
BY DelayAssumption DEF Ticks, Wrap

\* A step that moves the difference by no round, by one, or by minus one.
LEMMA SlipBy ==
  ASSUME NEW x \in Int, NEW y \in Int, NEW k \in Int, x = k * (portMAX_DELAY + 1),
         \/ y = x \/ y = x + (portMAX_DELAY + 1) \/ y = x - (portMAX_DELAY + 1)
  PROVE  \E m \in Int : y = m * (portMAX_DELAY + 1)
<1> DEFINE W == portMAX_DELAY + 1
<1>1. W \in Nat /\ (k + 1) * W = k * W + W /\ (k - 1) * W = k * W - W
  BY DelayAssumption, NextMultiple
<1>2. k \in Int /\ k + 1 \in Int /\ k - 1 \in Int
  OBVIOUS
<1> HIDE DEF W
<1>3. x = k * W /\ (y = x \/ y = x + W \/ y = x - W)
  BY DEF W
<1>4. y = k * W \/ y = (k + 1) * W \/ y = (k - 1) * W
  BY <1>1, <1>3
<1>5. QED
  BY <1>2, <1>4 DEF W

LEMMA SlipStep ==
  ASSUME IInv, NoSlip, [Next]_vars PROVE NoSlip'
<1> DEFINE W == portMAX_DELAY + 1
<1>0. /\ TypeOK /\ W \in Nat /\ now \in Int /\ xTickCount \in Int
      /\ now \in Ticks /\ xTickCount \in Ticks /\ ToCount \in Int
  BY DelayAssumption, ToCountInt DEF IInv, TypeOK, Ticks
<1>1. PICK k \in Int : now - xTickCount - ToCount = k * W
  BY DEF NoSlip
<1>2. CASE UNCHANGED <<now, xTickCount>> /\ ToCount' = ToCount
  BY <1>2 DEF NoSlip
<1>3. CASE Tick
  <2>1. /\ now' = Wrap(now + 1) /\ xTickCount' = Wrap(xTickCount + 1)
        /\ ToCount' = ToCount
    BY <1>3 DEF Tick, Counted, pended, ToCount
  <2>2. /\ now' = now + 1 \/ now' = (now + 1) - W
        /\ xTickCount' = xTickCount + 1 \/ xTickCount' = (xTickCount + 1) - W
    BY <1>0, <2>1, WrapNext
  <2>3. DEFINE x == now - xTickCount - ToCount
               y == now' - xTickCount' - ToCount'
  <2>4. x \in Int /\ y \in Int /\ (y = x \/ y = x + W \/ y = x - W)
    BY <1>0, <2>1, <2>2
  <2>5. QED
    BY <1>1, <2>4, SlipBy DEF NoSlip
<1>4. CASE TickPended
  <2>1. now' = Wrap(now + 1) /\ xTickCount' = xTickCount /\ ToCount' = ToCount + 1
    BY <1>4 DEF TickPended, time, IInv, TypeOK, ToCount
  <2>2. now' = now + 1 \/ now' = (now + 1) - W
    BY <1>0, <2>1, WrapNext
  <2>3. DEFINE x == now - xTickCount - ToCount
               y == now' - xTickCount' - ToCount'
  <2>4. x \in Int /\ y \in Int /\ (y = x \/ y = x + W \/ y = x - W)
    BY <1>0, <2>1, <2>2
  <2>5. QED
    BY <1>1, <2>4, SlipBy DEF NoSlip
<1>5. CASE Unwind
  <2>1. now' = now /\ xTickCount' = Wrap(xTickCount + 1) /\ ToCount' = ToCount - 1
    BY <1>5 DEF Unwind, Counted, IInv, TypeOK, ToCount
  <2>2. xTickCount' = xTickCount + 1 \/ xTickCount' = (xTickCount + 1) - W
    BY <1>0, <2>1, WrapNext
  <2>3. DEFINE x == now - xTickCount - ToCount
               y == now' - xTickCount' - ToCount'
  <2>4. x \in Int /\ y \in Int /\ (y = x \/ y = x + W \/ y = x - W)
    BY <1>0, <2>1, <2>2
  <2>5. QED
    BY <1>1, <2>4, SlipBy DEF NoSlip
<1>6. ASSUME NEW t \in Tasks, Step(t)
      PROVE  UNCHANGED <<now, xTickCount>> /\ ToCount' = ToCount
  <2>1. CASE xTaskResumeAll(t)
    BY <2>1 DEF xTaskResumeAll, Runs, time, ToCount, IInv, TypeOK
  <2>2. CASE ~xTaskResumeAll(t)
    BY <1>6, <2>2
    DEF Step, CallDelay, Hold, DelaySleeps, NotifyWait, NotifyReturn, xTaskGenericNotify,
        AddToDelayed, AddIndefinitely, time, pended, ToCount
  <2>3. QED
    BY <2>1, <2>2
<1>7. CASE UNCHANGED vars
  BY <1>2, <1>7 DEF vars, time, pended, ToCount
<1>8. QED
  BY <1>2, <1>3, <1>4, <1>5, <1>6, <1>7 DEF Next

\* However ticks are spread over suspensions of the scheduler and over the loop
\* of xTaskResumeAll, those counted and those pended are the interrupts.
THEOREM CountNeverSlips == Spec => []TickCountDoesNotSlip
<1>1. Init => NoSlip
  BY DelayAssumption DEF Init, NoSlip, ToCount
<1>2. NoSlip => TickCountDoesNotSlip
  BY ModOfMultiple, DelayAssumption DEF NoSlip, TickCountDoesNotSlip
<1>3. QED
  BY <1>1, <1>2, InitInv, StepInv, SlipStep, PTL DEF Spec


LEMMA PromiseInit == Init => Promise!Init
BY DEF Init, Promise!Init, Left, Asleep, Delayed

\* The ticks left as one function, as the promise has them, and who is rousable.
LEMMA PromiseStep ==
  ASSUME IInv, [Next]_vars
  PROVE  [Promise!Next]_<<[t \in Tasks |-> Left(t)], {t \in Asleep : pc[t] = "waited"}>>
<1> DEFINE L == [t \in Tasks |-> Left(t)]
           R == {t \in Asleep : pc[t] = "waited"}
<1>a. Asleep \subseteq Tasks
  BY DEF IInv, TypeOK, Asleep, Delayed
<1>s. IInv'
  BY StepInv
<1>i. L' = [t \in Tasks |-> Left(t)'] /\ R' = {t \in Asleep' : pc'[t] = "waited"}
  OBVIOUS
\* Steps that leave the lists, the count and the wake times alone.
<1>0. ASSUME UNCHANGED <<time, pc>>
      PROVE  UNCHANGED <<L, R>>
  BY <1>0 DEF time, lists, Left, Asleep, Delayed
<1>1. ASSUME UNCHANGED time, NEW t \in Tasks, t \notin Asleep, NEW p,
             pc' = [pc EXCEPT ![t] = p]
      PROVE  UNCHANGED <<L, R>>
  <2>1. UNCHANGED L
    BY <1>1 DEF time, lists, Left
  <2>2. Asleep' = Asleep
    BY <1>1 DEF time, lists, Asleep, Delayed
  <2>3. \A u \in Asleep : pc'[u] = pc[u]
    BY <1>1, <1>a DEF IInv, TypeOK
  <2>4. QED
    BY <2>1, <2>2, <2>3
<1>2. ASSUME Counted, pc' = pc
      PROVE  Promise!Tick
  <2>1. L' = [t \in Tasks |-> IF L[t] \in 1..portMAX_DELAY THEN L[t] - 1 ELSE L[t]]
    BY <1>2, CountedFacts
  <2>2. \A t \in Asleep : t \in Asleep' <=> L'[t] # 0
    <3>1. TAKE t \in Asleep
    <3>2. L'[t] = Left(t)'
      BY <1>a
    <3>3. /\ t \in Delayed' => Left(t)' \in 1..portMAX_DELAY
          /\ t \in xSuspendedTaskList' => Left(t)' = portMAX_DELAY + 1
          /\ t \notin Asleep' => Left(t)' = 0
      <4>1. t \in Tasks
        BY <1>a
      <4>2. QED
        BY <4>1, <1>s, DelayAssumption DEF IInv, TypeOK, Apart, InOrder, Delayed, Asleep, Ticks, Left
    <3>4. QED
      BY <3>2, <3>3, DelayAssumption DEF Asleep
  <2>3. R' = {t \in R : L'[t] # 0}
    BY <1>2, <2>2, CountedFacts
  <2>4. QED
    BY <2>1, <2>3 DEF Promise!Tick
<1>3. ASSUME NEW t \in Tasks, t \notin Asleep, NEW d \in 1..(portMAX_DELAY + 1),
             Asleep' = Asleep \cup {t},
             \A u \in Tasks : Left(u)' = IF u = t THEN d ELSE Left(u),
             NEW p, pc' = [pc EXCEPT ![t] = p]
      PROVE  Promise!Sleep(t)
  <2>1. L[t] = 0
    BY <1>3, LeftRange
  <2>2. L' = [L EXCEPT ![t] = d]
    BY <1>3
  <2>3. R' = IF p = "waited" THEN R \cup {t} ELSE R
    BY <1>3, <1>a DEF IInv, TypeOK
  <2>4. QED
    BY <2>1, <2>2, <2>3 DEF Promise!Sleep, Promise!Forever
<1>4. CASE UNCHANGED vars
  BY <1>0, <1>4 DEF vars
<1>5. CASE Tick
  BY <1>2, <1>5 DEF Tick, Promise!Next
<1>6. CASE TickPended
  BY <1>0, <1>6 DEF TickPended
<1>7. CASE Unwind
  BY <1>2, <1>7 DEF Unwind, Promise!Next
<1>8. ASSUME NEW t \in Tasks, Step(t)
      PROVE  Promise!Next \/ UNCHANGED <<L, R>>
  <2>1. CASE CallDelay(t) \/ Hold(t) \/ NotifyReturn(t)
    <3>1. t \notin Asleep /\ UNCHANGED time
          /\ \E p : pc' = [pc EXCEPT ![t] = p]
      BY <2>1 DEF CallDelay, Hold, NotifyReturn, Runs, Goto
    <3>2. QED
      BY <3>1, <1>1
  <2>2. ASSUME NEW d \in Ticks \ {0}, DelaySleeps(t, d)
        PROVE  Promise!Next
    <3>1. t \notin Asleep /\ AddToDelayed(t, d) /\ pc' = [pc EXCEPT ![t] = "resume"]
      BY <2>2 DEF DelaySleeps, Goto, IInv, Noted
    <3>2. d \in 1..portMAX_DELAY
      BY DelayAssumption DEF Ticks
    <3>3. /\ Asleep' = Asleep \cup {t}
          /\ \A u \in Tasks : Left(u)' = IF u = t THEN d ELSE Left(u)
      BY <3>1, <3>2, AddFacts DEF Asleep
    <3>4. d \in 1..(portMAX_DELAY + 1)
      BY <3>2, DelayAssumption
    <3>5. Promise!Sleep(t)
      BY <3>1, <3>3, <3>4, <1>3
    <3>6. QED
      BY <3>5 DEF Promise!Next
  <2>3. CASE xTaskResumeAll(t)
    <3>1. pc[t] = "resume" /\ pc' = [pc EXCEPT ![t] = "run"] /\ UNCHANGED time
      BY <2>3 DEF xTaskResumeAll, Goto
    <3>2. UNCHANGED L
      BY <3>1 DEF time, lists, Left
    <3>3. Asleep' = Asleep
      BY <3>1 DEF time, lists, Asleep, Delayed
    <3>4. \A u \in Asleep : pc'[u] = "waited" <=> pc[u] = "waited"
      BY <3>1, <1>a DEF IInv, TypeOK
    <3>5. QED
      BY <3>2, <3>3, <3>4
  <2>4. ASSUME NEW d \in Ticks, NotifyWait(t, d)
        PROVE  Promise!Next \/ UNCHANGED <<L, R>>
    <3>1. t \notin Asleep /\ pc' = [pc EXCEPT ![t] = "waited"]
      BY <2>4 DEF NotifyWait, Runs, Goto
    <3>2. CASE UNCHANGED time
      BY <3>1, <3>2, <1>1
    <3>3. CASE AddIndefinitely(t)
      <4>1. Asleep' = Asleep \cup {t}
        BY <3>3 DEF AddIndefinitely, Asleep, Delayed
      <4>2. \A u \in Tasks : Left(u)' = IF u = t THEN portMAX_DELAY + 1 ELSE Left(u)
        BY <3>1, <3>3 DEF AddIndefinitely, Left, Asleep, Delayed
      <4>3. portMAX_DELAY + 1 \in 1..(portMAX_DELAY + 1)
        BY DelayAssumption
      <4>4. Promise!Sleep(t)
        BY <3>1, <4>1, <4>2, <4>3, <1>3
      <4>5. QED
        BY <4>4 DEF Promise!Next
    <3>4. CASE d \notin {0, portMAX_DELAY} /\ AddToDelayed(t, d)
      <4>1. d \in 1..portMAX_DELAY /\ d \in 1..(portMAX_DELAY + 1)
        BY <3>4, DelayAssumption DEF Ticks
      <4>2. /\ Asleep' = Asleep \cup {t}
            /\ \A u \in Tasks : Left(u)' = IF u = t THEN d ELSE Left(u)
        BY <3>1, <3>4, <4>1, AddFacts DEF Asleep
      <4>3. Promise!Sleep(t)
        BY <3>1, <4>1, <4>2, <1>3
      <4>4. QED
        BY <4>3 DEF Promise!Next
    <3>5. QED
      BY <2>4, <3>2, <3>3, <3>4 DEF NotifyWait
  <2>5. ASSUME NEW u \in Tasks, xTaskGenericNotify(t, u)
        PROVE  Promise!Next \/ UNCHANGED <<L, R>>
    <3>0. pc' = pc /\ xTickCount' = xTickCount /\ xItemValue' = xItemValue
      BY <2>5 DEF xTaskGenericNotify
    <3>1. CASE ucNotifyState[u] = "waiting" /\ u \in Asleep
      <4>1. u \in R
        BY <3>1 DEF IInv, Noted
      <4>2. Asleep' = Asleep \ {u}
        BY <2>5, <3>1, NotifyFacts
      <4>3. Left(u)' = 0
        BY <4>2, <3>0 DEF Left, Asleep, Delayed
      <4>4. L' = [L EXCEPT ![u] = 0]
        BY <4>3, <2>5, NotifyFacts
      <4>5. R' = R \ {u}
        BY <4>2, <3>0
      <4>6. Promise!Rouse(u)
        BY <4>1, <4>4, <4>5 DEF Promise!Rouse
      <4>7. QED
        BY <4>6 DEF Promise!Next
    <3>2. CASE ~(ucNotifyState[u] = "waiting" /\ u \in Asleep)
      <4>1. UNCHANGED lists
        <5>1. CASE ucNotifyState[u] # "waiting"
          BY <5>1, <2>5, NotifyFacts
        <5>2. CASE u \notin Asleep
          BY <5>2, <2>5 DEF xTaskGenericNotify, MakesReady, lists, Asleep, Delayed
        <5>3. QED
          BY <3>2, <5>1, <5>2
      <4>2. QED
        BY <4>1, <3>0 DEF lists, Left, Asleep, Delayed
    <3>3. QED
      BY <3>1, <3>2
  <2>6. QED
    BY <1>8, <2>1, <2>2, <2>3, <2>4, <2>5 DEF Step
<1>9. QED
  BY <1>4, <1>5, <1>6, <1>7, <1>8 DEF Next

\* vTaskDelay and the time-out of xTaskNotifyWait last as many counted ticks as
\* were asked for, across the wrap and over suspensions of the scheduler.
THEOREM DelaysExact == Spec => DelaysAreExact
BY PromiseInit, PromiseStep, Invariant, PTL DEF Spec, DelaysAreExact, Promise!Spec

-----------------------------------------------------------------------------
(* delay_ms *)

\* What is counted down so far, and that whoever looked since the last tick
\* and is still in the loop did not find 0.
WaitInv ==
  /\ heldUp \in BOOLEAN /\ looked \in BOOLEAN
  /\ Time_ms \in 0..(Word - 1)
  /\ wait \in {"out", "poll"}
  /\ asked \in Nat /\ elapsed \in Nat /\ turns \in Nat
  /\ wait = "out" => elapsed = asked + turns * Word
  /\ wait = "poll" => elapsed + Time_ms = asked + turns * Word
  /\ wait = "poll" /\ looked => Time_ms # 0
  /\ ~heldUp => turns = 0

LEMMA DecrementRange ==
  ASSUME NEW n \in 0..(Word - 1)
  PROVE  /\ Decrement(n) \in 0..(Word - 1)
         /\ Decrement(n) = IF n = 0 THEN Word - 1 ELSE n - 1
<1>1. Word \in Nat /\ Word > 0
  BY WordAssumption
<1>2. CASE n = 0
  BY <1>1, <1>2 DEF Decrement
<1>3. CASE n # 0
  BY <1>1, <1>3 DEF Decrement
<1>4. QED
  BY <1>2, <1>3

LEMMA WaitStep == WaitInv /\ [WaitNext]_waitVars => WaitInv'
<1> SUFFICES ASSUME WaitInv, [WaitNext]_waitVars PROVE WaitInv'
  OBVIOUS
<1>0. Word \in Nat /\ Word > 0
  BY WordAssumption
<1>1. CASE TickOut
  BY <1>1, DecrementRange DEF WaitInv, TickOut
<1>2. CASE TickPoll
  <2>1. Time_ms' \in 0..(Word - 1)
        /\ Time_ms' = IF Time_ms = 0 THEN Word - 1 ELSE Time_ms - 1
    BY <1>2, DecrementRange DEF WaitInv, TickPoll
  <2>2. (turns + 1) * Word = turns * Word + Word
    BY <1>0, NextMultiple DEF WaitInv
  <2>3. elapsed' + Time_ms' = asked' + turns' * Word
    <3>1. CASE Time_ms = 0
      BY <1>0, <1>2, <2>1, <2>2, <3>1 DEF WaitInv, TickPoll
    <3>2. CASE Time_ms # 0
      BY <1>0, <1>2, <2>1, <3>2 DEF WaitInv, TickPoll
    <3>3. QED
      BY <3>1, <3>2
  <2>4. ~heldUp' => turns' = 0
    BY <1>2 DEF WaitInv, TickPoll
  <2>5. wait' = "poll" /\ looked' = FALSE /\ heldUp' = heldUp /\ asked' = asked
    BY <1>2 DEF TickPoll
  <2>6. elapsed' \in Nat /\ turns' \in Nat
    BY <1>2 DEF WaitInv, TickPoll
  <2>7. QED
    BY <2>1, <2>3, <2>4, <2>5, <2>6 DEF WaitInv
<1>3. CASE Poll
  BY <1>0, <1>3 DEF WaitInv, Poll
<1>4. ASSUME NEW ms \in Delays, delay_ms(ms)
      PROVE  WaitInv'
  <2>1. ms \in 0..(Word - 1) /\ ms # 0 /\ ms \in Nat
    BY <1>0, DelaysAssumption
  <2>2. QED
    BY <1>0, <1>4, <2>1 DEF WaitInv, delay_ms
<1>5. CASE UNCHANGED waitVars
  BY <1>5 DEF WaitInv, waitVars
<1>6. QED
  BY <1>1, <1>2, <1>3, <1>4, <1>5 DEF WaitNext, TIM6_IRQHandler

\* For a counter of any width: delay_ms waits as long as it was asked to, or
\* whole turns of the counter longer, and a task that looks in every
\* millisecond never waits a turn.
THEOREM AlwaysWholeTurns == WaitSpec => []WaitsWholeTurns
<1>1. WaitInit => WaitInv
  BY WordAssumption DEF WaitInit, WaitInv
<1>2. WaitInv => WaitsWholeTurns
  BY DEF WaitInv, WaitsWholeTurns
<1>3. QED
  BY <1>1, <1>2, WaitStep, PTL DEF WaitSpec
==============================================================================
