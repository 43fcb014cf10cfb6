---------------------------- MODULE DelayPromise ----------------------------
(***************************************************************************)
(* What the kernel promises a task that sleeps for d ticks: it is asleep   *)
(* until d ticks have been counted, no fewer and no more, unless it waits  *)
(* for a notification and gets one.  The count of ticks has no end and no  *)
(* overflow here.                                                          *)
(***************************************************************************)
EXTENDS Integers

CONSTANTS Tasks, portMAX_DELAY

Forever == portMAX_DELAY + 1

VARIABLES
  left,      \* the ticks a task sleeps on for; 0: it is awake
  rousable   \* the sleeping tasks that a notification wakes

Init == left = [t \in Tasks |-> 0] /\ rousable = {}

Sleep(t) ==
  /\ left[t] = 0
  /\ \E d \in 1..Forever : left' = [left EXCEPT ![t] = d]
  /\ rousable' \in {rousable, rousable \cup {t}}

Rouse(t) ==
  /\ t \in rousable
  /\ left' = [left EXCEPT ![t] = 0]
  /\ rousable' = rousable \ {t}

Tick ==
  /\ left' = [t \in Tasks |-> IF left[t] \in 1..portMAX_DELAY
                              THEN left[t] - 1 ELSE left[t]]
  /\ rousable' = {t \in rousable : left'[t] # 0}

Next == Tick \/ \E t \in Tasks : Sleep(t) \/ Rouse(t)

Spec == Init /\ [][Next]_<<left, rousable>>
=============================================================================
