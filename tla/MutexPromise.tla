---------------------------- MODULE MutexPromise ----------------------------
(***************************************************************************)
(* What a FreeRTOS mutex promises the code above it: one owner at a time,  *)
(* which only the owner gives up.  DebugUart's Take and Unlock are steps   *)
(* of this kind; KernelMutex shows that queue.c implements them.           *)
(***************************************************************************)
CONSTANTS Tasks, None

VARIABLE owner

Init == owner = None

Acquire(t) == owner = None /\ owner' = t

Release(t) == owner = t /\ owner' = None

Next == \E t \in Tasks : Acquire(t) \/ Release(t)

Spec == Init /\ [][Next]_owner
=============================================================================
