---------------------------- MODULE MCKernelMutex ----------------------------
(* Four tasks on three priorities, two of them sharing the middle one. *)
EXTENDS KernelMutex, TLC

CONSTANTS low, mid1, mid2, high

MCPriority == low :> 1 @@ mid1 :> 2 @@ mid2 :> 2 @@ high :> 3
==============================================================================
