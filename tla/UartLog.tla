------------------------------- MODULE UartLog -------------------------------
(***************************************************************************)
(* What Debug_Message promises its callers: the log line carries one       *)
(* message at a time, every byte of it, in order, and the next message     *)
(* starts only when the one before has been handed over completely.        *)
(* DebugUart shows that the locking in Application/DebugMessage.c and the  *)
(* DMA hand-shake in USART_Driver.c implement this.                        *)
(***************************************************************************)
EXTENDS Naturals, Sequences

CONSTANTS
  Tasks,        \* the tasks that may print
  Lens,         \* the lengths vsnprintf may report
  BufSize,      \* sizeof(usart_message)
  None          \* "no task"

VARIABLES
  owner,        \* the task whose message is on the line, or None
  size,         \* the number of bytes of that message
  line          \* the bytes the line has carried of it so far

vars == <<owner, size, line>>

Nul    == "nul"       \* a zero byte inside the buffer
Beyond == "beyond"    \* a byte of whatever memory follows the buffer

(***************************************************************************)
(* The i-th byte of a message of n bytes that t has formatted into a       *)
(* buffer of BufSize bytes: vsnprintf stores at most BufSize - 1 of them   *)
(* and a terminator, and reports n all the same.                           *)
(***************************************************************************)
Byte(t, n, i) ==
  IF i > BufSize THEN Beyond
  ELSE IF i = BufSize \/ i > n THEN Nul ELSE <<t, n, i>>

Init == owner = None /\ size = 0 /\ line = <<>>

Begin(t, n) ==
  /\ owner = None
  /\ owner' = t
  /\ size' = n
  /\ line' = <<>>

Emit ==
  /\ owner # None
  /\ Len(line) < size
  /\ line' = Append(line, Byte(owner, size, Len(line) + 1))
  /\ UNCHANGED <<owner, size>>

End ==
  /\ owner # None
  /\ Len(line) = size
  /\ owner' = None
  /\ size' = 0
  /\ UNCHANGED line

Next == \/ \E t \in Tasks, n \in Lens : Begin(t, n)
        \/ Emit
        \/ End

Spec == Init /\ [][Next]_vars
==============================================================================
