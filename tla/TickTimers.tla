----------------------------- MODULE TickTimers -----------------------------
(***************************************************************************)
(* delay_ms of BSP/Delay.c: a busy wait for a counter which the interrupt  *)
(* of TIM6 decrements every millisecond, at 0 too.  The wait ends only if  *)
(* the task looks at the counter during the one millisecond in which it is *)
(* 0; the task that calls it (the GUI task, for the display's oscillator)  *)
(* is preempted by three others, one of which waits for the serial line in *)
(* a loop of its own.                                                      *)
(***************************************************************************)
EXTENDS Integers

CONSTANTS
  Word,        \* the number of values of an unsigned int: 2^32 on the chip
  Delays,      \* what callers ask for
  MaxTicks     \* bound: a delay is not followed for more ticks than this

ASSUME WordAssumption == Word \in Nat \ {0}
ASSUME DelaysAssumption == Delays \subseteq 1..(Word - 1)
ASSUME MaxTicksAssumption == MaxTicks \in Nat

VARIABLES
  heldUp,      \* the task may be kept from the processor for over a tick
  Time_ms,
  wait,          \* "out", or "poll" at line 28 of Delay.c
  asked,       \* the argument of delay_ms
  looked,      \* history: the task has looked since the last tick
  elapsed,     \* history: ticks since line 27
  turns        \* history: how often Time_ms has wrapped since line 27

waitVars == <<heldUp, Time_ms, wait, asked, looked, elapsed, turns>>

\* The timer runs from BSP_Init on, so that the counter has any value when
\* the first caller comes.
WaitInit ==
  /\ heldUp \in BOOLEAN
  /\ Time_ms \in 0..(Word - 1)
  /\ wait = "out" /\ asked = 0 /\ looked = TRUE
  /\ elapsed = 0 /\ turns = 0

\* Mutant of Decrement: it stays at 0, as that of the other two counters.
DecrementGuarded(n) == IF n = 0 THEN 0 ELSE n - 1

\* Mutant of Decrement: a tick counts for two milliseconds.
DecrementByTwo(n) == (n + Word - 2) % Word

Decrement(n) == (n + Word - 1) % Word

\* The tick while nobody waits.
TickOut ==
  /\ wait = "out"
  /\ Time_ms' = Decrement(Time_ms)
  /\ UNCHANGED <<heldUp, wait, asked, looked, elapsed, turns>>

TickPoll ==
  /\ wait = "poll"
  /\ heldUp \/ looked
  /\ elapsed < MaxTicks
  /\ Time_ms' = Decrement(Time_ms)
  /\ turns' = IF Time_ms = 0 THEN turns + 1 ELSE turns
  /\ elapsed' = elapsed + 1
  /\ looked' = FALSE
  /\ UNCHANGED <<heldUp, wait, asked>>

TIM6_IRQHandler == TickOut \/ TickPoll

\* The first tick may fall between the store and the first look.
delay_ms(ms) ==
  /\ wait = "out" /\ wait' = "poll"
  /\ Time_ms' = ms
  /\ asked' = ms
  /\ looked' = TRUE /\ elapsed' = 0 /\ turns' = 0
  /\ UNCHANGED heldUp

\* Mutant of Poll: the wait ends in the last millisecond.
PollEarly ==
  /\ wait = "poll"
  /\ wait' = IF Time_ms <= 1 THEN "out" ELSE "poll"
  /\ looked' = TRUE
  /\ UNCHANGED <<heldUp, Time_ms, asked, elapsed, turns>>

Poll ==
  /\ wait = "poll"
  /\ wait' = IF Time_ms = 0 THEN "out" ELSE "poll"
  /\ looked' = TRUE
  /\ UNCHANGED <<heldUp, Time_ms, asked, elapsed, turns>>

WaitNext == TIM6_IRQHandler \/ Poll \/ \E ms \in Delays : delay_ms(ms)

WaitSpec == WaitInit /\ [][WaitNext]_waitVars

\* The timer runs, and the task is scheduled.
WaitFairSpec == WaitSpec /\ WF_waitVars(Poll) /\ WF_waitVars(TickPoll)

-----------------------------------------------------------------------------
(* Properties *)

\* A task that looks in every millisecond waits as long as it asked.  Whoever
\* else has the processor meanwhile, a delay is never too short, and if it is
\* too long it is by whole turns of the counter: 49.7 days each.
WaitsWholeTurns ==
  wait = "out" =>
    /\ elapsed = asked + turns * Word
    /\ ~heldUp => turns = 0

\* A task that looks in every millisecond gets out of the loop.
DelayReturns == wait = "poll" /\ ~heldUp ~> wait = "out"
=============================================================================
