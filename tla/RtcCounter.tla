----------------------------- MODULE RtcCounter -----------------------------
(***************************************************************************)
(* The seconds counter of the RTC, which the bus shows as two 16-bit       *)
(* registers, under the task that reads it with RTC_GetCounter (two        *)
(* accesses, CNTL before CNTH) and sets it with RTC_SetCounter (both       *)
(* registers through configuration mode, which takes effect at its end).   *)
(* The counter ticks on while the task is between its two accesses.        *)
(***************************************************************************)
EXTENDS Integers

CONSTANTS
  Word,         \* the number of values of a register: 2^16 on the chip
  HighMax       \* bound: the counter is not followed past this high word

ASSUME WordAssumption == Word \in Nat \ {0}
ASSUME HighAssumption == HighMax \in Nat

VARIABLES
  CNTH, CNTL,   \* the counter is CNTH * Word + CNTL
  pc,           \* "idle", or "high" when CNTL has been read and CNTH has not
  tmp,          \* RTC_GetCounter's copy of CNTL
  value,        \* what the last RTC_GetCounter returned: <<high, low>>
  begun,        \* history: the counter when CNTL was read
  ended         \* history: the counter when CNTH was read

vars == <<CNTH, CNTL, pc, tmp, value, begun, ended>>

Counter == <<CNTH, CNTL>>

\* Order of counter values: the high words decide, then the low words.
AtMost(a, b) == a[1] < b[1] \/ (a[1] = b[1] /\ a[2] <= b[2])

Init ==
  /\ CNTH \in 0..HighMax /\ CNTL \in 0..(Word - 1)
  /\ pc = "idle" /\ tmp = 0
  /\ value = Counter /\ begun = Counter /\ ended = Counter

\* TR_CLK, once a second.
Tick ==
  /\ IF CNTL = Word - 1
       THEN /\ CNTH < HighMax
            /\ CNTL' = 0 /\ CNTH' = CNTH + 1
       ELSE CNTL' = CNTL + 1 /\ UNCHANGED CNTH
  /\ UNCHANGED <<pc, tmp, value, begun, ended>>

\* Mutant of ReadLow: the low word is one from an earlier read.
ReadLowCached ==
  /\ pc = "idle" /\ pc' = "high"
  /\ tmp' = value[2]
  /\ begun' = Counter
  /\ UNCHANGED <<CNTH, CNTL, value, ended>>

ReadLow ==
  /\ pc = "idle" /\ pc' = "high"
  /\ tmp' = CNTL
  /\ begun' = Counter
  /\ UNCHANGED <<CNTH, CNTL, value, ended>>

\* Mutant of ReadHigh: the halves are put together the wrong way round.
ReadHighSwapped ==
  /\ pc = "high" /\ pc' = "idle"
  /\ value' = <<tmp, CNTH>>
  /\ ended' = Counter
  /\ UNCHANGED <<CNTH, CNTL, tmp, begun>>

ReadHigh ==
  /\ pc = "high" /\ pc' = "idle"
  /\ value' = <<CNTH, tmp>>
  /\ ended' = Counter
  /\ UNCHANGED <<CNTH, CNTL, tmp, begun>>

\* RTC_SetTime, by the task that also reads: not during a read.
RTC_SetCounter(high, low) ==
  /\ pc = "idle"
  /\ CNTH' = high /\ CNTL' = low
  /\ UNCHANGED <<pc, tmp, value, begun, ended>>

Next ==
  \/ Tick \/ ReadLow \/ ReadHigh
  \/ \E high \in 0..HighMax, low \in 0..(Word - 1) : RTC_SetCounter(high, low)

Spec == Init /\ [][Next]_vars

-----------------------------------------------------------------------------
(* Properties *)

\* The two registers and the values read keep to their widths; the proofs
\* build on this.
TypeOK ==
  /\ CNTH \in 0..HighMax /\ CNTL \in 0..(Word - 1)
  /\ pc \in {"idle", "high"}
  /\ tmp \in 0..(Word - 1)
  /\ value \in (0..HighMax) \X (0..(Word - 1))
  /\ begun \in (0..HighMax) \X (0..(Word - 1))
  /\ ended \in (0..HighMax) \X (0..(Word - 1))

\* A torn read shows a time that is too late, never one that is past: what
\* a read returns is no earlier than the moment the read began.
NeverBehind == pc = "idle" => AtMost(begun, value)

\* Only a carry into CNTH between the two accesses can spoil a read.
ExactWithoutCarry ==
  pc = "idle" /\ begun[1] = ended[1] => AtMost(value, ended)
=============================================================================
