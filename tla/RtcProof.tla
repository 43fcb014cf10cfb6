------------------------------ MODULE RtcProof -------------------------------
(***************************************************************************)
(* Proofs about the real-time clock.                                       *)
(*                                                                         *)
(* RtcCounter: what a reader of the counter may rely on, for a register of *)
(* any width and a counter of any range.  While the task is between its    *)
(* two accesses the counter only grows, and the copy it holds is the low   *)
(* word of the counter it began with: that is what ReadBounds adds.        *)
(*                                                                         *)
(* RtcCalendar: RTC_SetTime counts the days since 1970-01-01 of every date *)
(* up to the end of LastYear, whatever year of 1970..2099 that is.  The    *)
(* invariant walks with the calendar: each step to the next day raises the *)
(* code's closed formula by one, across months, leap days and years.  What *)
(* it writes are the seconds since then: the walk's counter is the number  *)
(* of the seconds of its days, and up to 2099 its high half has 16 bits.   *)
(*                                                                         *)
(* RtcGetTime: the loops of RTC_GetTime find the date again.  What they    *)
(* take away turn by turn is a closed sum, by induction over the turns (a  *)
(* least turn at which it is not is impossible); the sum of the years      *)
(* before, of the months before and of the day is what RTC_SetTime counts. *)
(***************************************************************************)
EXTENDS RtcCounter, RtcGetTime, WellFoundedInduction, TLAPS

ReadBounds ==
  pc = "high" => tmp = begun[2] /\ AtMost(begun, Counter)

IInv == TypeOK /\ ReadBounds /\ NeverBehind /\ ExactWithoutCarry

\* The counter starts with every history variable equal to it.
LEMMA CounterInitially == Init => IInv
BY WordAssumption, HighAssumption
   DEF Init, IInv, TypeOK, ReadBounds, NeverBehind, ExactWithoutCarry, AtMost,
       Counter, WordAssumption, HighAssumption

\* A tick of the counter moves it up, so a read in progress stays bounded.
LEMMA TickMovesUp ==
  ASSUME TypeOK, Tick
  PROVE  TypeOK' /\ AtMost(Counter, Counter')
BY WordAssumption, HighAssumption
   DEF TypeOK, Tick, AtMost, Counter, WordAssumption, HighAssumption

\* Every step of the task or of the counter keeps the invariant.
LEMMA CounterStep == IInv /\ [Next]_vars => IInv'
<1> SUFFICES ASSUME IInv, [Next]_vars
             PROVE  IInv'
  OBVIOUS
<1>1. CASE Tick
  <2>1. TypeOK' /\ AtMost(Counter, Counter')
    BY <1>1, TickMovesUp DEF IInv
  <2>2. ReadBounds'
    BY <1>1, <2>1 DEF IInv, TypeOK, ReadBounds, Tick, AtMost, Counter
  <2>3. NeverBehind' /\ ExactWithoutCarry'
    BY <1>1 DEF IInv, NeverBehind, ExactWithoutCarry, Tick, AtMost
  <2>4. QED
    BY <2>1, <2>2, <2>3 DEF IInv
<1>2. CASE ReadLow
  BY <1>2 DEF IInv, TypeOK, ReadBounds, NeverBehind, ExactWithoutCarry, ReadLow,
              AtMost, Counter
<1>3. CASE ReadHigh
  <2>1. TypeOK' /\ ReadBounds'
    BY <1>3 DEF IInv, TypeOK, ReadBounds, ReadHigh, Counter
  <2>2. /\ tmp = begun[2] /\ begun[1] <= CNTH
        /\ begun[1] = CNTH => begun[2] <= CNTL
    BY <1>3 DEF IInv, TypeOK, ReadBounds, ReadHigh, AtMost, Counter
  <2>3. NeverBehind' /\ ExactWithoutCarry'
    BY <1>3, <2>2 DEF IInv, TypeOK, NeverBehind, ExactWithoutCarry, ReadHigh,
                      AtMost, Counter
  <2>4. QED
    BY <2>1, <2>3 DEF IInv
<1>4. CASE \E high \in 0..HighMax, low \in 0..(Word - 1) :
             RTC_SetCounter(high, low)
  BY <1>4 DEF IInv, TypeOK, ReadBounds, NeverBehind, ExactWithoutCarry,
              RTC_SetCounter, AtMost
<1>5. CASE UNCHANGED vars
  BY <1>5 DEF IInv, TypeOK, ReadBounds, NeverBehind, ExactWithoutCarry, vars,
              AtMost, Counter
<1>6. QED
  BY <1>1, <1>2, <1>3, <1>4, <1>5 DEF Next

\* The invariant holds in every reachable state.
LEMMA CounterInvariant == Spec => []IInv
<1>1. QED
  BY CounterInitially, CounterStep, PTL DEF Spec

\* RTC_GetCounter never returns a value of before the read: RTC_GetTime may
\* show a time that is late, never one that has passed.
THEOREM ReadNeverBehind == Spec => []NeverBehind
<1>1. IInv => NeverBehind
  BY DEF IInv
<1>2. QED
  BY <1>1, CounterInvariant, PTL

\* Without a carry into CNTH during the read, what it returns is bounded by
\* the counter at its two ends.
THEOREM ReadExactWithoutCarry == Spec => []ExactWithoutCarry
<1>1. IInv => ExactWithoutCarry
  BY DEF IInv
<1>2. QED
  BY <1>1, CounterInvariant, PTL

-----------------------------------------------------------------------------

\* Names for the ranges, so that the lemmas are applied without arithmetic.
Years  == 1970..2099
Months == 1..12
Days   == 1..31

Dated ==
  /\ year \in Years /\ month \in Months /\ day \in 1..DaysIn(year, month)
  /\ days \in Nat

\* The formula of RTC_SetTime gives the day's number.
DaysCount == SetTimeDays(year, month, day) = days

CalendarInv == Dated /\ DaysCount

\* Up to 2099 every fourth year is a leap year: 2000 is one.
LEMMA LeapYears ==
  ASSUME NEW y \in Years
  PROVE  IsLeap(y) <=> y % 4 = 0
BY SMT DEF IsLeap, Years

\* What the formula adds up are integers.
LEMMA FormulaParts ==
  ASSUME NEW y \in Years, NEW m \in Months
  PROVE  /\ monthDays(m) \in 0..334
         /\ y \div 4 \in Int /\ 1970 \div 4 \in Int
         /\ y % 4 \in Int
<1>1. monthDays(m) \in 0..334
  <2>1. m \in {1, 2, 3, 4, 5, 6, 7, 8, 9, 10, 11, 12}
    BY DEF Months
  <2>2. QED
    BY <2>1 DEF monthDays
<1>2. y \div 4 \in Int /\ 1970 \div 4 \in Int /\ y % 4 \in Int
  BY DEF Years
<1>3. QED
  BY <1>1, <1>2

\* The next day of the same month has the next number.
LEMMA DayCounts ==
  ASSUME NEW y \in Years, NEW m \in Months, NEW d \in Days
  PROVE  SetTimeDays(y, m, d + 1) = SetTimeDays(y, m, d) + 1
<1>1. monthDays(m) \in Int /\ y \div 4 \in Int /\ 1970 \div 4 \in Int
  BY FormulaParts
<1>2. CASE y % 4 = 0 /\ m <= 2
  BY <1>1, <1>2 DEF SetTimeDays, DAYS_IN_A_YEAR, Years, Days
<1>3. CASE ~(y % 4 = 0 /\ m <= 2)
  BY <1>1, <1>3 DEF SetTimeDays, DAYS_IN_A_YEAR, Years, Days
<1>4. QED
  BY <1>2, <1>3

\* So has the first day after the last of a month; after February of a leap
\* year the correction of the formula ends just when the leap day is over.
LEMMA MonthCounts ==
  ASSUME NEW y \in Years, NEW m \in Months \ {12}
  PROVE  SetTimeDays(y, m + 1, 1) = SetTimeDays(y, m, DaysIn(y, m)) + 1
<1>1. IsLeap(y) <=> y % 4 = 0
  BY LeapYears
<1>2. CASE m = 2
  BY <1>1, <1>2 DEF SetTimeDays, monthDays, DaysIn, DAYS_IN_A_YEAR, Years
<1>3. CASE m # 2
  <2>1. m \in {1, 3, 4, 5, 6, 7, 8, 9, 10, 11}
    BY <1>3 DEF Months
  <2>2. monthDays(m + 1) = monthDays(m) + DaysIn(y, m)
    BY <2>1 DEF monthDays, DaysIn
  <2>3. m + 1 <= 2 <=> m <= 2
    BY <2>1
  <2>4. QED
    BY <2>1, <2>2, <2>3 DEF SetTimeDays, monthDays, DaysIn, DAYS_IN_A_YEAR, Years
<1>4. QED
  BY <1>2, <1>3

\* And the first of January after the 31st of December.
LEMMA YearCounts ==
  ASSUME NEW y \in Years \ {2099}
  PROVE  SetTimeDays(y + 1, 1, 1) = SetTimeDays(y, 12, 31) + 1
<1>1. (y + 1) \div 4 - y \div 4 = IF (y + 1) % 4 = 0 THEN 1 ELSE 0
  BY SMT DEF Years
<1>2. QED
  BY <1>1 DEF SetTimeDays, monthDays, DAYS_IN_A_YEAR, Years

\* Every step of the walk keeps the count.
LEMMA CalendarStep == CalendarInv /\ [CalendarNext]_calendarVars => CalendarInv'
<1> SUFFICES ASSUME CalendarInv, [CalendarNext]_calendarVars
             PROVE  CalendarInv'
  OBVIOUS
<1>1. CASE NextDay
  <2>1. SetTimeDays(year, month, day + 1) = SetTimeDays(year, month, day) + 1
    <3>1. day \in Days
      BY DEF CalendarInv, Dated, DaysIn, Days
    <3>2. year \in Years /\ month \in Months
      BY DEF CalendarInv, Dated
    <3>3. QED
      BY <3>1, <3>2, DayCounts
  <2>2. Dated'
    BY <1>1 DEF CalendarInv, Dated, NextDay, Elapse, DaysIn, Years
  <2>3. DaysCount'
    BY <1>1, <2>1 DEF CalendarInv, DaysCount, NextDay, Elapse
  <2>4. QED
    BY <2>2, <2>3 DEF CalendarInv
<1>2. CASE NextMonth
  <2>1. SetTimeDays(year, month + 1, 1) = SetTimeDays(year, month, day) + 1
    <3>1. year \in Years /\ month \in Months \ {12}
      BY <1>2 DEF CalendarInv, Dated, NextMonth
    <3>2. QED
      BY <1>2, <3>1, MonthCounts DEF NextMonth
  <2>2. Dated'
    BY <1>2 DEF CalendarInv, Dated, NextMonth, Elapse, DaysIn, Months
  <2>3. DaysCount'
    BY <1>2, <2>1 DEF CalendarInv, DaysCount, NextMonth, Elapse
  <2>4. QED
    BY <2>2, <2>3 DEF CalendarInv
<1>3. CASE NextYear
  <2>1. year \in Years \ {2099} /\ day = 31
    BY <1>3, LastYearAssumption
       DEF CalendarInv, Dated, NextYear, DaysIn, LastYearAssumption, Years
  <2>2. SetTimeDays(year + 1, 1, 1) = SetTimeDays(year, month, day) + 1
    BY <1>3, <2>1, YearCounts DEF NextYear
  <2>3. Dated'
    BY <1>3, <2>1 DEF CalendarInv, Dated, NextYear, Elapse, DaysIn, Years, Months
  <2>4. DaysCount'
    BY <1>3, <2>2 DEF CalendarInv, DaysCount, NextYear, Elapse
  <2>5. QED
    BY <2>3, <2>4 DEF CalendarInv
<1>4. CASE UNCHANGED calendarVars
  BY <1>4 DEF CalendarInv, Dated, DaysCount, calendarVars
<1>5. QED
  BY <1>1, <1>2, <1>3, <1>4 DEF CalendarNext

\* The calendar begins with the day of number 0.
LEMMA CalendarInitially == CalendarInit => CalendarInv
BY DEF CalendarInit, CalendarInv, Dated, DaysCount, SetTimeDays, monthDays,
       DaysIn, DAYS_IN_A_YEAR, Years, Months

-----------------------------------------------------------------------------
(* RTC_GetTime *)

\* The days of the years before 1970 + k.
YearsSum(k) == k * DAYS_IN_A_YEAR + ((1969 + k) \div 4 - 492)

LEMMA YearsSumStep ==
  ASSUME NEW k \in Turns, k # 0
  PROVE  YearsSum(k) = YearsSum(k - 1) + DaysInYear(1970 + k - 1)
<1>1. (1969 + k) \div 4 - (1968 + k) \div 4
        = IF (1969 + k) % 4 = 0 THEN 1 ELSE 0
  BY SMT DEF Turns
<1>2. (1969 + k) \div 4 \in Int /\ (1968 + k) \div 4 \in Int
  BY DEF Turns
<1>3. 1970 + k - 1 = 1969 + k /\ 1969 + (k - 1) = 1968 + k /\ k \in Int
  BY DEF Turns
<1>4. QED
  BY <1>1, <1>2, <1>3 DEF YearsSum, DaysInYear, DAYS_IN_A_YEAR

LEMMA YearsSumStarts == YearsSum(0) = 0 /\ \A k \in Turns : YearsSum(k) \in Int
<1>1. 1969 \div 4 = 492
  BY SMT
<1>2. \A k \in Turns : (1969 + k) \div 4 \in Int
  BY DEF Turns
<1>3. QED
  BY <1>1, <1>2 DEF YearsSum, DAYS_IN_A_YEAR, Turns

\* There is a function that satisfies the recursion, so YearsTake does.
LEMMA YearsTakeIs ==
  \A k \in Turns : YearsTake[k] =
    IF k = 0 THEN 0 ELSE YearsTake[k - 1] + DaysInYear(1970 + k - 1)
<1> DEFINE IsIt(f) == f = [k \in Turns |->
             IF k = 0 THEN 0 ELSE f[k - 1] + DaysInYear(1970 + k - 1)]
           G == [k \in Turns |-> YearsSum(k)]
<1>1. IsIt(G)
  <2>1. \A k \in Turns : k # 0 => k - 1 \in Turns
    BY DEF Turns
  <2>2. \A k \in Turns :
          G[k] = IF k = 0 THEN 0 ELSE G[k - 1] + DaysInYear(1970 + k - 1)
    BY <2>1, YearsSumStep, YearsSumStarts
  <2>3. QED
    BY <2>2
<1>2. YearsTake = CHOOSE f : IsIt(f)
  BY DEF YearsTake
<1> HIDE DEF G, IsIt
<1>3. IsIt(YearsTake)
  BY <1>1, <1>2
<1>4. QED
  <2> DEFINE Turn(k) == IF k = 0 THEN 0
                        ELSE YearsTake[k - 1] + DaysInYear(1970 + k - 1)
             Loop == [k \in Turns |-> Turn(k)]
  <2>1. YearsTake = Loop
    BY <1>3 DEF IsIt
  <2>2. \A k \in Turns : Loop[k] = Turn(k)
    OBVIOUS
  <2> HIDE DEF Loop
  <2>3. \A k \in Turns : YearsTake[k] = Turn(k)
    BY <2>1, <2>2
  <2>4. QED
    BY <2>3

\* Every set of numbers that is not empty has a least one.
LEMMA LeastElement ==
  ASSUME NEW T \in SUBSET Nat, T # {}
  PROVE  \E x \in T : \A y \in T : x <= y
<1>1. PICK x \in T : \A y \in T : ~ (<<y, x>> \in OpToRel(<, Nat))
  BY NatLessThanWellFounded, WFMin
<1>2. ASSUME NEW y \in T PROVE x <= y
  <2>1. ~ (<<y, x>> \in OpToRel(<, Nat))
    BY <1>1
  <2>2. ~(y < x)
    BY <2>1 DEF OpToRel
  <2>3. QED
    BY <2>2
<1>3. QED
  BY <1>2

\* The loop takes away the days of the calendar: the least k at which it would
\* not cannot be 0 and cannot follow one at which it does.
LEMMA YearsTakeSum ==
  ASSUME NEW k \in Turns
  PROVE  YearsTake[k] = YearsSum(k)
<1> DEFINE T == {j \in Turns : YearsTake[j] # YearsSum(j)}
<1>1. SUFFICES ASSUME T # {} PROVE FALSE
  OBVIOUS
<1>2. PICK j \in T : \A i \in T : j <= i
  <2>1. T \in SUBSET Nat
    BY DEF Turns
  <2>2. QED
    BY <1>1, <2>1, LeastElement
<1>3. YearsTake[j] = IF j = 0 THEN 0 ELSE YearsTake[j - 1] + DaysInYear(1970 + j - 1)
  BY YearsTakeIs
<1>4. CASE j = 0
  BY <1>3, <1>4, YearsSumStarts
<1>5. CASE j # 0
  <2>1. j - 1 \in Turns /\ ~(j <= j - 1)
    BY <1>5 DEF Turns
  <2>2. j - 1 \notin T
    BY <1>2, <2>1
  <2>3. YearsTake[j - 1] = YearsSum(j - 1)
    BY <2>1, <2>2
  <2>4. QED
    BY <1>3, <1>5, <2>3, YearsSumStep
<1>6. QED
  BY <1>4, <1>5

\* It takes more with every turn.
LEMMA YearsSumGrows ==
  ASSUME NEW j \in Turns, NEW k \in Turns, j <= k
  PROVE  YearsSum(j) <= YearsSum(k)
<1>1. (1969 + j) \div 4 <= (1969 + k) \div 4
  BY SMT DEF Turns
<1>2. (1969 + j) \div 4 \in Int /\ (1969 + k) \div 4 \in Int
  BY DEF Turns
<1>3. QED
  BY <1>1, <1>2 DEF YearsSum, DAYS_IN_A_YEAR, Turns

\* The while loop stops in the year of the date, with the day of the year left.
LEMMA YearFound ==
  ASSUME NEW k \in Turns, k < 136, NEW n \in Nat,
         n > YearsSum(k), n <= YearsSum(k + 1)
  PROVE  YearLoop(n) = [year |-> 1970 + k, left |-> n - YearsSum(k)]
<1> DEFINE left(j) == n - YearsTake[j]
           Stops(j) == left(j) <= DaysInYear(1970 + j)
           Last(j) == Stops(j) /\ (j > 0 => ~Stops(j - 1))
<1>1. \A j \in Turns : j < 136 =>
        /\ left(j) = n - YearsSum(j) /\ YearsSum(j) \in Int
        /\ YearsSum(j + 1) \in Int
        /\ Stops(j) <=> n <= YearsSum(j + 1)
  <2> TAKE j \in Turns
  <2> HAVE j < 136
  <2>1. j + 1 \in Turns /\ j + 1 # 0 /\ (j + 1) - 1 = j /\ 1970 + (j + 1) - 1 = 1970 + j
    BY DEF Turns
  <2>2. YearsSum(j + 1) = YearsSum(j) + DaysInYear(1970 + j)
    BY <2>1, YearsSumStep
  <2>3. DaysInYear(1970 + j) \in Int
    BY DEF DaysInYear, DAYS_IN_A_YEAR
  <2>4. left(j) = n - YearsSum(j) /\ YearsSum(j) \in Int /\ YearsSum(j + 1) \in Int
    BY <2>1, YearsTakeSum, YearsSumStarts
  <2>5. QED
    BY <2>2, <2>3, <2>4
<1> HIDE DEF Stops, left
<1>2. Last(k)
  <2>1. Stops(k)
    BY <1>1
  <2>2. ASSUME k > 0 PROVE ~Stops(k - 1)
    <3>1. k - 1 \in Turns /\ k - 1 < 136 /\ (k - 1) + 1 = k
      BY <2>2 DEF Turns
    <3>2. QED
      BY <1>1, <3>1
  <2>3. QED
    BY <2>1, <2>2
<1>3. ASSUME NEW j \in Turns, Last(j) PROVE j = k
  <2>1. k \in Int /\ j \in Int
    BY DEF Turns
  <2>2. CASE j < k
    <3>1. j + 1 \in Turns /\ j + 1 <= k /\ j < 136
      BY <2>2 DEF Turns
    <3>2. YearsSum(j + 1) <= YearsSum(k)
      BY <3>1, YearsSumGrows
    <3>3. n <= YearsSum(j + 1)
      BY <1>1, <1>3, <3>1
    <3>4. QED
      BY <1>1, <2>1, <3>1, <3>2, <3>3
  <2>3. CASE j > k
    <3>1. /\ j - 1 \in Turns /\ j - 1 < 136 /\ (j - 1) + 1 = j /\ j > 0
          /\ k + 1 \in Turns /\ k + 1 <= j
      BY <2>3 DEF Turns
    <3>2. YearsSum(k + 1) <= YearsSum(j)
      BY <3>1, YearsSumGrows
    <3>3. ~Stops(j - 1)
      BY <1>3, <3>1
    <3>4. ~(n <= YearsSum(j)) /\ YearsSum(j) \in Int
      BY <1>1, <3>1, <3>3, YearsSumStarts
    <3>5. QED
      BY <1>1, <3>2, <3>4
  <2>4. QED
    BY <2>1, <2>2, <2>3
<1> DEFINE turns == CHOOSE j \in Turns : Last(j)
<1>4. YearLoop(n) = [year |-> 1970 + turns, left |-> left(turns)]
  BY DEF YearLoop, Stops, left
<1> HIDE DEF Last
<1>5. turns = k
  BY <1>2, <1>3
<1> HIDE DEF turns
<1>6. QED
  BY <1>1, <1>4, <1>5

\* The days of the months up to the m-th.
MonthsSum(y, m) ==
  (IF m = 12 THEN DAYS_IN_A_YEAR ELSE monthDays(m + 1))
    + (IF y % 4 = 0 /\ m >= 2 THEN 1 ELSE 0)

LEMMA MonthsSumTyping ==
  ASSUME NEW y \in Nat, NEW m \in 0..12
  PROVE  MonthsSum(y, m) \in Nat
<1>1. m # 12 => m + 1 \in {1, 2, 3, 4, 5, 6, 7, 8, 9, 10, 11, 12}
  OBVIOUS
<1>2. m # 12 => monthDays(m + 1) \in Nat
  BY <1>1 DEF monthDays
<1>3. QED
  BY <1>2 DEF MonthsSum, DAYS_IN_A_YEAR

LEMMA MonthsSumStep ==
  ASSUME NEW y \in Nat, NEW m \in Months
  PROVE  /\ DaysPerMonth(y)[m] \in Nat /\ DaysPerMonth(y)[m] > 0
         /\ MonthsSum(y, m) = MonthsSum(y, m - 1) + DaysPerMonth(y)[m]
<1>1. m \in {1, 2, 3, 4, 5, 6, 7, 8, 9, 10, 11, 12}
  BY DEF Months
<1>2. DaysPerMonth(y)[m] = IF m = 2 THEN IF y % 4 = 0 THEN 29 ELSE 28
                           ELSE IF m \in {4, 6, 9, 11} THEN 30 ELSE 31
  BY <1>1 DEF DaysPerMonth
<1>3. /\ monthDays(1) = 0 /\ monthDays(2) = 31 /\ monthDays(3) = 59
      /\ monthDays(4) = 90 /\ monthDays(5) = 120 /\ monthDays(6) = 151
      /\ monthDays(7) = 181 /\ monthDays(8) = 212 /\ monthDays(9) = 243
      /\ monthDays(10) = 273 /\ monthDays(11) = 304 /\ monthDays(12) = 334
  BY DEF monthDays
<1>4. QED
  BY <1>1, <1>2, <1>3 DEF MonthsSum, DAYS_IN_A_YEAR

LEMMA MonthsTakeIs ==
  ASSUME NEW y \in Nat
  PROVE  \A m \in 0..12 : MonthsTake(y)[m] =
           IF m = 0 THEN 0 ELSE MonthsTake(y)[m - 1] + DaysPerMonth(y)[m]
<1> DEFINE IsIt(f) == f = [m \in 0..12 |->
             IF m = 0 THEN 0 ELSE f[m - 1] + DaysPerMonth(y)[m]]
           G == [m \in 0..12 |-> MonthsSum(y, m)]
           take == MonthsTake(y)
<1>1. IsIt(G)
  <2>1. \A m \in 0..12 : m # 0 => m - 1 \in 0..12 /\ m \in Months
    BY DEF Months
  <2>2. MonthsSum(y, 0) = 0
    BY DEF MonthsSum, monthDays
  <2>3. \A m \in 0..12 :
          G[m] = IF m = 0 THEN 0 ELSE G[m - 1] + DaysPerMonth(y)[m]
    BY <2>1, <2>2, MonthsSumStep
  <2>4. QED
    BY <2>3
<1>2. take = CHOOSE f : IsIt(f)
  BY DEF MonthsTake
<1> HIDE DEF G, IsIt, take
<1>3. IsIt(take)
  BY <1>1, <1>2
<1> DEFINE Turn(m) == IF m = 0 THEN 0 ELSE take[m - 1] + DaysPerMonth(y)[m]
           Loop == [m \in 0..12 |-> Turn(m)]
<1>4. take = Loop
  BY <1>3 DEF IsIt
<1>5. \A m \in 0..12 : Loop[m] = Turn(m)
  OBVIOUS
<1> HIDE DEF Loop
<1>6. \A m \in 0..12 : take[m] = Turn(m)
  BY <1>4, <1>5
<1>7. QED
  BY <1>6 DEF take

LEMMA MonthsTakeSum ==
  ASSUME NEW y \in Nat, NEW m \in 0..12
  PROVE  MonthsTake(y)[m] = MonthsSum(y, m)
<1> DEFINE T == {j \in 0..12 : MonthsTake(y)[j] # MonthsSum(y, j)}
<1>1. SUFFICES ASSUME T # {} PROVE FALSE
  OBVIOUS
<1>2. PICK j \in T : \A i \in T : j <= i
  <2>1. T \in SUBSET Nat
    OBVIOUS
  <2>2. QED
    BY <1>1, <2>1, LeastElement
<1>3. MonthsTake(y)[j] = IF j = 0 THEN 0
                         ELSE MonthsTake(y)[j - 1] + DaysPerMonth(y)[j]
  BY MonthsTakeIs
<1>4. CASE j = 0
  <2>1. MonthsSum(y, 0) = 0
    BY DEF MonthsSum, monthDays
  <2>2. QED
    BY <1>3, <1>4, <2>1
<1>5. CASE j # 0
  <2>1. j - 1 \in 0..12 /\ ~(j <= j - 1) /\ j \in Months
    BY <1>5 DEF Months
  <2>2. j - 1 \notin T
    BY <1>2, <2>1
  <2>3. MonthsTake(y)[j - 1] = MonthsSum(y, j - 1)
    BY <2>1, <2>2
  <2>4. MonthsSum(y, j) = MonthsSum(y, j - 1) + DaysPerMonth(y)[j]
    BY <2>1, MonthsSumStep
  <2>5. QED
    BY ONLY <1>2, <1>3, <1>5, <2>3, <2>4
<1>6. QED
  BY <1>4, <1>5

LEMMA MonthsSumGrows ==
  ASSUME NEW y \in Nat, NEW j \in 0..12, NEW m \in 0..12, j <= m
  PROVE  MonthsSum(y, j) <= MonthsSum(y, m)
<1>1. \A i \in {0, 1, 2, 3, 4, 5, 6, 7, 8, 9, 10, 11} :
        MonthsSum(y, i) <= MonthsSum(y, i + 1)
  <2> TAKE i \in {0, 1, 2, 3, 4, 5, 6, 7, 8, 9, 10, 11}
  <2>1. PICK k \in Months : k = i + 1
    BY DEF Months
  <2>2. /\ MonthsSum(y, k) = MonthsSum(y, k - 1) + DaysPerMonth(y)[k]
        /\ DaysPerMonth(y)[k] \in Nat
    BY MonthsSumStep
  <2>3. k - 1 = i /\ i \in 0..12
    BY <2>1
  <2>4. MonthsSum(y, i) \in Nat
    BY <2>3, MonthsSumTyping
  <2>5. QED
    BY ONLY <2>1, <2>2, <2>3, <2>4
<1>2. \A i \in 0..12 : MonthsSum(y, i) \in Nat
  BY MonthsSumTyping
<1>3. /\ MonthsSum(y, 0) <= MonthsSum(y, 1) /\ MonthsSum(y, 1) <= MonthsSum(y, 2)
      /\ MonthsSum(y, 2) <= MonthsSum(y, 3) /\ MonthsSum(y, 3) <= MonthsSum(y, 4)
      /\ MonthsSum(y, 4) <= MonthsSum(y, 5) /\ MonthsSum(y, 5) <= MonthsSum(y, 6)
      /\ MonthsSum(y, 6) <= MonthsSum(y, 7) /\ MonthsSum(y, 7) <= MonthsSum(y, 8)
      /\ MonthsSum(y, 8) <= MonthsSum(y, 9) /\ MonthsSum(y, 9) <= MonthsSum(y, 10)
      /\ MonthsSum(y, 10) <= MonthsSum(y, 11)
      /\ MonthsSum(y, 11) <= MonthsSum(y, 12)
  BY <1>1
<1>4. j \in {0, 1, 2, 3, 4, 5, 6, 7, 8, 9, 10, 11, 12}
      /\ m \in {0, 1, 2, 3, 4, 5, 6, 7, 8, 9, 10, 11, 12}
  OBVIOUS
<1>5. QED
  BY <1>2, <1>3, <1>4

\* The for loop breaks in the month of the date, with the day of the month
\* left.
LEMMA MonthFound ==
  ASSUME NEW y \in Nat, NEW m \in Months, NEW n \in Nat,
         n > MonthsSum(y, m - 1), n <= MonthsSum(y, m)
  PROVE  MonthLoop(y, n) = [month |-> m, day |-> n - MonthsSum(y, m - 1)]
<1> DEFINE left(j) == n - MonthsTake(y)[j - 1]
           Breaks(j) == left(j) <= DaysPerMonth(y)[j]
           Last(j) == Breaks(j) /\ (j > 1 => ~Breaks(j - 1))
<1>1. \A j \in Months :
        /\ left(j) = n - MonthsSum(y, j - 1) /\ MonthsSum(y, j - 1) \in Nat
        /\ MonthsSum(y, j) \in Nat
        /\ Breaks(j) <=> n <= MonthsSum(y, j)
  <2> TAKE j \in Months
  <2>1. j - 1 \in 0..12 /\ j \in 0..12
    BY DEF Months
  <2>2. MonthsSum(y, j) = MonthsSum(y, j - 1) + DaysPerMonth(y)[j]
        /\ DaysPerMonth(y)[j] \in Nat
    BY MonthsSumStep
  <2>3. /\ left(j) = n - MonthsSum(y, j - 1)
        /\ MonthsSum(y, j - 1) \in Nat /\ MonthsSum(y, j) \in Nat
    BY <2>1, MonthsTakeSum, MonthsSumTyping
  <2>4. QED
    BY <2>2, <2>3
<1> HIDE DEF Breaks, left
<1>2. Last(m)
  <2>1. Breaks(m)
    BY <1>1
  <2>2. ASSUME m > 1 PROVE ~Breaks(m - 1)
    <3>1. m - 1 \in Months
      BY <2>2 DEF Months
    <3>2. QED
      BY <1>1, <3>1
  <2>3. QED
    BY <2>1, <2>2
<1>3. ASSUME NEW j \in Months, Last(j) PROVE j = m
  <2>1. m \in 1..12 /\ j \in 1..12
    BY DEF Months
  <2>2. CASE j < m
    <3>1. j \in 0..12 /\ m - 1 \in 0..12 /\ j <= m - 1
      BY <2>1, <2>2
    <3>2. MonthsSum(y, j) <= MonthsSum(y, m - 1)
      BY <3>1, MonthsSumGrows
    <3>3. n <= MonthsSum(y, j)
      BY <1>1, <1>3
    <3>4. QED
      BY <1>1, <3>2, <3>3
  <2>3. CASE j > m
    <3>1. /\ j - 1 \in Months /\ j > 1
          /\ j - 1 \in 0..12 /\ m \in 0..12 /\ m <= j - 1
      BY <2>1, <2>3 DEF Months
    <3>2. MonthsSum(y, m) <= MonthsSum(y, j - 1)
      BY <3>1, MonthsSumGrows
    <3>3. ~Breaks(j - 1)
      BY <1>3, <3>1
    <3>4. ~(n <= MonthsSum(y, j - 1)) /\ MonthsSum(y, j - 1) \in Nat
      BY <1>1, <3>1, <3>3
    <3>5. QED
      BY <1>1, <3>2, <3>4
  <2>4. QED
    BY <2>1, <2>2, <2>3
<1> DEFINE x == CHOOSE j \in 1..12 : Last(j)
<1>4. MonthLoop(y, n) = [month |-> x, day |-> left(x)]
  BY DEF MonthLoop, Breaks, left
<1> HIDE DEF Last
<1>5. x = m
  BY <1>2, <1>3 DEF Months
<1> HIDE DEF x
<1>6. QED
  BY <1>1, <1>4, <1>5

\* The number that RTC_SetTime gives a day is that of the years before it, of
\* the months before it, and of the day.
LEMMA DayOfTheYear ==
  ASSUME NEW y \in Years, NEW m \in Months, NEW d \in 1..DaysIn(y, m)
  PROVE  /\ y - 1970 \in Turns /\ y - 1970 < 136
         /\ d <= DaysPerMonth(y)[m]
         /\ SetTimeDays(y, m, d) + 1
              = YearsSum(y - 1970) + (MonthsSum(y, m - 1) + d)
<1>1. y - 1970 \in Turns /\ y - 1970 < 136 /\ y \in Nat /\ m \in Int /\ m # 13
      /\ 1969 + (y - 1970) = y - 1 /\ m - 1 # 12 /\ (m - 1) + 1 = m
  BY DEF Years, Turns, Months
<1>2. d \in Int
  OBVIOUS
<1>3. y \div 4 - (y - 1) \div 4 = IF y % 4 = 0 THEN 1 ELSE 0
  BY SMT DEF Years
<1>4. y \div 4 \in Int /\ (y - 1) \div 4 \in Int /\ 1970 \div 4 = 492
  BY SMT DEF Years
<1>5. monthDays(m) \in Int
  BY FormulaParts
<1>6. YearsSum(y - 1970) = (y - 1970) * 365 + ((y - 1) \div 4 - 492)
  BY <1>1 DEF YearsSum, DAYS_IN_A_YEAR
<1>7. MonthsSum(y, m - 1)
        = monthDays(m) + (IF y % 4 = 0 /\ ~(m <= 2) THEN 1 ELSE 0)
  BY <1>1 DEF MonthsSum
<1>8. SetTimeDays(y, m, d)
        = (y - 1970) * 365 + (y \div 4 - 492) + monthDays(m) + (d - 1)
            - (IF y % 4 = 0 /\ m <= 2 THEN 1 ELSE 0)
  BY <1>4 DEF SetTimeDays, DAYS_IN_A_YEAR
<1>9. SetTimeDays(y, m, d) + 1
        = YearsSum(y - 1970) + (MonthsSum(y, m - 1) + d)
  <2> DEFINE a == y \div 4
             b == (y - 1) \div 4
             c == y - 1970
             l == y % 4 = 0
  <2>1. c \in Int
    BY DEF Years
  <2> HIDE DEF a, b, c, l
  <2>2. a - b = (IF l THEN 1 ELSE 0) /\ a \in Int /\ b \in Int
    BY <1>3, <1>4 DEF a, b, l
  <2>3. YearsSum(c) = c * 365 + (b - 492)
    BY <1>6 DEF b, c
  <2>4. MonthsSum(y, m - 1) = monthDays(m) + (IF l /\ ~(m <= 2) THEN 1 ELSE 0)
    BY <1>7 DEF l
  <2>5. SetTimeDays(y, m, d)
          = c * 365 + (a - 492) + monthDays(m) + (d - 1)
              - (IF l /\ m <= 2 THEN 1 ELSE 0)
    BY <1>8 DEF a, c, l
  <2>6. SetTimeDays(y, m, d) + 1 = YearsSum(c) + (MonthsSum(y, m - 1) + d)
    BY <1>1, <1>2, <1>5, <2>1, <2>2, <2>3, <2>4, <2>5
  <2>7. QED
    BY <2>6 DEF c
<1>10. d <= DaysPerMonth(y)[m]
  <2>1. m \in {1, 2, 3, 4, 5, 6, 7, 8, 9, 10, 11, 12}
    BY DEF Months
  <2>2. DaysPerMonth(y)[m] = DaysIn(y, m)
    BY <2>1, LeapYears DEF DaysPerMonth, DaysIn
  <2>3. QED
    BY <2>2
<1>11. QED
  BY <1>1, <1>9, <1>10

\* RTC_GetTime's loops find the date again.
LEMMA DateFound ==
  ASSUME NEW y \in Years, NEW m \in Months, NEW d \in 1..DaysIn(y, m)
  PROVE  GetDate(SetTimeDays(y, m, d)) = <<y, m, d>>
<1> DEFINE n == SetTimeDays(y, m, d) + 1
           k == y - 1970
           before == YearsSum(k)
           months == MonthsSum(y, m - 1)
<1>1. /\ k \in Turns /\ k < 136 /\ d <= DaysPerMonth(y)[m]
      /\ n = before + (months + d)
  BY DayOfTheYear
<1>2. /\ y \in Nat /\ m - 1 \in 0..12 /\ 12 \in 0..12 /\ m \in 0..12 /\ m <= 12
      /\ 1970 + k = y /\ d \in Nat /\ d > 0 /\ k \in Nat
  <2>1. DaysIn(y, m) \in Nat
    BY DEF DaysIn
  <2>2. QED
    BY <2>1 DEF Years, Months
<1>3. months \in Nat
  <2>1. PICK i \in 0..12 : i = m - 1
    BY <1>2
  <2>2. y \in Nat
    BY <1>2
  <2>3. MonthsSum(y, i) \in Nat
    BY ONLY <2>2, i \in 0..12, MonthsSumTyping
  <2>4. QED
    BY <2>1, <2>3
<1>4. MonthsSum(y, m) = months + DaysPerMonth(y)[m] /\ DaysPerMonth(y)[m] \in Nat
  BY <1>2, MonthsSumStep
<1>5. MonthsSum(y, m) <= MonthsSum(y, 12) /\ MonthsSum(y, 12) = DaysInYear(y)
  <2>1. MonthsSum(y, m) <= MonthsSum(y, 12)
    BY <1>2, MonthsSumGrows
  <2>2. y % 4 \in Int
    BY DEF Years
  <2>3. MonthsSum(y, 12) = DaysInYear(y)
    BY <2>2 DEF MonthsSum, DaysInYear, DAYS_IN_A_YEAR
  <2>4. QED
    BY <2>1, <2>3
<1>6. before \in Nat
  <2>1. YearsSum(0) <= YearsSum(k)
    <3>1. 0 \in Turns /\ 0 <= k
      BY <1>2 DEF Turns
    <3>2. QED
      BY <1>1, <3>1, YearsSumGrows
  <2>2. QED
    BY <1>1, <2>1, YearsSumStarts
<1>7. YearsSum(k + 1) = before + DaysInYear(y)
  <2>1. PICK i \in Turns : i = k + 1 /\ i # 0
    BY <1>1, <1>2 DEF Turns
  <2>2. YearsSum(i) = YearsSum(i - 1) + DaysInYear(1970 + i - 1)
    BY <2>1, YearsSumStep
  <2>3. i - 1 = k /\ 1970 + i - 1 = y
    BY <1>2, <2>1
  <2>4. QED
    BY <2>1, <2>2, <2>3
<1>8. DaysInYear(y) \in Nat
  BY DEF DaysInYear, DAYS_IN_A_YEAR
<1> HIDE DEF n, k, before, months
<1>9. n \in Nat /\ n > before /\ n <= before + DaysInYear(y)
  BY <1>1, <1>2, <1>3, <1>4, <1>5, <1>6, <1>8
<1>10. YearLoop(n) = [year |-> y, left |-> months + d]
  <2>1. n > YearsSum(k) /\ n <= YearsSum(k + 1)
    BY <1>7, <1>9 DEF before
  <2>2. YearLoop(n) = [year |-> 1970 + k, left |-> n - YearsSum(k)]
    BY <1>1, <1>9, <2>1, YearFound
  <2>3. n - YearsSum(k) = months + d
    BY <1>1, <1>2, <1>3, <1>6 DEF before
  <2>4. QED
    BY <1>2, <2>2, <2>3
<1>11. MonthLoop(y, months + d) = [month |-> m, day |-> d]
  <2>1. PICK l \in Nat : l = months + d
    BY <1>2, <1>3
  <2>2. l > MonthsSum(y, m - 1) /\ l <= MonthsSum(y, m)
    BY <1>1, <1>2, <1>3, <1>4, <2>1 DEF months
  <2>3. MonthLoop(y, l) = [month |-> m, day |-> l - MonthsSum(y, m - 1)]
    BY <1>2, <2>2, MonthFound
  <2>4. l - MonthsSum(y, m - 1) = d
    BY <1>2, <1>3, <2>1 DEF months
  <2>5. QED
    BY <2>1, <2>3, <2>4
<1>12. GetDate(SetTimeDays(y, m, d))
         = <<YearLoop(n).year,
             MonthLoop(YearLoop(n).year, YearLoop(n).left).month,
             MonthLoop(YearLoop(n).year, YearLoop(n).left).day>>
  BY DEF GetDate, n
<1>13. QED
  BY <1>10, <1>11, <1>12

-----------------------------------------------------------------------------
(* The counter in halves *)

Halves == Nat \X {l \in Nat : l < Half}

LEMMA HalvesAre ==
  ASSUME NEW c \in Halves
  PROVE  c[1] \in Nat /\ c[2] \in Nat /\ c[2] < 65536 /\ c = <<c[1], c[2]>>
BY DEF Halves, Half

\* The number a pair of halves stands for.
Number(c) == c[1] * 65536 + c[2]

\* After adds up, with the carry into the high half.
LEMMA AfterAdds ==
  ASSUME NEW c \in Halves, NEW n \in Nat
  PROVE  After(c, n) \in Halves /\ Number(After(c, n)) = Number(c) + n
<1>1. c[1] \in Nat /\ c[2] \in Nat
  BY HalvesAre
<1>2. PICK x \in Nat : x = c[2] + n
  BY <1>1
<1>3. After(c, n) = <<c[1] + x \div 65536, x % 65536>>
  BY <1>2 DEF After, Half
<1>4. /\ c[1] + x \div 65536 \in Nat
      /\ x % 65536 \in Nat /\ x % 65536 < 65536
      /\ (c[1] + x \div 65536) * 65536 + (x % 65536) = c[1] * 65536 + x
  BY <1>1
<1>5. After(c, n) \in Halves
  BY <1>3, <1>4 DEF Halves, Half
<1>6. Number(After(c, n)) = c[1] * 65536 + x
  BY <1>3, <1>4 DEF Number
<1>7. QED
  BY <1>1, <1>2, <1>5, <1>6 DEF Number

\* What RTC_SetTime sums up is the number, if it has 32 bits.
LEMMA SumIs ==
  ASSUME NEW h \in Nat, NEW l \in Nat, h < 65536, l < 65536,
         NEW n \in Nat, NEW s \in Nat, h * 65536 + l = n * 86400 + s
  PROVE  SetTimeSum(n, s) = <<h, l>>
<1>1. /\ (n + (n * 20864 + s) \div 65536) % 65536 = h
      /\ (n * 20864 + s) % 65536 = l
  OBVIOUS
<1>2. 86400 - 65536 = 20864
  OBVIOUS
<1>3. QED
  BY <1>1, <1>2 DEF SetTimeSum, SECONDS_IN_A_DAY, Half

\* And RTC_GetTime takes it apart again.
LEMMA TakenApart ==
  ASSUME NEW h \in Nat, NEW l \in Nat, l < 65536,
         NEW n \in Nat, NEW s \in Nat, s < 86400,
         h * 65536 + l = n * 86400 + s
  PROVE  DayOf(<<h, l>>) = n /\ SecondOfDay(<<h, l>>) = s
<1>1. /\ (h * 512 + l \div 128) \div 675 = n
      /\ ((h * 512 + l \div 128) % 675) * 128 + (l % 128) = s
  OBVIOUS
<1>2. QED
  BY <1>1 DEF DayOf, SecondOfDay, By128

\* The hours, minutes and seconds of a time of day, as the calendar has them,
\* are those of RTC_GetTime, and RTC_SetTime takes them back.
LEMMA ClockFound ==
  ASSUME clock \in Nat
  PROVE  /\ GetClock(clock) = <<Hour, Minute, Second>>
         /\ SetTimeSeconds(Hour, Minute, Second) = clock
<1>1. PICK s \in Nat : s = clock
  OBVIOUS
<1>2. (s % 3600) \div 60 = (s \div 60) % 60
  OBVIOUS
<1>3. (s % 3600) % 60 = s % 60
  OBVIOUS
<1>4. PICK m \in Nat : m = s \div 60
  OBVIOUS
<1>5. s = m * 60 + (s % 60) /\ s % 60 \in Nat
  BY <1>4
<1>6. PICK h \in Nat : h = s \div 3600
  OBVIOUS
<1>7. m \div 60 = h
  BY <1>4, <1>6
<1>8. m = (m \div 60) * 60 + (m % 60) /\ m % 60 \in Nat
  OBVIOUS
<1>9. h * 3600 + (m % 60) * 60 + (s % 60) = s
  BY <1>5, <1>7, <1>8
<1>10. Hour = h /\ Minute = m % 60 /\ Second = s % 60
  BY <1>1, <1>4, <1>6
     DEF Hour, Minute, Second, SECONDS_IN_A_HOUR, SECONDS_IN_A_MINUTE
<1>11. GetClock(clock) = <<h, m % 60, s % 60>>
  BY <1>1, <1>2, <1>3, <1>4, <1>6
     DEF GetClock, SECONDS_IN_A_HOUR, SECONDS_IN_A_MINUTE
<1>12. QED
  BY <1>1, <1>9, <1>10, <1>11
     DEF SetTimeSeconds, SECONDS_IN_A_HOUR, SECONDS_IN_A_MINUTE

-----------------------------------------------------------------------------
(* The clock of the walk *)

\* The counter of the walk is the number of the seconds of its days.
Elapsed ==
  /\ clock \in Nat /\ clock < 86400
  /\ counter \in Halves
  /\ Number(counter) = days * 86400 + clock

WalkInv == CalendarInv /\ Elapsed

LEMMA WalkInitially == CalendarInit => WalkInv
<1> SUFFICES ASSUME CalendarInit PROVE Elapsed
  BY CalendarInitially DEF WalkInv
<1>1. clock = 0 /\ days = 0 /\ counter = <<0, 0>>
  BY DEF CalendarInit
<1>2. counter \in Halves
  BY <1>1 DEF Halves, Half
<1>3. Number(counter) = 0
  BY <1>1 DEF Number
<1>4. QED
  BY <1>1, <1>2, <1>3 DEF Elapsed

\* From the time s of a day to the time t of the next.
LEMMA NextDayCounts ==
  ASSUME NEW s \in Nat, NEW t \in Nat, s < 86400
  PROVE  \E n \in Nat : /\ n = 86400 + t - s
                        /\ \A d \in Nat : d * 86400 + s + n = (d + 1) * 86400 + t
<1>1. 86400 + t - s \in Nat
  OBVIOUS
<1>2. \A d \in Nat : d * 86400 + s + (86400 + t - s) = (d + 1) * 86400 + t
  OBVIOUS
<1>3. QED
  BY <1>1, <1>2

\* A step adds to the counter what is left of the day and what the next day
\* has: both sides of Elapsed grow by it.
LEMMA WalkStep == WalkInv /\ [CalendarNext]_calendarVars => WalkInv'
<1> SUFFICES ASSUME WalkInv, [CalendarNext]_calendarVars PROVE Elapsed'
  BY CalendarStep DEF WalkInv
<1>1. CASE UNCHANGED calendarVars
  BY <1>1 DEF WalkInv, Elapsed, calendarVars, Number
<1>2. CASE Elapse
  <2>1. /\ clock \in Nat /\ clock < 86400 /\ days \in Nat /\ counter \in Halves
        /\ Number(counter) = days * 86400 + clock
    BY DEF WalkInv, Elapsed, CalendarInv, Dated
  <2>2. clock' \in Nat /\ clock' < 86400
    <3>1. PICK s \in Nat : s = clock + Stride
      BY <2>1, StrideAssumption DEF StrideAssumption
    <3>2. s % 86400 \in Nat /\ s % 86400 < 86400
      OBVIOUS
    <3>3. QED
      BY <1>2, <3>1, <3>2 DEF Elapse, SECONDS_IN_A_DAY
  <2>3. PICK s \in Nat, t \in Nat : s = clock /\ t = clock' /\ s < 86400
    BY <2>1, <2>2
  <2>4. PICK n \in Nat : /\ n = 86400 + t - s
                         /\ \A d \in Nat : d * 86400 + s + n = (d + 1) * 86400 + t
    <3>1. s < 86400
      BY <2>3
    <3>2. QED
      BY ONLY <3>1, NextDayCounts
  <2>5. n = 86400 + clock' - clock
    BY <2>3, <2>4
  <2>6. counter' = After(counter, n) /\ days' = days + 1
    BY <1>2, <2>5 DEF Elapse, SECONDS_IN_A_DAY
  <2>7. counter' \in Halves /\ Number(counter') = Number(counter) + n
    BY <2>1, <2>6, AfterAdds
  <2>8. Number(counter') = (days + 1) * 86400 + clock'
    BY <2>1, <2>3, <2>4, <2>7
  <2>9. QED
    BY <2>2, <2>6, <2>7, <2>8 DEF Elapsed, Number
<1>3. QED
  BY <1>1, <1>2 DEF CalendarNext, NextDay, NextMonth, NextYear

LEMMA WalkInvariant == CalendarSpec => []WalkInv
BY WalkInitially, WalkStep, PTL DEF CalendarSpec

\* Up to 2099 the seconds have 32 bits.
LEMMA FitsTheCounter ==
  ASSUME WalkInv
  PROVE  counter[1] < 65536
<1>1. /\ year \in Years /\ month \in Months /\ day \in 1..31
      /\ days = SetTimeDays(year, month, day) /\ days \in Nat
  BY DEF WalkInv, CalendarInv, Dated, DaysCount, DaysIn
<1>2. monthDays(month) \in 0..334
  BY <1>1, FormulaParts
<1>3. year \div 4 \in Int /\ year \div 4 <= 524 /\ 1970 \div 4 = 492
  BY <1>1, SMT DEF Years
<1>4. days <= 47481
  <2>1. days <= (year - 1970) * 365 + (year \div 4 - 492) + monthDays(month)
                  + (day - 1)
    BY <1>1, <1>2, <1>3 DEF SetTimeDays, DAYS_IN_A_YEAR, Years
  <2>2. year <= 2099 /\ year \in Int /\ day <= 31 /\ day \in Int
    BY <1>1 DEF Years
  <2>3. QED
    BY <1>1, <1>2, <1>3, <2>1, <2>2
<1>5. PICK h \in Nat, l \in Nat : h = counter[1] /\ l = counter[2]
  BY HalvesAre DEF WalkInv, Elapsed
<1>6. clock \in Nat /\ clock < 86400 /\ h * 65536 + l = days * 86400 + clock
  BY <1>5 DEF WalkInv, Elapsed, Number
<1>7. QED
  BY <1>1, <1>4, <1>5, <1>6

\* RTC_SetTime counts the days of every date of the range, and what it writes to
\* the counter are the seconds since 1970, of which 32 bits lose none.
THEOREM SetTimeAlwaysCounts == CalendarSpec => []SetTimeCounts
<1>1. WalkInv => SetTimeCounts
  <2> SUFFICES ASSUME WalkInv PROVE SetTimeCounts
    OBVIOUS
  <2>1. SetTimeDays(year, month, day) = days /\ days \in Nat
    BY DEF WalkInv, CalendarInv, DaysCount, Dated
  <2>2. /\ clock \in Nat /\ counter \in Halves
        /\ Number(counter) = days * 86400 + clock
    BY DEF WalkInv, Elapsed
  <2>3. SetTimeSeconds(Hour, Minute, Second) = clock
    BY <2>2, ClockFound
  <2>4. SetTimeSum(days, clock) = counter
    <3>1. /\ counter[1] \in Nat /\ counter[2] \in Nat /\ counter[2] < 65536
          /\ counter = <<counter[1], counter[2]>>
      BY <2>2, HalvesAre
    <3>2. counter[1] < 65536
      BY FitsTheCounter
    <3>3. counter[1] * 65536 + counter[2] = days * 86400 + clock
      BY <2>2 DEF Number
    <3>4. SetTimeSum(days, clock) = <<counter[1], counter[2]>>
      BY <2>1, <2>2, <3>1, <3>2, <3>3, SumIs
    <3>5. QED
      BY <3>1, <3>4
  <2>5. QED
    BY <2>1, <2>3, <2>4 DEF SetTimeCounts, SetTime
<1>2. QED
  BY <1>1, WalkInvariant, PTL

\* RTC_GetTime shows the calendar's date and time of day for every value of the
\* counter up to the end of LastYear.
THEOREM GetTimeAlwaysShowsDate == CalendarSpec => []GetTimeShowsDate
<1>1. WalkInv => GetTimeShowsDate
  <2> SUFFICES ASSUME WalkInv PROVE GetTimeShowsDate
    OBVIOUS
  <2>1. year \in Years /\ month \in Months /\ day \in 1..DaysIn(year, month)
        /\ days = SetTimeDays(year, month, day) /\ days \in Nat
    BY DEF WalkInv, CalendarInv, Dated, DaysCount
  <2>2. GetDate(days) = <<year, month, day>>
    BY <2>1, DateFound
  <2>3. /\ clock \in Nat /\ clock < 86400 /\ counter \in Halves
        /\ Number(counter) = days * 86400 + clock
    BY DEF WalkInv, Elapsed
  <2>4. DayOf(counter) = days /\ SecondOfDay(counter) = clock
    <3>1. PICK h \in Nat, l \in Nat : counter = <<h, l>> /\ l < 65536
      BY <2>3, HalvesAre
    <3>2. h * 65536 + l = days * 86400 + clock
      BY <2>3, <3>1 DEF Number
    <3>3. QED
      BY <2>1, <2>3, <3>1, <3>2, TakenApart
  <2>5. GetClock(clock) = <<Hour, Minute, Second>>
    BY <2>3, ClockFound
  <2>6. QED
    BY <2>2, <2>4, <2>5 DEF GetTimeShowsDate, GetTime
<1>2. QED
  BY <1>1, WalkInvariant, PTL
==============================================================================
