----------------------------- MODULE RtcGetTime -----------------------------
(***************************************************************************)
(* RTC_GetTime of BSP/Rtc.c: the conversion of the counter into a date and *)
(* a time, checked along the walk of RtcCalendar.                          *)
(***************************************************************************)
EXTENDS RtcCalendar

\* Lines 114 to 121: every fourth year.
DaysInYear(y) == IF y % 4 # 0 THEN DAYS_IN_A_YEAR ELSE DAYS_IN_A_YEAR + 1

\* daysPerMonth, with February adjusted.
DaysPerMonth(y) ==
  <<31, IF y % 4 = 0 THEN 29 ELSE 28, 31, 30, 31, 30, 31, 31, 30, 31, 30, 31>>

\* The while loop of lines 107 to 122 ends in 2106 at the latest: 2^32 seconds
\* are 49711 days.
Turns == 0..136

\* The days that are gone after k turns of it.
YearsTake[k \in Turns] ==
  IF k = 0 THEN 0 ELSE YearsTake[k - 1] + DaysInYear(1970 + k - 1)

\* It stops at the first year that has as many days as are left, counted
\* from 1: the year before it has fewer.
YearLoop(n) ==
  LET left(k)  == n - YearsTake[k]
      Stops(k) == left(k) <= DaysInYear(1970 + k)
      turns    == CHOOSE k \in Turns : Stops(k) /\ (k > 0 => ~Stops(k - 1))
  IN  [year |-> 1970 + turns, left |-> left(turns)]

\* The days that are gone after m turns of the for loop of lines 130 to 141.
MonthsTake(y) ==
  LET take[m \in 0..12] ==
        IF m = 0 THEN 0 ELSE take[m - 1] + DaysPerMonth(y)[m]
  IN  take

MonthLoop(y, n) ==
  LET left(m)   == n - MonthsTake(y)[m - 1]
      Breaks(m) == left(m) <= DaysPerMonth(y)[m]
      x         == CHOOSE m \in 1..12 : Breaks(m) /\ (m > 1 => ~Breaks(m - 1))
  IN  [month |-> x, day |-> left(x)]

\* Mutant of GetDate: today is not counted.
GetDateFromZero(n) ==
  LET y  == YearLoop(n)
      md == MonthLoop(y.year, y.left)
  IN  <<y.year, md.month, md.day>>

GetDate(n) ==
  LET y  == YearLoop(n + 1)
      md == MonthLoop(y.year, y.left)
  IN  <<y.year, md.month, md.day>>

GetClock(s) ==
  LET rest == s % SECONDS_IN_A_HOUR
  IN  <<s \div SECONDS_IN_A_HOUR, rest \div 60, rest % SECONDS_IN_A_MINUTE>>

\* The counter divided by SECONDS_IN_A_DAY, which is 675 times 128: first by
\* 128, which leaves a number of 25 bits, then by 675.
By128(c)       == c[1] * 512 + c[2] \div 128
DayOf(c)       == By128(c) \div 675
SecondOfDay(c) == (By128(c) % 675) * 128 + (c[2] % 128)

\* What it shows: a date and a time of day.
GetTime(c) == <<GetDate(DayOf(c)), GetClock(SecondOfDay(c))>>

-----------------------------------------------------------------------------
(* Properties *)

\* RTC_GetTime shows the date and the time of day the calendar has after the
\* seconds of the counter: with SetTimeCounts, what RTC_SetTime was given.
GetTimeShowsDate ==
  GetTime(counter) = <<<<year, month, day>>, <<Hour, Minute, Second>>>>
=============================================================================
