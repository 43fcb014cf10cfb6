----------------------------- MODULE RtcCalendar -----------------------------
(***************************************************************************)
(* RTC_SetTime of BSP/Rtc.c against the calendar.  The state walks day by  *)
(* day through the Gregorian calendar and carries along the seconds since  *)
(* 1970-01-01, by addition (the reference); what the code's conversion     *)
(* writes to the counter must be that number each time.                    *)
(*                                                                         *)
(* The number has 32 bits in the code.  Here it is a pair of halves, the   *)
(* registers CNTH and CNTL: the code's arithmetic loses what is beyond 32  *)
(* bits, the reference does not, its first part goes on growing.           *)
(***************************************************************************)
EXTENDS Integers

CONSTANTS
  LastYear,     \* bound: the walk ends with this year
  Stride        \* how far the time of day moves from one day to the next

ASSUME LastYearAssumption == LastYear \in 1970..2099
ASSUME StrideAssumption == Stride \in Nat

SECONDS_IN_A_MINUTE == 60
SECONDS_IN_A_HOUR   == 3600
SECONDS_IN_A_DAY    == 86400
DAYS_IN_A_YEAR      == 365

VARIABLES
  year, month, day,       \* the date
  clock,                  \* the time of day, in seconds
  days,                   \* the days since 1970-01-01
  counter                 \* the seconds since then, in halves

calendarVars == <<year, month, day, clock, days, counter>>

\* The number of values of a 16-bit register.
Half == 65536

-----------------------------------------------------------------------------
(* The calendar *)

IsLeap(y) == y % 4 = 0 /\ (y % 100 # 0 \/ y % 400 = 0)

DaysIn(y, m) ==
  IF m = 2 THEN IF IsLeap(y) THEN 29 ELSE 28
  ELSE IF m \in {4, 6, 9, 11} THEN 30 ELSE 31

CalendarInit ==
  /\ year = 1970 /\ month = 1 /\ day = 1
  /\ clock = 0
  /\ days = 0 /\ counter = <<0, 0>>

Hour   == clock \div SECONDS_IN_A_HOUR
Minute == (clock \div SECONDS_IN_A_MINUTE) % 60
Second == clock % SECONDS_IN_A_MINUTE

\* n seconds after c.
After(c, n) == <<c[1] + (c[2] + n) \div Half, (c[2] + n) % Half>>

\* The next day, at another time of day.
Elapse ==
  /\ days' = days + 1
  /\ clock' = (clock + Stride) % SECONDS_IN_A_DAY
  /\ counter' = After(counter, SECONDS_IN_A_DAY + clock' - clock)

NextDay ==
  /\ day < DaysIn(year, month)
  /\ day' = day + 1
  /\ UNCHANGED <<year, month>>
  /\ Elapse

NextMonth ==
  /\ day = DaysIn(year, month) /\ month < 12
  /\ day' = 1 /\ month' = month + 1
  /\ UNCHANGED year
  /\ Elapse

NextYear ==
  /\ day = DaysIn(year, month) /\ month = 12 /\ year < LastYear
  /\ day' = 1 /\ month' = 1 /\ year' = year + 1
  /\ Elapse

CalendarNext == NextDay \/ NextMonth \/ NextYear

CalendarSpec == CalendarInit /\ [][CalendarNext]_calendarVars

-----------------------------------------------------------------------------
(* RTC_SetTime *)

\* Days of a common year before each month; the first entry is not used.
monthDays(m) ==
  CASE m = 0 -> 0    [] m = 1 -> 0    [] m = 2 -> 31   [] m = 3 -> 59
    [] m = 4 -> 90   [] m = 5 -> 120  [] m = 6 -> 151  [] m = 7 -> 181
    [] m = 8 -> 212  [] m = 9 -> 243  [] m = 10 -> 273 [] m = 11 -> 304
    [] m = 12 -> 334

\* Mutant of SetTimeDays: the leap day counts from the first of January.
SetTimeDaysNoDecrement(y, m, d) ==
  (y - 1970) * DAYS_IN_A_YEAR + (y \div 4 - 1970 \div 4) + monthDays(m)
    + (d - 1)

\* The leap days counted by y \div 4 include that of year y itself, which
\* has not come before the end of February.
SetTimeDays(y, m, d) ==
  (y - 1970) * DAYS_IN_A_YEAR + (y \div 4 - 1970 \div 4) + monthDays(m)
    + (d - 1) - (IF y % 4 = 0 /\ m <= 2 THEN 1 ELSE 0)

SetTimeSeconds(hour, minute, second) ==
  hour * SECONDS_IN_A_HOUR + minute * SECONDS_IN_A_MINUTE + second

\* Mutant of SetTimeSum: the number is a signed one, which ends in 2038.
SetTimeSumSigned(n, s) ==
  LET rest == n * (SECONDS_IN_A_DAY - Half) + s
  IN  <<(n + rest \div Half) % (Half \div 2), rest % Half>>

\* n days and s seconds in 32 bits: SECONDS_IN_A_DAY is one high half and a
\* rest, and what goes beyond the high half is lost.
SetTimeSum(n, s) ==
  LET rest == n * (SECONDS_IN_A_DAY - Half) + s
  IN  <<(n + rest \div Half) % Half, rest % Half>>

SetTime(y, m, d, hour, minute, second) ==
  SetTimeSum(SetTimeDays(y, m, d), SetTimeSeconds(hour, minute, second))

-----------------------------------------------------------------------------
(* Properties *)

\* RTC_SetTime computes the days since 1970-01-01 of every date up to the end of
\* LastYear, which is 2099 at most (2100 is no leap year), and writes to the
\* counter the seconds since then, none of which is lost: the 32 bits last
\* until 2106.
SetTimeCounts ==
  /\ SetTimeDays(year, month, day) = days
  /\ SetTime(year, month, day, Hour, Minute, Second) = counter
==============================================================================
