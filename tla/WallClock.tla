------------------------------ MODULE WallClock -----------------------------
(***************************************************************************)
(* init_wall_clock of src/kernel/timer.c: the RTC's BCD date and time      *)
(* turned into Unix time, by adding the days of every year since 1970 and  *)
(* of every month before the current one; beside it, a closed-form count   *)
(* of days since 1970-01-01 in the proleptic Gregorian calendar.           *)
(***************************************************************************)
EXTENDS Integers

CONSTANTS
    RtcYears,     \* the BCD values the RTC year register may hold
    RtcTimes      \* the BCD (hour, minute, second) triples tried

SECONDS_PER_MINUTE == 60
SECONDS_PER_HOUR == 3600
SECONDS_PER_DAY == 86400

\* is_leap: Gregorian from 1582 on, Julian before.
IsLeap(year) ==
    IF year >= 1582
    THEN year % 4 = 0 /\ (year % 100 # 0 \/ year % 400 = 0)
    ELSE year % 4 = 0

NrDaysPerYear(year) == IF IsLeap(year) THEN 366 ELSE 365

DaysPerMonth == <<31, 28, 31, 30, 31, 30, 31, 31, 30, 31, 30, 31>>

\* nr_days_per_month(month, year), month counted from 0 (ASSERT(month < 12)).
NrDaysPerMonth(month, year) ==
    IF IsLeap(year) /\ month = 1 THEN 29 ELSE DaysPerMonth[month + 1]

\* bcd_to_dec: a nibble at a time, least significant first.
RECURSIVE BcdToDec(_)
BcdToDec(n) == IF n = 0 THEN 0 ELSE (n % 16) + 10 * BcdToDec(n \div 16)

\* The two loops of init_wall_clock.
RECURSIVE YearsSeconds(_, _)
YearsSeconds(y, year) ==
    IF y >= year THEN 0 ELSE NrDaysPerYear(y) * SECONDS_PER_DAY + YearsSeconds(y + 1, year)

\* Mutant: the month loop counting the current month too.
RECURSIVE MonthsSecondsAll(_, _, _)
MonthsSecondsAll(m, month, year) ==
    IF m >= month THEN 0
    ELSE NrDaysPerMonth(m, year) * SECONDS_PER_DAY + MonthsSecondsAll(m + 1, month, year)

RECURSIVE MonthsSeconds(_, _, _)
MonthsSeconds(m, month, year) ==
    IF m >= month - 1 THEN 0
    ELSE NrDaysPerMonth(m, year) * SECONDS_PER_DAY + MonthsSeconds(m + 1, month, year)

\* init_wall_clock, from the RTC registers (year within the 21st century).
InitWallClock(rtc) ==
    LET second == BcdToDec(rtc.second)
        minute == BcdToDec(rtc.minute)
        hour == BcdToDec(rtc.hour)
        date == BcdToDec(rtc.date)
        month == BcdToDec(rtc.month)
        year == 2000 + BcdToDec(rtc.year)
    IN YearsSeconds(1970, year) + MonthsSeconds(0, month, year)
       + (date - 1) * SECONDS_PER_DAY + hour * SECONDS_PER_HOUR
       + minute * SECONDS_PER_MINUTE + second

-----------------------------------------------------------------------------
(* Reference: days from 1970-01-01 to y-m-d by the civil-calendar formula  *)
(* counting years from March (leap days at the end of the year).           *)
DaysFromCivil(y, m, d) ==
    LET yy == IF m <= 2 THEN y - 1 ELSE y
        era == yy \div 400
        yoe == yy - era * 400
        mp == (m + 9) % 12
        doy == (153 * mp + 2) \div 5 + d - 1
        doe == yoe * 365 + yoe \div 4 - yoe \div 100 + doy
    IN era * 146097 + doe - 719468

\* The decimal value of each BCD byte, the way the RTC encodes it.
Bcd(n) == (n \div 10) * 16 + (n % 10)

\* The valid RTC contents for the years and times considered.
RtcValues ==
    { [year |-> y, month |-> Bcd(m), date |-> Bcd(d),
       hour |-> t[1], minute |-> t[2], second |-> t[3]] :
        y \in RtcYears, m \in 1 .. 12, d \in 1 .. 31, t \in RtcTimes }

ValidDate(r) ==
    LET m == (r.month \div 16) * 10 + (r.month % 16)
        d == (r.date \div 16) * 10 + (r.date % 16)
        y == 2000 + (r.year \div 16) * 10 + (r.year % 16)
        leap == y % 4 = 0 /\ (y % 100 # 0 \/ y % 400 = 0)
        len == CASE m = 2 -> IF leap THEN 29 ELSE 28
                 [] m \in {4, 6, 9, 11} -> 30
                 [] OTHER -> 31
    IN d <= len

\* For every valid date and time the RTC can show in the years considered,
\* init_wall_clock sets realtime to the seconds since the Epoch: the leap
\* years counted by is_leap and the months before the current one.
WallClockMatchesReference ==
    \A r \in {v \in RtcValues : ValidDate(v)} :
        LET dec(b) == (b \div 16) * 10 + (b % 16)
        IN InitWallClock(r) =
              DaysFromCivil(2000 + dec(r.year), dec(r.month), dec(r.date)) * SECONDS_PER_DAY
              + dec(r.hour) * 3600 + dec(r.minute) * 60 + dec(r.second)
=============================================================================
