------------------------------ MODULE Calendar ------------------------------
(***************************************************************************)
(* time_gmtime of fast_time.c: the date of a number of days since 1970 by  *)
(* Gauss' formula, against a calendar that counts the days one by one.     *)
(* The time is cut to 32 bits, so that the formula holds until day 49710   *)
(* (in 2106), the last that begins before they end.                        *)
(***************************************************************************)
EXTENDS Integers

CONSTANT LastDay      \* bound: days counted

VARIABLES
  day,                \* since January 1, 1970
  date                \* of that day: [year, mon, mday, wday]

cal_vars == <<day, date>>

LeapYear(y) == y % 4 = 0 /\ (y % 100 # 0 \/ y % 400 = 0)

(* Mutated form: the years of a century are taken for leap years. *)
YearDay_NoCentury(days, year) == days - (365 * year + year \div 4)

(* Days since March 1 of the year, negative for the end of the year before. *)
YearDay(days, year) ==
  days - (365 * year + year \div 4 - year \div 100 + year \div 400)

(* The days are those of the 32-bit time; its hours, minutes and seconds are the remainders. *)
Gmtime(d) ==
  LET days  == d - (31 + 28) + 719527       \* since March 1, 1 BC
      guess == ((days + 2) * 400) \div (365 * 400 + 100 - 4 + 1)
      early == YearDay(days, guess) < 0
      leap  == IF LeapYear(guess) THEN 1 ELSE 0
      yday  == IF early THEN 365 + leap + YearDay(days, guess) ELSE YearDay(days, guess)
      year  == IF early THEN guess - 1 ELSE guess
      mon   == ((yday + 31) * 10) \div 306
  IN  [year |-> IF yday >= 306 THEN year + 1 ELSE year,
       mon  |-> IF yday >= 306 THEN mon - 10 ELSE mon + 2,
       mday |-> yday - ((367 * mon) \div 12 - 30) + 1,
       wday |-> (4 + d) % 7]

-----------------------------------------------------------------------------
(* The calendar. *)
MonthDays(y, m) ==
  IF m = 2 THEN 28 + (IF LeapYear(y) THEN 1 ELSE 0)
  ELSE IF m \in {4, 6, 9, 11} THEN 30 ELSE 31

CalInit == day = 0 /\ date = [year |-> 1970, mon |-> 1, mday |-> 1, wday |-> 4]

NextDay ==
  LET last == date.mday = MonthDays(date.year, date.mon)
      dec  == date.mon = 12
  IN  /\ day < LastDay
      /\ day' = day + 1
      /\ date' = [mday |-> IF last THEN 1 ELSE date.mday + 1,
                  mon  |-> IF ~last THEN date.mon ELSE IF dec THEN 1 ELSE date.mon + 1,
                  year |-> IF last /\ dec THEN date.year + 1 ELSE date.year,
                  wday |-> (date.wday + 1) % 7]

-----------------------------------------------------------------------------
(* The formula gives the calendar's date, over every leap day, the end of  *)
(* the century that has one and of the one that has none, as long as 32    *)
(* bits last.                                                              *)
DateRight == Gmtime(day) = date
=============================================================================
