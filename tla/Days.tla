-------------------------------- MODULE Days --------------------------------
(***************************************************************************)
(* internal/vector: the day numbers behind the weekday and the minutes     *)
(* since the last transaction, beside a calendar that goes from one day    *)
(* to the next.                                                            *)
(***************************************************************************)
EXTENDS Integers

CONSTANTS
  FirstYears,   \* the walk starts on 1 January of one of them ...
  Years         \* ... and takes that many years

ASSUME DaysAssumption == FirstYears \subseteq Nat \ {0} /\ Years \in Nat

monthDaysBefore == <<0, 31, 59, 90, 120, 151, 181, 212, 243, 273, 304, 334>>

\* Mutant: every fourth year is a leap year.
isLeapJulian(y) == y % 4 = 0

isLeap(y) == (y % 4 = 0 /\ y % 100 # 0) \/ y % 400 = 0

\* The divisions truncate; no year is below 1.
dayNumberFromYMD(y, m, d) ==
  LET yPrev == y - 1
  IN  yPrev * 365 + yPrev \div 4 - yPrev \div 100 + yPrev \div 400
      + monthDaysBefore[m] + d - 1 + (IF m > 2 /\ isLeap(y) THEN 1 ELSE 0)

VARIABLES first, date, passed   \* the first year, today, the days since

dayVars == <<first, date, passed>>

\* The calendar, of months and of the years that have a 29 February.
MonthLength(y, m) ==
  CASE m \in {4, 6, 9, 11} -> 30
    [] m = 2 -> IF y % 4 # 0 \/ (y % 100 = 0 /\ y % 400 # 0) THEN 28 ELSE 29
    [] OTHER -> 31

NextDay ==
  /\ date.y < first + Years
  /\ date' = IF date.d < MonthLength(date.y, date.m) THEN [date EXCEPT !.d = @ + 1]
             ELSE IF date.m < 12 THEN [y |-> date.y, m |-> date.m + 1, d |-> 1]
             ELSE [y |-> date.y + 1, m |-> 1, d |-> 1]
  /\ passed' = passed + 1
  /\ UNCHANGED first

DayInit == first \in FirstYears /\ date = [y |-> first, m |-> 1, d |-> 1] /\ passed = 0
DaySpec == DayInit /\ [][NextDay]_dayVars

\* The difference of two day numbers is the number of days between the dates,
\* across months, leap days and centuries, counted from 1 January of year 1.
DaysRight ==
  /\ dayNumberFromYMD(date.y, date.m, date.d) = dayNumberFromYMD(first, 1, 1) + passed
  /\ first = 1 => dayNumberFromYMD(first, 1, 1) = 0

=============================================================================
