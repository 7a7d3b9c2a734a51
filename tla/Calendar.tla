------------------------------ MODULE Calendar ------------------------------
(***************************************************************************)
(* Dates and the ways this program steps from one to the next.  A date is  *)
(* 100 * (12 * year + month0) + day, so dates compare as numbers.  Three   *)
(* copies of the arithmetic exist: jobs/template_run.rs and                *)
(* handlers/recurring_journals.rs clamp the day to the month,              *)
(* workers/amortization.rs and handlers/templates.rs give up and return    *)
(* the date they were given.                                               *)
(***************************************************************************)
EXTENDS Integers

Date(year, month, day) == 100 * (12 * year + month - 1) + day
MonthOf(date) == date \div 100
DayOf(date) == date % 100

DaysInMonth(total) ==
    LET year == total \div 12
        month == (total % 12) + 1
    IN  CASE month \in {1, 3, 5, 7, 8, 10, 12} -> 31
          [] month \in {4, 6, 9, 11} -> 30
          [] year % 4 = 0 /\ (year % 100 # 0 \/ year % 400 = 0) -> 29
          [] OTHER -> 28

AddDays(date, n) ==
    LET day == DayOf(date) + n
        len == DaysInMonth(MonthOf(date))
    IN  IF day <= len THEN date + n ELSE (100 * (MonthOf(date) + 1) + day) - len

IsDate(date) == DayOf(date) \in 1..DaysInMonth(MonthOf(date))

(* add_months: the day, or the last of the month. *)
AddMonths(date, n) ==
    LET month == MonthOf(date) + n
        len == DaysInMonth(month)
    IN  100 * month + (IF DayOf(date) <= len THEN DayOf(date) ELSE len)

(* advance of the amortization worker: unwrap_or(date). *)
AddMonthsOrStay(date, n) ==
    LET month == MonthOf(date) + n
    IN  IF DayOf(date) <= DaysInMonth(month) THEN 100 * month + DayOf(date) ELSE date

MonthsIn(frequency) ==
    CASE frequency = "monthly" -> 1
      [] frequency = "quarterly" -> 3
      [] frequency = "yearly" -> 12

(* advance_frequency and advance_period. *)
AdvanceFrequency(date, frequency) ==
    CASE frequency = "weekly" -> AddDays(date, 7)
      [] frequency = "biweekly" -> AddDays(date, 14)
      [] OTHER -> AddMonths(date, MonthsIn(frequency))

Frequency == {"weekly", "biweekly", "monthly", "quarterly", "yearly"}

(* The dates a schedule comes to, one after the other. *)
NthFrom(start, frequency) ==
    LET nth[n \in Nat] == IF n = 0 THEN start ELSE AdvanceFrequency(nth[n - 1], frequency)
    IN  nth

(* The occurrences from start on that lie before the date until; a month   *)
(* has at most five.                                                       *)
Occurrences(start, frequency, until) ==
    LET nth == NthFrom(start, frequency)
    IN  {nth[n] : n \in {k \in 0..5 * (MonthOf(until) - MonthOf(start) + 1) : nth[k] < until}}
=============================================================================
