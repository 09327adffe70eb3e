----------------------------- MODULE RelativeDates -----------------------------
(* The ranges that a slicer of a relative date or of a relative time selects.

   A date is the number of days since the first of January of FirstYear, a time
   a number of seconds.  A selection has a direction, a unit, a count, whether
   the current unit belongs to it, and, for dates, whether it is made of whole
   units of the calendar or rolls with the day.                               *)
EXTENDS Integers, FiniteSets

CONSTANTS
  FirstYear, Years,   \* the span of the calendar
  FirstWeekday        \* the weekday of its first day; Monday is 0

ASSUME CalendarAssumption ==
  FirstYear \in Nat /\ Years \in Nat \ {0} /\ FirstWeekday \in 0..6

DateUnits == {"day", "week", "month", "quarter", "year"}
TimeUnits == {"minute", "hour"}
Directions == {"last", "next", "this"}

-----------------------------------------------------------------------------
(* Months are numbered from the first one, too.                               *)
IsLeap(y) == y % 4 = 0 /\ (y % 100 # 0 \/ y % 400 = 0)
DaysIn(m) ==
  LET month == (m % 12) + 1
  IN IF month = 2 THEN IF IsLeap(FirstYear + m \div 12) THEN 29 ELSE 28
     ELSE IF month \in {4, 6, 9, 11} THEN 30 ELSE 31
\* As datetime.date counts: the days before a year, before a month of it, and before
\* a month of the calendar.
DaysBeforeYear(y) == 365 * (y - 1) + (y - 1) \div 4 - (y - 1) \div 100 + (y - 1) \div 400
DaysBeforeMonth == <<0, 31, 59, 90, 120, 151, 181, 212, 243, 273, 304, 334>>
StartOfMonth(m) ==
  LET year == FirstYear + m \div 12
  IN DaysBeforeYear(year) - DaysBeforeYear(FirstYear) + DaysBeforeMonth[(m % 12) + 1]
       + (IF m % 12 > 1 /\ IsLeap(year) THEN 1 ELSE 0)
Starts == [m \in 1..(12 * Years) |-> StartOfMonth(m)]
MonthOf(d) == Cardinality({m \in DOMAIN Starts : Starts[m] <= d})
DayInMonth(d) == d - StartOfMonth(MonthOf(d))

Least(a, b) == IF a < b THEN a ELSE b

\* Mutant of AddMonths: the day is carried into the next month.
AddMonthsCarried(d, n) == StartOfMonth(MonthOf(d) + n) + DayInMonth(d)

\* _add_months: a day that the month does not have becomes its last one.
AddMonths(d, n) ==
  StartOfMonth(MonthOf(d) + n) + Least(DayInMonth(d), DaysIn(MonthOf(d) + n) - 1)

\* _add_relative_units, _start_of_relative_unit, _end_of_relative_unit
DaysPer == [day |-> 1, week |-> 7]
MonthsPer == [month |-> 1, quarter |-> 3, year |-> 12]
AddUnits(d, unit, n) ==
  IF unit \in DOMAIN DaysPer THEN d + n * DaysPer[unit] ELSE AddMonths(d, n * MonthsPer[unit])

StartOfUnit(d, unit) ==
  IF unit = "week" THEN d - ((d + FirstWeekday) % 7)
  ELSE IF unit = "day" THEN d
  ELSE StartOfMonth(MonthOf(d) - (MonthOf(d) % MonthsPer[unit]))

EndOfUnit(d, unit) == AddUnits(StartOfUnit(d, unit), unit, 1) - 1

-----------------------------------------------------------------------------
(* _resolve_relative_date_range: first and last day.                          *)
This(d, unit) == <<StartOfUnit(d, unit), EndOfUnit(d, unit)>>

\* Whole units, from the first unit to the last; own is the current one's first day.
Calendar(own, sel) ==
  LET near == IF sel.current THEN own
              ELSE AddUnits(own, sel.unit, IF sel.direction = "last" THEN -1 ELSE 1)
      far  == AddUnits(near, sel.unit, IF sel.direction = "last" THEN 1 - sel.count ELSE sel.count - 1)
  IN <<StartOfUnit(IF sel.direction = "last" THEN far ELSE near, sel.unit),
       EndOfUnit(IF sel.direction = "last" THEN near ELSE far, sel.unit)>>

\* As many units back or ahead, to the day.
Rolling(d, sel) ==
  LET skip == IF sel.current THEN 0 ELSE 1
  IN IF sel.direction = "last"
     THEN <<AddUnits(d, sel.unit, -sel.count) + 1 - skip, d - skip>>
     ELSE <<d + skip, AddUnits(d + skip, sel.unit, sel.count) - 1>>

DateRange(d, sel) ==
  IF sel.direction = "this" THEN This(d, sel.unit)
  ELSE IF sel.whole THEN Calendar(StartOfUnit(d, sel.unit), sel) ELSE Rolling(d, sel)

-----------------------------------------------------------------------------
(* _resolve_relative_time_range: first and last second.                       *)
Seconds(unit) == IF unit = "minute" THEN 60 ELSE 3600
StartOfTimeUnit(t, unit) == t - (t % Seconds(unit))

TimeRange(t, sel) ==
  LET own == StartOfTimeUnit(t, sel.unit)
      span == sel.count * Seconds(sel.unit)
      end  == IF sel.current THEN t ELSE own - 1
      from == IF sel.current THEN t ELSE own + Seconds(sel.unit)
  IN CASE sel.direction = "this" -> <<own, own + Seconds(sel.unit) - 1>>
       [] sel.direction = "last" -> <<end - span, end>>
       [] sel.direction = "next" -> <<from, from + span>>
================================================================================
