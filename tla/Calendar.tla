------------------------------ MODULE Calendar ------------------------------
(***************************************************************************)
(* Date.c, TimeInterval.c, DateTime.c, Anniversary.c, DstTransitionTime.c, *)
(* LocalDateTime.c and TimeZone.c: days that are given by a rule, and the  *)
(* conversion between UTC and the clock of a zone with two transitions a   *)
(* year.                                                                   *)
(*                                                                         *)
(* Totals count minutes from the start of 1970 (the code: microseconds),   *)
(* days of the week from Sunday, months and days from one. A bias is what  *)
(* is added to a local time to get UTC.                                    *)
(***************************************************************************)
EXTENDS Integers, FiniteSets

DAYS_PER_WEEK == 7
MINUTES_PER_DAY == 24 * 60

SUNDAY == 0
MONDAY == 1
SATURDAY == 6

DAY_ORDER_LAST == 5

Failed == [error |-> TRUE]

-----------------------------------------------------------------------------
(* timegm and gmtime_r of the C library, for the years 1970 to 2099: every fourth
   year, counted from 1969, ends a cycle of 1461 days *)

Years == 1970 .. 2099

IsLeap(year) == year % 4 = 0

DaysOfMonth(year, month) ==
    CASE month = 2 -> IF IsLeap(year) THEN 29 ELSE 28
      [] month \in {4, 6, 9, 11} -> 30
      [] OTHER -> 31

DaysBeforeYear(year) == 365 * (year - 1970) + (year - 1969) \div 4

DaysBeforeMonth(year, month) ==
    <<0, 31, 59, 90, 120, 151, 181, 212, 243, 273, 304, 334>>[month]
    + (IF IsLeap(year) /\ month > 2 THEN 1 ELSE 0)

DayNumber(year, month, day) == DaysBeforeYear(year) + DaysBeforeMonth(year, month) + day - 1

YearOf(number) == 1969 + (4 * (number + 365) + 3) \div 1461

MonthOf(year, dayOfYear) ==
    CHOOSE m \in 1 .. 12 :
        dayOfYear - DaysBeforeMonth(year, m) \in 1 .. DaysOfMonth(year, m)

WeekdayOf(number) == (number + 4) % DAYS_PER_WEEK

-----------------------------------------------------------------------------
(* Date, TimeInterval, DateTime *)

\* Date.Initialize: year, month and day are kept as they are given, the total
\* and the days of week and year follow the calendar.
DateOf(year, month, day) ==
    LET number == DayNumber(year, month, day)
    IN  [error |-> FALSE, year |-> year, month |-> month, day |-> day,
         total |-> number * MINUTES_PER_DAY, dayOfWeek |-> WeekdayOf(number),
         dayOfYear |-> 1 + number - DaysBeforeYear(YearOf(number))]

\* Date.InitializeByTotalMicroseconds: the time of day is cut off.
DateOn[number \in 0 .. DaysBeforeYear(2100) - 1] ==
    LET year == YearOf(number)
        dayOfYear == 1 + number - DaysBeforeYear(year)
        month == MonthOf(year, dayOfYear)
    IN  [error |-> FALSE, year |-> year, month |-> month,
         day |-> dayOfYear - DaysBeforeMonth(year, month),
         total |-> number * MINUTES_PER_DAY, dayOfWeek |-> WeekdayOf(number),
         dayOfYear |-> dayOfYear]

DateAt(total) == DateOn[total \div MINUTES_PER_DAY]

\* TimeInterval.Initialize; its totals are those of the fields.
Interval(day, hour, minute) ==
    IF 24 <= hour \/ 60 <= minute THEN Failed
    ELSE [error |-> FALSE, day |-> day, hour |-> hour, minute |-> minute,
          total |-> (day * 24 + hour) * 60 + minute]

\* An interval of whole days.
Days(day) == Interval(day, 0, 0).total

\* DateTime.InitializeByTotalMicroseconds; its time of day is not used here.
DateTimeAt(total) == [total |-> total, date |-> DateAt(total)]

-----------------------------------------------------------------------------
(* Anniversary *)

\* Days from one day of the week on to the next of another.
DaysUntil(dayOfWeek, from) == (dayOfWeek + DAYS_PER_WEEK - from) % DAYS_PER_WEEK

\* Mutant of OrderedDay: a last day of a month that has no fifth is not corrected.
OrderedDayFifth(year, month, dayOfWeek, dayOrder) ==
    LET first == DateOf(year, month, 1)
        step == Days(DaysUntil(dayOfWeek, first.dayOfWeek) + DAYS_PER_WEEK * (dayOrder - 1))
    IN  DateAt(first.total + step)

\* The first, ..., fourth or last day of the week in a month. The last one is
\* the fifth, or a week before it when that is in the next month.
OrderedDay(year, month, dayOfWeek, dayOrder) ==
    LET first == DateOf(year, month, 1)
        step == Days(DaysUntil(dayOfWeek, first.dayOfWeek) + DAYS_PER_WEEK * (dayOrder - 1))
        date == DateAt(first.total + step)
    IN  IF dayOrder = DAY_ORDER_LAST /\ date.month # month
        THEN DateAt(date.total - Days(DAYS_PER_WEEK))
        ELSE date

\* The three kinds of weeks: their first day, and the day of January that is
\* always in week one.
FirstDayOfWeek(weekType) ==
    CASE weekType = "ISO_8601" -> MONDAY
      [] weekType = "ISLAMIC" -> SATURDAY
      [] weekType = "NORTH_AMERICAN" -> SUNDAY

DayInWeekOne(weekType) == IF weekType = "ISO_8601" THEN 4 ELSE 1

\* A day of a week of the year.
WeekDay(year, weekType, weekOrder, dayOfWeek) ==
    LET firstDay == FirstDayOfWeek(weekType)
        inside == DateOf(year, 1, DayInWeekOne(weekType))
        back == Days(DaysUntil(inside.dayOfWeek, firstDay))
        forth == Days(DAYS_PER_WEEK * (weekOrder - 1) + DaysUntil(dayOfWeek, firstDay))
    IN  DateAt(inside.total - back + forth)

\* The initialisers: an anniversary is a record with the fields of its category.
\* A day of the week of seven is accepted and taken for Sunday.
ByMonthDay(calendar, month, day) ==
    IF calendar = "UNKNOWN" THEN Failed
    ELSE [error |-> FALSE, category |-> "MONTH_DAY", calendar |-> calendar,
          month |-> month, day |-> day]

ByDayOrder(month, dayOfWeek, dayOrder) ==
    IF DAYS_PER_WEEK < dayOfWeek \/ DAY_ORDER_LAST < dayOrder THEN Failed
    ELSE [error |-> FALSE, category |-> "DAYOFWEEK_DAYORDER", calendar |-> "GREGORIAN",
          month |-> month, dayOfWeek |-> dayOfWeek, dayOrder |-> dayOrder]

ByWeekOrder(weekType, weekOrder, dayOfWeek) ==
    IF weekType = "UNKNOWN" \/ DAYS_PER_WEEK < dayOfWeek THEN Failed
    ELSE [error |-> FALSE, category |-> "WEEKORDER_DAYOFWEEK", calendar |-> "GREGORIAN",
          weekType |-> weekType, weekOrder |-> weekOrder, dayOfWeek |-> dayOfWeek]

ByDayOfYear(calendar, dayOfYear) ==
    IF calendar = "UNKNOWN" THEN Failed
    ELSE [error |-> FALSE, category |-> "DAYOFYEAR", calendar |-> calendar,
          dayOfYear |-> dayOfYear]

\* The monthly categories check less.
ByDay(calendar, day) ==
    IF calendar = "UNKNOWN" THEN Failed
    ELSE [error |-> FALSE, category |-> "MONTHLY_DAY", calendar |-> calendar, day |-> day]

ByMonthlyDayOrder(dayOfWeek, dayOrder) ==
    IF DAY_ORDER_LAST < dayOrder THEN Failed
    ELSE [error |-> FALSE, category |-> "MONTHLY_DAYORDER", calendar |-> "GREGORIAN",
          dayOfWeek |-> dayOfWeek % 8, dayOrder |-> dayOrder]

\* _GetDate; GetYearlyDate and GetMonthlyDate call it.
GetDate(a, year, month) ==
    CASE a.calendar = "CHINESE_LUNAR" -> Failed
      [] OTHER ->
         CASE a.category = "MONTH_DAY" -> DateOf(year, a.month, a.day)
           [] a.category = "MONTHLY_DAY" -> DateOf(year, month, a.day)
           [] a.category = "DAYOFWEEK_DAYORDER" ->
                OrderedDay(year, a.month, a.dayOfWeek, a.dayOrder)
           [] a.category = "MONTHLY_DAYORDER" ->
                OrderedDay(year, month, a.dayOfWeek, a.dayOrder)
           [] a.category = "WEEKORDER_DAYOFWEEK" ->
                WeekDay(year, a.weekType, a.weekOrder, a.dayOfWeek)
           [] a.category = "DAYOFYEAR" ->
                DateAt(DateOf(year, 1, 1).total + Days(a.dayOfYear - 1))

-----------------------------------------------------------------------------
(* DstTransitionTime, LocalDateTime, TimeZone *)

\* DstTransitionTime.Initialize
Transition(bias, month, dayOfWeek, dayOrder, hour, minute) ==
    LET date == ByDayOrder(month, dayOfWeek, dayOrder)
        time == Interval(0, hour, minute)
    IN  IF date.error \/ time.error THEN Failed
        ELSE [error |-> FALSE, bias |-> bias, date |-> date, time |-> time]

\* DstTransitionTime.GetDateTime: the reading of the clock at the transition.
TransitionAt(transition, year) == GetDate(transition.date, year, 0).total + transition.time.total

\* TimeZone.InitializeWithDst; without DST the transitions stay unused.
ZoneWithDst(bias, dst, std) == [bias |-> bias, useDst |-> TRUE, dst |-> dst, std |-> std]
ZoneWithoutDst(bias) == [bias |-> bias, useDst |-> FALSE]

\* The two transitions of each year in order, and the bias between and outside them.
Transitions(zone) ==
    [year \in Years |->
        LET dst == TransitionAt(zone.dst, year)
            std == TransitionAt(zone.std, year)
        IN  IF dst < std
            THEN [early |-> dst, late |-> std, between |-> zone.dst.bias, outOf |-> zone.std.bias]
            ELSE [early |-> std, late |-> dst, between |-> zone.std.bias, outOf |-> zone.dst.bias]]

\* GetUtcDateTime, from the reading of the clock.
GetUtc(zone, local) ==
    LET t == Transitions(zone)[DateTimeAt(local).date.year]
    IN  IF ~zone.useDst THEN local + zone.bias
        ELSE local + zone.bias
             + (IF t.early <= local /\ local < t.late THEN t.between ELSE t.outOf)

\* Mutant of GetLocal: both transitions are read as standard time.
GetLocalOneBias(zone, utc) ==
    LET t == Transitions(zone)[DateTimeAt(utc - zone.bias).date.year]
        early == t.early + zone.bias + t.outOf
        late == t.late + zone.bias + t.outOf
    IN  IF ~zone.useDst THEN utc - zone.bias
        ELSE utc - zone.bias - (IF early <= utc /\ utc < late THEN t.between ELSE t.outOf)

\* GetLocalDateTimeFromUtcTotalMicroseconds: the year is that of standard time,
\* each transition is a reading of the clock just before it.
GetLocal(zone, utc) ==
    LET t == Transitions(zone)[DateTimeAt(utc - zone.bias).date.year]
        early == t.early + zone.bias + t.outOf
        late == t.late + zone.bias + t.between
    IN  IF ~zone.useDst THEN utc - zone.bias
        ELSE utc - zone.bias - (IF early <= utc /\ utc < late THEN t.between ELSE t.outOf)
=============================================================================
