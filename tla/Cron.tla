-------------------------------- MODULE Cron --------------------------------
(***************************************************************************)
(* internal/functions/cron: parsing a five-field expression into sets of   *)
(* permitted values, and the search for the next time a schedule fires.    *)
(* A field is a sequence of items, an item the parts of "*", "*/n", "a",   *)
(* "a-b" or "a-b/n".  A time is a count of minutes on a calendar whose     *)
(* sizes are constants: what Next does depends on how the units nest, not  *)
(* on how large they are.                                                  *)
(***************************************************************************)
EXTENDS Integers, Sequences, SequencesExt, FiniteSets, FiniteSetsExt

CONSTANTS
    MonthDays,       \* days of each month of a year
    WeekDays, DayHours, HourMinutes,
    HorizonYears,    \* how far Next looks
    MaxLate          \* bound on how late a fire is seen

VARIABLES
    cronExpr,        \* the expression of a schedule
    cronNow          \* the time it was asked from last

cronVars == <<cronExpr, cronNow>>

ASSUME CalendarAssumption ==
    /\ MonthDays \in Seq(Nat \ {0}) /\ MonthDays # <<>>
    /\ {WeekDays, DayHours, HourMinutes, HorizonYears} \subseteq Nat \ {0}
    /\ MaxLate \in Nat

\* The calendar (external: Go's time package).
MinutesOfDay == DayHours * HourMinutes
DaysBefore[m \in 1..(Len(MonthDays) + 1)] ==
    IF m = 1 THEN 0 ELSE DaysBefore[m - 1] + MonthDays[m - 1]
YearDays == DaysBefore[Len(MonthDays) + 1]
DayOf(t) == t \div MinutesOfDay
MonthOf(t) == Max({m \in DOMAIN MonthDays : DaysBefore[m] <= DayOf(t) % YearDays})
DayOfMonth(t) == (DayOf(t) % YearDays) - DaysBefore[MonthOf(t)] + 1
Weekday(t) == DayOf(t) % WeekDays
HourOf(t) == (t % MinutesOfDay) \div HourMinutes
MinuteOf(t) == t % HourMinutes

\* The five fields, with the values they take.
Fields == <<"minute", "hour", "dom", "month", "dow">>
FieldMin == [minute |-> 0, hour |-> 0, dom |-> 1, month |-> 1, dow |-> 0]
FieldMax == [minute |-> HourMinutes - 1, hour |-> DayHours - 1,
             dom |-> Max(ToSet(MonthDays)), month |-> Len(MonthDays),
             dow |-> WeekDays]

\* Day of week WeekDays and 0 are the same day.
fold(v, f) == IF f = "dow" /\ v = WeekDays THEN 0 ELSE v

Refused == [mask |-> {}, star |-> FALSE]

\* One item: the values it permits, and whether its body is "*".  A value out
\* of the field's range, an inverted range, a step on a single value and a step
\* that is not positive are refused.
parseRange(item, f) ==
    LET star == item.body = "*"
        lo == IF star THEN FieldMin[f] ELSE item.lo
        hi == IF star THEN FieldMax[f] ELSE item.hi
    IN  IF \/ item.step <= 0
           \/ {lo, hi} \ (FieldMin[f]..FieldMax[f]) # {}
           \/ hi < lo
           \/ item.body = "value" /\ item.step > 1
        THEN Refused
        ELSE [mask |-> {fold(v, f) : v \in {v \in lo..hi : (v - lo) % item.step = 0}},
              star |-> star]

\* A field: the union of its items, refused if one of them is.  It counts as
\* a wildcard when it is a single item that does.
parseField(items, f) ==
    LET parsed == [i \in DOMAIN items |-> parseRange(items[i], f)] IN
    IF \E i \in DOMAIN parsed : parsed[i] = Refused THEN Refused
    ELSE [mask |-> UNION {parsed[i].mask : i \in DOMAIN parsed},
          star |-> Len(items) = 1 /\ parsed[1].star]

Accepts(expr) == \A f \in ToSet(Fields) : parseField(expr[f], f) # Refused

Parse(expr) == [f \in ToSet(Fields) |-> parseField(expr[f], f)]

\* With both day fields restricted a date matches if either does; with one a
\* wildcard the other decides.
dayMatches(s, t) ==
    LET dom == DayOfMonth(t) \in s.dom.mask
        dow == Weekday(t) \in s.dow.mask
    IN  CASE s.dom.star /\ s.dow.star -> TRUE
          [] s.dom.star /\ ~s.dow.star -> dow
          [] ~s.dom.star /\ s.dow.star -> dom
          [] OTHER -> dom \/ dow

\* The first minute of the month, day or hour after t's.
NextMonth(t) ==
    LET first == DayOf(t) - DayOfMonth(t) + 1
    IN  (first + MonthDays[MonthOf(t)]) * MinutesOfDay
NextDay(t) == (DayOf(t) + 1) * MinutesOfDay
NextHour(t) == (t \div HourMinutes + 1) * HourMinutes

\* (a bug: from a month that does not match, the search jumps one month on and
\* keeps the day)
SkipKeepsDay(s, t) ==
    IF MonthOf(t) \notin s.month.mask THEN t + MonthDays[MonthOf(t)] * MinutesOfDay
    ELSE IF ~dayMatches(s, t) THEN NextDay(t)
    ELSE IF HourOf(t) \notin s.hour.mask THEN NextHour(t)
    ELSE IF MinuteOf(t) \notin s.minute.mask THEN t + 1
    ELSE t

\* One turn of Next's loop: where the search goes from t; t itself is a match.
Skip(s, t) ==
    IF MonthOf(t) \notin s.month.mask THEN NextMonth(t)
    ELSE IF ~dayMatches(s, t) THEN NextDay(t)
    ELSE IF HourOf(t) \notin s.hour.mask THEN NextHour(t)
    ELSE IF MinuteOf(t) \notin s.minute.mask THEN t + 1
    ELSE t

Never == -1

\* Next: the first match strictly after t within the horizon.
NextFire(s, t) ==
    LET limit == t + 1 + HorizonYears * YearDays * MinutesOfDay
        from[u \in (t + 1)..limit] ==
          IF u >= limit THEN Never
          ELSE IF Skip(s, u) = u THEN u
          ELSE from[Min({Skip(s, u), limit})]
    IN  from[t + 1]

-----------------------------------------------------------------------------
(* What an expression means: the times at which every field permits the    *)
(* time's value, the day by either day field when both are restricted.     *)

\* A day field restricts the day unless it is "*", alone.
Restricted(items) ==
    ~(Len(items) = 1 /\ items[1].body = "*" /\ items[1].step = 1)

Means(expr, t) ==
    LET Permits(f, v) == v \in parseField(expr[f], f).mask
        dom == Permits("dom", DayOfMonth(t))
        dow == Permits("dow", Weekday(t))
    IN  /\ Permits("month", MonthOf(t)) /\ Permits("hour", HourOf(t))
        /\ Permits("minute", MinuteOf(t))
        /\ IF Restricted(expr.dom) /\ Restricted(expr.dow)
           THEN dom \/ dow ELSE dom /\ dow

\* The first time after t, within the horizon, that expr means.
FirstMeant(expr, t) ==
    LET meant == {u \in (t + 1)..(t + HorizonYears * YearDays * MinutesOfDay) :
                    Means(expr, u)}
    IN  IF meant = {} THEN Never ELSE Min(meant)

\* A day field "*/n" with n > 1.
SteppedDay(expr) ==
    \E f \in {"dom", "dow"} :
        Len(expr[f]) = 1 /\ expr[f][1].body = "*" /\ expr[f][1].step > 1

-----------------------------------------------------------------------------
(* A schedule in use, asked again and again for its next fire.             *)

\* What an operator may write.
Item == [body : {"*", "value", "range"}, lo : Int, hi : Int, step : Int]
Expressions == [ToSet(Fields) -> Seq(Item) \ {<<>>}]

CronInit == cronExpr \in Expressions /\ cronNow \in Nat

\* fireDueCrons: what is due fires, on time or late, and the next fire is looked
\* for from now; what a late fire slept through is skipped.
FireCron ==
    /\ Accepts(cronExpr) /\ NextFire(Parse(cronExpr), cronNow) # Never
    /\ \E late \in 0..MaxLate :
          cronNow' = NextFire(Parse(cronExpr), cronNow) + late
    /\ UNCHANGED cronExpr

CronSpec == CronInit /\ [][FireCron]_cronVars

\* Whenever it is asked, a schedule answers the first time its expression
\* means: none is skipped by the search's jumps, none comes twice.  Day fields of the form "*/n" are left out: see NextMeans.
NextExact ==
    Accepts(cronExpr) /\ ~SteppedDay(cronExpr) =>
        NextFire(Parse(cronExpr), cronNow) = FirstMeant(cronExpr, cronNow)
=============================================================================
