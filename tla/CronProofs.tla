----------------------------- MODULE CronProofs -----------------------------
(***************************************************************************)
(* The search for a schedule's next fire is exact: for every calendar,     *)
(* every expression that Parse accepts and every time, its jumps over      *)
(* months, days and hours pass no match, and what it finds is the first    *)
(* time the expression means.                                              *)
(***************************************************************************)
EXTENDS Cron, WellFoundedInduction, TLAPS

-----------------------------------------------------------------------------
(* Numbers.                                                                *)

LEMMA Smallest ==
    ASSUME NEW S, S \subseteq Nat, S # {}
    PROVE  \E x \in S : \A y \in S : x <= y
<1>1. PICK x \in S : \A y \in S : ~ (<<y, x>> \in OpToRel(<, Nat))
  BY NatLessThanWellFounded, WFMin, Zenon
<1>2. \A y \in S : ~ (y < x)
  BY <1>1 DEF OpToRel
<1> QED BY <1>2

\* Quotients and remainders, of a divisor that is not a number but a constant.
LEMMA Divided ==
    ASSUME NEW b \in Nat \ {0}, NEW a \in Nat
    PROVE  /\ a \div b \in Nat /\ a % b \in 0..(b - 1)
           /\ a = b * (a \div b) + (a % b) /\ b * (a \div b) \in Nat
  OBVIOUS

LEMMA DividedOnce ==
    ASSUME NEW b \in Nat \ {0}, NEW q \in Nat, NEW r \in 0..(b - 1)
    PROVE  (b * q + r) \div b = q /\ (b * q + r) % b = r
  OBVIOUS

LEMMA Multiples ==
    ASSUME NEW b \in Nat \ {0}, NEW p \in Nat, NEW q \in Nat, p < q
    PROVE  b * p \in Nat /\ b * q \in Nat /\ b * p + b <= b * q
  OBVIOUS

\* Between a number and the next multiple the quotient is the same.
LEMMA SameQuotient ==
    ASSUME NEW b \in Nat \ {0}, NEW a \in Nat, NEW c \in Nat,
           a <= c, c < (a \div b + 1) * b
    PROVE  c \div b = a \div b
<1> DEFINE q == a \div b
<1>1. q \in Nat /\ b * q <= a /\ b * q \in Nat
  BY Divided
<1>2. c < b * q + b
  BY <1>1
<1>3. c - b * q \in 0..(b - 1)
  BY <1>1, <1>2
<1>4. c = b * q + (c - b * q)
  BY <1>1
<1>5. (b * q + (c - b * q)) \div b = q
  BY <1>1, <1>3, DividedOnce
<1> QED BY <1>4, <1>5

\* The next multiple is later.
LEMMA NextMultiple ==
    ASSUME NEW b \in Nat \ {0}, NEW a \in Nat
    PROVE  (a \div b + 1) * b \in Nat /\ a < (a \div b + 1) * b
<1>1. (a \div b + 1) * b = b * (a \div b) + b
  BY Divided
<1> QED BY <1>1, Divided

\* The hour of a time is the remainder of its hours.
LEMMA QuotientOfRemainder ==
    ASSUME NEW b \in Nat \ {0}, NEW d \in Nat \ {0}, NEW a \in Nat
    PROVE  (a % (d * b)) \div b = (a \div b) % d
<1> DEFINE h == a \div b
           m == a % b
           q == h \div d
           r == h % d
<1>1. h \in Nat /\ m \in 0..(b - 1) /\ a = b * h + m
  BY Divided
<1>2. q \in Nat /\ r \in 0..(d - 1) /\ h = d * q + r
  BY <1>1, Divided
<1> HIDE DEF h, m, q, r
<1>3. b * r + m \in 0..(d * b - 1)
  <2>1. b * r \in Nat /\ r + 1 <= d
    BY <1>2
  <2>2. b * (r + 1) <= b * d
    BY <1>2, <2>1
  <2> QED BY <1>1, <1>2, <2>1, <2>2
<1>4. a = (d * b) * q + (b * r + m)
  BY <1>1, <1>2
<1>5. d * b \in Nat \ {0}
  OBVIOUS
<1>6. ((d * b) * q + (b * r + m)) % (d * b) = b * r + m
  BY <1>2, <1>3, <1>5, DividedOnce
<1>7. (b * r + m) \div b = r
  BY <1>1, <1>2, DividedOnce
<1> QED BY <1>4, <1>6, <1>7 DEF r, h

-----------------------------------------------------------------------------
(* The calendar.                                                           *)

Months == 1..Len(MonthDays)

LEMMA CalendarTypes ==
    /\ Len(MonthDays) \in Nat \ {0} /\ DOMAIN MonthDays = Months
    /\ \A m \in Months : MonthDays[m] \in Nat \ {0}
    /\ WeekDays \in Nat \ {0} /\ DayHours \in Nat \ {0}
    /\ HourMinutes \in Nat \ {0} /\ HorizonYears \in Nat \ {0}
    /\ MinutesOfDay \in Nat \ {0}
<1>1. MonthDays \in Seq(Nat \ {0}) /\ MonthDays # <<>>
  BY CalendarAssumption
<1>2. Len(MonthDays) \in Nat \ {0} /\ DOMAIN MonthDays = Months
  BY <1>1 DEF Months
<1>3. \A m \in Months : MonthDays[m] \in Nat \ {0}
  BY <1>1, <1>2
<1>4. /\ WeekDays \in Nat \ {0} /\ DayHours \in Nat \ {0}
      /\ HourMinutes \in Nat \ {0} /\ HorizonYears \in Nat \ {0}
  BY CalendarAssumption
<1>5. DayHours * HourMinutes \in Nat \ {0}
  BY <1>4
<1> QED BY <1>2, <1>3, <1>4, <1>5 DEF MinutesOfDay

\* f counts the days before each month, up to month n.
IsCount(f, n) ==
    f = [m \in 1..n |-> IF m = 1 THEN 0 ELSE f[m - 1] + MonthDays[m - 1]]

LEMMA CountGrows ==
    ASSUME NEW f, NEW n \in Nat \ {0}, IsCount(f, n)
    PROVE  \E g : IsCount(g, n + 1)
<1> DEFINE body(h, m) == IF m = 1 THEN 0 ELSE h[m - 1] + MonthDays[m - 1]
           g == [m \in 1..(n + 1) |-> IF m <= n THEN f[m] ELSE f[n] + MonthDays[n]]
<1>1. ASSUME NEW m \in 1..(n + 1) PROVE g[m] = body(g, m)
  <2>1. CASE m <= n
    <3>1. m \in 1..n /\ f[m] = body(f, m)
      BY <2>1 DEF IsCount
    <3>2. m # 1 => m - 1 \in 1..(n + 1) /\ m - 1 <= n
      BY <2>1
    <3>3. m # 1 => g[m - 1] = f[m - 1]
      BY <3>2
    <3> QED BY <2>1, <3>1, <3>3
  <2>2. CASE m = n + 1
    <3>1. n \in 1..(n + 1) /\ g[n] = f[n] /\ m - 1 = n /\ m # 1 /\ ~(m <= n)
      BY <2>2
    <3> QED BY <3>1
  <2> QED BY <2>1, <2>2
<1>2. g = [m \in 1..(n + 1) |-> g[m]]
  OBVIOUS
<1> HIDE DEF g
<1>3. [m \in 1..(n + 1) |-> g[m]] = [m \in 1..(n + 1) |-> body(g, m)]
  BY <1>1
<1>4. g = [m \in 1..(n + 1) |-> body(g, m)]
  BY <1>2, <1>3
<1> QED BY <1>4 DEF IsCount

LEMMA CountExists ==
    ASSUME NEW n \in Nat \ {0}
    PROVE  \E f : IsCount(f, n)
<1> DEFINE S == {k \in Nat : k # 0 /\ ~ \E f : IsCount(f, k)}
<1>1. SUFFICES ASSUME S # {} PROVE FALSE
  OBVIOUS
<1>2. S \subseteq Nat
  OBVIOUS
<1>3. PICK k \in S : \A j \in S : k <= j
  BY <1>1, <1>2, Smallest
<1>4. CASE k = 1
  <2>1. IsCount([m \in 1..1 |-> 0], 1)
    BY DEF IsCount
  <2> QED BY <1>4, <2>1
<1>5. CASE k # 1
  <2>1. k - 1 \in Nat \ {0} /\ k - 1 \notin S /\ (k - 1) + 1 = k
    BY <1>3, <1>5
  <2>2. PICK f : IsCount(f, k - 1)
    BY <2>1
  <2>3. \E g : IsCount(g, (k - 1) + 1)
    BY <2>1, <2>2, CountGrows
  <2> QED BY <2>1, <2>3
<1> QED BY <1>4, <1>5

LEMMA DaysBeforeIs ==
    /\ DaysBefore[1] = 0
    /\ \A m \in Months : DaysBefore[m + 1] = DaysBefore[m] + MonthDays[m]
<1> DEFINE n == Len(MonthDays) + 1
<1>1. n \in Nat \ {0} /\ 1 \in 1..n
  BY CalendarTypes
<1>2. \E f : IsCount(f, n)
  BY <1>1, CountExists
<1>3. DaysBefore = CHOOSE f : IsCount(f, n)
  BY DEF DaysBefore, IsCount
<1>4. IsCount(DaysBefore, n)
  BY <1>2, <1>3, Zenon
<1> HIDE DEF n
<1>5. \A m \in 1..n : DaysBefore[m] = IF m = 1 THEN 0 ELSE DaysBefore[m - 1] + MonthDays[m - 1]
  BY <1>4 DEF IsCount
<1>6. ASSUME NEW m \in Months
      PROVE  DaysBefore[m + 1] = DaysBefore[m] + MonthDays[m]
  <2>1. m + 1 \in 1..n /\ m + 1 # 1 /\ (m + 1) - 1 = m
    BY CalendarTypes DEF n, Months
  <2> QED BY <1>5, <2>1
<1> QED BY <1>1, <1>5, <1>6

\* The months follow one another.
LEMMA MonthsRise ==
    ASSUME NEW n \in 1..(Len(MonthDays) + 1)
    PROVE  /\ DaysBefore[n] \in Nat
           /\ \A m \in Months : m < n => /\ DaysBefore[m] \in Nat
                                         /\ DaysBefore[m] + MonthDays[m] <= DaysBefore[n]
<1> DEFINE Good(k) == /\ DaysBefore[k] \in Nat
                      /\ \A m \in Months : m < k => /\ DaysBefore[m] \in Nat
                                                    /\ DaysBefore[m] + MonthDays[m] <= DaysBefore[k]
           S == {k \in 1..(Len(MonthDays) + 1) : ~Good(k)}
<1>1. SUFFICES ASSUME S # {} PROVE FALSE
  OBVIOUS
<1>2. S \subseteq Nat
  BY CalendarTypes
<1>3. PICK k \in S : \A j \in S : k <= j
  BY <1>1, <1>2, Smallest
<1>4. k \in Nat /\ k >= 1 /\ k <= Len(MonthDays) + 1
  BY CalendarTypes, <1>3
<1>5. CASE k = 1
  <2>1. \A m \in Months : ~(m < 1)
    BY DEF Months
  <2> QED BY <1>3, <1>5, <2>1, DaysBeforeIs
<1>6. CASE k # 1
  <2>1. k - 1 \in Months /\ k - 1 \in 1..(Len(MonthDays) + 1) /\ k - 1 \notin S /\ (k - 1) + 1 = k
    BY <1>3, <1>4, <1>6, CalendarTypes DEF Months
  <2>2. Good(k - 1)
    BY <2>1
  <2>3. DaysBefore[k] = DaysBefore[k - 1] + MonthDays[k - 1] /\ MonthDays[k - 1] \in Nat
    BY <2>1, DaysBeforeIs, CalendarTypes
  <2>4. ASSUME NEW m \in Months, m < k
        PROVE  DaysBefore[m] \in Nat /\ DaysBefore[m] + MonthDays[m] <= DaysBefore[k]
    <3>1. m \in Nat /\ MonthDays[m] \in Nat
      BY CalendarTypes DEF Months
    <3>2. CASE m = k - 1
      BY <2>2, <2>3, <3>2
    <3>3. CASE m < k - 1
      BY <2>2, <2>3, <3>1, <3>3
    <3> QED BY <1>4, <2>4, <3>1, <3>2, <3>3
  <2> QED BY <1>3, <2>2, <2>3, <2>4
<1> QED BY <1>5, <1>6

\* Day d of a year is in month m.
InMonth(d, m) == DaysBefore[m] <= d /\ d < DaysBefore[m] + MonthDays[m]

LEMMA YearType == YearDays \in Nat \ {0}
<1>1. 1 \in Months /\ Len(MonthDays) + 1 \in 1..(Len(MonthDays) + 1)
      /\ 1 < Len(MonthDays) + 1
  BY CalendarTypes DEF Months
<1>2. YearDays \in Nat /\ DaysBefore[1] + MonthDays[1] <= YearDays
  BY <1>1, MonthsRise DEF YearDays
<1>3. DaysBefore[1] = 0 /\ MonthDays[1] \in Nat \ {0}
  BY <1>1, DaysBeforeIs, CalendarTypes
<1> QED BY <1>2, <1>3

LEMMA MonthTypes ==
    ASSUME NEW m \in Months
    PROVE  /\ m \in Nat /\ DaysBefore[m] \in Nat /\ MonthDays[m] \in Nat \ {0}
           /\ DaysBefore[m] + MonthDays[m] <= YearDays
<1>1. m \in 1..(Len(MonthDays) + 1) /\ m < Len(MonthDays) + 1
      /\ Len(MonthDays) + 1 \in 1..(Len(MonthDays) + 1) /\ m \in Nat
  BY CalendarTypes DEF Months
<1>2. DaysBefore[m] \in Nat
  BY <1>1, MonthsRise
<1>3. DaysBefore[m] + MonthDays[m] <= YearDays
  BY <1>1, MonthsRise DEF YearDays
<1> QED BY <1>1, <1>2, <1>3, CalendarTypes

LEMMA MonthExists ==
    ASSUME NEW d \in 0..(YearDays - 1)
    PROVE  \E m \in Months : InMonth(d, m)
<1> DEFINE S == {n \in 1..(Len(MonthDays) + 1) : d < DaysBefore[n]}
<1>1. S \subseteq Nat
  BY CalendarTypes
<1>2. Len(MonthDays) + 1 \in S
  BY CalendarTypes, YearType DEF YearDays
<1>3. PICK n \in S : \A k \in S : n <= k
  BY <1>1, <1>2, Smallest
<1>4. n # 1
  BY <1>3, DaysBeforeIs, YearType
<1>5. n - 1 \in Months /\ n - 1 \in 1..(Len(MonthDays) + 1) /\ n - 1 \notin S /\ (n - 1) + 1 = n
  BY <1>3, <1>4, CalendarTypes DEF Months
<1>6. DaysBefore[n] = DaysBefore[n - 1] + MonthDays[n - 1]
  BY <1>5, DaysBeforeIs
<1>7. ~(d < DaysBefore[n - 1]) /\ DaysBefore[n - 1] \in Nat /\ d \in Nat
  BY <1>5, MonthTypes, YearType
<1>8. d < DaysBefore[n]
  BY <1>3
<1>9. InMonth(d, n - 1)
  BY <1>6, <1>7, <1>8 DEF InMonth
<1> QED BY <1>5, <1>9

LEMMA MonthIs ==
    ASSUME NEW t, NEW m \in Months, DayOf(t) % YearDays \in Nat,
           InMonth(DayOf(t) % YearDays, m)
    PROVE  MonthOf(t) = m
<1> DEFINE d == DayOf(t) % YearDays
           S == {k \in DOMAIN MonthDays : DaysBefore[k] <= d}
<1>1. S = {k \in Months : DaysBefore[k] <= d}
  BY CalendarTypes
<1>2. m \in S
  BY <1>1 DEF InMonth
<1>3. ASSUME NEW k \in S PROVE k <= m
  <2>1. k \in Months /\ DaysBefore[k] <= d
    BY <1>1
  <2>2. k \in 1..(Len(MonthDays) + 1) /\ k \in Nat /\ m \in Nat
    BY <2>1, CalendarTypes DEF Months
  <2>3. m < k => DaysBefore[m] + MonthDays[m] <= DaysBefore[k]
    BY <2>2, MonthsRise
  <2>4. d \in Nat /\ DaysBefore[k] \in Nat /\ DaysBefore[m] \in Nat /\ MonthDays[m] \in Nat
    BY <2>1, MonthTypes
  <2> QED BY <2>1, <2>2, <2>3, <2>4 DEF InMonth
<1>4. S \subseteq Nat
  BY <1>1, MonthTypes
<1>5. MonthOf(t) = CHOOSE x \in S : \A y \in S : x >= y
  BY DEF MonthOf, Max
<1> HIDE DEF S
<1>6. \A x \in S : (\A y \in S : x >= y) => x = m
  BY <1>2, <1>3, <1>4
<1>7. \A y \in S : m >= y
  BY <1>2, <1>3, <1>4
<1> QED BY <1>2, <1>5, <1>6, <1>7

LEMMA DayTypes ==
    ASSUME NEW t \in Nat
    PROVE  /\ DayOf(t) \in Nat /\ DayOf(t) % YearDays \in 0..(YearDays - 1)
           /\ MonthOf(t) \in Months /\ InMonth(DayOf(t) % YearDays, MonthOf(t))
           /\ DayOfMonth(t) \in 1..MonthDays[MonthOf(t)]
           /\ Weekday(t) \in 0..(WeekDays - 1)
<1>1. DayOf(t) \in Nat
  BY CalendarTypes, Divided DEF DayOf
<1>2. DayOf(t) % YearDays \in 0..(YearDays - 1)
  BY <1>1, YearType, Divided
<1>3. PICK m \in Months : InMonth(DayOf(t) % YearDays, m)
  BY <1>2, MonthExists
<1>4. MonthOf(t) = m
  BY <1>2, <1>3, MonthIs, YearType
<1>5. DayOfMonth(t) = (DayOf(t) % YearDays) - DaysBefore[m] + 1
  BY <1>4 DEF DayOfMonth
<1>6. DayOfMonth(t) \in 1..MonthDays[m]
  BY <1>2, <1>3, <1>5, MonthTypes, YearType DEF InMonth
<1>7. Weekday(t) \in 0..(WeekDays - 1)
  BY <1>1, CalendarTypes, Divided DEF Weekday
<1> QED BY <1>1, <1>2, <1>3, <1>4, <1>6, <1>7

\* A minute of the days up to e is before them.
LEMMA BeforeDay ==
    ASSUME NEW v \in Nat, NEW e \in Nat
    PROVE  v < e * MinutesOfDay <=> DayOf(v) < e
<1>1. DayOf(v) \in Nat /\ v = MinutesOfDay * DayOf(v) + (v % MinutesOfDay)
      /\ v % MinutesOfDay \in 0..(MinutesOfDay - 1) /\ MinutesOfDay * DayOf(v) \in Nat
      /\ MinutesOfDay \in Nat \ {0}
  BY CalendarTypes, Divided DEF DayOf
<1>2. e * MinutesOfDay = MinutesOfDay * e /\ MinutesOfDay * e \in Nat
  BY <1>1
<1>3. DayOf(v) < e => MinutesOfDay * DayOf(v) + MinutesOfDay <= MinutesOfDay * e
  BY <1>1, Multiples
<1>4. e < DayOf(v) => MinutesOfDay * e + MinutesOfDay <= MinutesOfDay * DayOf(v)
  BY <1>1, Multiples
<1> QED BY <1>1, <1>2, <1>3, <1>4

LEMMA DaysRise ==
    ASSUME NEW u \in Nat, NEW v \in Nat, u <= v
    PROVE  DayOf(u) <= DayOf(v)
<1>1. DayOf(u) \in Nat /\ DayOf(v) \in Nat
  BY DayTypes
<1>2. ~(u < DayOf(u) * MinutesOfDay)
  BY <1>1, BeforeDay
<1>3. DayOf(u) * MinutesOfDay \in Nat
  BY <1>1, CalendarTypes
<1>4. ~(v < DayOf(u) * MinutesOfDay)
  BY <1>2, <1>3
<1> QED BY <1>1, <1>4, BeforeDay

\* A jump to the next month stays in the month up to there.
LEMMA NextMonthIs ==
    ASSUME NEW u \in Nat
    PROVE  /\ NextMonth(u) \in Nat /\ u < NextMonth(u)
           /\ \A v \in Nat : u <= v /\ v < NextMonth(u) => MonthOf(v) = MonthOf(u)
<1> DEFINE m == MonthOf(u)
           q == DayOf(u) \div YearDays
           r == DayOf(u) % YearDays
           base == YearDays * q
           e == base + DaysBefore[m] + MonthDays[m]
<1>1. m \in Months /\ InMonth(r, m) /\ r \in Nat /\ DayOf(u) \in Nat
  BY DayTypes, YearType
<1>2. q \in Nat /\ base \in Nat /\ DayOf(u) = base + r
  BY <1>1, YearType, Divided
<1>3. /\ DaysBefore[m] \in Nat /\ MonthDays[m] \in Nat \ {0}
      /\ DaysBefore[m] + MonthDays[m] <= YearDays
  BY <1>1, MonthTypes
<1>4. e \in Nat /\ DayOf(u) < e
  BY <1>1, <1>2, <1>3 DEF InMonth
<1>5. DayOf(u) - DayOfMonth(u) + 1 + MonthDays[m] = e
  <2>1. DayOfMonth(u) = r - DaysBefore[m] + 1
    BY DEF DayOfMonth
  <2> QED BY <1>1, <1>2, <1>3, <2>1
<1>6. NextMonth(u) = e * MinutesOfDay
  BY <1>5 DEF NextMonth
<1>7. NextMonth(u) \in Nat /\ u < NextMonth(u)
  BY <1>4, <1>6, BeforeDay, CalendarTypes
<1>8. ASSUME NEW v \in Nat, u <= v, v < NextMonth(u)
      PROVE  MonthOf(v) = m
  <2> DEFINE s == DayOf(v) - base
  <2>1. DayOf(v) < e /\ DayOf(u) <= DayOf(v) /\ DayOf(v) \in Nat
    BY <1>4, <1>6, <1>8, BeforeDay, DaysRise, DayTypes
  <2>2. s \in Nat /\ InMonth(s, m)
    BY <1>1, <1>2, <1>3, <2>1 DEF InMonth
  <2>3. s \in 0..(YearDays - 1)
    BY <1>3, <2>2, YearType DEF InMonth
  <2>4. DayOf(v) = YearDays * q + s
    BY <1>2, <2>1
  <2>5. DayOf(v) % YearDays = s
    BY <1>2, <2>3, <2>4, YearType, DividedOnce
  <2> HIDE DEF s, m
  <2> QED BY <1>1, <2>2, <2>5, MonthIs
<1> QED BY <1>7, <1>8

-----------------------------------------------------------------------------
(* The search.                                                             *)

Match(s, t) ==
    /\ MonthOf(t) \in s.month.mask /\ dayMatches(s, t)
    /\ HourOf(t) \in s.hour.mask /\ MinuteOf(t) \in s.minute.mask

\* Where the search goes from u, no match lies behind.
Passes(s, u, n) ==
    /\ n \in Nat /\ u < n
    /\ \A v \in Nat : u <= v /\ v < n => ~Match(s, v)

LEMMA PassMonth ==
    ASSUME NEW s, NEW u \in Nat, MonthOf(u) \notin s.month.mask
    PROVE  Passes(s, u, NextMonth(u))
  BY NextMonthIs DEF Passes, Match

LEMMA PassDay ==
    ASSUME NEW s, NEW u \in Nat, ~dayMatches(s, u)
    PROVE  Passes(s, u, NextDay(u))
<1>1. DayOf(u) \in Nat /\ DayOf(u) + 1 \in Nat
  BY DayTypes
<1>2. NextDay(u) \in Nat /\ u < NextDay(u)
  BY <1>1, BeforeDay, CalendarTypes DEF NextDay
<1>3. ASSUME NEW v \in Nat, u <= v, v < NextDay(u)
      PROVE  ~Match(s, v)
  <2>1. DayOf(v) < DayOf(u) + 1 /\ DayOf(u) <= DayOf(v) /\ DayOf(v) \in Nat
    BY <1>1, <1>3, BeforeDay, DaysRise, DayTypes DEF NextDay
  <2>2. DayOf(v) = DayOf(u)
    BY <1>1, <2>1
  <2>3. DayOfMonth(v) = DayOfMonth(u) /\ Weekday(v) = Weekday(u)
    BY <2>2 DEF DayOfMonth, MonthOf, Weekday
  <2> QED BY <2>3 DEF Match, dayMatches
<1> QED BY <1>2, <1>3 DEF Passes

LEMMA HourIs ==
    ASSUME NEW t \in Nat
    PROVE  HourOf(t) = (t \div HourMinutes) % DayHours
  BY CalendarTypes, QuotientOfRemainder DEF HourOf, MinutesOfDay

LEMMA PassHour ==
    ASSUME NEW s, NEW u \in Nat, HourOf(u) \notin s.hour.mask
    PROVE  Passes(s, u, NextHour(u))
<1>1. NextHour(u) \in Nat /\ u < NextHour(u)
  BY CalendarTypes, NextMultiple DEF NextHour
<1>2. ASSUME NEW v \in Nat, u <= v, v < NextHour(u)
      PROVE  ~Match(s, v)
  <2>1. v \div HourMinutes = u \div HourMinutes
    BY <1>2, CalendarTypes, SameQuotient DEF NextHour
  <2>2. HourOf(v) = HourOf(u)
    BY <2>1, HourIs
  <2> QED BY <2>2 DEF Match
<1> QED BY <1>1, <1>2 DEF Passes

LEMMA PassMinute ==
    ASSUME NEW s, NEW u \in Nat, MinuteOf(u) \notin s.minute.mask
    PROVE  Passes(s, u, u + 1)
<1>1. \A v \in Nat : u <= v /\ v < u + 1 => v = u
  OBVIOUS
<1> QED BY <1>1 DEF Passes, Match

LEMMA SkipIs ==
    ASSUME NEW s, NEW u \in Nat
    PROVE  IF Match(s, u) THEN Skip(s, u) = u ELSE Passes(s, u, Skip(s, u))
<1>1. CASE MonthOf(u) \notin s.month.mask
  BY <1>1, PassMonth DEF Skip, Match
<1>2. CASE MonthOf(u) \in s.month.mask /\ ~dayMatches(s, u)
  BY <1>2, PassDay DEF Skip, Match
<1>3. CASE /\ MonthOf(u) \in s.month.mask /\ dayMatches(s, u)
           /\ HourOf(u) \notin s.hour.mask
  BY <1>3, PassHour DEF Skip, Match
<1>4. CASE /\ MonthOf(u) \in s.month.mask /\ dayMatches(s, u)
           /\ HourOf(u) \in s.hour.mask /\ MinuteOf(u) \notin s.minute.mask
  BY <1>4, PassMinute DEF Skip, Match
<1>5. CASE Match(s, u)
  BY <1>5 DEF Skip, Match
<1> QED BY <1>1, <1>2, <1>3, <1>4, <1>5 DEF Match

\* The matches from u on and before the limit, and the first of them.
Matches(s, u, limit) == {w \in u..(limit - 1) : Match(s, w)}

FirstMatch(s, u, limit) ==
    IF Matches(s, u, limit) = {} THEN Never ELSE Min(Matches(s, u, limit))

\* What the search returns from u when it returns f[n] from a later n.
Turn(s, limit, f, u) ==
    IF u >= limit THEN Never
    ELSE IF Skip(s, u) = u THEN u
    ELSE f[Min({Skip(s, u), limit})]

LEMMA FirstOfAll ==
    ASSUME NEW S, S \subseteq Nat, NEW x \in S, \A y \in S : x <= y
    PROVE  Min(S) = x
<1>1. Min(S) = CHOOSE z \in S : \A y \in S : z <= y
  BY DEF Min
<1>2. \A z \in S : (\A y \in S : z <= y) => z = x
  OBVIOUS
<1> QED BY <1>1, <1>2

\* A turn that does not end goes on from a later time, and passes no match.
LEMMA TurnGoes ==
    ASSUME NEW s, NEW limit \in Nat, NEW u \in Nat, u < limit, ~Match(s, u)
    PROVE  /\ Skip(s, u) # u
           /\ Min({Skip(s, u), limit}) \in Nat
           /\ u < Min({Skip(s, u), limit}) /\ Min({Skip(s, u), limit}) <= limit
           /\ \A v \in Nat : u <= v /\ v < Min({Skip(s, u), limit}) => ~Match(s, v)
<1>1. Skip(s, u) \in Nat /\ u < Skip(s, u)
      /\ \A v \in Nat : u <= v /\ v < Skip(s, u) => ~Match(s, v)
  BY SkipIs DEF Passes
<1>2. CASE Skip(s, u) <= limit
  <2>1. Min({Skip(s, u), limit}) = Skip(s, u)
    BY <1>1, <1>2, FirstOfAll
  <2> QED BY <1>1, <1>2, <2>1
<1>3. CASE ~(Skip(s, u) <= limit)
  <2>1. Min({Skip(s, u), limit}) = limit
    BY <1>1, <1>3, FirstOfAll
  <2> QED BY <1>1, <1>3, <2>1
<1> QED BY <1>2, <1>3

\* The first match is what a turn returns, when the later turns return it.
LEMMA FirstIsTurn ==
    ASSUME NEW s, NEW a \in Nat, NEW limit \in Nat, NEW u \in a..limit
    PROVE  FirstMatch(s, u, limit) =
               Turn(s, limit, [v \in a..limit |-> FirstMatch(s, v, limit)], u)
<1> DEFINE h == [v \in a..limit |-> FirstMatch(s, v, limit)]
           n == Min({Skip(s, u), limit})
<1>1. CASE u >= limit
  <2>1. Matches(s, u, limit) = {}
    BY <1>1 DEF Matches
  <2> QED BY <1>1, <2>1 DEF FirstMatch, Turn
<1>2. CASE u < limit /\ Match(s, u)
  <2>1. Skip(s, u) = u
    BY <1>2, SkipIs
  <2>2. u \in Matches(s, u, limit) /\ Matches(s, u, limit) \subseteq Nat
        /\ \A y \in Matches(s, u, limit) : u <= y
    BY <1>2 DEF Matches
  <2>3. Min(Matches(s, u, limit)) = u
    BY <2>2, FirstOfAll
  <2> QED BY <1>2, <2>1, <2>2, <2>3 DEF FirstMatch, Turn
<1>3. CASE u < limit /\ ~Match(s, u)
  <2>1. /\ Skip(s, u) # u /\ n \in Nat /\ u < n /\ n <= limit
        /\ \A v \in Nat : u <= v /\ v < n => ~Match(s, v)
    BY <1>3, TurnGoes
  <2> HIDE DEF n
  <2>2. Matches(s, u, limit) = Matches(s, n, limit)
    <3>1. ASSUME NEW w, w \in Matches(s, u, limit) PROVE w \in Matches(s, n, limit)
      <4>1. w \in u..(limit - 1) /\ Match(s, w)
        BY <3>1 DEF Matches
      <4>2. ~(w < n)
        BY <2>1, <4>1
      <4> QED BY <2>1, <4>1, <4>2 DEF Matches
    <3>2. ASSUME NEW w, w \in Matches(s, n, limit) PROVE w \in Matches(s, u, limit)
      BY <2>1, <3>2 DEF Matches
    <3> QED BY <3>1, <3>2
  <2>3. n \in a..limit
    BY <2>1
  <2>4. h[n] = FirstMatch(s, u, limit)
    BY <2>2, <2>3 DEF FirstMatch
  <2>5. Turn(s, limit, h, u) = h[n]
    BY <1>3, <2>1 DEF Turn, n
  <2> QED BY <2>4, <2>5
<1> QED BY <1>1, <1>2, <1>3

\* Turns return nothing but the first match.
LEMMA TurnsAgree ==
    ASSUME NEW s, NEW a \in Nat, NEW limit \in Nat, NEW f,
           f = [u \in a..limit |-> Turn(s, limit, f, u)]
    PROVE  \A u \in a..limit : f[u] = FirstMatch(s, u, limit)
<1> DEFINE h == [v \in a..limit |-> FirstMatch(s, v, limit)]
           S == {u \in a..limit : f[u] # h[u]}
           T == {limit - u : u \in S}
<1>1. SUFFICES ASSUME S # {} PROVE FALSE
  OBVIOUS
<1>2. T \subseteq Nat /\ T # {}
  <2>1. \A u \in S : limit - u \in Nat
    OBVIOUS
  <2> QED BY <1>1, <2>1
<1>3. PICK d \in T : \A e \in T : d <= e
  BY <1>2, Smallest
<1>4. PICK u \in S : d = limit - u
  OBVIOUS
<1>5. u \in a..limit /\ u \in Nat /\ f[u] # h[u]
  BY <1>4
<1>6. ASSUME NEW n \in a..limit, u < n PROVE f[n] = h[n]
  <2>1. n \notin S
    <3> SUFFICES ASSUME n \in S PROVE FALSE
      OBVIOUS
    <3>1. limit - n \in T
      OBVIOUS
    <3>2. d <= limit - n
      BY <1>3, <3>1
    <3> QED BY <1>4, <1>5, <1>6, <3>2
  <2> QED BY <2>1
<1>7. f[u] = Turn(s, limit, f, u)
  BY <1>5
<1>8. h[u] = Turn(s, limit, h, u)
  BY <1>5, FirstIsTurn
<1> HIDE DEF h, S, T
<1>9. Turn(s, limit, f, u) = Turn(s, limit, h, u)
  <2>1. CASE u >= limit \/ Match(s, u)
    BY <1>5, <2>1, SkipIs DEF Turn
  <2>2. CASE ~(u >= limit) /\ ~Match(s, u)
    <3> DEFINE n == Min({Skip(s, u), limit})
    <3>0. u < limit /\ ~Match(s, u)
      BY <1>5, <2>2
    <3>1. Skip(s, u) # u /\ n \in Nat /\ u < n /\ n <= limit
      BY <1>5, <3>0, TurnGoes
    <3>2. n \in a..limit
      BY <1>5, <3>1
    <3>3. f[n] = h[n]
      BY <1>6, <3>1, <3>2
    <3> QED BY <2>2, <3>1, <3>3 DEF Turn
  <2> QED BY <2>1, <2>2
<1> QED BY <1>5, <1>7, <1>8, <1>9

\* The search finds the first match within the horizon.
LEMMA NextFireIs ==
    ASSUME NEW s, NEW t \in Nat
    PROVE  /\ t + 1 + HorizonYears * YearDays * MinutesOfDay \in Nat
           /\ NextFire(s, t) = FirstMatch(s, t + 1, t + 1 + HorizonYears * YearDays * MinutesOfDay)
<1> DEFINE a == t + 1
           limit == t + 1 + HorizonYears * YearDays * MinutesOfDay
           from == CHOOSE f : f = [u \in a..limit |-> Turn(s, limit, f, u)]
           h == [v \in a..limit |-> FirstMatch(s, v, limit)]
<1>1. a \in Nat /\ limit \in Nat /\ a <= limit
  <2>1. HorizonYears * YearDays \in Nat
    BY CalendarTypes, YearType
  <2>2. HorizonYears * YearDays * MinutesOfDay \in Nat
    BY <2>1, CalendarTypes
  <2> QED BY <2>2
<1>2. NextFire(s, t) = from[a]
  BY DEF NextFire, Turn
<1> HIDE DEF limit, a
<1>3. h = [u \in a..limit |-> Turn(s, limit, h, u)]
  BY <1>1, FirstIsTurn
<1> HIDE DEF h
<1>4. from = [u \in a..limit |-> Turn(s, limit, from, u)]
  BY <1>3, Zenon
<1> HIDE DEF from
<1>5. from[a] = FirstMatch(s, a, limit)
  BY <1>1, <1>4, TurnsAgree
<1> QED BY <1>1, <1>2, <1>5 DEF a, limit

-----------------------------------------------------------------------------
(* What an expression means.                                               *)

LEMMA LongestMonth ==
    /\ Max(ToSet(MonthDays)) \in Nat
    /\ \A m \in Months : MonthDays[m] <= Max(ToSet(MonthDays))
<1> DEFINE S == ToSet(MonthDays)
           T == {YearDays - x : x \in S}
<1>1. S = {MonthDays[m] : m \in Months}
  BY CalendarTypes DEF ToSet
<1>2. \A x \in S : x \in Nat /\ x <= YearDays
  <2> SUFFICES ASSUME NEW m \in Months
               PROVE  MonthDays[m] \in Nat /\ MonthDays[m] <= YearDays
    BY <1>1
  <2> QED BY MonthTypes, YearType
<1>3. 1 \in Months
  BY CalendarTypes DEF Months
<1>4. T \subseteq Nat /\ T # {}
  <2>1. \A x \in S : YearDays - x \in Nat
    BY <1>2, YearType
  <2>2. MonthDays[1] \in S
    BY <1>1, <1>3
  <2> QED BY <2>1, <2>2
<1>5. PICK d \in T : \A e \in T : d <= e
  BY <1>4, Smallest
<1>6. PICK x \in S : d = YearDays - x
  OBVIOUS
<1>7. \A y \in S : x >= y
  <2> SUFFICES ASSUME NEW y \in S PROVE x >= y
    OBVIOUS
  <2>1. YearDays - y \in T
    OBVIOUS
  <2>2. YearDays - x <= YearDays - y
    BY <1>5, <1>6, <2>1
  <2> QED BY <1>2, <2>2, YearType
<1>8. Max(S) \in S /\ \A y \in S : Max(S) >= y
  <2> HIDE DEF S
  <2>1. Max(S) = CHOOSE z \in S : \A y \in S : z >= y
    BY DEF Max
  <2> QED BY <1>7, <2>1
<1> QED BY <1>1, <1>2, <1>8

\* What an item that is not refused permits.
LEMMA ItemParsed ==
    ASSUME NEW item \in Item, NEW f, parseRange(item, f) # Refused
    PROVE  /\ item.step > 0
           /\ parseRange(item, f).star = (item.body = "*")
           /\ item.body = "*" =>
                parseRange(item, f).mask =
                  {fold(v, f) : v \in {v \in FieldMin[f]..FieldMax[f] :
                                         (v - FieldMin[f]) % item.step = 0}}
<1>1. item.step \in Int /\ ~(item.step <= 0)
  BY DEF parseRange, Item
<1>2. parseRange(item, f).star = (item.body = "*")
  BY DEF parseRange
<1>3. item.body = "*" =>
        parseRange(item, f).mask =
          {fold(v, f) : v \in {v \in FieldMin[f]..FieldMax[f] :
                                 (v - FieldMin[f]) % item.step = 0}}
  BY DEF parseRange
<1> QED BY <1>1, <1>2, <1>3

LEMMA FieldParsed ==
    ASSUME NEW items \in Seq(Item) \ {<<>>}, NEW f, parseField(items, f) # Refused
    PROVE  /\ items[1] \in Item /\ parseRange(items[1], f) # Refused
           /\ parseField(items, f).star = (Len(items) = 1 /\ items[1].body = "*")
           /\ Len(items) = 1 => parseField(items, f).mask = parseRange(items[1], f).mask
<1>1. Len(items) \in Nat \ {0} /\ DOMAIN items = 1..Len(items) /\ items[1] \in Item
      /\ 1 \in DOMAIN items
  OBVIOUS
<1> DEFINE parsed == [i \in DOMAIN items |-> parseRange(items[i], f)]
<1>2. \A i \in DOMAIN items : parsed[i] = parseRange(items[i], f)
  OBVIOUS
<1>3. DOMAIN parsed = DOMAIN items
  OBVIOUS
<1>4. parseField(items, f) =
        IF \E i \in DOMAIN parsed : parsed[i] = Refused THEN Refused
        ELSE [mask |-> UNION {parsed[i].mask : i \in DOMAIN parsed},
              star |-> Len(items) = 1 /\ parsed[1].star]
  BY DEF parseField
<1> HIDE DEF parsed
<1>5. ~ \E i \in DOMAIN parsed : parsed[i] = Refused
  BY <1>4
<1>6. parseRange(items[1], f) # Refused
  BY <1>1, <1>2, <1>3, <1>5
<1>7. /\ parseField(items, f).star = (Len(items) = 1 /\ parsed[1].star)
      /\ parseField(items, f).mask = UNION {parsed[i].mask : i \in DOMAIN parsed}
  BY <1>4, <1>5
<1>8. parsed[1].star = (items[1].body = "*")
  BY <1>1, <1>2, <1>6, ItemParsed
<1>9. Len(items) = 1 => UNION {parsed[i].mask : i \in DOMAIN parsed} = parseRange(items[1], f).mask
  <2> SUFFICES ASSUME Len(items) = 1
               PROVE  UNION {parsed[i].mask : i \in DOMAIN parsed} = parseRange(items[1], f).mask
    OBVIOUS
  <2>1. DOMAIN parsed = {1}
    BY <1>1, <1>3
  <2>2. {parsed[i].mask : i \in DOMAIN parsed} = {parseRange(items[1], f).mask}
    BY <1>1, <1>2, <2>1
  <2> QED BY <2>2
<1> QED BY <1>1, <1>6, <1>7, <1>8, <1>9

\* A day field that is "*" permits every day of its field.
LEMMA WildcardDay ==
    ASSUME NEW items \in Seq(Item) \ {<<>>}, NEW f \in {"dom", "dow"},
           parseField(items, f) # Refused,
           ~(Len(items) = 1 /\ items[1].body = "*" /\ items[1].step > 1)
    PROVE  /\ parseField(items, f).star <=> ~Restricted(items)
           /\ parseField(items, f).star =>
                parseField(items, f).mask = {fold(v, f) : v \in FieldMin[f]..FieldMax[f]}
<1>1. items[1].step \in Int /\ items[1].step > 0
  BY FieldParsed, ItemParsed DEF Item
<1>2. Len(items) = 1 /\ items[1].body = "*" => items[1].step = 1
  BY <1>1
<1>3. parseField(items, f).star <=> ~Restricted(items)
  BY <1>2, FieldParsed DEF Restricted
<1>4. ASSUME parseField(items, f).star
      PROVE  parseField(items, f).mask = {fold(v, f) : v \in FieldMin[f]..FieldMax[f]}
  <2>1. Len(items) = 1 /\ items[1].body = "*" /\ items[1].step = 1
    BY <1>2, <1>4, FieldParsed
  <2>2. parseField(items, f).mask =
          {fold(v, f) : v \in {v \in FieldMin[f]..FieldMax[f] : (v - FieldMin[f]) % 1 = 0}}
    BY <2>1, FieldParsed, ItemParsed
  <2>3. FieldMin[f] \in Int /\ FieldMax[f] \in Int
    BY LongestMonth, CalendarTypes DEF FieldMin, FieldMax
  <2>4. \A v \in FieldMin[f]..FieldMax[f] : (v - FieldMin[f]) % 1 = 0
    BY <2>3
  <2>5. {v \in FieldMin[f]..FieldMax[f] : (v - FieldMin[f]) % 1 = 0} = FieldMin[f]..FieldMax[f]
    BY <2>4
  <2> QED BY <2>2, <2>5
<1> QED BY <1>3, <1>4

LEMMA EveryDay ==
    ASSUME NEW t \in Nat
    PROVE  /\ DayOfMonth(t) \in {fold(v, "dom") : v \in FieldMin["dom"]..FieldMax["dom"]}
           /\ Weekday(t) \in {fold(v, "dow") : v \in FieldMin["dow"]..FieldMax["dow"]}
<1>1. DayOfMonth(t) \in FieldMin["dom"]..FieldMax["dom"]
  <2>1. MonthOf(t) \in Months /\ DayOfMonth(t) \in 1..MonthDays[MonthOf(t)]
    BY DayTypes
  <2>2. MonthDays[MonthOf(t)] \in Nat /\ MonthDays[MonthOf(t)] <= Max(ToSet(MonthDays))
    BY <2>1, CalendarTypes, LongestMonth
  <2> QED BY <2>1, <2>2, LongestMonth DEF FieldMin, FieldMax
<1>2. fold(DayOfMonth(t), "dom") = DayOfMonth(t)
  BY DEF fold
<1>3. Weekday(t) \in FieldMin["dow"]..FieldMax["dow"] /\ Weekday(t) # WeekDays
  <2>1. Weekday(t) \in 0..(WeekDays - 1) /\ WeekDays \in Nat
    BY DayTypes, CalendarTypes
  <2>2. FieldMin["dow"] = 0 /\ FieldMax["dow"] = WeekDays
    BY DEF FieldMin, FieldMax
  <2> QED BY <2>1, <2>2
<1>4. fold(Weekday(t), "dow") = Weekday(t)
  BY <1>3 DEF fold
<1> QED BY <1>1, <1>2, <1>3, <1>4

\* A match of the parsed fields is a time the expression means.
LEMMA MatchMeans ==
    ASSUME NEW expr \in Expressions, Accepts(expr), ~SteppedDay(expr), NEW t \in Nat
    PROVE  Match(Parse(expr), t) <=> Means(expr, t)
<1> DEFINE P(f) == parseField(expr[f], f)
           dom == DayOfMonth(t) \in P("dom").mask
           dow == Weekday(t) \in P("dow").mask
<1>1. ToSet(Fields) = {"minute", "hour", "dom", "month", "dow"}
  BY DEF ToSet, Fields
<1>2. ASSUME NEW f \in {"dom", "dow"}
      PROVE  /\ expr[f] \in Seq(Item) \ {<<>>} /\ P(f) # Refused
             /\ ~(Len(expr[f]) = 1 /\ expr[f][1].body = "*" /\ expr[f][1].step > 1)
  BY <1>1 DEF Expressions, Accepts, SteppedDay
<1>3. ASSUME NEW f \in {"dom", "dow"}
      PROVE  /\ P(f).star <=> ~Restricted(expr[f])
             /\ P(f).star => P(f).mask = {fold(v, f) : v \in FieldMin[f]..FieldMax[f]}
  BY <1>2, WildcardDay
<1>4. P("dom").star => dom
  BY <1>3, EveryDay
<1>5. P("dow").star => dow
  BY <1>3, EveryDay
<1>6. /\ Parse(expr).minute = P("minute") /\ Parse(expr).hour = P("hour")
      /\ Parse(expr).dom = P("dom") /\ Parse(expr).month = P("month")
      /\ Parse(expr).dow = P("dow")
  BY <1>1 DEF Parse
<1>7. dayMatches(Parse(expr), t) <=>
        IF Restricted(expr["dom"]) /\ Restricted(expr["dow"]) THEN dom \/ dow ELSE dom /\ dow
  <2>1. dayMatches(Parse(expr), t) <=>
          CASE P("dom").star /\ P("dow").star -> TRUE
            [] P("dom").star /\ ~P("dow").star -> dow
            [] ~P("dom").star /\ P("dow").star -> dom
            [] OTHER -> dom \/ dow
    BY <1>6 DEF dayMatches
  <2>2. P("dom").star <=> ~Restricted(expr["dom"])
    BY <1>3
  <2>3. P("dow").star <=> ~Restricted(expr["dow"])
    BY <1>3
  <2> HIDE DEF P, dom, dow
  <2> QED BY <1>4, <1>5, <2>1, <2>2, <2>3
<1> QED BY <1>6, <1>7 DEF Match, Means

\* Whatever the schedule, a fire it finds is later than the time it was asked
\* from, and no match lies between.
LEMMA SearchGoesOn ==
    ASSUME NEW s, NEW t \in Nat, NextFire(s, t) # Never
    PROVE  /\ NextFire(s, t) \in Nat /\ t < NextFire(s, t) /\ Match(s, NextFire(s, t))
           /\ \A v \in Nat : t < v /\ v < NextFire(s, t) => ~Match(s, v)
<1> DEFINE limit == t + 1 + HorizonYears * YearDays * MinutesOfDay
           M == Matches(s, t + 1, limit)
<1>1. limit \in Nat /\ NextFire(s, t) = FirstMatch(s, t + 1, limit)
  BY NextFireIs
<1> HIDE DEF limit
<1>2. M \subseteq Nat
  BY <1>1 DEF Matches
<1>3. M # {} /\ NextFire(s, t) = Min(M)
  BY <1>1 DEF FirstMatch
<1>4. PICK x \in M : \A y \in M : x <= y
  BY <1>2, <1>3, Smallest
<1>5. NextFire(s, t) = x
  BY <1>2, <1>3, <1>4, FirstOfAll
<1>6. x \in Nat /\ t < x /\ x <= limit - 1 /\ Match(s, x)
  BY <1>1, <1>4 DEF Matches
<1>7. ASSUME NEW v \in Nat, t < v, v < x, Match(s, v) PROVE FALSE
  <2>1. v \in M
    BY <1>1, <1>6, <1>7 DEF Matches
  <2> QED BY <1>4, <1>6, <1>7, <2>1
<1> QED BY <1>5, <1>6, <1>7

\* For every expression without "*/n" in a day field, the search finds what the
\* expression means.
LEMMA SearchIsExact ==
    ASSUME NEW expr \in Expressions, Accepts(expr), ~SteppedDay(expr), NEW t \in Nat
    PROVE  NextFire(Parse(expr), t) = FirstMeant(expr, t)
<1> DEFINE H == HorizonYears * YearDays * MinutesOfDay
           M == Matches(Parse(expr), t + 1, t + 1 + H)
           meant == {u \in (t + 1)..(t + H) : Means(expr, u)}
<1>1. t + 1 + H \in Nat /\ NextFire(Parse(expr), t) = FirstMatch(Parse(expr), t + 1, t + 1 + H)
  BY NextFireIs
<1>2. H \in Int
  BY CalendarTypes, YearType
<1>3. FirstMeant(expr, t) = IF meant = {} THEN Never ELSE Min(meant)
  BY DEF FirstMeant
<1> HIDE DEF H
<1>4. (t + 1)..((t + 1 + H) - 1) = (t + 1)..(t + H)
  BY <1>2
<1>5. ASSUME NEW u \in (t + 1)..(t + H)
      PROVE  Match(Parse(expr), u) <=> Means(expr, u)
  <2>1. u \in Nat
    BY <1>2
  <2> QED BY <2>1, MatchMeans
<1>6. M = meant
  BY <1>4, <1>5 DEF Matches
<1> QED BY <1>1, <1>3, <1>6 DEF FirstMatch

-----------------------------------------------------------------------------
(* A schedule in use.                                                      *)

\* The schedule is an expression, and the time a number.
CronType == cronExpr \in Expressions /\ cronNow \in Nat

LEMMA CronTypeHolds == CronSpec => []CronType
<1>1. CronInit => CronType
  BY DEF CronInit, CronType
<1>2. CronType /\ [FireCron]_cronVars => CronType'
  <2> SUFFICES ASSUME CronType, [FireCron]_cronVars PROVE CronType'
    OBVIOUS
  <2>1. CASE FireCron
    BY <2>1, SearchGoesOn, CalendarAssumption DEF CronType, FireCron
  <2>2. CASE UNCHANGED cronVars
    BY <2>2 DEF CronType, cronVars
  <2> QED BY <2>1, <2>2
<1> QED BY <1>1, <1>2, PTL DEF CronSpec

\* Next answers what the expression means: for every calendar, every accepted
\* expression without "*/n" in a day field and every time.
THEOREM ScheduleIsExact == CronSpec => []NextExact
<1>1. CronType => NextExact
  BY SearchIsExact DEF CronType, NextExact
<1> QED BY <1>1, CronTypeHolds, PTL

\* What a schedule in use answers is later than the time it was asked from and a
\* match, and no match lies between; this of every expression, "*/n" included.
FindsNext ==
    LET next == NextFire(Parse(cronExpr), cronNow) IN
    next # Never =>
        /\ cronNow < next /\ Match(Parse(cronExpr), next)
        /\ \A v \in (cronNow + 1)..(next - 1) : ~Match(Parse(cronExpr), v)

THEOREM ScheduleSkipsNone == CronSpec => []FindsNext
<1>1. CronType => FindsNext
  <2> SUFFICES ASSUME CronType, NextFire(Parse(cronExpr), cronNow) # Never
               PROVE  FindsNext
    BY DEF FindsNext
  <2> QED BY SearchGoesOn DEF CronType, FindsNext
<1> QED BY <1>1, CronTypeHolds, PTL
=============================================================================
