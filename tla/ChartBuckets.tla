------------------------------ MODULE ChartBuckets -----------------------------
(***************************************************************************)
(* The charts of the admin panel.  A chart query selects the settled bets  *)
(* of a window and groups them by UTC hour, day or month; the use case     *)
(* lists the buckets to show and fills each from the group that has its    *)
(* start or its label.  Window and list are computed separately, in a      *)
(* different way for every chart, and must fit.  Time is counted in ticks; *)
(* tick 0 begins a month.                                                  *)
(***************************************************************************)
EXTENDS Integers, FiniteSetsExt

CONSTANTS
    HourLen,        \* ticks in an hour
    DayHours,       \* hours in a day (24 in the code)
    WeekDays,       \* days of the longer presets (7 and 30)
    YearLen,        \* ticks of the longest preset (365 days)
    MonthStarts,    \* the ticks that begin a month
    MonthCount,     \* months of the monthly chart
    HourlyUpTo,     \* the longest span charted by the hour (48 hours)
    DailyUpTo,      \* the longest span charted by the day (90 days)
    MaxRange,       \* the longest custom range (732 days)
    Opening,        \* the first instant at which a chart is asked for
    Closing,        \* bound: the last one
    MaxBets,        \* bound: bets in the database
    Moments         \* instants given as ends of a custom range

DayLen == DayHours * HourLen

ASSUME CalendarAssumption ==
    /\ {HourLen, DayHours, WeekDays, MonthCount, MaxBets} \subseteq Nat \ {0}
    /\ {HourlyUpTo, DailyUpTo, MaxRange, Closing, YearLen} \subseteq Nat
    /\ Opening \in 0..Closing
    /\ MonthStarts \subseteq {n * DayLen : n \in 0..Closing}
    /\ 0 \in MonthStarts
    /\ YearLen % DayLen = 0
    /\ {YearLen, WeekDays * DayLen} \subseteq 0..Opening
    /\ Moments \subseteq 0..Opening
    /\ Cardinality({m \in MonthStarts : HourLen <= m /\ m <= Opening}) >= MonthCount

VARIABLES
    clock,      \* now
    settled,    \* the createdAt of the settled bets
    chart       \* the last chart sent: what it was computed from, and its points

chartVars == <<clock, settled, chart>>

NoChart == [view |-> "none"]
Instants == 0..Closing

\* date_trunc over the starts of a unit, and the instant the next one begins.
Starts(unit) == CASE unit = "hour" -> {n * HourLen : n \in Instants}
                  [] unit = "day" -> {n * DayLen : n \in Instants}
                  [] unit = "month" -> MonthStarts
BucketStart(unit, t) == Max({s \in Starts(unit) : s <= t})
InSpan(unit, b, t) == b <= t /\ \A s \in Starts(unit) : s <= t => s <= b

StartsFrom(unit, first, last) == {s \in Starts(unit) : first <= s /\ s <= last}

\* The hours before the current one; the last DayHours hours, which include it.
HoursBefore(now) == {BucketStart("hour", now) - i * HourLen : i \in 1..DayHours}
LastHours(now) == {BucketStart("hour", now) - i * HourLen : i \in 0..(DayHours - 1)}

ChartTypeOK ==
    /\ clock \in Opening..Closing
    /\ settled \in SUBSET Instants
    /\ chart = NoChart \/ DOMAIN chart.points \subseteq Instants

ChartInit ==
    /\ clock = Opening
    /\ settled \in {{}} \cup {{s, t} : s, t \in 0..(Opening - 1)}
    /\ Cardinality(settled) <= MaxBets
    /\ chart = NoChart

(* ---------------- the charts: window, unit, buckets shown ---------------- *)

Plan(view, unit, from, to, shown) ==
    [view |-> view, unit |-> unit, from |-> from, to |-> to, shown |-> shown,
     zone |-> "UTC", closed |-> FALSE, by |-> "start"]

\* Mines, Towers, roulette, coinflip and dice: the window is the last 24 hours
\* to the tick, the buckets are the last 24 hours of the clock.
OverviewOfDay(now) ==
    Plan("overview day", "hour", now - DayLen, now, LastHours(now))

\* The longer presets; "all" of Towers charts the last year.
OverviewOfDays(now, len) ==
    Plan("overview days", "day", now - len, now,
         StartsFrom("day", BucketStart("day", now - len), BucketStart("day", now)))

\* buildOpenRateBucketKeys: an exclusive end.
OpenRateOfDay(now) ==
    Plan("open rate day", "hour", now - DayLen, now, LastHours(now - 1))
OpenRateOfDays(now) ==
    LET from == now - WeekDays * DayLen IN
    Plan("open rate days", "day", from, now,
         StartsFrom("day", BucketStart("day", from), BucketStart("day", now - 1)))

\* The cases charts begin the window with the first bucket.
CasesOfDay(now) ==
    Plan("cases day", "hour", Min(LastHours(now)), now, LastHours(now))

\* So do the crash charts, which include the current instant and find a bucket
\* by its label, the hour of the day.
CrashOfDay(now) ==
    [Plan("crash day", "hour", Min(LastHours(now)), now, LastHours(now))
        EXCEPT !.closed = TRUE, !.by = "label"]

\* The statistics chart chooses the unit by the span.
UnitOfSpan(len) == IF len <= HourlyUpTo THEN "hour"
                   ELSE IF len <= DailyUpTo THEN "day" ELSE "month"
Statistics(from, to) ==
    LET unit == UnitOfSpan(to - from) IN
    Plan("statistics", unit, from, to, StartsFrom(unit, BucketStart(unit, from), to - 1))

\* A custom range is given by instants, or by dates, of which the last counts
\* as a whole day.
CustomRanges ==
    LET dates == StartsFrom("day", 0, Opening)
        ranges == {<<s, t>> : s, t \in Moments}
                  \cup {<<s, t + DayLen>> : s, t \in dates}
    IN {r \in ranges : r[1] < r[2] /\ r[2] - r[1] <= MaxRange}

\* The last MonthCount UTC months.  Only in UTC are months without a bet filled
\* in; in another zone the series has the months that have rows.
LastMonths(now) ==
    {m \in MonthStarts : m <= now
        /\ Cardinality({n \in MonthStarts : m < n /\ n <= now}) < MonthCount}
Monthly(now, zone) ==
    [Plan("monthly", "month", Min(LastMonths(now)), now, LastMonths(now))
        EXCEPT !.zone = zone]

Zones == {"UTC", "east", "west"}
AheadOfUtc(zone) == IF zone = "east" THEN HourLen
                    ELSE IF zone = "west" THEN -HourLen ELSE 0

\* timezone(tz, createdAt) of a timestamp without time zone takes it for local
\* time and gives the UTC instant.
SqlMonth(zone, t) == t - AheadOfUtc(zone)

(* ------------------------------ the answers ------------------------------ *)

Selected(p, rows) ==
    {t \in rows : p.from <= t /\ (t < p.to \/ (p.closed /\ t = p.to))}

GroupOf(p, t) == BucketStart(p.unit, IF p.zone = "UTC" THEN t ELSE SqlMonth(p.zone, t))
Grouped(p, rows) == {GroupOf(p, t) : t \in Selected(p, rows)}
ShownStarts(p, rows) == IF p.zone = "UTC" THEN p.shown ELSE Grouped(p, rows)

\* formatUtcHourLabel.
HourLabel(b) == (b \div HourLen) % DayHours

\* The group that fills a bucket; of groups with one label the last is kept.
Filling(p, rows, b) ==
    IF p.by = "start" THEN {b}
    ELSE LET same == {g \in Grouped(p, rows) : HourLabel(g) = HourLabel(b)}
         IN IF same = {} THEN {} ELSE {Max(same)}

Points(p, rows) ==
    [b \in ShownStarts(p, rows) |->
        {t \in Selected(p, rows) : GroupOf(p, t) \in Filling(p, rows, b)}]

SendChart(p) ==
    /\ chart = NoChart
    /\ chart' = [view |-> p.view, unit |-> p.unit, zone |-> p.zone, from |-> p.from,
                 selected |-> Selected(p, settled), points |-> Points(p, settled)]
    /\ UNCHANGED <<clock, settled>>

AskOverview == \/ SendChart(OverviewOfDay(clock))
               \/ \E len \in {WeekDays * DayLen, YearLen} :
                    SendChart(OverviewOfDays(clock, len))
AskCases == \/ SendChart(OpenRateOfDay(clock))
            \/ SendChart(OpenRateOfDays(clock))
            \/ SendChart(CasesOfDay(clock))
            \/ SendChart(OverviewOfDays(clock, WeekDays * DayLen))
AskCrash == SendChart(CrashOfDay(clock))
AskStatistics == \/ \E len \in {DayLen, WeekDays * DayLen, YearLen} :
                      SendChart(Statistics(clock - len, clock))
                 \/ \E r \in CustomRanges : SendChart(Statistics(r[1], r[2]))
AskMonthly == \E zone \in Zones : SendChart(Monthly(clock, zone))

\* A bet is settled; time passes.  Either makes the chart a thing of the past.
SettleBet ==
    /\ Cardinality(settled) < MaxBets
    /\ settled' = settled \cup {clock}
    /\ chart' = NoChart
    /\ UNCHANGED clock

TimePasses ==
    /\ clock < Closing
    /\ clock' = clock + 1
    /\ chart' = NoChart
    /\ UNCHANGED settled

ChartNext == AskOverview \/ AskCases \/ AskCrash \/ AskStatistics \/ AskMonthly
             \/ SettleBet \/ TimePasses

ChartSpec == ChartInit /\ [][ChartNext]_chartVars

(* ------------------------------ properties ------------------------------- *)

\* What a chart of the last 24 hours to the tick selects and does not show: the
\* bets of the hour in which the window begins, unless the shown hours reach it.
LostHour(c) ==
    IF c.view \in {"overview day", "open rate day"}
    THEN {t \in c.selected : t < Min(DOMAIN c.points)} ELSE {}

\* Every bet that the query selects is shown in exactly one point, and in UTC in
\* the point in whose hour, day or month it was made, except the bets of the
\* hour in which a 24-hour window begins: they are in the totals of the page
\* and in no point.
ChartShowsWindow ==
    chart # NoChart =>
        /\ UNION {chart.points[b] : b \in DOMAIN chart.points}
             = chart.selected \ LostHour(chart)
        /\ \A t \in LostHour(chart) : InSpan("hour", BucketStart("hour", chart.from), t)
        /\ \A b \in DOMAIN chart.points, t \in chart.selected :
             chart.zone = "UTC" =>
                (t \in chart.points[b] <=> InSpan(chart.unit, b, t))
        /\ \A b1, b2 \in DOMAIN chart.points :
             b1 # b2 => chart.points[b1] \cap chart.points[b2] = {}

\* monthly-ggr-chart.query.dto.ts: the time zone is the one of the calendar
\* months.  A bet counts in the month that its local time, ahead of UTC by the
\* offset of the zone, falls in.
MonthsAreLocal ==
    (chart # NoChart /\ chart.view = "monthly") =>
        \A b \in DOMAIN chart.points : \A t \in chart.points[b] :
            InSpan("month", b, t + AheadOfUtc(chart.zone))

=============================================================================
