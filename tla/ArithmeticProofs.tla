-------------------------- MODULE ArithmeticProofs --------------------------
(***************************************************************************)
(* The theorems about what is computed: the points of the charts, the      *)
(* multiplier of a refund and the weights of a case, for any calendar, any *)
(* grid and any chances.  Induction over numbers is FromZeroOn, by the     *)
(* least number that is missing from a set.                                *)
(***************************************************************************)
EXTENDS ChartBuckets, MinesRefund, CaseWeights, FiniteSetTheorems,
        SequenceTheorems, WellFoundedInduction, TLAPS

(* Numbers *)

\* A set of numbers up to n has a greatest.
LEMMA HasMax ==
    ASSUME NEW S, S \subseteq Nat, NEW n \in Nat, \A s \in S : s <= n, S # {}
    PROVE  Max(S) \in S /\ \A s \in S : s <= Max(S)
<1> DEFINE T == {k \in Nat : n - k \in S}
<1>1. T # {}
  <2>1. PICK s \in S : TRUE OBVIOUS
  <2>2. n - s \in Nat /\ n - (n - s) = s BY <2>1
  <2> QED BY <2>1, <2>2
<1>2. PICK x \in T : \A y \in T : ~(<<y, x>> \in OpToRel(<, Nat))
      BY <1>1, WFMin, NatLessThanWellFounded
<1>3. \A y \in T : ~(y < x) BY <1>2 DEF OpToRel
<1>4. \A s \in S : s <= n - x
  <2> SUFFICES ASSUME NEW s \in S PROVE s <= n - x OBVIOUS
  <2>1. s \in Nat /\ s <= n /\ x \in Nat OBVIOUS
  <2>2. n - s \in Nat /\ n - (n - s) = s BY <2>1
  <2>3. n - s \in T BY <2>2
  <2> QED BY <1>3, <2>1, <2>3
<1>5. n - x \in S OBVIOUS
<1> QED BY <1>4, <1>5 DEF Max

\* A set of numbers has a least.
LEMMA HasMin ==
    ASSUME NEW S, S \subseteq Nat, S # {}
    PROVE  Min(S) \in S /\ \A s \in S : Min(S) <= s
<1>1. PICK x \in S : \A y \in S : ~(<<y, x>> \in OpToRel(<, Nat))
      BY WFMin, NatLessThanWellFounded
<1>2. \A y \in S : ~(y < x) BY <1>1 DEF OpToRel
<1>3. \A y \in S : x <= y BY <1>2
<1> QED BY <1>3 DEF Min

\* What holds of 0 and passes from a number to the next holds of all.
LEMMA FromZeroOn ==
    ASSUME NEW S, 0 \in S, \A n \in Nat : n \in S => n + 1 \in S
    PROVE  Nat \subseteq S
<1> DEFINE missing == {n \in Nat : n \notin S}
<1>1. ASSUME missing # {} PROVE FALSE
  <2> DEFINE m == Min(missing)
  <2>1. m \in missing /\ \A n \in missing : m <= n BY <1>1, HasMin
  <2> HIDE DEF m
  <2>2. m \in Nat /\ m \notin S /\ m # 0 BY <2>1
  <2>3. m - 1 \in Nat /\ m - 1 + 1 = m /\ ~(m <= m - 1) BY <2>2
  <2>4. m - 1 \in S BY <2>1, <2>3
  <2> QED BY <2>2, <2>3, <2>4
<1> QED BY <1>1

\* Multiples of a length are in the order of their factors.
LEMMA Multiples ==
    ASSUME NEW a \in Int, NEW b \in Int, NEW c \in Nat \ {0}
    PROVE  /\ a * c \in Int
           /\ (a + 1) * c = a * c + c
           /\ a < b => a * c + c <= b * c
           /\ a <= b <=> a * c <= b * c
           /\ a = b <=> a * c = b * c
<1>1. a * c \in Int /\ b * c \in Int /\ (a + 1) * c = a * c + c OBVIOUS
<1>2. ASSUME NEW x \in Int, NEW y \in Int, x < y PROVE x * c + c <= y * c
  <2>1. PICK d \in Nat : y = x + 1 + d
    <3>1. y - x - 1 \in Nat /\ y = x + 1 + (y - x - 1) BY <1>2
    <3> QED BY <3>1
  <2>2. y * c = x * c + c + d * c BY <2>1
  <2>3. d * c \in Nat OBVIOUS
  <2> QED BY <2>2, <2>3
<1>3. a < b => a * c + c <= b * c BY <1>2
<1>4. b < a => b * c + c <= a * c BY <1>2
<1> QED BY <1>1, <1>3, <1>4

\* A number is its quotient times the divisor, and the rest.
LEMMA Division ==
    ASSUME NEW n \in Nat, NEW d \in Nat \ {0}, NEW q \in Int, NEW r \in Int,
           q = n \div d, r = n % d
    PROVE  n = d * q + r
<1>1. d > 0 OBVIOUS
<1> QED BY <1>1

(* The charts *)

\* The units that date_trunc is called with.
Units == {"hour", "day", "month"}

\* Lengths are positive, and the longer presets hold a day.
LEMMA Lengths ==
    /\ {HourLen, DayHours, DayLen, WeekDays} \subseteq Nat \ {0}
    /\ Closing \in Nat /\ Opening \in 0..Closing
    /\ DayLen <= WeekDays * DayLen
<1>1. /\ HourLen \in Nat \ {0} /\ DayHours \in Nat \ {0} /\ WeekDays \in Nat \ {0}
      /\ Closing \in Nat /\ Opening \in 0..Closing
      BY CalendarAssumption
<1>2. DayLen \in Nat /\ HourLen <= DayLen
  <2>1. DayHours * HourLen \in Nat /\ 1 * HourLen = HourLen BY <1>1
  <2>2. 1 * HourLen <= DayHours * HourLen BY <1>1, Multiples
  <2> QED BY <2>1, <2>2 DEF DayLen
<1>3. DayLen <= WeekDays * DayLen
  <2>1. DayLen \in Nat \ {0} BY <1>1, <1>2
  <2>2. 1 * DayLen <= WeekDays * DayLen BY <1>1, <2>1, Multiples
  <2> QED BY <2>1, <2>2
<1> QED BY <1>1, <1>2, <1>3

\* The starts of a unit are numbers, 0 among them.
LEMMA StartsOfUnits ==
    ASSUME NEW unit \in Units
    PROVE  Starts(unit) \subseteq Nat /\ 0 \in Starts(unit)
<1>1. HourLen \in Nat \ {0} /\ Closing \in Nat BY Lengths
<1>2. DayLen \in Nat \ {0} BY Lengths
<1>3. \A n \in Instants : n * HourLen \in Nat /\ n * DayLen \in Nat
      BY <1>1, <1>2 DEF Instants
<1>4. 0 \in Instants /\ 0 * HourLen = 0 /\ 0 * DayLen = 0 BY <1>1, <1>2 DEF Instants
<1>5. MonthStarts \subseteq Nat
      BY <1>3, CalendarAssumption DEF Instants
<1>6. CASE unit = "hour" BY <1>3, <1>4, <1>6 DEF Starts
<1>7. CASE unit = "day" BY <1>3, <1>4, <1>7 DEF Starts
<1>8. CASE unit = "month" BY <1>5, <1>8, CalendarAssumption DEF Starts
<1> QED BY <1>6, <1>7, <1>8 DEF Units

\* The start of a bucket is the last start up to the instant.
LEMMA LastStart ==
    ASSUME NEW unit \in Units, NEW t \in Nat
    PROVE  LET b == BucketStart(unit, t) IN
           /\ b \in Starts(unit) /\ b <= t /\ b \in Nat
           /\ \A s \in Starts(unit) : s <= t => s <= b
           /\ \A s \in Starts(unit) : InSpan(unit, s, t) <=> b = s
<1> DEFINE S == {s \in Starts(unit) : s <= t}
           b == BucketStart(unit, t)
<1>1. Starts(unit) \subseteq Nat /\ 0 \in Starts(unit) BY StartsOfUnits
<1>2. S \subseteq Nat /\ S # {} /\ \A s \in S : s <= t BY <1>1
<1>3. Max(S) \in S /\ \A s \in S : s <= Max(S) BY <1>2, HasMax
<1>4. b = Max(S) BY DEF BucketStart
<1>5. b \in Starts(unit) /\ b <= t /\ b \in Nat /\ \A s \in Starts(unit) : s <= t => s <= b
      BY <1>1, <1>3, <1>4
<1> HIDE DEF b
<1>6. ASSUME NEW s \in Starts(unit) PROVE InSpan(unit, s, t) <=> b = s
  <2>1. s \in Nat BY <1>1
  <2> QED BY <1>5, <2>1 DEF InSpan
<1> QED BY <1>5, <1>6 DEF b

\* Later instants are in the same or in later buckets.
LEMMA Ordered ==
    ASSUME NEW unit \in Units, NEW t \in Nat, NEW u \in Nat, t <= u
    PROVE  BucketStart(unit, t) <= BucketStart(unit, u)
<1>1. BucketStart(unit, t) \in Starts(unit) /\ BucketStart(unit, t) <= t
      /\ BucketStart(unit, t) \in Nat
      BY LastStart
<1> QED BY <1>1, LastStart

\* An hour is the ticks from a multiple of its length to the next.
LEMMA HourOf ==
    ASSUME NEW t \in 0..Closing
    PROVE  \E k \in 0..Closing :
              /\ BucketStart("hour", t) = k * HourLen
              /\ k * HourLen <= t /\ t < k * HourLen + HourLen
<1>1. HourLen \in Nat \ {0} /\ Closing \in Nat BY CalendarAssumption
<1>2. BucketStart("hour", t) \in Starts("hour") /\ BucketStart("hour", t) <= t
      /\ \A s \in Starts("hour") : s <= t => s <= BucketStart("hour", t)
      BY LastStart DEF Units
<1>3. Starts("hour") = {n * HourLen : n \in Instants} BY DEF Starts
<1>4. PICK k \in Instants : BucketStart("hour", t) = k * HourLen BY <1>2, <1>3
<1>5. k \in 0..Closing /\ k * HourLen \in Nat BY <1>1, <1>4 DEF Instants
<1>6. t < k * HourLen + HourLen
  <2> SUFFICES ASSUME k * HourLen + HourLen <= t PROVE FALSE BY <1>1, <1>5
  <2>1. (k + 1) * HourLen = k * HourLen + HourLen BY <1>1, <1>5, Multiples
  <2>2. k + 1 <= Closing
    <3>1. k * 1 <= k * HourLen BY <1>1, <1>5
    <3> QED BY <1>1, <1>5, <3>1
  <2>3. (k + 1) * HourLen \in Starts("hour") BY <1>3, <1>5, <2>2 DEF Instants
  <2>4. k * HourLen + HourLen <= k * HourLen BY <1>2, <1>4, <2>1, <2>3
  <2> QED BY <1>1, <1>5, <2>4
<1> QED BY <1>2, <1>4, <1>5, <1>6

\* The last hours end with the current one, and are the buckets of the instants
\* from the first of them on.
LEMMA TheLastHours ==
    ASSUME NEW now \in 0..Closing, DayLen <= now + 1
    PROVE  LET hours == LastHours(now) IN
           /\ hours \subseteq Starts("hour") /\ hours # {}
           /\ Min(hours) \in hours
           /\ \A t \in Nat : t <= now => (BucketStart("hour", t) \in hours <=> Min(hours) <= t)
           /\ \A t \in Nat : now - DayLen <= t /\ t < Min(hours) =>
                 BucketStart("hour", t) = Min(hours) - HourLen
           /\ \A g, h \in hours : HourLabel(g) = HourLabel(h) => g = h
<1> DEFINE H == HourLen
           D == DayHours
           hours == LastHours(now)
<1>1. H \in Nat \ {0} /\ D \in Nat \ {0} /\ Closing \in Nat /\ now \in Nat
      BY CalendarAssumption
<1>2. PICK N \in 0..Closing : /\ BucketStart("hour", now) = N * H
                              /\ N * H <= now /\ now < N * H + H
      BY HourOf
<1>3. N \in Nat BY <1>1, <1>2
<1>4. D <= N + 1
  <2>1. D * H = DayLen BY DEF DayLen
  <2>2. D * H \in Nat /\ N * H \in Nat BY <1>1, <1>3
  <2>3. D * H <= N * H + H BY <1>1, <1>2, <2>1, <2>2
  <2>4. (N + 1) * H = N * H + H BY <1>1, <1>3, Multiples
  <2> HIDE DEF D, H
  <2> QED BY <1>1, <1>3, <2>3, <2>4, Multiples
<1> DEFINE F == N - (D - 1)
<1>5. F \in Nat /\ F <= N BY <1>1, <1>3, <1>4
<1>6. hours = {k * H : k \in F..N}
  <2>1. \A i \in 0..(D - 1) : N - i \in F..N /\ (N - i) * H = N * H - i * H
        BY <1>1, <1>3, <1>5
  <2>2. \A k \in F..N : N - k \in 0..(D - 1) /\ N * H - (N - k) * H = k * H
        BY <1>1, <1>3, <1>5
  <2>3. hours = {N * H - i * H : i \in 0..(D - 1)} BY <1>2 DEF LastHours
  <2> QED BY <2>1, <2>2, <2>3
<1>7. \A k \in F..N : k \in 0..Closing /\ k \in Nat /\ k * H \in Nat BY <1>1, <1>2, <1>5
<1>8. hours \subseteq Starts("hour") /\ hours \subseteq Nat
  <2>1. Starts("hour") = {k * H : k \in Instants} BY DEF Starts
  <2> QED BY <1>6, <1>7, <2>1 DEF Instants
<1>9. F * H \in hours BY <1>5, <1>3, <1>6
<1>10. Min(hours) = F * H
  <2>1. Min(hours) \in hours /\ \A s \in hours : Min(hours) <= s BY <1>8, <1>9, HasMin
  <2>2. PICK k \in F..N : Min(hours) = k * H BY <1>6, <2>1
  <2>3. k * H <= F * H BY <1>9, <2>1, <2>2
  <2>4. k <= F BY <1>1, <1>5, <1>7, <2>3, Multiples
  <2> QED BY <1>5, <1>7, <2>2, <2>4
<1> HIDE DEF hours, F, D, H
<1>11. ASSUME NEW t \in Nat, t <= now
       PROVE  \E k \in 0..N : /\ BucketStart("hour", t) = k * H
                              /\ k * H <= t /\ t < k * H + H
  <2>1. PICK k \in 0..Closing : BucketStart("hour", t) = k * H /\ k * H <= t /\ t < k * H + H
    <3>1. t \in 0..Closing BY <1>1, <1>11
    <3> QED BY <3>1, HourOf DEF H
  <2>2. k * H < N * H + H BY <1>1, <1>2, <1>3, <1>11, <2>1
  <2>3. k <= N
    <3> SUFFICES ASSUME N < k PROVE FALSE BY <1>3, <2>1
    <3>1. N * H + H <= k * H BY <1>1, <1>3, <2>1, Multiples
    <3>2. N * H \in Nat /\ k * H \in Nat BY <1>1, <1>3, <2>1
    <3> QED BY <1>1, <2>2, <3>1, <3>2
  <2> QED BY <1>3, <2>1, <2>3
<1>12. ASSUME NEW t \in Nat, t <= now
       PROVE  BucketStart("hour", t) \in hours <=> Min(hours) <= t
  <2>1. PICK k \in 0..N : BucketStart("hour", t) = k * H /\ k * H <= t /\ t < k * H + H
        BY <1>11, <1>12
  <2>2. k \in Nat /\ k * H \in Nat /\ F * H \in Nat BY <1>1, <1>5, <2>1
  <2>3. ASSUME F * H <= t PROVE F <= k
    <3> SUFFICES ASSUME k < F PROVE FALSE BY <1>5, <2>2
    <3>1. k * H + H <= F * H BY <1>1, <1>5, <2>2, Multiples
    <3> QED BY <1>1, <2>1, <2>2, <2>3, <3>1
  <2>4. ASSUME F * H <= t PROVE k * H \in hours
        BY <1>3, <1>5, <1>6, <2>1, <2>3, <2>4
  <2>5. ASSUME k * H \in hours PROVE F * H <= t
    <3>1. F * H <= k * H
      <4>1. PICK j \in F..N : k * H = j * H BY <1>6, <2>5
      <4>2. F * H <= j * H BY <1>1, <1>5, <4>1, Multiples
      <4> QED BY <4>1, <4>2
    <3> QED BY <2>1, <2>2, <3>1
  <2> QED BY <1>10, <2>1, <2>4, <2>5
<1>13. ASSUME NEW t \in Nat, now - DayLen <= t, t < Min(hours)
       PROVE  BucketStart("hour", t) = Min(hours) - HourLen
  <2>1. Min(hours) \in Nat BY <1>8, <1>9, <1>10
  <2>2. Min(hours) <= now
    <3>1. F * H <= N * H BY <1>1, <1>3, <1>5, Multiples
    <3>2. F * H \in Nat /\ N * H \in Nat BY <1>1, <1>3, <1>5
    <3> QED BY <1>1, <1>2, <1>10, <3>1, <3>2
  <2>3. PICK k \in 0..N : BucketStart("hour", t) = k * H /\ k * H <= t /\ t < k * H + H
    <3>1. t <= now BY <1>1, <1>13, <2>1, <2>2
    <3> QED BY <1>11, <3>1
  <2>4. k \in Nat /\ k * H \in Nat /\ F * H \in Nat /\ N * H \in Nat /\ D * H \in Nat
        BY <1>1, <1>3, <1>5, <2>3
  <2>5. k < F
    <3> SUFFICES ASSUME F <= k PROVE FALSE BY <1>5, <2>4
    <3>1. F * H <= k * H BY <1>1, <1>5, <2>4, Multiples
    <3> QED BY <1>10, <1>13, <2>3, <2>4, <3>1
  <2>6. F * H = N * H - D * H + H
        BY <1>1, <1>3 DEF F
  <2>7. N * H - D * H <= t
        BY <1>1, <1>2, <1>13, <2>4 DEF DayLen, H, D
  <2>8. F * H - H < k * H + H BY <1>1, <2>3, <2>4, <2>6, <2>7
  <2>9. F * H < (k + 1) * H + H
        BY <1>1, <2>4, <2>8, Multiples
  <2>10. F <= k + 1
    <3> SUFFICES ASSUME k + 1 < F PROVE FALSE BY <1>5, <2>4
    <3>1. (k + 1) * H + H <= F * H BY <1>1, <1>5, <2>4, Multiples
    <3>2. (k + 1) * H \in Nat BY <1>1, <2>4
    <3> QED BY <1>1, <2>4, <2>9, <3>1, <3>2
  <2>11. F = k + 1 BY <1>5, <2>4, <2>5, <2>10
  <2>12. F * H = k * H + H BY <1>1, <2>4, <2>11, Multiples
  <2> QED BY <1>1, <1>10, <2>3, <2>4, <2>12 DEF H
<1>14. ASSUME NEW g \in hours, NEW h \in hours, HourLabel(g) = HourLabel(h) PROVE g = h
  <2>1. PICK j \in F..N : g = j * H BY <1>6
  <2>2. PICK k \in F..N : h = k * H BY <1>6
  <2>3. j \in Nat /\ k \in Nat BY <1>5, <2>1, <2>2
  <2>4. g \div HourLen = j /\ h \div HourLen = k
    <3>1. \A i \in Nat : (i * H) \div H = i BY <1>1
    <3> QED BY <2>1, <2>2, <2>3, <3>1 DEF H
  <2>5. j % D = k % D BY <1>14, <2>4 DEF HourLabel, D
  <2>6. j - k < D /\ k - j < D BY <1>1, <1>3, <1>5, <2>1, <2>2 DEF F
  <2>7. j = k
    <3> DEFINE x == j \div D
               y == k \div D
               r == j % D
    <3>1. x \in Int /\ y \in Int /\ r \in Int /\ r = k % D BY <1>1, <2>3, <2>5
    <3>2. x \in Int /\ y \in Int /\ r \in Int /\ j = D * x + r /\ k = D * y + r
      <4>1. j = D * x + r BY <1>1, <2>3, <3>1, Division
      <4>2. k = D * y + r BY <1>1, <2>3, <3>1, Division
      <4> QED BY <3>1, <4>1, <4>2
    <3> HIDE DEF x, y, r
    <3>3. D * x = x * D /\ D * y = y * D /\ x * D \in Int /\ y * D \in Int
          BY <1>1, <3>2
    <3>4. ~(x < y)
      <4> SUFFICES ASSUME x < y PROVE FALSE OBVIOUS
      <4>1. x * D + D <= y * D BY <1>1, <3>2, Multiples
      <4> QED BY <1>1, <2>3, <2>6, <3>2, <3>3, <4>1
    <3>5. ~(y < x)
      <4> SUFFICES ASSUME y < x PROVE FALSE OBVIOUS
      <4>1. y * D + D <= x * D BY <1>1, <3>2, Multiples
      <4> QED BY <1>1, <2>3, <2>6, <3>2, <3>3, <4>1
    <3>6. x = y BY <3>2, <3>4, <3>5
    <3> QED BY <3>2, <3>6
  <2> QED BY <2>1, <2>2, <2>7
<1> QED BY <1>8, <1>9, <1>10, <1>12, <1>13, <1>14 DEF hours

\* What a chart is to show.
ShowsWindow(c) ==
    /\ UNION {c.points[b] : b \in DOMAIN c.points} = c.selected \ LostHour(c)
    /\ \A t \in LostHour(c) : InSpan("hour", BucketStart("hour", c.from), t)
    /\ \A b \in DOMAIN c.points, t \in c.selected :
          c.zone = "UTC" => (t \in c.points[b] <=> InSpan(c.unit, b, t))
    /\ \A b1, b2 \in DOMAIN c.points :
          b1 # b2 => c.points[b1] \cap c.points[b2] = {}

\* The chart that is sent for a plan.
Sent(p) == [view |-> p.view, unit |-> p.unit, zone |-> p.zone, from |-> p.from,
            selected |-> Selected(p, settled), points |-> Points(p, settled)]

\* The plans of the last 24 hours to the tick.
OfTheDay(p) == p.view \in {"overview day", "open rate day"}

\* A plan in UTC whose buckets are found by their starts.
InUtc(p) ==
    /\ p.zone = "UTC" /\ p.by = "start" /\ p.unit \in Units
    /\ p.shown \subseteq Starts(p.unit)

\* A plan puts each bet in the point that has its bucket.
LEMMA PointsInUtc ==
    ASSUME NEW p, InUtc(p)
    PROVE  /\ DOMAIN Sent(p).points = p.shown
           /\ \A b \in p.shown : \A t :
                 t \in Sent(p).points[b] <=>
                    t \in Selected(p, settled) /\ BucketStart(p.unit, t) = b
<1>1. \A t : GroupOf(p, t) = BucketStart(p.unit, t) BY DEF InUtc, GroupOf
<1>2. \A b : Filling(p, settled, b) = {b} BY DEF InUtc, Filling
<1>3. ShownStarts(p, settled) = p.shown BY DEF InUtc, ShownStarts
<1> QED BY <1>1, <1>2, <1>3 DEF Sent, Points

\* If what it loses is what it shows no bucket for, it shows its window.
LEMMA ShowsIfFits ==
    ASSUME NEW c, c.unit \in Units, c.selected \subseteq Nat,
           NEW shown, shown \subseteq Starts(c.unit),
           DOMAIN c.points = shown,
           \A b \in shown : \A t :
              t \in c.points[b] <=> t \in c.selected /\ BucketStart(c.unit, t) = b,
           \A t \in c.selected : t \in LostHour(c) <=> BucketStart(c.unit, t) \notin shown,
           \A t \in LostHour(c) : InSpan("hour", BucketStart("hour", c.from), t)
    PROVE  ShowsWindow(c)
<1>1. DOMAIN c.points = shown
      /\ \A b \in shown : \A t :
            t \in c.points[b] <=> t \in c.selected /\ BucketStart(c.unit, t) = b
      OBVIOUS
<1>2. LostHour(c) \subseteq c.selected BY DEF LostHour
<1>3. UNION {c.points[b] : b \in DOMAIN c.points} = c.selected \ LostHour(c)
  <2>1. ASSUME NEW t \in c.selected \ LostHour(c)
        PROVE  t \in UNION {c.points[b] : b \in DOMAIN c.points}
    <3>1. BucketStart(c.unit, t) \in shown OBVIOUS
    <3> QED BY <1>1, <3>1
  <2>2. ASSUME NEW b \in DOMAIN c.points, NEW t \in c.points[b]
        PROVE  t \in c.selected \ LostHour(c)
        BY <1>1
  <2> QED BY <2>1, <2>2
<1>4. ASSUME NEW b \in DOMAIN c.points, NEW t \in c.selected
      PROVE  t \in c.points[b] <=> InSpan(c.unit, b, t)
  <2>1. b \in Starts(c.unit) /\ t \in Nat BY <1>1
  <2>2. InSpan(c.unit, b, t) <=> BucketStart(c.unit, t) = b BY <2>1, LastStart
  <2> QED BY <1>1, <2>2
<1>5. \A b1, b2 \in DOMAIN c.points : b1 # b2 => c.points[b1] \cap c.points[b2] = {}
      BY <1>1
<1> QED BY <1>3, <1>4, <1>5 DEF ShowsWindow

\* So does a plan, if it shows the bucket of every bet it selects.
LEMMA ShowsIfCovered ==
    ASSUME NEW p, InUtc(p), settled \subseteq Nat, ~OfTheDay(p),
           \A t \in Selected(p, settled) : BucketStart(p.unit, t) \in p.shown
    PROVE  ShowsWindow(Sent(p))
<1> SUFFICES ASSUME NEW c, c = Sent(p) PROVE ShowsWindow(c)
    OBVIOUS
<1>1. /\ c.view = p.view /\ c.unit = p.unit /\ c.selected = Selected(p, settled)
      /\ c.from = p.from
      BY DEF Sent
<1>2. /\ DOMAIN c.points = p.shown
      /\ \A b \in p.shown : \A t :
            t \in c.points[b] <=>
               t \in Selected(p, settled) /\ BucketStart(p.unit, t) = b
      BY PointsInUtc
<1>3. c.selected \subseteq Nat BY <1>1 DEF Selected
<1>4. LostHour(c) = {} BY <1>1 DEF LostHour, OfTheDay
<1>5. c.unit \in Units /\ p.shown \subseteq Starts(c.unit) BY <1>1 DEF InUtc
<1>6. \A b \in p.shown : \A t :
         t \in c.points[b] <=> t \in c.selected /\ BucketStart(c.unit, t) = b
      BY <1>1, <1>2
<1>7. \A t \in c.selected : t \in LostHour(c) <=> BucketStart(c.unit, t) \notin p.shown
      BY <1>1, <1>4
<1> QED BY <1>2, <1>3, <1>4, <1>5, <1>6, <1>7, ShowsIfFits

\* The plans of the last 24 hours lose the hour they begin in.
LEMMA DayShows ==
    ASSUME NEW p, settled \subseteq Nat, NEW now \in 0..Closing, DayLen <= now + 1,
           InUtc(p), p.unit = "hour", p.shown = LastHours(now),
           OfTheDay(p), p.from \in Nat,
           now - DayLen <= p.from,
           \A t \in Selected(p, settled) : p.from <= t /\ t <= now
    PROVE  ShowsWindow(Sent(p))
<1> SUFFICES ASSUME NEW c, c = Sent(p), NEW hours, hours = LastHours(now)
             PROVE  ShowsWindow(c)
    OBVIOUS
<1>1. /\ c.view = p.view /\ c.unit = "hour" /\ c.selected = Selected(p, settled)
      /\ c.from = p.from
      BY DEF Sent
<1>2. /\ hours \subseteq Starts("hour") /\ Min(hours) \in hours
      /\ \A t \in Nat : t <= now => (BucketStart("hour", t) \in hours <=> Min(hours) <= t)
      /\ \A t \in Nat : now - DayLen <= t /\ t < Min(hours) =>
            BucketStart("hour", t) = Min(hours) - HourLen
      BY TheLastHours
<1>4. /\ DOMAIN c.points = hours
      /\ \A b \in hours : \A t :
            t \in c.points[b] <=>
               t \in Selected(p, settled) /\ BucketStart(p.unit, t) = b
  <2>1. DOMAIN c.points = p.shown
        /\ \A b \in p.shown : \A t :
            t \in c.points[b] <=>
               t \in Selected(p, settled) /\ BucketStart(p.unit, t) = b
        BY PointsInUtc
  <2>2. p.shown = hours OBVIOUS
  <2> QED BY <2>1, <2>2
<1>5. c.selected \subseteq Nat BY <1>1 DEF Selected
<1>6. Min(hours) \in Nat /\ now \in Nat /\ DayLen \in Nat
  <2>1. Min(hours) \in Nat BY <1>2, StartsOfUnits DEF Units
  <2>2. now \in Nat BY Lengths
  <2> QED BY <2>1, <2>2, Lengths
<1>7. LostHour(c) = {t \in c.selected : t < Min(hours)}
      BY <1>1, <1>4 DEF LostHour, OfTheDay
<1>8. \A t \in c.selected : t <= now /\ p.from <= t /\ t \in Nat BY <1>1, <1>5
<1>9. ASSUME NEW t \in c.selected
      PROVE  t \in LostHour(c) <=> BucketStart(c.unit, t) \notin hours
  <2>1. t \in Nat /\ t <= now BY <1>8
  <2>2. BucketStart("hour", t) \in hours <=> Min(hours) <= t BY <1>2, <2>1
  <2> QED BY <1>1, <1>6, <1>7, <2>1, <2>2
<1>10. ASSUME NEW t \in LostHour(c) PROVE InSpan("hour", BucketStart("hour", c.from), t)
  <2>1. t \in Nat /\ p.from <= t /\ t < Min(hours) BY <1>7, <1>8
  <2>0. now - DayLen <= t /\ p.from < Min(hours) BY <1>6, <2>1
  <2>2. BucketStart("hour", t) = Min(hours) - HourLen BY <1>2, <2>0, <2>1
  <2>3. BucketStart("hour", p.from) = Min(hours) - HourLen BY <1>2, <2>0
  <2>4. BucketStart("hour", p.from) \in Starts("hour") BY LastStart DEF Units
  <2> QED BY <1>1, <2>1, <2>2, <2>3, <2>4, LastStart DEF Units
<1>11. c.unit \in Units /\ hours \subseteq Starts(c.unit) BY <1>1, <1>2 DEF Units
<1>12. \A b \in hours : \A t :
          t \in c.points[b] <=> t \in c.selected /\ BucketStart(c.unit, t) = b
       BY <1>1, <1>4
<1> QED BY <1>4, <1>5, <1>9, <1>10, <1>11, <1>12, ShowsIfFits

\* The instants at which a chart is asked for leave room for its window.
LEMMA Room ==
    ASSUME NEW now \in Opening..Closing
    PROVE  /\ now \in 0..Closing /\ now \in Nat /\ now - 1 \in 0..Closing
           /\ DayLen \in Nat \ {0} /\ DayLen <= now /\ now - DayLen \in Nat
           /\ now - WeekDays * DayLen \in Nat /\ now - YearLen \in Nat
<1>1. /\ DayLen \in Nat \ {0} /\ Closing \in Nat /\ Opening \in 0..Closing
      /\ DayLen <= WeekDays * DayLen /\ WeekDays \in Nat \ {0}
      BY Lengths
<1>2. WeekDays * DayLen \in 0..Opening /\ YearLen \in 0..Opening
      BY CalendarAssumption
<1> QED BY <1>1, <1>2

\* A plan that shows the buckets from the one of its first instant on, up to the
\* one of the last bet at least, shows its window.
LEMMA RangeShows ==
    ASSUME NEW p, settled \subseteq Nat, ~OfTheDay(p), p.unit \in Units,
           p.zone = "UTC", p.by = "start", p.from \in Nat, NEW last \in Int,
           p.shown = StartsFrom(p.unit, BucketStart(p.unit, p.from), last),
           \A t \in Selected(p, settled) :
              p.from <= t /\ BucketStart(p.unit, t) <= last
    PROVE  ShowsWindow(Sent(p))
<1>1. InUtc(p) BY DEF InUtc, StartsFrom
<1>2. ASSUME NEW t \in Selected(p, settled) PROVE BucketStart(p.unit, t) \in p.shown
  <2>1. t \in Nat /\ p.from <= t BY DEF Selected
  <2>2. BucketStart(p.unit, t) \in Starts(p.unit) BY <2>1, LastStart
  <2>3. BucketStart(p.unit, p.from) <= BucketStart(p.unit, t) BY <2>1, Ordered
  <2> QED BY <2>2, <2>3 DEF StartsFrom
<1> QED BY <1>1, <1>2, ShowsIfCovered

\* The hours of the overview reach the last bet of its window and lose the hour
\* it begins in.
LEMMA OverviewOfDayShows ==
    ASSUME NEW now \in Opening..Closing, settled \subseteq Nat
    PROVE  ShowsWindow(Sent(OverviewOfDay(now)))
<1> SUFFICES ASSUME NEW p, p = OverviewOfDay(now) PROVE ShowsWindow(Sent(p))
    OBVIOUS
<1>1. now \in 0..Closing /\ now \in Nat /\ DayLen \in Nat /\ DayLen <= now
      /\ now - DayLen \in Nat
      BY Room
<1>2. /\ p.zone = "UTC" /\ p.by = "start" /\ p.unit = "hour" /\ p.shown = LastHours(now)
      /\ p.from = now - DayLen /\ p.to = now /\ p.closed = FALSE
      BY DEF OverviewOfDay, Plan
<1>3. OfTheDay(p) BY DEF OfTheDay, OverviewOfDay, Plan
<1>4. LastHours(now) \subseteq Starts("hour") BY <1>1, TheLastHours
<1>5. InUtc(p) BY <1>2, <1>4 DEF InUtc, Units
<1>6. ASSUME NEW t \in Selected(p, settled) PROVE p.from <= t /\ t <= now
      BY <1>1, <1>2 DEF Selected
<1>7. DayLen <= now + 1 /\ now - DayLen <= p.from /\ p.from \in Nat BY <1>1, <1>2
<1> QED BY <1>1, <1>2, <1>3, <1>5, <1>6, <1>7, DayShows

\* So do the hours of the open rate, which end an instant earlier, as the window does.
LEMMA OpenRateOfDayShows ==
    ASSUME NEW now \in Opening..Closing, settled \subseteq Nat
    PROVE  ShowsWindow(Sent(OpenRateOfDay(now)))
<1> SUFFICES ASSUME NEW p, p = OpenRateOfDay(now), NEW end, end = now - 1
             PROVE  ShowsWindow(Sent(p))
    OBVIOUS
<1>1. end \in 0..Closing /\ now \in Nat /\ DayLen \in Nat /\ DayLen <= now
      /\ now - DayLen \in Nat
      BY Room
<1>2. /\ p.zone = "UTC" /\ p.by = "start" /\ p.unit = "hour" /\ p.shown = LastHours(end)
      /\ p.from = now - DayLen /\ p.to = now /\ p.closed = FALSE
      BY DEF OpenRateOfDay, Plan
<1>3. OfTheDay(p) BY DEF OfTheDay, OpenRateOfDay, Plan
<1>7. DayLen <= end + 1 /\ end - DayLen <= p.from /\ p.from \in Nat BY <1>1, <1>2
<1>4. LastHours(end) \subseteq Starts("hour") BY <1>1, <1>7, TheLastHours
<1>5. InUtc(p) BY <1>2, <1>4 DEF InUtc, Units
<1>6. ASSUME NEW t \in Selected(p, settled) PROVE p.from <= t /\ t <= end
      BY <1>1, <1>2 DEF Selected
<1> QED BY <1>1, <1>2, <1>3, <1>5, <1>6, <1>7, DayShows

\* The days of the overview run from the first instant of its window to now.
LEMMA OverviewOfDaysShows ==
    ASSUME NEW now \in Opening..Closing, settled \subseteq Nat,
           NEW len, now - len \in Nat
    PROVE  ShowsWindow(Sent(OverviewOfDays(now, len)))
<1> SUFFICES ASSUME NEW p, p = OverviewOfDays(now, len) PROVE ShowsWindow(Sent(p))
    OBVIOUS
<1> DEFINE last == BucketStart("day", now)
<1>1. now \in Nat BY Room
<1>2. last \in Int BY <1>1, LastStart DEF Units
<1>3. /\ p.zone = "UTC" /\ p.by = "start" /\ p.unit = "day" /\ p.from = now - len
      /\ p.to = now /\ p.closed = FALSE
      /\ p.shown = StartsFrom("day", BucketStart("day", now - len), last)
      BY DEF OverviewOfDays, Plan
<1>4. ~OfTheDay(p) BY DEF OfTheDay, OverviewOfDays, Plan
<1>5. ASSUME NEW t \in Selected(p, settled)
      PROVE  p.from <= t /\ BucketStart(p.unit, t) <= last
  <2>1. t \in Nat /\ p.from <= t /\ t <= now BY <1>1, <1>3 DEF Selected
  <2> QED BY <1>1, <1>3, <2>1, Ordered DEF Units
<1> QED BY <1>2, <1>3, <1>4, <1>5, RangeShows DEF Units

\* The days of the open rate end with the last instant of its window.
LEMMA OpenRateOfDaysShows ==
    ASSUME NEW now \in Opening..Closing, settled \subseteq Nat
    PROVE  ShowsWindow(Sent(OpenRateOfDays(now)))
<1> SUFFICES ASSUME NEW p, p = OpenRateOfDays(now), NEW end, end = now - 1
             PROVE  ShowsWindow(Sent(p))
    OBVIOUS
<1> DEFINE last == BucketStart("day", end)
<1>1. now \in Nat /\ end \in Nat /\ now - WeekDays * DayLen \in Nat
      BY Room
<1>2. last \in Int BY <1>1, LastStart DEF Units
<1>3. /\ p.zone = "UTC" /\ p.by = "start" /\ p.unit = "day"
      /\ p.from = now - WeekDays * DayLen /\ p.to = now /\ p.closed = FALSE
      /\ p.shown = StartsFrom("day", BucketStart("day", now - WeekDays * DayLen), last)
      BY DEF OpenRateOfDays, Plan
<1>4. ~OfTheDay(p) BY DEF OfTheDay, OpenRateOfDays, Plan
<1>5. ASSUME NEW t \in Selected(p, settled)
      PROVE  p.from <= t /\ BucketStart(p.unit, t) <= last
  <2>1. t \in Nat /\ p.from <= t /\ t <= end BY <1>1, <1>3 DEF Selected
  <2> QED BY <1>1, <1>3, <2>1, Ordered DEF Units
<1> QED BY <1>1, <1>2, <1>3, <1>4, <1>5, RangeShows DEF Units

\* The statistics show the buckets of a range, whichever unit its length selects.
LEMMA StatisticsShows ==
    ASSUME NEW from \in Nat, NEW to \in Nat, settled \subseteq Nat
    PROVE  ShowsWindow(Sent(Statistics(from, to)))
<1> SUFFICES ASSUME NEW p, p = Statistics(from, to), NEW unit, unit = UnitOfSpan(to - from)
             PROVE  ShowsWindow(Sent(p))
    OBVIOUS
<1>1. unit \in Units BY DEF UnitOfSpan, Units
<1>2. /\ p.zone = "UTC" /\ p.by = "start" /\ p.unit = unit /\ p.from = from
      /\ p.to = to /\ p.closed = FALSE
      /\ p.shown = StartsFrom(unit, BucketStart(unit, from), to - 1)
      BY DEF Statistics, Plan
<1>3. ~OfTheDay(p) BY DEF OfTheDay, Statistics, Plan
<1>4. ASSUME NEW t \in Selected(p, settled)
      PROVE  p.from <= t /\ BucketStart(p.unit, t) <= to - 1
  <2>1. t \in Nat /\ p.from <= t /\ t <= to - 1 BY <1>2 DEF Selected
  <2>2. BucketStart(unit, t) <= t /\ BucketStart(unit, t) \in Nat
        BY <1>1, <2>1, LastStart
  <2> QED BY <1>2, <2>1, <2>2
<1>5. to - 1 \in Int /\ p.from \in Nat BY <1>2
<1> QED BY <1>1, <1>2, <1>3, <1>4, <1>5, RangeShows

\* The window of the cases begins with the first hour shown, so none is lost.
LEMMA CasesOfDayShows ==
    ASSUME NEW now \in Opening..Closing, settled \subseteq Nat
    PROVE  ShowsWindow(Sent(CasesOfDay(now)))
<1> SUFFICES ASSUME NEW p, p = CasesOfDay(now), NEW hours, hours = LastHours(now)
             PROVE  ShowsWindow(Sent(p))
    OBVIOUS
<1>1. now \in 0..Closing /\ now \in Nat /\ DayLen <= now + 1 BY Room
<1>2. /\ p.zone = "UTC" /\ p.by = "start" /\ p.unit = "hour" /\ p.from = Min(hours)
      /\ p.to = now /\ p.closed = FALSE /\ p.shown = hours
      BY DEF CasesOfDay, Plan
<1>3. ~OfTheDay(p) BY DEF OfTheDay, CasesOfDay, Plan
<1>4. /\ hours \subseteq Starts("hour")
      /\ \A t \in Nat : t <= now => (BucketStart("hour", t) \in hours <=> Min(hours) <= t)
      BY <1>1, TheLastHours
<1>5. InUtc(p) BY <1>2, <1>4 DEF InUtc, Units
<1>6. ASSUME NEW t \in Selected(p, settled) PROVE BucketStart(p.unit, t) \in p.shown
  <2>1. t \in Nat /\ t <= now /\ Min(hours) <= t BY <1>1, <1>2 DEF Selected
  <2> QED BY <1>2, <1>4, <2>1
<1> QED BY <1>3, <1>5, <1>6, ShowsIfCovered

\* The largest element of a set with one element.
LEMMA MaxOfOne ==
    ASSUME NEW n \in Nat PROVE Max({n}) = n
BY HasMax

\* The labels of the last hours differ, so each finds its own bucket.
LEMMA CrashOfDayShows ==
    ASSUME NEW now \in Opening..Closing, settled \subseteq Nat
    PROVE  ShowsWindow(Sent(CrashOfDay(now)))
<1> SUFFICES ASSUME NEW p, p = CrashOfDay(now), NEW hours, hours = LastHours(now)
             PROVE  ShowsWindow(Sent(p))
    OBVIOUS
<1>1. now \in 0..Closing /\ now \in Nat /\ DayLen <= now + 1 BY Room
<1>2. /\ p.zone = "UTC" /\ p.by = "label" /\ p.unit = "hour" /\ p.from = Min(hours)
      /\ p.to = now /\ p.closed = TRUE /\ p.shown = hours
      BY DEF CrashOfDay, Plan
<1>3. ~OfTheDay(p) BY DEF OfTheDay, CrashOfDay, Plan
<1>4. /\ hours \subseteq Starts("hour") /\ Min(hours) \in hours
      /\ \A t \in Nat : t <= now => (BucketStart("hour", t) \in hours <=> Min(hours) <= t)
      /\ \A g, h \in hours : HourLabel(g) = HourLabel(h) => g = h
      BY <1>1, TheLastHours
<1>0. hours \subseteq Nat /\ Min(hours) \in Nat BY <1>4, StartsOfUnits DEF Units
<1>5. ASSUME NEW t \in Selected(p, settled)
      PROVE  t \in Nat /\ BucketStart("hour", t) \in hours
  <2>1. t \in Nat /\ t <= now /\ Min(hours) <= t BY <1>0, <1>1, <1>2 DEF Selected
  <2> QED BY <1>4, <2>1
<1>6. \A t : GroupOf(p, t) = BucketStart("hour", t) BY <1>2 DEF GroupOf
<1>7. ASSUME NEW b \in hours, NEW t \in Selected(p, settled)
      PROVE  BucketStart("hour", t) \in Filling(p, settled, b) <=> BucketStart("hour", t) = b
  <2> DEFINE same == {g \in Grouped(p, settled) : HourLabel(g) = HourLabel(b)}
  <2>1. Grouped(p, settled) \subseteq hours BY <1>5, <1>6 DEF Grouped
  <2>2. BucketStart("hour", t) \in Grouped(p, settled) BY <1>6 DEF Grouped
  <2>3. same = {} \/ same = {b} BY <1>4, <2>1
  <2>4. Filling(p, settled, b) = IF same = {} THEN {} ELSE {Max(same)}
        BY <1>2 DEF Filling
  <2>5. Max({b}) = b BY <1>0, MaxOfOne
  <2>6. ASSUME BucketStart("hour", t) = b PROVE b \in Filling(p, settled, b)
    <3>1. b \in same BY <2>2, <2>6
    <3>2. same = {b} BY <2>3, <3>1
    <3> HIDE DEF same
    <3> QED BY <2>4, <2>5, <3>2
  <2>7. ASSUME NEW x \in Filling(p, settled, b) PROVE x = b
    <3> HIDE DEF same
    <3> QED BY <2>3, <2>4, <2>5, <2>7
  <2> QED BY <2>6, <2>7
<1> DEFINE c == Sent(p)
<1>8. /\ c.view = p.view /\ c.unit = "hour" /\ c.selected = Selected(p, settled)
      /\ c.from = p.from
      BY <1>2 DEF Sent
<1>9. ShownStarts(p, settled) = hours BY <1>2 DEF ShownStarts
<1>10. /\ DOMAIN c.points = hours
       /\ \A b \in hours : \A t :
             t \in c.points[b] <=>
                t \in Selected(p, settled) /\ BucketStart("hour", t) \in Filling(p, settled, b)
       BY <1>6, <1>9 DEF Sent, Points
<1> HIDE DEF c
<1>11. \A b \in hours : \A t :
          t \in c.points[b] <=> t \in c.selected /\ BucketStart(c.unit, t) = b
       BY <1>7, <1>8, <1>10
<1>12. LostHour(c) = {} BY <1>3, <1>8 DEF LostHour, OfTheDay
<1>13. \A t \in c.selected : t \in LostHour(c) <=> BucketStart(c.unit, t) \notin hours
       BY <1>5, <1>8, <1>12
<1>14. c.selected \subseteq Nat /\ c.unit \in Units /\ hours \subseteq Starts(c.unit)
       BY <1>4, <1>5, <1>8 DEF Units
<1>15. \A t \in LostHour(c) : InSpan("hour", BucketStart("hour", c.from), t)
       BY <1>12
<1>16. ShowsWindow(c) BY <1>10, <1>11, <1>13, <1>14, <1>15, ShowsIfFits
<1> QED BY <1>16 DEF c

\* The last months are the months of the instants from the first of them on.
LEMMA TheLastMonths ==
    ASSUME NEW now \in 0..Closing
    PROVE  LET months == LastMonths(now) IN
           /\ months \subseteq Starts("month")
           /\ \A t \in Nat : Min(months) <= t /\ t <= now =>
                 BucketStart("month", t) \in months
<1> DEFINE months == LastMonths(now)
           Later(m) == {n \in MonthStarts : m < n /\ n <= now}
<1>1. Starts("month") = MonthStarts /\ MonthStarts \subseteq Nat /\ now \in Nat
      /\ MonthCount \in Nat \ {0}
  <2>1. Starts("month") = MonthStarts BY DEF Starts
  <2>2. Starts("month") \subseteq Nat BY StartsOfUnits DEF Units
  <2>3. now \in Nat BY Lengths
  <2> QED BY <2>1, <2>2, <2>3, CalendarAssumption
<1>2. \A m : m \in months <=> m \in MonthStarts /\ m <= now /\ Cardinality(Later(m)) < MonthCount
      BY DEF LastMonths
<1>0. ASSUME NEW m \in Nat, NEW n
      PROVE  n \in Later(m) <=> n \in Nat /\ n \in MonthStarts /\ m < n /\ n <= now
      BY <1>1
<1> HIDE DEF Later
<1>3. ASSUME NEW m \in Nat PROVE IsFiniteSet(Later(m))
  <2>1. Later(m) \subseteq 0..now
    <3>1. ASSUME NEW n \in Later(m) PROVE n \in 0..now
      <4>1. n \in Nat /\ n <= now BY <1>0
      <4>2. now \in Nat BY <1>1
      <4> QED BY <4>1, <4>2
    <3> QED BY <3>1
  <2>2. IsFiniteSet(0..now) BY <1>1, FS_Interval
  <2> QED BY <2>1, <2>2, FS_Subset
<1>4. Min(months) \in months /\ Min(months) \in Nat
  <2> DEFINE b == BucketStart("month", now)
  <2>1. b \in MonthStarts /\ b <= now /\ b \in Nat /\ \A s \in MonthStarts : s <= now => s <= b
        BY <1>1, LastStart DEF Units
  <2> HIDE DEF b
  <2>2. Later(b) = {}
    <3>1. ASSUME NEW n \in Later(b) PROVE FALSE
      <4>1. n \in Nat /\ n \in MonthStarts /\ b < n /\ n <= now BY <1>0, <2>1
      <4> QED BY <2>1, <4>1
    <3> QED BY <3>1
  <2>3. Cardinality(Later(b)) = 0 BY <2>2, FS_EmptySet
  <2>4. b \in months BY <1>1, <1>2, <2>1, <2>3
  <2>5. months \subseteq Nat BY <1>1, <1>2
  <2> HIDE DEF months
  <2>6. Min(months) \in months BY <2>4, <2>5, HasMin
  <2> QED BY <2>5, <2>6
<1>5. ASSUME NEW t \in Nat, Min(months) <= t, t <= now
      PROVE  BucketStart("month", t) \in months
  <2> DEFINE b == BucketStart("month", t)
             first == Min(months)
  <2>1. b \in MonthStarts /\ b <= t /\ b \in Nat /\ \A s \in MonthStarts : s <= t => s <= b
        BY <1>1, LastStart DEF Units
  <2>2. first \in MonthStarts /\ first <= t /\ first \in Nat
        /\ Cardinality(Later(first)) < MonthCount
        BY <1>2, <1>4, <1>5
  <2> HIDE DEF b, first
  <2>3. first <= b BY <2>1, <2>2
  <2>4. Later(b) \subseteq Later(first)
    <3>1. ASSUME NEW n \in Later(b) PROVE n \in Later(first)
      <4>1. n \in Nat /\ n \in MonthStarts /\ b < n /\ n <= now BY <1>0, <2>1
      <4>2. first < n BY <2>1, <2>2, <2>3, <4>1
      <4> QED BY <1>0, <2>2, <4>1, <4>2
    <3> QED BY <3>1
  <2>5. IsFiniteSet(Later(first)) BY <1>3, <2>2
  <2>6. /\ Cardinality(Later(b)) \in Nat /\ Cardinality(Later(first)) \in Nat
        /\ Cardinality(Later(b)) <= Cardinality(Later(first))
        BY <2>4, <2>5, FS_Subset, FS_CardinalityType
  <2>7. Cardinality(Later(b)) < MonthCount BY <1>1, <2>2, <2>6
  <2>8. b <= now BY <1>1, <1>5, <2>1
  <2>9. b \in months BY <1>2, <2>1, <2>7, <2>8
  <2> QED BY <2>9 DEF b
<1>6. months \subseteq Starts("month") BY <1>1, <1>2
<1> QED BY <1>5, <1>6

\* In UTC the monthly chart shows all its months; elsewhere it shows the months
\* that it has rows for, and so loses none.
LEMMA MonthlyShows ==
    ASSUME NEW now \in Opening..Closing, settled \subseteq Nat, NEW zone
    PROVE  ShowsWindow(Sent(Monthly(now, zone)))
<1> SUFFICES ASSUME NEW p, p = Monthly(now, zone), NEW months, months = LastMonths(now)
             PROVE  ShowsWindow(Sent(p))
    OBVIOUS
<1>1. now \in 0..Closing /\ now \in Nat BY Room
<1>2. /\ p.zone = zone /\ p.by = "start" /\ p.unit = "month" /\ p.from = Min(months)
      /\ p.to = now /\ p.closed = FALSE /\ p.shown = months
      BY DEF Monthly, Plan
<1>3. ~OfTheDay(p) BY DEF OfTheDay, Monthly, Plan
<1>4. CASE zone = "UTC"
  <2>1. /\ months \subseteq Starts("month")
        /\ \A t \in Nat : Min(months) <= t /\ t <= now => BucketStart("month", t) \in months
        BY <1>1, TheLastMonths
  <2>2. InUtc(p) BY <1>2, <1>4, <2>1 DEF InUtc, Units
  <2>3. ASSUME NEW t \in Selected(p, settled) PROVE BucketStart(p.unit, t) \in p.shown
    <3>1. t \in Nat /\ t <= now /\ Min(months) <= t BY <1>1, <1>2 DEF Selected
    <3> QED BY <1>2, <2>1, <3>1
  <2> QED BY <1>3, <2>2, <2>3, ShowsIfCovered
<1>5. CASE zone # "UTC"
  <2> DEFINE c == Sent(p)
  <2>1. c.view = p.view /\ c.zone = zone /\ c.selected = Selected(p, settled)
        BY <1>2 DEF Sent
  <2>2. LostHour(c) = {} BY <1>3, <2>1 DEF LostHour, OfTheDay
  <2>3. ShownStarts(p, settled) = Grouped(p, settled) BY <1>2, <1>5 DEF ShownStarts
  <2>4. \A b : Filling(p, settled, b) = {b} BY <1>2 DEF Filling
  <2>5. /\ DOMAIN c.points = Grouped(p, settled)
        /\ \A b \in Grouped(p, settled) : \A t :
              t \in c.points[b] <=> t \in Selected(p, settled) /\ GroupOf(p, t) = b
        BY <2>3, <2>4 DEF Sent, Points
  <2>6. \A t \in Selected(p, settled) : GroupOf(p, t) \in Grouped(p, settled)
        BY DEF Grouped
  <2> HIDE DEF c
  <2>7. UNION {c.points[b] : b \in DOMAIN c.points} = c.selected
    <3>1. ASSUME NEW t \in c.selected
          PROVE  t \in UNION {c.points[b] : b \in DOMAIN c.points}
          BY <2>1, <2>5, <2>6
    <3>2. ASSUME NEW b \in DOMAIN c.points, NEW t \in c.points[b]
          PROVE  t \in c.selected
          BY <2>1, <2>5
    <3> QED BY <3>1, <3>2
  <2>8. \A b1, b2 \in DOMAIN c.points : b1 # b2 => c.points[b1] \cap c.points[b2] = {}
        BY <2>5
  <2>9. ShowsWindow(c) BY <1>5, <2>1, <2>2, <2>7, <2>8 DEF ShowsWindow
  <2> QED BY <2>9 DEF c
<1> QED BY <1>4, <1>5

\* Charts are asked for and bets settled between the first instant and the last,
\* and the chart on the screen shows its window.
ChartInv ==
    /\ clock \in Opening..Closing
    /\ settled \subseteq Instants
    /\ ChartShowsWindow

\* The property is that the chart on the screen, if there is one, shows its window.
LEMMA ShownOnScreen == ChartShowsWindow <=> (chart # NoChart => ShowsWindow(chart))
BY DEF ChartShowsWindow, ShowsWindow

\* Asking for a plan that shows its window puts such a chart on the screen.
LEMMA SentByPlan ==
    ASSUME NEW p, ChartInv, SendChart(p), ShowsWindow(Sent(p))
    PROVE  ChartInv'
<1>1. UNCHANGED <<clock, settled>> BY DEF SendChart
<1>2. chart' = Sent(p) BY DEF SendChart, Sent
<1>3. ShowsWindow(chart') BY <1>2
<1>5. ChartShowsWindow' BY <1>3 DEF ChartShowsWindow, ShowsWindow
<1> QED BY <1>1, <1>5 DEF ChartInv

\* Each chart that is asked for shows its window; a bet or the time removes it.
LEMMA ChartStep == ChartInv /\ [ChartNext]_chartVars => ChartInv'
<1> SUFFICES ASSUME ChartInv, [ChartNext]_chartVars PROVE ChartInv'
    OBVIOUS
<1>1. /\ Closing \in Nat /\ clock \in Opening..Closing /\ settled \subseteq Nat
      /\ clock \in Nat
      BY Lengths, Room DEF ChartInv, Instants
<1>2. /\ clock - DayLen \in Nat /\ clock - WeekDays * DayLen \in Nat
      /\ clock - YearLen \in Nat
      BY <1>1, Room
<1>3. CASE AskOverview
  <2>1. CASE SendChart(OverviewOfDay(clock))
        BY <1>1, <2>1, OverviewOfDayShows, SentByPlan
  <2>2. ASSUME NEW len \in {WeekDays * DayLen, YearLen}, SendChart(OverviewOfDays(clock, len))
        PROVE  ChartInv'
    <3>1. clock - len \in Nat BY <1>2, <2>2
    <3> QED BY <1>1, <2>2, <3>1, OverviewOfDaysShows, SentByPlan
  <2> QED BY <1>3, <2>1, <2>2 DEF AskOverview
<1>4. CASE AskCases
  <2>1. CASE SendChart(OpenRateOfDay(clock))
        BY <1>1, <2>1, OpenRateOfDayShows, SentByPlan
  <2>2. CASE SendChart(OpenRateOfDays(clock))
        BY <1>1, <2>2, OpenRateOfDaysShows, SentByPlan
  <2>3. CASE SendChart(CasesOfDay(clock))
        BY <1>1, <2>3, CasesOfDayShows, SentByPlan
  <2>4. CASE SendChart(OverviewOfDays(clock, WeekDays * DayLen))
        BY <1>1, <1>2, <2>4, OverviewOfDaysShows, SentByPlan
  <2> QED BY <1>4, <2>1, <2>2, <2>3, <2>4 DEF AskCases
<1>5. CASE AskCrash
      BY <1>1, <1>5, CrashOfDayShows, SentByPlan DEF AskCrash
<1>6. CASE AskStatistics
  <2>1. ASSUME NEW len \in {DayLen, WeekDays * DayLen, YearLen},
               SendChart(Statistics(clock - len, clock))
        PROVE  ChartInv'
    <3>1. clock - len \in Nat BY <1>2, <2>1
    <3> QED BY <1>1, <2>1, <3>1, StatisticsShows, SentByPlan
  <2>2. ASSUME NEW r \in CustomRanges, SendChart(Statistics(r[1], r[2]))
        PROVE  ChartInv'
    <3>1. r[1] \in Nat /\ r[2] \in Nat
      <4>1. Moments \subseteq Nat /\ DayLen \in Nat BY CalendarAssumption, Lengths
      <4>2. StartsFrom("day", 0, Opening) \subseteq Nat
            BY StartsOfUnits DEF StartsFrom, Units
      <4>3. \A s, t \in StartsFrom("day", 0, Opening) : s \in Nat /\ t + DayLen \in Nat
            BY <4>1, <4>2
      <4> QED BY <4>1, <4>3 DEF CustomRanges
    <3> QED BY <1>1, <2>2, <3>1, StatisticsShows, SentByPlan
  <2> QED BY <1>6, <2>1, <2>2 DEF AskStatistics
<1>7. CASE AskMonthly
      BY <1>1, <1>7, MonthlyShows, SentByPlan DEF AskMonthly
<1>8. CASE SettleBet
  <2>1. clock' = clock /\ settled' = settled \cup {clock} /\ chart' = NoChart
        BY <1>8 DEF SettleBet
  <2>2. clock \in Instants BY <1>1, Room DEF Instants
  <2>3. settled' \subseteq Instants BY <2>1, <2>2 DEF ChartInv, Instants
  <2> QED BY <2>1, <2>3 DEF ChartInv, ChartShowsWindow, NoChart, Instants
<1>9. CASE TimePasses
  <2>1. clock < Closing /\ clock' = clock + 1 /\ settled' = settled /\ chart' = NoChart
        BY <1>9 DEF TimePasses
  <2>2. Opening \in Nat BY Lengths
  <2>3. clock' \in Opening..Closing BY <1>1, <2>1, <2>2
  <2> QED BY <2>1, <2>3 DEF ChartInv, ChartShowsWindow, NoChart, Instants
<1>10. CASE UNCHANGED chartVars
  <2>1. clock' = clock /\ settled' = settled /\ chart' = chart BY <1>10 DEF chartVars
  <2>2. CASE chart = NoChart
        BY <2>1, <2>2 DEF ChartInv, ChartShowsWindow, NoChart, Instants
  <2>3. CASE chart # NoChart
    <3>1. ShowsWindow(chart) BY <2>3, ShownOnScreen DEF ChartInv
    <3>2. ShowsWindow(chart') BY <2>1, <3>1
    <3>3. ChartShowsWindow' BY <3>2 DEF ChartShowsWindow, ShowsWindow
    <3> QED BY <2>1, <3>3 DEF ChartInv, Instants
  <2> QED BY <2>2, <2>3
<1> QED BY <1>3, <1>4, <1>5, <1>6, <1>7, <1>8, <1>9, <1>10 DEF ChartNext

(***************************************************************************)
(* Every chart shows each bet that its query selects in exactly one point, *)
(* in UTC the one of its hour, day or month, but for the bets of the hour  *)
(* in which a window of 24 hours begins.                                   *)
(***************************************************************************)
THEOREM ChartsShowTheirWindow == ChartSpec => []ChartShowsWindow
<1>1. ChartInit => ChartInv
  <2> SUFFICES ASSUME ChartInit PROVE ChartInv
      OBVIOUS
  <2>1. Opening \in 0..Closing /\ Closing \in Nat BY Lengths
  <2>2. \A t \in 0..(Opening - 1) : t \in Instants BY <2>1 DEF Instants
  <2>3. settled \subseteq Instants BY <2>2 DEF ChartInit
  <2> QED BY <2>1, <2>3 DEF ChartInit, ChartInv, ChartShowsWindow, NoChart
<1>2. ChartInv => ChartShowsWindow BY DEF ChartInv
<1> QED BY <1>1, <1>2, ChartStep, PTL DEF ChartSpec

(* The multiplier of a refund *)

\* A function that is computed as Falling computes its.
IsFalling(g, n, k) == g = [i \in 0..k |-> IF i = 0 THEN 1 ELSE g[i - 1] * (n - i + 1)]

\* Such a function starts with 1, and each value gives the next.
LEMMA FallingUnfolds ==
    ASSUME NEW n \in Int, NEW k \in Nat, NEW g, IsFalling(g, n, k)
    PROVE  /\ g[0] = 1
           /\ \A i \in Nat : i < k => g[i + 1] = g[i] * (n - i)
<1>1. g = [i \in 0..k |-> IF i = 0 THEN 1 ELSE g[i - 1] * (n - i + 1)]
      BY DEF IsFalling
<1>2. 0 \in 0..k OBVIOUS
<1>3. \A i \in 0..k : g[i] = IF i = 0 THEN 1 ELSE g[i - 1] * (n - i + 1) BY <1>1
<1>4. g[0] = 1 BY <1>2, <1>3
<1>5. ASSUME NEW i \in Nat, i < k PROVE g[i + 1] = g[i] * (n - i)
  <2>1. i + 1 \in 0..k /\ i + 1 # 0 /\ i + 1 - 1 = i /\ n - (i + 1) + 1 = n - i BY <1>5
  <2>2. g[i + 1] = g[i + 1 - 1] * (n - (i + 1) + 1) BY <1>3, <2>1
  <2> QED BY <2>1, <2>2
<1> QED BY <1>4, <1>5

\* There is one, for any number of factors.
LEMMA FallingExists ==
    ASSUME NEW n \in Int, NEW k \in Nat
    PROVE  \E g : IsFalling(g, n, k)
<1> DEFINE S == {j \in Nat : \E g : IsFalling(g, n, j)}
<1>1. 0 \in S
  <2> DEFINE g == [i \in 0..0 |-> 1]
  <2>1. IsFalling(g, n, 0) BY DEF IsFalling
  <2> QED BY <2>1
<1>2. ASSUME NEW j \in Nat, j \in S PROVE j + 1 \in S
  <2>1. PICK g : IsFalling(g, n, j) BY <1>2
  <2> DEFINE h == [i \in 0..(j + 1) |-> IF i = j + 1 THEN g[j] * (n - j) ELSE g[i]]
  <2>2. \A i \in 0..j : g[i] = IF i = 0 THEN 1 ELSE g[i - 1] * (n - i + 1)
        BY <2>1 DEF IsFalling
  <2>3. ASSUME NEW i \in 0..(j + 1)
        PROVE  h[i] = IF i = 0 THEN 1 ELSE h[i - 1] * (n - i + 1)
    <3>1. CASE i = j + 1
      <4>1. i # 0 /\ i - 1 = j /\ i - 1 \in 0..(j + 1) /\ j # j + 1 /\ n - i + 1 = n - j BY <3>1
      <4>2. h[i] = g[j] * (n - j) /\ h[i - 1] = g[j] BY <3>1, <4>1
      <4> QED BY <4>1, <4>2
    <3>2. CASE i # j + 1 /\ i # 0
      <4>1. i \in 0..j /\ i - 1 \in 0..(j + 1) /\ i - 1 # j + 1 BY <3>2
      <4>2. h[i] = g[i] /\ h[i - 1] = g[i - 1] BY <3>2, <4>1
      <4> QED BY <2>2, <3>2, <4>1, <4>2
    <3>3. CASE i = 0
      <4>1. 0 \in 0..j /\ 0 # j + 1 OBVIOUS
      <4> QED BY <2>2, <3>3, <4>1
    <3> QED BY <3>1, <3>2, <3>3
  <2>4. h = [i \in 0..(j + 1) |-> IF i = 0 THEN 1 ELSE h[i - 1] * (n - i + 1)]
        BY <2>3
  <2> HIDE DEF h
  <2>5. IsFalling(h, n, j + 1) BY <2>4 DEF IsFalling
  <2> QED BY <2>5
<1> HIDE DEF S
<1>3. k \in S BY <1>1, <1>2, FromZeroOn
<1> QED BY <1>3 DEF S

\* Falling is the last value of one.
LEMMA FallingValue ==
    ASSUME NEW n \in Int, NEW k \in Nat
    PROVE  \E g : IsFalling(g, n, k) /\ Falling(n, k) = g[k]
<1> DEFINE f == CHOOSE g : IsFalling(g, n, k)
<1>1. IsFalling(f, n, k) BY FallingExists
<1>2. Falling(n, k) = f[k] BY DEF Falling, IsFalling
<1> QED BY <1>1, <1>2

\* Two of them agree as far as both go.
LEMMA FallingAgrees ==
    ASSUME NEW n \in Int, NEW k \in Nat, NEW l \in Nat, NEW g, NEW h,
           IsFalling(g, n, k), IsFalling(h, n, l), NEW i \in Nat, i <= k, i <= l
    PROVE  g[i] = h[i]
<1> DEFINE S == {j \in Nat : j <= k /\ j <= l => g[j] = h[j]}
<1>1. 0 \in S BY FallingUnfolds
<1>2. ASSUME NEW j \in Nat, j \in S PROVE j + 1 \in S
  <2> SUFFICES ASSUME j + 1 <= k, j + 1 <= l PROVE g[j + 1] = h[j + 1] OBVIOUS
  <2>1. j < k /\ j < l /\ g[j] = h[j] BY <1>2
  <2>2. g[j + 1] = g[j] * (n - j) BY <2>1, FallingUnfolds
  <2>3. h[j + 1] = h[j] * (n - j) BY <2>1, FallingUnfolds
  <2> QED BY <2>1, <2>2, <2>3
<1> HIDE DEF S
<1>3. i \in S BY <1>1, <1>2, FromZeroOn
<1> QED BY <1>3 DEF S

\* A falling factorial and the next.
LEMMA FallingSteps ==
    ASSUME NEW n \in Int, NEW k \in Nat
    PROVE  /\ Falling(n, 0) = 1
           /\ Falling(n, k + 1) = Falling(n, k) * (n - k)
           /\ Falling(n, k) \in Int
<1>1. ASSUME NEW j \in Nat PROVE Falling(n, j + 1) = Falling(n, j) * (n - j)
  <2>1. PICK g : IsFalling(g, n, j) /\ Falling(n, j) = g[j] BY FallingValue
  <2>2. PICK h : IsFalling(h, n, j + 1) /\ Falling(n, j + 1) = h[j + 1] BY FallingValue
  <2>3. g[j] = h[j] BY <2>1, <2>2, FallingAgrees
  <2>4. j < j + 1 /\ j + 1 \in Nat OBVIOUS
  <2>5. h[j + 1] = h[j] * (n - j) BY <2>2, <2>4, FallingUnfolds
  <2> QED BY <2>1, <2>2, <2>3, <2>5
<1>2. Falling(n, 0) = 1
  <2>1. PICK g : IsFalling(g, n, 0) /\ Falling(n, 0) = g[0] BY FallingValue
  <2> QED BY <2>1, FallingUnfolds
<1> DEFINE S == {j \in Nat : Falling(n, j) \in Int}
<1>3. 0 \in S BY <1>2
<1>4. \A j \in Nat : j \in S => j + 1 \in S BY <1>1
<1> HIDE DEF S
<1>5. k \in S BY <1>3, <1>4, FromZeroOn
<1> QED BY <1>1, <1>2, <1>5 DEF S

\* Pascal's rule for falling factorials.
LEMMA FallingOfNext ==
    ASSUME NEW n \in Int, NEW k \in Nat
    PROVE  Falling(n + 1, k + 1) = Falling(n, k + 1) + (k + 1) * Falling(n, k)
<1> DEFINE a(j) == Falling(n, j)
           b(j) == Falling(n + 1, j)
           S == {j \in Nat : b(j + 1) = a(j + 1) + (j + 1) * a(j)}
<1>1. /\ a(0) = 1 /\ b(0) = 1
      /\ \A j \in Nat : /\ a(j) \in Int /\ b(j) \in Int
                        /\ a(j + 1) = a(j) * (n - j)
                        /\ b(j + 1) = b(j) * (n + 1 - j)
      BY FallingSteps
<1> HIDE DEF a, b
<1>2. 0 \in S
  <2>1. a(1) = n /\ b(1) = n + 1 BY <1>1
  <2> QED BY <1>1, <2>1
<1>3. ASSUME NEW j \in Nat, j \in S PROVE j + 1 \in S
  <2>1. b(j + 1) = a(j + 1) + (j + 1) * a(j) BY <1>3
  <2>2. j + 1 \in Nat /\ a(j) \in Int /\ a(j + 1) \in Int /\ b(j + 1) \in Int BY <1>1
  <2>3. a(j + 1) = a(j) * (n - j) BY <1>1
  <2>4. a(j + 1 + 1) = a(j + 1) * (n - (j + 1)) BY <1>1, <2>2
  <2>5. b(j + 1 + 1) = b(j + 1) * (n + 1 - (j + 1)) BY <1>1, <2>2
  <2>6. b(j + 1 + 1) = b(j + 1) * (n - j) BY <2>5
  <2>7. b(j + 1) * (n - j) = a(j + 1) * (n - j) + (j + 1) * (a(j) * (n - j))
        BY <2>1, <2>2
  <2>8. b(j + 1 + 1) = a(j + 1) * (n - j) + (j + 1) * a(j + 1) BY <2>3, <2>6, <2>7
  <2>9. a(j + 1) * (n - j) + (j + 1) * a(j + 1)
          = a(j + 1) * (n - (j + 1)) + (j + 1 + 1) * a(j + 1)
        BY <2>2
  <2>10. b(j + 1 + 1) = a(j + 1 + 1) + (j + 1 + 1) * a(j + 1) BY <2>4, <2>8, <2>9
  <2> QED BY <2>2, <2>10
<1> HIDE DEF S
<1>4. k \in S BY <1>2, <1>3, FromZeroOn
<1> QED BY <1>4 DEF S, a, b

\* Falling(k, k) is the factorial of k.
LEMMA Factorials ==
    ASSUME NEW k \in Nat
    PROVE  /\ Falling(k + 1, k + 1) = (k + 1) * Falling(k, k)
           /\ Falling(k, k + 1) = 0
<1>1. Falling(k, k) \in Int /\ Falling(k, k + 1) = Falling(k, k) * (k - k)
      BY FallingSteps
<1>2. Falling(k, k + 1) = 0 BY <1>1
<1>3. Falling(k + 1, k + 1) = Falling(k, k + 1) + (k + 1) * Falling(k, k)
      BY FallingOfNext
<1> QED BY <1>1, <1>2, <1>3

\* As long as there is a factor left, a falling factorial is positive.
LEMMA FallingPositive ==
    ASSUME NEW n \in Nat, NEW k \in Nat, k <= n
    PROVE  Falling(n, k) \in Nat \ {0}
<1> DEFINE S == {j \in Nat : j <= n => Falling(n, j) \in Nat \ {0}}
<1>1. 0 \in S BY FallingSteps
<1>2. ASSUME NEW j \in Nat, j \in S PROVE j + 1 \in S
  <2> SUFFICES ASSUME j + 1 <= n PROVE Falling(n, j + 1) \in Nat \ {0} OBVIOUS
  <2>1. Falling(n, j) \in Nat \ {0} /\ n - j \in Nat \ {0} BY <1>2
  <2>2. Falling(n, j + 1) = Falling(n, j) * (n - j) BY FallingSteps
  <2> HIDE DEF S
  <2>3. ASSUME NEW x \in Nat \ {0}, NEW y \in Nat \ {0} PROVE x * y \in Nat \ {0}
        OBVIOUS
  <2> QED BY <2>1, <2>2, <2>3
<1> HIDE DEF S
<1>3. k \in S BY <1>1, <1>2, FromZeroOn
<1> QED BY <1>3 DEF S

\* No set of k + 1 is drawn from none.
LEMMA FallingOfNone ==
    ASSUME NEW k \in Nat
    PROVE  Falling(0, k + 1) = 0
<1> DEFINE S == {j \in Nat : Falling(0, j + 1) = 0}
<1>1. 0 \in S BY FallingSteps
<1>2. ASSUME NEW j \in Nat, j \in S PROVE j + 1 \in S
  <2>1. Falling(0, j + 1) = 0 /\ j + 1 \in Nat BY <1>2
  <2>2. Falling(0, j + 1 + 1) = Falling(0, j + 1) * (0 - (j + 1)) BY <2>1, FallingSteps
  <2>3. Falling(0, j + 1 + 1) = 0 BY <2>1, <2>2
  <2> QED BY <2>1, <2>3
<1> HIDE DEF S
<1>3. k \in S BY <1>1, <1>2, FromZeroOn
<1> QED BY <1>3 DEF S

\* The sets of k numbers up to n.
Draws(k, n) == kSubset(k, 1..n)

\* They are finite sets, and finitely many.
LEMMA DrawsAre ==
    ASSUME NEW k \in Nat, NEW n \in Nat
    PROVE  /\ IsFiniteSet(Draws(k, n)) /\ Cardinality(Draws(k, n)) \in Nat
           /\ \A s : s \in Draws(k, n) <=> s \subseteq 1..n /\ Cardinality(s) = k
           /\ \A s \in Draws(k, n) : IsFiniteSet(s)
<1>1. IsFiniteSet(1..n) BY FS_Interval
<1>2. \A s : s \in Draws(k, n) <=> s \subseteq 1..n /\ Cardinality(s) = k
      BY DEF Draws, kSubset
<1>3. \A s \in Draws(k, n) : IsFiniteSet(s) BY <1>1, <1>2, FS_Subset
<1>4. IsFiniteSet(SUBSET (1..n)) BY <1>1, FS_SUBSET
<1>5. Draws(k, n) \subseteq SUBSET (1..n) BY <1>2
<1>6. IsFiniteSet(Draws(k, n)) BY <1>4, <1>5, FS_Subset
<1> QED BY <1>2, <1>3, <1>6, FS_CardinalityType

\* Nothing is drawn in one way.
LEMMA DrawsOfNone ==
    ASSUME NEW n \in Nat
    PROVE  Cardinality(Draws(0, n)) = 1
<1>1. {} \in Draws(0, n) BY DrawsAre, FS_EmptySet
<1>2. \A s \in Draws(0, n) : s = {} BY DrawsAre, FS_EmptySet
<1>3. Draws(0, n) = {{}} BY <1>1, <1>2
<1> QED BY <1>3, FS_Singleton

\* From no numbers nothing can be drawn.
LEMMA DrawsFromNone ==
    ASSUME NEW k \in Nat
    PROVE  Cardinality(Draws(k + 1, 0)) = 0
<1>1. ASSUME NEW s \in Draws(k + 1, 0) PROVE FALSE
  <2>1. s \subseteq 1..0 /\ Cardinality(s) = k + 1 BY DrawsAre
  <2>2. s = {} BY <2>1
  <2> QED BY <2>1, <2>2, FS_EmptySet
<1>2. Draws(k + 1, 0) = {} BY <1>1
<1> QED BY <1>2, FS_EmptySet

\* Pascal's rule: the sets of k + 1 numbers with the last number and those without.
LEMMA DrawsOfNext ==
    ASSUME NEW n \in Nat, NEW k \in Nat
    PROVE  Cardinality(Draws(k + 1, n + 1))
             = Cardinality(Draws(k + 1, n)) + Cardinality(Draws(k, n))
<1> DEFINE A == Draws(k, n)
           B == Draws(k + 1, n)
           C == Draws(k + 1, n + 1)
           With == {s \in C : n + 1 \in s}
           f == [s \in A |-> s \cup {n + 1}]
<1>1. /\ IsFiniteSet(A) /\ IsFiniteSet(B) /\ IsFiniteSet(C)
      /\ \A s : s \in A <=> s \subseteq 1..n /\ Cardinality(s) = k
      /\ \A s : s \in B <=> s \subseteq 1..n /\ Cardinality(s) = k + 1
      /\ \A s : s \in C <=> s \subseteq 1..(n + 1) /\ Cardinality(s) = k + 1
      /\ \A s \in A : IsFiniteSet(s)
      /\ \A s \in C : IsFiniteSet(s)
  <2>1. k + 1 \in Nat /\ n + 1 \in Nat OBVIOUS
  <2>2. IsFiniteSet(A) /\ (\A s : s \in A <=> s \subseteq 1..n /\ Cardinality(s) = k)
        /\ \A s \in A : IsFiniteSet(s)
        BY DrawsAre
  <2>3. IsFiniteSet(B) /\ \A s : s \in B <=> s \subseteq 1..n /\ Cardinality(s) = k + 1
        BY <2>1, DrawsAre
  <2>4. ASSUME NEW j \in Nat, NEW m \in Nat
        PROVE  /\ IsFiniteSet(Draws(j, m))
               /\ \A s : s \in Draws(j, m) <=> s \subseteq 1..m /\ Cardinality(s) = j
               /\ \A s \in Draws(j, m) : IsFiniteSet(s)
        BY DrawsAre
  <2>5. /\ IsFiniteSet(C)
        /\ \A s : s \in C <=> s \subseteq 1..(n + 1) /\ Cardinality(s) = k + 1
        /\ \A s \in C : IsFiniteSet(s)
        BY <2>1, <2>4
  <2> HIDE DEF A, B, C
  <2> QED BY <2>2, <2>3, <2>5
<1> HIDE DEF A, B, C
<1>2. 1..(n + 1) = (1..n) \cup {n + 1} /\ n + 1 \notin 1..n OBVIOUS
<1>3. ASSUME NEW s \in A PROVE s \cup {n + 1} \in With
  <2>1. s \subseteq 1..n /\ Cardinality(s) = k /\ IsFiniteSet(s) BY <1>1
  <2>2. n + 1 \notin s BY <1>2, <2>1
  <2>3. Cardinality(s \cup {n + 1}) = k + 1 BY <2>1, <2>2, FS_AddElement
  <2> QED BY <1>1, <1>2, <2>1, <2>3
<1>4. ASSUME NEW s \in With PROVE s \ {n + 1} \in A
  <2>1. s \in C /\ n + 1 \in s BY DEF With
  <2>2. s \subseteq 1..(n + 1) /\ Cardinality(s) = k + 1 /\ IsFiniteSet(s) BY <1>1, <2>1
  <2>3. Cardinality(s \ {n + 1}) = k + 1 - 1 BY <2>1, <2>2, FS_RemoveElement
  <2>4. s \ {n + 1} \subseteq 1..n BY <1>2, <2>2
  <2> QED BY <1>1, <2>3, <2>4
<1>5. \A s \in A : n + 1 \notin s BY <1>1, <1>2
<1>6. f \in [A -> With] BY <1>3
<1>7. \A s, t \in A : f[s] = f[t] => s = t
  <2> SUFFICES ASSUME NEW s \in A, NEW t \in A, f[s] = f[t] PROVE s = t OBVIOUS
  <2>1. s \cup {n + 1} = t \cup {n + 1} OBVIOUS
  <2>2. n + 1 \notin s /\ n + 1 \notin t BY <1>5
  <2> QED BY <2>1, <2>2
<1>8. \A s \in With : \E t \in A : f[t] = s
  <2> SUFFICES ASSUME NEW s \in With PROVE \E t \in A : f[t] = s OBVIOUS
  <2>1. n + 1 \in s BY DEF With
  <2>2. (s \ {n + 1}) \cup {n + 1} = s BY <2>1
  <2>3. f[s \ {n + 1}] = s BY <1>4, <2>2
  <2> QED BY <1>4, <2>3
<1> HIDE DEF f
<1>9. f \in Bijection(A, With)
      BY <1>6, <1>7, <1>8 DEF Bijection, Injection, Surjection, IsInjective
<1>10. IsFiniteSet(With) /\ Cardinality(With) = Cardinality(A)
       BY <1>1, <1>9, FS_Bijection DEF ExistsBijection
<1>11. C = B \cup With
  <2>1. ASSUME NEW s \in C PROVE s \in B \cup With
    <3>1. s \subseteq 1..(n + 1) /\ Cardinality(s) = k + 1 BY <1>1
    <3>2. CASE n + 1 \in s BY <3>2 DEF With
    <3>3. CASE n + 1 \notin s
      <4>1. s \subseteq 1..n BY <1>2, <3>1, <3>3
      <4> QED BY <1>1, <3>1, <4>1
    <3> QED BY <3>2, <3>3
  <2>2. ASSUME NEW s \in B PROVE s \in C BY <1>1, <1>2
  <2> QED BY <2>1, <2>2 DEF With
<1>12. B \cap With = {}
  <2>1. \A s \in B : n + 1 \notin s BY <1>1, <1>2
  <2> QED BY <2>1 DEF With
<1> HIDE DEF With
<1>13. Cardinality(C) = Cardinality(B) + Cardinality(With) - Cardinality(B \cap With)
       BY <1>1, <1>10, <1>11, FS_Union
<1>14. Cardinality(B \cap With) = 0 BY <1>12, FS_EmptySet
<1>15. Cardinality(B) \in Nat /\ Cardinality(With) \in Nat
       BY <1>1, <1>10, FS_CardinalityType
<1>16. Cardinality(C) = Cardinality(B) + Cardinality(A) BY <1>10, <1>13, <1>14, <1>15
<1> QED BY <1>16 DEF A, B, C

\* The sets of k numbers up to n, in any order, are the falling factorial.
LEMMA DrawsInOrder ==
    ASSUME NEW n \in Nat, NEW k \in Nat
    PROVE  Cardinality(Draws(k, n)) * Falling(k, k) = Falling(n, k)
<1> DEFINE c(j, m) == Cardinality(Draws(j, m))
           a(m, j) == Falling(m, j)
           S == {m \in Nat : \A j \in Nat : c(j, m) * a(j, j) = a(m, j)}
<1>1. /\ \A m \in Nat : c(0, m) = 1
      /\ \A j \in Nat : c(j + 1, 0) = 0
      /\ \A m, j \in Nat : /\ c(j, m) \in Nat
                           /\ c(j + 1, m + 1) = c(j + 1, m) + c(j, m)
      BY DrawsAre, DrawsOfNone, DrawsFromNone, DrawsOfNext
<1>2. /\ \A m \in Nat : a(m, 0) = 1
      /\ \A m, j \in Nat : /\ a(m, j) \in Int
                           /\ a(m + 1, j + 1) = a(m, j + 1) + (j + 1) * a(m, j)
      /\ \A j \in Nat : a(0, j + 1) = 0 /\ a(j + 1, j + 1) = (j + 1) * a(j, j)
      BY FallingSteps, FallingOfNext, FallingOfNone, Factorials
<1> HIDE DEF c, a
<1>3. ASSUME NEW j \in Nat PROVE j = 0 \/ \E i \in Nat : j = i + 1
  <2>1. j # 0 => j - 1 \in Nat /\ j = j - 1 + 1 OBVIOUS
  <2> QED BY <2>1
<1>4. 0 \in S
  <2>1. ASSUME NEW j \in Nat PROVE c(j, 0) * a(j, j) = a(0, j)
    <3>1. CASE j = 0 BY <1>1, <1>2, <3>1
    <3>2. ASSUME NEW i \in Nat, j = i + 1 PROVE c(j, 0) * a(j, j) = a(0, j)
      <4>1. c(j, 0) = 0 /\ a(0, j) = 0 BY <1>1, <1>2, <3>2
      <4>2. a(j, j) \in Int BY <1>2
      <4> QED BY <4>1, <4>2
    <3> QED BY <1>3, <3>1, <3>2
  <2> QED BY <2>1
<1>5. ASSUME NEW m \in Nat, m \in S PROVE m + 1 \in S
  <2>1. \A j \in Nat : c(j, m) * a(j, j) = a(m, j) BY <1>5
  <2>2. ASSUME NEW j \in Nat PROVE c(j, m + 1) * a(j, j) = a(m + 1, j)
    <3>1. CASE j = 0 BY <1>1, <1>2, <3>1
    <3>2. ASSUME NEW i \in Nat, j = i + 1 PROVE c(j, m + 1) * a(j, j) = a(m + 1, j)
      <4>1. c(j, m + 1) = c(j, m) + c(i, m) BY <1>1, <3>2
      <4>2. a(m + 1, j) = a(m, j) + j * a(m, i) BY <1>2, <3>2
      <4>3. a(j, j) = j * a(i, i) BY <1>2, <3>2
      <4>4. c(j, m) * a(j, j) = a(m, j) /\ c(i, m) * a(i, i) = a(m, i) BY <2>1
      <4>5. c(j, m) \in Int /\ c(i, m) \in Int /\ a(i, i) \in Int /\ a(j, j) \in Int
        <5>1. c(j, m) \in Nat /\ c(i, m) \in Nat BY <1>1, <3>2
        <5>2. a(i, i) \in Int /\ a(j, j) \in Int BY <1>2, <3>2
        <5> QED BY <5>1, <5>2
      <4>6. ASSUME NEW x \in Int, NEW y \in Int, NEW p \in Int, NEW q \in Int, p = j * q
            PROVE  (x + y) * p = x * p + j * (y * q)
        <5>1. (x + y) * p = x * p + y * p OBVIOUS
        <5>2. y * (j * q) = j * (y * q) OBVIOUS
        <5> QED BY <4>6, <5>1, <5>2
      <4>7. (c(j, m) + c(i, m)) * a(j, j) = c(j, m) * a(j, j) + j * (c(i, m) * a(i, i))
            BY <4>3, <4>5, <4>6
      <4>8. c(j, m + 1) * a(j, j) = c(j, m) * a(j, j) + j * (c(i, m) * a(i, i))
            BY <4>1, <4>7
      <4> QED BY <4>2, <4>4, <4>8
    <3> QED BY <1>3, <3>1, <3>2
  <2> QED BY <2>2
<1> HIDE DEF S
<1>6. n \in S BY <1>4, <1>5, FromZeroOn
<1>7. c(k, n) * a(k, k) = a(n, k) BY <1>6 DEF S
<1> QED BY <1>7 DEF c, a

\* RoundDiv is off by at most a half.
LEMMA RoundedToNearest ==
    ASSUME NEW a \in Nat, NEW b \in Nat \ {0}
    PROVE  /\ RoundDiv(a, b) \in Int
           /\ 2 * (RoundDiv(a, b) * b) - 2 * a <= b
           /\ 2 * a - 2 * (RoundDiv(a, b) * b) <= b
<1> DEFINE x == 2 * a + b
           d == 2 * b
           q == x \div d
           r == x % d
<1>1. x \in Nat /\ d \in Nat \ {0} OBVIOUS
<1> HIDE DEF x, d
<1>2. q \in Int /\ r \in 0..(d - 1) BY <1>1
<1> HIDE DEF q, r
<1>3. x = d * q + r BY <1>1, <1>2, Division DEF q, r
<1>4. d * q = 2 * (q * b) BY <1>2 DEF d
<1>5. 2 * a + b = 2 * (q * b) + r BY <1>3, <1>4 DEF x
<1>6. r \in Int /\ 0 <= r /\ r < 2 * b /\ q * b \in Int BY <1>2 DEF d
<1>7. 2 * (q * b) - 2 * a <= b /\ 2 * a - 2 * (q * b) <= b BY <1>5, <1>6
<1>8. RoundDiv(a, b) = q BY DEF RoundDiv, q, x, d
<1> QED BY <1>2, <1>7, <1>8

\* Fair, for tiles of which "safe" are safe: stake x multiplier x probability.
LEMMA MultiplierFair ==
    ASSUME NEW grid \in Nat, NEW safe \in 0..grid, NEW open \in 1..safe,
           NEW edge \in 0..100
    PROVE  2 * AbsDiff(Multiplier(grid, grid - safe, open, edge)
                          * Cardinality(Draws(open, safe)),
                       Cardinality(Draws(open, grid)) * (100 - edge) * 100)
             <= Cardinality(Draws(open, safe))
<1> SUFFICES ASSUME NEW won, won = Cardinality(Draws(open, safe)),
                    NEW all, all = Cardinality(Draws(open, grid)),
                    NEW m, m = Multiplier(grid, grid - safe, open, edge)
             PROVE  2 * AbsDiff(m * won, all * (100 - edge) * 100) <= won
    OBVIOUS
<1> DEFINE k == open
           fact == Falling(k, k)
           F == Falling(safe, k)
           G == Falling(grid, k)
           E == (100 - edge) * 100
<1>1. k \in Nat \ {0} /\ safe \in Nat /\ k <= safe /\ k <= grid /\ E \in Nat OBVIOUS
<1>2. fact \in Nat \ {0} /\ F \in Nat \ {0} /\ G \in Nat \ {0}
      BY <1>1, FallingPositive
<1>3. won * fact = F /\ all * fact = G BY <1>1, DrawsInOrder
<1>4. won \in Nat /\ all \in Nat BY <1>1, DrawsAre
<1>5. m = RoundDiv(G * (100 - edge) * 100, F)
  <2>1. grid - (grid - safe) = safe BY <1>1
  <2>2. ~(open <= 0) BY <1>1
  <2> QED BY <2>1, <2>2 DEF Multiplier
<1> HIDE DEF fact, F, G
<1>6. G * (100 - edge) * 100 = G * E /\ all * (100 - edge) * 100 = all * E
      BY <1>2, <1>4
<1> HIDE DEF E
<1>7. G * E \in Nat
  <2>1. ASSUME NEW x \in Nat, NEW y \in Nat PROVE x * y \in Nat OBVIOUS
  <2> QED BY <1>1, <1>2, <2>1
<1>8. /\ m \in Int
      /\ 2 * (m * F) - 2 * (G * E) <= F
      /\ 2 * (G * E) - 2 * (m * F) <= F
      BY <1>2, <1>5, <1>6, <1>7, RoundedToNearest
<1> DEFINE d == m * won - all * E
<1>9. d \in Int /\ m * won \in Int /\ all * E \in Int BY <1>1, <1>4, <1>8
<1>10. m * F - G * E = d * fact
  <2>1. m * (won * fact) = (m * won) * fact BY <1>2, <1>4, <1>8
  <2>2. (all * fact) * E = (all * E) * fact BY <1>1, <1>2, <1>4
  <2>3. (m * won - all * E) * fact = (m * won) * fact - (all * E) * fact BY <1>2, <1>9
  <2>4. m * F = (m * won) * fact /\ G * E = (all * E) * fact BY <1>3, <2>1, <2>2
  <2> QED BY <2>3, <2>4
<1>11. m * F \in Int BY <1>2, <1>8
<1> HIDE DEF d
<1>12. (2 * d) * fact <= won * fact /\ (-2 * d) * fact <= won * fact
  <2>1. d * fact \in Int BY <1>2, <1>9
  <2>2. (2 * d) * fact = 2 * (d * fact) /\ (-2 * d) * fact = -2 * (d * fact)
        BY <1>2, <1>9
  <2>3. 2 * (d * fact) <= F /\ -2 * (d * fact) <= F
        BY <1>2, <1>7, <1>8, <1>10, <1>11, <2>1
  <2> QED BY <1>3, <2>2, <2>3
<1>13. 2 * d <= won /\ -2 * d <= won
       BY <1>2, <1>4, <1>9, <1>12, Multiples
<1>14. 2 * AbsDiff(m * won, all * E) <= won
       BY <1>4, <1>9, <1>13 DEF AbsDiff, d
<1> QED BY <1>6, <1>14

\* The grid, the mines and the stake stay, and only safe tiles are opened.
RefundInv ==
    /\ round = [grid |-> round.grid, mines |-> round.mines, bet |-> round.bet,
                edge |-> round.edge, open |-> round.open]
    /\ round.grid \in GridSizes
    /\ round.mines \in 1..(round.grid - 1)
    /\ round.open \in 0..(round.grid - round.mines)

(***************************************************************************)
(* The refund of a round is fair whatever its grid, its mines, the tiles   *)
(* open and the edge: stake x multiplier, weighted with the share of the   *)
(* draws that meet no mine, is the stake less the edge, up to rounding.    *)
(***************************************************************************)
THEOREM RefundsAreByOdds == Spec => []MultiplierIsFair
<1>0. GridSizes \subseteq Nat \ {0, 1} /\ DefaultHouseEdge \in 0..100
      BY MinesRefundAssumptions
<1>1. Init => RefundInv
  <2> SUFFICES ASSUME Init PROVE RefundInv OBVIOUS
  <2>1. PICK grid \in GridSizes, edge \in HouseEdges, bet \in BetCents :
        \E mines \in 1..(grid - 1) :
            round = [grid |-> grid, mines |-> mines, bet |-> bet, edge |-> edge,
                     open |-> 0]
        BY DEF Init
  <2>2. PICK mines \in 1..(grid - 1) :
            round = [grid |-> grid, mines |-> mines, bet |-> bet, edge |-> edge,
                     open |-> 0]
        BY <2>1
  <2>3. 0 \in 0..(grid - mines) BY <1>0
  <2> QED BY <2>2, <2>3 DEF RefundInv
<1>2. RefundInv /\ [OpenSafeTile]_round => RefundInv'
  <2> SUFFICES ASSUME RefundInv, [OpenSafeTile]_round PROVE RefundInv' OBVIOUS
  <2>1. CASE UNCHANGED round BY <2>1 DEF RefundInv
  <2>2. CASE OpenSafeTile
    <3>1. round' = [round EXCEPT !.open = @ + 1] /\ round.open < round.grid - round.mines
          BY <2>2 DEF OpenSafeTile
    <3>2. round' = [grid |-> round.grid, mines |-> round.mines, bet |-> round.bet,
                    edge |-> round.edge, open |-> round.open + 1]
          BY <3>1 DEF RefundInv
    <3>3. round.open + 1 \in 0..(round.grid - round.mines)
          BY <1>0, <3>1 DEF RefundInv
    <3> QED BY <3>2, <3>3 DEF RefundInv
  <2> QED BY <2>1, <2>2
<1>3. RefundInv => MultiplierIsFair
  <2> SUFFICES ASSUME RefundInv, round.open > 0 PROVE MultiplierIsFair
      BY DEF MultiplierIsFair
  <2> DEFINE grid == round.grid
             safe == round.grid - round.mines
             edge == ResolveHouseEdge(round.edge)
  <2>1. /\ grid \in Nat /\ safe \in 0..grid /\ round.open \in 1..safe
        /\ grid - safe = round.mines
        BY <1>0 DEF RefundInv
  <2>2. edge \in 0..100 BY <1>0 DEF ResolveHouseEdge
  <2>3. CurrentMultiplier(round) = Multiplier(grid, grid - safe, round.open, edge)
        BY <2>1 DEF CurrentMultiplier
  <2>4. MultiplierIsFair
          <=> 2 * AbsDiff(CurrentMultiplier(round) * Cardinality(Draws(round.open, safe)),
                          Cardinality(Draws(round.open, grid)) * (100 - edge) * 100)
                <= Cardinality(Draws(round.open, safe))
        BY DEF MultiplierIsFair, Draws, Openings, ResolveHouseEdge
  <2> HIDE DEF grid, safe, edge
  <2> QED BY <2>1, <2>2, <2>3, <2>4, MultiplierFair
<1> QED BY <1>1, <1>2, <1>3, PTL DEF Spec

(* The weights of a case *)

\* A function that is computed as SumTo computes its.
IsSum(g, s, n) == g = [i \in 0..n |-> IF i = 0 THEN 0 ELSE g[i - 1] + s[i]]

\* Such a function starts with 0, and each value gives the next.
LEMMA SumUnfolds ==
    ASSUME NEW s, NEW n \in Nat, NEW g, IsSum(g, s, n)
    PROVE  /\ g[0] = 0
           /\ \A i \in Nat : i < n => g[i + 1] = g[i] + s[i + 1]
<1>1. \A i \in 0..n : g[i] = IF i = 0 THEN 0 ELSE g[i - 1] + s[i] BY DEF IsSum
<1>2. g[0] = 0
  <2>1. 0 \in 0..n OBVIOUS
  <2> QED BY <1>1, <2>1
<1>3. ASSUME NEW i \in Nat, i < n PROVE g[i + 1] = g[i] + s[i + 1]
  <2>1. i + 1 \in 0..n /\ i + 1 # 0 /\ i + 1 - 1 = i BY <1>3
  <2>2. g[i + 1] = g[i + 1 - 1] + s[i + 1] BY <1>1, <2>1
  <2> QED BY <2>1, <2>2
<1> QED BY <1>2, <1>3

\* There is one, for any number of terms.
LEMMA SumExists ==
    ASSUME NEW s, NEW n \in Nat
    PROVE  \E g : IsSum(g, s, n)
<1> DEFINE S == {j \in Nat : \E g : IsSum(g, s, j)}
<1>1. 0 \in S
  <2> DEFINE g == [i \in 0..0 |-> 0]
  <2>1. IsSum(g, s, 0) BY DEF IsSum
  <2> QED BY <2>1
<1>2. ASSUME NEW j \in Nat, j \in S PROVE j + 1 \in S
  <2>1. PICK g : IsSum(g, s, j) BY <1>2
  <2> DEFINE h == [i \in 0..(j + 1) |-> IF i = j + 1 THEN g[j] + s[j + 1] ELSE g[i]]
  <2>2. \A i \in 0..j : g[i] = IF i = 0 THEN 0 ELSE g[i - 1] + s[i]
        BY <2>1 DEF IsSum
  <2>3. ASSUME NEW i \in 0..(j + 1)
        PROVE  h[i] = IF i = 0 THEN 0 ELSE h[i - 1] + s[i]
    <3>1. CASE i = j + 1
      <4>1. i # 0 /\ i - 1 = j /\ i - 1 \in 0..(j + 1) /\ j # j + 1 BY <3>1
      <4>2. h[i] = g[j] + s[i] /\ h[i - 1] = g[j] BY <3>1, <4>1
      <4> QED BY <4>1, <4>2
    <3>2. CASE i # j + 1 /\ i # 0
      <4>1. i \in 0..j /\ i - 1 \in 0..(j + 1) /\ i - 1 # j + 1 BY <3>2
      <4>2. h[i] = g[i] /\ h[i - 1] = g[i - 1] BY <3>2, <4>1
      <4> QED BY <2>2, <3>2, <4>1, <4>2
    <3>3. CASE i = 0
      <4>1. 0 \in 0..j /\ 0 # j + 1 OBVIOUS
      <4> QED BY <2>2, <3>3, <4>1
    <3> QED BY <3>1, <3>2, <3>3
  <2>4. h = [i \in 0..(j + 1) |-> IF i = 0 THEN 0 ELSE h[i - 1] + s[i]]
        BY <2>3
  <2> HIDE DEF h
  <2>5. IsSum(h, s, j + 1) BY <2>4 DEF IsSum
  <2> QED BY <2>5
<1> HIDE DEF S
<1>3. n \in S BY <1>1, <1>2, FromZeroOn
<1> QED BY <1>3 DEF S

\* SumTo is the last value of one.
LEMMA SumValue ==
    ASSUME NEW s, NEW n \in Nat
    PROVE  \E g : IsSum(g, s, n) /\ SumTo(s, n) = g[n]
<1> DEFINE f == CHOOSE g : IsSum(g, s, n)
<1>1. IsSum(f, s, n) BY SumExists
<1>2. SumTo(s, n) = f[n] BY DEF SumTo, IsSum
<1> QED BY <1>1, <1>2

\* The first k are the same.
SameUpTo(s, t, k) == \A i \in 1..k : s[i] = t[i]

\* Sums of the first numbers depend on these only.
LEMMA SumsAgree ==
    ASSUME NEW s, NEW t, NEW n \in Nat, NEW m \in Nat, NEW g, NEW h,
           IsSum(g, s, n), IsSum(h, t, m), NEW k \in Nat, k <= n, k <= m,
           SameUpTo(s, t, k)
    PROVE  g[k] = h[k]
<1> DEFINE S == {j \in Nat : j <= k => g[j] = h[j]}
<1>0. g[0] = 0 /\ h[0] = 0 BY SumUnfolds
<1>1. 0 \in S BY <1>0
<1>2. ASSUME NEW j \in Nat, j \in S PROVE j + 1 \in S
  <2> SUFFICES ASSUME j + 1 <= k PROVE g[j + 1] = h[j + 1] OBVIOUS
  <2>1. j < n /\ j < m /\ g[j] = h[j] /\ j + 1 \in 1..k BY <1>2
  <2>4. s[j + 1] = t[j + 1] BY <2>1 DEF SameUpTo
  <2>2. g[j + 1] = g[j] + s[j + 1] BY <2>1, SumUnfolds
  <2>3. h[j + 1] = h[j] + t[j + 1] BY <2>1, SumUnfolds
  <2> QED BY <2>1, <2>2, <2>3, <2>4
<1> HIDE DEF S
<1>3. k \in S BY <1>1, <1>2, FromZeroOn
<1> QED BY <1>3 DEF S

\* So do sums.
LEMMA SameSums ==
    ASSUME NEW s, NEW t, NEW n \in Nat, SameUpTo(s, t, n)
    PROVE  SumTo(s, n) = SumTo(t, n)
<1>1. PICK g : IsSum(g, s, n) /\ SumTo(s, n) = g[n] BY SumValue
<1>2. PICK h : IsSum(h, t, n) /\ SumTo(t, n) = h[n] BY SumValue
<1>3. n <= n OBVIOUS
<1>4. g[n] = h[n] BY <1>1, <1>2, <1>3, SumsAgree
<1> QED BY <1>1, <1>2, <1>4

\* A sum and the next.
LEMMA SumSteps ==
    ASSUME NEW s, NEW n \in Nat
    PROVE  SumTo(s, 0) = 0 /\ SumTo(s, n + 1) = SumTo(s, n) + s[n + 1]
<1>1. SumTo(s, 0) = 0
  <2>1. PICK g : IsSum(g, s, 0) /\ SumTo(s, 0) = g[0] BY SumValue
  <2> QED BY <2>1, SumUnfolds
<1>2. PICK g : IsSum(g, s, n) /\ SumTo(s, n) = g[n] BY SumValue
<1>3. n + 1 \in Nat /\ n < n + 1 /\ n <= n + 1 OBVIOUS
<1>4. PICK h : IsSum(h, s, n + 1) /\ SumTo(s, n + 1) = h[n + 1] BY <1>3, SumValue
<1>5. g[n] = h[n]
  <2>1. n <= n /\ SameUpTo(s, s, n) BY DEF SameUpTo
  <2> QED BY <1>2, <1>3, <1>4, <2>1, SumsAgree
<1>6. h[n + 1] = h[n] + s[n + 1] BY <1>3, <1>4, SumUnfolds
<1> QED BY <1>1, <1>2, <1>4, <1>5, <1>6

\* A sum of numbers is a number.
LEMMA SumIsInt ==
    ASSUME NEW s, NEW n \in Nat, \A i \in 1..n : s[i] \in Int,
           NEW k \in Nat, k <= n
    PROVE  SumTo(s, k) \in Int
<1> DEFINE S == {j \in Nat : j <= n => SumTo(s, j) \in Int}
<1>1. 0 \in S BY SumSteps
<1>2. ASSUME NEW j \in Nat, j \in S PROVE j + 1 \in S
  <2> SUFFICES ASSUME j + 1 <= n PROVE SumTo(s, j + 1) \in Int OBVIOUS
  <2>1. SumTo(s, j) \in Int /\ j + 1 \in 1..n BY <1>2
  <2>2. SumTo(s, j + 1) = SumTo(s, j) + s[j + 1] BY SumSteps
  <2> QED BY <2>1, <2>2
<1> HIDE DEF S
<1>3. k \in S BY <1>1, <1>2, FromZeroOn
<1> QED BY <1>3 DEF S

\* A sequence of numbers, by the function that it is.
LEMMA LengthIs ==
    ASSUME NEW n \in Nat, NEW s, DOMAIN s = 1..n, s = [i \in 1..n |-> s[i]],
           \A i \in 1..n : s[i] \in Int
    PROVE  s \in Seq(Int) /\ Len(s) = n
<1>1. s \in [1..n -> Int] OBVIOUS
<1>2. s \in Seq(Int) BY <1>1, SeqDef
<1>3. Len(s) \in Nat /\ DOMAIN s = 1..Len(s) BY <1>2, LenProperties
<1>4. 1..n = 1..Len(s) BY <1>3
<1>5. Len(s) = n
  <2>1. \A i \in Nat : i \in 1..n <=> i \in 1..Len(s) BY <1>4
  <2>2. n # 0 => n \in 1..n OBVIOUS
  <2>3. Len(s) # 0 => Len(s) \in 1..Len(s) BY <1>3
  <2> QED BY <1>3, <2>1, <2>2, <2>3
<1> QED BY <1>2, <1>5

\* An item's weight is at least 1, and its share rounded unless that is below 1.
LEMMA WeightOfShare ==
    ASSUME NEW p \in Nat, NEW sum \in Nat \ {0}, NEW w, w = Weight(p, sum)
    PROVE  /\ w \in Nat \ {0} /\ w * sum \in Int /\ p * AllWeights \in Int
           /\ \/ /\ 2 * (w * sum - p * AllWeights) <= sum
                 /\ 2 * (p * AllWeights - w * sum) <= sum
              \/ p * AllWeights < sum /\ w = 1
<1> DEFINE a == p * AllWeights
           r == RoundDiv(a, sum)
<1>1. AllWeights \in Nat \ {0} BY WeightsAssumption
<1>2. a \in Nat
  <2>1. ASSUME NEW x \in Nat, NEW y \in Nat PROVE x * y \in Nat OBVIOUS
  <2> QED BY <1>1, <2>1
<1>3. RoundedShare(p, sum) = r
  <2>1. 2 * p * AllWeights = 2 * a BY <1>1
  <2> QED BY <2>1 DEF RoundedShare, RoundDiv
<1> HIDE DEF a, r
<1>4. r \in Int /\ 2 * (r * sum) - 2 * a <= sum /\ 2 * a - 2 * (r * sum) <= sum
      BY <1>2, RoundedToNearest DEF r
<1>5. w = IF r < 1 THEN 1 ELSE r BY <1>3 DEF Weight, AtLeastOne
<1>6. w \in Nat \ {0} BY <1>4, <1>5
<1>7. r * sum \in Int /\ w * sum \in Int BY <1>4, <1>6
<1>8. CASE ~(r < 1)
  <2>1. w = r BY <1>5, <1>8
  <2>2. 2 * (w * sum - a) <= sum /\ 2 * (a - w * sum) <= sum
        BY <1>2, <1>4, <1>7, <2>1
  <2> QED BY <1>2, <1>6, <1>7, <2>2 DEF a
<1>9. CASE r < 1
  <2>1. w = 1 BY <1>5, <1>9
  <2>2. r * sum <= 0
    <3>1. r <= 0 BY <1>4, <1>9
    <3>2. r * sum <= 0 * sum BY <1>4, <3>1, Multiples
    <3> QED BY <3>2
  <2>3. 2 * a <= sum BY <1>2, <1>4, <1>7, <2>2
  <2>4. a < sum BY <1>2, <2>3
  <2> QED BY <1>2, <1>6, <1>7, <2>1, <2>4 DEF a
<1> QED BY <1>8, <1>9

\* What each of the first items is off.
EachOff(w, s, offs, m, T, W) ==
    \A i \in 1..m : /\ s[i] \in Int /\ w[i] \in Int /\ offs[i] \in Int
                    /\ w[i] * T - s[i] * W <= offs[i]
                    /\ s[i] * W - w[i] * T <= offs[i]

\* What the first items are off together is at most the sum of what each is off.
LEMMA OffTogether ==
    ASSUME NEW m \in Nat, NEW s, NEW w, NEW offs, NEW T \in Int, NEW W \in Int,
           EachOff(w, s, offs, m, T, W)
    PROVE  /\ SumTo(w, m) * T - SumTo(s, m) * W <= SumTo(offs, m)
           /\ SumTo(s, m) * W - SumTo(w, m) * T <= SumTo(offs, m)
<1> DEFINE a(k) == SumTo(s, k)
           b(k) == SumTo(w, k)
           c(k) == SumTo(offs, k)
           S == {k \in Nat : k <= m => /\ b(k) * T - a(k) * W <= c(k)
                                       /\ a(k) * W - b(k) * T <= c(k)}
<1>1. \A k \in Nat : /\ a(0) = 0 /\ b(0) = 0 /\ c(0) = 0
                     /\ a(k + 1) = a(k) + s[k + 1]
                     /\ b(k + 1) = b(k) + w[k + 1]
                     /\ c(k + 1) = c(k) + offs[k + 1]
      BY SumSteps
<1>2. ASSUME NEW k \in Nat, k <= m PROVE a(k) \in Int /\ b(k) \in Int /\ c(k) \in Int
  <2>1. (\A i \in 1..m : s[i] \in Int) /\ (\A i \in 1..m : w[i] \in Int)
        /\ (\A i \in 1..m : offs[i] \in Int)
        BY DEF EachOff
  <2> QED BY <1>2, <2>1, SumIsInt
<1> HIDE DEF a, b, c
<1>3. 0 \in S
  <2>1. a(0) = 0 /\ b(0) = 0 /\ c(0) = 0 BY <1>1
  <2>2. 0 * T - 0 * W <= 0 /\ 0 * W - 0 * T <= 0 OBVIOUS
  <2> QED BY <2>1, <2>2
<1>4. ASSUME NEW k \in Nat, k \in S PROVE k + 1 \in S
  <2> SUFFICES ASSUME k + 1 <= m
               PROVE  /\ b(k + 1) * T - a(k + 1) * W <= c(k + 1)
                      /\ a(k + 1) * W - b(k + 1) * T <= c(k + 1)
      OBVIOUS
  <2>1. b(k) * T - a(k) * W <= c(k) /\ a(k) * W - b(k) * T <= c(k) BY <1>4
  <2>2. a(k) \in Int /\ b(k) \in Int /\ c(k) \in Int BY <1>2
  <2> DEFINE x == s[k + 1]
             y == w[k + 1]
             z == offs[k + 1]
  <2>3. k + 1 \in 1..m OBVIOUS
  <2>4. x \in Int /\ y \in Int /\ z \in Int
        /\ y * T - x * W <= z /\ x * W - y * T <= z
        BY <2>3 DEF EachOff
  <2>5. a(k + 1) = a(k) + x /\ b(k + 1) = b(k) + y /\ c(k + 1) = c(k) + z BY <1>1
  <2> HIDE DEF x, y, z, S
  <2>6. (a(k) + x) * W = a(k) * W + x * W /\ (b(k) + y) * T = b(k) * T + y * T
        BY <2>2, <2>4
  <2>7. a(k) * W \in Int /\ x * W \in Int /\ b(k) * T \in Int /\ y * T \in Int
        BY <2>2, <2>4
  <2>8. a(k + 1) * W = a(k) * W + x * W /\ b(k + 1) * T = b(k) * T + y * T
        BY <2>5, <2>6
  <2> QED BY <2>1, <2>2, <2>4, <2>5, <2>7, <2>8
<1> HIDE DEF S
<1>5. m \in S BY <1>3, <1>4, FromZeroOn
<1>6. m <= m OBVIOUS
<1> QED BY <1>5, <1>6 DEF S, a, b, c

\* The saved weights of chances that add up to sum.
LEMMA FairWeights ==
    ASSUME NEW n \in Nat \ {0}, NEW s \in [1..n -> Nat], Sum(s) \in Nat \ {0},
           NEW w, w = DropChancesToWeights(s),
           NEW offs, offs = [i \in 1..(n - 1) |->
                LET d == w[i] * Sum(s) - s[i] * AllWeights IN IF d < 0 THEN -d ELSE d],
           NEW last, last = (LET d == w[n] * Sum(s) - s[n] * AllWeights
                             IN IF d < 0 THEN -d ELSE d)
    PROVE  /\ Len(s) = n /\ Len(w) = n
           /\ \A i \in 1..n : w[i] >= 1
           /\ Sum(w) >= AllWeights
           /\ Sum(w) > AllWeights => w[n] = 1
           /\ \A i \in 1..(n - 1) :
                \/ 2 * offs[i] <= Sum(s)
                \/ s[i] * AllWeights < Sum(s) /\ w[i] = 1
           /\ last <= Sum(offs) \/ Sum(w) > AllWeights
<1> DEFINE T == Sum(s)
           W == AllWeights
           m == n - 1
           first == [i \in 1..m |-> Weight(s[i], T)]
           F == Sum(first)
           rest == AtLeastOne(W - F)
<1>1. m \in Nat /\ n = m + 1 /\ W \in Nat \ {0} /\ T \in Nat \ {0} BY WeightsAssumption
<1>2. Len(s) = n
  <2>1. DOMAIN s = 1..n /\ s = [i \in 1..n |-> s[i]] /\ \A i \in 1..n : s[i] \in Int
        OBVIOUS
  <2> QED BY <2>1, LengthIs
<1>3. w = Append(first, rest) BY <1>2 DEF DropChancesToWeights
<1> HIDE DEF T, W
<1>4. ASSUME NEW i \in 1..m
      PROVE  /\ s[i] \in Nat /\ first[i] = Weight(s[i], T) /\ first[i] \in Nat \ {0}
             /\ first[i] * T \in Int /\ s[i] * W \in Int
             /\ \/ /\ 2 * (first[i] * T - s[i] * W) <= T
                   /\ 2 * (s[i] * W - first[i] * T) <= T
                \/ s[i] * W < T /\ first[i] = 1
  <2>1. s[i] \in Nat /\ first[i] = Weight(s[i], T) BY <1>1
  <2>2. first[i] = Weight(s[i], T) /\ T \in Nat \ {0} BY <1>1, <2>1
  <2> QED BY <2>1, <2>2, WeightOfShare DEF W
<1> HIDE DEF m
<1>5. first \in Seq(Int) /\ Len(first) = m
  <2>1. DOMAIN first = 1..m /\ first = [i \in 1..m |-> first[i]] OBVIOUS
  <2>2. \A i \in 1..m : first[i] \in Int BY <1>4
  <2> HIDE DEF first
  <2> QED BY <1>1, <2>1, <2>2, LengthIs
<1> HIDE DEF first
<1>6. F = SumTo(first, m) /\ F \in Int
  <2>1. F = SumTo(first, m) BY <1>5 DEF Sum
  <2>2. (\A i \in 1..m : first[i] \in Int) /\ m <= m BY <1>1, <1>4
  <2> QED BY <1>1, <2>1, <2>2, SumIsInt
<1> HIDE DEF F
<1>7. rest \in Nat \ {0} /\ rest >= W - F /\ (rest > W - F => rest = 1)
      BY <1>1, <1>6 DEF AtLeastOne
<1> HIDE DEF rest
<1>8. Len(w) = n /\ w[n] = rest /\ \A i \in 1..m : w[i] = first[i]
  <2>1. rest \in Int BY <1>7
  <2> QED BY <1>1, <1>3, <1>5, <2>1, AppendProperties
<1>9. Sum(w) = F + rest
  <2>1. SameUpTo(w, first, m) BY <1>8 DEF SameUpTo
  <2>2. SumTo(w, m) = F BY <1>1, <1>6, <2>1, SameSums
  <2>3. SumTo(w, m + 1) = SumTo(w, m) + w[m + 1] BY <1>1, SumSteps
  <2> QED BY <1>1, <1>8, <2>2, <2>3 DEF Sum
<1>10. \A i \in 1..n : w[i] >= 1
  <2> SUFFICES ASSUME NEW i \in 1..n PROVE w[i] >= 1 OBVIOUS
  <2>1. CASE i = n BY <1>7, <1>8, <2>1
  <2>2. CASE i # n
    <3>1. i \in 1..m BY <1>1, <2>2
    <3>2. w[i] = first[i] /\ first[i] \in Nat \ {0} BY <1>4, <1>8, <3>1
    <3> QED BY <3>2
  <2> QED BY <2>1, <2>2
<1>11. Sum(w) >= W /\ (Sum(w) > W => w[n] = 1)
       BY <1>1, <1>6, <1>7, <1>8, <1>9
<1>12. \A i \in 1..m :
          offs[i] = IF w[i] * T - s[i] * W < 0 THEN -(w[i] * T - s[i] * W)
                    ELSE w[i] * T - s[i] * W
       BY DEF m, T, W
<1>13. DOMAIN offs = 1..m /\ offs = [i \in 1..m |-> offs[i]] BY DEF m
<1>14. ASSUME NEW i \in 1..m
       PROVE  /\ offs[i] \in Int
              /\ w[i] * T - s[i] * W <= offs[i] /\ s[i] * W - w[i] * T <= offs[i]
              /\ \/ 2 * offs[i] <= T
                 \/ s[i] * W < T /\ w[i] = 1
  <2> DEFINE x == w[i] * T
             y == s[i] * W
  <2>1. w[i] = first[i] BY <1>8
  <2>2. x \in Int /\ y \in Int
        /\ \/ 2 * (x - y) <= T /\ 2 * (y - x) <= T
           \/ y < T /\ w[i] = 1
        BY <1>4, <2>1
  <2>3. offs[i] = IF x - y < 0 THEN -(x - y) ELSE x - y BY <1>12
  <2> HIDE DEF x, y
  <2>4. offs[i] \in Int /\ x - y <= offs[i] /\ y - x <= offs[i]
        /\ (offs[i] = x - y \/ offs[i] = y - x)
        BY <2>2, <2>3
  <2>5. 2 * offs[i] <= T \/ (y < T /\ w[i] = 1) BY <2>2, <2>4
  <2> QED BY <2>4, <2>5 DEF x, y
<1>15. Sum(offs) = SumTo(offs, m) /\ Sum(offs) \in Int
  <2>1. Len(offs) = m BY <1>1, <1>13, <1>14, LengthIs
  <2>2. Sum(offs) = SumTo(offs, m) BY <2>1 DEF Sum
  <2>3. (\A i \in 1..m : offs[i] \in Int) /\ m <= m BY <1>1, <1>14
  <2> QED BY <1>1, <2>2, <2>3, SumIsInt
<1>16. ASSUME ~(Sum(w) > W) PROVE last <= Sum(offs)
  <2> DEFINE P == SumTo(s, m)
             p == s[n]
  <2>1. P \in Int
    <3>1. (\A i \in 1..m : s[i] \in Int) /\ m <= m BY <1>1, <1>4
    <3> QED BY <1>1, <3>1, SumIsInt
  <2>2. p \in Nat BY <1>1
  <2>3. T = P + p
    <3>1. SumTo(s, m + 1) = SumTo(s, m) + s[m + 1] BY <1>1, SumSteps
    <3> QED BY <1>1, <1>2, <3>1 DEF T, Sum
  <2>4. F * T - P * W <= Sum(offs) /\ P * W - F * T <= Sum(offs)
    <3>1. ASSUME NEW i \in 1..m
          PROVE  /\ s[i] \in Int /\ first[i] \in Int /\ offs[i] \in Int
                 /\ first[i] * T - s[i] * W <= offs[i]
                 /\ s[i] * W - first[i] * T <= offs[i]
      <4>1. w[i] = first[i] BY <1>8
      <4>2. s[i] \in Int /\ first[i] \in Int BY <1>4
      <4> QED BY <1>14, <4>1, <4>2
    <3>2. EachOff(first, s, offs, m, T, W) BY <3>1 DEF EachOff
    <3>3. T \in Int /\ W \in Int BY <1>1
    <3> QED BY <1>1, <1>6, <1>15, <3>2, <3>3, OffTogether
  <2> HIDE DEF P, p
  <2>5. rest = W - F BY <1>1, <1>6, <1>7, <1>9, <1>16
  <2>6. rest * T = W * T - F * T BY <1>1, <1>6, <2>5
  <2>7. W * T = P * W + p * W BY <1>1, <2>1, <2>2, <2>3
  <2>8. F * T \in Int /\ P * W \in Int /\ p * W \in Int /\ W * T \in Int /\ rest * T \in Int
        BY <1>1, <1>6, <1>7, <2>1, <2>2
  <2>9. last = IF rest * T - p * W < 0 THEN -(rest * T - p * W) ELSE rest * T - p * W
        BY <1>8 DEF T, W, p
  <2>10. rest * T - p * W = P * W - F * T BY <2>6, <2>7, <2>8
  <2>11. last = P * W - F * T \/ last = F * T - P * W
    <3> DEFINE x == rest * T - p * W
               y == P * W
               z == F * T
    <3>1. /\ last = IF x < 0 THEN -x ELSE x
          /\ x = y - z /\ y \in Int /\ z \in Int
          BY <2>8, <2>9, <2>10
    <3> HIDE DEF x, y, z
    <3>2. last = y - z \/ last = z - y BY <3>1
    <3> QED BY <3>2 DEF y, z
  <2> QED BY <2>4, <2>11
<1>17. last <= Sum(offs) \/ Sum(w) > W BY <1>16
<1> QED BY <1>2, <1>8, <1>10, <1>11, <1>14, <1>17 DEF T, W, m

\* Accepted chances, and their weights once they are saved.
WeightsInv ==
    /\ \E n \in 1..MaxItems : chances \in [1..n -> 0..Whole]
    /\ Accepted(chances)
    /\ weights \in {<<>>, DropChancesToWeights(chances)}

(***************************************************************************)
(* Saved weights are the chances of the form, for any number of items and  *)
(* any accepted chances: every item can be won, all weights together are   *)
(* the whole unless the last item was short, and each is off its share by  *)
(* no more than the roundings.                                             *)
(***************************************************************************)
THEOREM WeightsAreFair == WeightsSpec => []WeightsFair
<1>0. Whole \in Nat \ {0} /\ MaxItems \in Nat /\ Tolerance \in 0..(Whole - 1)
      BY WeightsAssumption
<1>1. WeightsInit => WeightsInv BY DEF WeightsInit, WeightsInv
<1>2. WeightsInv /\ [SaveWeights]_weightVars => WeightsInv'
  <2> SUFFICES ASSUME WeightsInv, [SaveWeights]_weightVars PROVE WeightsInv'
      OBVIOUS
  <2>1. chances' = chances /\ weights' \in {<<>>, DropChancesToWeights(chances)}
        BY DEF WeightsInv, SaveWeights, weightVars
  <2>2. Accepted(chances') BY <2>1 DEF WeightsInv
  <2> QED BY <2>1, <2>2 DEF WeightsInv
<1>3. WeightsInv => WeightsFair
  <2> SUFFICES ASSUME WeightsInv, weights # <<>> PROVE WeightsFair
      BY DEF WeightsFair
  <2>1. PICK n \in 1..MaxItems : chances \in [1..n -> 0..Whole] BY DEF WeightsInv
  <2>2. n \in Nat \ {0} /\ chances \in [1..n -> Nat] BY <1>0, <2>1
  <2>3. weights = DropChancesToWeights(chances) BY DEF WeightsInv
  <2>4. Len(chances) = n
    <3>1. DOMAIN chances = 1..n /\ chances = [i \in 1..n |-> chances[i]]
          /\ \A i \in 1..n : chances[i] \in Int
          BY <2>2
    <3> QED BY <2>2, <3>1, LengthIs
  <2>5. Sum(chances) \in Nat \ {0}
    <3>1. (\A i \in 1..n : chances[i] \in Int) /\ n <= n BY <2>2
    <3>2. SumTo(chances, n) \in Int BY <2>2, <3>1, SumIsInt
    <3>3. Sum(chances) \in Int BY <2>4, <3>2 DEF Sum
    <3>4. Whole - Tolerance <= Sum(chances) BY DEF WeightsInv, Accepted
    <3> QED BY <1>0, <3>3, <3>4
  <2> DEFINE offs == [i \in 1..(n - 1) |-> Off(i)]
  <2>6. /\ Len(chances) = n /\ Len(weights) = n
        /\ \A i \in 1..n : weights[i] >= 1
        /\ Sum(weights) >= AllWeights
        /\ Sum(weights) > AllWeights => weights[n] = 1
        /\ \A i \in 1..(n - 1) :
             \/ 2 * offs[i] <= Sum(chances)
             \/ chances[i] * AllWeights < Sum(chances) /\ weights[i] = 1
        /\ Off(n) <= Sum(offs) \/ Sum(weights) > AllWeights
        BY <2>2, <2>3, <2>5, FairWeights, SMTT(30) DEF Off
  <2>7. \A i \in 1..(n - 1) : offs[i] = Off(i) OBVIOUS
  <2>8. \A i \in 1..(n - 1) :
             \/ 2 * Off(i) <= Sum(chances)
             \/ Few(i) /\ weights[i] = 1
        BY <2>6, <2>7 DEF Few
  <2> QED BY <2>6, <2>8 DEF WeightsFair
<1> QED BY <1>1, <1>2, <1>3, PTL DEF WeightsSpec

=============================================================================
