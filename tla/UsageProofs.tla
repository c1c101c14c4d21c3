----------------------------- MODULE UsageProofs ----------------------------
(* The forecast is exact: for every zone that changes its offset by an hour, *)
(* if at all, any day length, retention and history, the walk over the hours *)
(* of the wall clock is the sum over instants, the crossing it names is the  *)
(* instant at which consumption reaches 100 %, and a profile adds up to what *)
(* was used in the days it was learned from.                                 *)
EXTENDS UsageReport, Facts

-----------------------------------------------------------------------------
(* The calendar *)

\* Everything in the calendar of a zone is an integer.
LEMMA ZoneNumbers ==
  ASSUME NEW z \in Zone, NEW t \in Int
  PROVE  /\ z.before \in Int /\ z.after \in Int /\ z.at \in Int
         /\ Offset(z, t) \in Int /\ Wall(z, t) \in Int /\ Date(z, t) \in Int
         /\ Hour(t) \in Int /\ HourStart(t) \in Int
<1>1. z.before \in Int /\ z.after \in Int /\ z.at \in Int
  BY WallClockAssumption
<1>2. \A u \in Int : Offset(z, u) \in Int
  BY <1>1 DEF Offset
<1>3. Date(z, t) \in Int
  BY <1>2 DEF Date
<1> QED BY <1>1, <1>2, <1>3 DEF Wall, Hour, HourStart

\* An hour of the wall clock begins at an even time, at most one half hour ago.
LEMMA HourParity ==
  ASSUME NEW w \in Int
  PROVE  /\ HourStart(w) = w - (w % 2)
         /\ w % 2 \in {0, 1}
         /\ \A v \in Int : HourStart(w) <= v /\ v <= HourStart(w) + 1 => Hour(v) = Hour(w)
BY DEF HourStart, Hour

\* time.Date gives an instant with one of the two offsets.
LEMMA DateCases ==
  ASSUME NEW z \in Zone, NEW w \in Int
  PROVE  \/ /\ w < z.at /\ w - z.before < z.at /\ Date(z, w) = w - z.before
         \/ /\ w < z.at /\ w - z.before >= z.at /\ Date(z, w) = w - z.after
         \/ /\ w >= z.at /\ w - z.after >= z.at /\ Date(z, w) = w - z.after
         \/ /\ w >= z.at /\ w - z.after < z.at /\ Date(z, w) = w - z.before
BY ZoneNumbers DEF Date, Offset

\* The numbers of one step of a walk: offsets b and a before and after `at`, t in the
\* hour of the wall clock from h, which time.Date puts at d; n is the next instant.
StepNumbers(b, a, at, t, w, h, d, n) ==
  /\ {b, a, at, t, w, h, d, n} \subseteq Int
  /\ h % 2 = 0 /\ (w = h \/ w = h + 1)
  /\ w = IF t < at THEN t + b ELSE t + a
  /\ \/ h < at /\ h - b < at /\ d = h - b
     \/ h < at /\ h - b >= at /\ d = h - a
     \/ h >= at /\ h - a >= at /\ d = h - a
     \/ h >= at /\ h - a < at /\ d = h - b
  /\ n = IF d + 2 > t THEN d + 2 ELSE t + 2
  /\ d + 2 <= t => w = h
  /\ a = b \/ ((a - b = 2 \/ a - b = -2) /\ (at + b) % 2 = 0)

\* All instants before n are in the hour of t, and n begins one.
LEMMA StepArithmetic ==
  ASSUME NEW b, NEW a, NEW at, NEW t, NEW w, NEW h, NEW d, NEW n,
         StepNumbers(b, a, at, t, w, h, d, n),
         NEW u \in Int, NEW v \in Int, v = IF u < at THEN u + b ELSE u + a
  PROVE  /\ t <= u /\ u < n => h <= v /\ v <= h + 1
         /\ u = n => v % 2 = 0
<1>1. /\ b \in Int /\ a \in Int /\ at \in Int /\ t \in Int /\ w \in Int /\ h \in Int
      /\ d \in Int /\ n \in Int
  BY DEF StepNumbers
<1>2. CASE a = b
  BY <1>1, <1>2 DEF StepNumbers
<1>3. CASE a = b + 2 /\ (at + b) % 2 = 0
  BY <1>1, <1>3 DEF StepNumbers
<1>4. CASE a = b - 2 /\ (at + b) % 2 = 0
  BY <1>1, <1>4 DEF StepNumbers
<1> QED BY <1>1, <1>2, <1>3, <1>4 DEF StepNumbers

\* A step advances, and on the hour it passes the rest of one hour of the wall clock.
LEMMA StepFacts ==
  ASSUME NEW z \in Zone, NEW t \in Int, NEW end \in Int, t < end
  PROVE  /\ StepEnd(z, t, end) \in Int /\ t < StepEnd(z, t, end) /\ StepEnd(z, t, end) <= end
         /\ OnTheHour(z) /\ ~Skewed(z, t) =>
              /\ \A u \in t..(StepEnd(z, t, end) - 1) : Hour(Wall(z, u)) = Hour(Wall(z, t))
              /\ StepEnd(z, t, end) < end => Wall(z, StepEnd(z, t, end)) % 2 = 0
<1> DEFINE w == Wall(z, t)
           d == Date(z, HourStart(w))
           n == NextWallHour(z, t)
           e == StepEnd(z, t, end)
<1>1. /\ z.before \in Int /\ z.after \in Int /\ z.at \in Int
      /\ w \in Int /\ HourStart(w) \in Int /\ d \in Int
  BY ZoneNumbers
<1>2. n \in Int /\ n > t /\ n = (IF d + 2 > t THEN d + 2 ELSE t + 2)
  BY <1>1 DEF NextWallHour
<1>3. e = (IF n > end THEN end ELSE n)
  BY DEF StepEnd
<1>4. e \in Int /\ t < e /\ e <= end
  BY <1>2, <1>3
<1>5. HourStart(w) = w - (w % 2) /\ w % 2 \in {0, 1}
  BY <1>1, HourParity
<1>6. \A u \in Int : Wall(z, u) = IF u < z.at THEN u + z.before ELSE u + z.after
  BY <1>1 DEF Wall, Offset
<1>7. Skewed(z, t) <=> w % 2 = 1 /\ d + 2 <= t
  BY DEF Skewed
<1>8. ASSUME OnTheHour(z), ~Skewed(z, t)
      PROVE  /\ \A u \in t..(n - 1) : HourStart(w) <= Wall(z, u) /\ Wall(z, u) <= HourStart(w) + 1
             /\ Wall(z, n) % 2 = 0
  <2> DEFINE h == HourStart(w)
  <2>1. \/ h < z.at /\ h - z.before < z.at /\ d = h - z.before
        \/ h < z.at /\ h - z.before >= z.at /\ d = h - z.after
        \/ h >= z.at /\ h - z.after >= z.at /\ d = h - z.after
        \/ h >= z.at /\ h - z.after < z.at /\ d = h - z.before
    BY <1>1, DateCases
  <2>2. h \in Int /\ h % 2 = 0 /\ (w = h \/ w = h + 1) /\ (w % 2 = 1 => w = h + 1)
    BY <1>1, <1>5
  <2>3. w = IF t < z.at THEN t + z.before ELSE t + z.after
    BY <1>6
  <2>4. d + 2 <= t => w = h
    BY <1>5, <1>7, <1>8, <2>2
  <2>5. z.after = z.before \/ (z.after - z.before \in {-2, 2} /\ (z.at + z.before) % 2 = 0)
    BY <1>8 DEF OnTheHour
  <2> HIDE DEF w, h, d, n, e
  <2>6. StepNumbers(z.before, z.after, z.at, t, w, h, d, n)
    BY <1>1, <1>2, <2>1, <2>2, <2>3, <2>4, <2>5 DEF StepNumbers
  <2>7. ASSUME NEW u \in Int
        PROVE  /\ t <= u /\ u < n => h <= Wall(z, u) /\ Wall(z, u) <= h + 1
               /\ u = n => Wall(z, u) % 2 = 0
    <3>1. Wall(z, u) \in Int /\ Wall(z, u) = IF u < z.at THEN u + z.before ELSE u + z.after
      BY <1>1, <1>6
    <3> QED BY <2>6, <3>1, StepArithmetic
  <2>8. \A u \in t..(n - 1) : u \in Int /\ t <= u /\ u < n
    BY <1>2
  <2> QED BY <1>2, <2>7, <2>8 DEF h
<1>9. ASSUME OnTheHour(z), ~Skewed(z, t)
      PROVE  /\ \A u \in t..(e - 1) : Hour(Wall(z, u)) = Hour(Wall(z, t))
             /\ e < end => Wall(z, e) % 2 = 0
  <2>1. \A u \in t..(e - 1) : u \in t..(n - 1) /\ Wall(z, u) \in Int
    BY <1>1, <1>2, <1>3, <1>4, <1>6
  <2>2. \A u \in t..(e - 1) : Hour(Wall(z, u)) = Hour(w)
    BY <1>1, <1>8, <1>9, <2>1, HourParity
  <2>3. e < end => e = n
    BY <1>2, <1>3
  <2> QED BY <1>8, <1>9, <2>2, <2>3
<1> QED BY <1>4, <1>9

-----------------------------------------------------------------------------
(* The integral over instants *)

Rates == [Cell -> Nat]

\* Every instant has a cell.
LEMMA CellIsOne ==
  ASSUME NEW z \in Zone, NEW t \in Int
  PROVE  CellAt(z, t) \in Cell
<1>1. Hour(Wall(z, t)) \in Int
  BY ZoneNumbers
<1>2. Hour(Wall(z, t)) % HoursPerDay \in 0..(HoursPerDay - 1)
  BY <1>1, WallClockAssumption
<1> QED BY <1>2 DEF CellAt, CellOf, Cell, DayType

\* A sum over instants grows by the rate of one instant after the other.
LEMMA ExactFacts ==
  ASSUME NEW z \in Zone, NEW rates \in Rates, NEW from \in Int, NEW to \in Int
  PROVE  /\ Exact(rates, z, from, to) \in Nat
         /\ to <= from => Exact(rates, z, from, to) = 0
         /\ from <= to => Exact(rates, z, from, to + 1) = Exact(rates, z, from, to) + rates[CellAt(z, to)]
         /\ \A r \in Nat : (from <= to /\ \A t \in from..(to - 1) : rates[CellAt(z, t)] = r)
                           => Exact(rates, z, from, to) = r * (to - from)
<1> DEFINE S(n) == from..(n - 1)
           f(n) == [t \in S(n) |-> rates[CellAt(z, t)]]
<1>1. ASSUME NEW n \in Int
      PROVE  /\ IsFiniteSet(S(n)) /\ f(n) \in [S(n) -> Nat] /\ f(n) \in [S(n) -> Int]
             /\ Exact(rates, z, from, n) = SumOf(f(n), S(n))
  <2>1. IsFiniteSet(S(n))
    BY FS_Interval
  <2>2. \A t \in S(n) : t \in Int /\ rates[CellAt(z, t)] \in Nat
    BY CellIsOne DEF Rates
  <2>3. f(n) \in [S(n) -> Nat] /\ f(n) \in [S(n) -> Int]
    BY <2>2
  <2>4. Exact(rates, z, from, n) = SumFunctionOnSet(f(n), DOMAIN f(n)) /\ DOMAIN f(n) = S(n)
    BY DEF Exact, SumFunction
  <2> QED BY <2>1, <2>3, <2>4 DEF SumOf
<1>2. Exact(rates, z, from, to) \in Nat
  <2> HIDE DEF S, f
  <2> QED BY <1>1, SumNat
<1>3. ASSUME to <= from PROVE Exact(rates, z, from, to) = 0
  <2>1. S(to) = {}
    BY <1>3
  <2> HIDE DEF S, f
  <2> QED BY <1>1, <2>1, SumFacts
<1>4. ASSUME from <= to
      PROVE  Exact(rates, z, from, to + 1) = Exact(rates, z, from, to) + rates[CellAt(z, to)]
  <2>1. to \in S(to + 1) /\ S(to + 1) \ {to} = S(to)
    BY <1>4
  <2>2. \A t \in S(to) : f(to)[t] = f(to + 1)[t]
    BY <2>1
  <2>3. f(to + 1)[to] = rates[CellAt(z, to)]
    BY <2>1
  <2>4. rates[CellAt(z, to)] \in Nat
    BY CellIsOne DEF Rates
  <2> HIDE DEF S, f
  <2>5. SumOf(f(to + 1), S(to + 1)) = f(to + 1)[to] + SumOf(f(to + 1), S(to))
    BY <1>1, <2>1, SumFacts
  <2>6. SumOf(f(to + 1), S(to)) = SumOf(f(to), S(to))
    BY <1>1, <2>1, <2>2, SumSame
  <2> QED BY <1>1, <1>2, <2>3, <2>4, <2>5, <2>6
<1>5. ASSUME NEW r \in Nat, from <= to, \A t \in from..(to - 1) : rates[CellAt(z, t)] = r
      PROVE  Exact(rates, z, from, to) = r * (to - from)
  <2>1. \A t \in S(to) : f(to)[t] = r
    BY <1>5
  <2>2. Cardinality(S(to)) = to - from
    BY <1>5, FS_Interval
  <2> HIDE DEF S, f
  <2>3. SumOf(f(to), S(to)) = r * Cardinality(S(to))
    BY <1>1, <2>1, SumConstant
  <2> QED BY <1>1, <2>2, <2>3
<1> QED BY <1>2, <1>3, <1>4, <1>5

\* An interval may be taken in two parts.
LEMMA ExactSplits ==
  ASSUME NEW z \in Zone, NEW rates \in Rates, NEW from \in Int, NEW mid \in Int, NEW to \in Int,
         from <= mid, mid <= to
  PROVE  Exact(rates, z, from, to) = Exact(rates, z, from, mid) + Exact(rates, z, mid, to)
<1> DEFINE E(a, b) == Exact(rates, z, a, b)
           Good == {n \in Nat : E(from, mid + n) = E(from, mid) + E(mid, mid + n)}
<1>1. \A a, b \in Int : E(a, b) \in Nat /\ (b <= a => E(a, b) = 0)
                        /\ (a <= b => E(a, b + 1) = E(a, b) + rates[CellAt(z, b)])
  BY ExactFacts
<1> HIDE DEF E
<1>2. 0 \in Good
  BY <1>1
<1>3. ASSUME NEW n \in Nat, n \in Good PROVE n + 1 \in Good
  <2>1. /\ E(from, mid + n + 1) = E(from, mid + n) + rates[CellAt(z, mid + n)]
        /\ E(mid, mid + n + 1) = E(mid, mid + n) + rates[CellAt(z, mid + n)]
    <3>1. mid + n \in Int /\ from <= mid + n /\ mid <= mid + n
      OBVIOUS
    <3> QED BY <1>1, <3>1, Zenon
  <2>2. rates[CellAt(z, mid + n)] \in Nat
    BY CellIsOne DEF Rates
  <2>3. mid + (n + 1) = mid + n + 1
    OBVIOUS
  <2>4. E(from, mid + n) = E(from, mid) + E(mid, mid + n)
    BY <1>3
  <2>5. E(from, mid) \in Nat /\ E(mid, mid + n) \in Nat
    BY <1>1
  <2> QED BY <2>1, <2>2, <2>3, <2>4, <2>5
<1>4. to - mid \in Good
  <2>1. Nat \subseteq Good
    <3> HIDE DEF Good
    <3> QED BY <1>2, <1>3, NatInduct
  <2> QED BY <2>1
<1>5. mid + (to - mid) = to
  OBVIOUS
<1> QED BY <1>4, <1>5 DEF E

\* One step of a walk accounts for the instants it passes.
LEMMA StepIsExact ==
  ASSUME NEW z \in Zone, NEW rates \in Rates, NEW t \in Int, NEW end \in Int, t < end,
         OnTheHour(z), ~Skewed(z, t)
  PROVE  LET e == StepEnd(z, t, end)
         IN  /\ e \in Int /\ t < e /\ e <= end /\ (e < end => ~Skewed(z, e))
             /\ \A u \in Int : t <= u /\ u <= e =>
                  Exact(rates, z, t, u) = rates[CellAt(z, t)] * (u - t)
             /\ Exact(rates, z, t, end) = rates[CellAt(z, t)] * (e - t) + Exact(rates, z, e, end)
<1> DEFINE e == StepEnd(z, t, end)
<1>1. /\ e \in Int /\ t < e /\ e <= end
      /\ \A u \in t..(e - 1) : Hour(Wall(z, u)) = Hour(Wall(z, t))
      /\ e < end => Wall(z, e) % 2 = 0
  BY StepFacts
<1>2. e < end => ~Skewed(z, e)
  BY <1>1 DEF Skewed
<1>3. rates[CellAt(z, t)] \in Nat
  BY CellIsOne DEF Rates
<1>4. ASSUME NEW u \in Int, t <= u, u <= e
      PROVE  Exact(rates, z, t, u) = rates[CellAt(z, t)] * (u - t)
  <2>1. \A v \in t..(u - 1) : rates[CellAt(z, v)] = rates[CellAt(z, t)]
    <3>1. \A v \in t..(u - 1) : v \in t..(e - 1)
      BY <1>1, <1>4
    <3> HIDE DEF e
    <3> QED BY <1>1, <3>1 DEF CellAt
  <2> QED BY <1>3, <1>4, <2>1, ExactFacts
<1>5. Exact(rates, z, t, end) = rates[CellAt(z, t)] * (e - t) + Exact(rates, z, e, end)
  <2>1. Exact(rates, z, t, end) = Exact(rates, z, t, e) + Exact(rates, z, e, end)
    BY <1>1, ExactSplits
  <2> QED BY <1>1, <1>4, <2>1
<1> QED BY <1>1, <1>2, <1>4, <1>5

-----------------------------------------------------------------------------
(* The walk over the hours of the wall clock *)

\* integrateRates computes the integral, by the equation of its recursion.
LEMMA IntegralIsExact ==
  ASSUME NEW z \in Zone, OnTheHour(z), NEW rates \in Rates, NEW from \in Int, NEW to \in Int,
         ~Skewed(z, from), from <= to
  PROVE  Integral(rates, z, from, to) = Exact(rates, z, from, to)
<1> DEFINE Step(t) == StepEnd(z, t, to)
           Part(t) == rates[CellAt(z, t)] * (Step(t) - t)
           walk == CHOOSE w : w = [t \in Int |-> IF t >= to THEN 0 ELSE Part(t) + w[Step(t)]]
           Stop == {t \in Int : t >= to}
           Out == [t \in Int |-> 0]
           Onward == [t \in Int |-> IF t >= to THEN t ELSE Step(t)]
           Then == [p \in Int \X Int |-> IF p[1] >= to THEN 0 ELSE Part(p[1]) + p[2]]
           size == [t \in Int |-> IF t >= to THEN 0 ELSE to - t]
<1>1. \A t \in Int : t < to => Step(t) \in Int /\ t < Step(t) /\ Step(t) <= to
  BY StepFacts
<1>2. \A t \in Int : rates[CellAt(z, t)] \in Nat
  BY CellIsOne DEF Rates
<1>3. \A t \in Int : t < to => Part(t) \in Int
  BY <1>1, <1>2
<1>4. Integral(rates, z, from, to) = walk[from]
  BY DEF Integral
<1> HIDE DEF Step, Part
<1>5. \E w : w = [t \in Int |-> IF t >= to THEN 0 ELSE Part(t) + w[Step(t)]]
  <2> DEFINE D == Int
             R == Int
  <2>1. Recursive(D, R, Stop, Out, Onward, Then, size)
    <3>1. Then \in [D \X R -> R]
      BY <1>3
    <3>2. size \in [D -> Nat] /\ \A t \in D \ Stop : size[Onward[t]] < size[t]
      BY <1>1
    <3>3. Stop \in SUBSET D /\ Out \in [D -> R] /\ Onward \in [D -> D]
      BY <1>1
    <3> HIDE DEF D, R, Stop, Out, Onward, Then, size
    <3> QED BY <3>1, <3>2, <3>3 DEF Recursive
  <2>2. PICK w \in [D -> R] :
          \A t \in D : w[t] = IF t \in Stop THEN Out[t] ELSE Then[<<t, w[Onward[t]]>>]
    <3> HIDE DEF D, R, Stop, Out, Onward, Then, size
    <3> QED BY <2>1, Recursion
  <2>3. \A t \in Int : w[t] = IF t >= to THEN 0 ELSE Part(t) + w[Step(t)]
    <3> SUFFICES ASSUME NEW t \in Int PROVE w[t] = IF t >= to THEN 0 ELSE Part(t) + w[Step(t)]
      OBVIOUS
    <3>1. CASE t >= to
      BY <2>2, <3>1
    <3>2. CASE t < to
      <4>1. Onward[t] = Step(t) /\ w[Step(t)] \in Int
        BY <1>1, <2>2, <3>2
      <4> QED BY <2>2, <3>2, <4>1
    <3> QED BY <3>1, <3>2
  <2> HIDE DEF Stop, Out, Onward, Then, size
  <2>4. w = [t \in Int |-> IF t >= to THEN 0 ELSE Part(t) + w[Step(t)]]
    BY <2>2, <2>3
  <2> QED BY <2>4
<1>6. \A t \in Int : walk[t] = IF t >= to THEN 0 ELSE Part(t) + walk[Step(t)]
  <2>1. walk = [t \in Int |-> IF t >= to THEN 0 ELSE Part(t) + walk[Step(t)]]
    BY <1>5
  <2> HIDE DEF walk
  <2> QED BY <2>1
<1> HIDE DEF walk, Stop, Out, Onward, Then, size
<1> DEFINE Bad == {n \in Nat : \E t \in Int : /\ t <= to /\ to - t = n /\ (t < to => ~Skewed(z, t))
                                             /\ walk[t] # Exact(rates, z, t, to)}
<1>7. Bad = {}
  <2> SUFFICES ASSUME Bad # {} PROVE FALSE
    OBVIOUS
  <2>1. PICK n \in Bad : \A m \in Bad : n <= m
    <3>1. Bad \in SUBSET Nat
      OBVIOUS
    <3> HIDE DEF Bad
    <3> QED BY <3>1, LeastElement
  <2>2. PICK t \in Int : /\ t <= to /\ to - t = n /\ (t < to => ~Skewed(z, t))
                         /\ walk[t] # Exact(rates, z, t, to)
    BY <2>1
  <2>3. t < to
    <3>1. walk[to] = 0
      BY <1>6
    <3>2. Exact(rates, z, to, to) = 0
      BY ExactFacts
    <3> QED BY <2>2, <3>1, <3>2
  <2>4. /\ Step(t) \in Int /\ t < Step(t) /\ Step(t) <= to /\ (Step(t) < to => ~Skewed(z, Step(t)))
        /\ Exact(rates, z, t, to) = Part(t) + Exact(rates, z, Step(t), to)
    BY <2>2, <2>3, StepIsExact DEF Step, Part
  <2>5. walk[t] = Part(t) + walk[Step(t)]
    BY <1>6, <2>3
  <2>6. walk[Step(t)] # Exact(rates, z, Step(t), to)
    BY <2>2, <2>4, <2>5
  <2>7. to - Step(t) \in Bad /\ to - Step(t) < n
    BY <2>2, <2>4, <2>6
  <2> HIDE DEF Bad
  <2> QED BY <2>1, <2>2, <2>4, <2>7
<1>8. walk[from] = Exact(rates, z, from, to)
  <2>1. to - from \in Nat
    OBVIOUS
  <2>2. to - from \notin Bad
    <3> HIDE DEF Bad
    <3> QED BY <1>7
  <2> QED BY <2>1, <2>2
<1> QED BY <1>4, <1>8

\* What a crossing c says of a walk from t to `end` that needs n: where it is, and that
\* at the pace of its hour exactly n have accrued there.
Crosses(c, rates, z, t, end, n, used) ==
  /\ c.found /\ c.at \in Int /\ t <= c.at /\ c.at < end
  /\ c.per = used * rates[CellAt(z, c.at)] /\ c.part \in Nat
  /\ c.part <= c.per * (end - c.at)
  /\ used * (Exact(rates, z, t, c.at) * c.per + rates[CellAt(z, c.at)] * c.part) = n * c.per

\* A step that accrues what is needed names the crossing.
LEMMA CrossesHere ==
  ASSUME NEW z \in Zone, OnTheHour(z), NEW rates \in Rates, NEW t \in Int, NEW end \in Int,
         NEW n \in Nat, NEW used \in Nat, t < end, ~Skewed(z, t),
         used * rates[CellAt(z, t)] * (StepEnd(z, t, end) - t) >= n
  PROVE  Crosses([found |-> TRUE, at |-> t, part |-> n, per |-> used * rates[CellAt(z, t)]],
                 rates, z, t, end, n, used)
<1> DEFINE r == rates[CellAt(z, t)]
           e == StepEnd(z, t, end)
           c == [found |-> TRUE, at |-> t, part |-> n, per |-> used * r]
<1>1. r \in Nat /\ e \in Int /\ t < e /\ e <= end
  BY CellIsOne, StepFacts DEF Rates
<1>2. used * r \in Nat
  BY <1>1
<1>3. Exact(rates, z, t, t) = 0
  BY ExactFacts
<1>4. c.found /\ c.at = t /\ c.part = n /\ c.per = used * r
  BY Zenon
<1> HIDE DEF r, e, c
<1>5. n <= (used * r) * (end - t)
  <2>1. (used * r) * (e - t) >= n
    BY DEF r, e
  <2>2. \A k, x, y \in Nat : x <= y => k * x <= k * y
    OBVIOUS
  <2>3. e - t \in Nat /\ end - t \in Nat /\ e - t <= end - t
    BY <1>1
  <2>4. (used * r) * (e - t) <= (used * r) * (end - t)
    BY <1>2, <2>2, <2>3
  <2> QED BY <1>1, <1>2, <2>1, <2>3, <2>4
<1>6. used * (0 * (used * r) + r * n) = n * (used * r)
  BY <1>1
<1>7. Crosses(c, rates, z, t, end, n, used)
  BY <1>2, <1>3, <1>4, <1>5, <1>6 DEF Crosses, r
<1> QED BY <1>7 DEF c, r

\* A crossing of the rest of the walk, for what is needed after a step, is one of the
\* whole walk.
LEMMA CrossesLater ==
  ASSUME NEW z \in Zone, OnTheHour(z), NEW rates \in Rates, NEW t \in Int, NEW end \in Int,
         NEW n \in Int, NEW used \in Nat, t < end, ~Skewed(z, t), NEW c,
         Crosses(c, rates, z, StepEnd(z, t, end), end,
                 n - used * rates[CellAt(z, t)] * (StepEnd(z, t, end) - t), used)
  PROVE  Crosses(c, rates, z, t, end, n, used)
<1> DEFINE r == rates[CellAt(z, t)]
           e == StepEnd(z, t, end)
           x == rates[CellAt(z, c.at)]
           A == Exact(rates, z, t, c.at)
           B == Exact(rates, z, e, c.at)
<1>1. /\ r \in Nat /\ e \in Int /\ t < e /\ e <= end
      /\ Exact(rates, z, t, e) = r * (e - t)
  BY CellIsOne, StepIsExact DEF Rates
<1>2. c.at \in Int /\ e <= c.at /\ c.at < end /\ c.part \in Nat /\ x \in Nat /\ c.per = used * x
  BY CellIsOne DEF Crosses, Rates
<1>3. A = r * (e - t) + B /\ A \in Nat /\ B \in Nat
  BY <1>1, <1>2, ExactSplits, ExactFacts
<1>4. used * (B * c.per + x * c.part) = (n - used * r * (e - t)) * c.per
  BY DEF Crosses
<1> HIDE DEF r, e, x, A, B
<1>5. used * (A * c.per + x * c.part) = n * c.per
  <2> DEFINE s == e - t
             p == c.per
             q == x * c.part
  <2>1. s \in Int /\ p \in Int /\ q \in Int
    BY <1>1, <1>2
  <2>2. used * (B * p + q) = (n - used * r * s) * p
    BY <1>4
  <2>3. A = r * s + B
    BY <1>3
  <2> HIDE DEF s, p, q
  <2>4. used * ((r * s + B) * p + q) = used * (B * p + q) + used * r * s * p
    BY <1>1, <1>3, <2>1
  <2>5. (n - used * r * s) * p + used * r * s * p = n * p
    BY <1>1, <2>1
  <2>6. used * (A * p + q) = n * p
    BY <2>2, <2>3, <2>4, <2>5
  <2> QED BY <2>6 DEF p, q
<1>6. c.found /\ c.part <= c.per * (end - c.at)
  BY DEF Crosses
<1> QED BY <1>1, <1>2, <1>5, <1>6 DEF Crosses, x, A

\* projectedExhaustion finds a crossing when enough is still to come.
LEMMA ExhaustionCrosses ==
  ASSUME NEW z \in Zone, OnTheHour(z), NEW rates \in Rates, NEW from \in Int, NEW end \in Int,
         NEW needed \in Nat \ {0}, NEW used \in Nat, from <= end, from < end => ~Skewed(z, from),
         used * Exact(rates, z, from, end) >= needed
  PROVE  Crosses(Exhaustion(rates, z, from, end, needed, used), rates, z, from, end, needed, used)
<1> DEFINE Step(t) == StepEnd(z, t, end)
           Rate(t) == rates[CellAt(z, t)]
           Segment(t) == used * Rate(t) * (Step(t) - t)
           Here(t, n) == [found |-> TRUE, at |-> t, part |-> n, per |-> used * Rate(t)]
           walk == CHOOSE w : w = [s \in Int \X Int |->
                     IF s[1] >= end THEN NoCrossing
                     ELSE IF Segment(s[1]) >= s[2] /\ Rate(s[1]) > 0 THEN Here(s[1], s[2])
                     ELSE w[<<Step(s[1]), s[2] - Segment(s[1])>>]]
           D == Int \X Int
           R == {NoCrossing} \cup {Here(p[1], p[2]) : p \in D}
           Stop == {p \in D : p[1] >= end \/ (Segment(p[1]) >= p[2] /\ Rate(p[1]) > 0)}
           Out == [p \in D |-> IF p[1] >= end THEN NoCrossing ELSE Here(p[1], p[2])]
           Onward == [p \in D |-> IF p[1] >= end THEN p ELSE <<Step(p[1]), p[2] - Segment(p[1])>>]
           Then == [q \in D \X R |-> q[2]]
           size == [p \in D |-> IF p[1] >= end THEN 0 ELSE end - p[1]]
<1>1. \A t \in Int : t < end => Step(t) \in Int /\ t < Step(t) /\ Step(t) <= end
  BY StepFacts
<1>2. \A t \in Int : Rate(t) \in Nat
  BY CellIsOne DEF Rates
<1>3. \A t \in Int : t < end => Segment(t) \in Int
  BY <1>1, <1>2
<1>4. Exhaustion(rates, z, from, end, needed, used) = walk[<<from, needed>>]
  BY DEF Exhaustion
<1> HIDE DEF Step, Rate, Segment, Here
<1>5. \E w : w = [s \in Int \X Int |->
                     IF s[1] >= end THEN NoCrossing
                     ELSE IF Segment(s[1]) >= s[2] /\ Rate(s[1]) > 0 THEN Here(s[1], s[2])
                     ELSE w[<<Step(s[1]), s[2] - Segment(s[1])>>]]
  <2>1. Recursive(D, R, Stop, Out, Onward, Then, size)
    <3>1. Then \in [D \X R -> R]
      OBVIOUS
    <3>2. size \in [D -> Nat] /\ \A p \in D \ Stop : size[Onward[p]] < size[p]
      BY <1>1, <1>3
    <3>3. Stop \in SUBSET D /\ Out \in [D -> R]
      OBVIOUS
    <3>4. Onward \in [D -> D]
      BY <1>1, <1>3
    <3> HIDE DEF D, R, Stop, Out, Onward, Then, size
    <3> QED BY <3>1, <3>2, <3>3, <3>4 DEF Recursive
  <2>2. PICK w \in [D -> R] :
          \A p \in D : w[p] = IF p \in Stop THEN Out[p] ELSE Then[<<p, w[Onward[p]]>>]
    <3> HIDE DEF D, R, Stop, Out, Onward, Then, size
    <3> QED BY <2>1, Recursion
  <2>3. ASSUME NEW s \in D
        PROVE  w[s] = IF s[1] >= end THEN NoCrossing
                     ELSE IF Segment(s[1]) >= s[2] /\ Rate(s[1]) > 0 THEN Here(s[1], s[2])
                     ELSE w[<<Step(s[1]), s[2] - Segment(s[1])>>]
    <3>1. CASE s \in Stop
      BY <2>2, <3>1
    <3>2. CASE s \notin Stop
      <4>1. Onward[s] = <<Step(s[1]), s[2] - Segment(s[1])>> /\ Onward[s] \in D
        BY <1>1, <1>3, <3>2
      <4>2. w[Onward[s]] \in R
        <5> HIDE DEF D, R, Onward
        <5> QED BY <2>2, <4>1
      <4>3. Then[<<s, w[Onward[s]]>>] = w[Onward[s]]
        <5> HIDE DEF D, R, Onward
        <5> QED BY <4>2
      <4>4. ~(s[1] >= end) /\ ~(Segment(s[1]) >= s[2] /\ Rate(s[1]) > 0)
        BY <3>2
      <4>5. w[s] = Then[<<s, w[Onward[s]]>>]
        <5> HIDE DEF D, R, Onward, Then, Stop, Out
        <5> QED BY <2>2, <3>2
      <4> HIDE DEF D, R, Onward, Then, Stop, Out
      <4> QED BY <4>1, <4>3, <4>4, <4>5
    <3> QED BY <3>1, <3>2
  <2> HIDE DEF R, Stop, Out, Onward, Then, size
  <2>4. w = [s \in Int \X Int |->
                     IF s[1] >= end THEN NoCrossing
                     ELSE IF Segment(s[1]) >= s[2] /\ Rate(s[1]) > 0 THEN Here(s[1], s[2])
                     ELSE w[<<Step(s[1]), s[2] - Segment(s[1])>>]]
    BY <2>2, <2>3
  <2> QED BY <2>4
<1>6. \A t, n \in Int : walk[<<t, n>>] =
                     IF t >= end THEN NoCrossing
                     ELSE IF Segment(t) >= n /\ Rate(t) > 0 THEN Here(t, n)
                     ELSE walk[<<Step(t), n - Segment(t)>>]
  <2>1. walk = [s \in Int \X Int |->
                     IF s[1] >= end THEN NoCrossing
                     ELSE IF Segment(s[1]) >= s[2] /\ Rate(s[1]) > 0 THEN Here(s[1], s[2])
                     ELSE walk[<<Step(s[1]), s[2] - Segment(s[1])>>]]
    BY <1>5
  <2> HIDE DEF walk
  <2> QED BY <2>1
<1> HIDE DEF walk, D, R, Stop, Out, Onward, Then, size
<1> DEFINE Bad == {k \in Nat : \E t, n \in Int :
                     /\ t <= end /\ end - t = k /\ (t < end => ~Skewed(z, t))
                     /\ n > 0 /\ used * Exact(rates, z, t, end) >= n
                     /\ ~Crosses(walk[<<t, n>>], rates, z, t, end, n, used)}
<1>7. Bad = {}
  <2> SUFFICES ASSUME Bad # {} PROVE FALSE
    OBVIOUS
  <2>1. PICK k \in Bad : \A m \in Bad : k <= m
    <3>1. Bad \in SUBSET Nat
      OBVIOUS
    <3> HIDE DEF Bad
    <3> QED BY <3>1, LeastElement
  <2>2. PICK t \in Int, n \in Int :
                     /\ t <= end /\ end - t = k /\ (t < end => ~Skewed(z, t))
                     /\ n > 0 /\ used * Exact(rates, z, t, end) >= n
                     /\ ~Crosses(walk[<<t, n>>], rates, z, t, end, n, used)
    BY <2>1
  <2>3. t < end
    <3>1. Exact(rates, z, end, end) = 0
      BY ExactFacts
    <3> QED BY <2>2, <3>1
  <2>4. Rate(t) \in Nat /\ Step(t) \in Int /\ t < Step(t) /\ Step(t) <= end /\ Segment(t) \in Int
    BY <1>1, <1>2, <1>3, <2>3
  <2>5. ~(Segment(t) >= n /\ Rate(t) > 0)
    <3> SUFFICES ASSUME Segment(t) >= n, Rate(t) > 0 PROVE FALSE
      OBVIOUS
    <3>1. walk[<<t, n>>] = Here(t, n)
      <4>1. ~(t >= end)
        BY <2>3
      <4> QED BY <1>6, <4>1, Zenon
    <3>2. n \in Nat
      BY <2>2
    <3> QED BY <2>2, <2>3, <3>1, <3>2, CrossesHere DEF Segment, Rate, Step, Here
  <2>6. walk[<<t, n>>] = walk[<<Step(t), n - Segment(t)>>]
    BY <1>6, <2>3, <2>5
  <2>7. Segment(t) < n
    <3>1. CASE Rate(t) = 0
      BY <2>2, <2>4, <3>1 DEF Segment
    <3> QED BY <2>2, <2>4, <2>5, <3>1
  <2>8. used * Exact(rates, z, Step(t), end) >= n - Segment(t)
    <3>1. /\ Exact(rates, z, t, end) = Rate(t) * (Step(t) - t) + Exact(rates, z, Step(t), end)
          /\ Exact(rates, z, Step(t), end) \in Nat
      BY <2>2, <2>3, <2>4, StepIsExact, ExactFacts DEF Rate, Step
    <3>2. Segment(t) = used * (Rate(t) * (Step(t) - t))
      BY <2>4 DEF Segment
    <3> QED BY <2>2, <2>4, <3>1, <3>2
  <2>9. Step(t) < end => ~Skewed(z, Step(t))
    BY <2>2, <2>3, StepIsExact DEF Step
  <2>10. ~Crosses(walk[<<Step(t), n - Segment(t)>>], rates, z, Step(t), end, n - Segment(t), used)
    <3> SUFFICES ASSUME Crosses(walk[<<Step(t), n - Segment(t)>>], rates, z, Step(t), end,
                                n - Segment(t), used)
                 PROVE  FALSE
      OBVIOUS
    <3>1. Crosses(walk[<<Step(t), n - Segment(t)>>], rates, z, t, end, n, used)
      BY <2>2, <2>3, CrossesLater DEF Segment, Rate, Step
    <3> QED BY <2>2, <2>6, <3>1
  <2>11. end - Step(t) \in Bad /\ end - Step(t) < k
    <3>1. n - Segment(t) \in Int /\ n - Segment(t) > 0
      BY <2>2, <2>4, <2>7
    <3>2. end - Step(t) \in Nat /\ end - Step(t) < k
      BY <2>2, <2>4
    <3> QED BY <2>4, <2>8, <2>9, <2>10, <3>1, <3>2, Zenon
  <2> HIDE DEF Bad
  <2> QED BY <2>1, <2>2, <2>4, <2>11
<1>8. Crosses(walk[<<from, needed>>], rates, z, from, end, needed, used)
  <2>1. end - from \in Nat /\ needed \in Int /\ needed > 0
    OBVIOUS
  <2>2. end - from \notin Bad
    <3> HIDE DEF Bad
    <3> QED BY <1>7
  <2> QED BY <2>1, <2>2, Zenon
<1> QED BY <1>4, <1>8

-----------------------------------------------------------------------------
(* A window *)

\* What is projected: some window of a zone, at some time, with some history.
Asked(w, z, length, now, used, rows) ==
  /\ z \in Zone /\ length \in Length /\ used \in Used
  /\ now \in -1..(length + 1) /\ rows \in Histories(z, now)
  /\ w = [asked |-> TRUE, zone |-> z, length |-> length, now |-> now, used |-> used,
          rows |-> rows, profile |-> Profile(z, now, rows)]

UsageInv ==
  window = NoWindow \/ \E z, length, now, used, rows : Asked(window, z, length, now, used, rows)

\* Every window that is projected has a history that its retention can have.
LEMMA UsageInvariant == UsageSpec => []UsageInv
<1>1. UsageInit => UsageInv
  BY DEF UsageInit, UsageInv
<1>2. UsageInv /\ [UsageNext]_usageVars => UsageInv'
  <2> SUFFICES ASSUME UsageInv, [UsageNext]_usageVars PROVE UsageInv'
    OBVIOUS
  <2>1. CASE Project
    BY <2>1 DEF Project, UsageInv, Asked
  <2>2. CASE NextWindow
    BY <2>2 DEF NextWindow, UsageInv
  <2>3. CASE UNCHANGED usageVars
    BY <2>3 DEF usageVars, UsageInv
  <2> QED BY <2>1, <2>2, <2>3 DEF UsageNext
<1> QED BY <1>1, <1>2, PTL DEF UsageSpec

\* Products that the forecast compares.
LEMMA Accrued ==
  ASSUME NEW u \in Nat, NEW s \in Nat, NEW e \in Nat, NEW x \in Nat, NEW p \in Nat, NEW q \in Nat,
         u * (e * q + x * p) = s * (100 - u) * q
  PROVE  u * ((s + e) * q + x * p) = 100 * s * q
<1>1. (s + e) * q = s * q + e * q
  OBVIOUS
<1>2. s * q \in Nat /\ e * q \in Nat /\ x * p \in Nat
  OBVIOUS
<1> DEFINE a == s * q
           b == e * q + x * p
<1>3. s * (100 - u) * q = (100 - u) * a
  OBVIOUS
<1>4. a \in Nat /\ b \in Nat
  BY <1>2
<1>5. (s + e) * q + x * p = a + b
  BY <1>1, <1>2
<1>6. 100 * s * q = 100 * a
  OBVIOUS
<1>7. u * b = (100 - u) * a
  BY <1>3
<1> HIDE DEF a, b
<1>8. u * (a + b) = u * a + u * b
  BY <1>4
<1>9. (100 - u) * a = 100 * a - u * a
  BY <1>4
<1>10. u * a \in Nat /\ u * b \in Nat
  BY <1>4
<1> QED BY <1>4, <1>5, <1>6, <1>7, <1>8, <1>9, <1>10

\* What a window that is to exhaust has still to come is what it needs, or more.
LEMMA StillToCome ==
  ASSUME NEW u \in Nat, NEW s \in Nat, NEW t \in Nat, NEW r \in Nat, t = s + r, u * t > 100 * s
  PROVE  u * r >= s * (100 - u)
<1>1. u * t = u * s + u * r
  OBVIOUS
<1>2. s * (100 - u) = 100 * s - u * s
  OBVIOUS
<1>3. u * s \in Nat /\ u * r \in Nat
  OBVIOUS
<1> QED BY <1>1, <1>2, <1>3

\* Both bases are rates.
LEMMA BasisRates ==
  ASSUME NEW w, w.profile.rates \in Rates
  PROVE  Basis(w) \in Rates
BY DEF Basis, Uniform, Rates

\* The walk agrees with the exact integral, for any profile.
LEMMA WalkExact ==
  ASSUME NEW z \in Zone, NEW length \in Length, NEW used \in Used, NEW now \in -1..(length + 1),
         NEW w, w.zone = z, w.length = length, w.used = used, w.now = now,
         w.profile.rates \in Rates, OnTheHour(z), ~Skewed(z, 0), ~Skewed(z, Clamped(w))
  PROVE  LET p == Projection(w)
             expected(t) == Exact(Basis(w), z, 0, t)
         IN  /\ p.soFar = expected(Clamped(w)) /\ p.total = expected(length)
             /\ p.exhausts /\ used > 0 =>
                  /\ p.crossing.found
                  /\ p.crossing.at * p.crossing.per + p.crossing.part <= length * p.crossing.per
                  /\ used < 100 =>
                       used * (expected(p.crossing.at) * p.crossing.per
                                 + Basis(w)[CellAt(z, p.crossing.at)] * p.crossing.part)
                         = 100 * p.soFar * p.crossing.per
<1> DEFINE B == Basis(w)
           at == Clamped(w)
           E(a, b) == Exact(B, z, a, b)
           needed == SoFar(w) * (100 - used)
           c == Projection(w).crossing
<1>1. length \in Nat \ {0} /\ used \in Nat /\ now \in Int
  BY UsageReportAssumption
<1>2. at \in Int /\ 0 <= at /\ at <= length
  BY <1>1 DEF Clamped
<1>3. B \in Rates /\ ~Skewed(z, at)
  BY BasisRates
<1>4. \A a, b \in Int : E(a, b) \in Nat
  <2> HIDE DEF B
  <2> QED BY <1>3, ExactFacts
<1>5. SoFar(w) = E(0, at)
  <2>1. Integral(B, z, 0, at) = Exact(B, z, 0, at)
    <3> HIDE DEF B, at
    <3> QED BY <1>2, <1>3, IntegralIsExact
  <2> QED BY <2>1 DEF SoFar
<1>6. Total(w) = E(0, length)
  <2>1. Integral(B, z, 0, length) = Exact(B, z, 0, length)
    <3> HIDE DEF B, at
    <3> QED BY <1>1, <1>3, IntegralIsExact
  <2> QED BY <2>1 DEF Total
<1>7. E(0, length) = E(0, at) + E(at, length)
  <2> HIDE DEF B, at
  <2> QED BY <1>1, <1>2, <1>3, ExactSplits
<1>8. /\ Projection(w).soFar = E(0, at) /\ Projection(w).total = E(0, length)
      /\ Projection(w).exhausts = WillExhaust(w)
      /\ Projection(w).crossing = IF WillExhaust(w) /\ used > 0
                                  THEN Exhaustion(B, z, at, length, needed, used) ELSE NoCrossing
  BY <1>5, <1>6, Zenon DEF Projection
<1>9. ASSUME WillExhaust(w), used > 0
      PROVE  /\ c.found /\ c.at * c.per + c.part <= length * c.per
             /\ used < 100 =>
                  used * (E(0, c.at) * c.per + B[CellAt(z, c.at)] * c.part) = 100 * E(0, at) * c.per
  <2>1. c = Exhaustion(B, z, at, length, needed, used)
    BY <1>8, <1>9, Zenon
  <2>2. IF E(0, at) > 0 THEN used * E(0, length) > 100 * E(0, at) ELSE used > 100
    BY <1>5, <1>6, <1>9 DEF WillExhaust
  <2>3. E(0, at) \in Nat /\ E(at, length) \in Nat /\ E(0, length) \in Nat
    BY <1>1, <1>2, <1>4
  <2>4. needed = E(0, at) * (100 - used)
    BY <1>5
  <2>5. CASE needed <= 0
    <3>1. c = [found |-> TRUE, at |-> at, part |-> 0, per |-> 1]
      BY <2>1, <2>5 DEF Exhaustion
    <3>2. c.found /\ c.at = at /\ c.part = 0 /\ c.per = 1
      <4> HIDE DEF c, at
      <4>1. c.found
        BY <3>1, Zenon
      <4> QED BY <3>1, <4>1
    <3>3. used < 100 => FALSE
      <4> SUFFICES ASSUME used < 100 PROVE FALSE
        OBVIOUS
      <4> DEFINE s == E(0, at)
      <4>1. s * (100 - used) <= 0 /\ s \in Nat
        BY <2>3, <2>4, <2>5
      <4>2. s = 0
        <5> HIDE DEF s
        <5>1. 100 - used \in Nat \ {0}
          BY <1>1
        <5>2. \A a \in Nat, b \in Nat \ {0} : a * b <= 0 => a = 0
          OBVIOUS
        <5> QED BY <4>1, <5>1, <5>2
      <4> QED BY <1>1, <2>2, <4>2
    <3> HIDE DEF B, at, c
    <3> QED BY <1>1, <1>2, <3>2, <3>3
  <2>6. CASE needed > 0
    <3> DEFINE s == E(0, at)
               r == E(at, length)
    <3>1. used < 100 /\ s > 0
      <4>1. s \in Nat /\ s * (100 - used) > 0
        BY <2>3, <2>4, <2>6
      <4> HIDE DEF s
      <4>2. 100 - used \in Int
        BY <1>1
      <4>3. \A a \in Nat, b \in Int : a * b > 0 => a > 0 /\ b > 0
        OBVIOUS
      <4>4. 100 - used > 0 /\ s > 0
        BY <4>1, <4>2, <4>3
      <4> QED BY <1>1, <4>4
    <3>2. used * r >= needed /\ needed \in Nat \ {0}
      <4>1. used * E(0, length) > 100 * s
        BY <2>2, <3>1
      <4>2. s \in Nat /\ r \in Nat /\ E(0, length) \in Nat /\ E(0, length) = s + r
        BY <1>7, <2>3
      <4> HIDE DEF s, r, E
      <4>3. used * r >= s * (100 - used)
        BY <1>1, <4>1, <4>2, StillToCome
      <4>4. s * (100 - used) \in Int
        BY <1>1, <4>2
      <4> QED BY <2>4, <2>6, <4>3, <4>4 DEF s
    <3>3. Crosses(c, B, z, at, length, needed, used)
      <4>1. used * Exact(B, z, at, length) >= needed
        BY <3>2
      <4>2. Crosses(Exhaustion(B, z, at, length, needed, used), B, z, at, length, needed, used)
        <5> HIDE DEF B, at, needed
        <5> QED BY <1>1, <1>2, <1>3, <3>2, <4>1, ExhaustionCrosses
      <4> QED BY <2>1, <4>2
    <3>4. /\ c.found /\ c.at \in Int /\ at <= c.at /\ c.at < length
          /\ c.per = used * B[CellAt(z, c.at)] /\ c.part \in Nat
          /\ c.part <= c.per * (length - c.at)
          /\ used * (E(at, c.at) * c.per + B[CellAt(z, c.at)] * c.part) = needed * c.per
      <4> HIDE DEF c, needed, B
      <4> QED BY <3>3 DEF Crosses
    <3> DEFINE x == B[CellAt(z, c.at)]
               e == E(at, c.at)
    <3>5. x \in Nat /\ c.per \in Nat /\ e \in Nat /\ s \in Nat
      <4>1. CellAt(z, c.at) \in Cell
        BY <3>4, CellIsOne
      <4>2. x \in Nat
        BY <1>3, <4>1 DEF Rates
      <4>3. e \in Nat /\ s \in Nat
        <5>1. c.at \in Int
          BY <3>4
        <5>2. 0 \in Int
          OBVIOUS
        <5> HIDE DEF c, B, at, E
        <5> QED BY <1>2, <1>4, <5>1, <5>2, Zenon
      <4> HIDE DEF x, e, s, c
      <4> QED BY <1>1, <3>4, <4>2, <4>3 DEF x
    <3>6. E(0, c.at) = s + e
      <4> HIDE DEF c, B, at
      <4> QED BY <1>2, <1>3, <3>4, ExactSplits
    <3>7. used * (e * c.per + x * c.part) = s * (100 - used) * c.per
      BY <2>4, <3>4
    <3>8. used * ((s + e) * c.per + x * c.part) = 100 * s * c.per
      <4> DEFINE q == c.per
                 p == c.part
      <4>1. /\ used \in Nat /\ x \in Nat /\ e \in Nat /\ s \in Nat /\ q \in Nat /\ p \in Nat
            /\ used * (e * q + x * p) = s * (100 - used) * q
        BY <1>1, <3>4, <3>5, <3>7
      <4> HIDE DEF c, x, e, s, q, p
      <4>2. used * ((s + e) * q + x * p) = 100 * s * q
        BY <4>1, Accrued
      <4> QED BY <4>2 DEF q, p
    <3>9. c.at * c.per + c.part <= length * c.per
      <4> DEFINE q == c.per
                 k == c.at
                 p == c.part
      <4>1. q \in Nat /\ k \in Int /\ p \in Nat /\ p <= q * (length - k)
        BY <3>4, <3>5
      <4> HIDE DEF q, k, p
      <4>2. q * (length - k) = length * q - k * q /\ length * q \in Int /\ k * q \in Int
        BY <1>1, <4>1
      <4>3. k * q + p <= length * q
        BY <4>1, <4>2
      <4> QED BY <4>3 DEF q, k, p
    <3> QED BY <3>4, <3>6, <3>8, <3>9
  <2>7. needed \in Int
    BY <1>1, <2>3, <2>4
  <2> QED BY <2>5, <2>6, <2>7
<1> HIDE DEF B, at, c
<1> QED BY <1>8, <1>9 DEF B, at, c

-----------------------------------------------------------------------------
(* Profiles *)

\* Go's division of integers, for a positive divisor.
LEMMA Division ==
  ASSUME NEW a \in Int, NEW b \in Nat \ {0}
  PROVE  /\ a \div b \in Int /\ b * (a \div b) <= a
         /\ a \in Nat => a \div b \in Nat
         /\ \A k \in Int : a = b * k => a \div b = k
<1>1. a \div b \in Int /\ b * (a \div b) <= a
  OBVIOUS
<1>2. a \in Nat => a \div b \in Nat
  OBVIOUS
<1>3. ASSUME NEW k \in Int, a = b * k PROVE a \div b = k
  BY <1>3
<1> QED BY <1>1, <1>2, <1>3

\* There are finitely many cells.
LEMMA CellsAreFinite == IsFiniteSet(Cell)
<1>1. IsFiniteSet({"weekday"}) 
  BY FS_Singleton
<1>2. IsFiniteSet({"weekday"} \cup {"weekend"})
  BY <1>1, FS_AddElement
<1>3. {"weekday"} \cup {"weekend"} = {"weekday", "weekend"}
  OBVIOUS
<1>4. IsFiniteSet(0..(HoursPerDay - 1))
  BY WallClockAssumption, FS_Interval
<1> QED BY <1>2, <1>3, <1>4, FS_Product DEF Cell

\* The retention begins at a whole number of half hours.
LEMMA RetentionNumbers ==
  ASSUME NEW z \in Zone, NEW now \in Int
  PROVE  /\ OldestDay(z, now) \in Int /\ RetentionStart(z, now) \in Int
         /\ DayStart(RetentionDays) \in Int /\ DayStart(OldestDay(z, now)) \in Int
<1>1. \A d \in Int : DayStart(d) \in Int
  BY WallClockAssumption DEF DayStart
<1>2. \A w \in Int : Day(w) \in Int
  BY WallClockAssumption, Division DEF Day, Hour
<1>3. \A w \in Int : Wall(z, w) \in Int /\ Date(z, w) \in Int
  BY ZoneNumbers
<1>4. DayStart(RetentionDays) \in Int
  BY <1>1, UsageProfileAssumption
<1>5. OldestDay(z, now) \in Int
  BY <1>2, <1>3, <1>4 DEF OldestDay
<1> QED BY <1>1, <1>3, <1>4, <1>5 DEF RetentionStart

\* Every cell occurs some number of times.
LEMMA OccurrenceFacts ==
  ASSUME NEW z \in Zone, NEW now \in Int
  PROVE  SlotOccurrences(z, now) \in [Cell -> Nat]
<1> DEFINE start == RetentionStart(z, now)
           hours == {t \in start..(now - 1) : (t - start) % 2 = 0}
<1>1. start \in Int
  BY RetentionNumbers
<1>2. IsFiniteSet(start..(now - 1))
  BY <1>1, FS_Interval
<1>3. ASSUME NEW c \in Cell PROVE Cardinality({t \in hours : CellAt(z, t) = c}) \in Nat
  <2>1. {t \in hours : CellAt(z, t) = c} \subseteq start..(now - 1)
    OBVIOUS
  <2> HIDE DEF hours, start
  <2> QED BY <1>2, <2>1, FS_Subset, FS_CardinalityType
<1> QED BY <1>3 DEF SlotOccurrences

\* The hours of the rows, and what they hold.
TokensOf(rows) == [h \in DOMAIN rows |-> rows[h]["tokens"]]

LEMMA HistoryFacts ==
  ASSUME NEW z \in Zone, NEW now \in Int, NEW rows \in Histories(z, now)
  PROVE  /\ DOMAIN rows \subseteq HoursKept(z, now) /\ IsFiniteSet(DOMAIN rows)
         /\ TokensOf(rows) \in [DOMAIN rows -> Nat]
         /\ \A hours : AddUp(rows, "tokens", hours) = SumOf(TokensOf(rows), hours)
         /\ \A h \in DOMAIN rows : h \in Int /\ CellOf(h) \in Cell
<1> DEFINE first == RetentionStart(z, now) - 2 * HoursPerDay
<1>1. DOMAIN rows \subseteq HoursKept(z, now) /\ rows \in [DOMAIN rows -> Bucket]
  BY DEF Histories
<1>2. first \in Int
  BY RetentionNumbers, WallClockAssumption
<1>3. HoursKept(z, now) \subseteq {Hour(Wall(z, t)) : t \in first..(now - 1)}
  BY DEF HoursKept
<1>4. IsFiniteSet({Hour(Wall(z, t)) : t \in first..(now - 1)})
  <2>1. IsFiniteSet(first..(now - 1))
    BY <1>2, FS_Interval
  <2> DEFINE S == first..(now - 1)
             T == {Hour(Wall(z, t)) : t \in S}
             F == [t \in S |-> Hour(Wall(z, t))]
  <2>2. F \in Surjection(S, T)
    BY DEF Surjection
  <2> HIDE DEF F
  <2> QED BY <2>1, <2>2, FS_Surjection
<1>5. IsFiniteSet(DOMAIN rows)
  BY <1>1, <1>3, <1>4, FS_Subset
<1>6. \A h \in DOMAIN rows : rows[h].tokens \in Nat
  BY <1>1, UsageProfileAssumption
<1>7. TokensOf(rows) \in [DOMAIN rows -> Nat]
  BY <1>6 DEF TokensOf
<1>8. \A hours : AddUp(rows, "tokens", hours) = SumOf(TokensOf(rows), hours)
  BY DEF AddUp, SumOf, TokensOf
<1>9. ASSUME NEW h \in DOMAIN rows PROVE h \in Int /\ CellOf(h) \in Cell
  <2>1. PICK t \in first..(now - 1) : h = Hour(Wall(z, t))
    BY <1>1, <1>3
  <2>2. t \in Int
    BY <1>2
  <2>3. h \in Int /\ CellAt(z, t) \in Cell
    BY <2>1, <2>2, ZoneNumbers, CellIsOne
  <2> QED BY <2>1, <2>3 DEF CellAt
<1> QED BY <1>1, <1>5, <1>7, <1>8, <1>9

\* Rates are naturals over a scale that every occurrence divides.
LEMMA ProfileFacts ==
  ASSUME NEW z \in Zone, NEW now \in Int, NEW rows \in Histories(z, now)
  PROVE  LET p == Profile(z, now, rows)
             occurrences == SlotOccurrences(z, now)
             tokens(c) == AddUp(rows, "tokens", {h \in DOMAIN rows : CellOf(h) = c})
         IN  /\ p.rates \in Rates /\ p.scale \in Nat \ {0}
             /\ \A c \in Cell : /\ tokens(c) \in Nat
                                /\ occurrences[c] = 0 => p.rates[c] = 0
                                /\ occurrences[c] # 0 =>
                                     p.rates[c] * occurrences[c] = tokens(c) * p.scale
<1> DEFINE p == Profile(z, now, rows)
           occ == SlotOccurrences(z, now)
           Of(c) == {h \in DOMAIN rows : CellOf(h) = c}
           tokens(c) == AddUp(rows, "tokens", Of(c))
           scale == Scale(occ)
           used == {c \in Cell : occ[c] > 0}
<1>1. occ \in [Cell -> Nat]
  BY OccurrenceFacts
<1>2. ASSUME NEW c \in Cell PROVE tokens(c) \in Nat
  <2>1. Of(c) \subseteq DOMAIN rows
    OBVIOUS
  <2> HIDE DEF Of
  <2> QED BY <2>1, HistoryFacts, SumNat
<1>3. scale = Product(occ, used)
  BY DEF Scale, Product
<1>4. /\ scale \in Nat \ {0}
      /\ \A c \in used : \E k \in Nat : scale = occ[c] * k
  <2>1. /\ used \in SUBSET Cell /\ occ \in [Cell -> Int] /\ \A c \in used : occ[c] \in Nat \ {0}
    BY <1>1
  <2> HIDE DEF used, occ, scale
  <2> QED BY <1>3, <2>1, CellsAreFinite, ProductFacts
<1>5. p.scale = scale /\ p.rates = [c \in Cell |-> IF occ[c] = 0 THEN 0
                                                  ELSE tokens(c) * (scale \div occ[c])]
  BY Zenon DEF Profile
<1>6. ASSUME NEW c \in Cell, occ[c] # 0
      PROVE  /\ tokens(c) * (scale \div occ[c]) \in Nat
             /\ tokens(c) * (scale \div occ[c]) * occ[c] = tokens(c) * scale
  <2>1. occ[c] \in Nat \ {0} /\ c \in used
    BY <1>1, <1>6
  <2>2. PICK k \in Nat : scale = occ[c] * k
    BY <1>4, <2>1
  <2> DEFINE n == tokens(c)
             o == occ[c]
  <2>3. scale \div o = k
    <3> HIDE DEF o, scale
    <3> QED BY <2>1, <2>2, <1>4, Division DEF o
  <2>4. n \in Nat /\ o \in Nat /\ scale = o * k
    BY <1>2, <2>1, <2>2
  <2> HIDE DEF n, o, scale
  <2>5. n * k \in Nat /\ n * k * o = n * (o * k)
    BY <2>4
  <2> QED BY <2>3, <2>4, <2>5 DEF n, o
<1> HIDE DEF tokens, occ, scale, p
<1>7. p.rates \in Rates
  BY <1>5, <1>6 DEF Rates
<1>8. \A c \in Cell : /\ occ[c] = 0 => p.rates[c] = 0
                      /\ occ[c] # 0 => p.rates[c] * occ[c] = tokens(c) * p.scale
  BY <1>5, <1>6
<1> QED BY <1>2, <1>4, <1>5, <1>7, <1>8 DEF tokens, occ, p

\* Zones that change on the hour: the two half hours of an hour of the wall clock follow
\* each other.
LEMMA Halves ==
  ASSUME NEW z \in Zone, OnTheHour(z), NEW t \in Int, NEW u \in Int
  PROVE  /\ Wall(z, t) % 2 = 0 => Wall(z, t + 1) = Wall(z, t) + 1
         /\ (Wall(z, t) - Wall(z, u) - (t - u)) % 2 = 0
<1>1. z.before \in Int /\ z.after \in Int /\ z.at \in Int
  BY ZoneNumbers
<1>2. \A v \in Int : Wall(z, v) = IF v < z.at THEN v + z.before ELSE v + z.after
  BY DEF Wall, Offset
<1>3. CASE z.after = z.before
  BY <1>1, <1>2, <1>3
<1>4. CASE z.after = z.before + 2 /\ (z.at + z.before) % 2 = 0
  BY <1>1, <1>2, <1>4
<1>5. CASE z.after = z.before - 2 /\ (z.at + z.before) % 2 = 0
  <2>1. Wall(z, t) % 2 = 0 => Wall(z, t + 1) = Wall(z, t) + 1
    <3> SUFFICES ASSUME Wall(z, t) % 2 = 0 PROVE Wall(z, t + 1) = Wall(z, t) + 1
      OBVIOUS
    <3>1. t + 1 # z.at
      <4> SUFFICES ASSUME t + 1 = z.at PROVE FALSE
        OBVIOUS
      <4>1. Wall(z, t) = z.at - 1 + z.before
        BY <1>1, <1>2
      <4> QED BY <1>1, <1>5, <4>1
    <3> QED BY <1>1, <1>2, <3>1
  <2>2. (Wall(z, t) - Wall(z, u) - (t - u)) % 2 = 0
    BY <1>1, <1>2, <1>5
  <2> QED BY <2>1, <2>2
<1>6. \/ z.after = z.before
      \/ (z.after = z.before + 2 \/ z.after = z.before - 2) /\ (z.at + z.before) % 2 = 0
  BY <1>1 DEF OnTheHour
<1> QED BY <1>3, <1>4, <1>5, <1>6

\* The numbers of a start: offsets b and a before and after `at`, and time.Date puts
\* the time d of the wall clock at `start`.
StartNumbers(b, a, at, d, start) ==
  /\ {b, a, at, d, start} \subseteq Int /\ d % 2 = 0
  /\ \/ d < at /\ d - b < at /\ start = d - b
     \/ d < at /\ d - b >= at /\ start = d - a
     \/ d >= at /\ d - a >= at /\ start = d - a
     \/ d >= at /\ d - a < at /\ start = d - b
  /\ a = b \/ ((a - b = 2 \/ a - b = -2) /\ (at + b) % 2 = 0)

\* What is earlier on the clock, yet at or after d on the wall, is in the first of two
\* hours that begin at d, of which `start` is the second.
LEMMA StartArithmetic ==
  ASSUME NEW b, NEW a, NEW at, NEW d, NEW start, StartNumbers(b, a, at, d, start),
         NEW t \in Int, NEW w \in Int, w = IF t < at THEN t + b ELSE t + a,
         NEW s \in Int, s = IF start < at THEN start + b ELSE start + a
  PROVE  /\ s % 2 = 0 /\ d - 2 <= s /\ s <= d + 2
         /\ a - b = -2 => s = d
         /\ t < start /\ w >= d => a - b = -2 /\ start = at /\ s = d /\ (w = d \/ w = d + 1)
                                   /\ start - 2 <= t
<1>1. b \in Int /\ a \in Int /\ at \in Int /\ d \in Int /\ start \in Int
  BY DEF StartNumbers
<1>2. CASE a = b
  BY <1>1, <1>2 DEF StartNumbers
<1>3. CASE a = b + 2 /\ (at + b) % 2 = 0
  BY <1>1, <1>3 DEF StartNumbers
<1>4. CASE a = b - 2 /\ (at + b) % 2 = 0
  BY <1>1, <1>4 DEF StartNumbers
<1> QED BY <1>1, <1>2, <1>3, <1>4 DEF StartNumbers

\* A day begins at an even number of half hours, not after any time of it.
LEMMA DayNumbers ==
  ASSUME NEW w \in Int
  PROVE  /\ Day(w) \in Int /\ DayStart(Day(w)) \in Int /\ DayStart(Day(w)) % 2 = 0
         /\ DayStart(Day(w)) <= w
         /\ DayStart(RetentionDays) \in Int /\ DayStart(RetentionDays) >= 2
         /\ DayStart(RetentionDays) % 2 = 0
         /\ \A d \in Int : Hour(w) \div HoursPerDay >= d => w >= DayStart(d)
<1> DEFINE H == HoursPerDay
           h == Hour(w)
<1>1. H \in Nat \ {0} /\ RetentionDays \in Nat \ {0}
  BY WallClockAssumption, UsageProfileAssumption
<1>2. h \in Int /\ 2 * h <= w
  BY DEF Hour
<1>3. h \div H \in Int /\ H * (h \div H) <= h
  <2> HIDE DEF h, H
  <2> QED BY <1>1, <1>2, Division
<1>4. \A d \in Int : DayStart(d) \in Int /\ DayStart(d) = 2 * (H * d) /\ DayStart(d) % 2 = 0
  <2> TAKE d \in Int
  <2>1. H * d \in Int
    BY <1>1
  <2>2. DayStart(d) = 2 * (H * d)
    BY <1>1 DEF DayStart
  <2> QED BY <2>1, <2>2
<1>5. \A d \in Int : h \div H >= d => w >= DayStart(d)
  <2> SUFFICES ASSUME NEW d \in Int, h \div H >= d PROVE w >= DayStart(d)
    OBVIOUS
  <2> DEFINE q == h \div H
  <2>1. H * q >= H * d
    <3>1. q \in Int /\ q >= d
      BY <1>3
    <3> HIDE DEF q, H
    <3> QED BY <1>1, <3>1
  <2>2. H * q \in Int /\ H * d \in Int
    BY <1>1, <1>3
  <2> QED BY <1>2, <1>3, <1>4, <2>1, <2>2
<1>6. Day(w) = h \div H
  BY DEF Day
<1>7. DayStart(RetentionDays) >= 2
  <2>1. H * RetentionDays \in Nat /\ H * RetentionDays >= 1
    BY <1>1
  <2> QED BY <1>1, <1>4, <2>1
<1> HIDE DEF h, H
<1> QED BY <1>1, <1>3, <1>4, <1>5, <1>6, <1>7 DEF h, H
\* time.Date, which the retention starts with.
LEMMA StartFacts ==
  ASSUME NEW z \in Zone, OnTheHour(z), NEW d \in Int, d % 2 = 0, NEW t \in Int
  PROVE  LET start == Date(z, d)
         IN  /\ Wall(z, start) % 2 = 0 /\ d - 2 <= Wall(z, start) /\ Wall(z, start) <= d + 2
             /\ z.after - z.before = -2 => Wall(z, start) = d
             /\ t < start /\ Wall(z, t) >= d =>
                  /\ z.after - z.before = -2 /\ start = z.at /\ Wall(z, start) = d
                  /\ (Wall(z, t) = d \/ Wall(z, t) = d + 1) /\ start - 2 <= t
<1> DEFINE start == Date(z, d)
           w == Wall(z, t)
           s == Wall(z, start)
<1>1. /\ z.before \in Int /\ z.after \in Int /\ z.at \in Int
      /\ start \in Int /\ w \in Int /\ s \in Int
  BY ZoneNumbers
<1>2. /\ w = IF t < z.at THEN t + z.before ELSE t + z.after
      /\ s = IF start < z.at THEN start + z.before ELSE start + z.after
  BY <1>1 DEF Wall, Offset
<1>3. StartNumbers(z.before, z.after, z.at, d, start)
  <2>1. \/ /\ d < z.at /\ d - z.before < z.at /\ start = d - z.before
        \/ /\ d < z.at /\ d - z.before >= z.at /\ start = d - z.after
        \/ /\ d >= z.at /\ d - z.after >= z.at /\ start = d - z.after
        \/ /\ d >= z.at /\ d - z.after < z.at /\ start = d - z.before
    BY DateCases
  <2>2. \/ z.after = z.before
        \/ (z.after - z.before = 2 \/ z.after - z.before = -2) /\ (z.at + z.before) % 2 = 0
    BY <1>1 DEF OnTheHour
  <2> HIDE DEF start
  <2> QED BY <1>1, <2>1, <2>2 DEF StartNumbers
<1> HIDE DEF start, w, s
<1>4. /\ s % 2 = 0 /\ d - 2 <= s /\ s <= d + 2
      /\ z.after - z.before = -2 => s = d
      /\ t < start /\ w >= d => z.after - z.before = -2 /\ start = z.at /\ s = d
                               /\ (w = d \/ w = d + 1) /\ start - 2 <= t
  BY <1>1, <1>2, <1>3, StartArithmetic
<1> QED BY <1>4 DEF start, w, s

\* The retention starts early enough for every hour it keeps to be counted.
LEMMA HourOccurs ==
  ASSUME NEW z \in Zone, OnTheHour(z), NEW now \in Int, Wall(z, now) % 2 = 0,
         NEW h \in HoursKept(z, now)
  PROVE  \E t \in RetentionStart(z, now)..(now - 1) :
           (t - RetentionStart(z, now)) % 2 = 0 /\ Hour(Wall(z, t)) = h
<1> DEFINE start == RetentionStart(z, now)
           r == DayStart(RetentionDays)
           v == Wall(z, now) - r
           x == Date(z, v)
           D == DayStart(OldestDay(z, now))
<1>1. \A u \in Int : Wall(z, u) \in Int /\ Date(z, u) \in Int
  BY ZoneNumbers
<1>2. start \in Int /\ r \in Int /\ D \in Int
  BY RetentionNumbers
<1>3. r % 2 = 0 /\ r >= 2
  BY DayNumbers
<1>4. v \in Int /\ v % 2 = 0 /\ v <= Wall(z, now) - 2 /\ x \in Int
  <2>1. Wall(z, now) \in Int
    BY <1>1
  <2>2. v \in Int /\ v % 2 = 0 /\ v <= Wall(z, now) - 2
    <3> HIDE DEF r
    <3> QED BY <1>2, <1>3, <2>1
  <2> HIDE DEF v
  <2> QED BY <1>1, <2>2
<1>5. D % 2 = 0 /\ D <= Wall(z, x)
  <2>1. OldestDay(z, now) = Day(Wall(z, x))
    BY DEF OldestDay
  <2> HIDE DEF x
  <2> QED BY <1>1, <1>4, <2>1, DayNumbers
<1>6. z.after - z.before = -2 => D <= Wall(z, now) - 2
  <2>1. z.after - z.before = -2 => Wall(z, x) = v
    <3> HIDE DEF v
    <3> QED BY <1>4, StartFacts
  <2> HIDE DEF x, v, D
  <2> QED BY <1>1, <1>2, <1>4, <1>5, <2>1
<1>7. PICK t0 \in Int : t0 <= now - 1 /\ h = Hour(Wall(z, t0)) /\ Wall(z, t0) >= D
  <2>1. PICK t0 \in (start - 2 * HoursPerDay)..(now - 1) : h = Hour(Wall(z, t0))
    BY DEF HoursKept
  <2>2. h \div HoursPerDay >= OldestDay(z, now)
    BY DEF HoursKept
  <2>3. t0 \in Int /\ t0 <= now - 1
    BY <1>2, WallClockAssumption
  <2>4. Wall(z, t0) >= D
    <3>1. Wall(z, t0) \in Int /\ OldestDay(z, now) \in Int
      BY <1>1, <2>3, RetentionNumbers
    <3> QED BY <2>1, <2>2, <3>1, DayNumbers
  <2> QED BY <2>1, <2>3, <2>4
<1>8. start = Date(z, D)
  BY DEF RetentionStart
<1>9. /\ Wall(z, start) % 2 = 0
      /\ t0 < start => /\ z.after - z.before = -2 /\ start = z.at /\ Wall(z, start) = D
                       /\ (Wall(z, t0) = D \/ Wall(z, t0) = D + 1) /\ start - 2 <= t0
  <2> HIDE DEF D, start
  <2> QED BY <1>2, <1>5, <1>7, <1>8, StartFacts
<1>10. \A u \in Int : Wall(z, u) = IF u < z.at THEN u + z.before ELSE u + z.after
  BY DEF Wall, Offset
<1>11. z.before \in Int /\ z.after \in Int /\ z.at \in Int
  BY ZoneNumbers
<1> HIDE DEF start, r, v, x, D
<1>12. CASE t0 < start
  <2>1. start <= now - 1
    BY <1>2, <1>6, <1>7, <1>9, <1>10, <1>11, <1>12
  <2>2. Hour(Wall(z, start)) = h
    BY <1>1, <1>2, <1>5, <1>7, <1>9, <1>12 DEF Hour
  <2> QED BY <1>2, <2>1, <2>2 DEF start
<1>13. CASE t0 >= start /\ (t0 - start) % 2 = 0
  BY <1>2, <1>7, <1>13 DEF start
<1>14. CASE t0 >= start /\ (t0 - start) % 2 # 0
  <2> DEFINE t == t0 - 1
  <2>1. t \in Int /\ t >= start /\ (t - start) % 2 = 0 /\ t <= now - 1 /\ t + 1 = t0
    BY <1>2, <1>7, <1>14
  <2>2. Wall(z, t) \in Int /\ Wall(z, start) \in Int
    BY <1>1, <1>2, <2>1
  <2>3. (Wall(z, t) - Wall(z, start) - (t - start)) % 2 = 0
    BY <1>2, <2>1, Halves
  <2> HIDE DEF t
  <2>4. Wall(z, t) % 2 = 0
    BY <1>2, <1>9, <2>1, <2>2, <2>3
  <2>5. Wall(z, t0) = Wall(z, t) + 1
    BY <1>2, <2>1, <2>4, Halves
  <2>6. Hour(Wall(z, t)) = h
    BY <1>7, <2>2, <2>4, <2>5 DEF Hour
  <2> QED BY <1>2, <2>1, <2>6 DEF start
<1> QED BY <1>2, <1>7, <1>12, <1>13, <1>14

\* Every hour that is counted for a cell is two half hours in it, and the other way round.
LEMMA TwiceAnHour ==
  ASSUME NEW z \in Zone, OnTheHour(z), NEW now \in Int, Wall(z, now) % 2 = 0, NEW c \in Cell
  PROVE  Cardinality({t \in RetentionStart(z, now)..(now - 1) : CellAt(z, t) = c})
           = 2 * SlotOccurrences(z, now)[c]
<1> DEFINE start == RetentionStart(z, now)
           hours == {t \in start..(now - 1) : (t - start) % 2 = 0}
           full == {t \in hours : CellAt(z, t) = c}
           half == {t + 1 : t \in full}
           all == {t \in start..(now - 1) : CellAt(z, t) = c}
<1>1. start \in Int
  BY RetentionNumbers
<1>2. Wall(z, start) % 2 = 0
  <2>1. DayStart(OldestDay(z, now)) \in Int /\ DayStart(OldestDay(z, now)) % 2 = 0
    <3>1. OldestDay(z, now) \in Int
      BY RetentionNumbers
    <3>2. Wall(z, Date(z, Wall(z, now) - DayStart(RetentionDays))) \in Int
      <4>1. Wall(z, now) - DayStart(RetentionDays) \in Int
        BY ZoneNumbers, RetentionNumbers
      <4> QED BY <4>1, ZoneNumbers
    <3> QED BY <3>2, DayNumbers DEF OldestDay
  <2> QED BY <2>1, StartFacts DEF RetentionStart
<1> HIDE DEF start
<1>3. \A t \in Int : Wall(z, t) \in Int
  BY ZoneNumbers
<1>4. \A t \in Int : (Wall(z, t) - Wall(z, start) - (t - start)) % 2 = 0
  BY <1>1, Halves
<1>5. ASSUME NEW t \in Int, (t - start) % 2 = 0 PROVE CellAt(z, t + 1) = CellAt(z, t)
  <2>1. Wall(z, t) % 2 = 0
    <3>1. Wall(z, t) \in Int /\ Wall(z, start) \in Int
      BY <1>1, <1>3
    <3>2. (Wall(z, t) - Wall(z, start) - (t - start)) % 2 = 0
      BY <1>4
    <3> QED BY <1>1, <1>2, <1>5, <3>1, <3>2
  <2>2. Wall(z, t + 1) = Wall(z, t) + 1
    BY <2>1, Halves
  <2>3. Hour(Wall(z, t + 1)) = Hour(Wall(z, t))
    <3>1. \A v \in Int : v % 2 = 0 => Hour(v + 1) = Hour(v)
      BY DEF Hour
    <3> QED BY <1>3, <2>1, <2>2, <3>1
  <2> QED BY <2>3 DEF CellAt
<1>6. (now - start) % 2 = 0
  <2>1. Wall(z, now) \in Int /\ Wall(z, start) \in Int
    BY <1>1, <1>3
  <2>2. (Wall(z, now) - Wall(z, start) - (now - start)) % 2 = 0
    BY <1>4
  <2> QED BY <1>1, <1>2, <2>1, <2>2
<1>7. all = full \cup half
  <2>1. ASSUME NEW t \in full PROVE t \in all /\ t + 1 \in all
    <3>1. t \in Int /\ start <= t /\ t <= now - 1 /\ (t - start) % 2 = 0 /\ CellAt(z, t) = c
      BY <1>1
    <3>2. t + 1 <= now - 1
      BY <1>1, <1>6, <3>1
    <3>3. CellAt(z, t + 1) = c
      BY <1>5, <3>1
    <3> QED BY <1>1, <3>1, <3>2, <3>3
  <2>2. ASSUME NEW t \in all, t \notin full PROVE t - 1 \in full /\ t = (t - 1) + 1
    <3>1. t \in Int /\ start <= t /\ t <= now - 1 /\ (t - start) % 2 # 0 /\ CellAt(z, t) = c
      BY <1>1, <2>2
    <3>2. t - 1 \in start..(now - 1) /\ (t - 1 - start) % 2 = 0 /\ t = (t - 1) + 1
      BY <1>1, <3>1
    <3>3. CellAt(z, t - 1) = c
      BY <1>5, <3>1, <3>2
    <3> QED BY <3>2, <3>3
  <2>3. full \cup half \subseteq all
    BY <2>1
  <2>4. all \subseteq full \cup half
    <3> SUFFICES ASSUME NEW t \in all, t \notin full PROVE t \in half
      OBVIOUS
    <3>1. t - 1 \in full /\ t = (t - 1) + 1
      BY <2>2
    <3> HIDE DEF full
    <3> QED BY <3>1
  <2> QED BY <2>3, <2>4
<1>8. full \cap half = {}
  <2> SUFFICES ASSUME NEW t \in full, t + 1 \in full PROVE FALSE
    OBVIOUS
  <2>1. t \in Int /\ (t - start) % 2 = 0 /\ (t + 1 - start) % 2 = 0
    BY <1>1
  <2> QED BY <1>1, <2>1
<1>9. IsFiniteSet(full) /\ Cardinality(full) \in Nat
  <2>1. IsFiniteSet(start..(now - 1))
    BY <1>1, FS_Interval
  <2>2. full \subseteq start..(now - 1)
    OBVIOUS
  <2> HIDE DEF full
  <2> QED BY <2>1, <2>2, FS_Subset, FS_CardinalityType
<1>10. IsFiniteSet(half) /\ Cardinality(half) = Cardinality(full)
  <2> DEFINE next == [t \in full |-> t + 1]
  <2>1. next \in Bijection(full, half)
    <3>1. \A t \in full : t \in Int
      BY <1>1
    <3> HIDE DEF full
    <3>2. next \in [full -> half] /\ \A t \in half : \E u \in full : next[u] = t
      OBVIOUS
    <3>3. \A t, u \in full : next[t] = next[u] => t = u
      BY <3>1
    <3> QED BY <3>2, <3>3 DEF Bijection, Injection, Surjection, IsInjective
  <2> HIDE DEF full, half, next
  <2> QED BY <1>9, <2>1, FS_Bijection DEF ExistsBijection
<1>11. Cardinality(full \cup half) = 2 * Cardinality(full)
  <2> HIDE DEF full, half
  <2>1. Cardinality(full \cup half)
          = Cardinality(full) + Cardinality(half) - Cardinality(full \cap half)
    BY <1>9, <1>10, FS_Union
  <2>2. Cardinality(full \cap half) = 0
    BY <1>8, FS_EmptySet
  <2> QED BY <1>9, <1>10, <2>1, <2>2
<1>12. SlotOccurrences(z, now)[c] = Cardinality(full)
  BY DEF SlotOccurrences, start
<1> QED BY <1>7, <1>11, <1>12 DEF start

\* What a profile expects of the days it was learned from is what was used in them.
LEMMA AddsUp ==
  ASSUME NEW z \in Zone, OnTheHour(z), NEW now \in Int, Wall(z, now) % 2 = 0,
         NEW rows \in Histories(z, now)
  PROVE  LET p == Profile(z, now, rows)
         IN  Exact(p.rates, z, RetentionStart(z, now), now)
               = 2 * p.scale * AddUp(rows, "tokens", DOMAIN rows)
<1> DEFINE p == Profile(z, now, rows)
           occ == SlotOccurrences(z, now)
           H == DOMAIN rows
           k == TokensOf(rows)
           tokens(c) == AddUp(rows, "tokens", {h \in H : CellOf(h) = c})
           used == [c \in Cell |-> tokens(c)]
           T == RetentionStart(z, now)..(now - 1)
           f == [t \in T |-> p.rates[CellAt(z, t)]]
           expected == [c \in Cell |-> SumOf(f, {t \in T : CellAt(z, t) = c})]
<1>1. /\ p.rates \in Rates /\ p.scale \in Nat \ {0}
      /\ \A c \in Cell : /\ tokens(c) \in Nat
                         /\ occ[c] = 0 => p.rates[c] = 0
                         /\ occ[c] # 0 => p.rates[c] * occ[c] = tokens(c) * p.scale
  BY ProfileFacts
<1>2. occ \in [Cell -> Nat]
  BY OccurrenceFacts
<1>3. /\ H \subseteq HoursKept(z, now) /\ IsFiniteSet(H) /\ k \in [H -> Nat]
      /\ \A hours : AddUp(rows, "tokens", hours) = SumOf(k, hours)
      /\ \A h \in H : h \in Int /\ CellOf(h) \in Cell
  BY HistoryFacts
<1> HIDE DEF p, occ
<1>4. ASSUME NEW c \in Cell, occ[c] = 0 PROVE tokens(c) = 0
  <2>1. ASSUME NEW h \in H, CellOf(h) = c PROVE FALSE
    <3>1. PICK t \in T : (t - RetentionStart(z, now)) % 2 = 0 /\ Hour(Wall(z, t)) = h
      BY <1>3, <2>1, HourOccurs
    <3>2. CellAt(z, t) = c
      BY <2>1, <3>1 DEF CellAt
    <3> DEFINE all == {u \in T : CellAt(z, u) = c}
    <3>3. Cardinality(all) = 2 * occ[c]
      BY TwiceAnHour DEF occ
    <3>4. IsFiniteSet(all)
      <4>1. all \in SUBSET T
        OBVIOUS
      <4>2. RetentionStart(z, now) \in Int /\ now - 1 \in Int
        BY RetentionNumbers
      <4>3. IsFiniteSet(T)
        BY <4>2, FS_Interval
      <4> HIDE DEF all, T
      <4> QED BY <4>1, <4>3, FS_Subset
    <3>5. t \in all
      BY <3>1, <3>2
    <3> HIDE DEF all
    <3> QED BY <1>4, <3>3, <3>4, <3>5, FS_EmptySet
  <2>2. {h \in H : CellOf(h) = c} = {}
    BY <2>1
  <2>3. SumOf(k, {}) = 0
    BY <1>3, SumFacts
  <2> QED BY <1>3, <2>2, <2>3
<1>5. /\ IsFiniteSet(T) /\ f \in [T -> Int]
      /\ Exact(p.rates, z, RetentionStart(z, now), now) = SumOf(f, T)
  <2>1. IsFiniteSet(T) /\ \A t \in T : t \in Int
    BY RetentionNumbers, FS_Interval
  <2>2. \A t \in T : p.rates[CellAt(z, t)] \in Nat
    BY <1>1, <2>1, CellIsOne DEF Rates
  <2>3. f \in [T -> Int] /\ DOMAIN f = T
    BY <2>2
  <2> QED BY <2>1, <2>3 DEF Exact, SumFunction, SumOf
<1>6. SumOf(f, T) = SumOf(expected, Cell)
  <2> DEFINE class == [t \in T |-> CellAt(z, t)]
  <2>1. class \in [T -> Cell]
    BY RetentionNumbers, CellIsOne
  <2>2. SumOf(f, T) = SumOf([c \in Cell |-> SumOf(f, {t \in T : class[t] = c})], Cell)
    <3> HIDE DEF class, f, T
    <3> QED BY <1>5, <2>1, CellsAreFinite, SumByClass
  <2>3. \A c \in Cell : {t \in T : class[t] = c} = {t \in T : CellAt(z, t) = c}
    OBVIOUS
  <2>4. expected = [c \in Cell |-> SumOf(f, {t \in T : class[t] = c})]
    BY <2>3
  <2> QED BY <2>2, <2>4
<1>7. SumOf(k, H) = SumOf(used, Cell)
  <2> DEFINE class == [h \in H |-> CellOf(h)]
  <2>1. class \in [H -> Cell] /\ k \in [H -> Int]
    BY <1>3
  <2>2. SumOf(k, H) = SumOf([c \in Cell |-> SumOf(k, {h \in H : class[h] = c})], Cell)
    <3> HIDE DEF class, k, H
    <3> QED BY <1>3, <2>1, CellsAreFinite, SumByClass
  <2>3. \A c \in Cell : {h \in H : class[h] = c} = {h \in H : CellOf(h) = c}
    OBVIOUS
  <2>4. used = [c \in Cell |-> SumOf(k, {h \in H : class[h] = c})]
    BY <1>3, <2>3
  <2> QED BY <2>2, <2>4
<1>8. used \in [Cell -> Int]
  BY <1>1
<1>9. ASSUME NEW c \in Cell PROVE expected[c] = 2 * p.scale * used[c]
  <2> DEFINE all == {t \in T : CellAt(z, t) = c}
  <2>1. SumOf(f, all) = p.rates[c] * Cardinality(all)
    <3>1. all \in SUBSET T /\ \A t \in all : f[t] = p.rates[c]
      OBVIOUS
    <3>2. p.rates[c] \in Int
      BY <1>1 DEF Rates
    <3> HIDE DEF all, f, T
    <3> QED BY <1>5, <3>1, <3>2, SumConstant
  <2>2. Cardinality(all) = 2 * occ[c]
    BY TwiceAnHour DEF occ
  <2> DEFINE r == p.rates[c]
             o == occ[c]
             s == p.scale
             n == tokens(c)
  <2>3. r \in Nat /\ o \in Nat /\ s \in Nat /\ n \in Nat
    BY <1>1, <1>2 DEF Rates
  <2>4. expected[c] = r * (2 * o) /\ used[c] = n
    BY <2>1, <2>2
  <2>5. o # 0 => r * o = n * s
    BY <1>1
  <2>6. o = 0 => n = 0
    BY <1>4
  <2> HIDE DEF r, o, s, n, expected, used
  <2>7. r * (2 * o) = 2 * (r * o) /\ 2 * s * n = 2 * (n * s)
    BY <2>3
  <2>8. CASE o = 0
    <3>1. r * o = 0 /\ n * s = 0
      BY <2>3, <2>6, <2>8
    <3> QED BY <2>4, <2>7, <3>1 DEF s, n
  <2>9. CASE o # 0
    BY <2>4, <2>5, <2>7, <2>9 DEF s, n
  <2> QED BY <2>8, <2>9
<1>10. expected \in [Cell -> Int]
  <2>1. \A c \in Cell : 2 * p.scale * used[c] \in Int
    BY <1>1, <1>8
  <2> HIDE DEF used
  <2>2. \A c \in Cell : expected[c] \in Int
    BY <1>9, <2>1
  <2> QED BY <2>2
<1>11. SumOf(expected, Cell) = 2 * p.scale * SumOf(used, Cell)
  <2>1. 2 * p.scale \in Int
    BY <1>1
  <2> HIDE DEF expected, used
  <2> QED BY <1>8, <1>9, <1>10, <2>1, CellsAreFinite, SumTimes
<1>12. AddUp(rows, "tokens", H) = SumOf(k, H)
  BY <1>3
<1> HIDE DEF expected, used, f, T, k, H
<1>13. Exact(p.rates, z, RetentionStart(z, now), now) = 2 * p.scale * AddUp(rows, "tokens", H)
  BY <1>5, <1>6, <1>7, <1>11, <1>12
<1> QED BY <1>13 DEF p, H

\* Every forecast is exact, and every profile adds up: projectWindow for any window,
\* instant and history, in a zone that changes by an hour at a full hour, if at all.
THEOREM ForecastsAreExact == UsageSpec => []ForecastIsExact
<1>1. UsageInv => ForecastIsExact
  <2> SUFFICES ASSUME UsageInv, window.asked, OnTheHour(window.zone)
               PROVE  ProfileAddsUp /\ WalkIsExact
    BY DEF ForecastIsExact
  <2>1. PICK z, length, now, used, rows : Asked(window, z, length, now, used, rows)
    <3>1. window # NoWindow
      <4>1. ~NoWindow.asked
        BY Zenon DEF NoWindow
      <4> QED BY <4>1
    <3> QED BY <3>1 DEF UsageInv
  <2>2. /\ z \in Zone /\ length \in Length /\ used \in Used /\ now \in -1..(length + 1)
        /\ rows \in Histories(z, now)
        /\ window.zone = z /\ window.length = length /\ window.now = now /\ window.used = used
        /\ window.rows = rows /\ window.profile = Profile(z, now, rows)
    BY <2>1 DEF Asked
  <2>3. now \in Int /\ OnTheHour(z)
    BY <2>2, UsageReportAssumption
  <2>4. ProfileAddsUp
    BY <2>2, <2>3, AddsUp DEF ProfileAddsUp
  <2>5. WalkIsExact
    <3> SUFFICES ASSUME ~Skewed(z, 0), ~Skewed(z, Clamped(window)) PROVE WalkIsExact
      BY <2>2 DEF WalkIsExact
    <3>1. window.profile.rates \in Rates
      BY <2>2, <2>3, ProfileFacts
    <3> QED BY <2>2, <2>3, <3>1, WalkExact DEF WalkIsExact
  <2> QED BY <2>4, <2>5
<1> QED BY <1>1, UsageInvariant, PTL
=============================================================================
