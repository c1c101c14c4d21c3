---------------------------- MODULE UsageReport -----------------------------
(* The forecast of one quota window (projection.go): expected consumption is *)
(* the integral of hourly rates over the wall-clock hours of a zone, walked  *)
(* hour by hour through days that have an hour more or less.  Time is in     *)
(* half hours since some instant, and fractions are compared by products.    *)
EXTENDS UsageProfile

CONSTANTS
  Length,       \* lengths of the window
  Used          \* used_percent

ASSUME UsageReportAssumption == Length \subseteq Nat \ {0} /\ Used \subseteq Nat

VARIABLES
  window        \* the window that is projected and the instant it is projected at

usageVars == <<window>>

NoWindow == [asked |-> FALSE]

UsageInit == window = NoWindow

-----------------------------------------------------------------------------
(* projection.go *)

\* The end of the wall-clock hour, whatever becomes of a repeated one.
NextWallHour(z, t) ==
  LET next == Date(z, HourStart(Wall(z, t))) + 2 IN IF next > t THEN next ELSE t + 2

OneHourOn(z, t, end) == IF t + 2 > end THEN end ELSE t + 2                 \* (mutant)
StepEnd(z, t, end) == IF NextWallHour(z, t) > end THEN end ELSE NextWallHour(z, t)

\* integrateRates; the unit is half an hour at rate 1.
Integral(rates, z, from, to) ==
  LET walk[t \in Int] ==
        IF t >= to THEN 0
        ELSE rates[CellAt(z, t)] * (StepEnd(z, t, to) - t) + walk[StepEnd(z, t, to)]
  IN  walk[from]

NoCrossing == [found |-> FALSE]

\* projectedExhaustion: the walk goes on until `needed` more units accrue, here
\* times `used`.  The crossing is at `at` plus `part` / `per`.
Exhaustion(rates, z, from, resetAt, needed, used) ==
  LET walk[s \in Int \X Int] ==
        LET t == s[1]
            n == s[2]
            rate == rates[CellAt(z, t)]
            segment == used * rate * (StepEnd(z, t, resetAt) - t)
        IN  IF t >= resetAt THEN NoCrossing
            ELSE IF segment >= n /\ rate > 0
                 THEN [found |-> TRUE, at |-> t, part |-> n, per |-> used * rate]
                 ELSE walk[<<StepEnd(z, t, resetAt), n - segment>>]
  IN  IF needed <= 0 THEN [found |-> TRUE, at |-> from, part |-> 0, per |-> 1]
      ELSE walk[<<from, needed>>]

\* The window starts at 0 and ends at its length.
Clamped(w) == IF w.now < 0 THEN 0 ELSE IF w.now > w.length THEN w.length ELSE w.now
Uniform == [c \in Cell |-> 1]

\* A profile that expects nothing in the whole cycle gives way to the uniform one,
\* as does one with too few records.
Basis(w) ==
  IF w.profile.eligible /\ Integral(w.profile.rates, w.zone, 0, w.length) > 0
  THEN w.profile.rates ELSE Uniform

SoFar(w) == Integral(Basis(w), w.zone, 0, Clamped(w))
Total(w) == Integral(Basis(w), w.zone, 0, w.length)

\* projected > 100, that is used * total / soFar, or used when nothing was expected.
WillExhaust(w) ==
  IF SoFar(w) > 0 THEN w.used * Total(w) > 100 * SoFar(w) ELSE w.used > 100

Projection(w) ==
  [soFar |-> SoFar(w), total |-> Total(w), exhausts |-> WillExhaust(w),
   crossing |-> IF WillExhaust(w) /\ w.used > 0
                THEN Exhaustion(Basis(w), w.zone, Clamped(w), w.length,
                                SoFar(w) * (100 - w.used), w.used)
                ELSE NoCrossing]

Project ==
  /\ ~window.asked
  /\ \E z \in Zone, length \in Length, used \in Used : \E now \in -1..(length + 1) :
       \E rows \in Histories(z, now) :
         window' = [asked |-> TRUE, zone |-> z, length |-> length, now |-> now, used |-> used,
                    rows |-> rows, profile |-> Profile(z, now, rows)]

NextWindow == window.asked /\ window' = NoWindow

UsageNext == Project \/ NextWindow

UsageSpec == UsageInit /\ [][UsageNext]_usageVars

-----------------------------------------------------------------------------
(* Properties *)

\* "walking the interval's actual calendar hours": every half hour at its own rate.
Exact(rates, z, from, to) == SumFunction([t \in from..(to - 1) |-> rates[CellAt(z, t)]])

\* Zones that keep their offset or change it by an hour, at a full hour of the wall
\* clock.
OnTheHour(z) ==
  z.after = z.before \/ (z.after - z.before \in {-2, 2} /\ (z.at + z.before) % 2 = 0)

\* Where time.Date takes a repeated hour for its first occurrence, a walk that
\* starts in the middle of the second one is off by part of an hour: the forecast
\* is exact in every other case.
Skewed(z, t) == Wall(z, t) % 2 = 1 /\ Date(z, HourStart(Wall(z, t))) + 2 <= t

\* A profile read back over the days it was learned from expects what was used in
\* them, so that neither a repeated nor a skipped hour counts for more than it was:
\* "Walking real instants keeps DST days at their true 23/25 hour lengths".
ProfileAddsUp ==
  LET w == window
      start == RetentionStart(w.zone, w.now)
  IN  Wall(w.zone, w.now) % 2 = 0 =>
        Exact(w.profile.rates, w.zone, start, w.now)
          = 2 * w.profile.scale * AddUp(w.rows, "tokens", DOMAIN w.rows)

\* The forecast agrees with the integral over the hours of the zone, also across a
\* change of its offset, and a window that is to exhaust names the instant, before
\* its reset, at which consumption reaches 100 % at the expected pace.
WalkIsExact ==
  ~Skewed(window.zone, 0) /\ ~Skewed(window.zone, Clamped(window)) =>
    LET w == window
        p == Projection(w)
        expected(t) == Exact(Basis(w), w.zone, 0, t)
    IN  /\ p.soFar = expected(Clamped(w)) /\ p.total = expected(w.length)
        /\ p.exhausts /\ w.used > 0 =>
             /\ p.crossing.found
             /\ p.crossing.at * p.crossing.per + p.crossing.part <= w.length * p.crossing.per
             /\ w.used < 100 =>
                  w.used * (expected(p.crossing.at) * p.crossing.per
                              + Basis(w)[CellAt(w.zone, p.crossing.at)] * p.crossing.part)
                    = 100 * p.soFar * p.crossing.per

\* Both hold of every window that is projected, in every such zone.
ForecastIsExact == window.asked /\ OnTheHour(window.zone) => ProfileAddsUp /\ WalkIsExact
=============================================================================
