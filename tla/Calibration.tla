---------------------------- MODULE Calibration -----------------------------
(***************************************************************************)
(* autocalibrate: from the samples of the observe window to a PhaseConfig. *)
(*                                                                         *)
(* Integers stand for the statistics: an average over up to n samples is   *)
(* kept times a common multiple of 1..n, a residual of the linear fit over *)
(* ten samples times 330 more, and the median of two half cycles times two.*)
(***************************************************************************)
EXTENDS Integers, Sequences, FiniteSets, SequencesExt, FiniteSetsExt

CONSTANTS
  Quantum,      \* hundredths of the signal's unit in one step of a sample
  Legs,         \* samples between two turns
  MaxTurns, MaxRests, MaxGlitches   \* bounds: turns, samples at rest per turn, samples off

SMOOTH_SPAN   == 5
SMOOTH_UNIT   == 60   \* a common multiple of 1..SMOOTH_SPAN
SIGN_DEADBAND == 1    \* hundredths
FIT_SPAN      == 10

\* The filter has forgotten the last turn.
SettledLeg == SMOOTH_SPAN + 1

\* The signals auto-calibration is for: a step is above the deadband of the smoothed
\* signal, a half cycle outlasts the filter, the longest is not of another scale than
\* the shortest, and rests and glitches are few beside the span of the filter.
ASSUME CalibrationAssumption ==
  /\ Quantum \in Nat /\ Quantum > SMOOTH_SPAN * SIGN_DEADBAND
  /\ IsFiniteSet(Legs) /\ Legs # {} /\ \A l \in Legs : l \in Nat /\ l >= SettledLeg
  /\ MaxTurns \in Nat /\ MaxRests \in Nat /\ MaxGlitches \in Nat
  /\ MaxRests + 2 * MaxGlitches <= 3
  /\ \A l, m \in Legs : m + MaxRests < 24 * l

VARIABLES
  series,       \* the state samples of the observe window
  level, heading,   \* the process: where it is, 1 or -1
  leg, rests,   \* samples since it turned, and of those before the turn at rest
  turns,        \* the samples at which it turned
  reversals, last,  \* the scan: the reversals found, the last sign
  glitches      \* samples that were a step off

calibrationVars == <<series, level, heading, leg, rests, turns, reversals, last, glitches>>

Factorial[n \in Nat] == IF n = 0 THEN 1 ELSE n * Factorial[n - 1]

Atleast(n, m) == IF n >= m THEN n ELSE m

SumOf(s, i, j) ==
  LET sum[k \in (i - 1)..j] == IF k = i - 1 THEN 0 ELSE sum[k - 1] + s[k]
  IN  sum[j]

-----------------------------------------------------------------------------
(* _half_cycle_period, scanning the samples as they come.                  *)

\* The average at one sample, times a multiple of 1..span.
AverageAt(s, span, multiple, i) ==
  LET first == Atleast(1, i - span + 1)
  IN  (multiple \div (i - first + 1)) * SumOf(s, first, i)

Smooth(s, i) == AverageAt(s, SMOOTH_SPAN, SMOOTH_UNIT, i)

\* Slipped: the samples themselves instead of their average.
Slope_raw(s) == SMOOTH_UNIT * (s[Len(s)] - s[Len(s) - 1])

Slope(s) == Smooth(s, Len(s)) - Smooth(s, Len(s) - 1)

Sign(slope) ==
  LET d == Quantum * slope  deadband == SIGN_DEADBAND * SMOOTH_UNIT
  IN  IF d > deadband THEN 1 ELSE IF d < -deadband THEN -1 ELSE 0

\* A sample is scanned: a sign that is not the last one is a reversal.
Scan(s) ==
  LET sign == Sign(Slope(s))
  IN  /\ last' = IF sign = 0 THEN last ELSE sign
      /\ reversals' = IF sign # 0 /\ last # 0 /\ sign # last THEN Append(reversals, Len(s)) ELSE reversals

\* The k-th of some numbers in their order: the least that k of them do not pass.
Ranked(spans, k) ==
  LET upto(i) == Cardinality({j \in DOMAIN spans : spans[j] <= spans[i]})
  IN  Min({spans[i] : i \in {j \in DOMAIN spans : upto(j) >= k}})

\* Twice their median.
TwiceMedian(spans) ==
  Ranked(spans, (Len(spans) + 1) \div 2) + Ranked(spans, (Len(spans) + 2) \div 2)

TwiceHalfCycle(points) == TwiceMedian([i \in 1..(Len(points) - 1) |-> points[i + 1] - points[i]])

measurable == Len(reversals) >= 2

TwicePeriod == TwiceHalfCycle(reversals)

-----------------------------------------------------------------------------
(* calibrate_phase_config of a measurable signal.                          *)

\* round(period / n): to the even neighbour when half way.
Round(twice, n) ==
  LET q == twice \div (2 * n)  r == twice % (2 * n)
  IN  IF r > n \/ (r = n /\ q % 2 = 1) THEN q + 1 ELSE q

window(twice)     == Atleast(3, Round(twice, 30))
reversal_n(twice) == Atleast(2, Round(twice, 120))

\* The residuals of _noise: sample c against the fit over c - 5 .. c + 4.
Residuals(s) ==
  [c \in 1..(Len(s) - FIT_SPAN) |->
     330 * s[c + 5] - 33 * SumOf(s, c, c + 9)
       - MapThenSumSet(LAMBDA x : (2 * x - 9) * s[c + x], 0..9)]

\* The sum of the squared deviations of the residuals (pstdev squared, times their
\* number), with their mean to the nearest integer.
Spread(r) ==
  LET mean == SumOf(r, 1, Len(r)) \div Len(r)
  IN  MapThenSumSet(LAMBDA i : (r[i] - mean) * (r[i] - mean), DOMAIN r)

\* 3 * noise_smooth < rise / run, for noise measured at the scale of the window.
AboveNoise(s, w, rise, run) ==
  LET r    == Residuals([i \in DOMAIN s |-> AverageAt(s, w, Factorial[w], i)])
      unit == (330 * Factorial[w] * rise) \div (3 * run)
  IN  Len(r) > 1 => rise > 0 /\ Spread(r) < unit * unit * Len(r)

\* 0.3 * rate < rise / run.
AboveRate(s, twice, rise, run) ==
  LET sm    == {Smooth(s, i) : i \in DOMAIN s}
      range == Max(sm) - Min(sm)
  IN  3 * 2 * range * run < 10 * SMOOTH_UNIT * rise * twice

\* slope_rising < rise / run.
AboveSlopeRising(s, rise, run) ==
  /\ AboveNoise(s, window(TwicePeriod), rise, run)
  /\ AboveRate(s, TwicePeriod, rise, run)

-----------------------------------------------------------------------------
(* The observed process (external): it fills and drains at one step a      *)
(* sample, may rest where it turns, and few samples are a step off.        *)

CalibrationInit ==
  /\ series = <<0>> /\ level = 0 /\ heading = 1
  /\ leg = 0 /\ rests = 0 /\ turns = <<>> /\ glitches = 0
  /\ reversals = <<>> /\ last = 0

Sample(l) ==
  \E off \in {-1, 0, 1} :
    /\ series' = Append(series, l + off)
    /\ Scan(series')
    /\ glitches' = glitches + (IF off = 0 THEN 0 ELSE 1)
    /\ glitches' <= MaxGlitches

Moves ==
  /\ leg < Max(Legs)
  /\ level' = level + heading /\ Sample(level')
  /\ leg' = leg + 1
  /\ UNCHANGED <<heading, rests, turns>>

Rests ==
  /\ leg \in Legs /\ rests < MaxRests
  /\ Sample(level)
  /\ rests' = rests + 1
  /\ UNCHANGED <<level, heading, leg, turns>>

Turns ==
  /\ leg \in Legs /\ Len(turns) < MaxTurns
  /\ heading' = -heading
  /\ level' = level - heading /\ Sample(level')
  /\ turns' = Append(turns, Len(series'))
  /\ leg' = 1 /\ rests' = 0

CalibrationNext == Moves \/ Rests \/ Turns

CalibrationSpec == CalibrationInit /\ [][CalibrationNext]_calibrationVars

-----------------------------------------------------------------------------
CalibrationTypeOK ==
  /\ series \in Seq(Int) /\ level \in Int /\ heading \in {-1, 1}
  /\ leg \in 0..Max(Legs) /\ rests \in 0..MaxRests /\ glitches \in 0..MaxGlitches
  /\ turns \in Seq(1..Len(series)) /\ reversals \in Seq(1..Len(series))
  /\ last \in {-1, 0, 1}

\* "Median half-cycle length in samples, and the number of reversals found": rests at
\* the turns and glitches of a step neither hide a turn of the process nor make one, the
\* period is the half cycle to one sample, and a tracker with the window and reversal_n
\* derived from it can recognise a ramp before it ends.
HalfCyclesAreMeasured ==
  leg >= SettledLeg =>
    /\ Len(reversals) = Len(turns)
    /\ measurable =>
         /\ TwicePeriod \in (TwiceHalfCycle(turns) - 2)..(TwiceHalfCycle(turns) + 2)
         /\ (window(TwicePeriod) - 1) + (reversal_n(TwicePeriod) - 1) < Min(Legs)

\* "Agnostic to protocol, cadence, and process scale": once the period was measured on
\* a clean signal, the steepest slope its window sees is above slope_rising, without
\* which the tracker can never leave STABLE.
CalibratedRampsAreSeen ==
  leg >= SettledLeg /\ glitches = 0 /\ measurable =>
    AboveSlopeRising(series, 1, 1)
=============================================================================
