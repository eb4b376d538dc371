---------------------------- MODULE PhaseTracker ----------------------------
(***************************************************************************)
(* otlab_core.engine.phase_tracker: the phase of a process inferred from   *)
(* the samples of its state signal, by a least-squares slope over a        *)
(* sliding window and hysteresis.  Levels and slopes are integers in one   *)
(* unit, confidence is in percent (rounded down); the slope is compared    *)
(* exactly, by cross-multiplication.                                       *)
(***************************************************************************)
EXTENDS Integers, Sequences, FiniteSets, SequencesExt

CONSTANTS
  Levels,         \* values the state signal can take
  Window,         \* samples the slope is fitted to
  SlopeRising, SlopeFalling,
  ReversalN, StableN,
  ConfFullSlope, ConfHold

ASSUME ConfigAssumption ==
  /\ Levels \subseteq Int
  /\ Window \in Nat \ {0, 1}
  /\ SlopeRising \in Nat \ {0}
  /\ SlopeFalling \in Int /\ SlopeFalling < 0
  /\ ReversalN \in Nat \ {0}
  /\ StableN \in Nat \ {0}
  /\ ConfFullSlope \in Nat \ {0}
  /\ ConfHold \in 0..100

VARIABLES
  levels,         \* deque(maxlen=window)
  phase, confidence, transitioning,
  reversalDir, reversalCount, flatCount,
  runMove, runLen \* history: the current run of identical movements

counters == <<reversalDir, reversalCount, flatCount>>
vars == <<levels, phase, confidence, transitioning,
          reversalDir, reversalCount, flatCount, runMove, runLen>>

Inertia == INSTANCE PhaseInertia WITH pending <- transitioning

Directions == {"RISING", "FALLING"}
Movements  == Directions \union {"NONE"}
Phases     == Directions \union {"UNKNOWN", "STABLE"}

-----------------------------------------------------------------------------
(* The slope of y_1..y_n is 6 * SlopeSum / (n (n^2 - 1)), zero for n < 2.  *)

Pushed(l) ==
  LET longer == Append(levels, l)
  IN  IF Len(longer) > Window THEN Tail(longer) ELSE longer

SlopeSum(ys) ==
  LET sum[i \in 0..Len(ys)] ==
        IF i = 0 THEN 0 ELSE sum[i - 1] + (2 * i - Len(ys) - 1) * ys[i]
  IN  sum[Len(ys)]

SlopeScale(ys) == Len(ys) * (Len(ys) * Len(ys) - 1)

Abs(x) == IF x < 0 THEN -x ELSE x

\* Slipped: the rising threshold is exclusive.
MovementStrict(ys) ==
  CASE Len(ys) < 2 -> "NONE"
    [] Len(ys) >= 2 /\ 6 * SlopeSum(ys) > SlopeRising * SlopeScale(ys)  -> "RISING"
    [] Len(ys) >= 2 /\ 6 * SlopeSum(ys) <= SlopeFalling * SlopeScale(ys) -> "FALLING"
    [] OTHER -> "NONE"

Movement(ys) ==
  CASE Len(ys) < 2 -> "NONE"
    [] Len(ys) >= 2 /\ 6 * SlopeSum(ys) >= SlopeRising * SlopeScale(ys)  -> "RISING"
    [] Len(ys) >= 2 /\ 6 * SlopeSum(ys) <= SlopeFalling * SlopeScale(ys) -> "FALLING"
    [] OTHER -> "NONE"

\* min(abs(slope) / conf_full_slope, 1), in whole percent.
Magnitude(ys) ==
  LET unit == ConfFullSlope * SlopeScale(ys)
      size == 600 * Abs(SlopeSum(ys))
  IN  Cardinality({c \in 1..100 : Len(ys) >= 2 /\ c * unit <= size})

-----------------------------------------------------------------------------
Init ==
  /\ levels = <<>>
  /\ phase = "UNKNOWN"
  /\ confidence = 0
  /\ transitioning = FALSE
  /\ reversalDir = "NONE"
  /\ reversalCount = 0
  /\ flatCount = 0
  /\ runMove = "NONE"
  /\ runLen = 0

Set(p, c, t) == phase' = p /\ confidence' = c /\ transitioning' = t

ForgetReversal == reversalDir' = "NONE" /\ reversalCount' = 0

Opposes(move) == phase \in Directions /\ move # phase

\* Slipped: a reversal waits for one sample more.
ReversingLate(move, mag) ==
  LET count == IF reversalDir = move THEN reversalCount + 1 ELSE 1
  IN  /\ Opposes(move) /\ flatCount' = 0
      /\ \/ /\ count <= ReversalN /\ Set(phase, (mag * count) \div (2 * ReversalN), TRUE)
            /\ reversalDir' = move /\ reversalCount' = count
         \/ count > ReversalN /\ Set(move, mag, FALSE) /\ ForgetReversal

\* Slipped: a pending reversal is not marked transitioning.
ReversingQuietly(move, mag) ==
  LET count == IF reversalDir = move THEN reversalCount + 1 ELSE 1
  IN  /\ Opposes(move) /\ flatCount' = 0
      /\ \/ /\ count < ReversalN /\ Set(phase, (mag * count) \div (2 * ReversalN), FALSE)
            /\ reversalDir' = move /\ reversalCount' = count
         \/ count >= ReversalN /\ Set(move, mag, FALSE) /\ ForgetReversal

\* A movement against the phase: the phase is held until ReversalN of them.
Reversing(move, mag) ==
  LET count == IF reversalDir = move THEN reversalCount + 1 ELSE 1
  IN  /\ Opposes(move)
      /\ flatCount' = 0
      /\ \/ /\ count < ReversalN
            /\ Set(phase, (mag * count) \div (2 * ReversalN), TRUE)
            /\ reversalDir' = move
            /\ reversalCount' = count
         \/ /\ count >= ReversalN
            /\ Set(move, mag, FALSE)
            /\ ForgetReversal

\* A movement with the phase, or the first out of UNKNOWN or STABLE.
Following(move, mag) ==
  /\ ~Opposes(move)
  /\ flatCount' = 0
  /\ Set(move, mag, FALSE)
  /\ ForgetReversal

\* Slipped: a flat sample leaves a pending reversal standing.
FlatKeepsReversal ==
  LET count == IF flatCount < StableN THEN flatCount + 1 ELSE StableN
  IN  /\ UNCHANGED <<reversalDir, reversalCount>> /\ flatCount' = count
      /\ \/ phase = "STABLE" \/ count >= StableN
         \/ phase \in Directions /\ count < StableN /\ Set(phase, ConfHold, FALSE)
         \/ phase = "UNKNOWN" /\ count < StableN /\ Set("UNKNOWN", 40, TRUE)
      /\ phase = "STABLE" \/ count >= StableN => Set("STABLE", 100, FALSE)

\* No movement.  flat_count is only ever compared with stable_n: it is capped there.
Flat ==
  LET count == IF flatCount < StableN THEN flatCount + 1 ELSE StableN
  IN  /\ ForgetReversal
      /\ flatCount' = count
      /\ \/ phase = "STABLE"  /\ Set("STABLE", 100, FALSE)
         \/ phase # "STABLE"  /\ count >= StableN /\ Set("STABLE", 100, FALSE)
         \/ phase \in Directions /\ count < StableN /\ Set(phase, ConfHold, FALSE)
         \/ phase = "UNKNOWN" /\ count < StableN /\ Set("UNKNOWN", 40, TRUE)

RecordRun(move) == runMove' = move /\ runLen' = Inertia!ExtendedRun(move)

update(l) ==
  LET seen == Pushed(l)
      move == Movement(seen)
  IN  /\ levels' = seen
      /\ RecordRun(move)
      /\ \/ move # "NONE" /\ Reversing(move, Magnitude(seen))
         \/ move # "NONE" /\ Following(move, Magnitude(seen))
         \/ move = "NONE" /\ Flat

Next == \E l \in Levels : update(l)

Spec == Init /\ [][Next]_vars

-----------------------------------------------------------------------------
\* The types of the attributes of PhaseTracker: its counters stay within the runs
\* that change or settle the phase, and its confidence is a percentage.
TypeOK ==
  /\ levels \in Seq(Levels) /\ Len(levels) <= Window
  /\ phase \in Phases
  /\ confidence \in 0..100
  /\ transitioning \in BOOLEAN
  /\ reversalDir \in Movements
  /\ reversalCount \in 0..(ReversalN - 1)
  /\ flatCount \in 0..StableN
  /\ runMove \in Movements
  /\ runLen \in 0..Inertia!RunCap

\* The three counters of the code carry no more than the length of the current
\* run: whatever the resets in the seven branches of update did, they say the
\* same as the run does.
CountersFollowRun ==
  /\ runMove = "NONE" =>
       /\ reversalDir = "NONE" /\ reversalCount = 0
       /\ flatCount = (IF runLen < StableN THEN runLen ELSE StableN)
  /\ runMove # "NONE" => flatCount = 0 /\ runLen > 0
  /\ reversalCount > 0 =>
       reversalDir = runMove /\ runLen = reversalCount /\ Inertia!Against(phase, runMove)
  /\ reversalCount = 0 => reversalDir = "NONE" /\ ~Inertia!Against(phase, runMove)

\* While the phase is unsettled (a reversal is pending, or no phase was ever
\* established) its confidence stays under the 0.6 that GrammarLearner and
\* evaluate ask for, so neither gate depends on the other one.
UnsettledIsNotConfident == transitioning => confidence <= 50

\* A phase that is not marked transitioning is never the opposite of what the
\* signal is doing: no write is judged against RISING on a falling sample.
NeverAgainstTheMovement == ~transitioning => ~Inertia!Against(phase, runMove)

\* What learning and judging are gated by is consistent with the signal (GrammarLearner,
\* evaluate): a phase that passes either gate is not the opposite of the movement.
GatesAreSound == UnsettledIsNotConfident /\ NeverAgainstTheMovement

\* The counters, resets and early outcomes of update implement phase inertia.
ImplementsInertia == Inertia!Spec
=============================================================================
