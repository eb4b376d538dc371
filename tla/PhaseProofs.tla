---------------------------- MODULE PhaseProofs -----------------------------
(***************************************************************************)
(* Proofs about the phase tracker alone, about the hold resampler that     *)
(* feeds it and about the calibration that configures it: its types, its   *)
(* judgements and its refinement of the phase inertia; how soon it sees    *)
(* what a signal does; that the resampler gives it the samples to see a    *)
(* hold by; and that the half cycle is measured.  For any window,          *)
(* thresholds, hysteresis counts, levels, cadence, margin, times of the    *)
(* ticks, quantum and legs.                                                *)
(***************************************************************************)
EXTENDS MCSiloAnalysis, LearnWindowProofs, WellFoundedInduction

-----------------------------------------------------------------------------
(* The phase tracker.                                                      *)

\* The magnitude of any slope is a percentage.
LEMMA MagnitudeType == ASSUME NEW ys PROVE Magnitude(ys) \in 0..100
<1> DEFINE unit == ConfFullSlope * SlopeScale(ys)
           size == 600 * Abs(SlopeSum(ys))
           reached == {c \in 1..100 : Len(ys) >= 2 /\ c * unit <= size}
<1>1. IsFiniteSet(1..100) /\ Cardinality(1..100) = 100
  <2>1. 1 \in Int /\ 100 \in Int
    OBVIOUS
  <2>2. IsFiniteSet(1..100) /\ Cardinality(1..100) = IF 1 > 100 THEN 0 ELSE 100 - 1 + 1
    BY <2>1, FS_Interval, Zenon
  <2>3. QED
    BY <2>2
<1>2. reached \subseteq 1..100
  OBVIOUS
<1> HIDE DEF reached
<1>3. Cardinality(reached) \in Nat /\ Cardinality(reached) <= 100
  <2>1. IsFiniteSet(reached) /\ Cardinality(reached) <= Cardinality(1..100)
    BY <1>1, <1>2, FS_Subset, Zenon
  <2>2. Cardinality(reached) \in Nat
    BY <2>1, FS_CardinalityType, Zenon
  <2>3. QED
    BY <1>1, <2>1, <2>2
<1>4. Magnitude(ys) = Cardinality(reached)
  BY DEF Magnitude, reached
<1>5. QED
  BY <1>3, <1>4

\* The confidence of a pending reversal is at most a half.
LEMMA PendingConfidence ==
  ASSUME NEW mag \in 0..100, NEW count \in 1..(ReversalN - 1)
  PROVE  (mag * count) \div (2 * ReversalN) \in 0..50
<1>1. ReversalN \in Nat \ {0}
  BY ConfigAssumption
<1>2. mag * count <= 100 * ReversalN
  BY <1>1
<1>3. mag * count \in Nat
  BY <1>1
<1>4. QED
  BY <1>1, <1>2, <1>3

\* The window holds levels, and never more than Window of them.
LEMMA PushedType ==
  ASSUME NEW l \in Levels, levels \in Seq(Levels), Len(levels) <= Window
  PROVE  Pushed(l) \in Seq(Levels) /\ Len(Pushed(l)) <= Window
<1>1. Window \in Nat \ {0, 1}
  BY ConfigAssumption
<1>2. Append(levels, l) \in Seq(Levels) /\ Len(Append(levels, l)) = Len(levels) + 1
  OBVIOUS
<1>3. CASE Len(Append(levels, l)) > Window
  BY <1>1, <1>2, <1>3 DEF Pushed
<1>4. CASE ~(Len(Append(levels, l)) > Window)
  BY <1>1, <1>2, <1>4 DEF Pushed
<1>5. QED
  BY <1>3, <1>4

\* The slope of a window is one of the three movements.
LEMMA MovementType == ASSUME NEW ys PROVE Movement(ys) \in Movements
BY DEF Movement, Movements, Directions

-----------------------------------------------------------------------------
\* The inductive invariant: the counters agree with the run of movements, and
\* the two safety properties, which need the agreement.
IInv ==
  /\ TypeOK
  /\ CountersFollowRun
  /\ UnsettledIsNotConfident
  /\ NeverAgainstTheMovement
  /\ transitioning => phase = "UNKNOWN" \/ Inertia!Against(phase, runMove)

\* The invariant holds before the first sample.
LEMMA InitIInv == Init => IInv
<1> SUFFICES ASSUME Init PROVE IInv
  OBVIOUS
<1> USE DEF Init
<1>1. TypeOK
  <2>1. levels \in Seq(Levels) /\ Len(levels) <= Window
    BY ConfigAssumption
  <2>2. phase \in Phases /\ reversalDir \in Movements /\ runMove \in Movements
    BY DEF Movements, Directions, Phases
  <2>3. reversalCount \in 0..(ReversalN - 1)
    BY ConfigAssumption
  <2>4. flatCount \in 0..StableN /\ runLen \in 0..Inertia!RunCap
    BY ConfigAssumption DEF Inertia!RunCap
  <2>5. confidence \in 0..100
    OBVIOUS
  <2>6. transitioning \in BOOLEAN
    BY Zenon
  <2>7. QED
    BY <2>1, <2>2, <2>3, <2>4, <2>5, <2>6, Zenon DEF TypeOK
<1>2. CountersFollowRun
  BY ConfigAssumption DEF CountersFollowRun, Inertia!Against, Inertia!Directions
<1>3. UnsettledIsNotConfident /\ NeverAgainstTheMovement
  BY DEF UnsettledIsNotConfident, NeverAgainstTheMovement, Inertia!Against, Inertia!Directions
<1>4. transitioning => phase = "UNKNOWN" \/ Inertia!Against(phase, runMove)
  OBVIOUS
<1>5. QED
  BY <1>1, <1>2, <1>3, <1>4 DEF IInv

\* One sample, given what it did to the window: its movement and magnitude.
LEMMA MoveIInv ==
  ASSUME IInv, NEW move \in Movements, NEW mag \in 0..100,
         levels' \in Seq(Levels), Len(levels') <= Window,
         RecordRun(move),
         \/ move # "NONE" /\ Reversing(move, mag)
         \/ move # "NONE" /\ Following(move, mag)
         \/ move = "NONE" /\ Flat
  PROVE  IInv'
<1> USE ConfigAssumption DEF Movements, Directions, Phases, Inertia!RunCap, Inertia!Directions
<1>1. runMove' \in Movements /\ runLen' \in 1..Inertia!RunCap
  BY DEF IInv, TypeOK, RecordRun, Inertia!ExtendedRun
<1>2. ASSUME NEW count \in 1..(ReversalN - 1), move # "NONE", Opposes(move),
             flatCount' = 0, phase' = phase, reversalDir' = move, reversalCount' = count,
             count = (IF reversalDir = move THEN reversalCount + 1 ELSE 1),
             confidence' = (mag * count) \div (2 * ReversalN),
             transitioning' = TRUE
      PROVE  IInv'
  <2>1. confidence' \in 0..50
    BY <1>2, PendingConfidence
  <2>2. phase' \in Phases /\ reversalDir' \in Movements
    BY <1>2 DEF IInv, TypeOK
  <2>3. reversalCount' \in 0..(ReversalN - 1) /\ flatCount' \in 0..StableN
    BY <1>2
  <2>4. transitioning' \in BOOLEAN
    BY <1>2, Zenon
  <2>5. confidence' \in 0..100 /\ confidence' <= 50
    BY <2>1
  <2>6. TypeOK'
    BY <1>1, <2>2, <2>3, <2>4, <2>5 DEF TypeOK
  <2>7. CountersFollowRun'
    BY <1>1, <1>2 DEF IInv, TypeOK, CountersFollowRun, Inertia!Against, Opposes, RecordRun, Inertia!ExtendedRun
  <2>8. Inertia!Against(phase, runMove)'
    BY <1>2 DEF Opposes, Inertia!Against, RecordRun
  <2>9. QED
    BY <2>5, <2>6, <2>7, <2>8, <1>2, Zenon DEF IInv, UnsettledIsNotConfident, NeverAgainstTheMovement
<1>3. ASSUME move # "NONE", flatCount' = 0, phase' = move, ForgetReversal,
             confidence' = mag, transitioning' = FALSE
      PROVE  IInv'
  <2>1. /\ confidence' \in 0..100 /\ phase' \in Phases /\ reversalDir' \in Movements
        /\ reversalCount' \in 0..(ReversalN - 1) /\ flatCount' \in 0..StableN
    BY <1>3 DEF ForgetReversal
  <2>2. transitioning' \in BOOLEAN
    BY <1>3, Zenon
  <2>3. TypeOK'
    BY <1>1, <2>1, <2>2 DEF TypeOK
  <2>4. ~Inertia!Against(phase, runMove)'
    BY <1>3 DEF Inertia!Against, RecordRun
  <2>5. CountersFollowRun'
    BY <1>1, <1>3, <2>4 DEF CountersFollowRun, ForgetReversal, RecordRun
  <2>6. QED
    BY <2>3, <2>4, <2>5, <1>3, Zenon DEF IInv, UnsettledIsNotConfident, NeverAgainstTheMovement
<1>4. ASSUME move = "NONE", ForgetReversal, phase' \in Phases, confidence' \in 0..100,
             flatCount' = (IF flatCount < StableN THEN flatCount + 1 ELSE StableN),
             \/ transitioning' = FALSE
             \/ transitioning' = TRUE /\ phase' = "UNKNOWN" /\ confidence' = 40
      PROVE  IInv'
  <2>1. reversalDir' \in Movements /\ reversalCount' \in 0..(ReversalN - 1) /\ flatCount' \in 0..StableN
    BY <1>4 DEF ForgetReversal, IInv, TypeOK
  <2>2. transitioning' \in BOOLEAN
    BY <1>4, Zenon
  <2>3. TypeOK'
    BY <1>1, <1>4, <2>1, <2>2 DEF TypeOK
  <2>4. ~Inertia!Against(phase, runMove)'
    BY <1>4 DEF Inertia!Against, RecordRun
  <2>5. CountersFollowRun'
    BY <1>1, <1>4, <2>4 DEF IInv, TypeOK, CountersFollowRun, ForgetReversal, RecordRun, Inertia!ExtendedRun
  <2>6. confidence' = 40 => confidence' <= 50
    OBVIOUS
  <2>7. QED
    BY <2>3, <2>4, <2>5, <2>6, <1>4, Zenon DEF IInv, UnsettledIsNotConfident, NeverAgainstTheMovement
<1>5. CASE move # "NONE" /\ Reversing(move, mag)
  <2> DEFINE count == IF reversalDir = move THEN reversalCount + 1 ELSE 1
  <2>1. count \in 1..ReversalN
    BY DEF IInv, TypeOK
  <2>2. CASE count < ReversalN
    <3>1. count \in 1..(ReversalN - 1)
      BY <2>1, <2>2
    <3>2. count = (IF reversalDir = move THEN reversalCount + 1 ELSE 1)
      OBVIOUS
    <3>3. /\ Opposes(move) /\ flatCount' = 0
          /\ Set(phase, (mag * count) \div (2 * ReversalN), TRUE)
          /\ reversalDir' = move /\ reversalCount' = count
      <4>1. ~(count >= ReversalN)
        BY <2>1, <2>2
      <4>2. QED
        BY <1>5, <4>1, Zenon DEF Reversing
    <3>4. /\ phase' = phase /\ confidence' = (mag * count) \div (2 * ReversalN)
          /\ transitioning' = TRUE
      BY <3>3, Zenon DEF Set
    <3> HIDE DEF count
    <3>5. QED
      BY <1>2, <1>5, <3>1, <3>2, <3>3, <3>4, Zenon
  <2>3. CASE ~(count < ReversalN)
    BY <1>3, <1>5, <2>1, <2>3 DEF Reversing, Set
  <2>4. QED
    BY <2>2, <2>3
<1>6. CASE move # "NONE" /\ Following(move, mag)
  BY <1>3, <1>6 DEF Following, Set
<1>7. CASE move = "NONE" /\ Flat
  <2>1. 40 \in 0..100 /\ 100 \in 0..100 /\ ConfHold \in 0..100
    OBVIOUS
  <2>2. phase \in Phases
    BY DEF IInv, TypeOK
  <2>3. /\ ForgetReversal
        /\ flatCount' = (IF flatCount < StableN THEN flatCount + 1 ELSE StableN)
        /\ \/ Set("STABLE", 100, FALSE)
           \/ Set(phase, ConfHold, FALSE)
           \/ Set("UNKNOWN", 40, TRUE)
    BY <1>7 DEF Flat
  <2>4. /\ phase' \in Phases /\ confidence' \in 0..100
        /\ \/ transitioning' = FALSE
           \/ transitioning' = TRUE /\ phase' = "UNKNOWN" /\ confidence' = 40
    <3>1. CASE Set("STABLE", 100, FALSE)
      BY <2>1, <3>1, Zenon DEF Set
    <3>2. CASE Set(phase, ConfHold, FALSE)
      BY <2>1, <2>2, <3>2, Zenon DEF Set
    <3>3. CASE Set("UNKNOWN", 40, TRUE)
      BY <2>1, <3>3, Zenon DEF Set
    <3>4. QED
      BY <2>3, <3>1, <3>2, <3>3, Zenon
  <2>5. QED
    BY <1>4, <1>7, <2>3, <2>4, Zenon
<1>8. QED
  BY <1>5, <1>6, <1>7

\* Every sample keeps it: update is one reversing, following or flat move.
LEMMA NextIInv == IInv /\ [Next]_vars => IInv'
<1> SUFFICES ASSUME IInv, [Next]_vars PROVE IInv'
  OBVIOUS
<1>1. CASE Next
  <2>1. PICK l \in Levels : update(l)
    BY <1>1 DEF Next
  <2> DEFINE seen == Pushed(l)
             move == Movement(seen)
             mag  == Magnitude(seen)
  <2>2. /\ levels' = seen
        /\ RecordRun(move)
        /\ \/ move # "NONE" /\ Reversing(move, mag)
           \/ move # "NONE" /\ Following(move, mag)
           \/ move = "NONE" /\ Flat
    BY <2>1, Zenon DEF update
  <2>3. seen \in Seq(Levels) /\ Len(seen) <= Window
    BY PushedType DEF IInv, TypeOK
  <2>4. move \in Movements /\ mag \in 0..100
    BY MovementType, MagnitudeType
  <2>5. levels' \in Seq(Levels) /\ Len(levels') <= Window
    BY <2>2, <2>3
  <2> HIDE DEF move, mag, seen
  <2>6. QED
    BY <2>2, <2>4, <2>5, MoveIInv, Zenon
<1>2. CASE UNCHANGED vars
  BY <1>2 DEF vars, IInv, TypeOK, CountersFollowRun, UnsettledIsNotConfident,
     NeverAgainstTheMovement, Inertia!Against
<1>3. QED
  BY <1>1, <1>2

\* So it holds in every state.
LEMMA TrackerInvariant == Spec => []IInv
BY InitIInv, NextIInv, PTL DEF Spec

\* TypeOK, for every configuration of the tracker.
THEOREM TypeCorrect == Spec => []TypeOK
<1>1. IInv => TypeOK
  BY DEF IInv
<1>2. QED
  BY <1>1, TrackerInvariant, PTL

\* The two judgements a write is gated by are consistent with the signal: an
\* unsettled phase is never confident, and a phase that is not transitioning is
\* never the opposite of the current movement, for every configuration.
THEOREM JudgementsAreSound == Spec => []GatesAreSound
<1>1. IInv => GatesAreSound
  BY DEF IInv, GatesAreSound
<1>2. QED
  BY <1>1, TrackerInvariant, PTL

-----------------------------------------------------------------------------
\* A flat sample, a movement with the phase and a movement against it each take
\* the phase where the length of the run says.
LEMMA MoveInertia ==
  ASSUME IInv, NEW move \in Movements, NEW mag,
         RecordRun(move),
         \/ move # "NONE" /\ Reversing(move, mag)
         \/ move # "NONE" /\ Following(move, mag)
         \/ move = "NONE" /\ Flat
  PROVE  /\ phase' = Inertia!PhaseAfter(phase, move, Inertia!ExtendedRun(move))
         /\ transitioning' = (phase' = "UNKNOWN" \/ Inertia!Against(phase', move))
<1> DEFINE run == Inertia!ExtendedRun(move)
<1> USE ConfigAssumption DEF IInv, TypeOK, Movements, Directions, Phases, CountersFollowRun,
        Inertia!RunCap, Inertia!Against, Inertia!Directions, Inertia!ExtendedRun
<1>1. CASE move # "NONE" /\ Reversing(move, mag)
  <2> DEFINE count == IF reversalDir = move THEN reversalCount + 1 ELSE 1
  <2>1. Opposes(move)
    BY <1>1, Zenon DEF Reversing
  <2>2. count = run /\ count \in 1..ReversalN
    BY <1>1, <2>1 DEF Opposes
  <2>3. CASE count < ReversalN
    <3>1. ~(count >= ReversalN)
      BY <2>2, <2>3
    <3>2. Set(phase, (mag * count) \div (2 * ReversalN), TRUE)
      BY <1>1, <3>1, Zenon DEF Reversing
    <3>3. phase' = phase /\ transitioning' = TRUE
      BY <3>2, Zenon DEF Set
    <3>4. phase' = Inertia!PhaseAfter(phase, move, run)
      BY <1>1, <2>1, <2>2, <2>3, <3>3 DEF Opposes, Inertia!PhaseAfter
    <3>5. Inertia!Against(phase', move)
      BY <1>1, <2>1, <3>3 DEF Opposes
    <3>6. QED
      BY <3>3, <3>4, <3>5, Zenon
  <2>4. CASE ~(count < ReversalN)
    <3>1. Set(move, mag, FALSE)
      BY <1>1, <2>4, Zenon DEF Reversing
    <3>2. phase' = move /\ transitioning' = FALSE
      BY <3>1, Zenon DEF Set
    <3>3. phase' = Inertia!PhaseAfter(phase, move, run)
      BY <1>1, <2>1, <2>2, <2>4, <3>2 DEF Opposes, Inertia!PhaseAfter
    <3>4. ~(phase' = "UNKNOWN" \/ Inertia!Against(phase', move))
      BY <1>1, <3>2
    <3>5. QED
      BY <3>2, <3>3, <3>4, Zenon
  <2>5. QED
    BY <2>3, <2>4
<1>2. CASE move # "NONE" /\ Following(move, mag)
  <2>1. ~Opposes(move) /\ Set(move, mag, FALSE)
    BY <1>2, Zenon DEF Following
  <2>2. phase' = move /\ transitioning' = FALSE
    BY <2>1, Zenon DEF Set
  <2>3. phase' = Inertia!PhaseAfter(phase, move, run)
    BY <1>2, <2>1, <2>2 DEF Opposes, Inertia!PhaseAfter
  <2>4. ~(phase' = "UNKNOWN" \/ Inertia!Against(phase', move))
    BY <1>2, <2>2
  <2>5. QED
    BY <2>2, <2>3, <2>4, Zenon
<1>3. CASE move = "NONE" /\ Flat
  <2> DEFINE count == IF flatCount < StableN THEN flatCount + 1 ELSE StableN
  <2>1. count >= StableN <=> run >= StableN
    BY <1>3
  <2>2. run \in Nat /\ count \in Nat
    OBVIOUS
  <2>3. ~Inertia!Against(phase', move)
    BY <1>3
  <2>4. CASE phase = "STABLE"
    <3>1. Set("STABLE", 100, FALSE)
      BY <1>3, <2>4 DEF Flat
    <3>2. phase' = "STABLE" /\ transitioning' = FALSE
      BY <3>1, Zenon DEF Set
    <3>3. phase' = Inertia!PhaseAfter(phase, move, run)
      BY <1>3, <2>2, <2>4, <3>2 DEF Inertia!PhaseAfter
    <3>4. QED
      BY <2>3, <3>2, <3>3, Zenon
  <2>5. CASE phase # "STABLE" /\ count >= StableN
    <3>1. Set("STABLE", 100, FALSE)
      <4>1. ~(count < StableN)
        BY <2>2, <2>5
      <4>2. QED
        BY <1>3, <2>5, <4>1, Zenon DEF Flat
    <3>2. phase' = "STABLE" /\ transitioning' = FALSE
      BY <3>1, Zenon DEF Set
    <3>3. phase' = Inertia!PhaseAfter(phase, move, run)
      BY <1>3, <2>1, <2>2, <2>5, <3>2 DEF Inertia!PhaseAfter
    <3>4. QED
      BY <2>3, <3>2, <3>3, Zenon
  <2>6. CASE phase \in Directions /\ ~(count >= StableN)
    <3>1. Set(phase, ConfHold, FALSE)
      BY <1>3, <2>6 DEF Flat
    <3>2. phase' = phase /\ transitioning' = FALSE
      BY <3>1, Zenon DEF Set
    <3>3. phase' = Inertia!PhaseAfter(phase, move, run) /\ phase' # "UNKNOWN"
      BY <1>3, <2>1, <2>2, <2>6, <3>2 DEF Inertia!PhaseAfter
    <3>4. QED
      BY <2>3, <3>2, <3>3, Zenon
  <2>7. CASE phase = "UNKNOWN" /\ ~(count >= StableN)
    <3>1. Set("UNKNOWN", 40, TRUE)
      BY <1>3, <2>7 DEF Flat
    <3>2. phase' = "UNKNOWN" /\ transitioning' = TRUE
      BY <3>1, Zenon DEF Set
    <3>3. phase' = Inertia!PhaseAfter(phase, move, run)
      BY <1>3, <2>1, <2>2, <2>7, <3>2 DEF Inertia!PhaseAfter
    <3>4. QED
      BY <3>2, <3>3, Zenon
  <2>8. QED
    BY <2>4, <2>5, <2>6, <2>7
<1>4. QED
  BY <1>1, <1>2, <1>3

\* The tracker, with its window, counters and resets, implements the abstract
\* machine whose only memory is the length of the current run of movements.
THEOREM Refinement == Spec => ImplementsInertia
<1>1. Init => Inertia!Init
  BY DEF Init, Inertia!Init
<1>2. IInv /\ [Next]_vars => [Inertia!Next]_Inertia!vars
  <2> SUFFICES ASSUME IInv, [Next]_vars PROVE [Inertia!Next]_Inertia!vars
    OBVIOUS
  <2>1. CASE Next
    <3>1. PICK l \in Levels : update(l)
      BY <2>1 DEF Next
    <3> DEFINE move == Movement(Pushed(l))
               mag  == Magnitude(Pushed(l))
    <3>2. /\ RecordRun(move)
          /\ \/ move # "NONE" /\ Reversing(move, mag)
             \/ move # "NONE" /\ Following(move, mag)
             \/ move = "NONE" /\ Flat
      BY <3>1, Zenon DEF update
    <3>3. move \in Movements
      BY MovementType
    <3> HIDE DEF move, mag
    <3>4. /\ phase' = Inertia!PhaseAfter(phase, move, Inertia!ExtendedRun(move))
          /\ transitioning' = (phase' = "UNKNOWN" \/ Inertia!Against(phase', move))
      BY <3>2, <3>3, MoveInertia, Zenon
    <3>5. Inertia!Observe(move)
      BY <3>2, <3>4, Zenon DEF Inertia!Observe, RecordRun
    <3>6. move \in Inertia!Movements
      BY <3>3 DEF Movements, Directions, Inertia!Movements, Inertia!Directions
    <3>7. QED
      BY <3>5, <3>6, Zenon DEF Inertia!Next
  <2>2. CASE UNCHANGED vars
    BY <2>2, Zenon DEF vars, Inertia!vars
  <2>3. QED
    BY <2>1, <2>2
<1>3. QED
  BY <1>1, <1>2, TrackerInvariant, PTL DEF Spec, ImplementsInertia, Inertia!Spec

-----------------------------------------------------------------------------
(* Induction over the positions of a window.                               *)

Below == {ss \in Nat \X Nat : ss[1] < ss[2]}

\* A set with zero that contains the successors of its members is all of Nat.
LEMMA NaturalsByInduction ==
  ASSUME NEW T, 0 \in T, \A k \in Nat : k \in T => k + 1 \in T
  PROVE  Nat \subseteq T
<1> SUFFICES ASSUME Nat \ T # {} PROVE FALSE
  BY Zenon
<1>1. IsWellFoundedOn(Below, Nat)
  BY NatLessThanWellFounded, Zenon DEF OpToRel, Below
<1>2. \E m \in Nat \ T : \A k \in Nat \ T : ~(<<k, m>> \in Below)
  BY <1>1, WFMin, Zenon
<1>3. PICK m \in Nat \ T : \A k \in Nat \ T : ~(<<k, m>> \in Below)
  BY <1>2
<1>4. m - 1 \in Nat /\ m - 1 < m /\ (m - 1) + 1 = m
  BY <1>3, SMT
<1>5. <<m - 1, m>> \in Below
  BY <1>3, <1>4, SMT DEF Below
<1>6. m - 1 \in T
  BY <1>3, <1>4, <1>5, Zenon
<1> QED
  BY <1>3, <1>4, <1>6, SMT

-----------------------------------------------------------------------------
(* The slope.                                                              *)

\* The weight of position i in a window of n.
Weight(n, i) == 2 * i - n - 1

\* s holds the sums of the first so many terms of the slope.
SumsOf(s, ys) ==
  /\ s \in [0..Len(ys) -> Int] /\ s[0] = 0
  /\ \A i \in 1..Len(ys) : s[i] = s[i - 1] + Weight(Len(ys), i) * ys[i]

\* The sums a recursive definition asks for exist, term by term.
LEMMA SumsExist ==
  ASSUME NEW n \in Nat, NEW term \in [1..n -> Int]
  PROVE  \E f : f = [i \in 0..n |-> IF i = 0 THEN 0 ELSE f[i - 1] + term[i]]
<1> DEFINE Has(m) == \E f : f = [i \in 0..m |-> IF i = 0 THEN 0 ELSE f[i - 1] + term[i]]
           T == {m \in Nat : m <= n => Has(m)}
<1>1. Has(0)
  <2> DEFINE f == [i \in 0..0 |-> 0]
  <2>1. f = [i \in 0..0 |-> IF i = 0 THEN 0 ELSE f[i - 1] + term[i]]
    OBVIOUS
  <2> QED
    BY <2>1
<1>2. ASSUME NEW m \in Nat, m \in T, m + 1 <= n PROVE Has(m + 1)
  <2>1. PICK f : f = [i \in 0..m |-> IF i = 0 THEN 0 ELSE f[i - 1] + term[i]]
    BY <1>2
  <2> DEFINE g == [i \in 0..(m + 1) |-> IF i = m + 1 THEN f[m] + term[i] ELSE f[i]]
  <2>2. ASSUME NEW i \in 0..(m + 1)
        PROVE  g[i] = IF i = 0 THEN 0 ELSE g[i - 1] + term[i]
    <3>1. CASE i = m + 1
      BY <3>1
    <3>2. CASE i = 0
      BY <2>1, <3>2
    <3>3. CASE i \in 1..m
      BY <2>1, <3>3
    <3> QED
      BY <3>1, <3>2, <3>3
  <2> HIDE DEF g
  <2>3. g = [i \in 0..(m + 1) |-> g[i]]
    BY DEF g
  <2>4. g = [i \in 0..(m + 1) |-> IF i = 0 THEN 0 ELSE g[i - 1] + term[i]]
    BY <2>2, <2>3
  <2> QED
    BY <2>4
<1> HIDE DEF Has
<1>3. 0 \in T /\ \A m \in Nat : m \in T => m + 1 \in T
  BY <1>1, <1>2
<1>4. n \in T
  BY <1>3, NaturalsByInduction
<1> QED
  BY <1>4 DEF Has

\* SlopeSum is the last of these sums.
LEMMA SlopeIsASum ==
  ASSUME NEW ys \in Seq(Int)
  PROVE  \E s : SumsOf(s, ys) /\ SlopeSum(ys) = s[Len(ys)]
<1> DEFINE n == Len(ys)
           term == [i \in 1..n |-> Weight(n, i) * ys[i]]
           Sums(f) == f = [i \in 0..n |-> IF i = 0 THEN 0 ELSE f[i - 1] + (2 * i - n - 1) * ys[i]]
           sum == CHOOSE f : Sums(f)
<1>1. n \in Nat /\ \A i \in 1..n : ys[i] \in Int
  OBVIOUS
<1>2. term \in [1..n -> Int]
  <2>1. ASSUME NEW i \in 1..n PROVE Weight(n, i) * ys[i] \in Int
    <3>1. Weight(n, i) \in Int /\ ys[i] \in Int
      BY <1>1 DEF Weight
    <3> QED
      BY <3>1
  <2> QED
    BY <2>1
<1>3. \E f : f = [i \in 0..n |-> IF i = 0 THEN 0 ELSE f[i - 1] + term[i]]
  BY <1>1, <1>2, SumsExist
<1>4. PICK f : f = [i \in 0..n |-> IF i = 0 THEN 0 ELSE f[i - 1] + term[i]]
  BY <1>3
<1>5. Sums(f)
  <2>1. ASSUME NEW i \in 0..n, i # 0 PROVE term[i] = (2 * i - n - 1) * ys[i]
    BY <1>1, <2>1, SMT DEF Weight
  <2> HIDE DEF term
  <2> QED
    BY <1>4, <2>1
<1>6. sum = [i \in 0..n |-> IF i = 0 THEN 0 ELSE sum[i - 1] + (2 * i - n - 1) * ys[i]]
  <2> HIDE DEF Sums
  <2>1. Sums(sum)
    BY <1>5, Zenon
  <2> HIDE DEF sum
  <2> QED
    BY <2>1, Zenon DEF Sums
<1>7. SlopeSum(ys) = sum[n]
  BY DEF SlopeSum
<1> HIDE DEF sum, term
<1>8. sum[0] = 0 /\ \A i \in 1..n : sum[i] = sum[i - 1] + Weight(n, i) * ys[i]
  <2>1. \A i \in 0..n : sum[i] = IF i = 0 THEN 0 ELSE sum[i - 1] + (2 * i - n - 1) * ys[i]
    <3> HIDE DEF n, Sums
    <3> QED
      BY <1>6, Zenon
  <2>2. 0 \in 0..n /\ \A i \in 1..n : i \in 0..n /\ i # 0
    BY <1>1
  <2> HIDE DEF n, Sums
  <2> QED
    BY <2>1, <2>2, Zenon DEF Weight
<1>9. \A i \in 0..n : sum[i] \in Int
  <2> DEFINE T == {m \in Nat : m <= n => sum[m] \in Int}
  <2>1. 0 \in T
    BY <1>8
  <2>2. ASSUME NEW m \in Nat, m \in T PROVE m + 1 \in T
    <3>1. CASE m + 1 <= n
      <4>1. m + 1 \in 1..n /\ sum[m] \in Int /\ (m + 1) - 1 = m
        BY <1>1, <2>2, <3>1
      <4>2. sum[m + 1] = sum[m] + Weight(n, m + 1) * ys[m + 1]
        BY <1>8, <4>1
      <4>3. Weight(n, m + 1) \in Int /\ ys[m + 1] \in Int
        BY <1>1, <4>1 DEF Weight
      <4> QED
        BY <4>1, <4>2, <4>3
    <3>2. CASE ~(m + 1 <= n)
      BY <3>2
    <3> QED
      BY <3>1, <3>2
  <2>3. Nat \subseteq T
    BY <2>1, <2>2, NaturalsByInduction
  <2> QED
    BY <1>1, <2>3
<1>10. sum \in [0..n -> Int]
  BY <1>6, <1>9
<1> QED
  BY <1>7, <1>8, <1>10 DEF SumsOf

\* Up to position k the weights add up to k (k - n): to nothing over a whole window.
LEMMA WeightsAddUp ==
  ASSUME NEW n \in Int, NEW k \in Int
  PROVE  k * (k - n) + Weight(n, k + 1) = (k + 1) * ((k + 1) - n)
<1>1. k * (k - n) = k * k - k * n
  OBVIOUS
<1>2. (k + 1) * ((k + 1) - n) = k * k + 2 * k + 1 - k * n - n
  OBVIOUS
<1> QED
  BY <1>1, <1>2 DEF Weight

\* A window of one level has no slope.
LEMMA NoSlope ==
  ASSUME NEW ys \in Seq(Int), NEW c \in Int, \A i \in 1..Len(ys) : ys[i] = c
  PROVE  SlopeSum(ys) = 0
<1> DEFINE n == Len(ys)
<1>1. n \in Nat
  OBVIOUS
<1>2. PICK s : SumsOf(s, ys) /\ SlopeSum(ys) = s[n]
  BY SlopeIsASum
<1> DEFINE Sum(k) == (k * (k - n)) * c
           T == {k \in Nat : k <= n => s[k] = Sum(k)}
<1> HIDE DEF n
<1>3. 0 \in T
  BY <1>1, <1>2 DEF SumsOf
<1>4. ASSUME NEW k \in Nat, k \in T PROVE k + 1 \in T
  <2>1. CASE k + 1 <= n
    <3>1. k + 1 \in 1..n /\ (k + 1) - 1 = k /\ k <= n
      BY <1>1, <2>1
    <3>2. s[k + 1] = s[k] + Weight(n, k + 1) * c
      BY <1>2, <3>1 DEF SumsOf, n
    <3>3. s[k] = Sum(k)
      BY <1>4, <3>1
    <3> DEFINE a == k * (k - n)
               w == Weight(n, k + 1)
    <3>4. a \in Int /\ w \in Int
      BY <1>1 DEF Weight
    <3>5. a + w = (k + 1) * ((k + 1) - n)
      BY <1>1, WeightsAddUp
    <3> HIDE DEF a, w
    <3>6. a * c + w * c = (a + w) * c
      BY <3>4
    <3>7. s[k + 1] = (a + w) * c
      BY <3>2, <3>3, <3>6 DEF a, w
    <3>8. s[k + 1] = Sum(k + 1)
      BY <3>5, <3>7, Zenon
    <3> HIDE DEF Sum
    <3> QED
      BY <3>8
  <2>2. CASE ~(k + 1 <= n)
    BY <2>2
  <2> QED
    BY <2>1, <2>2
<1>5. s[n] = Sum(n)
  <2>1. Nat \subseteq T
    <3> HIDE DEF T
    <3> QED
      BY <1>3, <1>4, NaturalsByInduction
  <2> HIDE DEF Sum
  <2> QED
    BY <1>1, <2>1
<1>6. n - n = 0 /\ n * 0 = 0 /\ 0 * c = 0
  BY <1>1
<1>7. Sum(n) = 0
  BY <1>6
<1> QED
  BY <1>2, <1>5, <1>7

\* What the first k positions of a line that climbs by r add to six times its slope.
Line(r, n, k) == r * ((k + 1) * (k * (4 * k - 3 * n - 1)))

\* The weighted sum of a straight line, one level longer (times 6).
LEMMA LinesAddUp ==
  ASSUME NEW n \in Int, NEW k \in Int, NEW r \in Int
  PROVE  Line(r, n, k) + 6 * (Weight(n, k + 1) * (r * (k + 1))) = Line(r, n, k + 1)
<1>1. k * (4 * k - 3 * n - 1) + 6 * Weight(n, k + 1) = (k + 2) * (4 * (k + 1) - 3 * n - 1)
  <2>1. k * (4 * k - 3 * n - 1) = 4 * (k * k) - 3 * (k * n) - k
    OBVIOUS
  <2>2. (k + 2) * (4 * (k + 1) - 3 * n - 1) = 4 * (k * k) + 11 * k - 3 * (k * n) - 6 * n + 6
    OBVIOUS
  <2> QED
    BY <2>1, <2>2 DEF Weight
<1> DEFINE a == k * (4 * k - 3 * n - 1)
           w == Weight(n, k + 1)
           b == (k + 2) * (4 * (k + 1) - 3 * n - 1)
           u == k + 1
<1>2. a \in Int /\ w \in Int /\ b \in Int /\ u \in Int /\ a + 6 * w = b
  BY <1>1 DEF Weight
<1>3. Line(r, n, k) = r * (u * a)
  BY DEF Line
<1>4. Line(r, n, k + 1) = r * (u * b)
  <2>1. k + 1 + 1 = k + 2
    OBVIOUS
  <2>2. Line(r, n, k + 1) = r * ((k + 2) * (u * (4 * (k + 1) - 3 * n - 1)))
    BY <2>1 DEF Line
  <2> QED
    BY <2>2
<1> HIDE DEF a, w, b, u
<1>5. r * (u * a) + 6 * (w * (r * u)) = r * (u * (a + 6 * w))
  BY <1>2
<1> QED
  BY <1>2, <1>3, <1>4, <1>5 DEF u, w

\* What they add at least, if the level there is y and those before were below its line.
Climbed(r, n, k, y) == 6 * ((k * (k - n)) * (y - r * k)) + Line(r, n, k)

\* One more level of a climb: what lies above the line of slope r only adds.
LEMMA ClimbAdds ==
  ASSUME NEW n \in Nat, NEW k \in Nat, k <= n, NEW r \in Int, NEW s \in Int,
         NEW y \in Int, NEW y2 \in Int, y2 - y >= r,
         6 * s >= Climbed(r, n, k, y),
         NEW s2, s2 = s + Weight(n, k + 1) * y2
  PROVE  6 * s2 >= Climbed(r, n, k + 1, y2)
<1> DEFINE a == k * (k - n)
           w == Weight(n, k + 1)
           z == y - r * k
           p == r * (k + 1)
           z2 == y2 - p
<1>1. a \in Int /\ w \in Int /\ z \in Int /\ p \in Int /\ z2 \in Int
  BY DEF Weight
<1>2. a <= 0
  OBVIOUS
<1>3. z <= z2
  <2>1. r * (k + 1) = r * k + r
    OBVIOUS
  <2> QED
    BY <2>1
<1>4. a + w = (k + 1) * ((k + 1) - n)
  BY WeightsAddUp
<1>5. Line(r, n, k) \in Int /\ Line(r, n, k + 1) = Line(r, n, k) + 6 * (w * p)
  BY LinesAddUp DEF Line
<1>6. 6 * s >= 6 * (a * z) + Line(r, n, k)
  BY DEF Climbed
<1>7. y2 = z2 + p
  BY <1>1
<1> HIDE DEF a, w, z, z2, p
<1>8. a * z >= a * z2
  BY <1>1, <1>2, <1>3
<1>9. w * y2 = w * z2 + w * p /\ (a + w) * z2 = a * z2 + w * z2
  BY <1>1, <1>7
<1>10. 6 * (s + w * y2) >= 6 * ((a + w) * z2) + Line(r, n, k + 1)
  <2> DEFINE az == a * z
             az2 == a * z2
             wz2 == w * z2
             wp == w * p
             l == Line(r, n, k)
  <2>1. az \in Int /\ az2 \in Int /\ wz2 \in Int /\ wp \in Int /\ l \in Int
    BY <1>1, <1>5
  <2>2. 6 * s >= 6 * az + l /\ az >= az2
    BY <1>6, <1>8
  <2>3. s + w * y2 = s + wz2 + wp /\ (a + w) * z2 = az2 + wz2 /\ Line(r, n, k + 1) = l + 6 * wp
    BY <1>5, <1>9, <2>1
  <2> HIDE DEF az, az2, wz2, wp, l
  <2> QED
    BY <2>1, <2>2, <2>3
<1>11. 6 * s2 >= 6 * ((a + w) * z2) + Line(r, n, k + 1)
  BY <1>10 DEF w
<1>12. Climbed(r, n, k + 1, y2) = 6 * ((a + w) * z2) + Line(r, n, k + 1)
  BY <1>4, Zenon DEF z2, p, Climbed
<1> QED
  BY <1>11, <1>12, Zenon

\* A window that climbs by r a sample has at least the slope r.
LEMMA SteepSlope ==
  ASSUME NEW ys \in Seq(Int), Len(ys) >= 1, NEW r \in Int,
         \A i \in 2..Len(ys) : ys[i] - ys[i - 1] >= r
  PROVE  6 * SlopeSum(ys) >= r * SlopeScale(ys)
<1> DEFINE n == Len(ys)
<1>1. n \in Nat /\ n >= 1
  OBVIOUS
<1>2. PICK s : SumsOf(s, ys) /\ SlopeSum(ys) = s[n]
  BY SlopeIsASum
<1>3. /\ s[0] = 0 /\ \A i \in 0..n : s[i] \in Int
      /\ \A i \in 1..n : s[i] = s[i - 1] + Weight(n, i) * ys[i]
  BY <1>2 DEF SumsOf
<1>4. /\ \A i \in 1..n : ys[i] \in Int
      /\ \A i \in 2..n : ys[i] - ys[i - 1] >= r
  OBVIOUS
<1> DEFINE T == {k \in Nat : k + 1 <= n => 6 * s[k + 1] >= Climbed(r, n, k + 1, ys[k + 1])}
<1> HIDE DEF n
<1>5. 0 \in T
  <2>1. 1 \in 1..n /\ ys[1] \in Int /\ 1 - 1 = 0
    BY <1>1, <1>4
  <2>2. s[1] = Weight(n, 1) * ys[1]
    <3>1. s[1] = s[0] + Weight(n, 1) * ys[1]
      BY <1>3, <2>1, Zenon
    <3>2. Weight(n, 1) * ys[1] \in Int
      BY <1>1, <2>1 DEF Weight
    <3> QED
      BY <1>3, <3>1, <3>2
  <2>3. 6 * 0 >= Climbed(r, n, 0, ys[1] - r)
    BY <1>1, <2>1 DEF Climbed, Line
  <2>4. /\ ys[1] - (ys[1] - r) >= r /\ ys[1] - r \in Int /\ 0 <= n /\ 0 + 1 = 1
        /\ 0 \in Nat /\ 0 \in Int
        /\ s[1] = 0 + Weight(n, 0 + 1) * ys[1]
    BY <1>1, <2>1, <2>2 DEF Weight
  <2>5. 6 * s[1] >= Climbed(r, n, 0 + 1, ys[1])
    BY <1>1, <2>1, <2>3, <2>4, ClimbAdds, Zenon
  <2> QED
    BY <2>4, <2>5
<1>6. ASSUME NEW k \in Nat, k \in T PROVE k + 1 \in T
  <2>1. CASE (k + 1) + 1 <= n
    <3> DEFINE j == k + 1
    <3>1. j \in Nat /\ j <= n /\ j \in 1..n /\ j + 1 \in 2..n /\ j + 1 \in 1..n /\ (j + 1) - 1 = j /\ j \in 0..n
      BY <1>1, <2>1
    <3>2. 6 * s[j] >= Climbed(r, n, j, ys[j])
      BY <1>6, <3>1
    <3> HIDE DEF j
    <3>3. s[j + 1] = s[j] + Weight(n, j + 1) * ys[j + 1] /\ s[j] \in Int
      BY <1>3, <3>1
    <3>4. ys[j] \in Int /\ ys[j + 1] \in Int /\ ys[j + 1] - ys[j] >= r
      BY <1>4, <3>1
    <3>5. 6 * s[j + 1] >= Climbed(r, n, j + 1, ys[j + 1])
      BY <1>1, <3>1, <3>2, <3>3, <3>4, ClimbAdds, Zenon
    <3> QED
      BY <3>5 DEF j
  <2>2. CASE ~((k + 1) + 1 <= n)
    BY <2>2
  <2> QED
    BY <2>1, <2>2
<1>7. 6 * s[n] >= Climbed(r, n, n, ys[n])
  <2>1. n - 1 \in Nat /\ (n - 1) + 1 = n
    BY <1>1
  <2>2. n - 1 \in T
    <3> HIDE DEF T
    <3> QED
      BY <1>5, <1>6, <2>1, NaturalsByInduction
  <2> QED
    BY <1>1, <2>1, <2>2
<1>8. (n * (n - n)) * (ys[n] - r * n) = 0
  BY <1>1, <1>4
<1>9. Line(r, n, n) = r * SlopeScale(ys)
  <2>1. (n + 1) * (n * (4 * n - 3 * n - 1)) = n * (n * n - 1)
    <3>1. 4 * n - 3 * n - 1 = n - 1
      BY <1>1
    <3>2. (n + 1) * (n * (n - 1)) = n * (n * n - 1)
      BY <1>1
    <3> QED
      BY <3>1, <3>2
  <2> QED
    BY <2>1 DEF Line, SlopeScale, n
<1> QED
  <2>1. Line(r, n, n) \in Int
    BY <1>1 DEF Line
  <2> QED
    BY <1>2, <1>7, <1>8, <1>9, <2>1 DEF Climbed

-----------------------------------------------------------------------------
(* The movement of a window, and the window after one more sample.         *)

\* The scale of the slope is positive as soon as there is one.
LEMMA ScaleIsPositive ==
  ASSUME NEW ys \in Seq(Int), Len(ys) >= 2
  PROVE  SlopeScale(ys) \in Nat \ {0}
<1> DEFINE n == Len(ys)
<1>1. n \in Nat /\ n >= 2
  OBVIOUS
<1> HIDE DEF n
<1>2. n * n - 1 \in Nat \ {0}
  <2>1. n * n >= n
    BY <1>1
  <2> QED
    BY <1>1, <2>1
<1> DEFINE m == n * n - 1
<1> HIDE DEF m
<1>3. m \in Nat \ {0}
  BY <1>2 DEF m
<1>4. n * m \in Nat \ {0}
  BY <1>1, <1>3
<1> QED
  BY <1>4 DEF m, n, SlopeScale

\* A window that climbs by slope_rising at every sample is RISING.
LEMMA SteepIsRising ==
  ASSUME NEW ys \in Seq(Int), Len(ys) >= 2,
         \A i \in 2..Len(ys) : ys[i] - ys[i - 1] >= SlopeRising
  PROVE  Movement(ys) = "RISING"
<1> DEFINE scale == SlopeScale(ys)
           slope == 6 * SlopeSum(ys)
<1>1. scale \in Nat \ {0}
  BY ScaleIsPositive
<1>2. slope >= SlopeRising * scale /\ slope \in Int
  <2>1. SlopeRising \in Int /\ Len(ys) >= 1
    BY ConfigAssumption
  <2>2. slope >= SlopeRising * scale
    BY <2>1, SteepSlope
  <2>3. SlopeSum(ys) \in Int
    <3>1. PICK s : SumsOf(s, ys) /\ SlopeSum(ys) = s[Len(ys)]
      BY SlopeIsASum
    <3> QED
      BY <3>1 DEF SumsOf
  <2> QED
    BY <2>2, <2>3
<1> HIDE DEF scale, slope
<1>3. SlopeRising * scale > 0 /\ SlopeFalling * scale < 0
  BY <1>1, ConfigAssumption
<1>4. ~(slope <= SlopeFalling * scale)
  <2> DEFINE a == SlopeRising * scale
             b == SlopeFalling * scale
  <2>1. a \in Int /\ b \in Int /\ a > 0 /\ b < 0 /\ slope >= a
    BY <1>1, <1>2, <1>3, ConfigAssumption
  <2> HIDE DEF a, b
  <2>2. ~(slope <= b)
    BY <1>2, <2>1
  <2> QED
    BY <2>2 DEF b
<1>5. Len(ys) >= 2 /\ ~(Len(ys) < 2)
  OBVIOUS
<1> QED
  BY <1>2, <1>4, <1>5, Zenon DEF Movement, scale, slope

\* A window that never changes does not move.
LEMMA StillIsNone ==
  ASSUME NEW ys \in Seq(Int), Len(ys) >= 2,
         \A i \in 2..Len(ys) : ys[i] - ys[i - 1] = 0
  PROVE  Movement(ys) = "NONE"
<1> DEFINE n == Len(ys)
           T == {k \in Nat : k + 1 <= n => ys[k + 1] = ys[1]}
<1>1. /\ n \in Nat /\ n >= 2
      /\ \A i \in 1..n : ys[i] \in Int
      /\ \A i \in 2..n : ys[i] - ys[i - 1] = 0
  OBVIOUS
<1> HIDE DEF n
<1>2. 0 \in T
  OBVIOUS
<1>3. ASSUME NEW k \in Nat, k \in T PROVE k + 1 \in T
  <2>1. CASE (k + 1) + 1 <= n
    <3>1. ys[k + 1] = ys[1] /\ (k + 1) + 1 \in 2..n /\ ((k + 1) + 1) - 1 = k + 1
      BY <1>1, <1>3, <2>1
    <3>2. ys[(k + 1) + 1] \in Int /\ ys[k + 1] \in Int /\ ys[(k + 1) + 1] - ys[k + 1] = 0
      BY <1>1, <3>1
    <3> QED
      BY <3>1, <3>2
  <2>2. CASE ~((k + 1) + 1 <= n)
    BY <2>2
  <2> QED
    BY <2>1, <2>2
<1>4. \A i \in 1..n : ys[i] = ys[1]
  <2>1. Nat \subseteq T
    <3> HIDE DEF T
    <3> QED
      BY <1>2, <1>3, NaturalsByInduction
  <2>2. ASSUME NEW i \in 1..n PROVE ys[i] = ys[1]
    <3>1. i - 1 \in Nat /\ (i - 1) + 1 = i /\ i <= n
      BY <1>1
    <3> QED
      BY <2>1, <3>1
  <2> QED
    BY <2>2
<1>5. SlopeSum(ys) = 0
  <2>1. ys[1] \in Int
    BY <1>1
  <2>2. \A i \in 1..Len(ys) : ys[i] = ys[1]
    BY <1>4, Zenon DEF n
  <2> QED
    BY <2>1, <2>2, NoSlope, Zenon
<1> DEFINE scale == SlopeScale(ys)
<1>6. scale \in Nat \ {0}
  BY ScaleIsPositive
<1> HIDE DEF scale
<1>7. SlopeRising * scale > 0 /\ SlopeFalling * scale < 0
  BY <1>6, ConfigAssumption
<1>8. ~(6 * SlopeSum(ys) >= SlopeRising * scale) /\ ~(6 * SlopeSum(ys) <= SlopeFalling * scale)
  <2> DEFINE a == SlopeRising * scale
             b == SlopeFalling * scale
  <2>1. a \in Int /\ b \in Int /\ a > 0 /\ b < 0
    BY <1>6, <1>7, ConfigAssumption
  <2> HIDE DEF a, b
  <2>2. ~(6 * SlopeSum(ys) >= a) /\ ~(6 * SlopeSum(ys) <= b)
    BY <1>5, <2>1
  <2> QED
    BY <2>2 DEF a, b
<1>9. Len(ys) >= 2 /\ ~(Len(ys) < 2)
  OBVIOUS
<1> QED
  BY <1>8, <1>9, Zenon DEF Movement, scale

\* The window after a sample: the levels it had, moved on by one if it was full, and
\* the sample.
LEMMA PushedShape ==
  ASSUME levels \in Seq(Levels), Len(levels) <= Window, NEW l \in Levels
  PROVE  /\ Pushed(l) \in Seq(Levels)
         /\ Len(Pushed(l)) = IF Len(levels) < Window THEN Len(levels) + 1 ELSE Window
         /\ Pushed(l)[Len(Pushed(l))] = l
         /\ \A i \in 1..(Len(Pushed(l)) - 1) :
              Pushed(l)[i] = levels[i + ((Len(levels) + 1) - Len(Pushed(l)))]
<1> DEFINE n == Len(levels)
           longer == Append(levels, l)
<1>1. n \in Nat /\ n <= Window /\ Window \in Nat \ {0, 1}
  BY ConfigAssumption
<1>2. /\ longer \in Seq(Levels) /\ Len(longer) = n + 1 /\ longer[n + 1] = l
      /\ \A i \in 1..n : longer[i] = levels[i]
  OBVIOUS
<1>3. CASE n < Window
  <2>1. ~(Len(longer) > Window)
    BY <1>1, <1>2, <1>3
  <2>2. Pushed(l) = longer
    BY <2>1 DEF Pushed
  <2>3. \A i \in 1..n : i + ((n + 1) - (n + 1)) = i
    BY <1>1
  <2> HIDE DEF n, longer
  <2>4. /\ Pushed(l) \in Seq(Levels) /\ Len(Pushed(l)) = n + 1 /\ Pushed(l)[n + 1] = l
        /\ \A i \in 1..((n + 1) - 1) : Pushed(l)[i] = levels[i + ((n + 1) - (n + 1))]
    BY <1>1, <1>2, <2>2, <2>3
  <2> QED
    BY <1>3, <2>4, Zenon DEF n
<1>4. CASE ~(n < Window)
  <2>1. n = Window /\ Len(longer) > Window
    BY <1>1, <1>2, <1>4
  <2>2. Pushed(l) = Tail(longer)
    BY <2>1 DEF Pushed
  <2>3. /\ Tail(longer) \in Seq(Levels) /\ Len(Tail(longer)) = n
        /\ \A i \in 1..n : Tail(longer)[i] = longer[i + 1]
    BY <1>1, <1>2
  <2> HIDE DEF longer
  <2>4. Tail(longer)[n] = l
    BY <1>1, <1>2, <2>1, <2>3
  <2>5. \A i \in 1..(n - 1) : Tail(longer)[i] = levels[i + ((n + 1) - n)]
    <3>1. \A i \in 1..(n - 1) : i \in 1..n /\ i + 1 \in 1..n /\ i + ((n + 1) - n) = i + 1
      BY <1>1
    <3> HIDE DEF n
    <3> QED
      BY <1>2, <2>3, <3>1
  <2> QED
    BY <1>1, <1>4, <2>1, <2>2, <2>3, <2>4, <2>5
<1> QED
  BY <1>3, <1>4

-----------------------------------------------------------------------------
(* Runs of alike increments, in the window and in what was seen of them.   *)

\* The latest n increments in the window were in D, and there are so many, or all it has.
Follows(ys, n, D) ==
  /\ n > 0 => Len(ys) > n \/ Len(ys) = Window
  /\ \A i \in 2..Len(ys) : i > Len(ys) - n => ys[i] - ys[i - 1] \in D

\* A level that goes on by D leaves a window whose last n moves are in D.
LEMMA FollowsOn ==
  ASSUME levels \in Seq(Levels), Len(levels) <= Window, NEW l \in Levels, NEW D,
         NEW cap \in Nat, cap >= Window - 1, NEW n \in 0..cap, Follows(levels, n, D),
         NEW goes, goes => levels # <<>> /\ l - Last(levels) \in D
  PROVE  /\ Counted(n, cap, goes) \in 0..cap
         /\ Follows(Pushed(l), Counted(n, cap, goes), D)
<1> DEFINE m == Counted(n, cap, goes)
           new == Pushed(l)
           d == (Len(levels) + 1) - Len(new)
<1>1. Window \in Nat \ {0, 1} /\ Levels \subseteq Int
  BY ConfigAssumption
<1>2. /\ new \in Seq(Levels)
      /\ Len(new) = IF Len(levels) < Window THEN Len(levels) + 1 ELSE Window
      /\ new[Len(new)] = l
      /\ \A i \in 1..(Len(new) - 1) : new[i] = levels[i + d]
  BY PushedShape
<1>3. Len(levels) \in Nat /\ Len(new) \in Nat
  BY <1>2
<1>4. CASE ~goes
  <2>1. m = 0
    BY <1>4 DEF Counted
  <2> QED
    BY <1>3, <2>1 DEF Follows
<1>5. CASE goes
  <2>1. Len(levels) >= 1 /\ Last(levels) = levels[Len(levels)] /\ l - levels[Len(levels)] \in D
    <3>1. levels # <<>> /\ l - Last(levels) \in D
      BY <1>5
    <3> QED
      BY <3>1 DEF Last
  <2>2. m = (IF n < cap THEN n + 1 ELSE cap) /\ m \in 0..cap
    BY <1>5 DEF Counted
  <2> HIDE DEF m, new
  <2>3. Len(new) > m \/ Len(new) = Window
    BY <1>1, <1>2, <1>3, <2>1, <2>2 DEF Follows
  <2>4. ASSUME NEW i \in 2..Len(new), i > Len(new) - m
        PROVE  new[i] - new[i - 1] \in D
    <3>1. CASE i = Len(new)
      <4>1. i - 1 \in 1..(Len(new) - 1) /\ (i - 1) + d = Len(levels)
        BY <1>3, <2>4, <3>1
      <4>2. new[i - 1] = levels[Len(levels)]
        BY <1>2, <4>1
      <4> QED
        BY <1>2, <2>1, <3>1, <4>2
    <3>2. CASE i # Len(new)
      <4>1. i \in 1..(Len(new) - 1) /\ i - 1 \in 1..(Len(new) - 1) /\ (i - 1) + d = (i + d) - 1
        BY <1>3, <2>4, <3>2
      <4>2. new[i] = levels[i + d] /\ new[i - 1] = levels[(i + d) - 1]
        BY <1>2, <4>1
      <4>3. i + d \in 2..Len(levels) /\ i + d > Len(levels) - n
        <5>2. i \in Nat /\ 2 <= i /\ i < Len(new) /\ i > Len(new) - m
          BY <1>3, <2>2, <2>4, <3>2
        <5>3. CASE Len(levels) < Window
          <6>1. d = 0 /\ Len(new) = Len(levels) + 1
            BY <1>2, <1>3, <5>3
          <6>2. i + d = i /\ i <= Len(levels)
            BY <1>3, <5>2, <6>1
          <6>3. m <= n + 1 /\ m \in Int
            BY <2>2
          <6> HIDE DEF d
          <6> QED
            BY <1>3, <5>2, <6>1, <6>2, <6>3
        <5>4. CASE ~(Len(levels) < Window)
          <6>1. d = 1 /\ Len(new) = Window /\ Len(levels) = Window
            BY <1>1, <1>2, <1>3, <5>4
          <6> HIDE DEF d
          <6> QED
            BY <1>1, <1>3, <2>2, <5>2, <6>1
        <5> QED
          BY <5>3, <5>4
      <4>4. levels[i + d] - levels[(i + d) - 1] \in D
        BY <4>3 DEF Follows
      <4> QED
        BY <4>2, <4>4
    <3> QED
      BY <3>1, <3>2
  <2> QED
    BY <2>2, <2>3, <2>4 DEF Follows, m, new
<1> QED
  BY <1>4, <1>5

\* Once the window shows nothing but move, so does the run: need is as long as matters.
Runs(n, move, need) ==
  n >= Window - 1 =>
    runMove = move /\ runLen >= (IF n - Window + 2 < need THEN n - Window + 2 ELSE need)

\* Movements that go on build up the run that recognition asks for.
LEMMA RunsOn ==
  ASSUME IInv, NEW move, NEW seen \in Movements, RecordRun(seen),
         NEW need \in Nat \ {0}, need <= Inertia!RunCap,
         NEW cap \in Nat, cap >= Window - 2 + need, NEW n \in 0..cap, Runs(n, move, need),
         NEW goes, Counted(n, cap, goes) >= Window - 1 => seen = move
  PROVE  Counted(n, cap, goes) >= Window - 1 =>
           /\ runMove' = move
           /\ runLen' >= (IF Counted(n, cap, goes) - Window + 2 < need
                          THEN Counted(n, cap, goes) - Window + 2 ELSE need)
<1> DEFINE m == Counted(n, cap, goes)
<1>1. Window \in Nat \ {0, 1} /\ runLen \in Nat /\ Inertia!RunCap \in Nat
  BY ConfigAssumption DEF IInv, TypeOK, Inertia!RunCap
<1>2. SUFFICES ASSUME m >= Window - 1
               PROVE  /\ runMove' = move
                      /\ runLen' >= (IF m - Window + 2 < need THEN m - Window + 2 ELSE need)
  OBVIOUS
<1>3. goes
  <2>1. ~goes => m = 0
    BY DEF Counted
  <2> QED
    BY <1>1, <1>2, <2>1
<1>4. m = IF n < cap THEN n + 1 ELSE cap
  BY <1>3 DEF Counted
<1>5. runMove' = move /\ runLen' = (IF move # runMove THEN 1
                                   ELSE IF runLen < Inertia!RunCap THEN runLen + 1 ELSE Inertia!RunCap)
  BY <1>2 DEF RecordRun, Inertia!ExtendedRun
<1> HIDE DEF m
<1>6. CASE n >= Window - 1
  BY <1>1, <1>2, <1>4, <1>5, <1>6 DEF Runs
<1>7. CASE ~(n >= Window - 1)
  <2>1. m - Window + 2 = 1
    BY <1>1, <1>2, <1>4, <1>7
  <2>2. runLen' >= 1
    BY <1>1, <1>5
  <2> QED
    BY <1>5, <2>1, <2>2
<1> QED
  BY <1>6, <1>7

-----------------------------------------------------------------------------
(* What the tracker believes once a run is long enough.                    *)

\* After a movement the phase is that movement or still its opposite, and stable_n
\* samples without one have settled it.
Settles ==
  /\ runMove \in Directions => phase = runMove \/ Inertia!Against(phase, runMove)
  /\ runMove = "NONE" /\ runLen >= StableN => phase = "STABLE" /\ confidence = 100

\* The parts of one sample, with the movement it shows.
LEMMA UpdateParts ==
  ASSUME IInv, NEW l \in Levels, update(l)
  PROVE  /\ IInv' /\ levels' = Pushed(l)
         /\ Movement(Pushed(l)) \in Movements /\ RecordRun(Movement(Pushed(l)))
<1>1. [Next]_vars
  BY Zenon DEF Next
<1> QED
  BY <1>1, NextIInv, MovementType, Zenon DEF update

\* A level that is pushed keeps Settles.
LEMMA SettlesOn ==
  ASSUME IInv, NEW l \in Levels, update(l)
  PROVE  Settles'
<1> DEFINE move == Movement(Pushed(l))
           mag  == Magnitude(Pushed(l))
<1>1. /\ RecordRun(move) /\ move \in Movements /\ IInv'
      /\ \/ move # "NONE" /\ Reversing(move, mag)
         \/ move # "NONE" /\ Following(move, mag)
         \/ move = "NONE" /\ Flat
  BY UpdateParts, Zenon DEF update
<1> HIDE DEF move, mag
<1>2. phase' = Inertia!PhaseAfter(phase, move, Inertia!ExtendedRun(move))
  BY <1>1, MoveInertia, Zenon
<1>3. runMove' = move /\ runLen' = Inertia!ExtendedRun(move)
  BY <1>1 DEF RecordRun
<1>4. ASSUME runMove' \in Directions
      PROVE  phase' = runMove' \/ Inertia!Against(phase', runMove')
  BY <1>2, <1>3, <1>4 DEF Directions, Inertia!PhaseAfter, Inertia!Against, Inertia!Directions
<1>5. ASSUME runMove' = "NONE", runLen' >= StableN
      PROVE  phase' = "STABLE" /\ confidence' = 100
  <2>1. flatCount' = StableN /\ StableN \in Nat /\ runLen' \in Nat
    BY <1>1, <1>5, ConfigAssumption DEF IInv, TypeOK, CountersFollowRun, Inertia!RunCap
  <2>2. Flat
    BY <1>1, <1>3, <1>5, Zenon
  <2>3. Set("STABLE", 100, FALSE)
    <3> DEFINE count == IF flatCount < StableN THEN flatCount + 1 ELSE StableN
    <3>1. count = StableN
      BY <2>1, <2>2, Zenon DEF Flat
    <3>2. ~(count < StableN)
      BY <2>1, <3>1
    <3> HIDE DEF count
    <3> QED
      BY <2>2, <3>2, Zenon DEF Flat, count
  <2> QED
    BY <2>3, Zenon DEF Set
<1> QED
  BY <1>4, <1>5, Zenon DEF Settles

\* A long enough run of movements is the phase, with nothing pending.
LEMMA LongRunsAreThePhase ==
  ASSUME IInv, Settles, runMove \in Directions, runLen >= ReversalN
  PROVE  phase = runMove /\ ~transitioning
<1>1. reversalCount = 0
  BY ConfigAssumption DEF IInv, TypeOK, CountersFollowRun
<1>2. ~Inertia!Against(phase, runMove)
  BY <1>1 DEF IInv, CountersFollowRun
<1>3. phase = runMove
  BY <1>2 DEF Settles
<1> QED
  BY <1>2, <1>3 DEF IInv, Directions

-----------------------------------------------------------------------------
(* How long a ramp or a hold may go unrecognised.                          *)

Steep == {d \in Int : d >= SlopeRising}

\* What the history of the increments says of the window and of the run.
RecognitionInv ==
  /\ IInv /\ Settles /\ lastValue \in Levels
  /\ climb \in 0..RampLatency /\ still \in 0..HoldLatency
  /\ Follows(levels, climb, Steep) /\ Runs(climb, "RISING", ReversalN)
  /\ Follows(levels, still, {0}) /\ Runs(still, "NONE", StableN)

\* A window whose increments have all been in D, once there are enough of them.
LEMMA FullWindow ==
  ASSUME NEW ys \in Seq(Levels), Len(ys) <= Window, NEW n \in Nat, n >= Window - 1,
         NEW D, Follows(ys, n, D)
  PROVE  Len(ys) >= 2 /\ ys \in Seq(Int) /\ \A i \in 2..Len(ys) : ys[i] - ys[i - 1] \in D
<1>1. Window \in Nat \ {0, 1} /\ Levels \subseteq Int
  BY ConfigAssumption
<1>2. Len(ys) = Window
  BY <1>1 DEF Follows
<1>3. \A i \in 2..Len(ys) : i > Len(ys) - n
  BY <1>1, <1>2
<1>4. ys \in Seq(Int)
  <2>1. ys = [i \in 1..Len(ys) |-> ys[i]] /\ \A i \in 1..Len(ys) : ys[i] \in Int
    BY <1>1
  <2>2. Len(ys) \in Nat /\ ys \in [1..Len(ys) -> Int]
    BY <2>1
  <2> QED
    BY <2>2, SMT
<1> QED
  BY <1>1, <1>2, <1>3, <1>4 DEF Follows

\* The last level in a window is one of the levels.
LEMMA LastIsALevel == ASSUME NEW ys \in Seq(Levels), ys # <<>> PROVE Last(ys) \in Levels
<1>1. Len(ys) \in 1..Len(ys)
  OBVIOUS
<1> QED
  BY <1>1 DEF Last

\* One sample, seen as one more increment of a climb or of a hold.
LEMMA SampleRecognised ==
  ASSUME RecognitionInv, NEW l \in Levels, update(l), Sampled(l), lastValue' \in Levels
  PROVE  RecognitionInv'
<1> DEFINE seen == Movement(Pushed(l))
<1>1. /\ IInv' /\ Settles' /\ levels' = Pushed(l)
      /\ seen \in Movements /\ RecordRun(seen)
  BY UpdateParts, SettlesOn DEF RecognitionInv
<1>2. levels \in Seq(Levels) /\ Len(levels) <= Window /\ Pushed(l) \in Seq(Levels) /\ Len(Pushed(l)) <= Window
  BY PushedType DEF RecognitionInv, IInv, TypeOK
<1>3. /\ Window \in Nat \ {0, 1} /\ ReversalN \in Nat \ {0} /\ StableN \in Nat \ {0}
      /\ ReversalN <= Inertia!RunCap /\ StableN <= Inertia!RunCap
      /\ RampLatency \in Nat /\ RampLatency >= Window - 1 /\ RampLatency >= Window - 2 + ReversalN
      /\ HoldLatency \in Nat /\ HoldLatency >= Window - 1 /\ HoldLatency >= Window - 2 + StableN
  BY ConfigAssumption DEF RampLatency, HoldLatency, Inertia!RunCap
<1>4. IInv
  BY DEF RecognitionInv
<1>5. /\ climb' \in 0..RampLatency /\ Follows(Pushed(l), climb', Steep)
      /\ Runs(climb, "RISING", ReversalN)'
  <2> DEFINE goes == levels # <<>> /\ l - Last(levels) >= SlopeRising
             c == Counted(climb, RampLatency, goes)
  <2>1. climb' = c
    BY DEF Sampled
  <2>2. goes => levels # <<>> /\ l - Last(levels) \in Steep
    <3>1. levels # <<>> => Last(levels) \in Int /\ l \in Int
      BY <1>2, LastIsALevel, ConfigAssumption
    <3> QED
      BY <3>1 DEF Steep
  <2> HIDE DEF goes
  <2>3. c \in 0..RampLatency /\ Follows(Pushed(l), c, Steep)
    BY <1>2, <1>3, <2>2, FollowsOn DEF RecognitionInv
  <2>4. c >= Window - 1 => seen = "RISING"
    <3>1. SUFFICES ASSUME c >= Window - 1 PROVE seen = "RISING"
      OBVIOUS
    <3>2. c \in Nat
      BY <1>3, <2>3
    <3> HIDE DEF c
    <3>3. /\ Len(Pushed(l)) >= 2 /\ Pushed(l) \in Seq(Int)
          /\ \A i \in 2..Len(Pushed(l)) : Pushed(l)[i] - Pushed(l)[i - 1] \in Steep
      BY <1>2, <2>3, <3>1, <3>2, FullWindow
    <3>4. \A i \in 2..Len(Pushed(l)) : Pushed(l)[i] - Pushed(l)[i - 1] >= SlopeRising
      BY <3>3 DEF Steep
    <3> QED
      BY <3>3, <3>4, SteepIsRising
  <2> HIDE DEF seen
  <2>5. c >= Window - 1 =>
          /\ runMove' = "RISING"
          /\ runLen' >= (IF c - Window + 2 < ReversalN THEN c - Window + 2 ELSE ReversalN)
    BY <1>1, <1>3, <1>4, <2>4, RunsOn DEF RecognitionInv
  <2> HIDE DEF c
  <2> QED
    BY <2>1, <2>3, <2>5 DEF Runs
<1>6. /\ still' \in 0..HoldLatency /\ Follows(Pushed(l), still', {0})
      /\ Runs(still, "NONE", StableN)'
  <2> DEFINE goes == levels # <<>> /\ l = Last(levels)
             c == Counted(still, HoldLatency, goes)
  <2>1. still' = c
    BY DEF Sampled
  <2>2. goes => levels # <<>> /\ l - Last(levels) \in {0}
    <3>1. levels # <<>> => Last(levels) \in Int /\ l \in Int
      BY <1>2, LastIsALevel, ConfigAssumption
    <3> QED
      BY <3>1
  <2> HIDE DEF goes
  <2>3. c \in 0..HoldLatency /\ Follows(Pushed(l), c, {0})
    BY <1>2, <1>3, <2>2, FollowsOn DEF RecognitionInv
  <2>4. c >= Window - 1 => seen = "NONE"
    <3>1. SUFFICES ASSUME c >= Window - 1 PROVE seen = "NONE"
      OBVIOUS
    <3>2. c \in Nat
      BY <1>3, <2>3
    <3> HIDE DEF c
    <3>3. /\ Len(Pushed(l)) >= 2 /\ Pushed(l) \in Seq(Int)
          /\ \A i \in 2..Len(Pushed(l)) : Pushed(l)[i] - Pushed(l)[i - 1] \in {0}
      BY <1>2, <2>3, <3>1, <3>2, FullWindow
    <3> QED
      BY <3>3, StillIsNone
  <2> HIDE DEF seen
  <2>5. c >= Window - 1 =>
          /\ runMove' = "NONE"
          /\ runLen' >= (IF c - Window + 2 < StableN THEN c - Window + 2 ELSE StableN)
    BY <1>1, <1>3, <1>4, <2>4, RunsOn DEF RecognitionInv
  <2> HIDE DEF c
  <2> QED
    BY <2>1, <2>3, <2>5 DEF Runs
<1> QED
  BY <1>1, <1>5, <1>6 DEF RecognitionInv

\* Nothing is seen yet, so nothing is said of the window.
LEMMA InitRecognised == MCInit => RecognitionInv
<1> SUFFICES ASSUME MCInit PROVE RecognitionInv
  OBVIOUS
<1>1. IInv /\ lastValue \in Levels /\ climb = 0 /\ still = 0
  BY InitIInv, Zenon DEF MCInit, HoldInit
<1>2. levels = <<>> /\ runMove = "NONE" /\ runLen = 0
  BY DEF MCInit, HoldInit, Init
<1>3. /\ climb \in 0..RampLatency /\ still \in 0..HoldLatency
      /\ Runs(climb, "RISING", ReversalN) /\ Runs(still, "NONE", StableN) /\ Settles
  BY <1>1, <1>2, ConfigAssumption DEF RampLatency, HoldLatency, Runs, Settles, Directions
<1>4. Follows(levels, climb, Steep) /\ Follows(levels, still, {0})
  BY <1>1, <1>2 DEF Follows
<1> QED
  BY <1>1, <1>3, <1>4 DEF RecognitionInv

\* Samples and flats keep it; ticks and outages change nothing the tracker sees.
LEMMA StepRecognised == RecognitionInv /\ [MCNext]_mcvars => RecognitionInv'
<1> SUFFICES ASSUME RecognitionInv, [MCNext]_mcvars PROVE RecognitionInv'
  OBVIOUS
<1>1. ASSUME NEW l \in Levels, real(l), Sampled(l) PROVE RecognitionInv'
  BY <1>1, SampleRecognised DEF real
<1>2. CASE Fill /\ Sampled(lastValue)
  <2>1. lastValue \in Levels /\ update(lastValue) /\ lastValue' = lastValue
    BY <1>2 DEF RecognitionInv, Fill
  <2> QED
    BY <1>2, <2>1, SampleRecognised
<1>3. CASE UNCHANGED <<vars, lastValue, climb, still>>
  BY <1>3, Zenon DEF vars, RecognitionInv, IInv, TypeOK, CountersFollowRun, UnsettledIsNotConfident,
     NeverAgainstTheMovement, Settles, Follows, Runs, Inertia!Against
<1>4. ASSUME NEW d \in Elapses, tick(d), UNCHANGED <<climb, still>> PROVE RecognitionInv'
  BY <1>3, <1>4, Zenon DEF tick
<1>5. CASE (CaughtUp \/ Outage) /\ UNCHANGED <<climb, still>>
  BY <1>3, <1>5, Zenon DEF CaughtUp, Outage, holdVars
<1>6. CASE UNCHANGED mcvars
  BY <1>3, <1>6, Zenon DEF mcvars, allVars, holdVars
<1> QED
  BY <1>1, <1>2, <1>4, <1>5, <1>6, Zenon DEF MCNext

\* Whatever the tracker believed before, a ramp of slope_rising is called RISING, and a
\* standing signal STABLE, within one window and the hysteresis, for any window,
\* thresholds and hysteresis counts (PhaseTracker.update, _slope).
THEOREM MovementsAreRecognised == MCSpec => []MovesAreRecognised
<1>1. RecognitionInv => MovesAreRecognised
  <2> SUFFICES ASSUME RecognitionInv PROVE MovesAreRecognised
    OBVIOUS
  <2>1. ASSUME climb = RampLatency PROVE phase = "RISING" /\ ~transitioning
    <3>1. runMove = "RISING" /\ runLen >= ReversalN
      BY <2>1, ConfigAssumption DEF RecognitionInv, Runs, RampLatency
    <3> QED
      BY <3>1, LongRunsAreThePhase DEF RecognitionInv, Directions
  <2>2. ASSUME still = HoldLatency PROVE phase = "STABLE" /\ confidence = 100
    <3>1. runMove = "NONE" /\ runLen >= StableN
      BY <2>2, ConfigAssumption DEF RecognitionInv, Runs, HoldLatency
    <3> QED
      BY <3>1 DEF RecognitionInv, Settles
  <2> QED
    BY <2>1, <2>2 DEF MovesAreRecognised, RampIsRecognised, HoldIsRecognised
<1> QED
  BY <1>1, InitRecognised, StepRecognised, PTL DEF MCSpec

-----------------------------------------------------------------------------
(* The flats of the resampler.                                             *)

HoldTypes ==
  /\ active \in BOOLEAN /\ catching \in BOOLEAN /\ dark \in BOOLEAN
  /\ lastValue \in Levels /\ dueIn \in Int /\ emitted \in 0..ceiling
  /\ silence \in 0..SilenceCap /\ unbroken \in BOOLEAN

\* When the flat after e flats is due, counted from the last real sample.
DueAfter(e) == Margin + e * Cadence

\* Every flat given was due, and while more may come the time to the next one is known:
\* exactly, as long as the history counts the silence.
FlatsAreDue ==
  /\ ~active => emitted = 0 /\ silence = 0 /\ ~catching
  /\ emitted > 0 => silence >= DueAfter(emitted - 1)
  /\ active /\ emitted < ceiling =>
       /\ dueIn <= DueAfter(emitted) - silence
       /\ silence < SilenceCap => dueIn = DueAfter(emitted) - silence
  /\ active /\ ~catching => ~Due

\* The tracker has been given the flats: the last sample in its window is the value
\* that is held, as often as it was repeated.
FlatsAreSeen ==
  active =>
    /\ levels # <<>> /\ Last(levels) = lastValue
    /\ Follows(levels, emitted, {0}) /\ Runs(emitted, "NONE", StableN)

HoldInv == IInv /\ Settles /\ HoldTypes /\ FlatsAreDue /\ FlatsAreSeen

\* The window, its flush and the hysteresis.
LEMMA Ceiling ==
  /\ ceiling = Window + 2 * StableN /\ ceiling \in Nat
  /\ Window \in Nat \ {0, 1} /\ StableN \in Nat \ {0} /\ StableN <= Inertia!RunCap
  /\ ceiling >= Window - 1 /\ ceiling >= Window - 2 + StableN
  BY ConfigAssumption DEF ceiling, Inertia!RunCap

\* The instants at which flats are due.
LEMMA DueTimes ==
  /\ SilenceCap = DueAfter(ceiling) /\ SilenceCap \in Nat
  /\ DueAfter(0) = Margin
  /\ \A e \in Nat : DueAfter(e) \in Nat /\ DueAfter(e + 1) = DueAfter(e) + Cadence
  /\ \A e, f \in Nat : e <= f => DueAfter(e) <= DueAfter(f)
<1>1. Cadence \in Nat \ {0} /\ Margin \in Nat \ {0}
  BY HoldAssumption
<1>2. SilenceCap = DueAfter(ceiling)
  BY Ceiling, Zenon DEF SilenceCap, DueAfter
<1>3. ASSUME NEW e \in Nat PROVE DueAfter(e) \in Nat /\ DueAfter(e + 1) = DueAfter(e) + Cadence
  BY <1>1 DEF DueAfter
<1>4. ASSUME NEW e \in Nat, NEW f \in Nat, e <= f PROVE DueAfter(e) <= DueAfter(f)
  <2>1. e * Cadence <= f * Cadence
    BY <1>1, <1>4
  <2> QED
    BY <1>1, <2>1 DEF DueAfter
<1>5. DueAfter(0) = Margin
  BY <1>1 DEF DueAfter
<1> QED
  BY <1>2, <1>3, <1>4, <1>5, Ceiling

\* Before the first sample there is nothing to repeat.
LEMMA InitHeld == HoldInit => HoldInv
<1> SUFFICES ASSUME HoldInit PROVE HoldInv
  OBVIOUS
<1>1. IInv /\ Settles
  BY InitIInv, ConfigAssumption DEF HoldInit, Init, Settles, Directions
<1>2. HoldTypes
  <2>1. dueIn \in Int /\ emitted \in 0..ceiling /\ silence \in 0..SilenceCap
    BY Ceiling, DueTimes DEF HoldInit
  <2> QED
    BY <2>1, Zenon DEF HoldInit, HoldTypes
<1>3. FlatsAreDue /\ FlatsAreSeen
  BY DEF HoldInit, FlatsAreDue, FlatsAreSeen
<1> QED
  BY <1>1, <1>2, <1>3 DEF HoldInv

\* A real sample starts the count again.
LEMMA RealHeld ==
  ASSUME HoldInv, NEW l \in Levels, real(l)
  PROVE  HoldInv'
<1>1. IInv' /\ Settles' /\ levels' = Pushed(l)
  BY UpdateParts, SettlesOn DEF HoldInv, real
<1>2. /\ active' = TRUE /\ lastValue' = l /\ dueIn' = Margin /\ emitted' = 0 /\ silence' = 0
      /\ catching' = catching /\ ~catching /\ dark' = dark /\ unbroken' = TRUE
  BY DEF real
<1>3. HoldTypes'
  <2>1. dueIn' \in Int /\ emitted' \in 0..ceiling /\ silence' \in 0..SilenceCap
    BY <1>2, Ceiling, DueTimes, HoldAssumption
  <2> QED
    BY <1>2, <2>1, Zenon DEF HoldTypes, HoldInv, ceiling, SilenceCap
<1>4. FlatsAreDue'
  <2>1. DueAfter(emitted') = Margin /\ Margin \in Nat \ {0}
    BY <1>2, DueTimes, HoldAssumption
  <2>2. dueIn' = DueAfter(emitted') - silence' /\ dueIn' > 0 /\ ~(emitted' > 0)
    BY <1>2, <2>1
  <2>3. active' /\ ~Due' /\ dueIn' <= DueAfter(emitted') - silence'
    BY <1>2, <2>1, <2>2 DEF Due
  <2> QED
    BY <2>2, <2>3, Zenon DEF FlatsAreDue, DueAfter
<1>5. FlatsAreSeen'
  <2>1. levels \in Seq(Levels) /\ Len(levels) <= Window
    BY DEF HoldInv, IInv, TypeOK
  <2>2. Pushed(l) \in Seq(Levels) /\ Len(Pushed(l)) >= 1 /\ Pushed(l)[Len(Pushed(l))] = l
    BY <2>1, PushedShape, Ceiling
  <2>3. levels' # <<>> /\ Last(levels') = l
    BY <1>1, <2>2 DEF Last
  <2>4. Follows(levels', 0, {0}) /\ Runs(0, "NONE", StableN)'
    <3>1. Len(levels') \in Nat
      BY <1>1, <2>2
    <3> QED
      BY <3>1, Ceiling DEF Follows, Runs
  <2> QED
    BY <1>2, <2>3, <2>4 DEF FlatsAreSeen
<1> QED
  BY <1>1, <1>3, <1>4, <1>5 DEF HoldInv

\* A flat is one more increment of nothing.
LEMMA FillHeld ==
  ASSUME HoldInv, Fill
  PROVE  HoldInv'
<1>1. /\ lastValue \in Levels /\ update(lastValue) /\ catching /\ Due /\ active
      /\ emitted' = emitted + 1 /\ dueIn' = dueIn + Cadence
      /\ UNCHANGED <<active, lastValue, catching, dark, silence, unbroken>>
  BY DEF HoldInv, HoldTypes, Fill, FlatsAreDue
<1>2. /\ IInv' /\ Settles' /\ levels' = Pushed(lastValue)
      /\ Movement(Pushed(lastValue)) \in Movements /\ RecordRun(Movement(Pushed(lastValue)))
  BY <1>1, UpdateParts, SettlesOn DEF HoldInv
<1>3. /\ emitted \in Nat /\ emitted < ceiling /\ silence \in Nat /\ dueIn \in Int /\ dueIn <= 0
      /\ silence <= SilenceCap /\ SilenceCap \in Nat
  BY <1>1, Ceiling, DueTimes DEF HoldInv, HoldTypes, Due
<1>4. HoldTypes'
  <2>1. dueIn' \in Int /\ emitted' \in 0..ceiling
    BY <1>1, <1>3, Ceiling, HoldAssumption
  <2> QED
    BY <1>1, <2>1, Zenon DEF HoldInv, HoldTypes, ceiling, SilenceCap
<1>5. FlatsAreDue'
  <2>1. DueAfter(emitted + 1) = DueAfter(emitted) + Cadence /\ DueAfter(emitted) \in Nat
    BY <1>3, DueTimes
  <2>2. silence >= DueAfter(emitted)
    <3>1. silence = SilenceCap => silence >= DueAfter(emitted)
      BY <1>3, DueTimes, Ceiling
    <3>2. silence < SilenceCap => dueIn = DueAfter(emitted) - silence
      BY <1>1, <1>3 DEF HoldInv, FlatsAreDue
    <3>3. silence = SilenceCap \/ silence < SilenceCap
      BY <1>3
    <3> QED
      BY <1>3, <2>1, <3>1, <3>2, <3>3
  <2>3. emitted' > 0 => silence' >= DueAfter(emitted' - 1)
    BY <1>1, <1>3, <2>2
  <2>4. /\ dueIn' <= DueAfter(emitted') - silence'
        /\ silence' < SilenceCap => dueIn' = DueAfter(emitted') - silence'
    <3>1. /\ dueIn <= DueAfter(emitted) - silence
          /\ silence < SilenceCap => dueIn = DueAfter(emitted) - silence
      BY <1>1, <1>3 DEF HoldInv, FlatsAreDue
    <3>2. Cadence \in Nat /\ emitted' = emitted + 1 /\ dueIn' = dueIn + Cadence /\ silence' = silence
      BY <1>1, HoldAssumption
    <3>3. DueAfter(emitted') = DueAfter(emitted) + Cadence
      BY <2>1, <3>2
    <3> QED
      BY <1>3, <2>1, <3>1, <3>2, <3>3 DEF SilenceCap
  <2> QED
    BY <1>1, <2>3, <2>4 DEF FlatsAreDue
<1>6. FlatsAreSeen'
  <2> DEFINE new == Pushed(lastValue)
             goes == levels # <<>> /\ lastValue = Last(levels)
             c == Counted(emitted, ceiling, goes)
  <2>1. levels \in Seq(Levels) /\ Len(levels) <= Window /\ new \in Seq(Levels) /\ Len(new) <= Window
    BY <1>1, PushedType DEF HoldInv, IInv, TypeOK
  <2>2. goes /\ lastValue - Last(levels) \in {0}
    <3>1. levels # <<>> /\ Last(levels) = lastValue
      BY <1>1 DEF HoldInv, FlatsAreSeen
    <3>2. lastValue \in Int
      BY <1>1, ConfigAssumption
    <3> QED
      BY <3>1, <3>2
  <2>3. c = emitted + 1
    BY <1>3, <2>2 DEF Counted
  <2> HIDE DEF goes
  <2>4. c \in 0..ceiling /\ Follows(new, c, {0})
    <3>1. emitted \in 0..ceiling /\ Follows(levels, emitted, {0})
      BY <1>1, <1>3, Ceiling DEF HoldInv, FlatsAreSeen
    <3>2. goes => levels # <<>> /\ lastValue - Last(levels) \in {0}
      BY <2>2 DEF goes
    <3>3. ceiling \in Nat /\ ceiling >= Window - 1
      BY Ceiling
    <3> QED
      BY <1>1, <2>1, <3>1, <3>2, <3>3, FollowsOn, Zenon
  <2>5. c >= Window - 1 => Movement(new) = "NONE"
    <3>1. SUFFICES ASSUME c >= Window - 1 PROVE Movement(new) = "NONE"
      OBVIOUS
    <3>2. c \in Nat
      BY <2>4, Ceiling
    <3> HIDE DEF c, new
    <3>3. /\ Len(new) >= 2 /\ new \in Seq(Int)
          /\ \A i \in 2..Len(new) : new[i] - new[i - 1] \in {0}
      BY <2>1, <2>4, <3>1, <3>2, FullWindow
    <3> QED
      BY <3>3, StillIsNone
  <2>6. c >= Window - 1 =>
          /\ runMove' = "NONE"
          /\ runLen' >= (IF c - Window + 2 < StableN THEN c - Window + 2 ELSE StableN)
    <3>1. emitted \in 0..ceiling /\ Runs(emitted, "NONE", StableN) /\ IInv
      BY <1>1, <1>3, Ceiling DEF HoldInv, FlatsAreSeen
    <3>2. StableN \in Nat \ {0} /\ StableN <= Inertia!RunCap /\ ceiling \in Nat /\ ceiling >= Window - 2 + StableN
      BY Ceiling
    <3> QED
      BY <1>2, <2>5, <3>1, <3>2, RunsOn
  <2>7. levels' # <<>> /\ Last(levels') = lastValue
    <3>1. new[Len(new)] = lastValue /\ Len(new) >= 1
      BY <1>1, <2>1, PushedShape, Ceiling
    <3> HIDE DEF new
    <3> QED
      BY <1>2, <2>1, <3>1 DEF Last, new
  <2> HIDE DEF c, new
  <2>8. Follows(levels', emitted', {0}) /\ Runs(emitted, "NONE", StableN)'
    BY <1>1, <1>2, <2>3, <2>4, <2>6 DEF Runs, new
  <2> QED
    BY <1>1, <2>7, <2>8 DEF FlatsAreSeen
<1> QED
  BY <1>2, <1>4, <1>5, <1>6 DEF HoldInv

\* A step that leaves the tracker and the value held alone leaves alone what is known of them.
LEMMA UnseenByTheTracker ==
  ASSUME IInv, Settles, FlatsAreSeen, UNCHANGED <<vars, active, lastValue, emitted>>
  PROVE  IInv' /\ Settles' /\ FlatsAreSeen'
BY Zenon DEF vars, IInv, TypeOK, CountersFollowRun, UnsettledIsNotConfident,
   NeverAgainstTheMovement, Settles, FlatsAreSeen, Follows, Runs, Inertia!Against

\* Time passes for the tracker without a trace, and brings the next flat nearer.
LEMMA TickHeld ==
  ASSUME HoldInv, NEW d \in Elapses, tick(d)
  PROVE  HoldInv'
<1>1. /\ UNCHANGED <<vars, active, lastValue, emitted, dark, unbroken>> /\ catching' = active
      /\ dueIn' = IF active /\ emitted < ceiling THEN dueIn - d ELSE dueIn
      /\ silence' = IF active /\ silence + d < SilenceCap THEN silence + d
                    ELSE IF active THEN SilenceCap ELSE 0
  BY DEF tick
<1>2. /\ d \in Nat \ {0} /\ SilenceCap \in Nat /\ silence \in 0..SilenceCap /\ dueIn \in Int
      /\ emitted \in 0..ceiling /\ ceiling \in Nat /\ active \in BOOLEAN
      /\ DueAfter(emitted) \in Nat
  <2>1. emitted \in 0..ceiling /\ ceiling \in Nat
    BY Ceiling DEF HoldInv, HoldTypes
  <2>2. emitted \in Nat
    BY <2>1
  <2> QED
    BY <2>1, <2>2, DueTimes, HoldAssumption DEF HoldInv, HoldTypes
<1>3. IInv' /\ Settles' /\ FlatsAreSeen'
  BY <1>1, UnseenByTheTracker, Zenon DEF HoldInv
<1>4. HoldTypes'
  <2>1. dueIn' \in Int /\ silence' \in 0..SilenceCap
    BY <1>1, <1>2
  <2> QED
    BY <1>1, <2>1, Zenon DEF HoldInv, HoldTypes, ceiling, SilenceCap
<1>5. FlatsAreDue'
  <2>1. ~active' => emitted' = 0 /\ silence' = 0 /\ ~catching'
    BY <1>1 DEF HoldInv, FlatsAreDue
  <2>2. emitted' > 0 => silence' >= DueAfter(emitted' - 1)
    <3>1. SUFFICES ASSUME emitted > 0 PROVE silence' >= DueAfter(emitted - 1)
      BY <1>1
    <3>2. active /\ silence >= DueAfter(emitted - 1) /\ DueAfter(emitted - 1) \in Nat
      <4>1. emitted - 1 \in Nat
        BY <1>2, <3>1
      <4> QED
        BY <1>2, <3>1, <4>1, DueTimes DEF HoldInv, FlatsAreDue
    <3>3. silence' >= silence
      BY <1>1, <1>2, <3>2
    <3>4. silence' \in Nat
      BY <1>1, <1>2
    <3> QED
      BY <1>2, <3>2, <3>3, <3>4
  <2>3. ASSUME active, emitted < ceiling
        PROVE  /\ dueIn' <= DueAfter(emitted) - silence'
               /\ silence' < SilenceCap => dueIn' = DueAfter(emitted) - silence'
    <3>1. /\ dueIn <= DueAfter(emitted) - silence
          /\ silence < SilenceCap => dueIn = DueAfter(emitted) - silence
      BY <2>3 DEF HoldInv, FlatsAreDue
    <3> QED
      BY <1>1, <1>2, <2>3, <3>1
  <2> QED
    BY <1>1, <2>1, <2>2, <2>3 DEF FlatsAreDue, ceiling, SilenceCap, DueAfter
<1> QED
  BY <1>3, <1>4, <1>5 DEF HoldInv

\* Every step of the resampler keeps its invariant.
LEMMA StepHeld == HoldInv /\ [HoldNext]_allVars => HoldInv'
<1> SUFFICES ASSUME HoldInv, [HoldNext]_allVars PROVE HoldInv'
  OBVIOUS
<1>1. CASE CaughtUp
  <2>1. UNCHANGED <<vars, active, lastValue, dueIn, emitted, dark, silence, unbroken>>
        /\ catching' = FALSE /\ catching /\ ~Due
    BY <1>1 DEF CaughtUp, holdVars
  <2>2. IInv' /\ Settles' /\ FlatsAreSeen'
    BY <2>1, UnseenByTheTracker, Zenon DEF HoldInv
  <2>3. HoldTypes'
    BY <2>1, Zenon DEF HoldInv, HoldTypes, ceiling, SilenceCap
  <2>4. FlatsAreDue'
    <3>1. ~Due'
      BY <2>1 DEF Due, ceiling
    <3> QED
      BY <2>1, <3>1 DEF HoldInv, FlatsAreDue, ceiling, SilenceCap
  <2> QED
    BY <2>2, <2>3, <2>4 DEF HoldInv
<1>2. ASSUME UNCHANGED <<vars, active, lastValue, dueIn, emitted, catching, silence>>,
             dark' \in BOOLEAN, unbroken' \in BOOLEAN
      PROVE  HoldInv'
  <2>1. IInv' /\ Settles' /\ FlatsAreSeen'
    BY <1>2, UnseenByTheTracker, Zenon DEF HoldInv
  <2>2. HoldTypes'
    BY <1>2, Zenon DEF HoldInv, HoldTypes, ceiling, SilenceCap
  <2>3. FlatsAreDue'
    BY <1>2, Zenon DEF HoldInv, FlatsAreDue, Due, ceiling, SilenceCap
  <2> QED
    BY <2>1, <2>2, <2>3 DEF HoldInv
<1>3. CASE Outage
  <2>1. dark' \in BOOLEAN /\ unbroken' \in BOOLEAN
    BY <1>3 DEF Outage, HoldInv, HoldTypes
  <2> QED
    BY <1>2, <1>3, <2>1, Zenon DEF Outage, holdVars
<1>4. CASE UNCHANGED allVars
  <2>1. dark' \in BOOLEAN /\ unbroken' \in BOOLEAN
    BY <1>4, Zenon DEF allVars, HoldInv, HoldTypes
  <2> QED
    BY <1>2, <1>4, <2>1, Zenon DEF allVars, holdVars
<1> QED
  BY <1>1, <1>3, <1>4, RealHeld, TickHeld, FillHeld, Zenon DEF HoldNext

\* The invariant holds of every behaviour of the resampler and its tracker.
LEMMA HoldInvariant == HoldSpec => []HoldInv
  BY InitHeld, StepHeld, PTL DEF HoldSpec

-----------------------------------------------------------------------------
(* What the flats make of a silence.                                       *)

\* A quotient is told by the multiples around what is divided.
LEMMA QuotientIs ==
  ASSUME NEW a \in Nat, NEW b \in Nat \ {0}, NEW q \in Nat,
         q * b <= a, a < q * b + b
  PROVE  a \div b = q
OBVIOUS

\* Quotients grow with what is divided, and undo a product.
LEMMA QuotientUndoes ==
  ASSUME NEW q \in Nat, NEW b \in Nat \ {0}, NEW a \in Nat, q * b <= a
  PROVE  (q * b) \div b = q /\ (q * b) \div b <= a \div b /\ a \div b \in Nat
OBVIOUS

\* Between ticks no flat is due, so those given are those the silence calls for.
LEMMA FlatsAreCounted == HoldInv => FlatsFollowTheSilence
<1> SUFFICES ASSUME HoldInv, active, ~catching
             PROVE  LET called == IF silence < Margin THEN 0 ELSE 1 + (silence - Margin) \div Cadence
                    IN  emitted = (IF called < ceiling THEN called ELSE ceiling)
  BY DEF FlatsFollowTheSilence
<1> DEFINE called == IF silence < Margin THEN 0 ELSE 1 + (silence - Margin) \div Cadence
<1>1. /\ silence \in Nat /\ silence <= SilenceCap /\ SilenceCap \in Nat
      /\ emitted \in Nat /\ emitted <= ceiling /\ ceiling \in Nat \ {0} /\ dueIn \in Int
      /\ Margin \in Nat \ {0} /\ Cadence \in Nat \ {0}
  <2>1. emitted \in 0..ceiling /\ silence \in 0..SilenceCap /\ dueIn \in Int
    BY DEF HoldInv, HoldTypes
  <2> QED
    BY <2>1, Ceiling, DueTimes, HoldAssumption
<1>2. emitted > 0 => silence >= DueAfter(emitted - 1)
  BY DEF HoldInv, FlatsAreDue
<1>3. CASE emitted < ceiling
  <2>1. silence < DueAfter(emitted)
    <3>1. dueIn > 0 /\ dueIn <= DueAfter(emitted) - silence
      BY <1>1, <1>3 DEF HoldInv, FlatsAreDue, Due
    <3>2. DueAfter(emitted) \in Nat
      BY <1>1, DueTimes
    <3> QED
      BY <1>1, <3>1, <3>2
  <2>2. CASE emitted = 0
    <3>1. silence < Margin
      BY <2>1, <2>2, DueTimes
    <3> QED
      BY <1>1, <2>2, <3>1
  <2>3. CASE emitted > 0
    <3> DEFINE a == silence - Margin
               q == emitted - 1
    <3>1. q \in Nat /\ DueAfter(q) = Margin + q * Cadence /\ q * Cadence \in Nat
      BY <1>1, <2>3 DEF DueAfter
    <3>2. DueAfter(emitted) = DueAfter(q) + Cadence
      <4>1. q + 1 = emitted
        BY <1>1
      <4> QED
        BY <3>1, <4>1, DueTimes
    <3>3. a \in Nat /\ q * Cadence <= a /\ a < q * Cadence + Cadence
      <4> HIDE DEF q
      <4>1. silence >= DueAfter(q)
        BY <1>2, <2>3 DEF q
      <4> QED
        BY <1>1, <2>1, <3>1, <3>2, <4>1
    <3>4. a \div Cadence = q
      <4> HIDE DEF a, q
      <4> QED
        BY <1>1, <3>1, <3>3, QuotientIs
    <3>5. ~(silence < Margin)
      BY <1>1, <3>3
    <3>6. called = emitted
      BY <1>1, <3>4, <3>5
    <3> QED
      BY <1>3, <3>6
  <2> QED
    BY <1>1, <2>2, <2>3
<1>4. CASE emitted = ceiling
  <2> DEFINE a == silence - Margin
             q == ceiling - 1
  <2>1. q \in Nat /\ DueAfter(q) = Margin + q * Cadence /\ q * Cadence \in Nat
    BY <1>1 DEF DueAfter
  <2>2. silence >= DueAfter(q)
    BY <1>1, <1>2, <1>4
  <2>3. a \in Nat /\ q * Cadence <= a
    <3> HIDE DEF q
    <3> QED
      BY <1>1, <2>1, <2>2
  <2>4. (q * Cadence) \div Cadence = q /\ (q * Cadence) \div Cadence <= a \div Cadence
        /\ a \div Cadence \in Nat
    <3> HIDE DEF a, q
    <3> QED
      BY <1>1, <2>1, <2>3, QuotientUndoes
  <2>5. ~(silence < Margin)
    BY <1>1, <2>3
  <2>6. called >= ceiling /\ called \in Nat
    BY <1>1, <2>4, <2>5
  <2> HIDE DEF called
  <2>7. emitted = (IF called < ceiling THEN called ELSE ceiling)
    BY <1>1, <1>4, <2>6
  <2> QED
    BY <2>7 DEF called
<1> QED
  BY <1>1, <1>3, <1>4

\* Enough flats fill the window with the value held and bring the run of no movement to
\* stable_n: the tracker has settled.
LEMMA HoldIsClosed == HoldInv => HoldClosesInTime
<1> SUFFICES ASSUME HoldInv, active, ~catching,
                    silence >= Margin + (Window + StableN - 3) * Cadence
             PROVE  phase = "STABLE" /\ confidence = 100
  BY DEF HoldClosesInTime
<1> DEFINE n == Window + StableN - 3
<1>1. n \in Nat /\ n + 1 = Window - 2 + StableN /\ n + 1 >= Window - 1 /\ n < ceiling
  BY Ceiling
<1>2. silence >= DueAfter(n)
  BY Zenon DEF DueAfter
<1>3. emitted \in Nat /\ emitted <= ceiling /\ silence \in Nat /\ ceiling \in Nat
  <2>1. emitted \in 0..ceiling /\ silence \in 0..SilenceCap
    BY DEF HoldInv, HoldTypes
  <2> QED
    BY <2>1, Ceiling, DueTimes
<1> HIDE DEF n
<1>4. emitted >= n + 1
  <2>1. SUFFICES ASSUME emitted <= n PROVE FALSE
    BY <1>1, <1>3
  <2>2. DueAfter(emitted) <= DueAfter(n) /\ DueAfter(emitted) \in Nat /\ DueAfter(n) \in Nat
    BY <1>1, <1>3, <2>1, DueTimes
  <2>3. dueIn > 0 /\ dueIn <= DueAfter(emitted) - silence /\ dueIn \in Int
    BY <1>1, <1>3, <2>1 DEF HoldInv, HoldTypes, FlatsAreDue, Due
  <2> QED
    BY <1>2, <1>3, <2>2, <2>3
<1>5. runMove = "NONE" /\ runLen >= StableN
  <2>1. emitted >= Window - 1 /\ emitted - Window + 2 >= StableN
    BY <1>1, <1>3, <1>4, Ceiling
  <2>2. Runs(emitted, "NONE", StableN)
    BY DEF HoldInv, FlatsAreSeen
  <2> QED
    BY <1>3, <2>1, <2>2, Ceiling DEF Runs
<1> QED
  BY <1>5 DEF HoldInv, Settles

\* For any cadence and margin, and ticks at any times: as long as the capture lasts, the
\* flats of catch_up are those the silence calls for, and they close the hold within the
\* window and stable_n, whatever the tracker believed before.  (That they are fed all the
\* same while the capture is down is OutageIsAbsent, which does not hold.)
THEOREM HoldsAreClosed == HoldSpec => []FlatsCloseTheHold
<1>1. HoldInv => FlatsCloseTheHold
  BY FlatsAreCounted, HoldIsClosed DEF FlatsCloseTheHold
<1> QED
  BY <1>1, HoldInvariant, PTL

\* The attributes keep their types, and ceiling bounds the flats of one silence.
THEOREM ResamplerTypesCorrect == HoldSpec => []HoldTypeOK
<1>1. HoldInv => HoldTypeOK
  BY DEF HoldInv, IInv, HoldTypes, HoldTypeOK
<1> QED
  BY <1>1, HoldInvariant, PTL
-----------------------------------------------------------------------------
(* Auto-calibration: the period of a clean enough signal.                  *)

\* The sample at j, had the one at g not been e off.
Clean(s, g, e, j) == IF j = g THEN s[j] - e ELSE s[j]

\* How far the process came to a level, in a heading, since i samples ago.
CameTo(s, l, up, g, e, i) ==
  LET c == Clean(s, g, e, Len(s) - i)
  IN  IF up = 1 THEN l - c ELSE c - l

Came(g, e, i) == CameTo(series, level, heading, g, e, i)

\* The sample that is e off is one there is, and there is none before a glitch.
GlitchIsOne(g, e) ==
  /\ g \in 0..Len(series) /\ e \in {-1, 0, 1}
  /\ glitches = 0 => e = 0

\* Where the samples of the leg began, and how long the legs before it were.
LegsAreCounted ==
  /\ series[1] = 0
  /\ leg < SettledLeg => rests = 0
  /\ turns = <<>> => heading = 1 /\ level = leg /\ Len(series) = 1 + leg + rests
  /\ turns # <<>> => leg >= 1 /\ Len(series) = turns[Len(turns)] - 1 + leg + rests
  /\ \A k \in 1..Len(turns) : turns[k] >= SettledLeg + 2
  /\ \A k \in 1..(Len(turns) - 1) : turns[k + 1] - turns[k] \in SettledLeg..(Max(Legs) + MaxRests)

\* The leg before the last turn had no rest.
Restless == Len(turns) >= 2 /\ turns[Len(turns)] - turns[Len(turns) - 1] = SettledLeg

\* The span of the filter: one step a sample, except for the rests, in the heading
\* since the turn and against it before.
Stepped(came, i, first, steps, paused, restless) ==
  IF first \/ steps >= SMOOTH_SPAN
    THEN came \in 0..i /\ i - paused <= came
    ELSE IF i <= steps THEN came = i
    ELSE /\ came \in (2 * steps - i)..steps /\ came <= 2 * steps - i + MaxRests
         /\ restless => came = 2 * steps - i

SpanIsSteps(g, e) ==
  \A i \in 0..SMOOTH_SPAN : i < Len(series) =>
    Stepped(Came(g, e, i), i, turns = <<>>, leg, rests, Restless)

\* The sample at j, or the one that the filter loses at j, was off.
Disturbed(g, e, j) == e # 0 /\ (j = g \/ j = g + SMOOTH_SPAN)

\* The last turn, before and after the scan has seen it.
TurnPending == Len(reversals) = Len(turns) - 1 /\ last = -heading
TurnFound   == Len(reversals) = Len(turns) /\ last = heading

\* The scan has found the turns there were, except perhaps one it has not seen yet.
TurnsAreFound(g, e) ==
  /\ turns = <<>> => Len(reversals) = 0 /\ last \in {0, 1} /\ (leg >= SMOOTH_SPAN => last = 1)
  /\ turns # <<>> =>
       /\ leg = 1 => TurnPending
       /\ leg = 2 => TurnPending \/ TurnFound
       /\ leg = 3 => TurnFound \/ (TurnPending /\ Disturbed(g, e, turns[Len(turns)] + 2))
       /\ leg > 3 => TurnFound

\* A turn is found one to three samples after it; one with a rest before it after a
\* sample only with a glitch, and after three only with one.
LagIsShort(g, e, k) ==
  /\ reversals[k] - turns[k] \in 1..3
  /\ reversals[k] - turns[k] = 1 =>
       \/ MaxGlitches = 0
       \/ Disturbed(g, e, turns[k] + 1) /\ (k > 1 => turns[k] - turns[k - 1] > SettledLeg)
  /\ reversals[k] - turns[k] = 3 => Disturbed(g, e, turns[k] + 2)

LagsAreExplained(g, e) == \A k \in 1..Len(reversals) : LagIsShort(g, e, k)

Explains(g, e) ==
  GlitchIsOne(g, e) /\ SpanIsSteps(g, e) /\ TurnsAreFound(g, e) /\ LagsAreExplained(g, e)

CalibrationInv ==
  /\ CalibrationTypeOK
  /\ LegsAreCounted
  /\ \E g \in 0..Len(series), e \in {-1, 0, 1} : Explains(g, e)

LEMMA Constants ==
  /\ Quantum \in Nat /\ Quantum > 5
  /\ IsFiniteSet(Legs) /\ Legs # {} /\ Legs \subseteq Nat /\ \A l \in Legs : l >= 6
  /\ MaxTurns \in Nat /\ MaxRests \in Nat /\ MaxGlitches \in Nat
  /\ MaxRests + 2 * MaxGlitches <= 3
BY CalibrationAssumption DEF SMOOTH_SPAN, SIGN_DEADBAND, SettledLeg

-----------------------------------------------------------------------------
(* Least and greatest.                                                     *)

\* A set of naturals has a least one.
LEMMA LeastOne ==
  ASSUME NEW S, S \subseteq Nat, S # {}
  PROVE  Min(S) \in S /\ \A k \in S : Min(S) <= k
<1>1. IsWellFoundedOn(Below, Nat)
  BY NatLessThanWellFounded, Zenon DEF OpToRel, Below
<1>2. \E m \in S : \A k \in S : ~(<<k, m>> \in Below)
  BY <1>1, WFMin, Zenon
<1>3. PICK m \in S : \A k \in S : ~(<<k, m>> \in Below)
  BY <1>2
<1>4. ASSUME NEW k \in S PROVE m <= k
  <2>1. k \in Nat /\ m \in Nat /\ ~(k < m)
    BY <1>3 DEF Below
  <2> QED
    BY <2>1
<1> QED
  BY <1>4 DEF Min

\* A finite one has a greatest.
LEMMA GreatestOne ==
  ASSUME NEW S, S \subseteq Nat, S # {}, IsFiniteSet(S)
  PROVE  Max(S) \in S /\ \A k \in S : Max(S) >= k
<1> DEFINE T == {n \in Nat : \A R \in SUBSET Nat :
                   IsFiniteSet(R) /\ R # {} /\ Cardinality(R) = n => \E m \in R : \A k \in R : m >= k}
<1>1. 0 \in T
  BY FS_EmptySet
<1>2. ASSUME NEW n \in T PROVE n + 1 \in T
  <2>1. SUFFICES ASSUME NEW R \in SUBSET Nat, IsFiniteSet(R), R # {}, Cardinality(R) = n + 1
                 PROVE  \E m \in R : \A k \in R : m >= k
    OBVIOUS
  <2>2. PICK x \in R : TRUE
    BY <2>1
  <2>3. /\ IsFiniteSet(R \ {x}) /\ Cardinality(R \ {x}) = n
    <3>1. IsFiniteSet(R \ {x}) /\ Cardinality(R \ {x}) = Cardinality(R) - 1
      BY <2>1, FS_RemoveElement
    <3> QED
      BY <2>1, <3>1
  <2>4. CASE R \ {x} = {}
    BY <2>1, <2>4
  <2>5. CASE R \ {x} # {}
    <3>1. PICK m \in R \ {x} : \A k \in R \ {x} : m >= k
      BY <2>3, <2>5
    <3>2. CASE m >= x
      BY <3>1, <3>2
    <3>3. CASE ~(m >= x)
      <4>1. \A k \in R : x >= k
        BY <3>1, <3>3
      <4> QED
        BY <4>1
    <3> QED
      BY <3>2, <3>3
  <2> QED
    BY <2>4, <2>5
<1>3. Nat \subseteq T
  <2> HIDE DEF T
  <2>1. T \subseteq Nat
    BY DEF T
  <2> QED
    BY <1>1, <1>2, NaturalsByInduction
<1>4. Cardinality(S) \in Nat
  BY FS_CardinalityType
<1>5. \E m \in S : \A k \in S : m >= k
  BY <1>3, <1>4
<1>6. PICK m \in S : \A k \in S : m >= k
  BY <1>5
<1> QED
  BY <1>6 DEF Max

LEMMA LongestLeg == Max(Legs) \in Nat /\ Max(Legs) \in Legs /\ \A l \in Legs : l <= Max(Legs)
BY Constants, GreatestOne

LEMMA ShortestLeg == Min(Legs) \in Nat /\ Min(Legs) \in Legs /\ \A l \in Legs : l >= Min(Legs)
BY Constants, LeastOne

-----------------------------------------------------------------------------
(* The smoothed slope.                                                     *)

\* A sum of samples is what its recursive definition says.
LEMMA SumsOfSamples ==
  ASSUME NEW s \in Seq(Int), NEW i \in Nat, NEW j \in Nat, 1 <= i, i <= j + 1, j <= Len(s)
  PROVE  \E f : /\ f[i - 1] = 0 /\ SumOf(s, i, j) = f[j]
                /\ \A k \in i..j : f[k] = f[k - 1] + s[k]
<1> DEFINE n == j - i + 1
           term == [k \in 1..n |-> s[k + i - 1]]
           Sums(f) == f = [k \in (i - 1)..j |-> IF k = i - 1 THEN 0 ELSE f[k - 1] + s[k]]
           sum == CHOOSE f : Sums(f)
<1>1. n \in Nat /\ term \in [1..n -> Int]
  <2>1. \A k \in 1..n : k + i - 1 \in 1..Len(s)
    BY SMT
  <2> QED
    BY <2>1, SMT
<1>2. PICK f : f = [k \in 0..n |-> IF k = 0 THEN 0 ELSE f[k - 1] + term[k]]
  BY <1>1, SumsExist
<1> DEFINE g == [k \in (i - 1)..j |-> f[k - (i - 1)]]
<1>3. ASSUME NEW k \in (i - 1)..j
      PROVE  g[k] = IF k = i - 1 THEN 0 ELSE g[k - 1] + s[k]
  <2>1. CASE k = i - 1
    <3>1. f[0] = 0
      BY <1>1, <1>2
    <3> QED
      BY <2>1, <3>1
  <2>2. CASE k # i - 1
    <3> DEFINE d == k - (i - 1)
    <3>1. d \in 1..n /\ d - 1 = (k - 1) - (i - 1) /\ k - 1 \in (i - 1)..j /\ d + i - 1 = k
      BY <2>2, SMT
    <3>2. f[d] = f[d - 1] + term[d] /\ term[d] = s[k]
      <4>1. d \in 0..n /\ d # 0
        BY <3>1
      <4>2. term[d] = s[d + i - 1]
        BY <3>1
      <4> HIDE DEF term, d
      <4> QED
        BY <1>2, <3>1, <4>1, <4>2
    <3>3. g[k] = f[d] /\ g[k - 1] = f[d - 1]
      BY <3>1
    <3> HIDE DEF g, d
    <3> QED
      BY <2>2, <3>2, <3>3
  <2> QED
    BY <2>1, <2>2
<1>4. Sums(g)
  <2>1. g = [k \in (i - 1)..j |-> g[k]]
    OBVIOUS
  <2> HIDE DEF g
  <2> QED
    BY <1>3, <2>1
<1>5. Sums(sum) /\ SumOf(s, i, j) = sum[j]
  <2>1. \E f1 : Sums(f1)
    <3> HIDE DEF Sums
    <3> QED
      BY <1>4
  <2>2. Sums(sum)
    <3> HIDE DEF Sums
    <3> QED
      BY <2>1
  <2> QED
    BY <2>2 DEF SumOf
<1> HIDE DEF sum
<1>6. sum[i - 1] = 0 /\ \A k \in i..j : sum[k] = sum[k - 1] + s[k]
  <2>1. i - 1 \in (i - 1)..j /\ \A k \in i..j : k \in (i - 1)..j /\ k # i - 1
    BY SMT
  <2> QED
    BY <1>5, <2>1
<1> QED
  BY <1>5, <1>6

\* Up to the span of the filter the average is over all samples so far, ...
LEMMA SlopeAtTheStart ==
  ASSUME NEW s \in Seq(Int), 2 <= Len(s), Len(s) <= 5
  PROVE  /\ Len(s) = 2 => Slope(s) = 30 * (s[2] - s[1])
         /\ Len(s) = 3 => Slope(s) = 20 * s[3] - 10 * (s[1] + s[2])
         /\ Len(s) = 4 => Slope(s) = 15 * s[4] - 5 * (s[1] + s[2] + s[3])
         /\ Len(s) = 5 => Slope(s) = 12 * s[5] - 3 * (s[1] + s[2] + s[3] + s[4])
<1>1. ASSUME NEW j \in 1..Len(s)
      PROVE  Smooth(s, j) = (60 \div j) * SumOf(s, 1, j)
  <2>0. j \in 1..5
    OBVIOUS
  <2>1. Atleast(1, j - 5 + 1) = 1 /\ j - 1 + 1 = j
    BY <2>0 DEF Atleast
  <2> QED
    BY <2>1 DEF Smooth, AverageAt, SMOOTH_SPAN, SMOOTH_UNIT
<1>2. ASSUME NEW j \in 1..Len(s)
      PROVE  /\ j = 1 => SumOf(s, 1, j) = s[1]
             /\ j = 2 => SumOf(s, 1, j) = s[1] + s[2]
             /\ j = 3 => SumOf(s, 1, j) = s[1] + s[2] + s[3]
             /\ j = 4 => SumOf(s, 1, j) = s[1] + s[2] + s[3] + s[4]
             /\ j = 5 => SumOf(s, 1, j) = s[1] + s[2] + s[3] + s[4] + s[5]
  <2>1. PICK f : f[0] = 0 /\ SumOf(s, 1, j) = f[j] /\ \A k \in 1..j : f[k] = f[k - 1] + s[k]
    <3>1. 1 \in Nat /\ j \in Nat /\ 1 <= 1 /\ 1 <= j + 1 /\ j <= Len(s) /\ 1 - 1 = 0
      OBVIOUS
    <3> QED
      BY <3>1, SumsOfSamples
  <2>2. \A k \in 1..5 : k <= j => f[k] = f[k - 1] + s[k]
    BY <2>1
  <2>3. /\ 1 <= j => f[1] = f[0] + s[1]
        /\ 2 <= j => f[2] = f[1] + s[2]
        /\ 3 <= j => f[3] = f[2] + s[3]
        /\ 4 <= j => f[4] = f[3] + s[4]
        /\ 5 <= j => f[5] = f[4] + s[5]
    BY <2>2
  <2>4. \A k \in 1..5 : k <= j => s[k] \in Int
    OBVIOUS
  <2>5. /\ 1 <= j => s[1] \in Int
        /\ 2 <= j => s[2] \in Int
        /\ 3 <= j => s[3] \in Int
        /\ 4 <= j => s[4] \in Int
        /\ 5 <= j => s[5] \in Int
    BY <2>4
  <2>6. 1 <= j => f[1] = s[1]
    BY <2>1, <2>3, <2>5
  <2>7. 2 <= j => f[2] = s[1] + s[2]
    BY <2>3, <2>6
  <2>8. 3 <= j => f[3] = s[1] + s[2] + s[3]
    BY <2>3, <2>7
  <2>9. 4 <= j => f[4] = s[1] + s[2] + s[3] + s[4]
    BY <2>3, <2>8
  <2>10. 5 <= j => f[5] = s[1] + s[2] + s[3] + s[4] + s[5]
    BY <2>3, <2>9
  <2> QED
    BY <2>1, <2>6, <2>7, <2>8, <2>9, <2>10
<1>3. /\ \A k \in 1..5 : k <= Len(s) => s[k] \in Int
      /\ 60 \div 1 = 60 /\ 60 \div 2 = 30 /\ 60 \div 3 = 20 /\ 60 \div 4 = 15 /\ 60 \div 5 = 12
  OBVIOUS
<1>4. Slope(s) = Smooth(s, Len(s)) - Smooth(s, Len(s) - 1)
  BY DEF Slope
<1>5. CASE Len(s) = 2
  <2>1. Smooth(s, 2) = 30 * (s[1] + s[2]) /\ Smooth(s, 1) = 60 * s[1]
    BY <1>1, <1>2, <1>3, <1>5
  <2> QED
    BY <1>3, <1>4, <1>5, <2>1
<1>6. CASE Len(s) = 3
  <2>1. Smooth(s, 3) = 20 * (s[1] + s[2] + s[3]) /\ Smooth(s, 2) = 30 * (s[1] + s[2])
    BY <1>1, <1>2, <1>3, <1>6
  <2> QED
    BY <1>3, <1>4, <1>6, <2>1
<1>7. CASE Len(s) = 4
  <2>1. Smooth(s, 4) = 15 * (s[1] + s[2] + s[3] + s[4]) /\ Smooth(s, 3) = 20 * (s[1] + s[2] + s[3])
    BY <1>1, <1>2, <1>3, <1>7
  <2> QED
    BY <1>3, <1>4, <1>7, <2>1
<1>8. CASE Len(s) = 5
  <2>1. /\ Smooth(s, 5) = 12 * (s[1] + s[2] + s[3] + s[4] + s[5])
        /\ Smooth(s, 4) = 15 * (s[1] + s[2] + s[3] + s[4])
    BY <1>1, <1>2, <1>3, <1>8
  <2> QED
    BY <1>3, <1>4, <1>8, <2>1
<1> QED
  BY <1>5, <1>6, <1>7, <1>8

\* ... and from there on its slope is the rise across the span.
LEMMA SlopeOfTheSpan ==
  ASSUME NEW s \in Seq(Int), Len(s) > 5
  PROVE  Slope(s) = 12 * (s[Len(s)] - s[Len(s) - 5])
<1> DEFINE n == Len(s)
<1>1. ASSUME NEW j \in 5..n
      PROVE  Smooth(s, j) = 12 * (s[j - 4] + s[j - 3] + s[j - 2] + s[j - 1] + s[j])
  <2>1. Atleast(1, j - 5 + 1) = j - 4 /\ j - (j - 4) + 1 = 5 /\ 60 \div 5 = 12
    BY DEF Atleast
  <2>2. Smooth(s, j) = 12 * SumOf(s, j - 4, j)
    BY <2>1 DEF Smooth, AverageAt, SMOOTH_SPAN, SMOOTH_UNIT
  <2>3. /\ j - 4 \in Nat /\ j \in Nat /\ 1 <= j - 4 /\ j - 4 <= j + 1 /\ j <= Len(s)
    OBVIOUS
  <2>4. PICK f : /\ f[(j - 4) - 1] = 0 /\ SumOf(s, j - 4, j) = f[j]
                 /\ \A k \in (j - 4)..j : f[k] = f[k - 1] + s[k]
    BY <2>3, SumsOfSamples
  <2>5. f[j - 5] = 0
    BY <2>4
  <2>6. /\ f[j - 4] = f[j - 5] + s[j - 4]
        /\ f[j - 3] = f[j - 4] + s[j - 3]
        /\ f[j - 2] = f[j - 3] + s[j - 2]
        /\ f[j - 1] = f[j - 2] + s[j - 1]
        /\ f[j] = f[j - 1] + s[j]
    <3>1. /\ j - 4 \in (j - 4)..j /\ j - 3 \in (j - 4)..j /\ j - 2 \in (j - 4)..j
          /\ j - 1 \in (j - 4)..j /\ j \in (j - 4)..j
          /\ (j - 4) - 1 = j - 5 /\ (j - 3) - 1 = j - 4 /\ (j - 2) - 1 = j - 3 /\ (j - 1) - 1 = j - 2
      OBVIOUS
    <3> QED
      BY <2>4, <3>1, Zenon
  <2>7. /\ s[j - 4] \in Int /\ s[j - 3] \in Int /\ s[j - 2] \in Int /\ s[j - 1] \in Int /\ s[j] \in Int
    OBVIOUS
  <2>8. SumOf(s, j - 4, j) = s[j - 4] + s[j - 3] + s[j - 2] + s[j - 1] + s[j]
    <3>1. f[j - 4] = s[j - 4]
      BY <2>5, <2>6, <2>7
    <3>2. f[j - 3] = s[j - 4] + s[j - 3]
      BY <3>1, <2>6, Zenon
    <3>3. f[j - 2] = s[j - 4] + s[j - 3] + s[j - 2]
      BY <3>2, <2>6, Zenon
    <3>4. f[j - 1] = s[j - 4] + s[j - 3] + s[j - 2] + s[j - 1]
      BY <3>3, <2>6, Zenon
    <3> QED
      BY <3>4, <2>4, <2>6, Zenon
  <2> QED
    BY <2>2, <2>8
<1>2. /\ s[n - 5] \in Int /\ s[n - 4] \in Int /\ s[n - 3] \in Int
      /\ s[n - 2] \in Int /\ s[n - 1] \in Int /\ s[n] \in Int
  OBVIOUS
<1>3. Smooth(s, n) = 12 * (s[n - 4] + s[n - 3] + s[n - 2] + s[n - 1] + s[n])
  BY <1>1
<1>4. Smooth(s, n - 1) = 12 * (s[n - 5] + s[n - 4] + s[n - 3] + s[n - 2] + s[n - 1])
  <2>1. /\ n - 1 \in 5..n /\ (n - 1) - 4 = n - 5 /\ (n - 1) - 3 = n - 4
        /\ (n - 1) - 2 = n - 3 /\ (n - 1) - 1 = n - 2
    OBVIOUS
  <2> QED
    BY <1>1, <2>1
<1>5. Slope(s) = Smooth(s, n) - Smooth(s, n - 1)
  BY DEF Slope
<1> HIDE DEF n
<1>6. PICK a \in Int, b \in Int, c \in Int, d \in Int, x \in Int, y \in Int :
        /\ x = s[n - 5] /\ a = s[n - 4] /\ b = s[n - 3]
        /\ c = s[n - 2] /\ d = s[n - 1] /\ y = s[n]
  BY <1>2, Zenon
<1>7. Slope(s) = 12 * (a + b + c + d + y) - 12 * (x + a + b + c + d)
  BY <1>3, <1>4, <1>5, <1>6, Zenon
<1>8. Slope(s) = 12 * (y - x)
  BY <1>7
<1> QED
  BY <1>6, <1>8, Zenon DEF n

\* The deadband is below one step.
LEMMA SignOfSteps ==
  ASSUME NEW d \in Int
  PROVE  /\ d > 0 => Sign(12 * d) = 1
         /\ d < 0 => Sign(12 * d) = -1
         /\ d = 0 => Sign(12 * d) = 0
<1>1. Quantum \in Nat /\ Quantum > 5
  BY Constants
<1>2. ASSUME NEW x \in Int, x > 0 PROVE Quantum * (12 * x) > 60
  <2>1. Quantum * x >= Quantum
    BY <1>1, <1>2
  <2>2. Quantum * (12 * x) = 12 * (Quantum * x) /\ Quantum * x \in Int
    BY <1>1
  <2> QED
    BY <1>1, <2>1, <2>2
<1>3. d > 0 => Quantum * (12 * d) > 60
  BY <1>2
<1>4. d < 0 => Quantum * (12 * d) < -60
  <2> SUFFICES ASSUME d < 0 PROVE Quantum * (12 * d) < -60
    OBVIOUS
  <2>1. Quantum * (12 * (-d)) > 60
    <3>1. -d \in Int /\ -d > 0
      OBVIOUS
    <3> QED
      BY <1>2, <3>1
  <2>2. Quantum * (12 * (-d)) = -(Quantum * (12 * d)) /\ Quantum * (12 * d) \in Int
    BY <1>1
  <2> QED
    BY <2>1, <2>2
<1>5. d = 0 => Quantum * (12 * d) = 0
  BY <1>1
<1>6. Quantum * (12 * d) \in Int
  BY <1>1
<1>7. Sign(12 * d) = IF Quantum * (12 * d) > 60 THEN 1 ELSE IF Quantum * (12 * d) < -60 THEN -1 ELSE 0
  BY DEF Sign, SIGN_DEADBAND, SMOOTH_UNIT
<1> HIDE DEF Sign
<1> QED
  BY <1>3, <1>4, <1>5, <1>6, <1>7

\* What the scan makes of the rise across the span, in either heading.
LEMMA ScanOfTheSpan ==
  ASSUME NEW s \in Seq(Int), Len(s) > 5, NEW h \in {-1, 1}, Scan(s), last \in {-1, 0, 1},
         NEW rise \in Int,
         rise = IF h = 1 THEN s[Len(s)] - s[Len(s) - 5] ELSE s[Len(s) - 5] - s[Len(s)]
  PROVE  /\ rise > 0 => /\ last' = h
                        /\ last = -h => reversals' = Append(reversals, Len(s))
                        /\ last # -h => reversals' = reversals
         /\ rise < 0 => /\ last' = -h
                        /\ last = h => reversals' = Append(reversals, Len(s))
                        /\ last # h => reversals' = reversals
         /\ rise = 0 => last' = last /\ reversals' = reversals
<1> DEFINE d == s[Len(s)] - s[Len(s) - 5]
           sign == Sign(Slope(s))
<1>1. d \in Int
  OBVIOUS
<1>2. rise = IF h = 1 THEN d ELSE -d
  OBVIOUS
<1> HIDE DEF d
<1>3. Slope(s) = 12 * d
  BY SlopeOfTheSpan DEF d
<1>4. /\ d > 0 => sign = 1
      /\ d < 0 => sign = -1
      /\ d = 0 => sign = 0
  BY <1>1, <1>3, SignOfSteps, Zenon
<1>5. /\ last' = IF sign = 0 THEN last ELSE sign
      /\ reversals' = IF sign # 0 /\ last # 0 /\ sign # last THEN Append(reversals, Len(s)) ELSE reversals
  BY DEF Scan
<1> HIDE DEF sign
<1>6. CASE h = 1
  BY <1>1, <1>2, <1>4, <1>5, <1>6
<1>7. CASE h = -1
  BY <1>1, <1>2, <1>4, <1>5, <1>7
<1> QED
  BY <1>6, <1>7

\* A sample that is off tilts the span by one step, when it is one of its ends.
EndAt(g, e, j, sample, clean) == (j = g => clean = sample - e) /\ (j # g => clean = sample)

Tilted(g, e, n, rise, came) ==
  \E tilt \in {-1, 0, 1} : rise = came + tilt /\ (tilt # 0 => Disturbed(g, e, n))

LEMMA TiltOfTheSpan ==
  ASSUME NEW n \in Nat, NEW g \in Nat, NEW e \in {-1, 0, 1},
         NEW x \in Int, NEW y \in Int, NEW top \in Int, NEW bottom \in Int,
         EndAt(g, e, n, x, top), EndAt(g, e, n - 5, y, bottom)
  PROVE  Tilted(g, e, n, x - y, top - bottom)
<1> USE DEF EndAt, Tilted
<1>1. CASE n = g
  <2>1. x - y = top - bottom + e /\ (e # 0 => Disturbed(g, e, n))
    BY <1>1 DEF Disturbed
  <2> QED
    BY <2>1
<1>2. CASE n - 5 = g
  <2>1. PICK d \in {-1, 0, 1} : d = -e
    OBVIOUS
  <2>2. x - y = top - bottom + d
    BY <1>2, <2>1
  <2>3. d # 0 => Disturbed(g, e, n)
    BY <1>2, <2>1 DEF Disturbed, SMOOTH_SPAN
  <2> QED
    BY <2>2, <2>3
<1>3. CASE n # g /\ n - 5 # g
  <2>1. x - y = top - bottom + 0
    BY <1>3
  <2> QED
    BY <2>1
<1> QED
  BY <1>1, <1>2, <1>3

\* While no sample has left the span, the signal of the first leg never falls.
LEMMA StartNeverFalls ==
  ASSUME NEW s \in Seq(Int), 2 <= Len(s), Len(s) <= 5, s[1] = 0,
         \A j \in 2..5 : j <= Len(s) => s[j] \in (j - 2)..j
  PROVE  Sign(Slope(s)) \in {0, 1}
<1>2. /\ s[2] \in 0..2
      /\ 3 <= Len(s) => s[3] \in 1..3
      /\ 4 <= Len(s) => s[4] \in 2..4
      /\ 5 <= Len(s) => s[5] \in 3..5
  BY SMT
<1>3. Slope(s) \in Int /\ Slope(s) >= 0
  <2>1. CASE Len(s) = 2
    <3>1. Slope(s) = 30 * (s[2] - s[1])
      BY <2>1, SlopeAtTheStart
    <3> QED
      BY <1>2, <2>1, <3>1
  <2>2. CASE Len(s) = 3
    <3>1. Slope(s) = 20 * s[3] - 10 * (s[1] + s[2])
      BY <2>2, SlopeAtTheStart
    <3> QED
      BY <1>2, <2>2, <3>1
  <2>3. CASE Len(s) = 4
    <3>1. Slope(s) = 15 * s[4] - 5 * (s[1] + s[2] + s[3])
      BY <2>3, SlopeAtTheStart
    <3> QED
      BY <1>2, <2>3, <3>1
  <2>4. CASE Len(s) = 5
    <3>1. Slope(s) = 12 * s[5] - 3 * (s[1] + s[2] + s[3] + s[4])
      BY <2>4, SlopeAtTheStart
    <3> QED
      BY <1>2, <2>4, <3>1
  <2>5. Len(s) = 2 \/ Len(s) = 3 \/ Len(s) = 4 \/ Len(s) = 5
    <3>1. \A n \in Nat : 2 <= n /\ n <= 5 => n = 2 \/ n = 3 \/ n = 4 \/ n = 5
      OBVIOUS
    <3>2. Len(s) \in Nat
      OBVIOUS
    <3> QED
      BY <3>1, <3>2, Zenon
  <2> QED
    BY <2>1, <2>2, <2>3, <2>4, <2>5, Zenon
<1>4. Quantum * Slope(s) >= 0 /\ Quantum * Slope(s) \in Int
  BY <1>3, Constants
<1> QED
  BY <1>4 DEF Sign, SIGN_DEADBAND, SMOOTH_UNIT

\* A sample of l, the samples before it as they were.
Prolongs(s, g, e, r, h, d) == \A j \in 1..Len(s) : Clean(r, h, d, j) = Clean(s, g, e, j)

Continues(g, e, h, d, l) ==
  /\ Prolongs(series, g, e, series', h, d)
  /\ Clean(series', h, d, Len(series')) = l

\* A sample is explained by the glitch there was, or is the glitch.
LEMMA SampleIsExplained ==
  ASSUME CalibrationTypeOK, NEW g \in 0..Len(series), NEW e \in {-1, 0, 1}, GlitchIsOne(g, e),
         NEW l \in Int, Sample(l)
  PROVE  /\ series' \in Seq(Int) /\ Len(series') = Len(series) + 1 /\ Scan(series')
         /\ glitches' \in 0..MaxGlitches
         /\ \E h \in 0..Len(series'), d \in {-1, 0, 1} :
              /\ GlitchIsOne(h, d)'
              /\ Continues(g, e, h, d, l)
              /\ e # 0 => h = g /\ d = e
              /\ d # 0 => MaxGlitches = 1 /\ MaxRests <= 1
<1>1. PICK off \in {-1, 0, 1} :
        /\ series' = Append(series, l + off) /\ Scan(series')
        /\ glitches' = glitches + (IF off = 0 THEN 0 ELSE 1) /\ glitches' <= MaxGlitches
  BY DEF Sample
<1>2. /\ series \in Seq(Int) /\ Len(series) \in Nat /\ glitches \in Nat
      /\ MaxRests \in Nat /\ MaxGlitches \in Nat /\ MaxRests + 2 * MaxGlitches <= 3
  BY Constants DEF CalibrationTypeOK
<1>3. /\ series' \in Seq(Int) /\ Len(series') = Len(series) + 1 /\ glitches' \in 0..MaxGlitches
      /\ series'[Len(series')] = l + off /\ \A j \in 1..Len(series) : series'[j] = series[j]
  <2>1. l + off \in Int
    OBVIOUS
  <2>2. glitches' \in 0..MaxGlitches
    BY <1>1, <1>2
  <2> QED
    BY <1>1, <1>2, <2>1, <2>2
<1>4. \A j \in 1..Len(series) : series[j] \in Int
  BY <1>2
<1>5. glitches = 0 => e = 0
  BY DEF GlitchIsOne
<1>6. CASE off = 0
  <2>1. g \in 0..Len(series') /\ GlitchIsOne(g, e)'
    <3>1. g \in 0..Len(series') /\ glitches' = glitches
      BY <1>1, <1>2, <1>3, <1>6
    <3> QED
      BY <1>5, <3>1 DEF GlitchIsOne
  <2>2. \A j \in 1..Len(series) : Clean(series', g, e, j) = Clean(series, g, e, j)
    BY <1>3 DEF Clean
  <2>3. Clean(series', g, e, Len(series')) = l
    <3>1. Len(series') # g /\ l + off = l
      BY <1>2, <1>3, <1>6
    <3> QED
      BY <1>3, <3>1, Zenon DEF Clean
  <2>4. e # 0 => MaxGlitches = 1 /\ MaxRests <= 1
    BY <1>1, <1>2, <1>5
  <2> QED
    BY <1>1, <1>3, <2>1, <2>2, <2>3, <2>4, Zenon DEF Continues, Prolongs
<1>7. CASE off # 0
  <2>0. PICK h \in Nat : h = Len(series')
    BY <1>2, <1>3
  <2>1. glitches = 0 /\ glitches' = 1 /\ MaxGlitches = 1 /\ MaxRests <= 1 /\ e = 0
    <3>1. glitches' = glitches + 1
      BY <1>1, <1>7
    <3> QED
      BY <1>1, <1>2, <1>5, <3>1
  <2>2. h \in 0..Len(series') /\ GlitchIsOne(h, off)'
    BY <1>2, <1>3, <2>0, <2>1 DEF GlitchIsOne
  <2>3. ASSUME NEW j \in 1..Len(series) PROVE Clean(series', h, off, j) = Clean(series, g, e, j)
    <3>1. j # h
      BY <1>2, <1>3, <2>0
    <3>2. Clean(series', h, off, j) = series[j]
      BY <1>3, <3>1, Zenon DEF Clean
    <3>3. series[j] - e = series[j]
      BY <1>4, <2>1
    <3> QED
      BY <3>2, <3>3, Zenon DEF Clean
  <2>4. Clean(series', h, off, Len(series')) = l
    <3>1. Clean(series', h, off, h) = series'[h] - off
      BY Zenon DEF Clean
    <3>3. series'[h] = l + off
      BY <1>3, <2>0, Zenon
    <3>2. l + off - off = l
      <4>1. \A x, y \in Int : x + y - y = x
        OBVIOUS
      <4> QED
        BY <4>1
    <3> QED
      BY <2>0, <3>1, <3>2, <3>3
  <2> QED
    BY <1>1, <1>3, <2>1, <2>2, <2>3, <2>4, Zenon DEF Continues, Prolongs
<1> QED
  BY <1>6, <1>7, Zenon

\* The sample without its glitch is a number.
LEMMA CleanType ==
  ASSUME NEW s \in Seq(Int), NEW g, NEW e \in {-1, 0, 1}, NEW j \in 1..Len(s)
  PROVE  Clean(s, g, e, j) \in Int
<1>1. s[j] \in Int /\ s[j] - e \in Int
  OBVIOUS
<1> QED
  BY <1>1, Zenon DEF Clean

\* How far the process came, seen from the sample before: a step in the heading adds
\* one, a rest nothing, and a turn turns it around.
CameOn(s, r, l, up, g, e, h, d, i) ==
  LET before == CameTo(s, l, up, g, e, i - 1)
  IN  /\ i - 1 \in 0..5 /\ i - 1 < Len(s) /\ before \in Int
      /\ CameTo(r, l + up, up, h, d, i) = before + 1
      /\ CameTo(r, l, up, h, d, i) = before
      /\ up = 1 => CameTo(r, l - 1, -1, h, d, i) = 1 - before
      /\ up = -1 => CameTo(r, l + 1, 1, h, d, i) = 1 - before

LEMMA CameSteps ==
  ASSUME NEW s \in Seq(Int), NEW r \in Seq(Int), Len(r) = Len(s) + 1,
         NEW g, NEW e \in {-1, 0, 1}, NEW h, NEW d,
         Prolongs(s, g, e, r, h, d),
         NEW l \in Int, NEW up \in {-1, 1}, NEW i \in 1..5, i < Len(r)
  PROVE  CameOn(s, r, l, up, g, e, h, d, i)
<1>1. i - 1 \in 0..5 /\ i - 1 < Len(s)
  OBVIOUS
<1>2. PICK j \in 1..Len(s) : j = Len(s) - (i - 1) /\ j = Len(r) - i
  <2>1. Len(s) - (i - 1) \in 1..Len(s) /\ Len(s) - (i - 1) = Len(r) - i
    BY <1>1
  <2> QED
    BY <2>1, Zenon
<1>3. PICK c \in Int : c = Clean(s, g, e, j)
  BY CleanType
<1>4. Clean(r, h, d, j) = c
  BY <1>3, Zenon DEF Prolongs
<1>5. ASSUME NEW m \in Int
      PROVE  /\ CameTo(s, m, 1, g, e, i - 1) = m - c /\ CameTo(s, m, -1, g, e, i - 1) = c - m
             /\ CameTo(r, m, 1, h, d, i) = m - c /\ CameTo(r, m, -1, h, d, i) = c - m
  <2>1. ~(-1 = 1)
    OBVIOUS
  <2> QED
    BY <1>2, <1>3, <1>4, <2>1, Zenon DEF CameTo
<1>6. l + up \in Int /\ l - 1 \in Int /\ l + 1 \in Int /\ (up = 1 \/ up = -1)
  OBVIOUS
<1>7. CASE up = 1
  <2>1. /\ CameTo(s, l, up, g, e, i - 1) = l - c
        /\ CameTo(r, l + up, up, h, d, i) = (l + up) - c
        /\ CameTo(r, l, up, h, d, i) = l - c
        /\ CameTo(r, l - 1, -1, h, d, i) = c - (l - 1)
    BY <1>5, <1>6, <1>7, Zenon
  <2>2. l - c \in Int /\ (l + up) - c = (l - c) + 1 /\ c - (l - 1) = 1 - (l - c) /\ ~(1 = -1)
    BY <1>7
  <2> QED
    BY <1>1, <1>7, <2>1, <2>2, Zenon DEF CameOn
<1>8. CASE up = -1
  <2>1. /\ CameTo(s, l, up, g, e, i - 1) = c - l
        /\ CameTo(r, l + up, up, h, d, i) = c - (l + up)
        /\ CameTo(r, l, up, h, d, i) = c - l
        /\ CameTo(r, l + 1, 1, h, d, i) = (l + 1) - c
    BY <1>5, <1>6, <1>8, Zenon
  <2>2. c - l \in Int /\ c - (l + up) = (c - l) + 1 /\ (l + 1) - c = 1 - (c - l) /\ ~(-1 = 1)
    BY <1>8
  <2> QED
    BY <1>1, <1>8, <2>1, <2>2, Zenon DEF CameOn
<1> QED
  BY <1>6, <1>7, <1>8, Zenon

LEMMA CameNowhere ==
  ASSUME NEW r \in Seq(Int), NEW l \in Int, NEW up, NEW h, NEW d, Clean(r, h, d, Len(r)) = l
  PROVE  CameTo(r, l, up, h, d, 0) = 0
<1>1. \A n \in Int : n - n = 0 /\ n - 0 = n
  OBVIOUS
<1>2. Len(r) \in Int
  OBVIOUS
<1> QED
  BY <1>1, <1>2, Zenon DEF CameTo

\* The two headings are opposite.
LEMMA Opposites == ASSUME NEW x \in Int, NEW y, y = -x PROVE x + y = 0
OBVIOUS

LEMMA OppositeType == ASSUME NEW x \in Int PROVE -x \in Int
OBVIOUS

LEMMA Differences == ASSUME NEW x, NEW y, NEW a, NEW b, a = x, b = y PROVE a - b = x - y
OBVIOUS

LEMMA Headings == \A x, y \in Int : x + y = 0 => (x = 1 => y = -1) /\ (x = -1 => y = 1)
OBVIOUS

Reversed(up, down, l, k) ==
  \/ up = 1 /\ down = -1 /\ k = l - 1
  \/ up = -1 /\ down = 1 /\ k = l + 1

LEMMA Turning ==
  ASSUME NEW up \in {-1, 1}, NEW down, NEW l \in Int, NEW k, down = -up, k = l - up
  PROVE  Reversed(up, down, l, k)
<1>1. (up = 1 => l - up = l - 1) /\ (up = -1 => l - up = l + 1)
  OBVIOUS
<1>2. up \in Int /\ (up = 1 \/ up = -1)
  OBVIOUS
<1>3. -up \in Int /\ up + (-up) = 0
  BY <1>2, Opposites, OppositeType
<1>4. (up = 1 => -up = -1) /\ (up = -1 => -up = 1)
  BY <1>2, <1>3, Headings, Zenon
<1> QED
  BY <1>1, <1>2, <1>4, Zenon DEF Reversed

\* The same of a step of the process.
CameBy(g, e, h, d, i) ==
  LET before == Came(g, e, i - 1)
      after  == CameTo(series', level', heading', h, d, i)
  IN  /\ i - 1 \in 0..5 /\ i - 1 < Len(series) /\ before \in Int
      /\ heading' = heading /\ level' = level + heading => after = before + 1
      /\ heading' = heading /\ level' = level => after = before
      /\ heading' = -heading /\ level' = level - heading => after = 1 - before

LEMMA CameAfter ==
  ASSUME CalibrationTypeOK, series' \in Seq(Int), Len(series') = Len(series) + 1,
         NEW g, NEW e \in {-1, 0, 1}, NEW h, NEW d, Continues(g, e, h, d, level'),
         NEW i \in 1..5, i < Len(series')
  PROVE  CameBy(g, e, h, d, i)
<1>1. series \in Seq(Int) /\ level \in Int /\ heading \in {-1, 1}
  BY DEF CalibrationTypeOK
<1>2. Prolongs(series, g, e, series', h, d)
  BY DEF Continues
<1>3. Came(g, e, i - 1) = CameTo(series, level, heading, g, e, i - 1)
  BY DEF Came
<1>4. /\ i - 1 \in 0..5 /\ i - 1 < Len(series) /\ Came(g, e, i - 1) \in Int
      /\ CameTo(series', level + heading, heading, h, d, i) = Came(g, e, i - 1) + 1
      /\ CameTo(series', level, heading, h, d, i) = Came(g, e, i - 1)
      /\ heading = 1 => CameTo(series', level - 1, -1, h, d, i) = 1 - Came(g, e, i - 1)
      /\ heading = -1 => CameTo(series', level + 1, 1, h, d, i) = 1 - Came(g, e, i - 1)
  <2>1. CameOn(series, series', level, heading, g, e, h, d, i)
    BY <1>1, <1>2, CameSteps
  <2> QED
    BY <1>3, <2>1, Zenon DEF CameOn
<1>5. heading' = -heading /\ level' = level - heading =>
        Reversed(heading, heading', level, level')
  BY <1>1, Turning, Zenon
<1>6. heading' = -heading /\ level' = level - heading =>
        CameTo(series', level', heading', h, d, i) = 1 - Came(g, e, i - 1)
  BY <1>4, <1>5, Zenon DEF Reversed
<1> QED
  BY <1>4, <1>6, Zenon DEF CameBy

LEMMA SteppedFurther ==
  ASSUME NEW x \in Int, NEW i \in 1..5, NEW first, NEW steps \in Nat, NEW paused \in Nat,
         NEW restless, Stepped(x, i - 1, first, steps, paused, restless),
         steps < 6 => paused = 0, first \/ steps >= 1
  PROVE  Stepped(x + 1, i, first, steps + 1, paused, restless)
<1>1. MaxRests \in Nat
  BY Constants
<1>2. CASE first \/ steps >= 5
  BY <1>2 DEF Stepped, SMOOTH_SPAN
<1>3. CASE ~first /\ steps < 5
  BY <1>1, <1>3 DEF Stepped, SMOOTH_SPAN
<1> QED
  BY <1>2, <1>3

LEMMA SteppedStill ==
  ASSUME NEW x \in Int, NEW i \in 1..5, NEW first, NEW steps \in Nat, NEW paused \in Nat,
         NEW restless, Stepped(x, i - 1, first, steps, paused, restless), steps >= 6
  PROVE  Stepped(x, i, first, steps, paused + 1, restless)
BY DEF Stepped, SMOOTH_SPAN

LEMMA SteppedAround ==
  ASSUME NEW x \in Int, NEW i \in 1..5, NEW first, NEW steps \in Nat, NEW paused \in 0..MaxRests,
         NEW before, Stepped(x, i - 1, first, steps, paused, before), steps >= 6,
         NEW restless, restless => paused = 0
  PROVE  Stepped(1 - x, i, FALSE, 1, 0, restless)
<1>1. MaxRests \in Nat /\ paused \in Nat
  BY Constants
<1>2. x \in 0..(i - 1) /\ (i - 1) - paused <= x
  BY DEF Stepped, SMOOTH_SPAN
<1>3. CASE i = 1
  BY <1>2, <1>3 DEF Stepped, SMOOTH_SPAN
<1>4. CASE i # 1
  <2>1. ~(FALSE \/ 1 >= 5) /\ ~(i <= 1)
    BY <1>4
  <2>2. 1 - x \in (2 * 1 - i)..1 /\ 1 - x <= 2 * 1 - i + MaxRests /\ (restless => 1 - x = 2 * 1 - i)
    BY <1>1, <1>2, <1>4
  <2> QED
    BY <2>1, <2>2 DEF Stepped, SMOOTH_SPAN
<1> QED
  BY <1>3, <1>4

LEMMA SteppedNowhere ==
  ASSUME NEW first, NEW steps \in Nat, NEW paused \in Nat, NEW restless
  PROVE  Stepped(0, 0, first, steps, paused, restless)
BY DEF Stepped, SMOOTH_SPAN

\* A step of the process, and what it does to the explanation of the earlier samples.
StepIsExplained ==
  \/ /\ heading' = heading /\ level' = level + heading
     /\ \A i \in 1..5, x \in Int :
          Stepped(x, i - 1, turns = <<>>, leg, rests, Restless) =>
            Stepped(x + 1, i, turns' = <<>>, leg', rests', Restless')
  \/ /\ heading' = heading /\ level' = level
     /\ \A i \in 1..5, x \in Int :
          Stepped(x, i - 1, turns = <<>>, leg, rests, Restless) =>
            Stepped(x, i, turns' = <<>>, leg', rests', Restless')
  \/ /\ heading' = -heading /\ level' = level - heading
     /\ \A i \in 1..5, x \in Int :
          Stepped(x, i - 1, turns = <<>>, leg, rests, Restless) =>
            Stepped(1 - x, i, turns' = <<>>, leg', rests', Restless')

\* The samples after a step are explained like those before it.
LEMMA SpanAfter ==
  ASSUME CalibrationTypeOK, NEW g, NEW e \in {-1, 0, 1}, SpanIsSteps(g, e),
         series' \in Seq(Int), Len(series') = Len(series) + 1,
         NEW h, NEW d, Continues(g, e, h, d, level'), level' \in Int,
         leg' \in Nat, rests' \in Nat,
         StepIsExplained
  PROVE  SpanIsSteps(h, d)'
<1> SUFFICES ASSUME NEW i \in 0..5, i < Len(series')
             PROVE  Stepped(CameTo(series', level', heading', h, d, i), i, turns' = <<>>, leg', rests', Restless')
  BY Zenon DEF SpanIsSteps, Came, SMOOTH_SPAN
<1>1. CASE i = 0
  <2>1. CameTo(series', level', heading', h, d, 0) = 0
    BY CameNowhere, Zenon DEF Continues
  <2> QED
    BY <1>1, <2>1, SteppedNowhere, Zenon
<1>2. CASE i # 0
  <2>1. i \in 1..5
    BY <1>2
  <2> DEFINE x == Came(g, e, i - 1)
  <2>2. /\ i - 1 \in 0..5 /\ i - 1 < Len(series) /\ x \in Int
        /\ heading' = heading /\ level' = level + heading =>
             CameTo(series', level', heading', h, d, i) = x + 1
        /\ heading' = heading /\ level' = level =>
             CameTo(series', level', heading', h, d, i) = x
        /\ heading' = -heading /\ level' = level - heading =>
             CameTo(series', level', heading', h, d, i) = 1 - x
    <3>1. CameBy(g, e, h, d, i)
      BY <2>1, CameAfter, Zenon
    <3> QED
      BY <3>1, Zenon DEF CameBy
  <2>3. Stepped(x, i - 1, turns = <<>>, leg, rests, Restless)
    BY <2>2, Zenon DEF SpanIsSteps, SMOOTH_SPAN
  <2> HIDE DEF x
  <2> QED
    BY <2>1, <2>2, <2>3, Zenon DEF StepIsExplained
<1> QED
  BY <1>1, <1>2

\* The oriented rise across the span, by the leg the process is in after the step.
Risen(rise, first, steps, restless, disturbed) ==
  /\ first \/ steps >= SMOOTH_SPAN => rise > 0
  /\ ~first /\ steps = 1 => rise <= 0
  /\ ~first /\ steps = 2 /\ rise > 0 => MaxGlitches = 0 \/ (disturbed /\ ~restless)
  /\ ~first /\ steps = 3 => rise >= 0 /\ (rise = 0 => disturbed)
  /\ ~first /\ steps = 4 => rise > 0

LEMMA RiseOfSteps ==
  ASSUME NEW c \in Int, NEW tilt \in {-1, 0, 1}, NEW first, NEW steps \in Nat,
         NEW paused \in 0..MaxRests, NEW restless, NEW disturbed,
         Stepped(c, 5, first, steps, paused, restless), first \/ steps >= 1,
         tilt # 0 => disturbed, disturbed => MaxGlitches = 1 /\ MaxRests <= 1
  PROVE  Risen(c + tilt, first, steps, restless, disturbed)
<1>1. MaxRests \in Nat /\ MaxRests <= 3 /\ paused \in Nat /\ paused <= MaxRests
      /\ (MaxGlitches # 0 => MaxRests <= 1)
  BY Constants
<1>2. CASE first \/ steps >= 5
  <2>1. c >= 5 - paused
    BY <1>1, <1>2 DEF Stepped, SMOOTH_SPAN
  <2>2. c + tilt > 0
    BY <1>1, <2>1
  <2> QED
    BY <1>2, <2>2 DEF Risen, SMOOTH_SPAN
<1>3. CASE ~first /\ steps < 5
  <2>1. /\ c \in (2 * steps - 5)..steps /\ c <= 2 * steps - 5 + MaxRests
        /\ restless => c = 2 * steps - 5
    BY <1>3 DEF Stepped, SMOOTH_SPAN
  <2>2. CASE steps = 1
    BY <1>1, <1>3, <2>1, <2>2 DEF Risen, SMOOTH_SPAN
  <2>3. CASE steps = 2
    <3>1. c + tilt > 0 /\ MaxGlitches # 0 => disturbed /\ ~restless
      BY <1>1, <2>1, <2>3
    <3> QED
      BY <1>3, <2>3, <3>1 DEF Risen, SMOOTH_SPAN
  <2>4. CASE steps = 3
    BY <1>1, <1>3, <2>1, <2>4 DEF Risen, SMOOTH_SPAN
  <2>5. CASE steps = 4
    BY <1>1, <1>3, <2>1, <2>5 DEF Risen, SMOOTH_SPAN
  <2> QED
    BY <1>3, <2>2, <2>3, <2>4, <2>5
<1> QED
  BY <1>2, <1>3

\* What a scan makes of a rise.
Scanned(rise) ==
  /\ rise > 0 => /\ last' = heading'
                 /\ last = -heading' => reversals' = Append(reversals, Len(series'))
                 /\ last # -heading' => reversals' = reversals
  /\ rise < 0 => /\ last' = -heading'
                 /\ last = heading' => reversals' = Append(reversals, Len(series'))
                 /\ last # heading' => reversals' = reversals
  /\ rise = 0 => last' = last /\ reversals' = reversals

\* The two ends of the span, from the process.
RiseIs(s, l, up, g, e, c, tilt, rise) ==
  /\ c = CameTo(s, l, up, g, e, 5)
  /\ rise = IF up = 1 THEN s[Len(s)] - s[Len(s) - 5] ELSE s[Len(s) - 5] - s[Len(s)]
  /\ rise = c + tilt
  /\ tilt # 0 => Disturbed(g, e, Len(s))

RiseFollows(s, l, up, g, e) ==
  \E c \in Int, tilt \in {-1, 0, 1}, rise \in Int : RiseIs(s, l, up, g, e, c, tilt, rise)

LEMMA EndsOfTheSpan ==
  ASSUME NEW s \in Seq(Int), Len(s) > 5, NEW g \in Nat, NEW e \in {-1, 0, 1}, NEW l \in Int,
         NEW up \in {-1, 1}, Clean(s, g, e, Len(s)) = l
  PROVE  RiseFollows(s, l, up, g, e)
<1>1. PICK n \in Nat : n = Len(s) /\ n > 5 /\ n - 5 \in 1..Len(s) /\ n \in 1..Len(s)
  OBVIOUS
<1>2. PICK x, y \in Int : x = s[n] /\ y = s[n - 5]
  BY <1>1
<1>3. PICK k \in Int : k = Clean(s, g, e, n - 5)
  BY <1>1, CleanType
<1>4. EndAt(g, e, n, x, l)
  BY <1>1, <1>2, Zenon DEF Clean, EndAt
<1>5. EndAt(g, e, n - 5, y, k)
  BY <1>1, <1>2, <1>3, Zenon DEF Clean, EndAt
<1>6. PICK t \in {-1, 0, 1} : x - y = l - k + t /\ (t # 0 => Disturbed(g, e, n))
  <2>1. Tilted(g, e, n, x - y, l - k)
    BY <1>4, <1>5, TiltOfTheSpan, Zenon
  <2> QED
    BY <2>1, Zenon DEF Tilted
<1>7. CASE up = 1
  <2>1. CameTo(s, l, up, g, e, 5) = l - k
    BY <1>1, <1>3, <1>7, Zenon DEF CameTo
  <2>2. l - k \in Int /\ x - y \in Int /\ x - y = (l - k) + t
    BY <1>6
  <2> QED
    BY <1>1, <1>2, <1>6, <1>7, <2>1, <2>2, Zenon DEF RiseIs, RiseFollows
<1>8. CASE up = -1
  <2>0. ~(-1 = 1)
    OBVIOUS
  <2>1. CameTo(s, l, up, g, e, 5) = k - l
    BY <1>1, <1>3, <1>8, <2>0, Zenon DEF CameTo
  <2>2. PICK u \in {-1, 0, 1} : u = -t
    OBVIOUS
  <2>3. k - l \in Int /\ y - x \in Int /\ y - x = (k - l) + u /\ (u # 0 => t # 0)
    BY <1>6, <2>2
  <2> QED
    BY <1>1, <1>2, <1>6, <1>8, <2>0, <2>1, <2>3, Zenon DEF RiseIs, RiseFollows
<1> QED
  BY <1>7, <1>8

\* Once samples leave the span, the scan sees how far the process came.
RisesAsStepped(h, d) ==
  \E rise \in Int :
    /\ Scanned(rise)
    /\ Risen(rise, turns' = <<>>, leg', Restless', Disturbed(h, d, Len(series')))

LEMMA RiseAfter ==
  ASSUME CalibrationTypeOK, series' \in Seq(Int), Len(series') > 5, Scan(series'),
         NEW h \in Nat, NEW d \in {-1, 0, 1}, Clean(series', h, d, Len(series')) = level',
         level' \in Int, heading' \in {-1, 1}, SpanIsSteps(h, d)',
         leg' \in Nat, rests' \in 0..MaxRests, turns' = <<>> \/ leg' >= 1,
         d # 0 => MaxGlitches = 1 /\ MaxRests <= 1
  PROVE  RisesAsStepped(h, d)
<1>1. PICK c \in Int, tilt \in {-1, 0, 1}, rise \in Int :
        /\ c = CameTo(series', level', heading', h, d, 5)
        /\ rise = IF heading' = 1 THEN series'[Len(series')] - series'[Len(series') - 5]
                                  ELSE series'[Len(series') - 5] - series'[Len(series')]
        /\ rise = c + tilt
        /\ tilt # 0 => Disturbed(h, d, Len(series'))
  <2>1. RiseFollows(series', level', heading', h, d)
    BY EndsOfTheSpan, Zenon
  <2> QED
    BY <2>1, Zenon DEF RiseIs, RiseFollows
<1>2. Stepped(c, 5, turns' = <<>>, leg', rests', Restless')
  <2>1. 5 \in 0..5
    OBVIOUS
  <2> QED
    BY <1>1, <2>1, Zenon DEF SpanIsSteps, Came, SMOOTH_SPAN
<1>3. Scanned(rise)
  <2>1. last \in {-1, 0, 1}
    BY DEF CalibrationTypeOK
  <2>2. /\ rise > 0 => /\ last' = heading'
                       /\ last = -heading' => reversals' = Append(reversals, Len(series'))
                       /\ last # -heading' => reversals' = reversals
        /\ rise < 0 => /\ last' = -heading'
                       /\ last = heading' => reversals' = Append(reversals, Len(series'))
                       /\ last # heading' => reversals' = reversals
        /\ rise = 0 => last' = last /\ reversals' = reversals
    BY <1>1, <2>1, ScanOfTheSpan, Zenon
  <2> QED
    BY <2>2, Zenon DEF Scanned
<1>4. Disturbed(h, d, Len(series')) => MaxGlitches = 1 /\ MaxRests <= 1
  BY Zenon DEF Disturbed
<1>6. Risen(c + tilt, turns' = <<>>, leg', Restless', Disturbed(h, d, Len(series')))
  BY <1>1, <1>2, <1>4, RiseOfSteps, Zenon
<1> QED
  BY <1>1, <1>3, <1>6, Zenon DEF RisesAsStepped

-----------------------------------------------------------------------------
(* The legs, step by step.                                                 *)

StepTypes ==
  /\ level' \in Int /\ heading' \in {-1, 1} /\ leg' \in 0..Max(Legs) /\ rests' \in 0..MaxRests
  /\ turns' \in Seq(1..Len(series'))

\* The order of the turns is one of the places of a sequence.
Placed(s, n) ==
  /\ \A k \in 1..Len(s) : s[k] >= 8
  /\ \A k \in 1..(Len(s) - 1) : s[k + 1] - s[k] \in 6..(Max(Legs) + MaxRests)

OneMore(s, n, t) ==
  /\ Placed(t, n) /\ t \in Seq(1..n) /\ t # <<>> /\ Len(t) = Len(s) + 1
  /\ t[Len(t)] = n /\ \A k \in 1..Len(s) : t[k] = s[k]

LEMMA PlacedOneMore ==
  ASSUME NEW n \in Nat, NEW s \in Seq(1..n), NEW t, t = Append(s, n + 1), Placed(s, n), n + 1 >= 8,
         s # <<>> => (n + 1) - s[Len(s)] \in 6..(Max(Legs) + MaxRests)
  PROVE  OneMore(s, n + 1, t)
<1>0. s \in Seq(1..(n + 1)) /\ n + 1 \in 1..(n + 1)
  BY SMT
<1>1. /\ t \in Seq(1..(n + 1)) /\ t # <<>> /\ Len(t) = Len(s) + 1 /\ Len(s) \in Nat
      /\ t[Len(t)] = n + 1 /\ \A k \in 1..Len(s) : t[k] = s[k]
  BY <1>0
<1>2. ASSUME NEW k \in 1..Len(t) PROVE t[k] >= 8
  BY <1>1 DEF Placed
<1>3. ASSUME NEW k \in 1..(Len(t) - 1) PROVE t[k + 1] - t[k] \in 6..(Max(Legs) + MaxRests)
  <2>1. CASE k = Len(s)
    <3>1. s # <<>>
      BY <1>1, <2>1
    <3>2. t[k + 1] = n + 1 /\ t[k] = s[Len(s)]
      BY <1>1, <2>1
    <3>3. (n + 1) - s[Len(s)] \in 6..(Max(Legs) + MaxRests)
      BY <3>1, Zenon
    <3> QED
      BY <3>2, <3>3, SMT
  <2>2. CASE k # Len(s)
    <3>1. k \in 1..(Len(s) - 1) /\ k + 1 \in 1..Len(s) /\ k \in 1..Len(s)
      <4>1. \A m, i \in Nat : i \in 1..((m + 1) - 1) /\ i # m =>
              i \in 1..(m - 1) /\ i + 1 \in 1..m /\ i \in 1..m
        OBVIOUS
      <4>2. k \in Nat
        BY <1>1
      <4>3. Len(s) \in Nat /\ k \in 1..((Len(s) + 1) - 1)
        BY <1>1, Zenon
      <4> QED
        BY <2>2, <4>1, <4>2, <4>3, Zenon
    <3> QED
      BY <1>1, <3>1, Zenon DEF Placed
  <2> QED
    BY <2>1, <2>2
<1> QED
  <2>1. Placed(t, n + 1)
    BY <1>2, <1>3, Zenon DEF Placed
  <2> QED
    BY <1>1, <2>1, Zenon DEF OneMore

LEMMA LegsAreCountedAs ==
  LegsAreCounted <=>
    /\ series[1] = 0
    /\ leg < 6 => rests = 0
    /\ turns = <<>> => heading = 1 /\ level = leg /\ Len(series) = 1 + leg + rests
    /\ turns # <<>> => leg >= 1 /\ Len(series) = turns[Len(turns)] - 1 + leg + rests
    /\ Placed(turns, Len(series))
<1>1. SettledLeg = 6 /\ SettledLeg + 2 = 8
  BY DEF SettledLeg, SMOOTH_SPAN
<1> QED
  BY <1>1, Zenon DEF LegsAreCounted, Placed

\* What the steps of the legs read.
LegFacts ==
  /\ series \in Seq(Int) /\ Len(series) \in Nat /\ Len(series) >= 1
  /\ level \in Int /\ heading \in {-1, 1} /\ leg \in Nat /\ rests \in 0..MaxRests /\ rests \in Nat
  /\ turns \in Seq(1..Len(series)) /\ Len(turns) \in Nat
  /\ turns # <<>> => turns[Len(turns)] \in Nat /\ turns[Len(turns)] >= 8 /\ Len(turns) >= 1
  /\ turns # <<>> => Len(series) >= 8
  /\ Max(Legs) \in Nat /\ MaxRests \in Nat /\ \A l \in Legs : l \in Nat /\ l <= Max(Legs) /\ l >= 6

LEMMA LegsAreTyped ==
  ASSUME CalibrationTypeOK, LegsAreCounted
  PROVE  LegFacts
<1>1. /\ series \in Seq(Int) /\ Len(series) \in Nat
      /\ level \in Int /\ heading \in {-1, 1} /\ leg \in Nat /\ rests \in 0..MaxRests /\ rests \in Nat
      /\ turns \in Seq(1..Len(series)) /\ Len(turns) \in Nat
      /\ Max(Legs) \in Nat /\ MaxRests \in Nat /\ \A l \in Legs : l \in Nat /\ l <= Max(Legs) /\ l >= 6
  BY Constants, LongestLeg DEF CalibrationTypeOK
<1>2. turns # <<>> => Len(turns) >= 1 /\ turns[Len(turns)] \in 1..Len(series)
  BY <1>1
<1>3. \A k \in 1..Len(turns) : turns[k] >= 8
  BY LegsAreCountedAs, Zenon DEF Placed
<1>4. turns # <<>> => turns[Len(turns)] \in Nat /\ turns[Len(turns)] >= 8
  BY <1>1, <1>2, <1>3
<1>6. turns # <<>> => Len(series) >= 8
  BY <1>1, <1>2, <1>4
<1>5. Len(series) >= 1
  <2>1. turns = <<>> => Len(series) = 1 + leg + rests
    BY LegsAreCountedAs, Zenon
  <2> QED
    BY <1>1, <1>2, <2>1
<1> QED
  BY <1>1, <1>2, <1>4, <1>5, <1>6, Zenon DEF LegFacts

LEMMA MovesCount ==
  ASSUME CalibrationTypeOK, LegsAreCounted, Moves,
         series' \in Seq(Int), Len(series') = Len(series) + 1, series'[1] = 0
  PROVE  StepTypes /\ LegsAreCounted' /\ StepIsExplained
<1>1. LegFacts
  BY LegsAreTyped
<1>2. /\ leg < Max(Legs) /\ level' = level + heading /\ leg' = leg + 1
      /\ heading' = heading /\ rests' = rests /\ turns' = turns
  BY Zenon DEF Moves
<1>3. /\ leg < 6 => rests = 0
      /\ turns = <<>> => heading = 1 /\ level = leg /\ Len(series) = 1 + leg + rests
      /\ turns # <<>> => leg >= 1 /\ Len(series) = turns[Len(turns)] - 1 + leg + rests
      /\ Placed(turns, Len(series))
  BY LegsAreCountedAs, Zenon
<1>4. StepTypes
  <2>1. /\ level + heading \in Int /\ leg + 1 \in 0..Max(Legs)
        /\ turns \in Seq(1..(Len(series) + 1))
    BY <1>1, <1>2 DEF LegFacts
  <2> QED
    BY <1>1, <1>2, <2>1, Zenon DEF StepTypes, LegFacts
<1>5. LegsAreCounted'
  <2>1. /\ leg' < 6 => rests' = 0
        /\ turns' = <<>> => heading' = 1 /\ level' = leg' /\ Len(series') = 1 + leg' + rests'
        /\ turns' # <<>> => leg' >= 1 /\ Len(series') = turns'[Len(turns')] - 1 + leg' + rests'
    <3>1. /\ leg + 1 < 6 => rests = 0
          /\ turns = <<>> => heading = 1 /\ level + heading = leg + 1
                             /\ Len(series) + 1 = 1 + (leg + 1) + rests
      BY <1>1, <1>3 DEF LegFacts
    <3>2. turns # <<>> => leg + 1 >= 1 /\ Len(series) + 1 = turns[Len(turns)] - 1 + (leg + 1) + rests
      <4>1. \A a, b, c, d \in Int : a = b - 1 + c + d => a + 1 = b - 1 + (c + 1) + d
        OBVIOUS
      <4>2. /\ Len(series) \in Int /\ leg \in Int /\ rests \in Int /\ leg + 1 >= 1
            /\ turns # <<>> => turns[Len(turns)] \in Int
        BY <1>1 DEF LegFacts
      <4> SUFFICES ASSUME turns # <<>>
                   PROVE  Len(series) + 1 = turns[Len(turns)] - 1 + (leg + 1) + rests
        BY <4>2, Zenon
      <4>3. PICK a, b, c, d \in Int : a = Len(series) /\ b = turns[Len(turns)] /\ c = leg /\ d = rests
        BY <4>2, Zenon
      <4>4. a = b - 1 + c + d
        BY <1>3, <4>3, Zenon
      <4>5. a + 1 = b - 1 + (c + 1) + d
        BY <4>1, <4>4
      <4> QED
        BY <4>3, <4>5
    <3> QED
      BY <1>2, <3>1, <3>2, Zenon
  <2>2. Placed(turns', Len(series'))
    BY <1>2, <1>3, Zenon DEF Placed
  <2>3. (LegsAreCounted <=>
          /\ series[1] = 0
          /\ leg < 6 => rests = 0
          /\ turns = <<>> => heading = 1 /\ level = leg /\ Len(series) = 1 + leg + rests
          /\ turns # <<>> => leg >= 1 /\ Len(series) = turns[Len(turns)] - 1 + leg + rests
          /\ Placed(turns, Len(series)))'
    BY LegsAreCountedAs, PTL
  <2> QED
    BY <2>1, <2>2, <2>3, Zenon
<1>6. StepIsExplained
  <2>1. Restless' <=> Restless
    BY <1>2, Zenon DEF Restless
  <2>2. ASSUME NEW i \in 1..5, NEW x \in Int, Stepped(x, i - 1, turns = <<>>, leg, rests, Restless)
        PROVE  Stepped(x + 1, i, turns = <<>>, leg + 1, rests, Restless)
    <3>1. (leg < 6 => rests = 0) /\ (turns = <<>> \/ leg >= 1)
      BY <1>3, Zenon
    <3> QED
      BY <1>1, <2>2, <3>1, SteppedFurther, Zenon DEF LegFacts
  <2> QED
    BY <1>2, <2>1, <2>2, Zenon DEF StepIsExplained
<1> QED
  BY <1>4, <1>5, <1>6

LEMMA RestsCount ==
  ASSUME CalibrationTypeOK, LegsAreCounted, Rests,
         series' \in Seq(Int), Len(series') = Len(series) + 1, series'[1] = 0
  PROVE  StepTypes /\ LegsAreCounted' /\ StepIsExplained
<1>1. LegFacts
  BY LegsAreTyped
<1>2. /\ leg \in Legs /\ rests < MaxRests /\ level' = level /\ leg' = leg /\ rests' = rests + 1
      /\ heading' = heading /\ turns' = turns
  BY Zenon DEF Rests
<1>3. /\ turns = <<>> => heading = 1 /\ level = leg /\ Len(series) = 1 + leg + rests
      /\ turns # <<>> => leg >= 1 /\ Len(series) = turns[Len(turns)] - 1 + leg + rests
      /\ Placed(turns, Len(series))
  BY LegsAreCountedAs, Zenon
<1>4. leg >= 6 /\ ~(leg < 6) /\ leg \in 0..Max(Legs)
  BY <1>1, <1>2 DEF LegFacts
<1>5. StepTypes
  <2>1. rests + 1 \in 0..MaxRests /\ turns \in Seq(1..(Len(series) + 1))
    BY <1>1, <1>2 DEF LegFacts
  <2> QED
    BY <1>1, <1>2, <1>4, <2>1, Zenon DEF StepTypes, LegFacts
<1>6. LegsAreCounted'
  <2>1. turns = <<>> => Len(series) + 1 = 1 + leg + (rests + 1)
    BY <1>1, <1>3 DEF LegFacts
  <2>2. turns # <<>> => Len(series) + 1 = turns[Len(turns)] - 1 + leg + (rests + 1)
    <3>1. \A a, b, c, d \in Int : a = b - 1 + c + d => a + 1 = b - 1 + c + (d + 1)
      OBVIOUS
    <3> SUFFICES ASSUME turns # <<>>
                 PROVE  Len(series) + 1 = turns[Len(turns)] - 1 + leg + (rests + 1)
      OBVIOUS
    <3>2. Len(series) \in Int /\ leg \in Int /\ rests \in Int /\ turns[Len(turns)] \in Int
      BY <1>1 DEF LegFacts
    <3>3. PICK a, b, c, d \in Int : a = Len(series) /\ b = turns[Len(turns)] /\ c = leg /\ d = rests
      BY <3>2, Zenon
    <3>4. a = b - 1 + c + d
      BY <1>3, <3>3, Zenon
    <3>5. a + 1 = b - 1 + c + (d + 1)
      BY <3>1, <3>4
    <3> QED
      BY <3>3, <3>5
  <2>3. (LegsAreCounted <=>
          /\ series[1] = 0
          /\ leg < 6 => rests = 0
          /\ turns = <<>> => heading = 1 /\ level = leg /\ Len(series) = 1 + leg + rests
          /\ turns # <<>> => leg >= 1 /\ Len(series) = turns[Len(turns)] - 1 + leg + rests
          /\ Placed(turns, Len(series)))'
    BY LegsAreCountedAs, PTL
  <2>4. Placed(turns', Len(series'))
    BY <1>2, <1>3, Zenon DEF Placed
  <2> QED
    BY <1>2, <1>3, <1>4, <2>1, <2>2, <2>3, <2>4, Zenon
<1>7. StepIsExplained
  <2>1. Restless' <=> Restless
    BY <1>2, Zenon DEF Restless
  <2>2. ASSUME NEW i \in 1..5, NEW x \in Int, Stepped(x, i - 1, turns = <<>>, leg, rests, Restless)
        PROVE  Stepped(x, i, turns = <<>>, leg, rests + 1, Restless)
    BY <1>1, <1>4, <2>2, SteppedStill, Zenon DEF LegFacts
  <2> QED
    BY <1>2, <2>1, <2>2, Zenon DEF StepIsExplained
<1> QED
  BY <1>5, <1>6, <1>7

LEMMA TurnsCount ==
  ASSUME CalibrationTypeOK, LegsAreCounted, Turns,
         series' \in Seq(Int), Len(series') = Len(series) + 1, series'[1] = 0
  PROVE  /\ StepTypes /\ LegsAreCounted' /\ StepIsExplained
         /\ turns' # <<>> /\ Len(turns') = Len(turns) + 1 /\ \A k \in 1..Len(turns) : turns'[k] = turns[k]
<1>1. LegFacts
  BY LegsAreTyped
<1>2. /\ leg \in Legs /\ heading' = -heading /\ level' = level - heading
      /\ turns' = Append(turns, Len(series) + 1) /\ leg' = 1 /\ rests' = 0
  BY Zenon DEF Turns
<1>3. /\ turns = <<>> => heading = 1 /\ level = leg /\ Len(series) = 1 + leg + rests
      /\ turns # <<>> => leg >= 1 /\ Len(series) = turns[Len(turns)] - 1 + leg + rests
      /\ Placed(turns, Len(series))
  BY LegsAreCountedAs, Zenon
<1>4. leg >= 6 /\ leg <= Max(Legs) /\ 1 \in 0..Max(Legs) /\ 0 \in 0..MaxRests
  BY <1>1, <1>2 DEF LegFacts
<1>5. /\ turns # <<>> => (Len(series) + 1) - turns[Len(turns)] = leg + rests
      /\ turns = <<>> => Len(series) + 1 >= 8
  <2>1. \A a, b, c, d \in Int : a = b - 1 + c + d => a + 1 - b = c + d
    OBVIOUS
  <2>2. ASSUME turns # <<>>
        PROVE  (Len(series) + 1) - turns[Len(turns)] = leg + rests
    <3>2. Len(series) \in Int /\ leg \in Int /\ rests \in Int /\ turns[Len(turns)] \in Int
      BY <1>1, <2>2 DEF LegFacts
    <3>3. PICK a, b, c, d \in Int : a = Len(series) /\ b = turns[Len(turns)] /\ c = leg /\ d = rests
      BY <3>2, Zenon
    <3>4. a = b - 1 + c + d
      BY <1>3, <2>2, <3>3, Zenon
    <3>5. a + 1 - b = c + d
      BY <2>1, <3>4
    <3> QED
      BY <3>3, <3>5
  <2>3. turns = <<>> => Len(series) + 1 >= 8
    BY <1>1, <1>3, <1>4 DEF LegFacts
  <2> QED
    BY <2>2, <2>3
<1>6. /\ leg + rests \in 6..(Max(Legs) + MaxRests)
      /\ leg + rests = 6 => rests = 0
  BY <1>1, <1>4 DEF LegFacts
<1>7. Len(series) + 1 >= 8
  <2>1. CASE turns = <<>>
    BY <1>5, <2>1
  <2>2. CASE turns # <<>>
    <3>1. PICK b \in Int : b = turns[Len(turns)] /\ b >= 8
      BY <1>1, <2>2 DEF LegFacts
    <3>2. (Len(series) + 1) - b = leg + rests
      BY <1>5, <2>2, <3>1
    <3>3. \A x, y, c, m \in Int : (x + 1) - y = c /\ y >= 8 /\ c \in 6..m => x + 1 >= 8
      OBVIOUS
    <3>4. Len(series) \in Int /\ leg + rests \in Int /\ Max(Legs) + MaxRests \in Int
      BY <1>1 DEF LegFacts
    <3> QED
      BY <1>6, <3>1, <3>2, <3>3, <3>4, Zenon
  <2> QED
    BY <2>1, <2>2
<1>8. /\ Placed(turns', Len(series) + 1) /\ turns' \in Seq(1..(Len(series) + 1)) /\ turns' # <<>>
      /\ Len(turns') = Len(turns) + 1 /\ turns'[Len(turns')] = Len(series) + 1
      /\ \A k \in 1..Len(turns) : turns'[k] = turns[k]
  <2>1. turns # <<>> => (Len(series) + 1) - turns[Len(turns)] \in 6..(Max(Legs) + MaxRests)
    BY <1>5, <1>6
  <2>2. Len(series) \in Nat /\ turns \in Seq(1..Len(series))
    BY <1>1 DEF LegFacts
  <2> QED
    <3>1. OneMore(turns, Len(series) + 1, turns')
      BY <1>2, <1>3, <1>7, <2>1, <2>2, PlacedOneMore, Zenon
    <3> QED
      BY <3>1, Zenon DEF OneMore
<1>9. StepTypes
  <2>1. level - heading \in Int /\ -heading \in {-1, 1}
    BY <1>1 DEF LegFacts
  <2> QED
    BY <1>2, <1>4, <1>8, <2>1, Zenon DEF StepTypes
<1>10. LegsAreCounted'
  <2>1. leg' >= 1 /\ Len(series') = turns'[Len(turns')] - 1 + leg' + rests'
    <3>1. \A n \in Int : n = n - 1 + 1 + 0
      OBVIOUS
    <3>2. Len(series) + 1 \in Int /\ 1 >= 1
      BY <1>1 DEF LegFacts
    <3> QED
      BY <1>2, <1>8, <3>1, <3>2, Zenon
  <2>2. (LegsAreCounted <=>
          /\ series[1] = 0
          /\ leg < 6 => rests = 0
          /\ turns = <<>> => heading = 1 /\ level = leg /\ Len(series) = 1 + leg + rests
          /\ turns # <<>> => leg >= 1 /\ Len(series) = turns[Len(turns)] - 1 + leg + rests
          /\ Placed(turns, Len(series)))'
    BY LegsAreCountedAs, PTL
  <2> QED
    BY <1>2, <1>8, <2>1, <2>2, Zenon
<1>11. StepIsExplained
  <2>1. Restless' => rests = 0
    <3> SUFFICES ASSUME Restless' PROVE rests = 0
      OBVIOUS
    <3>1. Len(turns') >= 2 /\ turns'[Len(turns')] - turns'[Len(turns') - 1] = 6
      BY DEF Restless, SettledLeg, SMOOTH_SPAN
    <3>2. Len(turns') - 1 = Len(turns) /\ Len(turns) \in 1..Len(turns) /\ turns # <<>>
      BY <1>1, <1>8, <3>1 DEF LegFacts
    <3>3. turns'[Len(turns') - 1] = turns[Len(turns)]
      BY <1>8, <3>2, Zenon
    <3>4. turns'[Len(turns')] = Len(series) + 1
      BY <1>8, Zenon
    <3>6. turns'[Len(turns')] - turns'[Len(turns') - 1] = (Len(series) + 1) - turns[Len(turns)]
      BY <3>3, <3>4, Differences, Zenon
    <3>5. leg + rests = 6
      BY <1>5, <3>1, <3>2, <3>6, Zenon
    <3> QED
      BY <1>6, <3>5, Zenon
  <2>2. ASSUME NEW i \in 1..5, NEW x \in Int, Stepped(x, i - 1, turns = <<>>, leg, rests, Restless)
        PROVE  Stepped(1 - x, i, FALSE, 1, 0, Restless')
    <3>1. leg \in Nat /\ rests \in 0..MaxRests
      BY <1>1 DEF LegFacts
    <3> QED
      BY <1>4, <2>1, <2>2, <3>1, SteppedAround, Zenon
  <2>3. (turns' = <<>>) <=> FALSE
    BY <1>8
  <2>4. ASSUME NEW i \in 1..5, NEW x \in Int, Stepped(x, i - 1, turns = <<>>, leg, rests, Restless)
        PROVE  Stepped(1 - x, i, turns' = <<>>, leg', rests', Restless')
    <3>1. Stepped(1 - x, i, FALSE, 1, 0, Restless')
      BY <2>2, <2>4, Zenon
    <3> QED
      BY <1>2, <2>3, <3>1, Zenon DEF Stepped
  <2> QED
    BY <1>2, <2>4, Zenon DEF StepIsExplained
<1> QED
  BY <1>8, <1>9, <1>10, <1>11, Zenon

-----------------------------------------------------------------------------
(* The scan, step by step.                                                 *)

LEMMA HeadingTurns == ASSUME NEW x \in {-1, 1} PROVE x # -x /\ -x # x /\ -(-x) = x
OBVIOUS

LEMMA ScanWhilePending ==
  ASSUME CalibrationTypeOK, NEW rise \in Int, Scanned(rise), heading' = heading, turns' = turns,
         TurnPending, series' \in Seq(Int)
  PROVE  /\ rise > 0 => /\ TurnFound' /\ Len(reversals) + 1 = Len(turns)
                        /\ reversals' = Append(reversals, Len(series'))
         /\ ~(rise > 0) => TurnPending' /\ reversals' = reversals
<1>1. /\ heading # -heading /\ Len(turns) \in Nat /\ Len(reversals) \in Nat
  BY HeadingTurns DEF CalibrationTypeOK
<1>2. Len(reversals) + 1 = Len(turns) /\ last = -heading /\ Len(reversals) = Len(turns) - 1
  BY <1>1 DEF TurnPending
<1>3. ASSUME reversals' = Append(reversals, Len(series')) PROVE Len(reversals') = Len(turns)
  <2>1. reversals \in Seq(Nat) /\ Len(series') \in Nat
    BY DEF CalibrationTypeOK
  <2>2. Len(Append(reversals, Len(series'))) = Len(reversals) + 1
    BY <2>1
  <2> QED
    BY <1>2, <1>3, <2>2, Zenon
<1>4. rise > 0 \/ rise < 0 \/ rise = 0
  OBVIOUS
<1>5. rise > 0 => last' = heading' /\ reversals' = Append(reversals, Len(series'))
  BY <1>2, Zenon DEF Scanned
<1>6. ~(rise > 0) => last' = -heading' /\ reversals' = reversals
  BY <1>1, <1>2, <1>4, Zenon DEF Scanned
<1> QED
  BY <1>2, <1>3, <1>5, <1>6, Zenon DEF TurnFound, TurnPending

LEMMA ScanOnceFound ==
  ASSUME CalibrationTypeOK, NEW rise \in Int, Scanned(rise), heading' = heading, turns' = turns,
         TurnFound, rise >= 0
  PROVE  TurnFound' /\ reversals' = reversals
<1>1. heading # -heading
  BY HeadingTurns DEF CalibrationTypeOK
<1>2. rise > 0 \/ rise = 0
  OBVIOUS
<1> QED
  BY <1>1, <1>2, Zenon DEF Scanned, TurnFound

LEMMA ScanOfATurn ==
  ASSUME CalibrationTypeOK, NEW rise \in Int, Scanned(rise), heading' = -heading,
         Len(turns') = Len(turns) + 1, TurnFound, rise <= 0
  PROVE  TurnPending' /\ reversals' = reversals
<1>1. heading # -heading /\ -heading # heading /\ -(-heading) = heading
  BY HeadingTurns DEF CalibrationTypeOK
<1>2. rise < 0 \/ rise = 0
  OBVIOUS
<1>3. last' = -heading' /\ reversals' = reversals
  BY <1>1, <1>2, Zenon DEF Scanned, TurnFound
<1>4. Len(reversals) = Len(turns') - 1
  BY DEF TurnFound, CalibrationTypeOK
<1> QED
  BY <1>3, <1>4, Zenon DEF TurnPending

\* The lag of a reversal found at n.
LagIsExplained(g, e, n) ==
  LET turn == turns[Len(turns)]
  IN  /\ n - turn \in 1..3
      /\ n - turn = 1 => MaxGlitches = 0 \/ (Disturbed(g, e, turn + 1) /\ ~Restless)
      /\ n - turn = 3 => Disturbed(g, e, turn + 2)

ScanIsExplained(g, e) ==
  \/ reversals' = reversals
  \/ /\ turns' = turns /\ turns # <<>> /\ Len(reversals) + 1 = Len(turns)
     /\ reversals' = Append(reversals, Len(series')) /\ LagIsExplained(g, e, Len(series'))

\* Where the leg is, seen from its turn.
LEMMA LegFromItsTurn ==
  ASSUME LegFacts, series' \in Seq(Int), turns' = turns, turns # <<>>, LegsAreCounted',
         leg' \in Nat, leg' < 6
  PROVE  /\ Len(series') \in Nat /\ turns[Len(turns)] \in Nat
         /\ Len(series') - turns[Len(turns)] = leg' - 1 /\ Len(series') = turns[Len(turns)] + (leg' - 1)
<1>1. (LegsAreCounted <=>
          /\ series[1] = 0
          /\ leg < 6 => rests = 0
          /\ turns = <<>> => heading = 1 /\ level = leg /\ Len(series) = 1 + leg + rests
          /\ turns # <<>> => leg >= 1 /\ Len(series) = turns[Len(turns)] - 1 + leg + rests
          /\ Placed(turns, Len(series)))'
  BY LegsAreCountedAs, PTL
<1>2. rests' = 0 /\ Len(series') = turns[Len(turns)] - 1 + leg' + rests'
  BY <1>1, Zenon
<1>3. \A b, c, n \in Int : n = b - 1 + c + 0 => n - b = c - 1 /\ n = b + (c - 1)
  OBVIOUS
<1>4. Len(series') \in Nat /\ turns[Len(turns)] \in Nat /\ leg' \in Int
  BY DEF LegFacts
<1>5. Len(series') \in Int /\ turns[Len(turns)] \in Int
  BY <1>4
<1>6. Len(series') = turns[Len(turns)] - 1 + leg' + 0
  BY <1>2
<1> QED
  BY <1>3, <1>4, <1>5, <1>6, Zenon

\* The scan of a step of the leg after a turn.
LEMMA StayingIsScanned ==
  ASSUME CalibrationTypeOK, LegFacts, LegsAreCounted', series' \in Seq(Int),
         turns # <<>>, turns' = turns, heading' = heading,
         leg >= 1, leg' = leg + 1 \/ (leg >= 6 /\ leg' = leg),
         NEW g, NEW e, TurnsAreFound(g, e), NEW h, NEW d, RisesAsStepped(h, d),
         e # 0 => h = g /\ d = e
  PROVE  TurnsAreFound(h, d)' /\ ScanIsExplained(h, d)
<1>1. PICK rise \in Int : /\ Scanned(rise)
                          /\ Risen(rise, turns' = <<>>, leg', Restless', Disturbed(h, d, Len(series')))
  BY Zenon DEF RisesAsStepped
<1>2. leg \in Nat /\ leg' \in Nat
  BY DEF LegFacts
<1> DEFINE turn == turns[Len(turns)]  n == Len(series')
<1>3. Restless' <=> Restless
  BY Zenon DEF Restless
<1>4. leg' < 6 => /\ n \in Nat /\ turn \in Nat /\ n - turn = leg' - 1 /\ n = turn + (leg' - 1)
  BY <1>2, LegFromItsTurn, Zenon
<1>5. /\ leg = 1 => TurnPending
      /\ leg = 2 => TurnPending \/ TurnFound
      /\ leg = 3 => TurnFound \/ (TurnPending /\ Disturbed(g, e, turn + 2))
      /\ leg > 3 => TurnFound
  BY Zenon DEF TurnsAreFound
<1>6. TurnPending => /\ rise > 0 => /\ TurnFound' /\ Len(reversals) + 1 = Len(turns)
                                    /\ reversals' = Append(reversals, n)
                     /\ ~(rise > 0) => TurnPending' /\ reversals' = reversals
  BY <1>1, ScanWhilePending, Zenon
<1>7. TurnFound /\ rise >= 0 => TurnFound' /\ reversals' = reversals
  BY <1>1, ScanOnceFound, Zenon
<1>8. /\ leg' = 2 /\ rise > 0 => MaxGlitches = 0 \/ (Disturbed(h, d, n) /\ ~Restless)
      /\ leg' = 3 => rise >= 0 /\ (rise = 0 => Disturbed(h, d, n))
      /\ leg' = 4 \/ leg' >= 5 => rise > 0
  BY <1>1, <1>3, Zenon DEF Risen, SMOOTH_SPAN
<1>9. rise > 0 => rise >= 0
  OBVIOUS
<1> HIDE DEF turn, n
<1>10. CASE leg' = 2
  <2>1. leg = 1
    BY <1>2, <1>10
  <2>2. n - turn = 1 /\ n = turn + 1 /\ 1 \in 1..3 /\ ~(1 = 3)
    BY <1>4, <1>10
  <2>3. rise > 0 => LagIsExplained(h, d, n)
    BY <1>8, <1>10, <2>2, Zenon DEF LagIsExplained, turn
  <2>4. ScanIsExplained(h, d)
    BY <1>5, <1>6, <2>1, <2>3, Zenon DEF ScanIsExplained, n
  <2>5. ~(leg' = 1) /\ ~(leg' = 3) /\ ~(leg' > 3)
    BY <1>10
  <2>6. TurnsAreFound(h, d)'
    BY <1>5, <1>6, <2>1, <2>5, Zenon DEF TurnsAreFound
  <2> QED
    BY <2>4, <2>6
<1>11. CASE leg' = 3
  <2>1. leg = 2
    BY <1>2, <1>11
  <2>2. n - turn = 2 /\ n = turn + 2 /\ 2 \in 1..3 /\ ~(2 = 3) /\ ~(2 = 1)
    BY <1>4, <1>11
  <2>3. LagIsExplained(h, d, n)
    BY <2>2, Zenon DEF LagIsExplained, turn
  <2>4. ScanIsExplained(h, d)
    BY <1>5, <1>6, <1>7, <1>8, <1>11, <2>1, <2>3, Zenon DEF ScanIsExplained, n
  <2>5. ~(leg' = 1) /\ ~(leg' = 2) /\ ~(leg' > 3)
    BY <1>11
  <2>6. rise > 0 \/ rise = 0
    BY <1>8, <1>11
  <2>7. TurnFound' \/ (TurnPending' /\ Disturbed(h, d, turn + 2))
    BY <1>5, <1>6, <1>7, <1>8, <1>11, <2>1, <2>2, <2>6, Zenon
  <2>8. TurnsAreFound(h, d)'
    BY <2>5, <2>7, Zenon DEF TurnsAreFound, turn
  <2> QED
    BY <2>4, <2>8
<1>12. CASE leg' = 4
  <2>1. leg = 3 /\ rise > 0
    BY <1>2, <1>8, <1>12
  <2>2. n - turn = 3 /\ 3 \in 1..3 /\ ~(3 = 1)
    BY <1>4, <1>12
  <2>3. Disturbed(g, e, turn + 2) => Disturbed(h, d, turn + 2)
    BY Zenon DEF Disturbed
  <2>4. Disturbed(h, d, turn + 2) => LagIsExplained(h, d, n)
    BY <2>2, Zenon DEF LagIsExplained, turn
  <2>5. ScanIsExplained(h, d) /\ TurnFound'
    BY <1>5, <1>6, <1>7, <1>9, <2>1, <2>3, <2>4, Zenon DEF ScanIsExplained, n
  <2>6. ~(leg' = 1) /\ ~(leg' = 2) /\ ~(leg' = 3)
    BY <1>12
  <2>7. TurnsAreFound(h, d)'
    BY <2>5, <2>6, Zenon DEF TurnsAreFound
  <2> QED
    BY <2>5, <2>7
<1>13. CASE leg' >= 5
  <2>1. leg > 3 /\ rise > 0 /\ ~(leg' = 1) /\ ~(leg' = 2) /\ ~(leg' = 3)
    BY <1>2, <1>8, <1>13
  <2>2. TurnFound' /\ reversals' = reversals
    BY <1>5, <1>7, <1>9, <2>1, Zenon
  <2> QED
    BY <2>1, <2>2, Zenon DEF TurnsAreFound, ScanIsExplained
<1>14. leg' = 2 \/ leg' = 3 \/ leg' = 4 \/ leg' >= 5
  BY <1>2
<1> QED
  BY <1>10, <1>11, <1>12, <1>13, <1>14, Zenon

\* The scan of a turn.
LEMMA TurningIsScanned ==
  ASSUME CalibrationTypeOK, LegFacts, leg >= 6, leg' = 1, heading' = -heading,
         turns' # <<>>, Len(turns') = Len(turns) + 1, turns = <<>> => heading = 1,
         NEW g, NEW e, TurnsAreFound(g, e), NEW h, NEW d, RisesAsStepped(h, d)
  PROVE  TurnsAreFound(h, d)' /\ ScanIsExplained(h, d)
<1>1. PICK rise \in Int : /\ Scanned(rise)
                          /\ Risen(rise, turns' = <<>>, leg', Restless', Disturbed(h, d, Len(series')))
  BY Zenon DEF RisesAsStepped
<1>2. leg > 3 /\ leg >= 5 /\ ~(1 = 2) /\ ~(1 = 3) /\ ~(1 > 3)
  BY DEF LegFacts
<1>3. TurnFound
  <2>1. CASE turns = <<>>
    <3>1. Len(turns) = 0 /\ Len(reversals) = 0 /\ last = 1
      BY <1>2, <2>1, Zenon DEF TurnsAreFound, SMOOTH_SPAN
    <3> QED
      BY <2>1, <3>1, Zenon DEF TurnFound
  <2>2. CASE turns # <<>>
    BY <1>2, <2>2, Zenon DEF TurnsAreFound
  <2> QED
    BY <2>1, <2>2
<1>4. rise <= 0
  BY <1>1, Zenon DEF Risen
<1>5. TurnPending' /\ reversals' = reversals
  BY <1>1, <1>3, <1>4, ScanOfATurn, Zenon
<1> QED
  BY <1>2, <1>5, Zenon DEF TurnsAreFound, ScanIsExplained

\* The scan of the first leg, before and after samples leave the span.
LEMMA StartIsScanned ==
  ASSUME CalibrationTypeOK, turns = <<>>, turns' = turns, heading' \in {-1, 1}, LegsAreCounted',
         series' \in Seq(Int), Len(series') >= 2, Len(series') <= 5, Scan(series'),
         leg' \in Nat, rests' \in Nat,
         NEW g, NEW e, TurnsAreFound(g, e), NEW h, NEW d \in {-1, 0, 1}, SpanIsSteps(h, d)'
  PROVE  TurnsAreFound(h, d)' /\ ScanIsExplained(h, d)
<1>1. (LegsAreCounted <=>
          /\ series[1] = 0
          /\ leg < 6 => rests = 0
          /\ turns = <<>> => heading = 1 /\ level = leg /\ Len(series) = 1 + leg + rests
          /\ turns # <<>> => leg >= 1 /\ Len(series) = turns[Len(turns)] - 1 + leg + rests
          /\ Placed(turns, Len(series)))'
  BY LegsAreCountedAs, PTL
<1>2. /\ series'[1] = 0 /\ (leg' < 6 => rests' = 0) /\ heading' = 1
      /\ level' = leg' /\ Len(series') = 1 + leg' + rests'
  BY <1>1, Zenon
<1>3. /\ leg' < 5 /\ rests' = 0 /\ level' = Len(series') - 1 /\ Len(series') \in Nat
  <2>1. PICK n \in Nat : n = Len(series') /\ n <= 5
    OBVIOUS
  <2>2. n = 1 + leg' + rests'
    BY <1>2, <2>1, Zenon
  <2>6. \A x, y, z \in Nat : x = 1 + y + z /\ x <= 5 => y < 5 /\ y < 6 /\ (z = 0 => y = x - 1)
    OBVIOUS
  <2>3. leg' < 5 /\ leg' < 6
    BY <2>1, <2>2, <2>6, Zenon
  <2>4. rests' = 0
    BY <1>2, <2>3, Zenon
  <2>5. leg' = n - 1
    BY <2>1, <2>2, <2>4, <2>6, Zenon
  <2> QED
    BY <1>2, <2>1, <2>3, <2>4, <2>5, Zenon
<1>4. ASSUME NEW j \in 2..5, j <= Len(series') PROVE series'[j] \in (j - 2)..j
  <2>1. PICK i \in 0..5 : i = Len(series') - j
    BY <1>3, <1>4
  <2>2. i < Len(series') /\ Len(series') - i = j /\ j \in 1..Len(series') /\ i \in Int
    BY <1>3, <1>4, <2>1
  <2>3. PICK c \in Int : c = Clean(series', h, d, j)
    BY <2>2, CleanType
  <2>4. Stepped(level' - c, i, turns' = <<>>, leg', rests', Restless')
    <3>1. Stepped(CameTo(series', level', heading', h, d, i), i, turns' = <<>>, leg', rests', Restless')
      BY <2>2, Zenon DEF SpanIsSteps, Came, SMOOTH_SPAN
    <3>2. CameTo(series', level', heading', h, d, i) = level' - c
      BY <1>2, <2>2, <2>3, Zenon DEF CameTo
    <3> QED
      BY <3>1, <3>2, Zenon
  <2>5. level' - c \in 0..i /\ i - 0 <= level' - c
    BY <1>3, <2>4, Zenon DEF Stepped
  <2>6. c = j - 1
    BY <1>3, <2>1, <2>2, <2>5
  <2>7. (j = h => c = series'[j] - d) /\ (j # h => c = series'[j])
    BY <2>3, Zenon DEF Clean
  <2>8. series'[j] \in Int
    BY <2>2
  <2> QED
    BY <2>6, <2>7, <2>8
<1>5. Sign(Slope(series')) \in {0, 1}
  BY <1>2, <1>4, StartNeverFalls
<1>6. Len(reversals) = 0 /\ last \in {0, 1}
  BY Zenon DEF TurnsAreFound
<1>7. last' \in {0, 1} /\ reversals' = reversals
  <2> DEFINE sign == Sign(Slope(series'))
  <2>1. /\ last' = IF sign = 0 THEN last ELSE sign
        /\ reversals' = IF sign # 0 /\ last # 0 /\ sign # last THEN Append(reversals, Len(series')) ELSE reversals
    BY Zenon DEF Scan
  <2>2. sign = 0 \/ sign = 1
    BY <1>5
  <2> HIDE DEF sign
  <2> QED
    BY <1>6, <2>1, <2>2
<1>8. ~(leg' >= 5)
  BY <1>3
<1> QED
  BY <1>6, <1>7, <1>8, Zenon DEF TurnsAreFound, ScanIsExplained, SMOOTH_SPAN

LEMMA RisingIsScanned ==
  ASSUME turns = <<>>, turns' = turns, heading' = 1,
         NEW g, NEW e, TurnsAreFound(g, e), NEW h, NEW d, RisesAsStepped(h, d)
  PROVE  TurnsAreFound(h, d)' /\ ScanIsExplained(h, d)
<1>1. PICK rise \in Int : /\ Scanned(rise)
                          /\ Risen(rise, turns' = <<>>, leg', Restless', Disturbed(h, d, Len(series')))
  BY Zenon DEF RisesAsStepped
<1>2. rise > 0
  BY <1>1, Zenon DEF Risen
<1>3. Len(reversals) = 0 /\ last \in {0, 1}
  BY Zenon DEF TurnsAreFound
<1>4. last # -heading' /\ 1 \in {0, 1}
  BY <1>3
<1>5. last' = 1 /\ reversals' = reversals
  BY <1>1, <1>2, <1>4, Zenon DEF Scanned
<1> QED
  BY <1>3, <1>4, <1>5, Zenon DEF TurnsAreFound, ScanIsExplained

LEMMA FoundInOrder ==
  ASSUME CalibrationTypeOK, LegFacts, turns # <<>> => leg >= 1, NEW g, NEW e, TurnsAreFound(g, e)
  PROVE  Len(reversals) <= Len(turns)
<1>1. Len(turns) \in Nat /\ Len(reversals) \in Nat /\ leg \in Nat
  BY DEF CalibrationTypeOK, LegFacts
<1>2. CASE turns = <<>>
  BY <1>1, <1>2 DEF TurnsAreFound
<1>3. CASE turns # <<>>
  <2>1. leg = 1 \/ leg = 2 \/ leg = 3 \/ leg > 3
    BY <1>1, <1>3
  <2>2. TurnPending \/ TurnFound
    BY <1>3, <2>1, Zenon DEF TurnsAreFound
  <2> QED
    BY <1>1, <2>2 DEF TurnPending, TurnFound
<1> QED
  BY <1>2, <1>3

LEMMA LagsAfter ==
  ASSUME CalibrationTypeOK, LegsAreCounted, series' \in Seq(Int), Len(reversals) <= Len(turns),
         NEW g, NEW e, LagsAreExplained(g, e), NEW h, NEW d, ScanIsExplained(h, d),
         e # 0 => h = g /\ d = e, \A k \in 1..Len(turns) : turns'[k] = turns[k]
  PROVE  LagsAreExplained(h, d)'
<1>1. /\ Len(reversals) \in Nat /\ Len(turns) \in Nat /\ Len(series') \in Nat
      /\ reversals \in Seq(Nat) /\ turns \in Seq(Nat)
  <2>1. Len(series) \in Nat /\ reversals \in Seq(1..Len(series)) /\ turns \in Seq(1..Len(series))
    BY DEF CalibrationTypeOK
  <2>2. reversals \in Seq(Nat)
    BY <2>1
  <2>3. turns \in Seq(Nat)
    BY <2>1
  <2>4. Len(series') \in Nat
    OBVIOUS
  <2> QED
    BY <2>2, <2>3, <2>4
<1>2. ASSUME NEW k \in 1..Len(reversals), reversals'[k] = reversals[k] PROVE LagIsShort(h, d, k)'
  <2>1. /\ k \in Nat /\ k \in 1..Len(turns) /\ (k > 1 => k - 1 \in 1..Len(turns))
    BY <1>1
  <2>2. turns'[k] = turns[k] /\ (k > 1 => turns'[k - 1] = turns[k - 1])
    BY <2>1, Zenon
  <2>3. LagIsShort(g, e, k)
    BY Zenon DEF LagsAreExplained
  <2>4. \A j : Disturbed(g, e, j) => Disturbed(h, d, j)
    BY Zenon DEF Disturbed
  <2> QED
    BY <1>2, <2>2, <2>3, <2>4, Zenon DEF LagIsShort
<1>3. CASE reversals' = reversals
  BY <1>2, <1>3, Zenon DEF LagsAreExplained
<1>4. CASE /\ turns' = turns /\ turns # <<>> /\ Len(reversals) + 1 = Len(turns)
           /\ reversals' = Append(reversals, Len(series')) /\ LagIsExplained(h, d, Len(series'))
  <2>1. /\ Len(reversals') = Len(reversals) + 1 /\ reversals'[Len(turns)] = Len(series')
        /\ \A k \in 1..Len(reversals) : reversals'[k] = reversals[k]
    BY <1>1, <1>4
  <2>2. PICK m \in Nat : m = Len(turns)
    BY <1>1, Zenon
  <2>3. LagIsShort(h, d, m)'
    <3>1. ~Restless => (m > 1 => turns[m] - turns[m - 1] > SettledLeg)
      <4>1. SettledLeg = 6
        BY DEF SettledLeg, SMOOTH_SPAN
      <4> SUFFICES ASSUME ~Restless, m > 1
                   PROVE  turns[m] - turns[m - 1] > 6
        BY <4>1
      <4>2. m >= 2 /\ m - 1 \in 1..(m - 1) /\ (m - 1) + 1 = m
        BY <2>2
      <4>3. PICK k \in 1..(m - 1) : k = m - 1 /\ k + 1 = m
        BY <4>2, Zenon
      <4>4. turns[k + 1] - turns[k] \in 6..(Max(Legs) + MaxRests)
        BY <2>2, LegsAreCountedAs, Zenon DEF Placed
      <4>5. turns[k + 1] - turns[k] # 6
        BY <2>2, <4>1, <4>2, <4>3, Zenon DEF Restless
      <4>6. turns[k + 1] \in Nat /\ turns[k] \in Nat
        <5>1. k + 1 \in 1..Len(turns) /\ k \in 1..Len(turns)
          BY <2>2, <4>2
        <5> QED
          BY <1>1, <5>1
      <4>7. turns[k + 1] - turns[k] > 6
        BY <4>4, <4>5, <4>6, LongestLeg, Constants
      <4> QED
        BY <4>3, <4>7
    <3>2. reversals'[m] = Len(series') /\ turns'[m] = turns[m] /\ turns'[m - 1] = turns[m - 1]
      BY <1>4, <2>1, <2>2, Zenon
    <3> QED
      BY <1>4, <2>2, <3>1, <3>2, Zenon DEF LagIsShort, LagIsExplained
  <2>4. ASSUME NEW k \in 1..Len(reversals') PROVE k \in 1..Len(reversals) \/ k = m
    BY <1>1, <1>4, <2>1, <2>2
  <2>5. ASSUME NEW k \in 1..Len(reversals') PROVE LagIsShort(h, d, k)'
    BY <1>2, <2>1, <2>3, <2>4, <2>5, Zenon
  <2> QED
    BY <2>5, Zenon DEF LagsAreExplained
<1> QED
  BY <1>3, <1>4, Zenon DEF ScanIsExplained

-----------------------------------------------------------------------------
(* The invariant.                                                          *)

LEMMA SeriesBegins ==
  ASSUME LegFacts, series[1] = 0, NEW l \in Int, Sample(l)
  PROVE  series'[1] = 0
<1>1. PICK off \in {-1, 0, 1} : series' = Append(series, l + off)
  BY Zenon DEF Sample
<1>2. series \in Seq(Int) /\ l + off \in Int /\ 1 \in 1..Len(series)
  BY DEF LegFacts
<1> QED
  BY <1>1, <1>2

LEMMA ScanKeepsTypes ==
  ASSUME CalibrationTypeOK, series' \in Seq(Int), Len(series') = Len(series) + 1, Scan(series')
  PROVE  last' \in {-1, 0, 1} /\ reversals' \in Seq(1..Len(series'))
<1>1. /\ Len(series) \in Nat /\ reversals \in Seq(1..Len(series)) /\ last \in {-1, 0, 1}
  BY DEF CalibrationTypeOK
<1>2. Sign(Slope(series')) \in {-1, 0, 1}
  BY DEF Sign
<1>3. PICK n \in Nat : n = Len(series') /\ n = Len(series) + 1
  BY <1>1
<1>4. reversals \in Seq(1..n) /\ Append(reversals, n) \in Seq(1..n)
  <2>1. reversals \in Seq(1..n) /\ n \in 1..n
    BY <1>1, <1>3
  <2> QED
    BY <2>1
<1>5. last' \in {-1, 0, 1}
  BY <1>1, <1>2 DEF Scan
<1>6. reversals' = reversals \/ reversals' = Append(reversals, n)
  BY <1>3, Zenon DEF Scan
<1> QED
  BY <1>3, <1>4, <1>5, <1>6, Zenon

\* A step of the process whose legs are counted is explained.
LEMMA StepKeepsInv ==
  ASSUME CalibrationTypeOK, LegsAreCounted, NEW g \in 0..Len(series), NEW e \in {-1, 0, 1}, Explains(g, e),
         NEW h \in 0..Len(series'), NEW d \in {-1, 0, 1}, GlitchIsOne(h, d)', Continues(g, e, h, d, level'),
         e # 0 => h = g /\ d = e, d # 0 => MaxGlitches = 1 /\ MaxRests <= 1,
         series' \in Seq(Int), Len(series') = Len(series) + 1, Scan(series'), glitches' \in 0..MaxGlitches,
         StepTypes, LegsAreCounted', StepIsExplained,
         \/ /\ turns' = turns /\ heading' = heading
            /\ leg' = leg + 1 \/ (leg >= 6 /\ leg' = leg)
         \/ /\ turns' # <<>> /\ Len(turns') = Len(turns) + 1 /\ \A k \in 1..Len(turns) : turns'[k] = turns[k]
            /\ heading' = -heading /\ leg >= 6 /\ leg' = 1
  PROVE  CalibrationInv'
<1>1. LegFacts
  BY LegsAreTyped
<1>2. /\ level' \in Int /\ heading' \in {-1, 1} /\ leg' \in Nat /\ rests' \in 0..MaxRests /\ rests' \in Nat
  BY LongestLeg, Constants DEF StepTypes
<1>3. /\ turns = <<>> => heading = 1
      /\ turns # <<>> => leg >= 1
  BY LegsAreCountedAs, Zenon
<1>4. GlitchIsOne(g, e) /\ SpanIsSteps(g, e) /\ TurnsAreFound(g, e) /\ LagsAreExplained(g, e)
  BY Zenon DEF Explains
<1>5. SpanIsSteps(h, d)'
  BY <1>2, <1>4, SpanAfter, Zenon
<1>6. Clean(series', h, d, Len(series')) = level'
  BY Zenon DEF Continues
<1>7. turns' = <<>> \/ leg' >= 1
  <2>1. (turns # <<>> => leg >= 1)'
    <3>1. (LegsAreCounted => (turns # <<>> => leg >= 1))'
      <4>1. LegsAreCounted => (turns # <<>> => leg >= 1)
        BY LegsAreCountedAs, Zenon
      <4> QED
        BY <4>1, LegsAreCountedAs, Zenon DEF LegsAreCounted
    <3> QED
      BY <3>1, Zenon
  <2> QED
    BY <2>1, Zenon
<1>8. Len(series') > 5 => RisesAsStepped(h, d)
  <2>1. h \in Nat
    OBVIOUS
  <2> QED
    BY <1>2, <1>5, <1>6, <1>7, <2>1, RiseAfter, Zenon
<1>9. Len(series') >= 2 /\ (~(Len(series') > 5) => Len(series') <= 5) /\ (turns # <<>> => Len(series') > 5)
  <2>1. \A n, m \in Nat : m = n + 1 => (n >= 1 => m >= 2) /\ (n >= 8 => m > 5) /\ (m > 5 \/ m <= 5)
    OBVIOUS
  <2>2. Len(series) \in Nat /\ Len(series) >= 1 /\ (turns # <<>> => Len(series) >= 8)
    BY <1>1, Zenon DEF LegFacts
  <2>3. Len(series') \in Nat
    OBVIOUS
  <2> QED
    BY <2>1, <2>2, <2>3, Zenon
<1>10. turns # <<>> => Len(series') > 5
  BY <1>9
<1>11. TurnsAreFound(h, d)' /\ ScanIsExplained(h, d)
  <2>1. CASE /\ turns' # <<>> /\ Len(turns') = Len(turns) + 1
             /\ heading' = -heading /\ leg >= 6 /\ leg' = 1
    <3>1. Len(series') > 5
      <4>1. CASE turns # <<>>
        BY <1>10, <4>1
      <4>2. CASE turns = <<>>
        <5>1. Len(series) = 1 + leg + rests
          BY <4>2, LegsAreCountedAs, Zenon
        <5> QED
          BY <1>1, <2>1, <5>1 DEF LegFacts
      <4> QED
        BY <4>1, <4>2
    <3> QED
      BY <1>1, <1>3, <1>4, <1>8, <2>1, <3>1, TurningIsScanned, Zenon
  <2>2. CASE turns' = turns /\ heading' = heading /\ (leg' = leg + 1 \/ (leg >= 6 /\ leg' = leg))
    <3>1. CASE turns # <<>>
      BY <1>1, <1>2, <1>3, <1>4, <1>8, <1>10, <2>2, <3>1, StayingIsScanned, Zenon
    <3>2. CASE turns = <<>> /\ Len(series') > 5
      BY <1>3, <1>4, <1>8, <2>2, <3>2, RisingIsScanned, Zenon
    <3>3. CASE turns = <<>> /\ ~(Len(series') > 5)
      BY <1>2, <1>4, <1>5, <1>9, <2>2, <3>3, StartIsScanned, Zenon
    <3> QED
      BY <3>1, <3>2, <3>3
  <2> QED
    BY <2>1, <2>2, Zenon
<1>12. LagsAreExplained(h, d)'
  <2>1. Len(reversals) <= Len(turns)
    BY <1>1, <1>3, <1>4, FoundInOrder, Zenon
  <2>2. \A k \in 1..Len(turns) : turns'[k] = turns[k]
    OBVIOUS
  <2> QED
    BY <1>4, <1>11, <2>1, <2>2, LagsAfter, Zenon
<1>13. Explains(h, d)'
  BY <1>5, <1>11, <1>12, Zenon DEF Explains
<1>14. CalibrationTypeOK'
  BY <1>2, ScanKeepsTypes, Zenon DEF CalibrationTypeOK, StepTypes
<1> QED
  BY <1>13, <1>14, Zenon DEF CalibrationInv

LEMMA InvAtTheStart == CalibrationInit => CalibrationInv
<1> SUFFICES ASSUME CalibrationInit PROVE CalibrationInv
  OBVIOUS
<1>1. /\ series = <<0>> /\ Len(series) = 1 /\ series[1] = 0 /\ level = 0 /\ heading = 1
      /\ leg = 0 /\ rests = 0 /\ turns = <<>> /\ glitches = 0 /\ reversals = <<>> /\ last = 0
      /\ Len(turns) = 0 /\ Len(reversals) = 0
  BY DEF CalibrationInit
<1>2. CalibrationTypeOK
  <2>1. Max(Legs) \in Nat /\ MaxRests \in Nat /\ MaxGlitches \in Nat
    BY LongestLeg, Constants
  <2>2. <<>> \in Seq(1..1) /\ <<0>> \in Seq(Int)
    BY SMT
  <2> QED
    BY <1>1, <2>1, <2>2 DEF CalibrationTypeOK
<1>3. LegsAreCounted
  BY <1>1 DEF LegsAreCounted
<1>4. Explains(0, 0)
  <2>1. GlitchIsOne(0, 0)
    BY <1>1 DEF GlitchIsOne
  <2>2. SpanIsSteps(0, 0)
    <3> SUFFICES ASSUME NEW i \in 0..5, i < 1 PROVE Stepped(Came(0, 0, i), i, TRUE, 0, 0, Restless)
      BY <1>1, Zenon DEF SpanIsSteps, SMOOTH_SPAN
    <3>1. i = 0
      OBVIOUS
    <3>2. Clean(series, 0, 0, Len(series)) = level
      BY <1>1 DEF Clean
    <3>3. series \in Seq(Int) /\ level \in Int
      BY <1>2 DEF CalibrationTypeOK
    <3>4. CameTo(series, level, heading, 0, 0, 0) = 0
      BY <3>2, <3>3, CameNowhere, Zenon
    <3> QED
      BY <3>1, <3>4 DEF Came, Stepped
  <2>3. TurnsAreFound(0, 0)
    BY <1>1 DEF TurnsAreFound, SMOOTH_SPAN
  <2>4. LagsAreExplained(0, 0)
    BY <1>1 DEF LagsAreExplained
  <2> QED
    BY <2>1, <2>2, <2>3, <2>4 DEF Explains
<1>5. 0 \in 0..Len(series) /\ 0 \in {-1, 0, 1}
  BY <1>1
<1> QED
  BY <1>2, <1>3, <1>4, <1>5, Zenon DEF CalibrationInv

LEMMA InvIsKept ==
  ASSUME CalibrationInv, [CalibrationNext]_calibrationVars
  PROVE  CalibrationInv'
<1>1. CalibrationTypeOK /\ LegsAreCounted
  BY DEF CalibrationInv
<1>2. PICK g \in 0..Len(series), e \in {-1, 0, 1} : Explains(g, e)
  BY DEF CalibrationInv
<1>3. GlitchIsOne(g, e) /\ LegFacts
  BY <1>1, <1>2, LegsAreTyped, Zenon DEF Explains
<1>4. series[1] = 0
  BY <1>1, Zenon DEF LegsAreCounted
<1>5. CASE CalibrationNext
  <2>1. level' \in Int /\ Sample(level')
    <3>1. level \in Int /\ level + heading \in Int /\ level - heading \in Int
      BY <1>3 DEF LegFacts
    <3> QED
      BY <1>5, <3>1, Zenon DEF CalibrationNext, Moves, Rests, Turns
  <2>2. /\ series' \in Seq(Int) /\ Len(series') = Len(series) + 1 /\ Scan(series')
        /\ glitches' \in 0..MaxGlitches
        /\ \E h \in 0..Len(series'), d \in {-1, 0, 1} :
             /\ GlitchIsOne(h, d)'
             /\ Continues(g, e, h, d, level')
             /\ e # 0 => h = g /\ d = e
             /\ d # 0 => MaxGlitches = 1 /\ MaxRests <= 1
    BY <1>1, <1>3, <2>1, SampleIsExplained
  <2>3. PICK h \in 0..Len(series'), d \in {-1, 0, 1} :
             /\ GlitchIsOne(h, d)'
             /\ Continues(g, e, h, d, level')
             /\ e # 0 => h = g /\ d = e
             /\ d # 0 => MaxGlitches = 1 /\ MaxRests <= 1
    BY <2>2
  <2>4. series'[1] = 0
    BY <1>3, <1>4, <2>1, SeriesBegins, Zenon
  <2>5. CASE Moves
    <3>1. StepTypes /\ LegsAreCounted' /\ StepIsExplained
      BY <1>1, <2>2, <2>4, <2>5, MovesCount, Zenon
    <3>2. turns' = turns /\ heading' = heading /\ leg' = leg + 1
      BY <2>5, Zenon DEF Moves
    <3> QED
      BY <1>1, <1>2, <2>2, <2>3, <3>1, <3>2, StepKeepsInv, Zenon
  <2>6. CASE Rests
    <3>1. StepTypes /\ LegsAreCounted' /\ StepIsExplained
      BY <1>1, <2>2, <2>4, <2>6, RestsCount, Zenon
    <3>2. turns' = turns /\ heading' = heading /\ leg' = leg /\ leg >= 6
      BY <1>3, <2>6, Zenon DEF Rests, LegFacts
    <3> QED
      BY <1>1, <1>2, <2>2, <2>3, <3>1, <3>2, StepKeepsInv, Zenon
  <2>7. CASE Turns
    <3>1. /\ StepTypes /\ LegsAreCounted' /\ StepIsExplained
          /\ turns' # <<>> /\ Len(turns') = Len(turns) + 1 /\ \A k \in 1..Len(turns) : turns'[k] = turns[k]
      BY <1>1, <2>2, <2>4, <2>7, TurnsCount, Zenon
    <3>2. heading' = -heading /\ leg' = 1 /\ leg >= 6
      BY <1>3, <2>7, Zenon DEF Turns, LegFacts
    <3> QED
      BY <1>1, <1>2, <2>2, <2>3, <3>1, <3>2, StepKeepsInv, Zenon
  <2> QED
    BY <1>5, <2>5, <2>6, <2>7 DEF CalibrationNext
<1>6. CASE UNCHANGED calibrationVars
  <2>1. /\ series' = series /\ level' = level /\ heading' = heading /\ leg' = leg /\ rests' = rests
        /\ turns' = turns /\ reversals' = reversals /\ last' = last /\ glitches' = glitches
    BY <1>6 DEF calibrationVars
  <2>2. CalibrationTypeOK'
    BY <1>1, <2>1, Zenon DEF CalibrationTypeOK
  <2>3. LegsAreCounted'
    BY <1>1, <2>1, Zenon DEF LegsAreCounted
  <2>4. Restless' <=> Restless
    BY <2>1, Zenon DEF Restless
  <2>5. GlitchIsOne(g, e)'
    BY <1>3, <2>1, Zenon DEF GlitchIsOne
  <2>6. SpanIsSteps(g, e)'
    <3>1. SpanIsSteps(g, e)
      BY <1>2, Zenon DEF Explains
    <3> QED
      BY <2>1, <2>4, <3>1, Zenon DEF SpanIsSteps, Came
  <2>7. TurnsAreFound(g, e)'
    BY <1>2, <2>1, Zenon DEF Explains, TurnsAreFound, TurnPending, TurnFound
  <2>8. LagsAreExplained(g, e)'
    BY <1>2, <2>1, Zenon DEF Explains, LagsAreExplained, LagIsShort
  <2>9. g \in 0..Len(series')
    BY <2>1
  <2> QED
    BY <2>2, <2>3, <2>5, <2>6, <2>7, <2>8, <2>9, Zenon DEF Explains, CalibrationInv
<1> QED
  BY <1>5, <1>6

THEOREM CalibrationInvariant == CalibrationSpec => []CalibrationInv
<1>1. CalibrationInit => CalibrationInv
  BY InvAtTheStart
<1>2. CalibrationInv /\ [CalibrationNext]_calibrationVars => CalibrationInv'
  BY InvIsKept
<1> QED
  BY <1>1, <1>2, PTL DEF CalibrationSpec

-----------------------------------------------------------------------------
(* Medians.                                                                *)

UpTo(s, i) == {j \in DOMAIN s : s[j] <= s[i]}

\* The k-th of some numbers is one of them, k of them do not pass it, and it is the least.
RankedIs(s, k, i) ==
  /\ i \in 1..Len(s) /\ Cardinality(UpTo(s, i)) >= k /\ Ranked(s, k) = s[i]
  /\ \A j \in 1..Len(s) : Cardinality(UpTo(s, j)) >= k => s[i] <= s[j]

LEMMA ElementsOf ==
  ASSUME NEW s \in Seq(Nat)
  PROVE  Len(s) \in Nat /\ DOMAIN s = 1..Len(s) /\ \A j \in 1..Len(s) : s[j] \in Nat
OBVIOUS

LEMMA GreatestAt ==
  ASSUME NEW s \in Seq(Nat), NEW A \in SUBSET (1..Len(s)), A # {}
  PROVE  \E p \in A : \A j \in A : s[j] <= s[p]
<1> DEFINE V == {s[j] : j \in A}
<1>1. IsFiniteSet(A)
  <2>1. IsFiniteSet(1..Len(s))
    BY FS_Interval
  <2> QED
    BY <2>1, FS_Subset
<1>2. IsFiniteSet(V)
  <2>1. [j \in A |-> s[j]] \in Surjection(A, V)
    BY DEF Surjection
  <2> QED
    BY <1>1, <2>1, FS_Surjection
<1>3. V \subseteq Nat /\ V # {}
  <2>1. \A j \in A : s[j] \in Nat
    BY ElementsOf, Zenon
  <2> QED
    BY <2>1, Zenon
<1>4. Max(V) \in V /\ \A v \in V : Max(V) >= v
  BY <1>2, <1>3, GreatestOne
<1>5. PICK p \in A : s[p] = Max(V)
  BY <1>4
<1>6. \A j \in A : s[j] <= s[p]
  <2>1. ASSUME NEW j \in A PROVE s[j] <= s[p]
    <3>1. s[j] \in V /\ s[j] \in Nat /\ s[p] \in Nat
      BY <1>3, Zenon
    <3> HIDE DEF V
    <3> QED
      BY <1>4, <1>5, <3>1
  <2> QED
    BY <2>1
<1> QED
  BY <1>6

LEMMA RankedExists ==
  ASSUME NEW s \in Seq(Nat), NEW k \in 1..Len(s)
  PROVE  \E i \in 1..Len(s) : RankedIs(s, k, i)
<1>1. Len(s) \in Nat /\ DOMAIN s = 1..Len(s) /\ 1..Len(s) # {} /\ \A j \in 1..Len(s) : s[j] \in Nat
  OBVIOUS
<1>2. PICK p \in 1..Len(s) : \A j \in 1..Len(s) : s[j] <= s[p]
  BY <1>1, GreatestAt
<1>3. Cardinality(UpTo(s, p)) >= k
  <2>1. UpTo(s, p) = 1..Len(s)
    BY <1>1, <1>2 DEF UpTo
  <2>2. Cardinality(1..Len(s)) = Len(s)
    <3>1. \A n \in Int : Cardinality(1..n) = IF 1 > n THEN 0 ELSE n - 1 + 1
      BY FS_Interval
    <3>2. PICK n \in Nat : n = Len(s) /\ n >= 1
      <4>1. Len(s) >= 1
        BY k \in 1..Len(s), Len(s) \in Nat
      <4> QED
        BY <1>1, <4>1, Zenon
    <3>3. Cardinality(1..n) = n
      BY <3>1, <3>2
    <3> QED
      BY <3>2, <3>3, Zenon
  <2> QED
    BY <1>1, <2>1, <2>2
<1> DEFINE R == {j \in DOMAIN s : Cardinality({l \in DOMAIN s : s[l] <= s[j]}) >= k}
           V == {s[i] : i \in R}
<1>4. p \in R
  BY <1>1, <1>3 DEF UpTo
<1>5. V \subseteq Nat /\ V # {}
  BY <1>1, <1>4
<1>6. Min(V) \in V /\ \A v \in V : Min(V) <= v
  BY <1>5, LeastOne
<1>7. PICK i \in R : s[i] = Min(V)
  BY <1>6
<1>8. i \in 1..Len(s) /\ Cardinality(UpTo(s, i)) >= k
  BY <1>1, <1>7 DEF UpTo
<1>9. Ranked(s, k) = s[i]
  BY <1>7 DEF Ranked
<1>10. ASSUME NEW j \in 1..Len(s), Cardinality(UpTo(s, j)) >= k PROVE s[i] <= s[j]
  <2>1. j \in R
    BY <1>1, <1>10 DEF UpTo
  <2>2. s[j] \in V
    BY <2>1
  <2> HIDE DEF V
  <2> QED
    BY <1>6, <1>7, <2>2
<1> QED
  BY <1>8, <1>9, <1>10, Zenon DEF RankedIs

\* Numbers of which none is more than one above its counterpart: nor is the k-th.
LEMMA RankedClose ==
  ASSUME NEW s \in Seq(Nat), NEW t \in Seq(Nat), Len(s) = Len(t), NEW k \in 1..Len(s),
         \A i \in 1..Len(s) : s[i] <= t[i] + 1
  PROVE  Ranked(s, k) \in Nat /\ Ranked(t, k) \in Nat /\ Ranked(s, k) <= Ranked(t, k) + 1
<1>1. PICK i \in 1..Len(t) : RankedIs(t, k, i)
  BY RankedExists
<1>2. PICK q \in 1..Len(s) : RankedIs(s, k, q)
  BY RankedExists
<1>3. /\ Len(s) \in Nat /\ DOMAIN s = 1..Len(s) /\ DOMAIN t = 1..Len(s)
      /\ \A j \in 1..Len(s) : s[j] \in Nat
      /\ \A j \in 1..Len(s) : t[j] \in Nat
  BY ElementsOf, Zenon
<1> DEFINE A == UpTo(t, i)
<1>4. A \in SUBSET (1..Len(s)) /\ i \in A
  <2>1. t[i] \in Nat /\ i \in 1..Len(s)
    BY <1>3
  <2>2. t[i] <= t[i]
    BY <2>1
  <2> QED
    BY <1>3, <2>1, <2>2, Zenon DEF UpTo
<1>5. PICK p \in A : \A j \in A : s[j] <= s[p]
  BY <1>4, GreatestAt
<1>6. A \subseteq UpTo(s, p)
  BY <1>3, <1>4, <1>5 DEF UpTo
<1>7. Cardinality(UpTo(s, p)) >= k
  <2>1. IsFiniteSet(UpTo(s, p))
    <3>1. IsFiniteSet(1..Len(s)) /\ UpTo(s, p) \subseteq 1..Len(s)
      BY <1>3, FS_Interval DEF UpTo
    <3> QED
      BY <3>1, FS_Subset
  <2>2. IsFiniteSet(A) /\ Cardinality(A) <= Cardinality(UpTo(s, p))
    BY <1>6, <2>1, FS_Subset
  <2>3. Cardinality(A) \in Nat /\ Cardinality(UpTo(s, p)) \in Nat
    BY <2>1, <2>2, FS_CardinalityType
  <2>4. Cardinality(A) >= k
    BY <1>1 DEF RankedIs
  <2> QED
    BY <2>2, <2>3, <2>4
<1>8. p \in 1..Len(s) /\ t[p] <= t[i] /\ s[p] <= t[p] + 1
  BY <1>3, <1>4 DEF UpTo
<1>9. s[q] <= s[p]
  BY <1>2, <1>7, <1>8, Zenon DEF RankedIs
<1>10. Ranked(s, k) = s[q] /\ Ranked(t, k) = t[i]
  BY <1>1, <1>2, Zenon DEF RankedIs
<1>11. s[q] \in Nat /\ s[p] \in Nat /\ t[p] \in Nat /\ t[i] \in Nat
  BY <1>3, <1>8
<1>12. s[q] <= t[i] + 1
  <2>1. \A w, x, y, z \in Nat : w <= x /\ x <= y + 1 /\ y <= z => w <= z + 1
    OBVIOUS
  <2> QED
    BY <1>8, <1>9, <1>11, <2>1, Zenon
<1> QED
  BY <1>10, <1>11, <1>12, Zenon

LEMMA Middles ==
  ASSUME NEW n \in Nat, n >= 1
  PROVE  (n + 1) \div 2 \in 1..n /\ (n + 2) \div 2 \in 1..n
OBVIOUS

LEMMA MedianClose ==
  ASSUME NEW s \in Seq(Nat), NEW t \in Seq(Nat), Len(s) = Len(t), Len(s) >= 1,
         \A i \in 1..Len(s) : s[i] <= t[i] + 1,
         \A i \in 1..Len(t) : t[i] <= s[i] + 1
  PROVE  TwiceMedian(s) \in (TwiceMedian(t) - 2)..(TwiceMedian(t) + 2)
<1>1. Len(s) \in Nat
  OBVIOUS
<1>2. PICK k, l \in 1..Len(s) : k = (Len(s) + 1) \div 2 /\ l = (Len(s) + 2) \div 2
  BY <1>1, Middles, Zenon
<1>3. ASSUME NEW m \in 1..Len(s)
      PROVE  /\ Ranked(s, m) \in Nat /\ Ranked(t, m) \in Nat
             /\ Ranked(s, m) <= Ranked(t, m) + 1 /\ Ranked(t, m) <= Ranked(s, m) + 1
  <2>1. /\ Ranked(s, m) \in Nat /\ Ranked(t, m) \in Nat /\ Ranked(s, m) <= Ranked(t, m) + 1
    BY RankedClose, Zenon
  <2>2. Ranked(t, m) <= Ranked(s, m) + 1
    BY RankedClose, Zenon
  <2> QED
    BY <2>1, <2>2
<1>4. PICK a, b, c, d \in Nat :
        a = Ranked(s, k) /\ b = Ranked(t, k) /\ c = Ranked(s, l) /\ d = Ranked(t, l)
  BY <1>3, Zenon
<1>5. a <= b + 1 /\ b <= a + 1 /\ c <= d + 1 /\ d <= c + 1
  BY <1>3, <1>4, Zenon
<1>6. TwiceMedian(s) = a + c /\ TwiceMedian(t) = b + d
  BY <1>2, <1>4, Zenon DEF TwiceMedian
<1>7. a + c \in ((b + d) - 2)..((b + d) + 2)
  BY <1>5
<1> QED
  BY <1>6, <1>7

LEMMA MedianBound ==
  ASSUME NEW s \in Seq(Nat), Len(s) >= 1, NEW bound \in Nat, \A i \in 1..Len(s) : s[i] <= bound
  PROVE  TwiceMedian(s) \in Nat /\ TwiceMedian(s) <= 2 * bound
<1>1. Len(s) \in Nat
  OBVIOUS
<1>2. PICK k, l \in 1..Len(s) : k = (Len(s) + 1) \div 2 /\ l = (Len(s) + 2) \div 2
  BY <1>1, Middles, Zenon
<1>3. ASSUME NEW m \in 1..Len(s) PROVE Ranked(s, m) \in Nat /\ Ranked(s, m) <= bound
  <2>1. PICK i \in 1..Len(s) : RankedIs(s, m, i)
    BY RankedExists
  <2>2. Ranked(s, m) = s[i]
    BY <2>1, Zenon DEF RankedIs
  <2> QED
    BY <2>2, ElementsOf, Zenon
<1>4. PICK a, c \in Nat : a = Ranked(s, k) /\ c = Ranked(s, l) /\ a <= bound /\ c <= bound
  BY <1>3, Zenon
<1>5. TwiceMedian(s) = a + c
  BY <1>2, <1>4, Zenon DEF TwiceMedian
<1>6. a + c \in Nat /\ a + c <= 2 * bound
  BY <1>4
<1> QED
  BY <1>5, <1>6, Zenon

LEMMA RoundedIs ==
  ASSUME NEW t \in Nat
  PROVE  /\ Round(t, 30) \in Nat /\ 60 * Round(t, 30) <= t + 30
         /\ Round(t, 120) \in Nat /\ 240 * Round(t, 120) <= t + 120
<1>1. /\ t \div 60 \in Nat /\ t % 60 \in 0..59 /\ t = 60 * (t \div 60) + (t % 60)
  OBVIOUS
<1>2. /\ t \div 240 \in Nat /\ t % 240 \in 0..239 /\ t = 240 * (t \div 240) + (t % 240)
  OBVIOUS
<1>3. /\ Round(t, 30) \in Nat /\ 60 * Round(t, 30) <= t + 30
  <2>1. 2 * 30 = 60
    OBVIOUS
  <2>2. PICK q \in Nat, r \in 0..59 : q = t \div (2 * 30) /\ r = t % (2 * 30) /\ t = 60 * q + r
    BY <1>1, <2>1
  <2>3. Round(t, 30) = IF r > 30 \/ (r = 30 /\ q % 2 = 1) THEN q + 1 ELSE q
    BY <2>2, Zenon DEF Round
  <2>4. Round(t, 30) = q \/ (Round(t, 30) = q + 1 /\ r >= 30)
    BY <2>3
  <2> QED
    BY <2>2, <2>4
<1>4. /\ Round(t, 120) \in Nat /\ 240 * Round(t, 120) <= t + 120
  <2>1. 2 * 120 = 240
    OBVIOUS
  <2>2. PICK q \in Nat, r \in 0..239 : q = t \div (2 * 120) /\ r = t % (2 * 120) /\ t = 240 * q + r
    BY <1>2, <2>1
  <2>3. Round(t, 120) = IF r > 120 \/ (r = 120 /\ q % 2 = 1) THEN q + 1 ELSE q
    BY <2>2, Zenon DEF Round
  <2>4. Round(t, 120) = q \/ (Round(t, 120) = q + 1 /\ r >= 120)
    BY <2>3
  <2> QED
    BY <2>2, <2>4
<1> QED
  BY <1>3, <1>4

\* A tracker with the window and reversal_n of a half cycle recognises the shortest leg.
LEMMA ShortestIsRecognised ==
  ASSUME NEW t \in Nat, NEW l \in Nat, l >= 6, t <= 48 * l
  PROVE  (window(t) - 1) + (reversal_n(t) - 1) < l
<1>1. PICK a, b \in Nat : /\ a = Round(t, 30) /\ b = Round(t, 120)
                          /\ 60 * a <= t + 30 /\ 240 * b <= t + 120
  BY RoundedIs
<1>2. PICK w, r \in Nat : /\ w = window(t) /\ r = reversal_n(t) /\ (w = 3 \/ w = a) /\ (r = 2 \/ r = b)
  BY <1>1 DEF window, reversal_n, Atleast
<1>3. 60 * a <= 48 * l + 30 /\ 240 * b <= 48 * l + 120
  BY <1>1
<1>4. (w - 1) + (r - 1) < l
  BY <1>2, <1>3
<1> QED
  BY <1>2, <1>4, Zenon

-----------------------------------------------------------------------------
(* The period measured.                                                    *)

\* Two turns in a row are not found one sample after the one and three after the other.
LEMMA LagsAgree ==
  ASSUME NEW g \in Nat, NEW e \in {-1, 0, 1}, MaxGlitches = 0 => e = 0,
         NEW i \in Nat, i + 1 > 1, (i + 1) - 1 = i, LagIsShort(g, e, i), LagIsShort(g, e, i + 1),
         turns[i] \in Nat, turns[i + 1] \in Nat, turns[i + 1] - turns[i] >= 6,
         reversals[i] \in Nat, reversals[i + 1] \in Nat
  PROVE  /\ reversals[i + 1] - reversals[i] <= (turns[i + 1] - turns[i]) + 1
         /\ turns[i + 1] - turns[i] <= (reversals[i + 1] - reversals[i]) + 1
<1>1. PICK a, b, x, y \in Nat : a = turns[i] /\ b = turns[i + 1] /\ x = reversals[i] /\ y = reversals[i + 1]
  BY Zenon
<1>2. b - a >= 6
  BY <1>1
<1>3. /\ x - a \in 1..3
      /\ x - a = 1 => MaxGlitches = 0 \/ Disturbed(g, e, a + 1)
      /\ x - a = 3 => Disturbed(g, e, a + 2)
  BY <1>1, Zenon DEF LagIsShort
<1>4. /\ y - b \in 1..3
      /\ y - b = 1 => MaxGlitches = 0 \/ (Disturbed(g, e, b + 1) /\ b - a > 6)
      /\ y - b = 3 => Disturbed(g, e, b + 2)
  <2>1. /\ reversals[i + 1] - turns[i + 1] \in 1..3
        /\ reversals[i + 1] - turns[i + 1] = 1 =>
             \/ MaxGlitches = 0
             \/ Disturbed(g, e, turns[i + 1] + 1) /\ turns[i + 1] - turns[i] > SettledLeg
        /\ reversals[i + 1] - turns[i + 1] = 3 => Disturbed(g, e, turns[i + 1] + 2)
    BY Zenon DEF LagIsShort
  <2>2. SettledLeg = 6
    BY DEF SettledLeg, SMOOTH_SPAN
  <2> QED
    BY <1>1, <2>1, <2>2, Zenon
<1>5. \A j : Disturbed(g, e, j) => MaxGlitches # 0 /\ (j = g \/ j = g + 5)
  BY Zenon DEF Disturbed, SMOOTH_SPAN
<1>6. ~(x - a = 1 /\ y - b = 3)
  <2> SUFFICES ASSUME x - a = 1, y - b = 3 PROVE FALSE
    OBVIOUS
  <2>1. (a + 1 = g \/ a + 1 = g + 5) /\ (b + 2 = g \/ b + 2 = g + 5)
    BY <1>3, <1>4, <1>5, Zenon
  <2> QED
    BY <1>2, <2>1
<1>7. ~(x - a = 3 /\ y - b = 1)
  <2> SUFFICES ASSUME x - a = 3, y - b = 1 PROVE FALSE
    OBVIOUS
  <2>1. (a + 2 = g \/ a + 2 = g + 5) /\ (b + 1 = g \/ b + 1 = g + 5) /\ b - a > 6
    BY <1>3, <1>4, <1>5, Zenon
  <2> QED
    BY <2>1
<1>8. y - x <= (b - a) + 1 /\ b - a <= (y - x) + 1
  BY <1>3, <1>4, <1>6, <1>7
<1> QED
  BY <1>1, <1>8

Spans(points) == [i \in 1..(Len(points) - 1) |-> points[i + 1] - points[i]]

LEMMA SpansAre ==
  ASSUME NEW p \in Seq(Nat), Len(p) >= 2,
         \A i \in 1..(Len(p) - 1) : p[i + 1] - p[i] \in Nat
  PROVE  /\ Spans(p) \in Seq(Nat) /\ Len(Spans(p)) = Len(p) - 1
         /\ \A i \in 1..(Len(p) - 1) : Spans(p)[i] = p[i + 1] - p[i]
<1>1. PICK n \in Nat : n = Len(p) - 1
  <2>1. \A m \in Nat : m >= 2 => m - 1 \in Nat
    OBVIOUS
  <2>2. Len(p) \in Nat
    BY ElementsOf, Zenon
  <2> QED
    BY <2>1, <2>2, Zenon
<1>2. ASSUME NEW i \in 1..n PROVE p[i + 1] - p[i] \in Nat
  BY <1>1
<1>3. Spans(p) = [i \in 1..n |-> p[i + 1] - p[i]]
  BY <1>1, Zenon DEF Spans
<1>4. [i \in 1..n |-> p[i + 1] - p[i]] \in Seq(Nat) /\ Len([i \in 1..n |-> p[i + 1] - p[i]]) = n
  BY <1>2
<1>5. \A i \in 1..n : Spans(p)[i] = p[i + 1] - p[i]
  BY <1>3
<1> QED
  BY <1>1, <1>3, <1>4, <1>5, Zenon

LEMMA PeriodIsMeasured ==
  ASSUME CalibrationInv, leg >= SettledLeg
  PROVE  /\ Len(reversals) = Len(turns)
         /\ Len(reversals) >= 2 =>
              /\ TwicePeriod \in (TwiceHalfCycle(turns) - 2)..(TwiceHalfCycle(turns) + 2)
              /\ TwicePeriod \in Nat /\ TwicePeriod <= 48 * Min(Legs)
<1>1. CalibrationTypeOK /\ LegsAreCounted /\ LegFacts
  BY LegsAreTyped, Zenon DEF CalibrationInv
<1>2. PICK g \in 0..Len(series), e \in {-1, 0, 1} : Explains(g, e)
  BY Zenon DEF CalibrationInv
<1>3. /\ turns \in Seq(Nat) /\ reversals \in Seq(Nat) /\ Len(turns) \in Nat /\ Len(series) \in Nat /\ g \in Nat
  <2>1. Len(series) \in Nat /\ reversals \in Seq(1..Len(series)) /\ turns \in Seq(1..Len(series))
    BY <1>1 DEF CalibrationTypeOK
  <2>2. reversals \in Seq(Nat)
    BY <2>1
  <2>3. turns \in Seq(Nat)
    BY <2>1
  <2>4. Len(turns) \in Nat
    BY <2>3
  <2>5. g \in Nat
    BY <2>1
  <2> QED
    BY <2>1, <2>2, <2>3, <2>4, <2>5
<1>4. leg > 3
  BY <1>1 DEF LegFacts, SettledLeg, SMOOTH_SPAN
<1>5. Len(reversals) = Len(turns)
  <2>1. CASE turns = <<>>
    BY <1>2, <2>1 DEF Explains, TurnsAreFound
  <2>2. CASE turns # <<>>
    BY <1>2, <1>4, <2>2, Zenon DEF Explains, TurnsAreFound, TurnFound
  <2> QED
    BY <2>1, <2>2
<1>6. ASSUME Len(turns) >= 2
      PROVE  /\ TwicePeriod \in (TwiceHalfCycle(turns) - 2)..(TwiceHalfCycle(turns) + 2)
             /\ TwicePeriod \in Nat /\ TwicePeriod <= 48 * Min(Legs)
  <2> DEFINE s == Spans(reversals)  t == Spans(turns)
  <2>1. MaxGlitches = 0 => e = 0
    <3>1. glitches \in 0..MaxGlitches /\ (glitches = 0 => e = 0)
      BY <1>1, <1>2, Zenon DEF CalibrationTypeOK, Explains, GlitchIsOne
    <3> QED
      BY <3>1, Constants
  <2>2. ASSUME NEW i \in 1..(Len(turns) - 1)
        PROVE  /\ turns[i + 1] - turns[i] \in 6..(Max(Legs) + MaxRests)
               /\ turns[i + 1] - turns[i] \in Nat /\ reversals[i + 1] - reversals[i] \in Nat
               /\ reversals[i + 1] - reversals[i] <= (turns[i + 1] - turns[i]) + 1
               /\ turns[i + 1] - turns[i] <= (reversals[i + 1] - reversals[i]) + 1
    <3>1. turns[i + 1] - turns[i] \in 6..(Max(Legs) + MaxRests)
      BY <1>1, LegsAreCountedAs, Zenon DEF Placed
    <3>2. /\ i \in Nat /\ i + 1 > 1 /\ (i + 1) - 1 = i
          /\ i \in 1..Len(turns) /\ i + 1 \in 1..Len(turns)
      BY <1>3
    <3>3. /\ turns[i] \in Nat /\ turns[i + 1] \in Nat /\ reversals[i] \in Nat /\ reversals[i + 1] \in Nat
      BY <1>3, <1>5, <3>2, ElementsOf, Zenon
    <3>4. LagIsShort(g, e, i) /\ LagIsShort(g, e, i + 1)
      BY <1>2, <1>5, <3>2, Zenon DEF Explains, LagsAreExplained
    <3>5. turns[i + 1] - turns[i] >= 6
      BY <3>1, <3>3, LongestLeg, Constants
    <3>6. /\ reversals[i + 1] - reversals[i] <= (turns[i + 1] - turns[i]) + 1
          /\ turns[i + 1] - turns[i] <= (reversals[i + 1] - reversals[i]) + 1
      BY <1>3, <2>1, <3>2, <3>3, <3>4, <3>5, LagsAgree, Zenon
    <3>7. turns[i + 1] - turns[i] \in Nat /\ reversals[i + 1] - reversals[i] \in Nat
      <4>1. \A a, b, x, y \in Nat : b - a >= 6 /\ b - a <= (y - x) + 1 => b - a \in Nat /\ y - x \in Nat
        OBVIOUS
      <4> QED
        BY <3>3, <3>5, <3>6, <4>1, Zenon
    <3> QED
      BY <3>1, <3>6, <3>7
  <2>3. /\ t \in Seq(Nat) /\ Len(t) = Len(turns) - 1
        /\ \A i \in 1..(Len(turns) - 1) : t[i] = turns[i + 1] - turns[i]
    BY <1>3, <1>6, <2>2, SpansAre, Zenon
  <2>4. /\ s \in Seq(Nat) /\ Len(s) = Len(turns) - 1
        /\ \A i \in 1..(Len(turns) - 1) : s[i] = reversals[i + 1] - reversals[i]
    BY <1>3, <1>5, <1>6, <2>2, SpansAre, Zenon
  <2>5. TwicePeriod = TwiceMedian(s) /\ TwiceHalfCycle(turns) = TwiceMedian(t)
    BY Zenon DEF TwicePeriod, TwiceHalfCycle, Spans
  <2> HIDE DEF s, t
  <2>6. Len(s) = Len(t) /\ Len(s) >= 1 /\ Len(t) = Len(s)
    BY <1>3, <1>6, <2>3, <2>4
  <2>7. /\ \A i \in 1..Len(s) : s[i] <= t[i] + 1
        /\ \A i \in 1..Len(t) : t[i] <= s[i] + 1
    BY <2>2, <2>3, <2>4, Zenon
  <2>8. TwiceMedian(s) \in (TwiceMedian(t) - 2)..(TwiceMedian(t) + 2)
    BY <2>3, <2>4, <2>6, <2>7, MedianClose, Zenon
  <2>9. TwiceMedian(s) \in Nat /\ TwiceMedian(s) <= 2 * (24 * Min(Legs))
    <3>1. 24 * Min(Legs) \in Nat
      BY ShortestLeg
    <3>2. ASSUME NEW i \in 1..Len(s) PROVE s[i] <= 24 * Min(Legs)
      <4>1. i \in 1..(Len(turns) - 1)
        BY <2>4, Zenon
      <4>2. PICK x, y \in Nat : x = s[i] /\ y = t[i] /\ y <= Max(Legs) + MaxRests /\ x <= y + 1
        <5>1. s[i] \in Nat /\ t[i] \in Nat /\ s[i] <= t[i] + 1
          BY <2>2, <2>3, <2>4, <4>1, Zenon
        <5>2. t[i] \in 6..(Max(Legs) + MaxRests)
          BY <2>2, <2>3, <4>1, Zenon
        <5>3. t[i] <= Max(Legs) + MaxRests
          BY <5>2, LongestLeg, Constants
        <5> QED
          BY <5>1, <5>3, Zenon
      <4>3. Max(Legs) + MaxRests < 24 * Min(Legs)
        BY LongestLeg, ShortestLeg, CalibrationAssumption, Zenon
      <4>4. x <= 24 * Min(Legs)
        BY <4>2, <4>3, LongestLeg, ShortestLeg, Constants
      <4> QED
        BY <4>2, <4>4, Zenon
    <3> QED
      BY <2>4, <2>6, <3>1, <3>2, MedianBound, Zenon
  <2>10. 2 * (24 * Min(Legs)) = 48 * Min(Legs)
    BY ShortestLeg
  <2> QED
    BY <2>5, <2>8, <2>9, <2>10, Zenon
<1> QED
  BY <1>5, <1>6, Zenon

LEMMA HalfCyclesFollow ==
  ASSUME CalibrationInv
  PROVE  HalfCyclesAreMeasured
<1> SUFFICES ASSUME leg >= SettledLeg
             PROVE  /\ Len(reversals) = Len(turns)
                    /\ measurable =>
                         /\ TwicePeriod \in (TwiceHalfCycle(turns) - 2)..(TwiceHalfCycle(turns) + 2)
                         /\ (window(TwicePeriod) - 1) + (reversal_n(TwicePeriod) - 1) < Min(Legs)
  BY Zenon DEF HalfCyclesAreMeasured
<1>1. Min(Legs) \in Nat /\ Min(Legs) >= 6
  BY ShortestLeg, Constants
<1> QED
  BY <1>1, PeriodIsMeasured, ShortestIsRecognised, Zenon DEF measurable

\* The measured half cycle has the type of its parts: what the scan reads and finds is
\* samples of the series, and the process stays in its bounds.
THEOREM CalibrationTypesCorrect == CalibrationSpec => []CalibrationTypeOK
<1>1. CalibrationInv => CalibrationTypeOK
  BY DEF CalibrationInv
<1> QED
  BY <1>1, CalibrationInvariant, PTL

\* For every quantum above the deadband, every set of legs that outlast the filter, and
\* rests and glitches few beside its span: every turn is found once, and the period is the
\* half cycle to one sample.
THEOREM PeriodsMeasured == CalibrationSpec => []HalfCyclesAreMeasured
<1>1. CalibrationInv => HalfCyclesAreMeasured
  BY HalfCyclesFollow
<1> QED
  BY <1>1, CalibrationInvariant, PTL

-----------------------------------------------------------------------------
(* The analysis of one silo, whichever of its parts is looked at.          *)

\* Where only writes are learned, no cycle is ever due.
NothingIsDue == focus = "writes" => due = <<>>

AnalysisInv == HoldInv /\ LearnWindowInv /\ CalibrationInv /\ NothingIsDue

\* The learner by itself opens no window again that it closed.
LEMMA WritesAloneKeepTheWindow ==
  ASSUME LearnWindowInv, due = <<>>, GrammarNext, UNCHANGED <<stabVars, cycleVars, marks, due>>
  PROVE  LearnWindowInv'
<1>1. GrammarInv' /\ CycleInv'
  <2>1. GrammarInv /\ CycleInv
    BY Zenon DEF LearnWindowInv
  <2>2. GrammarInv'
    BY <2>1, GrammarInvStep, Zenon
  <2>3. UNCHANGED cycleVars
    OBVIOUS
  <2> QED
    BY <2>1, <2>2, <2>3, CycleInvStep, Zenon
<1>2. evaluating' = evaluating \/ evaluating' = TRUE
  BY Zenon DEF GrammarNext, observe, Freeze, Judge
<1>3. StabInv' /\ MarksInv'
  <2>1. evaluating' = evaluating \/ (due = <<>> /\ evaluating')
    BY <1>2
  <2> QED
    BY <2>1, WritesLeaveTheWindow
<1> QED
  BY <1>1, <1>3, Zenon DEF LearnWindowInv

\* Each part is left as it was by a step of another.
LEMMA PartsAreKept ==
  ASSUME AnalysisInv
  PROVE  /\ UNCHANGED mcvars => HoldInv'
         /\ UNCHANGED windowVars => LearnWindowInv'
         /\ UNCHANGED calibrationVars => CalibrationInv'
<1>1. UNCHANGED mcvars => HoldInv'
  <2>1. UNCHANGED mcvars => [HoldNext]_allVars
    BY DEF mcvars
  <2> QED
    BY <2>1, StepHeld, Zenon DEF AnalysisInv
<1>2. UNCHANGED windowVars => LearnWindowInv'
  BY LearnWindowStep, Zenon DEF AnalysisInv
<1>3. UNCHANGED calibrationVars => CalibrationInv'
  BY InvIsKept, Zenon DEF AnalysisInv
<1> QED
  BY <1>1, <1>2, <1>3, Zenon

\* Whichever part a behaviour looks at, all of them keep their invariants.
LEMMA AnalysisInvariant == AnalysisSpec => []AnalysisInv
<1>1. AnalysisInit => AnalysisInv
  <2> SUFFICES ASSUME AnalysisInit PROVE AnalysisInv
    OBVIOUS
  <2>1. HoldInit /\ LearnWindowInit /\ CalibrationInit /\ due = <<>>
    BY Zenon DEF AnalysisInit, MCInit, LearnWindowInit
  <2> QED
    BY <2>1, InitHeld, LearnWindowInit_Inv, InvAtTheStart, Zenon DEF AnalysisInv, NothingIsDue
<1>2. AnalysisInv /\ [AnalysisNext]_analysisVars => AnalysisInv'
  <2> SUFFICES ASSUME AnalysisInv, [AnalysisNext]_analysisVars PROVE AnalysisInv'
    OBVIOUS
  <2>1. HoldInv /\ LearnWindowInv /\ CalibrationInv /\ NothingIsDue
    BY Zenon DEF AnalysisInv
  <2>2. CASE focus = "calibration" /\ CalibrationNext /\ UNCHANGED <<focus, mcvars, windowVars>>
    <3>1. CalibrationInv'
      BY <2>1, <2>2, InvIsKept, Zenon
    <3>2. HoldInv' /\ LearnWindowInv'
      BY <2>2, PartsAreKept
    <3>3. NothingIsDue'
      BY <2>2 DEF NothingIsDue
    <3> QED
      BY <3>1, <3>2, <3>3, Zenon DEF AnalysisInv
  <2>3. CASE focus = "hold" /\ MCNext /\ UNCHANGED <<focus, windowVars, calibrationVars>>
    <3>1. HoldInv'
      <4>1. HoldNext
        BY <2>3, Zenon DEF MCNext, HoldNext
      <4> QED
        BY <2>1, <4>1, StepHeld, Zenon
    <3>2. LearnWindowInv' /\ CalibrationInv'
      BY <2>3, PartsAreKept
    <3>3. NothingIsDue'
      BY <2>3 DEF NothingIsDue
    <3> QED
      BY <3>1, <3>2, <3>3, Zenon DEF AnalysisInv
  <2>4. CASE /\ focus = "writes" /\ GrammarNext
             /\ UNCHANGED <<focus, mcvars, stabVars, cycleVars, marks, due, calibrationVars>>
    <3>1. due = <<>> /\ UNCHANGED due
      BY <2>1, <2>4 DEF NothingIsDue
    <3>2. LearnWindowInv'
      BY <2>1, <2>4, <3>1, WritesAloneKeepTheWindow
    <3>3. HoldInv' /\ CalibrationInv'
      BY <2>4, PartsAreKept
    <3>4. NothingIsDue'
      BY <3>1 DEF NothingIsDue
    <3> QED
      BY <3>2, <3>3, <3>4, Zenon DEF AnalysisInv
  <2>5. CASE /\ focus = "cycles" /\ LearnWindowNext
             /\ UNCHANGED <<focus, mcvars, calibrationVars>>
    <3>1. LearnWindowInv'
      BY <2>1, <2>5, LearnWindowStep, Zenon
    <3>2. HoldInv' /\ CalibrationInv'
      BY <2>5, PartsAreKept
    <3>3. NothingIsDue'
      BY <2>5 DEF NothingIsDue
    <3> QED
      BY <3>1, <3>2, <3>3, Zenon DEF AnalysisInv
  <2>6. CASE UNCHANGED analysisVars
    <3>1. UNCHANGED <<focus, mcvars, windowVars, calibrationVars>>
      BY <2>6, Zenon DEF analysisVars
    <3>2. HoldInv' /\ LearnWindowInv' /\ CalibrationInv'
      BY <3>1, PartsAreKept
    <3>3. NothingIsDue'
      BY <2>1, <3>1 DEF NothingIsDue, windowVars
    <3> QED
      BY <3>2, <3>3, Zenon DEF AnalysisInv
  <2> QED
    BY <2>2, <2>3, <2>4, <2>5, <2>6, Zenon DEF AnalysisNext
<1> QED
  BY <1>1, <1>2, PTL DEF AnalysisSpec

\* The calibrator, the tracker, the resampler, the learner and its record keep their types
\* together, whatever the silo samples and writes.
THEOREM AnalysisTypesCorrect == AnalysisSpec => []AnalysisTypeOK
<1>1. HoldInv => HoldTypeOK
  BY DEF HoldInv, IInv, HoldTypes, HoldTypeOK
<1>2. LearnWindowInv => LearnWindowTypeOK
  BY LearnWindowIsTyped
<1>3. CalibrationInv => CalibrationTypeOK
  BY DEF CalibrationInv
<1>4. AnalysisInv => AnalysisTypeOK
  BY <1>1, <1>2, <1>3, Zenon DEF AnalysisInv, AnalysisTypeOK
<1> QED
  BY <1>4, AnalysisInvariant, PTL
=============================================================================
