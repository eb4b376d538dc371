---------------------------- MODULE CycleTracker ----------------------------
(***************************************************************************)
(* liscere.learning.CycleTracker: counts completed process cycles from the *)
(* de-duplicated phase sequence.  A period is confirmed once the sequence  *)
(* repeated it twice in full, and then the boundaries already passed are   *)
(* reported together.  Positions count from 0, as the indices of the code. *)
(***************************************************************************)
EXTENDS Integers, Sequences, FiniteSets

CONSTANTS
  PhaseNames,   \* the phases a tracker may report, UNKNOWN apart
  MaxPhases     \* bound: length of the phase sequence

ASSUME CycleAssumption == "UNKNOWN" \notin PhaseNames /\ MaxPhases \in Nat

VARIABLES
  phases,      \* de-duplicated sequence since the first known phase
  period,      \* 0 until confirmed
  cycles, broken,
  reported,    \* _reported
  completed    \* positions whose cycles the last call returned

cycleVars == <<phases, period, cycles, broken, reported, completed>>

\* The phase at position i, from 0.
At(seq, i) == seq[i + 1]

Repeats(seq, p) == \A i \in p..(Len(seq) - 1) : At(seq, i) = At(seq, i - p)

\* Slipped: one repetition confirms a period.
ConfirmedEarly(seq) ==
  LET last == Len(seq) - 1
      fits == {p \in 2..last : last % p = 0 /\ last >= p /\ Repeats(seq, p)}
  IN  IF fits = {} THEN 0 ELSE CHOOSE p \in fits : \A q \in fits : p <= q

\* _confirmed_period: 0 for None.
Confirmed(seq) ==
  LET last == Len(seq) - 1
      fits == {p \in 2..last : last % p = 0 /\ last >= 2 * p /\ Repeats(seq, p)}
  IN  IF fits = {} THEN 0 ELSE CHOOSE p \in fits : \A q \in fits : p <= q

CycleInit ==
  /\ phases = <<>> /\ period = 0 /\ cycles = 0 /\ broken = FALSE
  /\ reported = 0 /\ completed = {}

\* Nothing new, or nothing counted any more.
Ignored(phase) ==
  /\ \/ phase = "UNKNOWN" \/ broken
     \/ phases # <<>> /\ At(phases, Len(phases) - 1) = phase
  /\ completed' = {}
  /\ UNCHANGED <<phases, period, cycles, broken, reported>>

\* Slipped: what was reported is not remembered.
ReportAgain(seq, p) ==
  LET due == {i \in (reported + 1)..(Len(seq) - 1) : i % p = 0}
  IN  completed' = due /\ cycles' = cycles + Cardinality(due) /\ reported' = reported

\* Report the boundaries between the last call that reported and this one.
Report(seq, p) ==
  LET due == {i \in (reported + 1)..(Len(seq) - 1) : i % p = 0}
  IN  /\ completed' = due
      /\ cycles' = cycles + Cardinality(due)
      /\ reported' = Len(seq) - 1

Changed(phase) ==
  LET seq == Append(phases, phase)
      p   == IF period = 0 THEN Confirmed(seq) ELSE period
  IN  /\ ~broken /\ phase # "UNKNOWN"
      /\ phases # <<>> => At(phases, Len(phases) - 1) # phase
      /\ phases' = seq
      /\ \/ /\ p = 0
            /\ completed' = {} /\ UNCHANGED <<period, cycles, broken, reported>>
         \/ /\ period # 0 /\ phase # At(seq, Len(seq) - 1 - period)
            /\ broken' = TRUE
            /\ completed' = {} /\ UNCHANGED <<period, cycles, reported>>
         \/ /\ p # 0 /\ (period # 0 => phase = At(seq, Len(seq) - 1 - period))
            /\ period' = p
            /\ Report(seq, p)
            /\ UNCHANGED broken

cycleUpdate(phase) == Ignored(phase) \/ (Len(phases) < MaxPhases /\ Changed(phase))

CycleNext == \E phase \in PhaseNames \union {"UNKNOWN"} : cycleUpdate(phase)

CycleSpec == CycleInit /\ [][CycleNext]_cycleVars

-----------------------------------------------------------------------------
\* The types of the attributes of CycleTracker.
CycleTypeOK ==
  /\ phases \in Seq(PhaseNames) /\ Len(phases) <= MaxPhases
  /\ period \in 0..MaxPhases /\ cycles \in 0..MaxPhases /\ reported \in 0..MaxPhases
  /\ broken \in BOOLEAN
  /\ completed \subseteq 1..MaxPhases

\* The periods a whole sequence shows at least twice in full, found by looking at
\* all of it at once.
Shown(seq) == {p \in 2..Len(seq) : Len(seq) - 1 >= 2 * p /\ Repeats(seq, p)}

\* Counting step by step, with a late confirmation, gives what the whole sequence
\* shows: the smallest period it repeats twice, and one cycle per repetition.
CountsTheRepetitions ==
  ~broken =>
    IF Shown(phases) = {} THEN period = 0 /\ cycles = 0
    ELSE /\ period \in Shown(phases) /\ \A p \in Shown(phases) : period <= p
         /\ cycles = (Len(phases) - 1) \div period

\* Every boundary is reported once and in order, none is skipped by the late
\* confirmation, and nothing is counted once the pattern is broken.
BoundariesReportedOnce ==
  [][/\ cycles' = cycles + Cardinality(completed')
     /\ completed' # {} => ~broken' /\ completed' = {i \in 1..(Len(phases') - 1) :
                               i % period' = 0 /\ i \div period' > cycles}
     /\ broken => cycles' = cycles /\ phases' = phases
    ]_cycleVars
=============================================================================
