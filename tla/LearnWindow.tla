----------------------------- MODULE LearnWindow -----------------------------
(***************************************************************************)
(* The learn window of one silo (_Run._track_cycle): its writes are        *)
(* learned under the current phase, each phase change is marked with a     *)
(* snapshot of the grammar, and the cycles that CycleTracker completes are *)
(* handed to Stabilisation with the snapshots taken at their boundaries.   *)
(* With --learn-until-stable the window ends when every silo is stable.    *)
(***************************************************************************)
EXTENDS Stabilisation, CycleTracker, SequencesExt

CONSTANT UntilStable   \* --learn-until-stable

ASSUME LearnWindowAssumption == UntilStable \in BOOLEAN

VARIABLES
  marks,   \* CycleTracker.marks: per phase, {snapshot}, or {} outside the learn window
  due      \* snapshots of completed cycles that this call has still to judge

windowVars == <<grammarVars, stabVars, cycleVars, marks, due>>

LearnWindowInit == GrammarInit /\ StabInit /\ CycleInit /\ marks = <<>> /\ due = <<>>

\* Slipped: the snapshot is taken when the cycle is reported.
TakenNow(positions) == [i \in 1..Cardinality(positions) |-> {Snapshot}]

\* The positions a call completed, first to last.
Ascending(positions) ==
  LET ranks == 1..Cardinality(positions)
  IN  CHOOSE o \in [ranks -> positions] : \A i, j \in ranks : i < j => o[i] < o[j]

\* The snapshots of the completed boundaries, in their order.
Taken(positions) ==
  [i \in 1..Cardinality(positions) |-> At(marks', Ascending(positions)[i])]

\* _track_cycle with the tracker's phase: first CycleTracker.update ...
track(phase) ==
  /\ due = <<>>
  /\ cycleUpdate(phase)
  /\ marks' = IF phases' = phases THEN marks
              ELSE Append(marks, IF evaluating THEN {} ELSE {Snapshot})
  /\ due' = IF evaluating THEN <<>> ELSE Taken(completed')
  /\ UNCHANGED <<grammarVars, stabVars>>

\* ... then the loop over the completed cycles, and after it the end of the window
\* when this silo, and the others, are stable.
judge_cycle ==
  /\ due # <<>>
  /\ \E now \in Head(due) : on_cycle(now)
  /\ due' = Tail(due)
  /\ \/ Len(due) = 1 /\ UntilStable /\ stable_at' # 0 /\ evaluating' = TRUE
     \/ evaluating' = FALSE
  /\ UNCHANGED <<counts, judged, cycleVars, marks>>

\* A write under the phase the silo is in; a broken pattern follows it no more.
Learned ==
  /\ due = <<>>
  /\ \E t \in Targets, n \in Batches, ctx \in Contexts :
       /\ Learnable(ctx)
       /\ ~broken => phases # <<>> /\ ctx.phase = Last(phases)
       /\ observe(t, ctx, n)
  /\ UNCHANGED <<stabVars, cycleVars, marks, due>>

\* The deadline of the learn window (tick).
Deadline ==
  due = <<>> /\ Freeze /\ UNCHANGED <<stabVars, cycleVars, marks, due>>

LearnWindowNext ==
  \/ \E phase \in PhaseNames \union {"UNKNOWN"} : track(phase)
  \/ judge_cycle
  \/ Learned
  \/ Deadline

LearnWindowSpec == LearnWindowInit /\ [][LearnWindowNext]_windowVars

-----------------------------------------------------------------------------
\* The types of marks and of the cycles still to judge.
LearnWindowTypeOK ==
  /\ StabTypeOK /\ CycleTypeOK
  /\ Len(marks) = Len(phases)
  /\ \A i \in 1..Len(marks) : Cardinality(marks[i]) <= 1
  /\ Len(due) <= cycles

\* Cycle c is judged on the grammar as it was when its boundary was passed, however
\* late the period was confirmed, and Stabilisation numbers cycles as CycleTracker
\* does: no cycle of the window is skipped, judged twice or out of order.
CyclesAreJudgedAtTheirBoundary ==
  /\ \A c \in 1..Len(past) : marks[c * period + 1] = {past[c]}
  /\ ~evaluating => Len(past) + Len(due) = cycles
=============================================================================
