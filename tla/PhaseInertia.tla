---------------------------- MODULE PhaseInertia ----------------------------
(***************************************************************************)
(* What the phase tracker promises.  The operational phase of a process is *)
(* a function of one thing only: how long the current run of identical     *)
(* movements (RISING, FALLING or none) is.  A run against the phase must   *)
(* be ReversalN long before it turns the phase, a flat run must be StableN *)
(* long before it settles it, and the phase is pending exactly while there *)
(* is none yet or the latest movement speaks against it.  The detailed     *)
(* tracker (PhaseTracker) keeps several counters with their own resets and *)
(* implements this.                                                        *)
(***************************************************************************)
EXTENDS Integers

CONSTANTS
  ReversalN,   \* movements against the phase that turn it
  StableN      \* flat samples that settle it

VARIABLES
  phase,       \* the inferred phase
  pending,     \* a phase is not to be learned from or judged against
  runMove,     \* the movement of the current run
  runLen       \* its length (capped, see RunCap)

vars == <<phase, pending, runMove, runLen>>

Directions == {"RISING", "FALLING"}
Movements  == Directions \union {"NONE"}
Phases     == Directions \union {"UNKNOWN", "STABLE"}

\* No test distinguishes runs longer than this.
RunCap == IF ReversalN > StableN THEN ReversalN ELSE StableN

ExtendedRun(m) ==
  IF m # runMove THEN 1 ELSE IF runLen < RunCap THEN runLen + 1 ELSE RunCap

Against(p, m) == p \in Directions /\ m \in Directions /\ p # m

PhaseAfter(p, m, n) ==
  CASE Against(p, m) /\ n < ReversalN -> p
    [] m = "NONE" /\ n < StableN       -> p
    [] m = "NONE" /\ n >= StableN      -> "STABLE"
    [] OTHER                           -> m

Init ==
  /\ phase = "UNKNOWN"
  /\ pending = FALSE
  /\ runMove = "NONE"
  /\ runLen = 0

Observe(m) ==
  /\ runMove' = m
  /\ runLen' = ExtendedRun(m)
  /\ phase' = PhaseAfter(phase, m, ExtendedRun(m))
  /\ pending' = (phase' = "UNKNOWN" \/ Against(phase', m))

Next == \E m \in Movements : Observe(m)

Spec == Init /\ [][Next]_vars
=============================================================================
