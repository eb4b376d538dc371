------------------------- MODULE HoldReconstruction -------------------------
(***************************************************************************)
(* liscere.observe.HoldResampler feeding a silo's PhaseTracker from        *)
(* _Run.tick (_resample_holds): a signal reported by exception goes silent *)
(* while it holds, and the tracker gets flat repeats of its last value.    *)
(* tick and dispatch run on one thread: the flats due at a tick all reach  *)
(* the tracker before anything else does.                                  *)
(*                                                                         *)
(* _next_due is kept as the time left to it.                               *)
(***************************************************************************)
EXTENDS PhaseTracker

CONSTANTS
  Cadence,   \* calibrated time between samples
  Margin,    \* silence before the first flat (margin * cadence)
  Elapses    \* time that may pass between two ticks

ASSUME HoldAssumption ==
  /\ Cadence \in Nat \ {0} /\ Margin \in Nat \ {0}
  /\ Elapses \subseteq Nat \ {0}

VARIABLES
  active, lastValue, dueIn, emitted,
  catching,  \* a tick is feeding the flats that are due
  dark,      \* the capture of this signal is down
  silence,   \* history: time since the last real sample, up to SilenceCap
  unbroken   \* history: no outage since the last real sample

holdVars == <<active, lastValue, dueIn, emitted>>
allVars  == <<vars, holdVars, catching, dark, silence, unbroken>>

\* Slipped: the ceiling forgets that the window must be flushed.
ceiling_short == IF StableN > 1 THEN StableN ELSE 1

ceiling == IF Window + 2 * StableN > 1 THEN Window + 2 * StableN ELSE 1

\* Bound on the history: past it, every flat there may be has been due.
SilenceCap == Margin + (Window + 2 * StableN) * Cadence

HoldInit ==
  /\ Init
  /\ active = FALSE /\ lastValue \in Levels /\ dueIn = 0 /\ emitted = 0
  /\ catching = FALSE /\ dark = FALSE /\ silence = 0 /\ unbroken = TRUE

\* last_value is None until the first sample, and unused until then.

\* _feed_or_judge of a state sample.
real(l) ==
  /\ ~catching /\ ~dark
  /\ update(l)
  /\ active' = TRUE /\ lastValue' = l /\ dueIn' = Margin /\ emitted' = 0
  /\ silence' = 0 /\ unbroken' = TRUE
  /\ UNCHANGED <<catching, dark>>

\* A tick, after time d.  A count at its ceiling leaves _next_due without effect.
tick(d) ==
  /\ ~catching
  /\ dueIn' = IF active /\ emitted < ceiling THEN dueIn - d ELSE dueIn
  /\ silence' = IF active /\ silence + d < SilenceCap THEN silence + d
                ELSE IF active THEN SilenceCap ELSE 0
  /\ catching' = active
  /\ UNCHANGED <<vars, active, lastValue, emitted, dark, unbroken>>

Due == dueIn <= 0 /\ emitted < ceiling

\* One turn of the loop of catch_up, and of the loop over what it returns.
Fill ==
  /\ catching /\ Due
  /\ update(lastValue)
  /\ emitted' = emitted + 1
  /\ dueIn' = dueIn + Cadence
  /\ UNCHANGED <<active, lastValue, catching, dark, silence, unbroken>>

CaughtUp ==
  /\ catching /\ ~Due
  /\ catching' = FALSE
  /\ UNCHANGED <<vars, holdVars, dark, silence, unbroken>>

\* The supervisor loses and resumes the capture: nothing tells the resampler.
Outage ==
  /\ ~catching
  /\ dark' = ~dark /\ unbroken' = FALSE
  /\ UNCHANGED <<vars, holdVars, catching, silence>>

HoldNext ==
  \/ \E l \in Levels : real(l)
  \/ \E d \in Elapses : tick(d)
  \/ Fill
  \/ CaughtUp
  \/ Outage

HoldSpec == HoldInit /\ [][HoldNext]_allVars

-----------------------------------------------------------------------------
\* The types of the attributes of PhaseTracker and HoldResampler; the ceiling bounds the flats.
HoldTypeOK ==
  /\ TypeOK
  /\ active \in BOOLEAN /\ catching \in BOOLEAN /\ dark \in BOOLEAN
  /\ lastValue \in Levels /\ dueIn \in Int /\ emitted \in 0..ceiling
  /\ silence \in 0..SilenceCap /\ unbroken \in BOOLEAN

\* While the capture lasts, exactly the flats that are due have been fed between ticks:
\* none before the margin, one more per cadence, none past the ceiling, whether the
\* ticks came in time or after a pause; and every real sample starts the count again.
FlatsFollowTheSilence ==
  active /\ unbroken /\ ~catching =>
    LET due == IF silence < Margin THEN 0 ELSE 1 + (silence - Margin) \div Cadence
    IN  emitted = (IF due < ceiling THEN due ELSE ceiling)

\* A hold closes in time, whatever the tracker believed before: the flats flush its
\* window and settle it to STABLE with full confidence, well under the ceiling.
HoldClosesInTime ==
  active /\ unbroken /\ ~catching /\ silence >= Margin + (Window + StableN - 3) * Cadence
    => phase = "STABLE" /\ confidence = 100

\* The flats of catch_up make of a hold what it was, as long as the capture would have
\* shown a movement: each in its time, and the hold closed by them.
FlatsCloseTheHold == FlatsFollowTheSilence /\ HoldClosesInTime

\* "The outage window is genuinely ABSENT after resume -- not fabricated or backfilled"
\* (tests/test_respawn.py; _Source.respawn): while the capture is down, the tracker is
\* given no sample that nobody saw.
OutageIsAbsent == dark => ~(catching /\ Due)
=============================================================================
