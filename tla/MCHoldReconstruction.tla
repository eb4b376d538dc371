------------------------ MODULE MCHoldReconstruction ------------------------
(***************************************************************************)
(* The phase tracker and its hold resampler on a small process, with a     *)
(* history of what the samples the tracker was given did, real or filled   *)
(* in: how long may a steady ramp or a hold go unrecognised?  The margin   *)
(* is the code's 1.75 of the cadence; the loop ticks twice a cadence, or   *)
(* comes late by more than two of them.                                    *)
(***************************************************************************)
EXTENDS HoldReconstruction

VARIABLES
  climb,   \* latest consecutive increments of at least SlopeRising (capped)
  still    \* latest consecutive increments of zero (capped)

mcvars == <<allVars, climb, still>>

MinusOne == -1

RampLatency == (Window - 1) + (ReversalN - 1)
HoldLatency == (Window - 1) + (StableN - 1)

Counted(n, cap, continues) ==
  IF ~continues THEN 0 ELSE IF n < cap THEN n + 1 ELSE cap

Sampled(l) ==
  /\ climb' = Counted(climb, RampLatency, levels # <<>> /\ l - Last(levels) >= SlopeRising)
  /\ still' = Counted(still, HoldLatency, levels # <<>> /\ l = Last(levels))

MCInit == HoldInit /\ climb = 0 /\ still = 0

MCNext ==
  \/ \E l \in Levels : real(l) /\ Sampled(l)
  \/ Fill /\ Sampled(lastValue)
  \/ (\E d \in Elapses : tick(d)) /\ UNCHANGED <<climb, still>>
  \/ (CaughtUp \/ Outage) /\ UNCHANGED <<climb, still>>

MCSpec == MCInit /\ [][MCNext]_mcvars

\* Whatever the tracker believed before, a ramp steep enough for slope_rising
\* is called RISING after one window and reversal_n - 1 further samples.
RampIsRecognised == climb = RampLatency => phase = "RISING" /\ ~transitioning

\* Whatever the tracker believed before, a signal that stands still is called
\* STABLE after one window and stable_n - 1 further samples, and stays so:
\* the promise the hold resampler's ceiling of window + 2 stable_n rests on.
HoldIsRecognised == still = HoldLatency => phase = "STABLE" /\ confidence = 100

\* Neither kind of movement can go on unrecognised (update).
MovesAreRecognised == RampIsRecognised /\ HoldIsRecognised
=============================================================================
