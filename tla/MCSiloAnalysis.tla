--------------------------- MODULE MCSiloAnalysis ---------------------------
(***************************************************************************)
(* What one silo makes of its samples and writes, at four magnifications:  *)
(* the period, from the samples of the observe window (calibration); the   *)
(* phase, from real samples and the flats of a hold (hold); many writes    *)
(* with every context and their verdicts, without cycles (writes); few     *)
(* writes, of which only the phase matters, and all phase sequences        *)
(* (cycles).                                                               *)
(***************************************************************************)
EXTENDS MCHoldReconstruction, LearnWindow, Calibration

CONSTANT FewWrites   \* bound: writes learned in a behaviour that looks at cycles

VARIABLE focus

analysisVars == <<mcvars, windowVars, calibrationVars, focus>>

\* The other magnifications look at no samples: one level to start from will do.
AnalysisInit ==
  /\ MCInit /\ LearnWindowInit /\ CalibrationInit
  /\ focus \in {"calibration", "hold", "writes", "cycles"}
  /\ focus # "hold" => lastValue = CHOOSE l \in Levels : TRUE

AnalysisNext ==
  \/ focus = "calibration" /\ CalibrationNext /\ UNCHANGED <<focus, mcvars, windowVars>>
  \/ focus = "hold" /\ MCNext /\ UNCHANGED <<focus, windowVars, calibrationVars>>
  \/ /\ focus = "writes" /\ GrammarNext
     /\ UNCHANGED <<focus, mcvars, stabVars, cycleVars, marks, due, calibrationVars>>
  \/ /\ focus = "cycles" /\ LearnWindowNext
     /\ \A t \in Targets : Total(counts'[t]) <= FewWrites
     /\ UNCHANGED <<focus, mcvars, calibrationVars>>

AnalysisSpec == AnalysisInit /\ [][AnalysisNext]_analysisVars

-----------------------------------------------------------------------------
\* The types of the calibrator, the tracker, the resampler, the learner and its record.
AnalysisTypeOK == HoldTypeOK /\ LearnWindowTypeOK /\ CalibrationTypeOK
=============================================================================
