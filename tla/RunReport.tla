----------------------------- MODULE RunReport ------------------------------
(***************************************************************************)
(* liscere-metrics on the record of a run that has ended, whichever way:   *)
(* load_run reads what is in verdicts.jsonl and in events.jsonl, and       *)
(* evaluate_scenario counts the verdicts under the labels of a scenario.   *)
(***************************************************************************)
EXTENDS RunRecord, Metrics

CONSTANT Scenarios   \* label files, each a sequence of labels

\* load_scenario: what a label is.
LabelTypes == [target : STRING, rel : BOOLEAN, from : Int, to : Int, expected : EXPECTED]

ASSUME ReportAssumption ==
  /\ Results \subseteq OBSERVED
  /\ \A labels \in Scenarios : labels \in Seq(LabelTypes)

VARIABLE report      \* the report of one scenario, or None

reportVars == <<report, recordVars>>

\* load_run: the earliest frame time of the events that are in events.jsonl, else of
\* the verdicts.
first_frame ==
  LET told == IF events # <<>> THEN events ELSE verdicts
  IN  Min({told[i].frame : i \in DOMAIN told})

ReportInit == report = None /\ RecordInit

\* A report of no verdict has only zeros and is left out; with a verdict there is a
\* frame time and _bounds does not raise.
compute(labels) ==
  /\ at \in {"closed", "dead"} /\ report = None /\ verdicts # <<>>
  /\ report' = [labels |-> labels, first |-> first_frame,
                result |-> evaluate_scenario(labels, verdicts, first_frame)]
  /\ UNCHANGED recordVars

ReportNext ==
  \/ RecordNext /\ UNCHANGED report
  \/ \E labels \in Scenarios : compute(labels)

ReportSpec == ReportInit /\ [][ReportNext]_reportVars

-----------------------------------------------------------------------------
Absolute(labels) == \A i \in DOMAIN labels : ~labels[i].rel

\* Labels of one target whose windows do not meet.
Disjoint(labels) ==
  \A i, j \in DOMAIN labels : i # j =>
    \/ labels[i].target # labels[j].target
    \/ labels[i].rel = labels[j].rel /\ (labels[i].to <= labels[j].from \/ labels[j].to <= labels[i].from)

\* The n-th verdict of the stream, as the index is to have it.
ToldAs(n) ==
  LET e == stream[CHOOSE i \in DOMAIN stream : IsVerdict(stream[i]) /\ JudgedIn(stream, i) = n]
  IN  [seq |-> n, frame |-> e.frame, result |-> e.result, target |-> "valve"]

\* A report counts each verdict of the stream once (evaluate_scenario), however the
\* run ended and whatever rotation took: with absolute windows it is the report of
\* all the verdicts but one that was being written.  Where windows do not meet, the
\* order of the labels does not matter ("the first label in file order wins").
ReportCountsEachVerdictOnce ==
  report # None =>
    LET r    == report.result
        told == [n \in 1..Len(verdicts) |-> ToldAs(n)]
    IN  /\ Over(r.table["COHERENT"], OBSERVED) + Over(r.table["INCOHERENT"], OBSERVED)
             + Cardinality(r.unmatched) = Len(verdicts)
        /\ Disjoint(report.labels) =>
             evaluate_scenario(Reverse(report.labels), verdicts, report.first).table = r.table
        /\ Absolute(report.labels) =>
             evaluate_scenario(report.labels, told, None).table = r.table
        /\ Judged(headline(r.table)) - uncertain(r.table) = Judged(C_abstention_excluded(r.table))
        /\ B_alarm_inclusive(r.table).fp >= headline(r.table).fp
        /\ B_alarm_inclusive(r.table).fn <= headline(r.table).fn
=============================================================================
