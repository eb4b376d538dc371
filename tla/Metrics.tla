------------------------------ MODULE Metrics -------------------------------
(***************************************************************************)
(* liscere.metrics on one run: every verdict of verdicts.jsonl is given to *)
(* the first label of a scenario that matches it, and the table of what    *)
(* was expected against what was observed gives the rates.                 *)
(*                                                                         *)
(* A verdict is its sequence number, frame time, target and result; the    *)
(* value of a label and its silo are matched like its target.              *)
(***************************************************************************)
EXTENDS Integers, FiniteSets, Sequences, SequencesExt

EXPECTED == {"COHERENT", "INCOHERENT"}
OBSERVED == {"COHERENT", "UNUSUAL", "INCOHERENT", "UNCERTAIN"}

\* A label: [target, rel, from, to, expected]; rel when it counts from the first frame.
_bounds(label, first) == LET origin == IF label.rel THEN first ELSE 0
                         IN  <<origin + label.from, origin + label.to>>

\* Slipped: a window takes the write at its end.
_matches_closed(label, v, first) ==
  /\ label.target = v.target
  /\ _bounds(label, first)[1] <= v.frame /\ v.frame <= _bounds(label, first)[2]

_matches(label, v, first) ==
  /\ label.target = v.target
  /\ _bounds(label, first)[1] <= v.frame /\ v.frame < _bounds(label, first)[2]

\* The label a verdict is counted under, 0 for none.
LabelOf(labels, v, first) ==
  LET matching == {i \in DOMAIN labels : _matches(labels[i], v, first)}
  IN  IF matching = {} THEN 0 ELSE Min(matching)

\* table[e][o], as the verdicts counted there.
Cell(labels, verdicts, first, e, o) ==
  {v \in ToSet(verdicts) : /\ v.result = o
                           /\ LabelOf(labels, v, first) # 0
                           /\ labels[LabelOf(labels, v, first)].expected = e}

evaluate_scenario(labels, verdicts, first) ==
  [table |-> [e \in EXPECTED |-> [o \in OBSERVED |->
                Cardinality(Cell(labels, verdicts, first, e, o))]],
   unmatched |-> {v \in ToSet(verdicts) : LabelOf(labels, v, first) = 0},
   unreached |-> {i \in DOMAIN labels :
                    \A v \in ToSet(verdicts) : LabelOf(labels, v, first) # i}]

-----------------------------------------------------------------------------
(* counts_from_table: one rule names the results that are an alarm and     *)
(* those that are left out of both denominators.                           *)

Over(row, results) ==
  LET n(o) == IF o \in results THEN row[o] ELSE 0
  IN  n("COHERENT") + n("UNUSUAL") + n("INCOHERENT") + n("UNCERTAIN")

rule(table, alarm, exclude) ==
  [tp |-> Over(table["INCOHERENT"], alarm \ exclude),
   fn |-> Over(table["INCOHERENT"], OBSERVED \ (alarm \union exclude)),
   fp |-> Over(table["COHERENT"], alarm \ exclude),
   tn |-> Over(table["COHERENT"], OBSERVED \ (alarm \union exclude))]

headline(table)           == rule(table, {"INCOHERENT"}, {})
B_alarm_inclusive(table)  == rule(table, {"INCOHERENT", "UNUSUAL"}, {})
C_abstention_excluded(table) == rule(table, {"INCOHERENT", "UNUSUAL"}, {"UNCERTAIN"})

uncertain(table) == table["INCOHERENT"]["UNCERTAIN"] + table["COHERENT"]["UNCERTAIN"]

Judged(r) == r.tp + r.fn + r.fp + r.tn
=============================================================================
