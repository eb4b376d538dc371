------------------------------- MODULE Replay --------------------------------
(***************************************************************************)
(* liscere.observe.replay_multiplex: the same _Run driven by recorded      *)
(* lines instead of live captures.  The lines of all sources are merged by *)
(* frame time, the frame clock advances with each line, and tick is polled *)
(* before the line is dispatched.  Every line read is written to the       *)
(* record of this run, from which it can be replayed again.                *)
(*                                                                         *)
(* main takes either the selector loop or this one (capture).  A line is   *)
(* its time stamp; one whose first column is no time is Unstamped.         *)
(***************************************************************************)
EXTENDS ObserverRun, Sequences, SequencesExt

CONSTANTS
  Order,     \* the sources in the order of the list `sources`
  Recorded   \* what the file of a source may hold: sequences of time stamps

Unstamped == -1

Times == Nat \union {Unstamped}

ASSUME ReplayAssumption ==
  /\ Order \in Seq(Sources) /\ IsInjective(Order) /\ ToSet(Order) = Sources
  /\ <<>> \in Recorded /\ \A lines \in Recorded : lines \in Seq(Times)

VARIABLES
  capture,    \* what main runs on: "live" or "replay"
  given,      \* history: the whole input, per source
  lines,      \* per source, what its iterator has not given yet
  pending,    \* per source, the line fetched last as {[ts, raw]}, or {}
  record,     \* per source, the lines written to the record
  last_ts,
  now,        \* FrameClock._t
  at,         \* where replay_multiplex is: "merge", "until" or "dispatch"
  picked,     \* src
  returned,   \* "running", "stopped", "eof", "interrupted" or "raised"
  first       \* history: the time of the first frame

replayVars == <<capture, given, lines, pending, record, last_ts, now, at, picked, returned, first>>

\* Neither children nor outages: the selector loop is not entered.
noLoop == UNCHANGED <<supervisorVars, args, lostFor, exits, watched>>

Earlier(x, y) == x # Unstamped /\ (y = Unstamped \/ x < y)

ReplayInit ==
  /\ capture \in {"live", "replay"}
  /\ given \in [Sources -> Recorded]
  /\ capture = "live" => \A s \in Sources : given[s] = <<>>
  /\ lines = given
  /\ pending = [s \in Sources |-> {}]
  /\ record = [s \in Sources |-> <<>>]
  /\ last_ts = Unstamped /\ now = Unstamped /\ first = Unstamped
  /\ at = "merge" /\ picked = Order[1] /\ returned = "running"

-----------------------------------------------------------------------------
(* The merge.                                                              *)

\* Slipped: a line without a time waits for all the others.
Stamp_none(raw) == raw

\* fill: a line without a time inherits the previous one.
Stamp(raw) == IF raw = Unstamped THEN last_ts ELSE raw

Filled(s) ==
  IF pending[s] # {} \/ lines[s] = <<>> THEN pending[s]
  ELSE {[ts |-> Stamp(Head(lines[s])), raw |-> Head(lines[s])]}

\* min over the live sources: the first of the list among the earliest.
Earliest(live) ==
  Order[SelectInSeq(Order, LAMBDA s : s \in live /\ \A r \in live :
          ~\E x \in Filled(s), y \in Filled(r) : Earlier(y.ts, x.ts))]

\* FrameClock.advance never goes back.
Elapsed(ts) == IF ts = Unstamped \/ now = Unstamped \/ ts < now THEN 0 ELSE ts - now

\* The deadlines are set from the first frame (_set_deadlines).
advance(ts) ==
  /\ now' = IF now = Unstamped THEN ts ELSE now + Elapsed(ts)
  /\ first' = IF first = Unstamped THEN ts ELSE first
  /\ observeLeft' = IF phase = "observe" THEN observeLeft - Elapsed(ts) ELSE observeLeft
  /\ learnLeft' = IF phase # "evaluate" THEN learnLeft - Elapsed(ts) ELSE learnLeft

Merge ==
  /\ at = "merge" /\ returned = "running"
  /\ LET live == {s \in Sources : Filled(s) # {}}
         src  == Earliest(live)
     IN  /\ live # {}
         /\ picked' = src
         /\ pending' = [s \in Sources |-> IF s = src THEN {} ELSE Filled(s)]
         /\ lines' = [s \in Sources |-> IF pending[s] = {} /\ s \in live THEN Tail(lines[s])
                                        ELSE lines[s]]
         /\ \E line \in Filled(src) :
              /\ record' = [record EXCEPT ![src] = Append(@, line.raw)]
              /\ advance(line.ts)
              /\ last_ts' = IF line.ts = Unstamped THEN last_ts ELSE line.ts
  /\ at' = "until"
  /\ noLoop /\ UNCHANGED <<capture, given, returned, siloVars, endVars>>

-----------------------------------------------------------------------------
(* until() and on_event.                                                   *)

\* Slipped: the line fetched last is not copied.
drained_unread(s) == record[s] \o lines[s]

drained(s) ==
  IF pending[s] = {} THEN record[s] \o lines[s]
  ELSE record[s] \o <<(CHOOSE line \in pending[s] : TRUE).raw>> \o lines[s]

_drain_to_record ==
  /\ record' = [s \in Sources |-> drained(s)]
  /\ pending' = [s \in Sources |-> {}]
  /\ lines' = [s \in Sources |-> <<>>]

Poll ==
  /\ at = "until" /\ returned = "running"
  /\ \/ now = Unstamped /\ UNCHANGED <<siloVars, endVars>>
     \/ now # Unstamped /\ tick
  /\ \/ stop' /\ returned' = "stopped" /\ _drain_to_record /\ UNCHANGED at
     \/ ~stop' /\ at' = "dispatch" /\ UNCHANGED <<returned, record, pending, lines>>
  /\ noLoop /\ UNCHANGED <<capture, given, last_ts, now, picked, first, deadlines>>

\* A line may also make no event at all.
Dispatch ==
  /\ at = "dispatch" /\ returned = "running"
  /\ \/ dispatch(picked) /\ at' = "merge" /\ UNCHANGED returned
     \/ at' = "merge" /\ UNCHANGED <<returned, siloVars, endVars>>
     \/ Judged(picked) /\ returned' = "raised" /\ UNCHANGED <<at, siloVars, endVars>>
  /\ noLoop /\ UNCHANGED <<capture, given, lines, pending, record, last_ts, now, picked, first, deadlines>>

-----------------------------------------------------------------------------
(* _replay_run around it.                                                  *)

learn_ends_with_input == phase = "learn" /\ _end_learn("input")

end_of_input ==
  \/ phase = "observe" /\ rc' = 2 /\ UNCHANGED <<siloVars, phase, stop, ended>>
  \/ learn_ends_with_input
  \/ phase = "evaluate" /\ UNCHANGED <<siloVars, endVars>>

EndOfInput ==
  /\ at = "merge" /\ returned = "running"
  /\ \A s \in Sources : Filled(s) = {}
  /\ returned' = "eof"
  /\ end_of_input
  /\ noLoop
  /\ UNCHANGED <<capture, given, lines, pending, record, last_ts, now, at, picked, first, deadlines>>

\* Ctrl-C.
ReplayInterrupt ==
  /\ returned = "running" /\ returned' = "interrupted"
  /\ noLoop
  /\ UNCHANGED <<capture, given, lines, pending, record, last_ts, now, at, picked, first,
                 deadlines, siloVars, endVars>>

ReplayNext == Merge \/ Poll \/ Dispatch \/ EndOfInput \/ ReplayInterrupt

ObserverInit == RunInit /\ ReplayInit

ObserverNext ==
  \/ capture = "live" /\ RunNext /\ UNCHANGED replayVars
  \/ capture = "replay" /\ ReplayNext

ObserverSpec == ObserverInit /\ [][ObserverNext]_<<runVars, replayVars>>

-----------------------------------------------------------------------------
\* However a replay ends by itself, its record holds the whole input, line for line:
\* also when it stopped early, with lines fetched from other sources but not yet
\* dispatched (_drain_to_record, docs/replay.md).
RecordIsTheWholeInput == returned \in {"stopped", "eof"} => record = given

\* The lines of a source in time order, from a line with a time on.
InOrder(stamps) ==
  /\ stamps # <<>> => Head(stamps) # Unstamped
  /\ \A i, j \in DOMAIN stamps :
       i < j /\ stamps[i] # Unstamped /\ stamps[j] # Unstamped => stamps[i] <= stamps[j]

\* No line that is merged later is of an earlier time than the one merged now.
MergedInOrder ==
  \A s \in Sources : \A later \in ToSet(lines'[s]) \union {x.raw : x \in pending'[s]} :
    later # Unstamped => later >= now'

\* The line that is dispatched falls in the window it is taken in, but for the one that
\* closes observe.
TakenInItsWindow ==
  LET time == now - first
  IN  /\ phase' = "observe" => time < Observe
      /\ phase' = "learn" => time >= Observe
      /\ phase = "learn" /\ phase' = "learn" => time < Observe + Learn
      /\ phase = "learn" /\ phase' = "evaluate" /\ ended' = "deadline"
           => time >= Observe + Learn

\* The lines of sources that are each in time order are dispatched in time order, and
\* a line without a time does not hold others up (fill: "it cannot reorder the
\* merge").  The windows count frame time from the first frame (docs/replay.md): a
\* line is taken in the window its time falls in, also where the lines of a source go
\* back in time.  One poll closes one window, so the line that closes observe is
\* learned from however late it is; no other line is.
LinesTakeTheirPlace ==
  [][/\ at = "merge" /\ at' = "until" /\ (\A s \in Sources : InOrder(given[s])) => MergedInOrder
     /\ at = "until" /\ at' = "dispatch" => TakenInItsWindow]_<<runVars, replayVars>>

\* A replay whose input ends says what it got to: exit code 2 if nothing was
\* calibrated, and otherwise every silo has the grammar it is to be judged on.
InputEndKeepsLearning ==
  returned = "eof" =>
    IF phase = "observe" THEN rc = 2 /\ evaluable = {}
    ELSE rc # 2 /\ evaluable # {} /\ \A s \in evaluable : grammar[s] # "none"

\* Whatever is judged is judged on a grammar, however learning ended: by a deadline, by
\* stability or with the input (tick, end_of_input).
JudgedSilosHaveGrammars == EvaluateHasGrammar /\ InputEndKeepsLearning
=============================================================================
