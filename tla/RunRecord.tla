----------------------------- MODULE RunRecord ------------------------------
(***************************************************************************)
(* What a live run leaves on disk: the raw lines (CaptureRecorder), the    *)
(* event stream and the verdict index (RunRecord.sink behind Emitter), the *)
(* manifest, and logrotate's copytruncate on events.jsonl, with the        *)
(* observer interrupted or killed between any two steps.                   *)
(*                                                                         *)
(* One source and one silo.  A line is the time of its frame and what it   *)
(* does to the silo; what the verdict is, and whether a flat of the hold   *)
(* resampler changes the phase, the environment chooses.  Of the events of *)
(* one sample, flat or write that carry a frame time, one stands for all;  *)
(* the others are left out.                                                *)
(***************************************************************************)
EXTENDS Integers, FiniteSets, Sequences, SequencesExt

CONSTANTS
  ObserveFor, LearnFor,  \* window lengths
  Results,               \* what a write may be judged
  HoldAfter, HoldEvery,  \* silence before the first flat, time between flats
  None,                  \* no line, no event, no manifest
  MaxTime, MaxLines, MaxPolls   \* bounds: time, lines captured, polls without time passing

ASSUME RecordAssumption ==
  /\ None # 0
  /\ ObserveFor \in Nat \ {0} /\ LearnFor \in Nat
  /\ HoldAfter \in Nat \ {0} /\ HoldEvery \in Nat \ {0}
  /\ MaxTime \in Nat /\ MaxLines \in Nat /\ MaxPolls \in Nat \ {0}

\* A sample whose value is new, one whose value is not, and a write.
Kinds == {"news", "same", "write"}
Lines == [frame : 0..MaxTime, kind : Kinds]

VARIABLES
  now, polls,
  pipe,      \* lines tshark has written and the observer has not read
  at,        \* where the observer is
  line,      \* the line being handled
  event,     \* the event being emitted
  period,    \* _Run.phase
  flatDue,   \* when the next flat of the resampler is due, None before the first sample
  capture,   \* capture/<layer>.tsv
  stream,    \* stdout
  events,    \* events.jsonl
  verdicts,  \* verdicts.jsonl
  seq,       \* RunRecord._seq
  manifest,  \* run.json: the exit code and the number of verdicts, once closed
  rc,
  rotated,   \* the events in the copies logrotate keeps
  copied     \* logrotate between copy and truncate: what it copied

diskVars   == <<capture, events, verdicts, manifest>>
rotateVars == <<rotated, copied>>
recordVars == <<now, polls, pipe, at, line, event, period, flatDue, stream, seq, rc, diskVars, rotateVars>>

RecordInit ==
  /\ now = 0 /\ polls = 0 /\ pipe = <<>>
  /\ at = "until" /\ line = None /\ event = None /\ period = "observe" /\ flatDue = None
  /\ capture = <<>> /\ stream = <<>> /\ events = <<>> /\ verdicts = <<>>
  /\ seq = 0 /\ manifest = None /\ rc = None
  /\ rotated = <<>> /\ copied = None

-----------------------------------------------------------------------------
(* tshark and the selector loop.                                           *)

\* A line that comes while a read is handled is seen at the next select, so it may as
\* well come then.
Captured(kind) ==
  /\ at = "select" /\ Len(capture) + Len(pipe) < MaxLines
  /\ pipe' = Append(pipe, [frame |-> now, kind |-> kind])
  /\ UNCHANGED <<now, polls, at, line, event, period, flatDue, stream, seq, rc, diskVars, rotateVars>>

\* _resample_holds, before the windows are looked at: a flat for each cadence of the
\* silence.  What it changes is told with the time of the tick, not of a line.  (The
\* ceiling of catch_up ends the flats earlier, see HoldReconstruction.)
FlatIsDue == period # "observe" /\ flatDue # None /\ now >= flatDue

Flat ==
  /\ at = "until" /\ FlatIsDue
  /\ flatDue' = flatDue + HoldEvery
  /\ \/ event' = [type |-> "hold", frame |-> now] /\ at' = "stdout"
     \/ UNCHANGED <<event, at>>
  /\ UNCHANGED <<now, polls, pipe, line, period, stream, seq, rc, diskVars, rotateVars>>

\* The rest of _Run.tick: the windows count from the start of the run, and one tick ends one.
Ticked ==
  IF period = "observe" /\ now >= ObserveFor THEN "learn"
  ELSE IF period = "learn" /\ now >= ObserveFor + LearnFor THEN "evaluate"
  ELSE period

Until ==
  /\ at = "until" /\ ~FlatIsDue /\ at' = "select"
  /\ period' = Ticked
  /\ UNCHANGED <<now, polls, pipe, line, event, flatDue, stream, seq, rc, diskVars, rotateVars>>

\* select blocks until there is input or its time is up.
Select ==
  /\ at = "select"
  /\ \/ now < MaxTime /\ now' = now + 1 /\ polls' = 0 /\ UNCHANGED at
     \/ pipe # <<>> /\ polls < MaxPolls /\ polls' = polls + 1 /\ at' = "lines" /\ UNCHANGED now
     \/ at' = "until" /\ polls < MaxPolls /\ polls' = polls + 1 /\ UNCHANGED now
  /\ UNCHANGED <<pipe, line, event, period, flatDue, stream, seq, rc, diskVars, rotateVars>>

\* The lines of one read, one after the other; each is recorded before it is parsed.
Record ==
  /\ at = "lines" /\ pipe # <<>>
  /\ line' = Head(pipe) /\ pipe' = Tail(pipe)
  /\ capture' = Append(capture, line')
  /\ at' = "dispatch"
  /\ UNCHANGED <<now, polls, event, period, flatDue, stream, events, verdicts, manifest, seq, rc, rotateVars>>

EndOfRead ==
  /\ at = "lines" /\ pipe = <<>> /\ at' = "until"
  /\ UNCHANGED <<now, polls, pipe, line, event, period, flatDue, stream, seq, rc, diskVars, rotateVars>>

\* The events a line makes in a period; observe only collects.
EventsOf(l, p, results) ==
  IF p = "observe" \/ l.kind = "same" THEN {None}
  ELSE IF l.kind = "write" /\ p = "evaluate"
       THEN {[type |-> "verdict", frame |-> l.frame, result |-> r] : r \in results}
       ELSE {[type |-> "variable_value", frame |-> l.frame]}

Dispatch ==
  /\ at = "dispatch"
  /\ \E e \in EventsOf(line, period, Results) :
       /\ event' = e
       /\ at' = IF e = None THEN "lines" ELSE "stdout"
  /\ flatDue' = IF period # "observe" /\ line.kind # "write" THEN now + HoldAfter ELSE flatDue
  /\ line' = None
  /\ UNCHANGED <<now, polls, pipe, period, stream, seq, rc, diskVars, rotateVars>>

-----------------------------------------------------------------------------
(* Emitter._emit: stdout, then RunRecord.sink.                             *)

Emit ==
  /\ at = "stdout" /\ at' = "events"
  /\ stream' = Append(stream, event)
  /\ UNCHANGED <<now, polls, pipe, line, event, period, flatDue, seq, rc, diskVars, rotateVars>>

Sink ==
  /\ at = "events"
  /\ events' = Append(events, event)
  /\ \/ /\ event.type = "verdict"
        /\ seq' = seq + 1 /\ at' = "verdicts" /\ UNCHANGED event
     \/ /\ event.type # "verdict"
        /\ at' = (IF event.type = "hold" THEN "until" ELSE "lines")
        /\ event' = None /\ UNCHANGED seq
  /\ UNCHANGED <<now, polls, pipe, line, period, flatDue, stream, rc, capture, verdicts, manifest, rotateVars>>

Indexed(e) == [seq |-> seq, frame |-> e.frame, result |-> e.result, target |-> "valve"]

Index ==
  /\ at = "verdicts"
  /\ verdicts' = Append(verdicts, Indexed(event))
  /\ at' = "lines" /\ event' = None
  /\ UNCHANGED <<now, polls, pipe, line, period, flatDue, stream, seq, rc, capture, events, manifest, rotateVars>>

-----------------------------------------------------------------------------
(* The ends of the run.                                                    *)

Running == at \notin {"closing", "closed", "dead"}

\* Ctrl-C anywhere is caught in _main_run, which returns run.rc.
Interrupt ==
  /\ Running /\ at' = "closing" /\ rc' = 0
  /\ UNCHANGED <<now, polls, pipe, line, event, period, flatDue, stream, seq, diskVars, rotateVars>>

\* The reader of stdout has gone: the event is in neither stream, the exception
\* leaves through main's finally.
BrokenPipe ==
  /\ at = "stdout" /\ at' = "closing" /\ rc' = None
  /\ UNCHANGED <<now, polls, pipe, line, event, period, flatDue, stream, seq, diskVars, rotateVars>>

IsVerdict(e) == e.type = "verdict"

\* Slipped: the verdicts are counted in the event stream that is on disk.
CloseCounting ==
  /\ at = "closing" /\ at' = "closed"
  /\ manifest' = [exit_code |-> rc, verdicts |-> Len(SelectSeq(events, IsVerdict))]
  /\ UNCHANGED <<now, polls, pipe, line, event, period, flatDue, stream, seq, rc, capture, events, verdicts, rotateVars>>

\* RunRecord.close; run.json is replaced as a whole.
Close ==
  /\ at = "closing" /\ at' = "closed"
  /\ manifest' = [exit_code |-> rc, verdicts |-> seq]
  /\ UNCHANGED <<now, polls, pipe, line, event, period, flatDue, stream, seq, rc, capture, events, verdicts, rotateVars>>

\* SIGTERM of systemctl stop, SIGKILL, power; also a full disk, on which close fails
\* as the write before it did.
Kill ==
  /\ at \notin {"closed", "dead"} /\ at' = "dead"
  /\ UNCHANGED <<now, polls, pipe, line, event, period, flatDue, stream, seq, rc, diskVars, rotateVars>>

-----------------------------------------------------------------------------
(* logrotate: copytruncate.                                                *)

Copy ==
  /\ copied = None /\ events # <<>> /\ rotated = <<>>
  /\ copied' = events
  /\ UNCHANGED <<now, polls, pipe, at, line, event, period, flatDue, stream, seq, rc, diskVars, rotated>>

Truncate ==
  /\ copied # None
  /\ rotated' = rotated \o copied /\ copied' = None
  /\ events' = <<>>
  /\ UNCHANGED <<now, polls, pipe, at, line, event, period, flatDue, stream, seq, rc, capture, verdicts, manifest>>

RecordNext ==
  \/ \E k \in Kinds : Captured(k)
  \/ Flat \/ Until \/ Select \/ Record \/ EndOfRead \/ Dispatch \/ Emit \/ Sink \/ Index
  \/ Interrupt \/ BrokenPipe \/ Close \/ Kill
  \/ Copy \/ Truncate

RecordSpec == RecordInit /\ [][RecordNext]_recordVars

-----------------------------------------------------------------------------
RecordTypeOK ==
  /\ now \in 0..MaxTime /\ polls \in 0..MaxPolls
  /\ pipe \in Seq(Lines) /\ capture \in Seq(Lines)
  /\ at \in {"until", "select", "lines", "dispatch", "stdout", "events", "verdicts",
             "closing", "closed", "dead"}
  /\ period \in {"observe", "learn", "evaluate"}
  /\ flatDue \in Nat \union {None}
  /\ line \in Lines \union {None}
  /\ seq \in Nat /\ rc \in {None, 0}

\* The verdicts among the first n events of the stream.
JudgedIn(told, n) == Cardinality({i \in 1..n : IsVerdict(told[i])})

\* An event of a line has the time of that line, which is in the capture; one of a hold
\* comes at least the margin after a sample that is.
InTheCapture(e) ==
  \E j \in DOMAIN capture :
    IF e.type = "hold" THEN capture[j].kind # "write" /\ capture[j].frame + HoldAfter <= e.frame
    ELSE capture[j].frame = e.frame /\ (IsVerdict(e) => capture[j].kind = "write")

\* However a run ends, its record tells it: what an event is about was recorded before
\* the event was told (CaptureRecorder, multiplex), the line itself or the sample that a
\* flat repeats; verdicts.jsonl is the verdicts of the stream in order, numbered from
\* one, without the one that was being written at most; and the manifest counts them.
RecordTellsTheRun ==
  LET behind == JudgedIn(stream, Len(stream)) - Len(verdicts)
  IN  /\ \A i \in DOMAIN stream : InTheCapture(stream[i])
      /\ behind \in {0, 1}
      /\ behind = 1 => event # None
      /\ \A i \in DOMAIN stream :
           LET n == JudgedIn(stream, i)
           IN  IsVerdict(stream[i]) /\ n <= Len(verdicts) =>
                 /\ verdicts[n].seq = n
                 /\ verdicts[n].frame = stream[i].frame /\ verdicts[n].result = stream[i].result
      /\ at = "closed" => /\ manifest.verdicts - Len(verdicts) \in {0, behind}
                          /\ manifest.exit_code = None => behind = 0
      /\ at # "closed" => manifest = None
=============================================================================
