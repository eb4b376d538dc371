# Verification of the Liscere observer

TLA+ models, TLC runs and TLAPS proofs about the program in `src/`: a passive
observer of operational-technology traffic. `liscere observe` reads one tshark
per source, finds the variable that tells the phase of a process (RISING,
FALLING, STABLE), learns in which phases each command is normally written (the
*grammar*), and then judges every write: COHERENT, UNUSUAL, INCOHERENT,
UNCERTAIN. A recorded capture can be replayed through the same pipeline.

The questions asked here are the ones a unit test hardly reaches: what happens
to windows, grammars and judgements when captures die and come back at any
moment, when repeats, samples and frames arrive late, out of order or not at
all, and when small integer decisions (hysteresis, rounding, positions in
parallel columns) meet long histories.

## 1. Inventory of the system

| Component (source) | State it keeps | Operations | Interacts with |
|---|---|---|---|
| Selector loop `multiplex`, `_Source` (`liscere/observe.py` 660-856) | registered fds, one tshark child and read buffer per source | poll `until`, service outages, select 0.25 s, read bytes or EOF, kill all in `finally` | `_Supervisor`, `_Run.tick`, `_Run.dispatch` |
| Respawn policy `_Supervisor` (691-783) | per source in an outage: tries, retry time, attempting, alive time, `lost_at` | `note_death`, `mark_alive`, `service`, `_resume`, `is_degraded` | emits capture events; calls `on_resume` |
| Pipeline `_Run` (1505-1790), `main` (1937-2003) | phase of the run, two deadlines, silos, grammars, `rc`, `stop` | `tick`, `dispatch`, `extend_window`, `_end_observe`, `_end_learn`, `end_of_input` | everything below |
| Replay `replay_multiplex`, `_ReplaySource`, `_drain_to_record`; `liscere/clock.py` | one fetched line per source, last time, frame clock, record files | fill, merge by time, advance, poll, dispatch, drain | drives `_Run` in place of the selector loop |
| Hold resampler `HoldResampler` (1140-1176), `_resample_holds` | last value, next due time, count of flats | `real`, `catch_up` | feeds the phase tracker from `tick` |
| Phase tracker (`engine/phase_tracker.py`) | window of levels, phase, confidence, transitioning, three counters | `update` | gates learning and judging |
| Grammar learner, evaluator (`engine/grammar.py`, `engine/evaluator.py`) | counts per target and phase | `observe`, `export`, `evaluate` | `_feed_or_judge` |
| Cycle counting and stabilisation (`liscere/learning.py`, `_track_cycle`) | phase sequence, period, cycles, marks; previous snapshot, streak, `stable_at` | `CycleTracker.update`, `Stabilisation.on_cycle` | ends the learn window with `--learn-until-stable` |
| Write coalescer (`_Coalescer`, `extractors/modbus.py` 337-380) | one suspended generator: window copy, open run | feed, derive window, new generator on respawn | between the extractor and `dispatch` |
| S7 read pairing (`extractors/s7.py`) | `_pending`: Jobs by conversation and reference | `_remember`, `_pair_response`, `parse_line` | feeds `dispatch` |
| OPC UA items (`extractors/opcua.py`) | nothing between messages | `_zip_values`, `_ns_align`, `_parse_sub_items`, `_parse_write_items`, `extract_state_samples` | feeds `dispatch` |
| Flows of the extractors (`group_flows`, `extract_state_samples`) | roles per variable, while grouping | group a window's events, samples of an event | silo building, `dispatch` |
| Silos and routing (`build_silos`, `_route_or_report_late`, `_feed_or_judge`) | silos by endpoint: evaluable or not, state key, tracker; endpoints reported late | build, route, report late, feed | `_end_observe`, `dispatch`, `tick` |
| Event stream (`Emitter`) | shared by all silos: last phase, last values, announced natures, state keys, opaque endpoints | one method per event, each with its de-duplication | every component |
| Run record (`RunRecord`, `CaptureRecorder`) | `events.jsonl`, `verdicts.jsonl`, `run.json`, `capture/*.tsv`; the verdict number | `sink`, `write_manifest`, `close`, one write per captured line | sink of `Emitter`; `logrotate` copies and truncates `events.jsonl`; read by replay and metrics |
| Profiles and grammars (`save_silo_profile`, `save_silo_grammar`, `load_silo_state`) | two files per silo and run | save at the end of observe and of learn, load with `--resume-from` | a later run |
| Discovery and auto-calibration (`engine/discover.py`, `engine/autocalibrate.py`) | none | pure statistics over series | `_end_observe` |
| Probe and `--only` (`probe_layers`, `_main_run` 1904-1952, `liscere/probe.py`, `wire.py`) | claimed layers, unclaimed servers, the layers to run | classify each frame, surface, choose, open a source and a file per layer | decides which extractors run; its lines are recorded and replayed |
| Metrics (`liscere/metrics.py`) | none | match verdicts with labels, count, rates | reads a run record |
| Configuration | none that outlives a call | parsing | command line |
| Terminal UI (`liscere/ui.py`) | `DiscoveryModel`: silos, flows, variables, findings, from the events read so far | one handler per event type, draw | reads the event stream and nothing else |
| Update script (`deploy/pi/liscere-update`) | wheels, `current`, `previous`, the virtual environment, the service | download, keep, install, record, restart, check, roll back | none at run time |
| Archive script (`deploy/pi/bench-data-upload`) | none; the release on GitHub | hash, get or create the release, upload what is missing, the fragment last | GitHub |

Everything in one process runs on **one thread**; the concurrency is between
that thread and the tshark children, the network, the clock, `logrotate` and the
user. The hard behaviours are therefore the order in which a pass of the loop
meets deaths, bytes, deadlines and Ctrl-C, the state that a source keeps over an
outage, calls whose effects are seen much later (a window derived at the end of
observe, a period confirmed two cycles late, a Job answered after others), and
what is on disk when a process is killed between two writes and another one
starts from it. `PROJECT.json` lists them line by line under `hazards`, with the
properties that cover each.

What makes each part correct, in a sentence: the loop forgets no source and
leaves no child behind; outages end and are told in order; a timed window is
never shorter than asked; whatever is judged is judged on a grammar, and that
grammar no longer changes; a replay takes each line in its window and leaves a
complete record; the tracker is a function of the current run of movements; a
hold that the capture saw is closed in time (an outage is taken for one too, see
Section 6); a verdict tells the history, up to rounding; cycles are counted as the whole sequence shows them; a fold loses no
write; a value never ends up on another variable; whoever reads the event
stream sees what the observer knows, each thing once and in one place; the
record tells the run however it ended, and the report counts it once; a silo
judges with the config its grammar was learned with; what the probe saw is run
or reported; an update can be taken back; an archive names what it holds.

## 2. Modules

```
PhaseInertia  <-- refined by --  PhaseTracker <-- HoldReconstruction <-- MCHoldReconstruction
                                                              ^-- PhaseProofs
Supervisor <-- ObserverRun <-- Replay <-- MCReplay        Supervisor <-- SupervisorProofs <--+
                      ^------ MCObserverRun --^                                              |
                                    ^-- MCOutages          Replay <-- ObserverProofs --------+
Grammar <-- Stabilisation --+
            CycleTracker  --+--> LearnWindow, MCHoldReconstruction <-- MCSiloAnalysis
                                      ^-- LearnWindowProofs
S7Pairing, WriteCoalescer, OpcuaItems --> SourceFeed <-- MCSourceFeed <--+
                ^-- EventPathProofs --> Silos           Silos <-- MCSilos <--+-- MCEventPath
Picks <-- S7Pairing, OpcuaItems               SourceFeed <-- SourceFeedProofs
Calibration --> MCSiloAnalysis
RunRecord, Metrics --> RunReport <-- MCRunReport <--+
Probe, Resume, Update ------------------------------+-- MCStorage
Upload <-- MCUpload <-------------------------------+
RunFilesProofs --> Resume, RunReport, Probe;   DeployProofs --> Update, Upload
```
(an arrow points from a module to the one it extends, or into the composition)

| Module | Code | State and actions |
|---|---|---|
| `PhaseInertia` | none: the abstract specification | The phase is a function of the length of the current run of equal movements. |
| `PhaseTracker` | `PhaseTracker` | The attributes of the class; `update(l)` is the whole method. The least-squares slope is compared exactly, as an integer fraction. `runMove`, `runLen` are history. |
| `HoldReconstruction` | `HoldResampler`, `_Run._resample_holds` | `real(l)` is a state sample in `_feed_or_judge`, `tick(d)` a tick after time `d`, `Fill` one flat of `catch_up` reaching the tracker, `CaughtUp` its end, `Outage` the capture going down or up, of which the resampler is told nothing. `unbroken` is history: no outage since the last real sample. Instants are kept as time left. |
| `Supervisor` | `_Source`, `_Supervisor`, `multiplex` | `pc` walks through one loop iteration (until, service, select, handle); `service(s)`, `ReadBytes(s)`, `ReadEOF(s)` are the bodies for one source; `Write`, `Exit` are the tshark children (external). `Raise` and `Interrupt` leave through `finally`. |
| `ObserverRun` | `_Run`, `load_silo_state`, `main` | The supervisor's steps with `_Run` as their callbacks: `tick` as `until`, `dispatch` on what was read, `extend_window` on a resume. `_end_observe`, `_end_learn` have one disjunct per outcome. |
| `Replay` | `replay_multiplex`, `FrameClock`, `_drain_to_record`, `_replay_run` | `Merge` picks and records the next line and advances the clock, `Poll` is `until`, `Dispatch` is `on_event`, `EndOfInput` the end. `capture` says whether main runs the selector loop or the replay. |
| `Grammar` | `GrammarLearner`, `evaluate` | Counts per target and phase, with `export`'s rounding to thousandths; `observe`, `Freeze`, `Judge`. |
| `CycleTracker`, `Stabilisation`, `LearnWindow` | `learning.py`, `_track_cycle` | `cycleUpdate(phase)`, `on_cycle(snapshot)`; `LearnWindow` is `_track_cycle`: mark, update, then judge each completed cycle. |
| `S7Pairing` | `_remember`, `_pair_response`, `parse_line` | Captured and missed frames on both sides; times as ages. |
| `WriteCoalescer` | `coalesce_writes`, `_Coalescer`, `apply_derived_coalesce_window` | The generator's own window copy and open run; times as ages. |
| `OpcuaItems` | `_zip_values`, `_ns_align`, `_parse_sub_items`, `_parse_write_items`, `extract_state_samples` | A message as sent, its columns as tshark prints them (external), and the items put together from them. |
| `Picks` | none | What a filter keeps of a sequence, by its indexes: a form of `SelectSeq` that can be proved about. |
| `SourceFeed` | `parse_line` and coalescer of one source | The three above, one per layer. |
| `Silos` | `build_silos`, `discover_and_calibrate`, `_route_or_report_late`, `_feed_or_judge`, `Emitter`, `DiscoveryModel` | `Observe(e)` puts an event into the observe window, `EndObserve` ends it; `BuildSilo(e)` is one round of the loop of `build_silos`, in any order: the silo is discovered, announced and made evaluable or not; `EndDiscovery` tells the layers that got no silo. Then `ReadOf`, `WriteOf`, `Unrouted` are `dispatch` by what the event is, `Hold` a flat of the resampler, `Opaque` a frame its extractor declines. Each method of the emitter gives back what it remembers and what the reader has made of its events, `Tell` ends the step. Histories: `latest`, what was last fed to the tracker or written, under each variable; `own`, what the state variable itself was last read to be. |
| `Calibration` | `autocalibrate.py` | A process that fills and drains, rests and glitches (external) gives the samples; `Scan` finds the reversals as they come, and period, `window`, `reversal_n` and the comparison of `slope_rising` with a slope are computed exactly, in integers over a common denominator. |
| `RunRecord` | `RunRecord`, `CaptureRecorder`, `Emitter._emit`, `main`'s `finally`, `logrotate.conf` | `at` walks through one pass: the flats that are due (`Flat`, `_resample_holds`), the windows (`Until`), select, record a line, dispatch it, stdout, `events.jsonl`, `verdicts.jsonl`. `Interrupt`, `BrokenPipe`, `Close`, `Kill` end the run anywhere; `Copy` and `Truncate` are logrotate's two halves. |
| `Metrics`, `RunReport` | `metrics.py` | Operators for labels, table and rules; `compute` reads the files of a run that has ended in any way. |
| `Resume` | `save_silo_*`, `load_silo_state`, `_end_observe`, `_end_learn` | Runs one after another, each saving files in two steps (opened, written), each possibly killed between any two, each possibly resuming from any earlier one. |
| `Probe` | `probe_layers`, `_main_run`, `_replay_sources`, `wire.py`, `liscere-probe` | `ProbeLine(f)` classifies and records a frame, `Choose` is `--only`, `Source(l)` opens file and source of a layer; the first run is live, later ones replay a record and may record again. |
| `Update` | `liscere-update` | One action per command that changes a file, in halves where the shell opens before it writes; the script may be cut off anywhere and started again, also with `--rollback`. |
| `Upload` | `bench-data-upload` | One action per file hashed and per request; answers get lost, files grow, the command is started again with the same or other files. |
| `MCSiloAnalysis`, `MCOutages`, `MCEventPath`, `MCStorage` | | What one silo makes of its samples and writes, what outages do to the loop and to the windows, the path from lines to the event stream, and what is on disk after a crash: each run takes several magnifications (`focus`) of one question, of which a behaviour looks at one. |
| `*Proofs` | | Section 5. |

Definitions keep the names of the source. A definition whose comment begins
"Slipped:" is not part of any specification: it is a plausible bug of the
definition after it, kept to show that a property depends on that definition
(`mutants` in `PROJECT.json`).

## 3. Runs

Five runs pass, seven show a disagreement between the code and what it, its docs or
its tests say. The numbers are TLC's counts of distinct states.

| Run | States | What it shows |
|---|---|---|
| `silo_analysis` | 1,291,010 | Half cycles are measured through rests and glitches. The tracker implements `PhaseInertia`; no gate lets an opposite phase through; a ramp and a hold are recognised within a fixed number of samples *whatever came before*; the flats follow a silence that no outage interrupts exactly, however late ticks come, and close it to STABLE. Verdicts against counts; cycles confirmed late; what `stable` promises. |
| `outages` | 554,210 | The loop alone, with children that die as often as they like: no source forgotten and one child per source, budget and events of each outage, every outage ends, no two starts of one source closer than the base backoff. The run on top of it: overlapping outages never shorten a window for a capture that is still there, nor hold it open longer than they last; the observe window is left. |
| `observer_run` | 1,154,868 | Every command line, live with outages and on a replay: every judged silo has a grammar, grammars are frozen, exit codes tell the end, replays merge in time order, take each line in its window and leave a whole record. |
| `event_path` | 601,259 | S7 pairing, write folding and OPC UA items; silos with shared variable names, and what a reader of their de-duplicated events sees. |
| `storage` | 2,395,441 | The record of a run against the stream it told, through kills, a broken pipe and rotation, and its report; what a probe saw against what runs, live and replayed twice; resumed silos; updates and rollbacks; archived sessions. |
| `observer_resume`, `coalesce_window`, `opcua_arrays`, `polled_registers`, `calibration`, `outage_hold`, `rounded_away` | violation | Section 6. |

Bounds, and why they are enough:

- *silo_analysis, hold*: six levels one threshold apart, window 4, `reversal_n` 3,
  `stable_n` 4: slopes below, at and above each threshold, and every order of
  the resets (both counters can be at every value). The margin is the code's
  1.75 of the cadence; ticks come twice a cadence or more than two late.
- *outages*, *observer_run*: two sources, since outages interact only through
  the shared deadlines and the loop condition; one or two retries, backoff
  growing once and capped. The loop alone has no bound on the exits of its
  children. On top of it, `MaxExits` bounds those of a behaviour (two:
  overlapping outages, and a second death of the same source). At `MaxLate` the
  clocks stand still. It is one past what the outages of a behaviour can make of a
  deadline (`LatenessAssumption`), and `WindowsKeepTheirLength` shows that no window
  gets there (`OnTime`). The windows are a few polls long; in
  `outages`, of a run that observes, learns and evaluates, since what the silos are
  does not bear on the windows (`observer_run` has every command line).
- *replay*: eleven files per source, up to four lines, with ties, gaps longer than
  both windows, lines without a time, one of them at the head of a file, and times
  that go back. `LinesTakeTheirPlace` is about files that start with a stamped
  line (see Section 7).
- *silo_analysis, calibration*: half cycles of six and seven samples, so that one
  more sample than the filter's span of five settles each leg (`SettledLeg`, the
  shortest `CalibrationAssumption` allows); one sample at rest
  at each of three turns and one sample a step off, anywhere. A step is 100 times
  the sign deadband.
- *silo_analysis, writes and cycles*: with all contexts and verdicts, up to ten single writes beside a bulk of 2,000 (where rounding can lose a
  phase), no cycles; with cycles, sequences of up to nine phases (two full
  periods of four, a late confirmation and a break) and few writes.
- *event_path, sources*: two conversations of which one uses two references; two
  servers written alike; windows 1 to 3; messages of three items named by
  plain, indexed and string node ids with two types, arrays and empty values.

- *event_path, silos*: two endpoints, one polled (S7) and one that publishes
  (OPC UA), with a variable name in common; three names, of which each may turn
  out to be the state; a configuration that excludes one and pins another; any
  observe window, and up to three events after it: enough for a value to change
  and change back with another silo's in between.

- *storage*: two lines over three instants and two windows of one instant, so
  that writes can fall in each window and at each boundary of a label; three
  scenarios whose labels touch, overlap or count from the first frame; one
  rotation. Three frames of six kinds (plumbing, claimed, claimed without an
  address, unread in both directions, unread between equal ports), a live run,
  its replay and the replay of that. Two silos, two configs, three runs, since a
  resumed run that is resumed is the longest chain with a new case. Three
  releases and four starts of the update, so that an update can follow a
  rollback. Three files of which two have one name, each growing once, and three
  runs of the upload.
- The violation runs use the smallest instance that shows the counterexample.

Deadlock is not checked where the system stops: the loop ends (`pc = "done"`),
a replay returns, the programs of `storage` end, and the bounds on phases and
writes end a learn window.

**Fairness.** Liveness (`OutagesEnd`, `ObserveEnds`) assumes `WF(Loop)`: the
thread keeps executing its loop, whose every step is finite; and
`SF(Select(1))`: time passes, again and again, in `select`, which has a timeout
of 0.25 s (`observe.py:824`) and in which a busy loop spends its time too.
Nothing is assumed of the children: they may write or exit for ever or never.

## 4. Properties, by the way they could fail

Type invariants aside, the properties relate several steps. For example
`WindowsKeepTheirLength` compares a history of how long each capture was up with
the window it was asked for, across resumes in either phase, and how late a window
is with the outages there were;
`CountsTheRepetitions` compares step-by-step counting with a definition that
looks at the whole sequence; `AnswersTellTheJob` compares what the extractor
says with what the server did; `RampIsRecognised` quantifies over all earlier
histories (it is a part of `MovesAreRecognised`); `RecordTellsTheRun` compares
files with the stream for a run that ended anywhere; `RollbackRestores` what was
installed before a script with what it left; `ReaderSeesTheSilos` and `WritesProveCommands` compare what a reader
has put together from a de-duplicated stream with what really was read and
written, and `EveryEventIsNews` says that the stream contains nothing else.
Some properties are conjunctions of named parts (`SourcesAreKept`, `WindowsKeepTheirLength`,
`JudgedSilosHaveGrammars`, `FlatsCloseTheHold`, `StableIsEarned`,
`LinesTakeTheirPlace`, `SessionIsArchived`). Each is preceded by a comment that
says which code it is about.

## 5. Proofs

TLAPS proves, for every value of the constants under the named assumptions of
each module:

- `PhaseProofs` (`ConfigAssumption`), the tracker alone: type correctness; `GatesAreSound`;
  and that `PhaseTracker` implements `PhaseInertia`. The invariant `IInv` adds
  to the types that the three counters say no more than the length of the
  current run (`CountersFollowRun`): neither `TypeOK` nor the refinement is
  inductive without it, since a left-over count would complete a reversal that
  did not happen. `MoveIInv` treats the movement as given, so no property of
  the slope is needed beyond its sign being one of three; `MoveInertia` shows
  step by step that each branch is `Observe(move)` of the abstraction.
- `SupervisorProofs` (`SupervisorAssumption`): `TypeOK`, `SourcesAreKept`
  (`NoSourceForgotten` and `OneChildPerSource`), `FallThroughMeansAllLost`, and the action property
  `CaptureEventsTellTheOutage`, for any set of sources and any budget. Besides
  these, `IInv` contains `PassInv`: what a pass may rely on about the sources
  it has yet to visit. Without it a source could change under the pass between
  selection and visit.
- `EventPathProofs` (`CoalescerAssumption`, `SilosAssumption`): `CountsEveryWrite`
  and `BurstsAreSplit`, for any writes and windows and across respawns; the
  strengthening says what the open run stands for (`RunIsLastYield`). And
  `ReaderSeesTheSilos`, `WritesProveCommands` and `EveryEventIsNews`, for any
  endpoints, names, layers and messages. The emitter leaves out what it remembers
  to have said, so nothing is lost exactly as long as it remembers what the reader
  shows: `Mirrors` says so field by field, `ToldLast` that this is what was fed to the
  tracker and written last, and what was fed the state variable's own value where
  the extractor routes its items, `Proven` which natures come from discovery and which from a write,
  `Placed` where each endpoint stands in every stage. The properties speak of the
  feed stage; the invariant also holds in the middle of discovery, where silos
  announced so far and those to come differ (`Progress`). A message of any length
  is fed by induction over its samples (`FedIsTold`). The proofs assume no layer
  bears the name of an endpoint: the reader keeps both in one list. The types of the
  coalescer (`CoalescerTypesCorrect`) say that a run's last write is not older than
  its first; its ages stop at `LongAgo`, one past the longest window, and there
  must be a longest one.
- `SourceFeedProofs` (`S7Assumption`, `OpcuaAssumption`): `AnswersTellTheJob`,
  `ItemsAreTheirOwn` and `SamplesAreTheSignal`, for any conversations, Jobs,
  limits and node names, and messages of any length. Filters keep the elements at
  a set of indexes; `Ranks` and `PicksInOrder` say where each of them goes, by
  counting the indexes up to it, and with that no induction is needed. For S7,
  `EntriesTell` says that an entry whose Job was captured and is in flight has
  that Job's items and age, and `JobsRemembered` that such a Job is there as long
  as it is young and has fewer than `PendingMax` Jobs behind it; `AnswerIsPaired`
  is the alignment itself, with and without tokens for failed items. For OPC UA,
  `NamespacesAligned` counts the names with and without an index up to a name, and
  `ValuesAreRead` maps what a cursor has counted into what the column holds.
  `SourceRunsItsParts` carries all three over to a source of any layer, and
  `PathRunsItsParts` what is proved of sources and silos to the path: `PathTypeOK`.
- `LearnWindowProofs` (`GrammarAssumption`, `CycleAssumption`,
  `StabilisationAssumption`, `LearnWindowAssumption`): the learn window of one silo. `WindowRunsItsParts`
  shows that it runs learner and cycle counter by their own specifications, so
  what is proved of those holds in it. `VerdictTellsTheHistory` needs that counts
  do not change once a grammar is frozen (`GrammarInv`) and what rounding to
  thousandths does to a fraction (quotient lemmas): up to two thousand writes, one
  of them is never rounded away. `CountsTheRepetitions`,
  sequences of any length: while the period is unknown no smaller one was shown
  before the last element, and once it is known the whole sequence repeats up to
  where the pattern broke (`CycleInv`). `StableIsEarned`: the streak is the
  longest run of small moves at the end (`StabInv`), and the drift is bounded by
  the triangle inequality of `grammar_distance`. `CyclesAreJudgedAtTheirBoundary`
  and `BoundariesReportedOnce`: a mark is kept for every boundary that is not
  judged yet (`MarksInv`), which is why a late confirmation finds them.
- `ObserverProofs` (`SupervisorAssumption`, `RunAssumption`, `LatenessAssumption`,
  `ReplayAssumption`): the pipeline on top of the selector loop and the replay.
  `RunIsSupervised` shows that every step is one of the supervisor's, so its
  invariants hold here too. `ObserverInv` is about the silos (a grammar exactly
  for those that learned or resumed), `WindowInv` counts, for each source, the
  time a window was open and the time the source was down in it, since the
  property speaks only of the end of a window; `TimelyInv` orders the lines that
  were merged and those still in the files. Every line finds its window for files
  whose first line has a time stamp. How late a window may be (`WindowsEndInTime`)
  is about live runs, since in a replay the deadlines follow the recorded times:
  `LateInv` allows a deadline to be late by one outage for each exit that was read
  (`Deaths`), less what each outage that lasts may still take (`ToCome`).
  When select lets time pass, every outage is waiting for something (`PassWaits`),
  so time takes as much from the outages as from the deadlines; a window that is
  open with no outage closes at the next poll, which is the poll an outage counts
  (`StaysOpen`). `LatenessAssumption` says again that no backoff is zero: it
  follows from a base of one or more, but the provers know nothing of `^`.
- `PhaseProofs` (with `HoldAssumption`), the signal and the resampler: `MovesAreRecognised` and
  `FlatsCloseTheHold`. The slope is a sum over a window of any length; that it is
  positive when all increments are at least `slope_rising`, by enough, and zero
  when they are all zero, is shown by summation by parts and induction over the
  window, the induction from the well-foundedness of `<`. `Follows` ties the
  history of increments to the window, `Runs` the run of movements to it, and
  `Settles` says what a run of each length has made of the phase, whatever the
  tracker believed before. `FlatsAreDue` accounts for the time to the next flat
  while the history counts. Both halves are about silences without an outage
  (`unbroken`); the flats fed during one are `outage_hold`'s. The proof needs a positive margin: with none, a flat
  would be due at the instant of a real sample, before the tick that gives it.
- `PhaseProofs` (with `CalibrationAssumption`), the calibrator:
  `HalfCyclesAreMeasured`, for any step above the deadband and half cycles that
  outlast the filter. The smoothed slope is twelve times the rise over the five
  samples the filter spans, so its sign is decided by where the process came from
  in them. The invariant says what those samples were: some one sample `g` was `e` off
  (`GlitchIsOne`), and without it they are one step apart, up to the rests, in the
  heading since the turn and against it before (`SpanIsSteps`). From that each turn
  is found one to three samples late (`TurnsAreFound`); one sample late or three only
  beside the glitch, hence never at both ends of one half cycle (`LagsAreExplained`).
  A half cycle of the reversals is then at most one sample off that of the turns, the
  k-th in order of numbers that are each one off is one off (`RankedClose`), and
  `Round` keeps what remains below the shortest leg. The assumption on rests and
  glitches, `MaxRests + 2 * MaxGlitches <= 3`, is where a filter of five samples
  could lose a turn; TLC checked the invariant at each of its corners.
- `PhaseProofs`, everything made of one silo's samples and writes: `AnalysisTypeOK`. A behaviour that
  looks at writes alone runs the learner without its window, so the parts do not run
  by their specifications there; `AnalysisInv` is kept by each kind of behaviour,
  because with nothing due (`NothingIsDue`) a write opens no window that was closed.
- `RunFilesProofs` (`ResumeAssumption`, `RecordAssumption`, `ReportAssumption`,
  `ProbeAssumption`): `ResumeTypeOK` and `JudgedWithItsProfile`, for any silos, configs and number of
  runs. The invariant behind them, `FilesAgree` (theorem `FilesStayTogether`), is
  about the directories: a grammar that is complete has the complete profile of
  the same config beside it, because all profiles are saved before any silo learns
  and a resumed silo saves no grammar. It is what a *later* run relies on;
  `SilosFollow` ties what a run holds in memory to the profiles it saved.
  `RecordTellsTheRun`: `EndsBehind` says in which step index, counter and stream
  may differ by one, and `RecordedFirst` that a line is in the capture before
  anything is made of it, and that the next flat is due no sooner than the margin
  after a sample that is in the capture. `ProbeHidesNothing`: a capture file is there only for
  what the probe of its own run claimed (`CapturesWereClaimed`), so a replay, which
  reads the same frames, claims it too. `ReportCountsEachVerdictOnce`, for any label
  files and any record: the index is the verdicts of the stream by their numbers
  (`VerdictsAreTold`), so no two of them are the same and the cells of the table,
  which share no verdict, add up to all of them (`TableAddsUp`); a verdict matches
  one at most of the labels whose windows do not meet (`OneLabelMatches`).
- `DeployProofs` (`UpdateAssumption`, `UploadAssumption`): `UpdateTypeOK` and
  `RollbackRestores`, for any releases and number of starts. The property speaks
  only of a script that has ended; `InFlight` says what holds while it runs: up to
  the installation nothing the way back needs has been touched, and from then on
  `previous` names it. `SessionIsArchived`, for any files and command lines: the
  strengthening follows one run through its phases (`Hashed`, `Posted`) and keeps
  of the runs before it what the release knows: each asset is a capture some run
  was given, as it was then (`Assets`), and the fragment describes the files of
  some run, all attached (`FragmentIndex`). A capture only grows, so what was read of it
  bounds it from below; `Asked` ties the files of a run to the command lines of
  the session, since retries are only alike if those are. `StorageTypeOK` then
  holds of all that is left on disk, since each part runs by its own specification
  (`StorageRunsItsParts`).

Every invariant of the passing runs is stated by a theorem. Model-checked only are
liveness (`OutagesEnd`, `ObserveEnds`: fairness is out of the prover's reach) and
`NoForkLoop`.

## 6. Disagreements found

Each is a run that must end in a violation, with its counterexample in TLC's
output.

1. `observer_resume`: a silo resumed by `--resume-from` beside one that learns
   is judged against no grammar in the learn window (`observe.py:1553` passes
   `None`), and `evaluate` raises out of the loop.
2. `coalesce_window`: the coalesce window derived at the end of observe is
   never used, because the generator copied the old one when first fed
   (`modbus.py:359`); only a respawn picks it up.
3. `opcua_arrays`: a scalar behind an array of its own type reads an element of
   the array, because the skipped array does not move the column's cursor
   (`opcua.py:472`).
4. `polled_registers`: a polled extractor gives every variable of a read answer
   as a sample of the state signal, also one that the configuration excludes
   (`s7.py:572` looks for a key no config has; `modbus.py:304` for one that is
   never set); the tracker then follows a mixture.
5. `calibration`: the noise floor of a signal contains its own turns, so for half
   cycles of about the length of the fit (ten samples) `slope_rising` can exceed
   the signal's slope (3.50 against 1 for 0..7, 7..1, 2..7, one sample a step:
   the program gives these numbers too), and the tracker stays STABLE for ever
   (`autocalibrate.py:191`).
6. `outage_hold`: while a capture is down, `tick` goes on feeding the resampler's
   flats to the tracker and telling its phase (`observe.py:1605`), so an outage looks
   like a hold; `tests/test_respawn.py:297` calls the outage window "genuinely ABSENT
   after resume -- not fabricated or backfilled". That holds of the lines; the tracker
   is given samples of the window all the same. `FlatsCloseTheHold` is therefore about
   silences that no outage interrupts.
7. `rounded_away`: a phase in which one of 2,001 writes fell is exported as the
   fraction 0.0 (`grammar.py:48`), and a write in it is then INCOHERENT, "never
   observed during learning" (`evaluator.py:73`). `VerdictTellsTheHistory` keeps what
   is true: up to 2,000 writes of a target INCOHERENT means none.

## 7. Limits of the models, and behaviour worth knowing

Not modelled, with the reason, is what `PROJECT.json` marks so under
`components`: I/O and process command lines, text conversion of columns,
floating-point statistics of discovery, the layout of the user interface,
configuration, units and install steps. In the
modelled parts, the following is abstracted: in the pipeline, what traffic makes
of a silo (evaluable or not, which writes) is any choice and there is one silo
per source; in `Silos`, what the statistics of discovery and the tracker find is
any choice, learn and evaluate are one stage, a captured event always names its
server (every extractor sets it), and stage, capture, grammar and verdict events
are left out of the stream; several lines of one read are one step; confidence
is an integer percent. `RunRecord` has one source and one silo, its stream
holds the events that carry a frame time (values, phases, verdicts), of which one
stands for all that one sample, write or flat makes, and the ceiling of the flats is
left to `HoldReconstruction`; in `Resume` a grammar is the config it was learned with;
in `Update` a wheel is its version; in `Upload` a file is how often it has grown.

Seen while modelling, outside any property:

- A capture given up while observe is held open leaves the survivors a learn
  window shortened by the time observe was held (`learn_end` stays), and the last
  capture given up in the learn window ends the run without exporting what was
  learned (`observe.py:1973`, against the comment at 1626).
- `Resume`: nothing compares the state signal of a resumed silo with the saved
  one, which `load_silo_state`'s docstring promises; a resumed silo's grammar is
  not saved again, so a run that resumes from a resumed run learns it afresh; and
  the profile it saves is the one calibrated, not the one it judges with.
- A file that was cut off when a run was killed raises out of the next run that
  resumes from it. SIGTERM (`systemctl stop`) never closes the manifest.
- Relative labels of metrics count from the earliest frame time that is in
  `events.jsonl`: not that of the run's first frame (observe tells no values),
  and after a rotation a later one (`metrics.py:75-88`). `total` counts a verdict
  that two scenarios match twice.
- Live windows count from the start of the run, replayed ones from the first
  frame.
- Probe: unclaimed application traffic without both addresses (IPv6 prints
  none) is not surfaced (`observe.py:618`, against the docstring at 589); between
  equal ports each endpoint may be taken for the server; `claimed.json` lists
  what was claimed, also what `--only` left out; a replay creates the record of
  a layer before it looks whether there are lines, so the replay of a replay runs
  it on an empty file.
- Update: a rollback leaves `current`, so the update after it keeps the release that
  failed as `previous`, not the one that ran (`liscere-update:98`, against its header);
  an update cut off after `current` was written and started again keeps the new
  release; a download overwrites a kept wheel in place. `RollbackRestores` is
  therefore about an update to another release than the one that runs, from a
  release that `current` names, and says nothing of these cases.
- Upload: a file added to a session that was archived before is attached, but the new
  fragment is skipped because the old one has its name (`bench-data-upload:126`), so
  nothing indexes the file, which the last message says will be. Of two paths with one name the second is skipped, with the first's
  asset in its entry; a file that grows between hash and upload is indexed under
  a hash it no longer has. `SessionIsArchived` excludes these.
- `_SIGN_DEADBAND` is absolute (0.01), so a signal that moves less per sample
  has no half cycle whatever its shape.

- A tshark that dies soon after its first bytes starts a fresh retry budget
  each time (`observe.py:765`): `NoForkLoop` bounds the rate, not the number.
- Overlapping outages extend a window by their sum, not by their union (1657).
- A replay tells the events of a hold with the time of the next line, a live run
  with that of each tick (`observe.py:1608`), and those due after the last line it
  does not tell at all. So `logrotate.conf:2`, by which truncating `events.jsonl`
  loses nothing because a replay of the capture reproduces it, is not quite true:
  such an event, mirrored between the copy and the truncation, is in no file.
- S7: an answer whose Job the capture missed is paired with an older Job of the same
  key, if one is within the TTL. `AnswersTellTheJob` is about answers whose Job was
  captured; nothing on the wire tells the other ones apart.
- `stable` is latched: a silo that moved again after it was stable still lets
  `--learn-until-stable` end (`learning.py:151`).
- A window derived as up to 5 s can outlive an outage of one base backoff, so a
  respawn may split a run of repeats.
- In a replay each line closes at most one window: the line that closes observe
  is learned even if it lies past the end of learn. A first line without a time
  sorts last and blocks its source until the others end.
- OPC UA: a write without a value before one with a value takes its value, and
  a plain node id behind an indexed one, or a string id, misnames the targets:
  the columns do not tell (`Told`, `NamesTold`).
- An excluded variable that is written is announced again as COMMAND, so
  EXCLUDED disappears from the reader's view (`observe.py:328`).
- A write that writes several S7 or OPC UA variables is announced and valued for
  the first only (`s7.py:583`).
- An endpoint can be on the map and under UNREADABLE at once, when it speaks
  both S7 and S7CommPlus; only UNEVALUABLE is kept apart from the map.

## 8. Plan

Modelled are the behaviours on which a verdict depends, what is told of it, and
what is kept of it. Left, in this order:

1. `Silos` composed with `ObserverRun`, so that *evaluable* is computed instead
   of chosen: no event reaches two silos.
2. S7 writes and Modbus register pairing, in `SourceFeed`.
3. stage and grammar events and the per-silo fields of the manifest, in
   `RunRecord`, as a refinement of an abstract log.
4. The integer half of discovery's statistics.

New runs share an MC module with the ones above (`focus`, `layer` and `capture`
are the pattern), to keep the whole suite within minutes.

## 9. Running it

```
tlc -config EventPath.cfg MCEventPath      # each run: module and cfg as in PROJECT.json
tlapm SupervisorProofs.tla
```
