---------------------------- MODULE ObserverRun -----------------------------
(***************************************************************************)
(* liscere.observe._Run on the selector loop: observe, learn, evaluate as  *)
(* deadlines polled between selects (tick), held open while a capture is   *)
(* down and extended when it resumes (extend_window).                      *)
(*                                                                         *)
(* One silo per source.  Deadlines are kept as time left (negative once    *)
(* passed).  What the traffic makes of a silo (evaluable, stable, a write  *)
(* under a settled phase) is chosen by the environment.                    *)
(***************************************************************************)
EXTENDS Supervisor

CONSTANTS
  Observe, Learn,   \* window lengths
  ArgSets,          \* the command lines considered
  Fragile,          \* sources whose tshark may exit by itself
  MaxExits,         \* bound: how often one does in a behaviour
  MaxLate           \* bound: how late a deadline may get (none gets there)

ASSUME RunAssumption ==
  /\ Observe \in Nat \ {0} /\ Learn \in Nat \ {0}
  /\ MaxExits \in Nat /\ MaxLate \in Nat
  /\ Fragile \subseteq Sources
  /\ ArgSets \subseteq [learn : BOOLEAN, grammar : BOOLEAN, until_stable : BOOLEAN,
                        saved : SUBSET Sources]

\* The backoffs of a whole budget, one grace and one poll.
OutageTime == Retries * BackoffCap + Grace + 1

\* A respawn waits and has to survive for a while (base=1.0, grace=2.0), and the bound is
\* past what the exits of a behaviour can make of a window.
ASSUME LatenessAssumption ==
  /\ Grace > 0 /\ \A tries \in 1..Retries : Backoff(tries) > 0
  /\ MaxLate > MaxExits * OutageTime

VARIABLES
  args,        \* --learn given, --grammar given, --learn-until-stable, and the
               \* silos with a grammar under --resume-from
  phase,
  observeLeft, learnLeft,
  lostFor,     \* per source, time since lost_at
  obs,         \* sources with events in obs_by_ext
  evaluable, resumed,
  learner,     \* silos that have a GrammarLearner
  writes,      \* silos whose learner counted a write
  grammar,     \* per silo: "none", "empty" (learned nothing), "learned", "saved", "file"
  stop, rc,
  exits,       \* how often a tshark exited (bounded by MaxExits)
  watched,     \* history, per source: time its capture was up in this window, up to
               \* the window's length
  ended        \* history: how the last window ended: "open", "deadline", "stable" or "input"

\* The bound on lateness is not reached.
OnTime == observeLeft > -MaxLate /\ learnLeft > -MaxLate

deadlines == <<observeLeft, learnLeft>>
siloVars  == <<obs, evaluable, resumed, learner, writes, grammar>>
endVars   == <<phase, stop, rc, ended>>
runVars   == <<supervisorVars, args, deadlines, lostFor, siloVars, endVars, exits, watched>>

RunInit ==
  /\ Init
  /\ args \in ArgSets
  /\ phase = "observe"
  /\ observeLeft = Observe
  /\ learnLeft = Observe + Learn
  /\ lostFor = [s \in Sources |-> 0]
  /\ obs = {} /\ evaluable = {} /\ resumed = {} /\ learner = {} /\ writes = {}
  /\ grammar = [s \in Sources |-> "none"]
  /\ stop = FALSE /\ rc = 0
  /\ exits = 0
  /\ watched = [s \in Sources |-> 0]
  /\ ended = "open"

-----------------------------------------------------------------------------
(* The end of the windows.                                                 *)

_start_evaluate == phase' = "evaluate" /\ UNCHANGED <<stop, rc>>

\* Slipped: stopping reports success.
StopClean(code) == stop' = (code # -1) /\ rc' = 0 /\ UNCHANGED phase

StopWith(code) == stop' = TRUE /\ rc' = code /\ UNCHANGED phase

Given(silos, what) == [s \in Sources |-> IF s \in silos THEN what ELSE grammar[s]]

\* Slipped: a resumed silo is learned again.
_end_learn_all(why) ==
  /\ grammar' = [s \in Sources |->
       IF s \notin evaluable THEN grammar[s]
       ELSE IF s \in writes THEN "learned" ELSE "empty"]
  /\ \/ ~args.grammar /\ _start_evaluate
     \/ args.grammar /\ StopWith(IF Cardinality(evaluable) = 1 THEN 0 ELSE 1)
  /\ ended' = why
  /\ UNCHANGED <<obs, evaluable, resumed, learner, writes>>

\* Slipped: a silo that saw no write gets no grammar.
_end_learn_written(why) ==
  /\ grammar' = [s \in Sources |->
       IF s \notin (evaluable \ resumed) \intersect writes THEN grammar[s]
       ELSE IF s \in writes THEN "learned" ELSE "empty"]
  /\ \/ ~args.grammar /\ _start_evaluate
     \/ args.grammar /\ StopWith(IF Cardinality(evaluable) = 1 THEN 0 ELSE 1)
  /\ ended' = why
  /\ UNCHANGED <<obs, evaluable, resumed, learner, writes>>

\* The grammar file of --grammar holds one silo: with several, stop with 1.
_end_learn(why) ==
  /\ grammar' = [s \in Sources |->
       IF s \notin evaluable \ resumed THEN grammar[s]
       ELSE IF s \in writes THEN "learned" ELSE "empty"]
  /\ \/ ~args.grammar /\ _start_evaluate
     \/ args.grammar /\ StopWith(IF Cardinality(evaluable) = 1 THEN 0 ELSE 1)
  /\ ended' = why
  /\ UNCHANGED <<obs, evaluable, resumed, learner, writes>>

\* found: the silos build_silos made evaluable; loaded: those load_silo_state resumed.
_end_observe(found) ==
  LET loaded == found \intersect args.saved
      fresh  == found \ loaded
  IN  /\ evaluable' = found /\ resumed' = loaded
      /\ ended' = "deadline"
      /\ UNCHANGED <<obs, writes>>
      /\ \/ /\ found = {}
            /\ StopWith(2) /\ UNCHANGED <<learner, grammar>>
         \/ /\ found # {} /\ fresh = {}
            /\ _start_evaluate /\ grammar' = Given(loaded, "saved") /\ UNCHANGED learner
         \/ /\ fresh # {} /\ args.learn
            /\ phase' = "learn" /\ learner' = fresh /\ UNCHANGED <<stop, rc>>
            /\ grammar' = Given(loaded, "saved")
         \/ /\ fresh # {} /\ ~args.learn /\ args.grammar /\ Cardinality(found) = 1
            /\ _start_evaluate /\ grammar' = Given(found, "file") /\ UNCHANGED learner
         \/ /\ fresh # {} /\ ~args.learn /\ (args.grammar => Cardinality(found) # 1)
            /\ StopWith(1) /\ grammar' = Given(loaded, "saved") /\ UNCHANGED learner

\* Slipped: a capture that was given up keeps the window open.
degraded_by_loss == \E s \in Sources : event[s] \in {"lost", "permanently_lost"}

degraded == down # {}

\* An event or a flat repeat may complete the cycle that makes the last silo stable.
MayBeStable == phase = "learn" /\ args.until_stable

tick ==
  \/ MayBeStable /\ _end_learn("stable")
  \/ /\ phase = "observe" /\ observeLeft <= 0 /\ ~degraded
     /\ \E found \in SUBSET obs : _end_observe(found)
  \/ phase = "learn" /\ learnLeft <= 0 /\ ~degraded /\ _end_learn("deadline")
  \/ /\ phase = "observe" => observeLeft > 0 \/ degraded
     /\ phase = "learn" => learnLeft > 0 \/ degraded
     /\ UNCHANGED <<endVars, siloVars>>

-----------------------------------------------------------------------------
(* extend_window, the on_resume callback of the supervisor.                *)

\* Slipped: an outage while observing does not move the end of the learn window.
extend_current(seconds) ==
  /\ observeLeft' = IF phase = "observe" THEN observeLeft + seconds ELSE observeLeft
  /\ learnLeft' = IF phase = "learn" THEN learnLeft + seconds ELSE learnLeft

extend_window(seconds) ==
  /\ observeLeft' = IF phase = "observe" THEN observeLeft + seconds ELSE observeLeft
  /\ learnLeft' = IF phase # "evaluate" THEN learnLeft + seconds ELSE learnLeft

\* Around a step of _Supervisor about s: an outage that resumed gives its time back.
OnResume(s) ==
  /\ IF s \in down /\ s \notin down' /\ event'[s] = "resumed"
     THEN extend_window(lostFor[s])
     ELSE UNCHANGED deadlines
  /\ lostFor' = IF s \in down /\ s \in down' THEN lostFor ELSE [lostFor EXCEPT ![s] = 0]

-----------------------------------------------------------------------------
(* dispatch: the events of one read of source s.                           *)

\* A silo without a learner is judged even in the learn window, and there the
\* grammar argument is None.
Judged(s)   == s \in evaluable /\ phase = "learn" /\ s \notin learner
\* Slipped: a resumed silo counts writes too.
LearningAny(s) == s \in evaluable /\ phase = "learn"

Learning(s) == s \in evaluable /\ phase = "learn" /\ s \in learner

dispatch(s) ==
  \/ \* state samples, events of other variables, verdicts
     /\ obs' = IF phase = "observe" THEN obs \union {s} ELSE obs
     /\ UNCHANGED <<endVars, evaluable, resumed, learner, writes, grammar>>
  \/ \* a write under a settled phase
     /\ Learning(s) /\ writes' = writes \union {s}
     /\ UNCHANGED <<endVars, obs, evaluable, resumed, learner, grammar>>
  \/ Learning(s) /\ MayBeStable /\ _end_learn("stable")

-----------------------------------------------------------------------------
(* The selector loop with _Run as its until(), on_event and on_resume.     *)

sameHistory == UNCHANGED <<args, exits, watched>>

Window == IF phase' = phase THEN watched ELSE [s \in Sources |-> 0]

RunExit(s) ==
  /\ s \in Fragile /\ exits < MaxExits
  /\ Exit(s) /\ exits' = exits + 1
  /\ UNCHANGED <<args, deadlines, lostFor, siloVars, endVars, watched>>

RunWrite(s) ==
  Write(s) /\ sameHistory /\ UNCHANGED <<deadlines, lostFor, siloVars, endVars>>

Until ==
  /\ pc = "until" /\ Runnable
  /\ tick
  /\ \/ stop' /\ Leave("stopped")
     \/ ~stop' /\ StartService
  /\ watched' = Window
  /\ UNCHANGED <<args, deadlines, lostFor, exits>>

\* main: every capture permanently lost is exit code 3.
RunFallThrough ==
  /\ FallThrough /\ rc' = 3
  /\ sameHistory /\ UNCHANGED <<deadlines, lostFor, siloVars, phase, stop, ended>>

RunService(s) ==
  /\ service(s) /\ OnResume(s)
  /\ sameHistory /\ UNCHANGED <<siloVars, endVars>>

\* Where the bound on lateness is reached, no clock runs any more.
Counted(d) == IF OnTime THEN d ELSE 0

RunSelect(d) ==
  /\ Select(d)
  /\ observeLeft' = IF phase = "observe" THEN observeLeft - Counted(d) ELSE observeLeft
  /\ learnLeft' = IF phase # "evaluate" THEN learnLeft - Counted(d) ELSE learnLeft
  /\ lostFor' = [s \in Sources |-> IF s \in down THEN lostFor[s] + Counted(d) ELSE 0]
  /\ watched' = [s \in Sources |->
       IF s \in down \/ phase = "evaluate" \/ watched[s] >= Observe + Learn
       THEN watched[s] ELSE watched[s] + Counted(d)]
  /\ UNCHANGED <<args, siloVars, endVars, exits>>

RunHandle(s) ==
  /\ pc = "handle" /\ s \in todo
  /\ todo' = todo \ {s}
  /\ \/ ReadBytes(s) /\ dispatch(s)
     \/ ReadEOF(s) /\ UNCHANGED <<siloVars, endVars>>
  /\ OnResume(s)
  /\ watched' = Window
  /\ UNCHANGED <<pc, outcome, args, exits>>

\* evaluate(None, ...) raises out of the loop.
Crash(s) ==
  /\ Judged(s) /\ Raise(s) /\ OnResume(s)
  /\ sameHistory /\ UNCHANGED <<siloVars, endVars>>

RunInterrupt ==
  Interrupt /\ sameHistory /\ UNCHANGED <<deadlines, lostFor, siloVars, endVars>>

Turn ==
  /\ EndService \/ EndHandle
  /\ sameHistory /\ UNCHANGED <<deadlines, lostFor, siloVars, endVars>>

RunLoop ==
  \/ Until \/ RunFallThrough \/ Turn
  \/ \E s \in Sources : RunService(s) \/ RunHandle(s) \/ Crash(s)
  \/ \E d \in {0, 1} : RunSelect(d)

RunNext == (\E s \in Sources : RunWrite(s) \/ RunExit(s)) \/ RunInterrupt \/ RunLoop

RunSpec == RunInit /\ [][RunNext]_runVars

\* The loop never stops running, and select lets time pass again and again.
RunFairness == WF_runVars(RunLoop) /\ SF_runVars(RunSelect(1))

RunFairSpec == RunSpec /\ RunFairness

-----------------------------------------------------------------------------
\* The types of the attributes of _Run.
RunTypes ==
  /\ args \in ArgSets
  /\ phase \in {"observe", "learn", "evaluate"}
  /\ observeLeft \in Int /\ learnLeft \in Int
  /\ lostFor \in [Sources -> Nat]
  /\ obs \subseteq Sources /\ evaluable \subseteq obs /\ resumed \subseteq evaluable
  /\ learner \subseteq evaluable /\ writes \subseteq learner
  /\ grammar \in [Sources -> {"none", "empty", "learned", "saved", "file"}]
  /\ stop \in BOOLEAN /\ rc \in 0..3 /\ exits \in 0..MaxExits
  /\ watched \in [Sources -> Nat]
  /\ ended \in {"open", "deadline", "stable", "input"}

\* The types of the supervised loop and of the run on top of it.
RunTypeOK == TypeOK /\ RunTypes

Lost(s) == event[s] = "permanently_lost"
Closes(p) == phase = p /\ (phase' # p \/ stop' # stop)

\* Each outage may carry the observe window past its end by the poll (select) that
\* follows a resume, and the learn window ends at a time fixed at the start.
Overrun == exits

\* A timed window closed by its deadline was watched in full by every capture that
\* is still there: outages are given back whatever their number and overlap
\* (tick and extend_window).  The learn window only if no capture was given up,
\* and to within one poll per outage.
WindowsAreNotShort ==
  [][/\ Closes("observe") => \A s \in Sources : ~Lost(s) => watched[s] >= Observe
     /\ Closes("learn") /\ ended' = "deadline" /\ (\A s \in Sources : ~Lost(s))
          => \A s \in Sources : watched[s] >= Learn - Overrun
    ]_runVars

\* Outages hold a window open no longer than they last (tick, is_degraded): it outlasts
\* its deadline by one outage for each exit at most, whatever their overlap, and a
\* capture that was given up holds nothing open.  The bound on lateness is not reached.
LateByOutages ==
  observeLeft >= -(exits * OutageTime) /\ learnLeft >= -(exits * OutageTime)

WindowsEndInTime == LateByOutages /\ OnTime

\* A window that outages interrupt gets the time it lost back (extend_window), and
\* not more.
WindowsKeepTheirLength == WindowsAreNotShort /\ []WindowsEndInTime

\* Grammars are frozen in evaluate, a saved grammar is never learned again, and
\* the phase only advances: what is seen while evaluating is never absorbed.
GrammarFrozen ==
  [][/\ phase = "evaluate" => phase' = "evaluate" /\ grammar' = grammar /\ writes' = writes
     /\ \A s \in resumed : grammar[s] = "saved" => grammar'[s] = "saved"
     /\ phase = "learn" => phase' # "observe"
    ]_runVars

\* The observer never judges a silo it has no grammar for, and a learner's grammar
\* is what its writes made of it: _end_observe and _end_learn between them cover
\* every evaluable silo on every command line.
EvaluateHasGrammar ==
  phase = "evaluate" =>
    /\ evaluable # {}
    /\ \A s \in evaluable : /\ grammar[s] # "none"
                            /\ s \in learner => (grammar[s] = "learned" <=> s \in writes)

\* The exit code tells the end: 3 exactly when every capture was given up, and no
\* run that had something to evaluate stops by itself with a clean code unless it
\* was asked to write a grammar file.
ExitCodeTellsTheEnd ==
  /\ rc = 3 <=> outcome = "fell_through"
  /\ FallThroughMeansAllLost
  /\ outcome = "stopped" /\ rc = 0 => args.grammar /\ args.learn /\ Cardinality(evaluable) = 1

\* The observe window is left, however captures die and come back, as long as
\* they stop dying.
ObserveEnds == phase = "observe" ~> (phase # "observe" \/ pc = "done")

\* A resumed silo evaluates on its saved grammar (load_silo_state): it never brings
\* the observer down.
ResumedSilosEvaluate == outcome # "raised"
=============================================================================
