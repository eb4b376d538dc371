--------------------------- MODULE ObserverProofs ---------------------------
(***************************************************************************)
(* The observer, live and on a replay: what its windows, its grammars and  *)
(* its exit code promise, for any sources, windows, command lines, files,  *)
(* and any number of outages.                                              *)
(***************************************************************************)
EXTENDS Replay, SupervisorProofs, FiniteSetTheorems, SequenceTheorems, WellFoundedInduction

-----------------------------------------------------------------------------
(* The selector loop under the run is the one of Supervisor.               *)

\* A step of the run is a step of the loop, or none.
LEMMA RunStepsTheLoop == ASSUME RunNext PROVE [Next]_supervisorVars
<1>1. ASSUME NEW s \in Sources, RunWrite(s) \/ RunExit(s) PROVE Next
  BY <1>1, Zenon DEF RunWrite, RunExit, Children, Next
<1>2. ASSUME RunInterrupt PROVE Next
  BY <1>2, Zenon DEF RunInterrupt, Next
<1>3. ASSUME Until \/ RunFallThrough \/ Turn PROVE Next
  BY <1>3, Zenon DEF Until, RunFallThrough, Turn, Stop, StartService, Loop, Next
<1>4. ASSUME NEW s \in Sources, RunService(s) \/ RunHandle(s) \/ Crash(s) PROVE Next
  BY <1>4, Zenon DEF RunService, RunHandle, Crash, Handle, Loop, Next
<1>5. ASSUME NEW d \in {0, 1}, RunSelect(d) PROVE Next
  BY <1>5, Zenon DEF RunSelect, Loop, Next
<1> QED
  BY <1>1, <1>2, <1>3, <1>4, <1>5, Zenon DEF RunNext, RunLoop

-----------------------------------------------------------------------------
(* What the silos and the phase of the run are.                            *)

\* The loop, or the replay, was left.
Over == pc = "done" \/ returned # "running"

\* RunTypes without the clocks.
StageTypes ==
  /\ args \in ArgSets /\ phase \in {"observe", "learn", "evaluate"}
  /\ obs \subseteq Sources /\ evaluable \subseteq obs /\ resumed \subseteq evaluable
  /\ learner \subseteq evaluable /\ writes \subseteq learner
  /\ grammar \in [Sources -> {"none", "empty", "learned", "saved", "file"}]
  /\ stop \in BOOLEAN /\ rc \in 0..3
  /\ ended \in {"open", "deadline", "stable", "input"}

\* Nothing is known of a silo before the observe window ends.
ObserveStage ==
  phase = "observe" =>
    /\ learner = {} /\ writes = {}
    /\ stop => rc # 0
    /\ ~Over => ~stop /\ rc = 0 /\ evaluable = {} /\ resumed = {}

\* Who learns, and what a silo that does not goes by.  A run that stops here is one
\* that writes a grammar file.
LearnStage ==
  phase = "learn" =>
    /\ args.learn /\ evaluable # {} /\ rc # 2
    /\ learner = evaluable \ resumed
    /\ \A s \in resumed : grammar[s] = "saved"
    /\ stop => args.grammar
    /\ stop /\ rc = 0 => Cardinality(evaluable) = 1

EvaluateStage == phase = "evaluate" => ~stop /\ rc # 2 /\ EvaluateHasGrammar

Stages == ObserveStage /\ LearnStage /\ EvaluateStage

\* The end of the observe window.
LEMMA EndObserveKeepsStages ==
  ASSUME StageTypes, Stages, ~Over, phase = "observe", NEW found \in SUBSET obs,
         _end_observe(found), UNCHANGED args, stop' => Over'
  PROVE  StageTypes' /\ Stages'
<1> DEFINE loaded == found \intersect args.saved
           fresh == found \ loaded
<1>0. ~stop /\ rc = 0 /\ learner = {} /\ writes = {} /\ obs \subseteq Sources
  BY Zenon DEF Stages, ObserveStage, StageTypes
<1>1. evaluable' = found /\ resumed' = loaded /\ ended' = "deadline" /\ obs' = obs /\ writes' = {}
  BY <1>0, Zenon DEF _end_observe
<1>2. CASE found = {} /\ StopWith(2) /\ UNCHANGED <<learner, grammar>>
  <2>1. phase' = "observe" /\ stop' = TRUE /\ rc' = 2
    BY <1>2, Zenon DEF StopWith
  <2>2. StageTypes'
    BY <1>0, <1>1, <1>2, <2>1, SMT DEF StageTypes
  <2>3. Stages'
    BY <1>0, <1>1, <1>2, <2>1, SMT DEF Stages, ObserveStage, LearnStage, EvaluateStage
  <2> QED
    BY <2>2, <2>3
<1>3. CASE found # {} /\ fresh = {} /\ _start_evaluate /\ grammar' = Given(loaded, "saved") /\ UNCHANGED learner
  <2>1. phase' = "evaluate" /\ UNCHANGED <<stop, rc>>
    BY <1>3, Zenon DEF _start_evaluate
  <2>2. StageTypes'
    BY <1>0, <1>1, <1>3, <2>1, SMT DEF StageTypes, Given
  <2>3. Stages'
    BY <1>0, <1>1, <1>3, <2>1, SMT DEF StageTypes, Stages, ObserveStage, LearnStage, EvaluateStage, EvaluateHasGrammar, Given
  <2> QED
    BY <2>2, <2>3
<1>4. CASE /\ fresh # {} /\ args.learn
           /\ phase' = "learn" /\ learner' = fresh /\ UNCHANGED <<stop, rc>>
           /\ grammar' = Given(loaded, "saved")
  <2>2. StageTypes'
    BY <1>0, <1>1, <1>4, SMT DEF StageTypes, Given
  <2>3. Stages'
    BY <1>0, <1>1, <1>4, SMT DEF StageTypes, Stages, ObserveStage, LearnStage, EvaluateStage, Given
  <2> QED
    BY <2>2, <2>3
<1>5. CASE /\ fresh # {} /\ _start_evaluate /\ grammar' = Given(found, "file") /\ UNCHANGED learner
  <2>1. phase' = "evaluate" /\ UNCHANGED <<stop, rc>>
    BY <1>5, Zenon DEF _start_evaluate
  <2>2. StageTypes'
    BY <1>0, <1>1, <1>5, <2>1, SMT DEF StageTypes, Given
  <2>3. Stages'
    BY <1>0, <1>1, <1>5, <2>1, SMT DEF StageTypes, Stages, ObserveStage, LearnStage, EvaluateStage, EvaluateHasGrammar, Given
  <2> QED
    BY <2>2, <2>3
<1>6. CASE /\ fresh # {} /\ StopWith(1) /\ grammar' = Given(loaded, "saved") /\ UNCHANGED learner
  <2>1. phase' = "observe" /\ stop' = TRUE /\ rc' = 1
    BY <1>6, Zenon DEF StopWith
  <2>2. StageTypes'
    BY <1>0, <1>1, <1>6, <2>1, SMT DEF StageTypes, Given
  <2>3. Stages'
    BY <1>0, <1>1, <1>6, <2>1, SMT DEF Stages, ObserveStage, LearnStage, EvaluateStage
  <2> QED
    BY <2>2, <2>3
<1> QED
  BY <1>2, <1>3, <1>4, <1>5, <1>6, Zenon DEF _end_observe

\* The end of the learn window.
LEMMA EndLearnKeepsStages ==
  ASSUME StageTypes, Stages, phase = "learn", NEW why \in {"deadline", "stable", "input"},
         _end_learn(why), UNCHANGED args
  PROVE  StageTypes' /\ Stages'
<1>1. UNCHANGED <<obs, evaluable, resumed, learner, writes>> /\ ended' = why
  BY Zenon DEF _end_learn
<1>2. grammar' = [s \in Sources |->
        IF s \notin evaluable \ resumed THEN grammar[s]
        ELSE IF s \in writes THEN "learned" ELSE "empty"]
  BY Zenon DEF _end_learn
<1>3. \/ ~args.grammar /\ phase' = "evaluate" /\ UNCHANGED <<stop, rc>>
      \/ /\ args.grammar /\ phase' = "learn" /\ stop' = TRUE
         /\ rc' = (IF Cardinality(evaluable) = 1 THEN 0 ELSE 1)
  BY Zenon DEF _end_learn, _start_evaluate, StopWith
<1>4. StageTypes'
  <2>1. grammar' \in [Sources -> {"none", "empty", "learned", "saved", "file"}]
    BY <1>2, SMT DEF StageTypes
  <2>2. phase' \in {"observe", "learn", "evaluate"}
    BY <1>3, SMT DEF StageTypes
  <2>3. stop' \in BOOLEAN
    BY <1>3, Zenon DEF StageTypes
  <2>4. rc' \in 0..3
    BY <1>3, SMT DEF StageTypes
  <2> QED
    BY <1>1, <2>1, <2>2, <2>3, <2>4, SMT DEF StageTypes
<1>5. Stages'
  BY <1>1, <1>2, <1>3, SMT DEF StageTypes, Stages, ObserveStage, LearnStage, EvaluateStage, EvaluateHasGrammar
<1> QED
  BY <1>4, <1>5

\* A poll of until().
LEMMA TickKeepsStages ==
  ASSUME StageTypes, Stages, ~Over, tick, UNCHANGED args, stop' => Over'
  PROVE  StageTypes' /\ Stages'
<1>1. CASE MayBeStable /\ _end_learn("stable")
  BY <1>1, EndLearnKeepsStages, Zenon DEF MayBeStable
<1>2. CASE phase = "observe" /\ \E found \in SUBSET obs : _end_observe(found)
  BY <1>2, EndObserveKeepsStages, Zenon
<1>3. CASE phase = "learn" /\ _end_learn("deadline")
  BY <1>3, EndLearnKeepsStages, Zenon
<1>4. CASE UNCHANGED <<endVars, siloVars>>
  BY <1>4, Zenon DEF endVars, siloVars, StageTypes, Stages, ObserveStage, LearnStage, EvaluateStage, EvaluateHasGrammar
<1> QED
  BY <1>1, <1>2, <1>3, <1>4, Zenon DEF tick

\* The events of one read.
LEMMA DispatchKeepsStages ==
  ASSUME StageTypes, Stages, ~Over, NEW s \in Sources, dispatch(s), UNCHANGED args
  PROVE  StageTypes' /\ Stages'
<1>1. CASE /\ obs' = IF phase = "observe" THEN obs \union {s} ELSE obs
           /\ UNCHANGED <<endVars, evaluable, resumed, learner, writes, grammar>>
  BY <1>1, SMT DEF endVars, StageTypes, Stages, ObserveStage, LearnStage, EvaluateStage, EvaluateHasGrammar
<1>2. CASE /\ Learning(s) /\ writes' = writes \union {s}
           /\ UNCHANGED <<endVars, obs, evaluable, resumed, learner, grammar>>
  BY <1>2, SMT DEF Learning, endVars, StageTypes, Stages, ObserveStage, LearnStage, EvaluateStage, EvaluateHasGrammar
<1>3. CASE Learning(s) /\ _end_learn("stable")
  BY <1>3, EndLearnKeepsStages, Zenon DEF Learning
<1> QED
  BY <1>1, <1>2, <1>3, Zenon DEF dispatch

\* What a step of the run does to the silos, the phase and the outcome.
LEMMA RunStepKinds ==
  ASSUME RunNext
  PROVE  /\ UNCHANGED args
         /\ pc = "done" => pc' = "done"
         /\ \/ /\ UNCHANGED <<siloVars, endVars>>
               /\ \/ outcome' = outcome
                  \/ pc # "done" /\ outcome' \in {"interrupted", "raised"}
            \/ /\ pc = "until" /\ tick
               /\ \/ ~stop' /\ outcome' = outcome
                  \/ stop' /\ pc' = "done" /\ outcome' = "stopped"
            \/ /\ pc = "until" /\ pc' = "done" /\ rc' = 3 /\ outcome' = "fell_through"
               /\ UNCHANGED <<siloVars, phase, stop, ended>>
            \/ /\ pc = "handle" /\ UNCHANGED <<pc, outcome>>
               /\ \E s \in Sources : dispatch(s)
<1>1. ASSUME NEW s \in Sources, RunWrite(s) \/ RunExit(s)
      PROVE  UNCHANGED <<args, siloVars, endVars, pc, outcome>>
  BY <1>1, Zenon DEF RunWrite, RunExit, sameHistory, Write, Exit, loop
<1>2. ASSUME RunInterrupt
      PROVE  /\ UNCHANGED <<args, siloVars, endVars>>
             /\ pc # "done" /\ pc' = "done" /\ outcome' = "interrupted"
  BY <1>2, Zenon DEF RunInterrupt, Interrupt, Leave, KillAll, sameHistory
<1>3. ASSUME Turn
      PROVE  UNCHANGED <<args, siloVars, endVars, outcome>> /\ pc # "done"
  BY <1>3, Zenon DEF Turn, EndService, EndHandle, sameHistory
<1>4. ASSUME Until
      PROVE  /\ UNCHANGED args /\ pc = "until" /\ tick
             /\ \/ ~stop' /\ outcome' = outcome
                \/ stop' /\ pc' = "done" /\ outcome' = "stopped"
  <2>1. UNCHANGED args /\ pc = "until" /\ tick
    BY <1>4, Zenon DEF Until
  <2>2. CASE stop' /\ Leave("stopped")
    BY <2>1, <2>2, Zenon DEF Leave, KillAll
  <2>3. CASE ~stop' /\ StartService
    BY <2>1, <2>3, Zenon DEF StartService
  <2> QED
    BY <1>4, <2>2, <2>3, Zenon DEF Until
<1>5. ASSUME RunFallThrough
      PROVE  /\ UNCHANGED <<args, siloVars, phase, stop, ended>>
             /\ pc = "until" /\ pc' = "done" /\ rc' = 3 /\ outcome' = "fell_through"
  BY <1>5, Zenon DEF RunFallThrough, FallThrough, Leave, KillAll, sameHistory
<1>6. ASSUME NEW s \in Sources, RunService(s)
      PROVE  UNCHANGED <<args, siloVars, endVars, pc, outcome>>
  BY <1>6, Zenon DEF RunService, service, sameHistory
<1>7. ASSUME NEW s \in Sources, RunHandle(s)
      PROVE  /\ UNCHANGED <<args, pc, outcome>> /\ pc = "handle"
             /\ dispatch(s) \/ UNCHANGED <<siloVars, endVars>>
  BY <1>7, Zenon DEF RunHandle
<1>8. ASSUME NEW s \in Sources, Crash(s)
      PROVE  /\ UNCHANGED <<args, siloVars, endVars>>
             /\ pc # "done" /\ pc' = "done" /\ outcome' = "raised"
  BY <1>8, Zenon DEF Crash, Raise, KillAll, sameHistory
<1>9. ASSUME NEW d \in {0, 1}, RunSelect(d)
      PROVE  UNCHANGED <<args, siloVars, endVars, outcome>> /\ pc # "done"
  BY <1>9, Zenon DEF RunSelect, Select
<1> QED
  BY <1>1, <1>2, <1>3, <1>4, <1>5, <1>6, <1>7, <1>8, <1>9, Zenon DEF RunNext, RunLoop

\* The exit code 3 is the loop's own end, and a stop was asked for.
ExitStage == (rc = 3 <=> outcome = "fell_through") /\ (outcome = "stopped" => stop)

\* The end of the windows gives no exit code 3, and asks for no end twice.
LEMMA CodesOfTheWindows ==
  ASSUME rc # 3, tick \/ \E s \in Sources : dispatch(s)
  PROVE  rc' # 3 /\ (stop => stop')
<1>1. ASSUME NEW why, _end_learn(why) PROVE rc' # 3 /\ (stop => stop')
  BY <1>1, SMT DEF _end_learn, _start_evaluate, StopWith
<1>2. ASSUME NEW found, _end_observe(found) PROVE rc' # 3 /\ (stop => stop')
  BY <1>2, SMT DEF _end_observe, _start_evaluate, StopWith
<1> QED
  <2>1. ASSUME tick PROVE rc' # 3 /\ (stop => stop')
    <3>1. \/ \E why \in {"stable", "deadline"} : _end_learn(why)
          \/ \E found \in SUBSET obs : _end_observe(found)
          \/ UNCHANGED <<rc, stop>>
      BY <2>1, Zenon DEF tick, endVars
    <3> QED
      BY <1>1, <1>2, <3>1, SMT
  <2>2. ASSUME NEW s \in Sources, dispatch(s) PROVE rc' # 3 /\ (stop => stop')
    <3>1. _end_learn("stable") \/ UNCHANGED <<rc, stop>>
      BY <2>2, Zenon DEF dispatch, endVars
    <3> QED
      BY <1>1, <3>1, SMT
  <2> QED
    BY <2>1, <2>2

\* Every step of a live run.
LEMMA RunKeepsStages ==
  ASSUME IInv, StageTypes, Stages, ExitStage, returned = "running", RunNext, UNCHANGED returned
  PROVE  StageTypes' /\ Stages' /\ ExitStage'
<1> USE RunStepKinds
<1>1. (Over <=> pc = "done") /\ (Over' <=> pc' = "done")
  BY Zenon DEF Over
<1>2. CASE /\ UNCHANGED <<siloVars, endVars>>
           /\ \/ outcome' = outcome
              \/ pc # "done" /\ outcome' \in {"interrupted", "raised"}
  <2>1. StageTypes' /\ Stages'
    BY <1>1, <1>2, Zenon DEF endVars, siloVars, StageTypes, Stages, ObserveStage, LearnStage,
         EvaluateStage, EvaluateHasGrammar
  <2>2. ExitStage'
    BY <1>2, Zenon DEF ExitStage, endVars, IInv, PassInv
  <2> QED
    BY <2>1, <2>2
<1>3. CASE /\ pc = "until" /\ tick
           /\ \/ ~stop' /\ outcome' = outcome
              \/ stop' /\ pc' = "done" /\ outcome' = "stopped"
  <2>1. StageTypes' /\ Stages'
    BY <1>1, <1>3, TickKeepsStages, Zenon
  <2>2. outcome = "running" /\ rc # 3
    BY <1>3, Zenon DEF ExitStage, IInv, PassInv
  <2>3. ExitStage'
    BY <1>3, <2>2, CodesOfTheWindows, Zenon DEF ExitStage
  <2> QED
    BY <2>1, <2>3
<1>4. CASE /\ pc = "until" /\ pc' = "done" /\ rc' = 3 /\ outcome' = "fell_through"
           /\ UNCHANGED <<siloVars, phase, stop, ended>>
  <2>1. StageTypes' /\ Stages'
    BY <1>1, <1>4, SMT DEF siloVars, StageTypes, Stages, ObserveStage, LearnStage,
         EvaluateStage, EvaluateHasGrammar
  <2> QED
    BY <1>4, <2>1, Zenon DEF ExitStage
<1>5. CASE pc = "handle" /\ UNCHANGED <<pc, outcome>> /\ \E s \in Sources : dispatch(s)
  <2>1. StageTypes' /\ Stages'
    BY <1>1, <1>5, DispatchKeepsStages, Zenon
  <2>2. outcome = "running" /\ rc # 3
    BY <1>5, Zenon DEF ExitStage, IInv, PassInv
  <2>3. ExitStage'
    BY <1>5, <2>2, CodesOfTheWindows, Zenon DEF ExitStage
  <2> QED
    BY <2>1, <2>3
<1> QED
  BY <1>2, <1>3, <1>4, <1>5, Zenon

-----------------------------------------------------------------------------
(* The merge of a replay.                                                  *)

Lower == {ss \in Nat \X Nat : ss[1] < ss[2]}

\* There is no endless descent in the natural numbers.
LEMMA LowerIsWellFounded == IsWellFoundedOn(Lower, Nat)
  BY NatLessThanWellFounded, Zenon DEF OpToRel, Lower

\* A set of natural numbers has a smallest one.
LEMMA SetOfNaturalsHasMin ==
  ASSUME NEW T \in SUBSET Nat, T # {}
  PROVE  \E m \in T : \A k \in T : m <= k
<1>1. \E m \in T : \A k \in T : ~(<<k, m>> \in Lower)
  BY LowerIsWellFounded, WFMin, Zenon
<1>2. \A k, m \in Nat : <<k, m>> \in Lower <=> k < m
  BY SMT DEF Lower
<1>3. PICK m \in T : \A k \in T : ~(<<k, m>> \in Lower)
  BY <1>1
<1>4. \A k \in T : ~(k < m)
  BY <1>2, <1>3, Zenon
<1> QED
  BY <1>3, <1>4, SMT

\* What fill may have fetched of a source: nothing, or one line.
Fetched == {{}} \union {{line} : line \in [ts : Times, raw : Times]}

\* The types of the merge.
ReplayTypes ==
  /\ given \in [Sources -> Seq(Times)]
  /\ lines \in [Sources -> Seq(Times)]
  /\ pending \in [Sources -> Fetched]
  /\ record \in [Sources -> Seq(Times)]
  /\ last_ts \in Times /\ now \in Times /\ first \in Times
  /\ picked \in Sources

\* fill fetches one line where there is one.
LEMMA FilledType ==
  ASSUME ReplayTypes, NEW s \in Sources
  PROVE  /\ Filled(s) \in Fetched
         /\ Filled(s) = {} <=> pending[s] = {} /\ lines[s] = <<>>
<1>1. pending[s] \in Fetched /\ lines[s] \in Seq(Times) /\ last_ts \in Times
  BY Zenon DEF ReplayTypes
<1>2. CASE pending[s] # {} \/ lines[s] = <<>>
  BY <1>1, <1>2, Zenon DEF Filled
<1>3. CASE pending[s] = {} /\ lines[s] # <<>>
  <2>1. Head(lines[s]) \in Times
    BY <1>1, <1>3, HeadTailProperties, Zenon
  <2>2. Filled(s) = {[ts |-> Stamp(Head(lines[s])), raw |-> Head(lines[s])]}
    BY <1>3, Zenon DEF Filled
  <2>3. Stamp(Head(lines[s])) \in Times
    BY <1>1, <2>1, Zenon DEF Stamp
  <2> QED
    BY <1>3, <2>1, <2>2, <2>3, Zenon DEF Fetched
<1> QED
  BY <1>2, <1>3

\* What min over the live sources compares.
Before(r, s) == \E x \in Filled(s), y \in Filled(r) : Earlier(y.ts, x.ts)

\* The merge picks a live source, and none has an earlier line.
LEMMA EarliestIsFirst ==
  ASSUME ReplayTypes, NEW live \in SUBSET Sources, live # {}, \A s \in live : Filled(s) # {}
  PROVE  /\ Earliest(live) \in live
         /\ \A r \in live : ~Before(r, Earliest(live))
<1>1. PICK time \in [live -> Times] : \A s \in live : \A x \in Filled(s) : x.ts = time[s]
  <2> DEFINE time == [s \in live |-> (CHOOSE x \in Filled(s) : TRUE).ts]
  <2>1. \A s \in live : time[s] \in Times /\ \A x \in Filled(s) : x.ts = time[s]
    <3> SUFFICES ASSUME NEW s \in live PROVE time[s] \in Times /\ \A x \in Filled(s) : x.ts = time[s]
      OBVIOUS
    <3>1. PICK line \in [ts : Times, raw : Times] : Filled(s) = {line}
      BY FilledType, Zenon DEF Fetched
    <3>2. (CHOOSE x \in Filled(s) : TRUE) = line
      BY <3>1, Zenon
    <3>3. time[s] = line.ts
      BY <3>2, Zenon
    <3>4. line.ts \in Times
      BY Zenon
    <3> QED
      BY <3>1, <3>3, <3>4, Zenon
  <2>2. time \in [live -> Times]
    BY <2>1, Zenon
  <2> HIDE DEF time
  <2> QED
    BY <2>1, <2>2, Zenon
<1>2. \A r, s \in live : Before(r, s) <=> Earlier(time[r], time[s])
  BY <1>1, Zenon DEF Before
<1>3. PICK s0 \in live : \A r \in live : ~Before(r, s0)
  <2> DEFINE stamped == {n \in Nat : \E s \in live : time[s] = n}
  <2>1. CASE stamped = {}
    <3>1. \A s \in live : time[s] = Unstamped
      BY <2>1, <1>1, Zenon DEF Times
    <3> QED
      BY <3>1, <1>2, Zenon DEF Earlier
  <2>2. CASE stamped # {}
    <3>1. PICK m \in stamped : \A k \in stamped : m <= k
      BY <2>2, SetOfNaturalsHasMin, Zenon
    <3>2. PICK s \in live : time[s] = m
      BY <3>1, Zenon
    <3>3. \A r \in live : ~Earlier(time[r], time[s])
      <4> SUFFICES ASSUME NEW r \in live PROVE ~Earlier(time[r], time[s])
        OBVIOUS
      <4>1. time[r] = Unstamped \/ time[r] \in stamped
        BY <1>1, Zenon DEF Times
      <4> QED
        BY <3>1, <3>2, <4>1, SMT DEF Earlier, Unstamped
    <3> QED
      BY <3>3, <1>2, Zenon
  <2> QED
    BY <2>1, <2>2
<1> DEFINE Test(s) == s \in live /\ \A r \in live : ~Before(r, s)
           I == {i \in 1..Len(Order) : Test(Order[i])}
<1>4. I # {} /\ I \subseteq Nat
  <2>1. \E i \in 1..Len(Order) : Order[i] = s0
    <3>1. s0 \in ToSet(Order) /\ Order \in Seq(Sources)
      BY ReplayAssumption, Zenon
    <3>2. DOMAIN Order = 1..Len(Order)
      BY <3>1, LenProperties, Zenon
    <3> QED
      BY <3>1, <3>2, Zenon DEF ToSet
  <2> QED
    BY <1>3, <2>1, SMT
<1>5. Min(I) \in I
  <2> HIDE DEF I
  <2>1. \E m \in I : \A k \in I : m <= k
    BY <1>4, SetOfNaturalsHasMin, Zenon
  <2> QED
    BY <2>1, Zenon DEF Min
<1>6. Earliest(live) = Order[Min(I)]
  BY <1>4, Zenon DEF Earliest, SelectInSeq, Before
<1> QED
  BY <1>5, <1>6, Zenon

\* A merge moves one line of one source to the record.
Moves(src, line) ==
  /\ picked' = src /\ Filled(src) = {line}
  /\ \A r \in Sources : ~Before(r, src)
  /\ pending' = [s \in Sources |-> IF s = src THEN {} ELSE Filled(s)]
  /\ lines' = [s \in Sources |-> IF pending[s] = {} /\ Filled(s) # {} THEN Tail(lines[s]) ELSE lines[s]]
  /\ record' = [record EXCEPT ![src] = Append(@, line.raw)]
  /\ last_ts' = IF line.ts = Unstamped THEN last_ts ELSE line.ts
  /\ advance(line.ts)

\* A merge takes one line of one source.
LEMMA MergeMoves ==
  ASSUME ReplayTypes, Merge
  PROVE  \E src \in Sources, line \in [ts : Times, raw : Times] : Moves(src, line)
<1> DEFINE live == {s \in Sources : Filled(s) # {}}
           src == Earliest(live)
<1>1. live # {} /\ live \in SUBSET Sources /\ \A s \in live : Filled(s) # {}
  BY Zenon DEF Merge
<1>2. src \in live /\ \A r \in live : ~Before(r, src)
  BY <1>1, EarliestIsFirst, Zenon
<1>3. \A r \in Sources : ~Before(r, src)
  BY <1>2, Zenon DEF Before
<1>4. PICK line \in [ts : Times, raw : Times] : Filled(src) = {line}
  BY <1>2, FilledType, Zenon DEF Fetched
<1>5. Moves(src, line)
  <2>1. /\ picked' = src
        /\ pending' = [s \in Sources |-> IF s = src THEN {} ELSE Filled(s)]
        /\ lines' = [s \in Sources |-> IF pending[s] = {} /\ s \in live THEN Tail(lines[s])
                                       ELSE lines[s]]
        /\ \E x \in Filled(src) :
              /\ record' = [record EXCEPT ![src] = Append(@, x.raw)]
              /\ advance(x.ts)
              /\ last_ts' = IF x.ts = Unstamped THEN last_ts ELSE x.ts
    BY Zenon DEF Merge
  <2>2. /\ record' = [record EXCEPT ![src] = Append(@, line.raw)]
        /\ advance(line.ts)
        /\ last_ts' = IF line.ts = Unstamped THEN last_ts ELSE line.ts
    BY <2>1, <1>4, Zenon
  <2>3. \A s \in Sources : s \in live <=> Filled(s) # {}
    OBVIOUS
  <2>4. lines' = [s \in Sources |-> IF pending[s] = {} /\ Filled(s) # {} THEN Tail(lines[s])
                                    ELSE lines[s]]
    <3> HIDE DEF live
    <3> QED
      BY <2>1, <2>3, Zenon
  <2> HIDE DEF src
  <2> QED
    BY <1>3, <1>4, <2>1, <2>2, <2>4, Zenon DEF Moves
<1> QED
  BY <1>2, <1>4, <1>5, Zenon

\* A merge keeps the types.
LEMMA MergeKeepsTypes == ASSUME ReplayTypes, Merge PROVE ReplayTypes'
<1>1. PICK src \in Sources, line \in [ts : Times, raw : Times] : Moves(src, line)
  BY MergeMoves
<1>2. line.ts \in Times /\ line.raw \in Times
  BY Zenon
<1>3. lines' \in [Sources -> Seq(Times)]
  <2>1. \A s \in Sources : (IF pending[s] = {} /\ Filled(s) # {} THEN Tail(lines[s]) ELSE lines[s]) \in Seq(Times)
    BY FilledType, HeadTailProperties, Zenon DEF ReplayTypes
  <2> QED
    BY <1>1, <2>1, Zenon DEF Moves
<1>4. pending' \in [Sources -> Fetched]
  <2>1. \A s \in Sources : (IF s = src THEN {} ELSE Filled(s)) \in Fetched
    BY FilledType, Zenon DEF Fetched
  <2> QED
    BY <1>1, <2>1, Zenon DEF Moves
<1>5. record' \in [Sources -> Seq(Times)]
  <2>1. Append(record[src], line.raw) \in Seq(Times)
    BY <1>2, AppendProperties, Zenon DEF ReplayTypes
  <2> QED
    BY <1>1, <2>1, Zenon DEF Moves, ReplayTypes
<1>6. last_ts' \in Times /\ first' \in Times /\ picked' \in Sources
  BY <1>1, <1>2, Zenon DEF Moves, advance, ReplayTypes
<1>7. now' \in Times
  BY <1>1, <1>2, SMT DEF Moves, advance, Elapsed, ReplayTypes, Times, Unstamped
<1>8. given' = given
  BY Zenon DEF Merge
<1> QED
  BY <1>3, <1>4, <1>5, <1>6, <1>7, <1>8, Zenon DEF ReplayTypes

-----------------------------------------------------------------------------
(* The record of a replay.                                                 *)

\* At any moment the record, the line fetched and the lines not given yet are the
\* whole input of a source.
NothingDropped == \A s \in Sources : drained(s) = given[s]

\* Taking the head of a sequence to the end of another drops nothing.
LEMMA HeadMoves ==
  ASSUME NEW r \in Seq(Times), NEW l \in Seq(Times), l # <<>>
  PROVE  /\ r \o <<Head(l)>> \o Tail(l) = r \o l
         /\ Append(r, Head(l)) \o Tail(l) = r \o l
<1>1. Head(l) \in Times /\ Tail(l) \in Seq(Times) /\ <<Head(l)>> \in Seq(Times)
  BY HeadTailProperties, SMT
<1>2. <<Head(l)>> \o Tail(l) = l
  BY <1>1, SMT
<1>3. r \o <<Head(l)>> \o Tail(l) = r \o l
  <2>1. (r \o <<Head(l)>>) \o Tail(l) = r \o (<<Head(l)>> \o Tail(l))
    BY <1>1, ConcatAssociative
  <2> QED
    BY <1>2, <2>1, Zenon
<1>4. Append(r, Head(l)) = r \o <<Head(l)>>
  BY <1>1, AppendIsConcat, Zenon
<1> QED
  BY <1>3, <1>4, Zenon

\* A merge takes nothing from a source but the line it yields.
LEMMA MergeDropsNothing == ASSUME ReplayTypes, Merge PROVE \A s \in Sources : drained(s)' = drained(s)
<1>1. PICK src \in Sources, line \in [ts : Times, raw : Times] : Moves(src, line)
  BY MergeMoves
<1> SUFFICES ASSUME NEW s \in Sources PROVE drained(s)' = drained(s)
  OBVIOUS
<1>t. lines[s] \in Seq(Times) /\ record[s] \in Seq(Times) /\ record \in [Sources -> Seq(Times)]
  BY Zenon DEF ReplayTypes
<1>m. /\ lines'[s] = IF pending[s] = {} /\ Filled(s) # {} THEN Tail(lines[s]) ELSE lines[s]
      /\ pending'[s] = IF s = src THEN {} ELSE Filled(s)
      /\ record'[s] = IF s = src THEN Append(record[s], line.raw) ELSE record[s]
  BY <1>1, <1>t, Zenon DEF Moves
<1>c. \A x : (CHOOSE y \in {x} : TRUE) = x
  OBVIOUS
<1>2. CASE pending[s] = {} /\ lines[s] = <<>>
  <2>1. Filled(s) = {} /\ s # src
    BY <1>1, <1>2, FilledType, Zenon DEF Moves
  <2> QED
    BY <1>m, <1>2, <2>1, Zenon DEF drained
<1>3. CASE pending[s] = {} /\ lines[s] # <<>>
  <2> DEFINE x == [ts |-> Stamp(Head(lines[s])), raw |-> Head(lines[s])]
  <2>1. Filled(s) = {x} /\ x.raw = Head(lines[s])
    BY <1>3, Zenon DEF Filled
  <2> HIDE DEF x
  <2>2. lines'[s] = Tail(lines[s]) /\ drained(s) = record[s] \o lines[s]
    BY <1>3, <1>m, <2>1, Zenon DEF drained
  <2>3. CASE s = src
    <3>1. x = line
      BY <1>1, <2>1, <2>3, Zenon DEF Moves
    <3>2. drained(s)' = Append(record[s], Head(lines[s])) \o Tail(lines[s])
      BY <1>m, <2>1, <2>2, <2>3, <3>1, Zenon DEF drained
    <3> QED
      BY <1>3, <1>t, <2>2, <3>2, HeadMoves, Zenon
  <2>4. CASE s # src
    <3>1. drained(s)' = record[s] \o <<Head(lines[s])>> \o Tail(lines[s])
      BY <1>c, <1>m, <2>1, <2>2, <2>4, Zenon DEF drained
    <3> QED
      BY <1>3, <1>t, <2>2, <3>1, HeadMoves, Zenon
  <2> QED
    BY <2>3, <2>4
<1>4. CASE pending[s] # {}
  <2>1. Filled(s) = pending[s] /\ lines'[s] = lines[s]
    BY <1>4, <1>m, Zenon DEF Filled
  <2>2. CASE s = src
    <3>1. pending[s] = {line}
      BY <1>1, <2>1, <2>2, Zenon DEF Moves
    <3>2. drained(s) = record[s] \o <<line.raw>> \o lines[s]
      BY <1>c, <1>4, <3>1, Zenon DEF drained
    <3>3. drained(s)' = Append(record[s], line.raw) \o lines[s]
      BY <1>m, <2>1, <2>2, Zenon DEF drained
    <3>4. Append(record[s], line.raw) = record[s] \o <<line.raw>>
      BY <1>t, AppendIsConcat, Zenon
    <3> QED
      BY <3>2, <3>3, <3>4, Zenon
  <2>3. CASE s # src
    <3>1. PICK x : pending[s] = {x}
      <4>1. pending[s] \in Fetched
        BY Zenon DEF ReplayTypes
      <4> QED
        BY <1>4, <4>1, Zenon DEF Fetched
    <3>2. pending'[s] = {x} /\ record'[s] = record[s]
      BY <1>m, <2>1, <2>3, <3>1, Zenon
    <3>3. drained(s) = record[s] \o <<x.raw>> \o lines[s]
      BY <1>c, <1>4, <3>1, Zenon DEF drained
    <3>4. drained(s)' = record[s] \o <<x.raw>> \o lines[s]
      BY <1>c, <2>1, <3>2, Zenon DEF drained
    <3> QED
      BY <3>3, <3>4, Zenon
  <2> QED
    BY <2>2, <2>3
<1> QED
  BY <1>2, <1>3, <1>4

\* What the other steps of a replay do to the merge.
LEMMA PollDrains ==
  ASSUME ReplayTypes, NothingDropped, Poll
  PROVE  /\ ReplayTypes' /\ NothingDropped'
         /\ returned' = "stopped" => record' = given
         /\ returned' # "eof"
<1>1. UNCHANGED <<given, last_ts, now, picked, first>> /\ returned = "running"
  BY Zenon DEF Poll
<1>2. CASE returned' = "stopped" /\ _drain_to_record
  <2>1. /\ record' = [s \in Sources |-> drained(s)]
        /\ pending' = [s \in Sources |-> {}] /\ lines' = [s \in Sources |-> <<>>]
    BY <1>2, Zenon DEF _drain_to_record
  <2>2. \A s \in Sources : drained(s) \in Seq(Times)
    <3> SUFFICES ASSUME NEW s \in Sources PROVE drained(s) \in Seq(Times)
      OBVIOUS
    <3>1. record[s] \in Seq(Times) /\ lines[s] \in Seq(Times) /\ pending[s] \in Fetched
      BY Zenon DEF ReplayTypes
    <3>2. CASE pending[s] = {}
      BY <3>1, <3>2, ConcatProperties, Zenon DEF drained
    <3>3. CASE pending[s] # {}
      <4>1. PICK x \in [ts : Times, raw : Times] : pending[s] = {x}
        BY <3>1, <3>3, Zenon DEF Fetched
      <4>2. (CHOOSE line \in pending[s] : TRUE) = x
        BY <4>1, Zenon
      <4>3. drained(s) = record[s] \o <<x.raw>> \o lines[s]
        BY <3>3, <4>2, Zenon DEF drained
      <4>4. <<x.raw>> \in Seq(Times)
        <5>1. x.raw \in Times
          BY Zenon
        <5> QED
          BY <5>1, SMT
      <4>5. record[s] \o <<x.raw>> \in Seq(Times)
        BY <3>1, <4>4, ConcatProperties, Zenon
      <4> QED
        BY <3>1, <4>3, <4>5, ConcatProperties, Zenon
    <3> QED
      BY <3>2, <3>3
  <2>3. ReplayTypes'
    <3>1. record' \in [Sources -> Seq(Times)]
      BY <2>1, <2>2, Zenon
    <3>2. pending' \in [Sources -> Fetched]
      BY <2>1, Zenon DEF Fetched
    <3>3. lines' \in [Sources -> Seq(Times)]
      BY <2>1, EmptySeq, Zenon
    <3> QED
      BY <1>1, <3>1, <3>2, <3>3, Zenon DEF ReplayTypes
  <2>4. \A s \in Sources : record'[s] = given[s]
    BY <2>1, Zenon DEF NothingDropped
  <2>5. NothingDropped'
    <3> SUFFICES ASSUME NEW s \in Sources PROVE drained(s)' = given'[s]
      BY Zenon DEF NothingDropped
    <3>1. pending'[s] = {} /\ lines'[s] = <<>> /\ record'[s] \in Seq(Times)
      BY <2>1, <2>3, Zenon DEF ReplayTypes
    <3>2. drained(s)' = record'[s]
      BY <3>1, ConcatEmptySeq, Zenon DEF drained
    <3> QED
      BY <1>1, <2>4, <3>2, Zenon
  <2>6. record' = given
    BY <2>1, <2>4, Zenon DEF ReplayTypes
  <2> QED
    BY <1>2, <2>3, <2>5, <2>6, Zenon
<1>3. CASE UNCHANGED <<returned, record, pending, lines>>
  BY <1>1, <1>3, Zenon DEF ReplayTypes, NothingDropped, drained
<1> QED
  BY <1>2, <1>3, Zenon DEF Poll

\* Where no source has a line left, all was recorded.
LEMMA InputEndDrains ==
  ASSUME ReplayTypes, NothingDropped, \A s \in Sources : Filled(s) = {}
  PROVE  record = given
<1>1. \A s \in Sources : record[s] = given[s]
  <2> SUFFICES ASSUME NEW s \in Sources PROVE record[s] = given[s]
    OBVIOUS
  <2>1. pending[s] = {} /\ lines[s] = <<>>
    BY FilledType, Zenon
  <2>2. record[s] \in Seq(Times)
    BY Zenon DEF ReplayTypes
  <2> QED
    BY <2>1, <2>2, ConcatEmptySeq, Zenon DEF NothingDropped, drained
<1> QED
  <2>1. record \in [Sources -> Seq(Times)] /\ given \in [Sources -> Seq(Times)]
    BY Zenon DEF ReplayTypes
  <2> QED
    BY <1>1, <2>1, SMT

\* Every step of a replay keeps the lines together.
LEMMA ReplayKeepsRecord ==
  ASSUME ReplayTypes, NothingDropped, ReplayNext
  PROVE  ReplayTypes' /\ NothingDropped' /\ RecordIsTheWholeInput'
<1>1. CASE Merge
  <2>1. returned' \notin {"stopped", "eof"} /\ given' = given
    BY <1>1, Zenon DEF Merge
  <2>2. ReplayTypes'
    BY <1>1, MergeKeepsTypes
  <2>3. NothingDropped'
    BY <1>1, <2>1, MergeDropsNothing, Zenon DEF NothingDropped
  <2> QED
    BY <2>1, <2>2, <2>3, Zenon DEF RecordIsTheWholeInput
<1>2. CASE Poll
  <2>1. given' = given
    BY <1>2, Zenon DEF Poll
  <2> QED
    BY <1>2, <2>1, PollDrains, Zenon DEF RecordIsTheWholeInput
<1>3. CASE Dispatch \/ ReplayInterrupt
  <2>1. UNCHANGED <<given, lines, pending, record, last_ts, now, picked, first>>
    BY <1>3, Zenon DEF Dispatch, ReplayInterrupt
  <2>2. returned' \notin {"stopped", "eof"}
    BY <1>3, Zenon DEF Dispatch, ReplayInterrupt
  <2> QED
    BY <2>1, <2>2, Zenon DEF ReplayTypes, NothingDropped, drained, RecordIsTheWholeInput
<1>4. CASE EndOfInput
  <2>1. UNCHANGED <<given, lines, pending, record, last_ts, now, picked, first>>
        /\ \A s \in Sources : Filled(s) = {}
    BY <1>4, Zenon DEF EndOfInput
  <2>2. record' = given'
    BY <2>1, InputEndDrains, Zenon
  <2> QED
    BY <2>1, <2>2, Zenon DEF ReplayTypes, NothingDropped, drained, RecordIsTheWholeInput
<1> QED
  BY <1>1, <1>2, <1>3, <1>4, Zenon DEF ReplayNext

\* What a step of a replay does to the silos, the phase and the end.
LEMMA ReplayStepKinds ==
  ASSUME ReplayNext
  PROVE  /\ UNCHANGED <<supervisorVars, args, lostFor, exits, watched>>
         /\ returned = "running"
         /\ \/ UNCHANGED <<siloVars, endVars>> /\ returned' # "eof"
            \/ tick /\ (returned' = "running" \/ returned' = "stopped")
               /\ (stop' => returned' = "stopped")
            \/ dispatch(picked) /\ returned' = "running"
            \/ returned' = "eof" /\ end_of_input
<1>1. CASE Merge
  BY <1>1, Zenon DEF Merge, noLoop
<1>2. CASE Poll
  <2>1. CASE tick
    BY <1>2, <2>1, Zenon DEF Poll, noLoop
  <2>2. CASE UNCHANGED <<siloVars, endVars>>
    BY <1>2, <2>2, Zenon DEF Poll, noLoop
  <2> QED
    BY <1>2, <2>1, <2>2, Zenon DEF Poll
<1>3. CASE Dispatch
  BY <1>3, Zenon DEF Dispatch, noLoop
<1>4. CASE EndOfInput
  BY <1>4, Zenon DEF EndOfInput, noLoop
<1>5. CASE ReplayInterrupt
  BY <1>5, Zenon DEF ReplayInterrupt, noLoop
<1> QED
  BY <1>1, <1>2, <1>3, <1>4, <1>5, Zenon DEF ReplayNext

\* The end of the input ends the windows.
LEMMA InputEndKeepsStages ==
  ASSUME StageTypes, Stages, ExitStage, ~Over, outcome = "running", end_of_input,
         returned' = "eof", UNCHANGED <<args, outcome>>
  PROVE  StageTypes' /\ Stages' /\ ExitStage' /\ InputEndKeepsLearning'
<1>o. Over' /\ rc # 3
  BY Zenon DEF Over, ExitStage
<1>1. CASE phase = "observe" /\ rc' = 2 /\ UNCHANGED <<siloVars, phase, stop, ended>>
  <2>1. evaluable' = {} /\ phase' = "observe"
    BY <1>1, Zenon DEF siloVars, Stages, ObserveStage
  <2>2. StageTypes'
    BY <1>1, SMT DEF siloVars, StageTypes
  <2>3. Stages'
    BY <1>o, <1>1, SMT DEF siloVars, Stages, ObserveStage, LearnStage, EvaluateStage
  <2>4. ExitStage' /\ InputEndKeepsLearning'
    BY <1>1, <2>1, SMT DEF ExitStage, InputEndKeepsLearning
  <2> QED
    BY <2>2, <2>3, <2>4
<1>2. CASE phase = "learn" /\ _end_learn("input")
  <2>1. StageTypes' /\ Stages'
    BY <1>2, EndLearnKeepsStages, Zenon
  <2>2. rc' # 3
    BY <1>o, <1>2, SMT DEF _end_learn, _start_evaluate, StopWith
  <2>3. ExitStage'
    BY <2>2, Zenon DEF ExitStage
  <2>4. phase' \in {"learn", "evaluate"} /\ rc' # 2 /\ evaluable' # {}
    <3>1. phase' \in {"learn", "evaluate"}
      BY <1>2, Zenon DEF _end_learn, _start_evaluate, StopWith
    <3>2. evaluable' # {}
      BY <1>2, Zenon DEF _end_learn, Stages, LearnStage
    <3> QED
      BY <2>1, <3>1, <3>2, Zenon DEF Stages, LearnStage, EvaluateStage
  <2>5. \A s \in evaluable' : grammar'[s] # "none"
    <3>1. /\ grammar' = [s \in Sources |->
               IF s \notin evaluable \ resumed THEN grammar[s]
               ELSE IF s \in writes THEN "learned" ELSE "empty"]
          /\ evaluable' = evaluable
      BY <1>2, Zenon DEF _end_learn
    <3> QED
      BY <1>2, <3>1, SMT DEF Stages, LearnStage, StageTypes
  <2> QED
    BY <2>1, <2>3, <2>4, <2>5, Zenon DEF InputEndKeepsLearning
<1>3. CASE phase = "evaluate" /\ UNCHANGED <<siloVars, endVars>>
  <2>1. StageTypes' /\ Stages'
    BY <1>3, Zenon DEF siloVars, endVars, StageTypes, Stages, ObserveStage, LearnStage,
         EvaluateStage, EvaluateHasGrammar
  <2>2. ExitStage'
    BY <1>3, Zenon DEF endVars, ExitStage
  <2>3. InputEndKeepsLearning'
    BY <1>3, Zenon DEF siloVars, endVars, InputEndKeepsLearning, Stages, EvaluateStage, EvaluateHasGrammar
  <2> QED
    BY <2>1, <2>2, <2>3
<1> QED
  BY <1>1, <1>2, <1>3, Zenon DEF end_of_input, learn_ends_with_input

\* Every step of a replay.
LEMMA ReplayKeepsStages ==
  ASSUME pc = "until", outcome = "running", picked \in Sources,
         StageTypes, Stages, ExitStage, ReplayNext
  PROVE  StageTypes' /\ Stages' /\ ExitStage' /\ InputEndKeepsLearning'
<1>1. /\ UNCHANGED <<pc, outcome, args>> /\ returned = "running"
      /\ \/ UNCHANGED <<siloVars, endVars>> /\ returned' # "eof"
         \/ tick /\ (returned' = "running" \/ returned' = "stopped")
            /\ (stop' => returned' = "stopped")
         \/ dispatch(picked) /\ returned' = "running"
         \/ returned' = "eof" /\ end_of_input
  BY ReplayStepKinds, Zenon DEF supervisorVars
<1>2. ~Over /\ (Over' <=> returned' # "running") /\ rc # 3
  BY <1>1, Zenon DEF Over, ExitStage
<1>3. CASE UNCHANGED <<siloVars, endVars>> /\ returned' # "eof"
  <2>1. StageTypes' /\ Stages'
    BY <1>1, <1>2, <1>3, Zenon DEF siloVars, endVars, StageTypes, Stages, ObserveStage, LearnStage,
         EvaluateStage, EvaluateHasGrammar
  <2> QED
    BY <1>1, <1>3, <2>1, Zenon DEF endVars, ExitStage, InputEndKeepsLearning
<1>4. CASE /\ tick /\ (returned' = "running" \/ returned' = "stopped")
           /\ stop' => returned' = "stopped"
  <2>1. StageTypes' /\ Stages'
    BY <1>1, <1>2, <1>4, TickKeepsStages, Zenon
  <2>2. rc' # 3
    BY <1>2, <1>4, CodesOfTheWindows, Zenon
  <2> QED
    BY <1>1, <1>4, <2>1, <2>2, Zenon DEF ExitStage, InputEndKeepsLearning
<1>5. CASE dispatch(picked) /\ returned' = "running"
  <2>1. StageTypes' /\ Stages'
    BY <1>1, <1>2, <1>5, DispatchKeepsStages, Zenon
  <2>2. rc' # 3
    BY <1>2, <1>5, CodesOfTheWindows, Zenon
  <2> QED
    BY <1>1, <1>5, <2>1, <2>2, Zenon DEF ExitStage, InputEndKeepsLearning
<1>6. CASE returned' = "eof" /\ end_of_input
  BY <1>1, <1>2, <1>6, InputEndKeepsStages, Zenon
<1> QED
  BY <1>1, <1>3, <1>4, <1>5, <1>6, Zenon

-----------------------------------------------------------------------------
(* The clocks.                                                             *)

ClockTypes ==
  /\ observeLeft \in Int /\ learnLeft \in Int
  /\ lostFor \in [Sources -> Nat] /\ watched \in [Sources -> Nat]
  /\ exits \in 0..MaxExits

\* Time only passes forward.
LEMMA CountedIsNat == ASSUME NEW d \in {0, 1} PROVE Counted(d) \in Nat
  BY SMT DEF Counted

\* An outage that resumed is given back in full.
LEMMA OnResumeKeepsClocks ==
  ASSUME ClockTypes, NEW s \in Sources, OnResume(s)
  PROVE  observeLeft' \in Int /\ learnLeft' \in Int /\ lostFor' \in [Sources -> Nat]
<1>1. lostFor[s] \in Nat
  BY Zenon DEF ClockTypes
<1>2. observeLeft' \in Int /\ learnLeft' \in Int
  <2>1. CASE extend_window(lostFor[s])
    BY <1>1, <2>1, SMT DEF extend_window, ClockTypes
  <2>2. CASE UNCHANGED deadlines
    BY <2>2, SMT DEF deadlines, ClockTypes
  <2> QED
    BY <2>1, <2>2, Zenon DEF OnResume
<1>3. lostFor' \in [Sources -> Nat]
  BY SMT DEF OnResume, ClockTypes
<1> QED
  BY <1>2, <1>3

\* Every step of a live run.
LEMMA RunKeepsClocks == ASSUME ClockTypes, RunNext PROVE ClockTypes'
<1>w. Window \in [Sources -> Nat]
  BY SMT DEF Window, ClockTypes
<1>1. ASSUME NEW s \in Sources, RunWrite(s) PROVE ClockTypes'
  BY <1>1, Zenon DEF RunWrite, sameHistory, deadlines, ClockTypes
<1>2. ASSUME NEW s \in Sources, RunExit(s) PROVE ClockTypes'
  <2>1. exits' \in 0..MaxExits
    BY <1>2, RunAssumption, SMT DEF RunExit, ClockTypes
  <2> QED
    BY <1>2, <2>1, Zenon DEF RunExit, deadlines, ClockTypes
<1>3. CASE RunInterrupt \/ RunFallThrough \/ Turn
  BY <1>3, Zenon DEF RunInterrupt, RunFallThrough, Turn, sameHistory, deadlines, ClockTypes
<1>4. CASE Until
  BY <1>4, <1>w, Zenon DEF Until, deadlines, ClockTypes
<1>5. ASSUME NEW s \in Sources, RunService(s) \/ Crash(s) PROVE ClockTypes'
  BY <1>5, OnResumeKeepsClocks, Zenon DEF RunService, Crash, sameHistory, ClockTypes
<1>6. ASSUME NEW s \in Sources, RunHandle(s) PROVE ClockTypes'
  BY <1>6, <1>w, OnResumeKeepsClocks, Zenon DEF RunHandle, ClockTypes
<1>7. ASSUME NEW d \in {0, 1}, RunSelect(d) PROVE ClockTypes'
  <2>1. Counted(d) \in Nat
    BY CountedIsNat
  <2>2. observeLeft' \in Int /\ learnLeft' \in Int
    BY <1>7, <2>1, SMT DEF RunSelect, ClockTypes
  <2>3. lostFor' \in [Sources -> Nat] /\ watched' \in [Sources -> Nat]
    BY <1>7, <2>1, SMT DEF RunSelect, ClockTypes
  <2> QED
    BY <1>7, <2>2, <2>3, Zenon DEF RunSelect, ClockTypes
<1> QED
  BY <1>1, <1>2, <1>3, <1>4, <1>5, <1>6, <1>7, Zenon DEF RunNext, RunLoop

\* Every step of a replay.
LEMMA ReplayKeepsClocks == ASSUME ClockTypes, ReplayTypes, ReplayNext PROVE ClockTypes'
<1>1. UNCHANGED <<lostFor, exits, watched>>
  BY ReplayStepKinds, Zenon
<1>2. CASE Merge
  <2>1. PICK src \in Sources, line \in [ts : Times, raw : Times] : Moves(src, line)
    BY <1>2, MergeMoves
  <2>2. line.ts \in Times
    BY Zenon
  <2>3. Elapsed(line.ts) \in Int
    BY <2>2, SMT DEF Elapsed, ReplayTypes, Times, Unstamped
  <2>4. observeLeft' \in Int /\ learnLeft' \in Int
    BY <2>1, <2>3, SMT DEF Moves, advance, ClockTypes
  <2> QED
    BY <1>1, <2>4, Zenon DEF ClockTypes
<1>3. CASE Poll \/ Dispatch \/ EndOfInput \/ ReplayInterrupt
  BY <1>1, <1>3, Zenon DEF Poll, Dispatch, EndOfInput, ReplayInterrupt, deadlines, ClockTypes
<1> QED
  BY <1>2, <1>3 DEF ReplayNext

-----------------------------------------------------------------------------
(* The invariant of the observer.                                          *)

\* main runs on one of the two: a live run does not return before its loop, and a
\* replay has no captures that come and go.
OneInput ==
  /\ capture = "live" => returned = "running"
  /\ capture = "replay" => pc = "until" /\ outcome = "running" /\ down = {}

Ran == StageTypes /\ Stages /\ ExitStage /\ InputEndKeepsLearning

Fed == ReplayTypes /\ NothingDropped /\ RecordIsTheWholeInput

\* The inductive invariant of the observer, live or on a replay.
ObserverInv == IInv /\ ClockTypes /\ OneInput /\ Ran /\ Fed

\* The initial states satisfy it.
LEMMA InitObserverInv == ObserverInit => ObserverInv
<1> SUFFICES ASSUME ObserverInit PROVE ObserverInv
  OBVIOUS
<1>1. RunInit /\ ReplayInit
  BY DEF ObserverInit
<1>2. IInv
  BY <1>1, InitIInv DEF RunInit
<1>3. ClockTypes
  BY <1>1, RunAssumption, SMT DEF RunInit, ClockTypes
<1>4. returned = "running" /\ OneInput
  BY <1>1, Zenon DEF RunInit, ReplayInit, Init, OneInput
<1>5. StageTypes /\ Stages /\ ExitStage /\ InputEndKeepsLearning
  <2>1. StageTypes
    <3>1. grammar \in [Sources -> {"none", "empty", "learned", "saved", "file"}]
      BY <1>1, Zenon DEF RunInit
    <3>2. rc \in 0..3
      BY <1>1, SMT DEF RunInit
    <3> QED
      BY <1>1, <3>1, <3>2, Zenon DEF RunInit, StageTypes
  <2>2. Stages
    BY <1>1, SMT DEF RunInit, Stages, ObserveStage, LearnStage, EvaluateStage
  <2>3. ExitStage /\ InputEndKeepsLearning
    BY <1>1, <1>4, SMT DEF RunInit, Init, ExitStage, InputEndKeepsLearning
  <2> QED
    BY <2>1, <2>2, <2>3
<1>6. ReplayTypes
  <2>1. given \in [Sources -> Seq(Times)]
    BY <1>1, ReplayAssumption, Zenon DEF ReplayInit
  <2>2. pending \in [Sources -> Fetched]
    BY <1>1, Zenon DEF ReplayInit, Fetched
  <2>3. record \in [Sources -> Seq(Times)]
    BY <1>1, EmptySeq, Zenon DEF ReplayInit
  <2>4. Unstamped \in Times
    BY Zenon DEF Times
  <2>5. picked \in Sources
    <3>1. Order \in Seq(Sources) /\ ToSet(Order) # {}
      BY ReplayAssumption, SupervisorAssumption, Zenon
    <3>2. Order # <<>>
      <4>1. DOMAIN Order = 1..Len(Order) /\ DOMAIN Order # {}
        BY <3>1, LenProperties, Zenon DEF ToSet
      <4>2. Len(<<>>) = 0
        BY SMT
      <4>3. 1..0 = {}
        BY SMT
      <4> QED
        BY <4>1, <4>2, <4>3, Zenon
    <3>3. Order[1] \in Sources
      BY <3>1, <3>2, SMT
    <3> QED
      BY <1>1, <3>3, Zenon DEF ReplayInit
  <2> QED
    BY <1>1, <2>1, <2>2, <2>3, <2>4, <2>5, Zenon DEF ReplayInit, ReplayTypes
<1>7. NothingDropped
  <2> SUFFICES ASSUME NEW s \in Sources PROVE drained(s) = given[s]
    BY Zenon DEF NothingDropped
  <2>1. pending[s] = {} /\ record[s] = <<>> /\ lines[s] = given[s] /\ given[s] \in Seq(Times)
    BY <1>1, <1>6, Zenon DEF ReplayInit, ReplayTypes
  <2> QED
    BY <2>1, ConcatEmptySeq, Zenon DEF drained
<1>8. RecordIsTheWholeInput
  BY <1>4, Zenon DEF RecordIsTheWholeInput
<1> QED
  BY <1>2, <1>3, <1>4, <1>5, <1>6, <1>7, <1>8, Zenon DEF ObserverInv, Ran, Fed

\* Every step keeps it.
LEMMA StepObserverInv ==
  ASSUME ObserverInv, ObserverNext PROVE ObserverInv' /\ [Next]_supervisorVars
<1>1. CASE capture = "live" /\ RunNext /\ UNCHANGED replayVars
  <2>1. /\ returned = "running" /\ UNCHANGED <<capture, returned, given, record>>
        /\ UNCHANGED <<lines, pending, last_ts, now, picked, first>>
    BY <1>1, Zenon DEF replayVars, ObserverInv, OneInput
  <2>2. [Next]_supervisorVars
    BY <1>1, RunStepsTheLoop
  <2>3. IInv'
    BY <2>2, NextIInv DEF ObserverInv
  <2>4. ClockTypes'
    BY <1>1, RunKeepsClocks DEF ObserverInv
  <2>5. StageTypes' /\ Stages' /\ ExitStage'
    BY <1>1, <2>1, RunKeepsStages, Zenon DEF ObserverInv, Ran
  <2>6. InputEndKeepsLearning' /\ OneInput' /\ RecordIsTheWholeInput'
    BY <1>1, <2>1, Zenon DEF InputEndKeepsLearning, OneInput, RecordIsTheWholeInput
  <2>7. ReplayTypes' /\ NothingDropped'
    BY <2>1, Zenon DEF ObserverInv, Fed, ReplayTypes, NothingDropped, drained
  <2> QED
    BY <2>2, <2>3, <2>4, <2>5, <2>6, <2>7, Zenon DEF ObserverInv, Ran, Fed
<1>2. CASE capture = "replay" /\ ReplayNext
  <2>1. UNCHANGED <<supervisorVars, args, lostFor, exits, watched>>
    BY <1>2, ReplayStepKinds, Zenon
  <2>2. [Next]_supervisorVars /\ IInv'
    <3>1. [Next]_supervisorVars
      BY <2>1, Zenon
    <3> QED
      BY <3>1, NextIInv DEF ObserverInv
  <2>3. ClockTypes'
    BY <1>2, ReplayKeepsClocks DEF ObserverInv, Fed
  <2>4. StageTypes' /\ Stages' /\ ExitStage' /\ InputEndKeepsLearning'
    BY <1>2, ReplayKeepsStages, Zenon DEF ObserverInv, OneInput, Ran, Fed, ReplayTypes
  <2>5. OneInput'
    <3>1. capture' = capture
      BY <1>2, Zenon DEF ReplayNext, Merge, Poll, Dispatch, EndOfInput, ReplayInterrupt
    <3> QED
      BY <1>2, <2>1, <3>1, Zenon DEF supervisorVars, ObserverInv, OneInput
  <2>6. ReplayTypes' /\ NothingDropped' /\ RecordIsTheWholeInput'
    BY <1>2, ReplayKeepsRecord DEF ObserverInv, Fed
  <2> QED
    BY <2>2, <2>3, <2>4, <2>5, <2>6, Zenon DEF ObserverInv, Ran, Fed
<1> QED
  BY <1>1, <1>2 DEF ObserverNext

\* Every step, and none.
LEMMA StepObserverInvStutters ==
  ASSUME ObserverInv, [ObserverNext]_<<runVars, replayVars>> PROVE ObserverInv'
<1>1. CASE ObserverNext
  BY <1>1, StepObserverInv
<1>2. CASE UNCHANGED <<runVars, replayVars>>
  <2>1. IInv'
    BY <1>2, NextIInv, Zenon DEF ObserverInv, runVars
  <2>2. ClockTypes' /\ OneInput'
    BY <1>2, Zenon DEF ObserverInv, ClockTypes, OneInput, runVars, replayVars, supervisorVars, deadlines
  <2>3. Ran'
    BY <1>2, Zenon DEF ObserverInv, Ran, StageTypes, Stages, ObserveStage, LearnStage, EvaluateStage,
         EvaluateHasGrammar, ExitStage, InputEndKeepsLearning, Over, runVars, replayVars,
         supervisorVars, siloVars, endVars
  <2>4. Fed'
    BY <1>2, Zenon DEF ObserverInv, Fed, ReplayTypes, NothingDropped, drained, RecordIsTheWholeInput,
         replayVars
  <2> QED
    BY <2>1, <2>2, <2>3, <2>4 DEF ObserverInv
<1> QED
  BY <1>1, <1>2

\* All that a step of the observer keeps.
LEMMA ObserverInvariant == ObserverSpec => []ObserverInv
  BY InitObserverInv, StepObserverInvStutters, PTL DEF ObserverSpec

-----------------------------------------------------------------------------
(* What the observer promises.                                             *)

\* The whole run, live or on a replay, works on the supervised loop: what that promises
\* (SupervisorProofs) holds of the run.
THEOREM RunIsSupervised == ObserverSpec => Spec
<1>1. ObserverInit => Init
  BY DEF ObserverInit, RunInit
<1>2. ObserverInv /\ [ObserverNext]_<<runVars, replayVars>> => [Next]_supervisorVars
  BY StepObserverInv, Zenon DEF runVars
<1> QED
  BY <1>1, <1>2, ObserverInvariant, PTL DEF ObserverSpec, Spec

\* The attributes of _Run keep their types, for any number of outages and any files.
THEOREM RunTypesCorrect == ObserverSpec => []RunTypeOK
<1>1. ObserverInv => RunTypeOK
  BY Zenon DEF ObserverInv, IInv, Ran, StageTypes, ClockTypes, RunTypes, RunTypeOK
<1> QED
  BY <1>1, ObserverInvariant, PTL

\* Whatever is judged is judged on a grammar, on every command line and whatever way the
\* learning ended, and exit code 2 is left to the run that calibrated nothing.
THEOREM JudgedOnGrammars == ObserverSpec => []JudgedSilosHaveGrammars
<1>1. ObserverInv => JudgedSilosHaveGrammars
  BY Zenon DEF ObserverInv, Ran, Stages, EvaluateStage, EvaluateHasGrammar, JudgedSilosHaveGrammars
<1> QED
  BY <1>1, ObserverInvariant, PTL

\* The exit code of main tells how the run ended, live or on a replay.
THEOREM ExitCodesAreTrue == ObserverSpec => []ExitCodeTellsTheEnd
<1>1. ObserverInv => ExitCodeTellsTheEnd
  <2> SUFFICES ASSUME ObserverInv PROVE ExitCodeTellsTheEnd
    OBVIOUS
  <2>1. ASSUME outcome = "stopped", rc = 0
        PROVE  args.grammar /\ args.learn /\ Cardinality(evaluable) = 1
    <3>1. stop /\ phase = "learn"
      BY <2>1, Zenon DEF ObserverInv, Ran, ExitStage, StageTypes, Stages, ObserveStage, EvaluateStage
    <3> QED
      BY <2>1, <3>1, Zenon DEF ObserverInv, Ran, Stages, LearnStage
  <2> QED
    BY <2>1, Zenon DEF ObserverInv, IInv, Ran, ExitStage, ExitCodeTellsTheEnd
<1> QED
  BY <1>1, ObserverInvariant, PTL

\* A replay that ends by itself recorded its whole input line for line, whatever the files:
\* at every moment a line is on the record, fetched, or not given yet.
THEOREM RecordsAreWhole == ObserverSpec => []RecordIsTheWholeInput
<1>1. ObserverInv => RecordIsTheWholeInput
  BY DEF ObserverInv, Fed
<1> QED
  BY <1>1, ObserverInvariant, PTL

\* What may change the grammars leaves a saved one, and those of evaluate.
Freezes ==
  /\ phase = "evaluate" => phase' = "evaluate" /\ grammar' = grammar /\ writes' = writes
  /\ \A s \in resumed : grammar[s] = "saved" => grammar'[s] = "saved"
  /\ phase = "learn" => phase' # "observe"

\* The end of the learn window freezes.
LEMMA EndLearnFreezes ==
  ASSUME StageTypes, phase = "learn", NEW why, _end_learn(why) PROVE Freezes
<1>1. phase' \in {"learn", "evaluate"}
  BY Zenon DEF _end_learn, _start_evaluate, StopWith
<1>2. \A s \in resumed : grammar'[s] = grammar[s]
  BY Zenon DEF _end_learn, StageTypes
<1> QED
  BY <1>1, <1>2, Zenon DEF Freezes

\* So does every step that the windows, a read or the input's end make.
LEMMA StagesFreeze ==
  ASSUME StageTypes, Stages, ~Over, tick \/ (\E s \in Sources : dispatch(s)) \/ end_of_input
  PROVE  Freezes
<1>1. \/ phase = "learn" /\ \E why \in {"stable", "deadline", "input"} : _end_learn(why)
      \/ phase = "observe"
      \/ UNCHANGED <<phase, grammar>> /\ (phase = "evaluate" => UNCHANGED writes)
  <2>1. CASE tick
    BY <2>1, Zenon DEF tick, MayBeStable, endVars, siloVars
  <2>2. CASE \E s \in Sources : dispatch(s)
    BY <2>2, Zenon DEF dispatch, Learning, MayBeStable, endVars
  <2>3. CASE end_of_input
    BY <2>3, Zenon DEF end_of_input, learn_ends_with_input, endVars, siloVars
  <2> QED
    BY <2>1, <2>2, <2>3
<1>2. CASE phase = "observe"
  BY <1>2, Zenon DEF Stages, ObserveStage, Freezes
<1> QED
  BY <1>1, <1>2, EndLearnFreezes, Zenon DEF Freezes

\* Grammars are frozen in evaluate, a saved grammar is never learned again and no
\* window opens twice, however the run is driven.
THEOREM GrammarsAreFrozen == ObserverSpec => GrammarFrozen
<1>1. ASSUME ObserverInv, ObserverNext PROVE Freezes
  <2>0. StageTypes /\ Stages
    BY <1>1 DEF ObserverInv, Ran
  <2>q. ASSUME UNCHANGED <<phase, grammar, writes>> PROVE Freezes
    BY <2>q, Zenon DEF Freezes
  <2>1. CASE capture = "live" /\ RunNext /\ UNCHANGED replayVars
    <3>1. returned = "running"
      BY <1>1, <2>1, Zenon DEF ObserverInv, OneInput
    <3>2. \/ UNCHANGED <<phase, grammar, writes>>
          \/ pc # "done" /\ (tick \/ \E s \in Sources : dispatch(s))
      BY <2>1, RunStepKinds, Zenon DEF siloVars, endVars
    <3> QED
      BY <2>0, <2>q, <3>1, <3>2, StagesFreeze, Zenon DEF Over
  <2>2. CASE capture = "replay" /\ ReplayNext
    <3>1. \/ UNCHANGED <<phase, grammar, writes>>
          \/ tick \/ dispatch(picked) \/ end_of_input
      BY <2>2, ReplayStepKinds, Zenon DEF siloVars, endVars
    <3>2. ~Over
      BY <1>1, <2>2, ReplayStepKinds, Zenon DEF ObserverInv, OneInput, Over
    <3>3. picked \in Sources
      BY <1>1, Zenon DEF ObserverInv, Fed, ReplayTypes
    <3> QED
      BY <2>0, <2>q, <3>1, <3>2, <3>3, StagesFreeze, Zenon
  <2> QED
    BY <1>1, <2>1, <2>2 DEF ObserverNext
<1>2. ObserverInv /\ [ObserverNext]_<<runVars, replayVars>> => [Freezes]_runVars
  BY <1>1, Zenon
<1> QED
  BY <1>2, ObserverInvariant, PTL DEF ObserverSpec, GrammarFrozen, Freezes

-----------------------------------------------------------------------------
(* The windows of a live run.                                              *)

\* Only an outage that is open has time to give back.
NoLostTime == \A s \in Sources : s \notin down => lostFor[s] = 0

NobodyLost == \A s \in Sources : ~Lost(s)

\* Every capture was watched for what is gone of the observe window, but for the outage
\* it is in; and the learn window begins where this one ends.
ObserveCounted ==
  phase = "observe" =>
    /\ learnLeft = observeLeft + Learn
    /\ \A s \in Sources : Lost(s) \/ watched[s] >= Observe
                          \/ observeLeft + watched[s] + lostFor[s] >= Observe

\* The exits nobody read yet, and how many were read.
Unseen == {s \in registered : child[s] = "exited"}
Deaths == exits - Cardinality(Unseen)

\* Every outage makes the observe window at most one poll late: it closes at the first
\* poll that finds no outage.
ObserveLate ==
  pc # "done" =>
    /\ Deaths >= 0
    /\ phase = "observe" /\ NobodyLost =>
        IF down = {} THEN observeLeft >= (IF pc \in {"service", "select"} THEN 1 ELSE 0) - Deaths
        ELSE \E s \in down : observeLeft + lostFor[s] >= 1 - Deaths

\* The learn window is as late as the observe window left it.
LearnCounted ==
  phase = "learn" /\ NobodyLost =>
    \A s \in Sources : watched[s] >= Learn - exits
                       \/ learnLeft + watched[s] + lostFor[s] >= Learn - exits

WindowInv ==
  /\ IInv /\ ClockTypes /\ phase \in {"observe", "learn", "evaluate"}
  /\ NoLostTime /\ ObserveCounted /\ ObserveLate /\ LearnCounted

\* A step about one source leaves the outages of the others alone, ends one only by
\* resuming or giving up, and starts one only at an EOF.
LEMMA OutageOfOne ==
  ASSUME IInv, NEW s \in Sources, service(s) \/ Handle(s) \/ Raise(s)
  PROVE  /\ \A r \in Sources \ {s} : (r \in down' <=> r \in down) /\ event'[r] = event[r]
         /\ s \in down /\ s \notin down' => event'[s] \in {"resumed", "permanently_lost"}
         /\ s \notin down /\ s \in down' => pc = "handle" /\ ReadEOF(s)
<1> DEFINE Others == \A r \in Sources \ {s} : (r \in down' <=> r \in down) /\ event'[r] = event[r]
           Ends == s \in down /\ s \notin down' => event'[s] \in {"resumed", "permanently_lost"}
<1>d. ASSUME note_death(s) PROVE Others /\ Ends
  BY <1>d, DeathRecorded, Zenon DEF IInv
<1>r. ASSUME _resume(s) PROVE Others /\ Ends /\ s \notin down'
  BY <1>r, ResumeRecorded, Zenon DEF IInv
<1>q. ASSUME UNCHANGED <<down, event>> PROVE Others /\ Ends /\ ~(s \notin down /\ s \in down')
  BY <1>q, Zenon
<1>m. ASSUME mark_alive(s) PROVE Others /\ Ends /\ ~(s \notin down /\ s \in down')
  BY <1>m, <1>r, <1>q, Zenon DEF mark_alive, outage
<1>1. CASE service(s)
  <2>0. s \in down
    BY <1>1, Zenon DEF service, IInv, PassInv
  <2>1. CASE launch_fails(s)
    BY <2>0, <2>1, <1>d, Zenon DEF launch_fails
  <2>2. CASE survived(s)
    BY <2>2, <1>r, Zenon DEF survived
  <2>3. CASE respawn(s) \/ not_due(s)
    BY <2>3, <1>q, Zenon DEF respawn, not_due, outage
  <2> QED
    BY <1>1, <2>1, <2>2, <2>3 DEF service
<1>2. CASE Handle(s)
  <2>1. CASE ReadBytes(s)
    BY <2>1, <1>m, Zenon DEF ReadBytes
  <2>2. CASE ReadEOF(s)
    BY <1>2, <2>2, <1>d, Zenon DEF ReadEOF, Handle
  <2> QED
    BY <1>2, <2>1, <2>2 DEF Handle
<1>3. CASE Raise(s)
  BY <1>3, <1>m, Zenon DEF Raise
<1> QED
  BY <1>1, <1>2, <1>3

\* There are finitely many exits nobody read.
LEMMA UnseenIsFinite == ASSUME TypeOK PROVE IsFiniteSet(Unseen) /\ Cardinality(Unseen) \in Nat
<1>1. Unseen \subseteq Sources
  BY Zenon DEF TypeOK, Unseen
<1> QED
  BY <1>1, SupervisorAssumption, FS_Subset, FS_CardinalityType

\* A step about one source reads one exit where it starts an outage, and loses none.
LEMMA DeathsAreRead ==
  ASSUME IInv, NEW s \in Sources, service(s) \/ Handle(s)
  PROVE  /\ Cardinality(Unseen)' \in Nat /\ Cardinality(Unseen)' <= Cardinality(Unseen)
         /\ s \notin down /\ s \in down' => Cardinality(Unseen)' = Cardinality(Unseen) - 1
<1>0. TypeOK /\ IsFiniteSet(Unseen) /\ Cardinality(Unseen) \in Nat
  BY UnseenIsFinite DEF IInv
<1>1. CASE ReadEOF(s) /\ Handle(s)
  <2>1. s \in Unseen
    BY <1>1, Zenon DEF ReadEOF, Handle, IInv, PassInv, Unseen
  <2>2. Unseen' = Unseen \ {s}
    BY <1>1, Zenon DEF ReadEOF, children, Unseen
  <2>3. Cardinality(Unseen \ {s}) = Cardinality(Unseen) - 1
    BY <1>0, <2>1, FS_RemoveElement, Zenon
  <2>4. Cardinality(Unseen \ {s}) \in Nat
    BY <1>0, FS_RemoveElement, FS_CardinalityType, Zenon
  <2>5. Cardinality(Unseen)' = Cardinality(Unseen \ {s})
    BY <2>2, Zenon
  <2> QED
    BY <1>0, <2>3, <2>4, <2>5, SMT
<1>2. CASE service(s) \/ ReadBytes(s)
  <2>1. Unseen' = Unseen
    <3>1. CASE respawn(s)
      <4>1. s \notin registered /\ s \in down
        BY <3>1, Zenon DEF respawn, IInv, NoSourceForgotten
      <4>2. child' = [child EXCEPT ![s] = "up"] /\ registered' = registered \union {s}
        BY <3>1, Zenon DEF respawn
      <4>3. child'[s] = "up" /\ \A r \in Sources \ {s} : child'[r] = child[r]
        BY <1>0, <4>2, Zenon DEF TypeOK
      <4>4. registered \subseteq Sources
        BY <1>0, Zenon DEF TypeOK
      <4>5. "up" # "exited"
        OBVIOUS
      <4> QED
        BY <4>1, <4>2, <4>3, <4>4, <4>5, SMT DEF Unseen
    <3>2. CASE UNCHANGED <<child, registered>>
      BY <3>2, Zenon DEF Unseen
    <3> QED
      BY <1>2, <3>1, <3>2, Zenon DEF service, launch_fails, survived, not_due, ReadBytes
  <2>2. ~(s \notin down /\ s \in down')
    <3>1. CASE service(s)
      BY <3>1, Zenon DEF service, IInv, PassInv
    <3>2. CASE ReadBytes(s)
      BY <3>2, OutageOfOne, Zenon DEF ReadBytes, ReadEOF
    <3> QED
      BY <1>2, <3>1, <3>2
  <2>3. Cardinality(Unseen)' = Cardinality(Unseen)
    BY <2>1, Zenon
  <2> QED
    BY <1>0, <2>2, <2>3, SMT
<1> QED
  BY <1>1, <1>2, Zenon DEF Handle

\* The time given back: to the windows, and for every outage that is over.
GivesBack(g) ==
  /\ observeLeft' = IF phase = "observe" THEN observeLeft + g ELSE observeLeft
  /\ learnLeft' = IF phase # "evaluate" THEN learnLeft + g ELSE learnLeft
  /\ \A r \in Sources : Lost(r)' \/ g + lostFor'[r] >= lostFor[r]

\* extend_window gives an outage that is over all its time back.
LEMMA OutagesAreGivenBack ==
  ASSUME IInv, ClockTypes, NoLostTime, NEW s \in Sources, service(s) \/ Handle(s) \/ Raise(s), OnResume(s)
  PROVE  NoLostTime' /\ \E g \in Nat : GivesBack(g)
<1>1. /\ \A r \in Sources \ {s} : (r \in down' <=> r \in down) /\ event'[r] = event[r]
      /\ s \in down /\ s \notin down' => event'[s] \in {"resumed", "permanently_lost"}
  BY OutageOfOne, Zenon
<1>2. lostFor' = IF s \in down /\ s \in down' THEN lostFor ELSE [lostFor EXCEPT ![s] = 0]
  BY Zenon DEF OnResume
<1>3. /\ \A r \in Sources \ {s} : lostFor'[r] = lostFor[r]
      /\ lostFor'[s] = IF s \in down /\ s \in down' THEN lostFor[s] ELSE 0
  BY <1>2, SMT DEF ClockTypes
<1>4. NoLostTime'
  BY <1>1, <1>3, Zenon DEF NoLostTime
<1>5. \A r \in Sources : lostFor[r] \in Nat
  BY Zenon DEF ClockTypes
<1>6. CASE s \in down /\ s \notin down' /\ event'[s] = "resumed"
  <2>1. extend_window(lostFor[s])
    BY <1>6, Zenon DEF OnResume
  <2>2. GivesBack(lostFor[s])
    BY <1>3, <1>5, <1>6, <2>1, SMT DEF extend_window, GivesBack
  <2> QED
    BY <1>4, <1>5, <2>2, Zenon
<1>7. CASE ~(s \in down /\ s \notin down' /\ event'[s] = "resumed")
  <2>1. UNCHANGED <<observeLeft, learnLeft>>
    BY <1>7, Zenon DEF OnResume, deadlines
  <2>2. Lost(s)' \/ lostFor'[s] = lostFor[s]
    BY <1>1, <1>3, <1>7, Zenon DEF NoLostTime, Lost
  <2>3. GivesBack(0)
    BY <1>3, <1>5, <2>1, <2>2, SMT DEF GivesBack, ClockTypes
  <2> QED
    BY <1>4, <2>3, SMT
<1> QED
  BY <1>6, <1>7

\* A source that is given up stays so.
LEMMA LostStaysLost ==
  ASSUME IInv, [Next]_supervisorVars PROVE \A s \in Sources : Lost(s) => Lost(s)'
  BY StepTells, Zenon DEF Tells, Lost

\* A step about one source keeps the count.
LEMMA SourceKeepsWindows ==
  ASSUME WindowInv, IInv', ClockTypes', [Next]_supervisorVars,
         NEW s \in Sources, service(s) \/ Handle(s) \/ (Raise(s) /\ pc' = "done"), OnResume(s),
         exits' = exits, pc' \in {pc, "done"},
         \/ phase' = phase /\ watched' = watched
         \/ phase' = "evaluate"
  PROVE  WindowInv'
<1>0. /\ IInv /\ ClockTypes /\ phase \in {"observe", "learn", "evaluate"}
      /\ NoLostTime /\ ObserveCounted /\ ObserveLate /\ LearnCounted
  BY DEF WindowInv
<1>1. NoLostTime' /\ \E g \in Nat : GivesBack(g)
  BY <1>0, OutagesAreGivenBack
<1>2. PICK g \in Nat : GivesBack(g)
  BY <1>1
<1>3. \A r \in Sources : Lost(r) => Lost(r)'
  BY <1>0, LostStaysLost
<1>4. \A r \in Sources : lostFor[r] \in Nat /\ lostFor'[r] \in Nat /\ watched[r] \in Nat
  BY <1>0, Zenon DEF ClockTypes
<1>5. observeLeft \in Int /\ learnLeft \in Int /\ exits \in Nat /\ Observe \in Nat /\ Learn \in Nat
  BY <1>0, RunAssumption, SMT DEF ClockTypes
<1>6. ObserveCounted'
  BY <1>0, <1>2, <1>3, <1>4, <1>5, SMT DEF ObserveCounted, GivesBack
<1>7. LearnCounted'
  BY <1>0, <1>2, <1>3, <1>4, <1>5, SMT DEF LearnCounted, NobodyLost, GivesBack
<1>8. ObserveLate'
  <2> SUFFICES ASSUME pc' # "done" PROVE ObserveLate'
    BY Zenon DEF ObserveLate
  <2>0. pc # "done" /\ pc' = pc /\ (service(s) \/ Handle(s))
    BY <1>0, Zenon DEF service, Handle
  <2>1. /\ Cardinality(Unseen) \in Nat /\ Cardinality(Unseen)' \in Nat
        /\ Cardinality(Unseen)' <= Cardinality(Unseen)
        /\ s \notin down /\ s \in down' => Cardinality(Unseen)' = Cardinality(Unseen) - 1
    BY <1>0, <2>0, DeathsAreRead, UnseenIsFinite, Zenon DEF IInv
  <2>2. Deaths \in Int /\ Deaths' \in Int /\ Deaths' >= Deaths /\ Deaths >= 0
    BY <1>0, <1>5, <2>0, <2>1, SMT DEF Deaths, ObserveLate
  <2>3. s \notin down /\ s \in down' => pc = "handle" /\ Deaths' = Deaths + 1
    BY <1>0, <1>5, <2>0, <2>1, OutageOfOne, SMT DEF Deaths
  <2>d. /\ \A r \in Sources \ {s} : r \in down' <=> r \in down
        /\ down \subseteq Sources /\ down' \subseteq Sources
    BY <1>0, OutageOfOne, Zenon DEF IInv, TypeOK
  <2> HIDE DEF Deaths
  <2>4. ASSUME phase' = "observe", NobodyLost'
        PROVE  IF down' = {} THEN observeLeft' >= (IF pc' \in {"service", "select"} THEN 1 ELSE 0) - Deaths'
               ELSE \E r \in down' : observeLeft' + lostFor'[r] >= 1 - Deaths'
    <3>1. phase = "observe" /\ NobodyLost
      BY <1>3, <2>4, Zenon DEF NobodyLost
    <3>2. observeLeft' = observeLeft + g /\ \A r \in Sources : g + lostFor'[r] >= lostFor[r]
      BY <1>2, <2>4, <3>1, Zenon DEF GivesBack, NobodyLost
    <3>3. CASE down = {}
      <4>1. observeLeft >= (IF pc \in {"service", "select"} THEN 1 ELSE 0) - Deaths
        BY <1>0, <2>0, <3>1, <3>3, Zenon DEF ObserveLate
      <4>2. CASE down' = {}
        BY <1>5, <2>0, <2>2, <3>2, <4>1, <4>2, SMT
      <4>3. CASE down' # {}
        <5>1. s \in down' /\ pc = "handle" /\ Deaths' = Deaths + 1
          BY <2>3, <2>d, <3>3, <4>3, Zenon
        <5>2. observeLeft' + lostFor'[s] >= 1 - Deaths'
          BY <1>4, <1>5, <2>2, <3>2, <4>1, <5>1, SMT
        <5> QED
          BY <4>3, <5>1, <5>2, Zenon
      <4> QED
        BY <4>2, <4>3
    <3>4. CASE down # {}
      <4>1. PICK r \in down : observeLeft + lostFor[r] >= 1 - Deaths
        BY <1>0, <2>0, <3>1, <3>4, Zenon DEF ObserveLate
      <4>2. r \in Sources /\ observeLeft' + lostFor'[r] >= 1 - Deaths'
        BY <1>4, <1>5, <2>2, <2>d, <3>2, <4>1, SMT
      <4>3. CASE r \in down'
        BY <4>2, <4>3, Zenon
      <4>4. CASE r \notin down'
        <5>1. lostFor'[r] = 0
          BY <1>1, <4>2, <4>4, Zenon DEF NoLostTime
        <5>2. observeLeft' \in Int /\ observeLeft' >= 1 - Deaths'
          BY <1>5, <3>2, <4>2, <5>1, SMT
        <5>3. PICK d \in Int : d = Deaths'
          BY <2>2, Zenon
        <5>i. observeLeft' \in Int /\ observeLeft' >= 1 - d
          BY <5>2, <5>3, Zenon
        <5>4. ASSUME NEW q \in down' PROVE observeLeft' + lostFor'[q] >= 1 - Deaths'
          <6>1. lostFor'[q] \in Nat
            BY <1>4, <2>d, Zenon
          <6>2. observeLeft' + lostFor'[q] >= 1 - d
            BY <5>i, <6>1, SMT
          <6> QED
            BY <5>3, <6>2, Zenon
        <5>5. observeLeft' >= (IF pc' \in {"service", "select"} THEN 1 ELSE 0) - Deaths'
          <6>1. observeLeft' >= 1 - d /\ observeLeft' >= 0 - d
            BY <5>i, SMT
          <6> QED
            BY <5>3, <6>1, Zenon
        <5> QED
          BY <5>4, <5>5, Zenon
      <4> QED
        BY <4>3, <4>4
    <3> QED
      BY <3>3, <3>4
  <2>5. Deaths' >= 0
    BY <2>2, SMT
  <2> QED
    BY <2>4, <2>5, Zenon DEF ObserveLate
<1> QED
  BY <1>0, <1>1, <1>6, <1>7, <1>8, Zenon DEF WindowInv

\* What a poll of until() makes of the windows.
LEMMA TickKinds ==
  ASSUME tick
  PROVE  \/ /\ phase = "learn" /\ phase' # "observe" /\ (phase' = "learn" => stop')
            /\ \/ ended' = "stable"
               \/ learnLeft <= 0 /\ down = {}
         \/ phase = "observe" /\ observeLeft <= 0 /\ down = {} /\ (phase' = "observe" => stop')
         \/ /\ UNCHANGED <<phase, stop>>
            /\ phase = "observe" => observeLeft > 0 \/ down # {}
            /\ phase = "learn" => learnLeft > 0 \/ down # {}
<1>1. ASSUME NEW why, phase = "learn", _end_learn(why)
      PROVE  phase' # "observe" /\ (phase' = "learn" => stop') /\ ended' = why
  BY <1>1, Zenon DEF _end_learn, _start_evaluate, StopWith
<1>2. ASSUME NEW found, _end_observe(found) PROVE phase' = "observe" => stop'
  BY <1>2, Zenon DEF _end_observe, _start_evaluate, StopWith
<1>3. CASE MayBeStable /\ _end_learn("stable")
  BY <1>1, <1>3, Zenon DEF MayBeStable
<1>4. CASE phase = "observe" /\ observeLeft <= 0 /\ ~degraded /\ \E found \in SUBSET obs : _end_observe(found)
  BY <1>2, <1>4, Zenon DEF degraded
<1>5. CASE phase = "learn" /\ learnLeft <= 0 /\ ~degraded /\ _end_learn("deadline")
  BY <1>1, <1>5, Zenon DEF degraded
<1>6. CASE /\ phase = "observe" => observeLeft > 0 \/ degraded
           /\ phase = "learn" => learnLeft > 0 \/ degraded
           /\ UNCHANGED <<endVars, siloVars>>
  BY <1>6, Zenon DEF degraded, endVars
<1> QED
  BY <1>3, <1>4, <1>5, <1>6, Zenon DEF tick

\* A poll of until() keeps the count: it leaves the observe window in time.
LEMMA UntilKeepsWindows ==
  ASSUME WindowInv, IInv', ClockTypes', phase' \in {"observe", "learn", "evaluate"}, Until
  PROVE  WindowInv'
<1>0. /\ IInv /\ ClockTypes /\ phase \in {"observe", "learn", "evaluate"}
      /\ NoLostTime /\ ObserveCounted /\ ObserveLate /\ LearnCounted
  BY DEF WindowInv
<1>1. /\ UNCHANGED <<observeLeft, learnLeft, lostFor, exits>> /\ pc = "until"
      /\ UNCHANGED <<down, event>>
      /\ tick /\ watched' = Window
      /\ (pc' = "service" /\ ~stop' /\ UNCHANGED <<child, registered>>) \/ pc' = "done"
  BY Zenon DEF Until, StartService, Leave, KillAll, outage, children, deadlines
<1>2. phase' # phase \/ watched' = watched
  BY <1>1, Zenon DEF Window
<1>3. phase' = "observe" => phase = "observe"
  BY <1>0, <1>1, TickKinds, Zenon
<1>i. /\ observeLeft \in Int /\ learnLeft \in Int /\ exits \in Nat /\ Observe \in Nat /\ Learn \in Nat
      /\ lostFor \in [Sources -> Nat]
  BY <1>0, RunAssumption, SMT DEF ClockTypes
<1>4. NoLostTime' /\ ObserveCounted'
  BY <1>0, <1>1, <1>2, <1>3, Zenon DEF NoLostTime, ObserveCounted, Lost
<1>n. Deaths \in Int /\ Deaths <= exits /\ Deaths >= 0
  <2>1. Cardinality(Unseen) \in Nat
    BY <1>0, UnseenIsFinite DEF IInv
  <2>2. Deaths >= 0
    BY <1>0, <1>1, Zenon DEF ObserveLate
  <2> QED
    BY <1>i, <2>1, <2>2, SMT DEF Deaths
<1>5. LearnCounted'
  <2> SUFFICES ASSUME phase' = "learn", NobodyLost'
               PROVE  \A s \in Sources : watched'[s] >= Learn - exits
                                         \/ learnLeft + watched'[s] + lostFor[s] >= Learn - exits
    BY <1>1, Zenon DEF LearnCounted
  <2>0. NobodyLost
    BY <1>1, Zenon DEF NobodyLost, Lost
  <2>1. CASE phase = "learn"
    BY <1>0, <1>2, <2>0, <2>1, Zenon DEF LearnCounted
  <2>2. CASE phase = "observe"
    <3>1. observeLeft <= 0 /\ down = {}
      BY <1>1, <2>2, TickKinds, Zenon
    <3>2. observeLeft >= 0 - Deaths /\ learnLeft = observeLeft + Learn
      BY <1>0, <1>1, <2>0, <2>2, <3>1, Zenon DEF ObserveLate, ObserveCounted
    <3>3. learnLeft >= Learn - exits
      <4> HIDE DEF Deaths
      <4> QED
        BY <1>i, <1>n, <3>2, SMT
    <3>4. watched' = [s \in Sources |-> 0]
      BY <1>1, <2>2, Zenon DEF Window
    <3> QED
      BY <1>i, <3>3, <3>4, SMT
  <2>3. phase \in {"observe", "learn"}
    BY <1>0, <1>1, TickKinds, Zenon
  <2> QED
    BY <2>1, <2>2, <2>3
<1>6. ObserveLate'
  <2> SUFFICES ASSUME pc' # "done"
               PROVE  ObserveLate'
    BY Zenon DEF ObserveLate
  <2>1. pc' = "service" /\ ~stop' /\ Deaths' = Deaths
    BY <1>1, Zenon DEF Deaths, Unseen
  <2>2. ASSUME phase' = "observe", NobodyLost', down = {} PROVE observeLeft >= 1 - Deaths
    <3>1. observeLeft > 0
      BY <1>1, <1>3, <2>1, <2>2, TickKinds, Zenon
    <3> HIDE DEF Deaths
    <3> QED
      BY <1>i, <1>n, <3>1, SMT
  <2>3. ASSUME phase' = "observe", NobodyLost', down # {}
        PROVE  \E s \in down : observeLeft + lostFor[s] >= 1 - Deaths
    <3>1. NobodyLost
      BY <1>1, <2>3, Zenon DEF NobodyLost, Lost
    <3> QED
      BY <1>0, <1>1, <1>3, <2>3, <3>1, Zenon DEF ObserveLate
  <2>4. /\ phase' = "observe" /\ NobodyLost' =>
             IF down' = {} THEN observeLeft' >= (IF pc' \in {"service", "select"} THEN 1 ELSE 0) - Deaths'
             ELSE \E s \in down' : observeLeft' + lostFor'[s] >= 1 - Deaths'
        /\ Deaths' >= 0
    BY <1>1, <1>n, <2>1, <2>2, <2>3, Zenon
  <2> QED
    BY <2>4, Zenon DEF ObserveLate
<1> QED
  BY <1>0, <1>4, <1>5, <1>6, Zenon DEF WindowInv

\* Time that passes in select counts for the captures that are up, and against the others.
LEMMA SelectKeepsWindows ==
  ASSUME WindowInv, IInv', ClockTypes', NEW d \in {0, 1}, RunSelect(d)
  PROVE  WindowInv'
<1>0. /\ IInv /\ ClockTypes /\ phase \in {"observe", "learn", "evaluate"}
      /\ NoLostTime /\ ObserveCounted /\ ObserveLate /\ LearnCounted
  BY DEF WindowInv
<1>1. /\ UNCHANGED <<phase, exits, down, event, child, registered>>
      /\ pc = "select" /\ pc' = "handle"
  BY Zenon DEF RunSelect, Select, children, endVars
<1> DEFINE c == Counted(d)
<1>2. /\ observeLeft' = IF phase = "observe" THEN observeLeft - c ELSE observeLeft
      /\ learnLeft' = IF phase # "evaluate" THEN learnLeft - c ELSE learnLeft
      /\ \A s \in Sources : /\ lostFor'[s] = IF s \in down THEN lostFor[s] + c ELSE 0
                            /\ watched'[s] = IF s \in down \/ phase = "evaluate" \/ watched[s] >= Observe + Learn
                                             THEN watched[s] ELSE watched[s] + c
  BY Zenon DEF RunSelect
<1>3. c \in 0..1
  BY SMT DEF Counted
<1> HIDE DEF c
<1>i. /\ observeLeft \in Int /\ learnLeft \in Int /\ exits \in Nat /\ Observe \in Nat /\ Learn \in Nat
      /\ \A s \in Sources : lostFor[s] \in Nat /\ watched[s] \in Nat
  BY <1>0, RunAssumption, SMT DEF ClockTypes
<1>4. NoLostTime'
  BY <1>1, <1>2, Zenon DEF NoLostTime
<1>5. ObserveCounted'
  BY <1>0, <1>1, <1>2, <1>3, <1>i, SMT DEF ObserveCounted, NoLostTime, Lost
<1>6. LearnCounted'
  BY <1>0, <1>1, <1>2, <1>3, <1>i, SMT DEF LearnCounted, NobodyLost, NoLostTime, Lost
<1>7. ObserveLate'
  <2>1. Deaths' = Deaths
    BY <1>1, Zenon DEF Deaths, Unseen
  <2>2. Deaths \in Int /\ Deaths >= 0
    <3>1. Cardinality(Unseen) \in Nat
      BY <1>0, UnseenIsFinite DEF IInv
    <3>2. Deaths >= 0
      BY <1>0, <1>1, Zenon DEF ObserveLate
    <3> QED
      BY <1>i, <3>1, <3>2, SMT DEF Deaths
  <2>3. PICK n \in Int : n = Deaths
    BY <2>2
  <2>4. ASSUME phase = "observe", NobodyLost, down = {} PROVE observeLeft' >= 0 - n
    <3>1. observeLeft >= 1 - n
      BY <1>0, <1>1, <2>3, <2>4, Zenon DEF ObserveLate
    <3> QED
      BY <1>2, <1>3, <1>i, <2>4, <3>1, SMT
  <2>5. ASSUME phase = "observe", NobodyLost, down # {}
        PROVE  \E s \in down : observeLeft' + lostFor'[s] >= 1 - n
    <3>1. PICK s \in down : observeLeft + lostFor[s] >= 1 - n
      BY <1>0, <1>1, <2>3, <2>5, Zenon DEF ObserveLate
    <3>2. s \in Sources
      BY <1>0, Zenon DEF IInv, TypeOK
    <3>3. observeLeft' + lostFor'[s] >= 1 - n
      BY <1>2, <1>3, <1>i, <2>5, <3>1, <3>2, SMT
    <3> QED
      BY <3>3, Zenon
  <2>6. NobodyLost' <=> NobodyLost
    BY <1>1, Zenon DEF NobodyLost, Lost
  <2> QED
    BY <1>1, <2>1, <2>2, <2>3, <2>4, <2>5, <2>6, Zenon DEF ObserveLate
<1> QED
  BY <1>0, <1>1, <1>4, <1>5, <1>6, <1>7, Zenon DEF WindowInv

\* An exit counts as a death only when it is read.
LEMMA ExitIsUnseen ==
  ASSUME IInv, ClockTypes, NEW s \in Sources, RunExit(s)
  PROVE  exits' = exits + 1 /\ Deaths' = Deaths /\ pc' = pc
<1>i. exits \in Nat /\ TypeOK
  BY SMT DEF ClockTypes, IInv
<1>1. exits' = exits + 1 /\ pc' = pc /\ registered' = registered
      /\ child[s] = "up" /\ s \in registered /\ child' = [child EXCEPT ![s] = "exited"]
  BY Zenon DEF RunExit, Exit, loop
<1>2. Unseen' = Unseen \union {s} /\ s \notin Unseen
  <2>1. child'[s] = "exited" /\ \A r \in Sources \ {s} : child'[r] = child[r]
    BY <1>i, <1>1, Zenon DEF TypeOK
  <2>2. registered \subseteq Sources
    BY <1>i, Zenon DEF TypeOK
  <2>3. "up" # "exited"
    OBVIOUS
  <2> QED
    BY <1>1, <2>1, <2>2, <2>3, SMT DEF Unseen
<1>3. Cardinality(Unseen)' = Cardinality(Unseen) + 1 /\ Cardinality(Unseen) \in Nat
  <2>1. Cardinality(Unseen \union {s}) = Cardinality(Unseen) + 1
    BY <1>i, <1>2, UnseenIsFinite, FS_AddElement, Zenon
  <2> QED
    BY <1>i, <1>2, <2>1, UnseenIsFinite, Zenon
<1> QED
  BY <1>i, <1>1, <1>3, SMT DEF Deaths

\* The children, the turns of the loop and its end leave the count alone: an exit is
\* counted where it is read.
LEMMA OthersKeepWindows ==
  ASSUME WindowInv, IInv', ClockTypes',
         \/ \E s \in Sources : RunWrite(s) \/ RunExit(s)
         \/ RunInterrupt \/ RunFallThrough \/ Turn
         \/ UNCHANGED runVars
  PROVE  WindowInv'
<1>0. /\ IInv /\ ClockTypes /\ phase \in {"observe", "learn", "evaluate"}
      /\ NoLostTime /\ ObserveCounted /\ ObserveLate /\ LearnCounted
  BY DEF WindowInv
<1>i. exits \in Nat /\ learnLeft \in Int /\ Learn \in Nat /\ TypeOK
      /\ \A s \in Sources : lostFor[s] \in Nat /\ watched[s] \in Nat
  BY <1>0, RunAssumption, SMT DEF ClockTypes, IInv
<1>1. UNCHANGED <<observeLeft, learnLeft, lostFor, watched, phase, down, event>>
  BY Zenon DEF RunWrite, RunExit, RunInterrupt, RunFallThrough, Turn, sameHistory, deadlines, endVars,
       Write, Exit, Interrupt, FallThrough, Leave, EndService, EndHandle, outage, runVars, supervisorVars
<1>2. NoLostTime' /\ ObserveCounted'
  BY <1>0, <1>1, Zenon DEF NoLostTime, ObserveCounted, Lost
<1>3. ASSUME NEW s \in Sources, RunExit(s)
      PROVE  exits' = exits + 1 /\ Deaths' = Deaths /\ pc' = pc
  BY <1>0, <1>3, ExitIsUnseen
<1>4. ASSUME NEW s \in Sources, RunWrite(s)
      PROVE  exits' = exits /\ Deaths' = Deaths /\ pc' = pc
  BY <1>4, Zenon DEF RunWrite, Write, sameHistory, loop, Deaths, Unseen
<1>5. ASSUME Turn
      PROVE  /\ exits' = exits /\ Deaths' = Deaths
             /\ pc' \in {"select", "until"} /\ (pc' = "select" => pc = "service") /\ pc # "done"
  BY <1>5, Zenon DEF Turn, EndService, EndHandle, children, sameHistory, Deaths, Unseen
<1>6. ASSUME RunInterrupt \/ RunFallThrough
      PROVE  exits' = exits /\ pc' = "done"
  BY <1>6, Zenon DEF RunInterrupt, RunFallThrough, Interrupt, FallThrough, Leave, KillAll, sameHistory
<1>7. ASSUME UNCHANGED runVars
      PROVE  exits' = exits /\ Deaths' = Deaths /\ pc' = pc
  BY <1>7, Zenon DEF runVars, supervisorVars, Deaths, Unseen
<1>8. LearnCounted'
  <2>1. exits' = exits \/ exits' = exits + 1
    BY <1>3, <1>4, <1>5, <1>6, <1>7, Zenon
  <2> QED
    BY <1>0, <1>1, <1>i, <2>1, SMT DEF LearnCounted, NobodyLost, Lost
<1>9. ObserveLate'
  <2> SUFFICES ASSUME pc' # "done" PROVE ObserveLate'
    BY Zenon DEF ObserveLate
  <2>1. Deaths' = Deaths /\ pc # "done" /\ (pc' \in {"service", "select"} => pc \in {"service", "select"})
    BY <1>3, <1>4, <1>5, <1>6, <1>7, Zenon
  <2>2. NobodyLost' <=> NobodyLost
    BY <1>1, Zenon DEF NobodyLost, Lost
  <2>3. Deaths \in Int
    <3>1. Cardinality(Unseen) \in Nat
      BY <1>i, UnseenIsFinite
    <3> QED
      BY <1>i, <3>1, SMT DEF Deaths
  <2>4. PICK n \in Int : n = Deaths
    BY <2>3
  <2>5. n >= 0
    BY <1>0, <2>1, <2>4, Zenon DEF ObserveLate
  <2>6. ASSUME phase = "observe", NobodyLost, down = {}
        PROVE  observeLeft >= (IF pc' \in {"service", "select"} THEN 1 ELSE 0) - n
    <3>1. observeLeft >= (IF pc \in {"service", "select"} THEN 1 ELSE 0) - n /\ observeLeft \in Int
      BY <1>0, <2>1, <2>4, <2>6, Zenon DEF ObserveLate, ClockTypes
    <3> QED
      BY <2>1, <3>1, SMT
  <2>7. ASSUME phase = "observe", NobodyLost, down # {}
        PROVE  \E s \in down : observeLeft + lostFor[s] >= 1 - n
    BY <1>0, <2>1, <2>4, <2>7, Zenon DEF ObserveLate
  <2> QED
    BY <1>1, <2>1, <2>2, <2>4, <2>5, <2>6, <2>7, Zenon DEF ObserveLate
<1> QED
  BY <1>0, <1>1, <1>2, <1>8, <1>9, Zenon DEF WindowInv

\* The windows start in full.
LEMMA InitWindowInv == RunInit => WindowInv
<1> SUFFICES ASSUME RunInit PROVE WindowInv
  OBVIOUS
<1>1. IInv
  BY InitIInv DEF RunInit
<1>2. ClockTypes
  BY RunAssumption, SMT DEF RunInit, ClockTypes
<1>3. phase = "observe" /\ NoLostTime
  BY Zenon DEF RunInit, NoLostTime
<1>4. ObserveCounted
  BY RunAssumption, SMT DEF RunInit, ObserveCounted
<1>5. LearnCounted
  BY <1>3, SMT DEF LearnCounted
<1>6. ObserveLate
  <2>1. Unseen = {} /\ Cardinality({}) = 0
    <3>1. \A s \in registered : child[s] # "exited"
      BY SMT DEF RunInit, Init
    <3> QED
      BY <3>1, FS_EmptySet, Zenon DEF Unseen
  <2>2. Deaths = 0
    BY <2>1, SMT DEF RunInit, Deaths
  <2>3. pc = "until" /\ down = {} /\ observeLeft >= 0
    BY RunAssumption, SMT DEF RunInit, Init
  <2> QED
    BY <2>2, <2>3, SMT DEF ObserveLate
<1> QED
  BY <1>1, <1>2, <1>3, <1>4, <1>5, <1>6, Zenon DEF WindowInv

\* A window only closes at a poll that finds no outage, or by stability.
LEMMA WindowCloses ==
  ASSUME phase \in {"observe", "learn", "evaluate"}, RunNext
  PROVE  /\ phase' \in {"observe", "learn", "evaluate"}
         /\ phase # phase' \/ stop # stop' =>
              \/ phase = "learn" /\ phase' # "observe" /\ ended' = "stable"
              \/ phase = "learn" /\ learnLeft <= 0 /\ down = {}
              \/ phase = "observe" /\ observeLeft <= 0 /\ down = {}
         /\ phase' = phase \/ tick \/ \E s \in Sources : dispatch(s)
<1>e. ASSUME NEW why, _end_learn(why) PROVE phase' \in {phase, "evaluate"} /\ ended' = why
  BY <1>e, Zenon DEF _end_learn, _start_evaluate, StopWith
<1>o. ASSUME NEW found, _end_observe(found) PROVE phase' \in {phase, "evaluate", "learn"}
  BY <1>o, Zenon DEF _end_observe, _start_evaluate, StopWith
<1>1. ASSUME NEW s \in Sources, dispatch(s)
      PROVE  \/ UNCHANGED <<phase, stop>>
             \/ phase = "learn" /\ phase' \in {"learn", "evaluate"} /\ ended' = "stable"
  <2>1. UNCHANGED endVars \/ (phase = "learn" /\ _end_learn("stable"))
    BY <1>1, Zenon DEF dispatch, Learning
  <2> QED
    BY <1>e, <2>1, Zenon DEF endVars
<1>2. ASSUME tick PROVE phase' \in {"observe", "learn", "evaluate"}
  BY <1>2, <1>e, <1>o, Zenon DEF tick, endVars
<1>3. \/ UNCHANGED <<phase, stop>> \/ tick \/ \E s \in Sources : dispatch(s)
  BY RunStepKinds, Zenon DEF endVars
<1> QED
  BY <1>1, <1>2, <1>3, TickKinds, Zenon

\* Every step keeps the count of the windows.
LEMMA StepWindowInv == ASSUME WindowInv, [RunNext]_runVars PROVE WindowInv'
<1>0. IInv /\ ClockTypes /\ phase \in {"observe", "learn", "evaluate"}
  BY DEF WindowInv
<1>1. CASE UNCHANGED runVars
  <2>1. IInv'
    BY <1>0, <1>1, NextIInv, Zenon DEF runVars
  <2>2. ClockTypes'
    BY <1>0, <1>1, Zenon DEF ClockTypes, runVars, deadlines
  <2> QED
    BY <1>1, <2>1, <2>2, OthersKeepWindows
<1>2. CASE RunNext
  <2>1. [Next]_supervisorVars /\ IInv'
    BY <1>0, <1>2, RunStepsTheLoop, NextIInv
  <2>2. ClockTypes'
    BY <1>0, <1>2, RunKeepsClocks
  <2>3. phase' \in {"observe", "learn", "evaluate"}
    BY <1>0, <1>2, WindowCloses
  <2>4. CASE \/ \E s \in Sources : RunWrite(s) \/ RunExit(s)
             \/ RunInterrupt \/ RunFallThrough \/ Turn
    BY <2>1, <2>2, <2>4, OthersKeepWindows
  <2>5. CASE Until
    BY <2>1, <2>2, <2>3, <2>5, UntilKeepsWindows
  <2>6. ASSUME NEW d \in {0, 1}, RunSelect(d) PROVE WindowInv'
    BY <2>1, <2>2, <2>6, SelectKeepsWindows
  <2>7. ASSUME NEW s \in Sources, RunService(s) PROVE WindowInv'
    <3>1. /\ service(s) /\ OnResume(s) /\ UNCHANGED <<exits, watched, phase>> /\ pc' \in {pc, "done"}
      BY <2>7, Zenon DEF RunService, service, sameHistory, endVars
    <3> QED
      BY <2>1, <2>2, <3>1, SourceKeepsWindows, Zenon
  <2>8. ASSUME NEW s \in Sources, RunHandle(s) PROVE WindowInv'
    <3>1. Handle(s) /\ OnResume(s) /\ UNCHANGED exits /\ pc' \in {pc, "done"} /\ watched' = Window
      BY <2>8, Zenon DEF RunHandle, Handle
    <3>2. phase' \in {phase, "evaluate"}
      <4>1. dispatch(s) \/ UNCHANGED endVars
        BY <2>8, Zenon DEF RunHandle
      <4>2. UNCHANGED endVars \/ _end_learn("stable")
        BY <4>1, Zenon DEF dispatch
      <4> QED
        BY <4>2, Zenon DEF endVars, _end_learn, _start_evaluate, StopWith
    <3>3. (phase' = phase /\ watched' = watched) \/ phase' = "evaluate"
      BY <3>1, <3>2, Zenon DEF Window
    <3> QED
      BY <2>1, <2>2, <3>1, <3>3, SourceKeepsWindows, Zenon
  <2>9. ASSUME NEW s \in Sources, Crash(s) PROVE WindowInv'
    <3>1. /\ Raise(s) /\ pc' = "done" /\ OnResume(s) /\ UNCHANGED <<exits, watched, phase>>
      BY <2>9, Zenon DEF Crash, Raise, KillAll, sameHistory, endVars
    <3> QED
      BY <2>1, <2>2, <3>1, SourceKeepsWindows, Zenon
  <2> QED
    BY <1>2, <2>4, <2>5, <2>6, <2>7, <2>8, <2>9, Zenon DEF RunNext, RunLoop
<1> QED
  BY <1>1, <1>2

\* A window closed by its deadline was watched in full by every capture that is still
\* there, for any windows, retry budget and number of outages, and whatever their overlap:
\* the observe window exactly, the learn window to within one poll per outage.
LEMMA WindowsAreFull == RunSpec => WindowsAreNotShort
<1>1. RunSpec => []WindowInv
  BY InitWindowInv, StepWindowInv, PTL DEF RunSpec
<1> DEFINE Full ==
  /\ Closes("observe") => \A s \in Sources : ~Lost(s) => watched[s] >= Observe
  /\ Closes("learn") /\ ended' = "deadline" /\ (\A s \in Sources : ~Lost(s))
       => \A s \in Sources : watched[s] >= Learn - Overrun
<1>2. ASSUME WindowInv, RunNext PROVE Full
  <2>0. /\ ClockTypes /\ phase \in {"observe", "learn", "evaluate"}
        /\ NoLostTime /\ ObserveCounted /\ LearnCounted
    BY <1>2 DEF WindowInv
  <2>i. /\ observeLeft \in Int /\ learnLeft \in Int /\ exits \in Nat /\ Observe \in Nat /\ Learn \in Nat
        /\ \A s \in Sources : lostFor[s] \in Nat /\ watched[s] \in Nat
    BY <2>0, RunAssumption, SMT DEF ClockTypes
  <2>1. ASSUME Closes("observe"), NEW s \in Sources, ~Lost(s) PROVE watched[s] >= Observe
    <3>1. phase = "observe" /\ observeLeft <= 0 /\ down = {}
      BY <1>2, <2>0, <2>1, WindowCloses, Zenon DEF Closes
    <3>2. lostFor[s] = 0 /\ (watched[s] >= Observe \/ observeLeft + watched[s] + lostFor[s] >= Observe)
      BY <2>0, <2>1, <3>1, Zenon DEF ObserveCounted, NoLostTime
    <3> QED
      BY <2>i, <3>1, <3>2, SMT
  <2>2. ASSUME Closes("learn"), ended' = "deadline", \A r \in Sources : ~Lost(r), NEW s \in Sources
        PROVE  watched[s] >= Learn - Overrun
    <3>1. phase = "learn" /\ learnLeft <= 0 /\ down = {}
      BY <1>2, <2>0, <2>2, WindowCloses, Zenon DEF Closes
    <3>2. /\ lostFor[s] = 0
          /\ watched[s] >= Learn - exits \/ learnLeft + watched[s] + lostFor[s] >= Learn - exits
      BY <2>0, <2>2, <3>1, Zenon DEF LearnCounted, NobodyLost, NoLostTime
    <3> QED
      BY <2>i, <3>1, <3>2, SMT DEF Overrun
  <2> QED
    BY <2>1, <2>2, Zenon
<1>3. WindowInv /\ [RunNext]_runVars => [Full]_runVars
  BY <1>2, Zenon
<1> QED
  BY <1>1, <1>3, PTL DEF RunSpec, WindowsAreNotShort

-----------------------------------------------------------------------------
(* How late the windows of a live run are.                                 *)

\* What the deaths that were read may have made of a deadline.
Allowed == Deaths * OutageTime

\* The backoffs that are left to an outage.
Spare(tries) == (Retries - tries) * BackoffCap

\* How long the outage of s may still be: what it waits for, and the poll that closes a
\* window after it.  An exit that this pass is about to read has had its poll.
ToCome(s) ==
  IF rec[s].attempting
  THEN rec[s].proving + (IF pc = "handle" /\ s \in todo /\ child[s] = "exited" THEN 0 ELSE 1)
  ELSE rec[s].wait + Spare(rec[s].tries) + Grace + 1

\* Time that passes brings the end of the outage nearer.
Waits(s) ==
  IF rec[s].attempting THEN rec[s].proving > 0 \/ child[s] = "exited" ELSE rec[s].wait > 0

\* The service pass leaves every outage waiting.
PassWaits ==
  /\ pc = "service" => \A s \in down \ todo : Waits(s)
  /\ pc = "select" => \A s \in down : Waits(s)

\* A deadline is late only by the outages there were, and those that last are counted in
\* full already.
InTime ==
  /\ observeLeft + Allowed >= 0 /\ learnLeft + Allowed >= 0
  /\ \A s \in down : observeLeft + Allowed >= ToCome(s) /\ learnLeft + Allowed >= ToCome(s)

\* until() let the window stay open for another poll.
StaysOpen ==
  pc \in {"service", "select"} =>
    /\ phase = "observe" => observeLeft > 0 \/ observeLeft + Allowed >= 1
    /\ phase = "learn" => learnLeft > 0 \/ learnLeft + Allowed >= 1

LateInv == WindowInv /\ LateByOutages /\ (pc # "done" => InTime /\ PassWaits /\ StaysOpen)

\* Outages add up.
LEMMA OutagesAddUp ==
  /\ OutageTime \in Nat /\ OutageTime = Spare(0) + Grace + 1
  /\ \A n \in Nat : n * OutageTime \in Nat /\ (n + 1) * OutageTime = n * OutageTime + OutageTime
  /\ \A m, n \in Nat : m <= n => m * OutageTime <= n * OutageTime
<1>1. Retries * BackoffCap \in Nat
  BY SupervisorAssumption, SMT
<1>2. OutageTime \in Nat
  BY <1>1, SupervisorAssumption, SMT DEF OutageTime
<1>3. OutageTime = Spare(0) + Grace + 1
  BY <1>1, SupervisorAssumption, SMT DEF OutageTime, Spare
<1> HIDE DEF OutageTime
<1>4. \A n \in Nat : n * OutageTime \in Nat /\ (n + 1) * OutageTime = n * OutageTime + OutageTime
  BY <1>2, SMT
<1>5. ASSUME NEW m \in Nat, NEW n \in Nat, m <= n PROVE m * OutageTime <= n * OutageTime
  <2>1. PICK k \in Nat : n = m + k
    <3>1. n - m \in Nat /\ n = m + (n - m)
      BY <1>5, SMT
    <3> QED
      BY <3>1, Zenon
  <2>2. (m + k) * OutageTime = m * OutageTime + k * OutageTime
    BY <1>2, SMT
  <2>3. m * OutageTime \in Nat /\ k * OutageTime \in Nat
    BY <1>4
  <2> QED
    BY <2>1, <2>2, <2>3, SMT
<1> QED
  BY <1>2, <1>3, <1>4, <1>5

\* A try takes one backoff off what is left.
LEMMA BackoffsAreSpent ==
  ASSUME NEW t \in 0..Retries
  PROVE  /\ Spare(t) \in Nat /\ Spare(t) <= Spare(0)
         /\ t + 1 <= Retries => Spare(t + 1) \in Nat /\ Spare(t + 1) + BackoffCap = Spare(t)
<1>0. t \in Nat /\ Retries \in Nat /\ BackoffCap \in Nat /\ t <= Retries
  BY SupervisorAssumption, SMT
<1>1. \A n \in Nat : n * BackoffCap \in Nat /\ (n + 1) * BackoffCap = n * BackoffCap + BackoffCap
  BY <1>0, SMT
<1>2. Spare(t) \in Nat
  <2>1. Retries - t \in Nat
    BY <1>0, SMT
  <2> QED
    BY <1>1, <2>1, Zenon DEF Spare
<1>3. Spare(t) <= Spare(0)
  <2>1. Spare(0) = t * BackoffCap + Spare(t)
    BY <1>0, SMT DEF Spare
  <2>2. t * BackoffCap \in Nat
    BY <1>0, <1>1, Zenon
  <2> HIDE DEF Spare
  <2> QED
    BY <1>2, <2>1, <2>2, SMT
<1>4. ASSUME t + 1 <= Retries PROVE Spare(t + 1) \in Nat /\ Spare(t + 1) + BackoffCap = Spare(t)
  <2>1. PICK n \in Nat : n = Retries - (t + 1)
    <3>1. Retries - (t + 1) \in Nat
      BY <1>0, <1>4, SMT
    <3> QED
      BY <3>1, Zenon
  <2>2. Retries - t = n + 1
    BY <1>0, <2>1, SMT
  <2>3. Spare(t + 1) = n * BackoffCap /\ Spare(t) = (n + 1) * BackoffCap
    BY <2>1, <2>2, Zenon DEF Spare
  <2> QED
    BY <1>1, <2>3, Zenon
<1> QED
  BY <1>2, <1>3, <1>4

\* The time an outage may still take is a number, and it has a poll to come but for an exit
\* that is about to be read.
LEMMA ToComeType ==
  ASSUME TypeOK, NEW s \in Sources
  PROVE  /\ ToCome(s) \in Nat
         /\ pc # "handle" => ToCome(s) >= 1
<1>1. rec[s] \in Records
  BY Zenon DEF TypeOK, Records
<1>2. /\ rec[s].tries \in 0..Retries /\ rec[s].wait \in 0..BackoffCap
      /\ rec[s].attempting \in BOOLEAN /\ rec[s].proving \in 0..Grace
  BY <1>1, Zenon DEF Records
<1>3. Spare(rec[s].tries) \in Nat
  BY <1>2, BackoffsAreSpent
<1>4. Grace \in Nat /\ rec[s].wait \in Nat /\ rec[s].proving \in Nat
  BY <1>2, SupervisorAssumption, SMT
<1> QED
  BY <1>3, <1>4, SMT DEF ToCome

\* The deaths read so far are a number, and so is what they allow.
LEMMA AllowedType ==
  ASSUME WindowInv, pc # "done"
  PROVE  Deaths \in Nat /\ Allowed \in Nat /\ exits \in Nat /\ Deaths <= exits
<1>1. Cardinality(Unseen) \in Nat /\ exits \in Nat
  BY UnseenIsFinite, RunAssumption, SMT DEF WindowInv, IInv, ClockTypes
<1>2. Deaths >= 0
  BY DEF WindowInv, ObserveLate
<1>3. Deaths \in Nat /\ Deaths <= exits
  BY <1>1, <1>2, SMT DEF Deaths
<1> HIDE DEF Deaths
<1> QED
  BY <1>1, <1>3, OutagesAddUp, Zenon DEF Allowed

\* The same of both moments of a step (ToComeIsNat and AllowedIsNat).
OutagesAreTimed == \A s \in Sources : ToCome(s) \in Nat

LEMMA ToComeIsNat == TypeOK => OutagesAreTimed
  BY ToComeType, Zenon DEF OutagesAreTimed

\* A deadline that is later and allowed more allows what is less.
LEMMA LaterIsEnough ==
  ASSUME NEW x \in Int, NEW y \in Int, NEW n \in Int, NEW m \in Int, NEW j \in Int, NEW k \in Int,
         y >= x, m >= n, k <= j, x + n >= j
  PROVE  y + m >= k
  BY SMT

\* A step that gives time back, adds to no outage, and starts one only where it reads a
\* death, makes no deadline later than it may be.
LEMMA OutagesStayInTime ==
  ASSUME ClockTypes, ClockTypes', TypeOK', InTime, Allowed \in Nat,
         observeLeft' >= observeLeft, learnLeft' >= learnLeft,
         Allowed' = Allowed \/ Allowed' = Allowed + OutageTime,
         \A r \in down' : \/ r \in down /\ r \in Sources /\ ToCome(r) \in Nat /\ ToCome(r)' <= ToCome(r)
                          \/ ToCome(r)' <= OutageTime /\ Allowed' = Allowed + OutageTime
  PROVE  InTime'
<1>1. /\ observeLeft \in Int /\ observeLeft' \in Int /\ learnLeft \in Int /\ learnLeft' \in Int
      /\ OutageTime \in Nat
  BY OutagesAddUp, Zenon DEF ClockTypes
<1>2. PICK n \in Nat : n = Allowed
  OBVIOUS
<1>3. Allowed' = n \/ Allowed' = n + OutageTime
  BY <1>2
<1>4. PICK m \in Nat : m = Allowed' /\ m >= n
  <2>1. Allowed' \in Nat /\ Allowed' >= n
    BY <1>1, <1>2, <1>3, SMT
  <2> QED
    BY <2>1
<1>5. observeLeft + n >= 0 /\ learnLeft + n >= 0
  BY <1>2 DEF InTime
<1>n. \A i \in Nat : i \in Int
  BY SMT
<1>z. 0 \in Int /\ 0 <= 0 /\ n \in Int /\ m \in Int
  BY <1>n, SMT
<1>6. observeLeft' + m >= 0 /\ learnLeft' + m >= 0
  BY <1>1, <1>4, <1>5, <1>z, LaterIsEnough, Zenon
<1>7. ASSUME NEW r \in down' PROVE observeLeft' + m >= ToCome(r)' /\ learnLeft' + m >= ToCome(r)'
  <2>1. r \in Sources
    BY Zenon DEF TypeOK
  <2>2. PICK k \in Nat : k = ToCome(r)'
    <3>1. OutagesAreTimed'
      BY ToComeIsNat, PTL
    <3> QED
      BY <2>1, <3>1, Zenon DEF OutagesAreTimed
  <2>3. CASE r \in down /\ ToCome(r) \in Nat /\ ToCome(r)' <= ToCome(r)
    <3>1. PICK j \in Nat : j = ToCome(r)
      BY <2>3
    <3>2. observeLeft + n >= j /\ learnLeft + n >= j
      BY <1>2, <2>3, <3>1, Zenon DEF InTime
    <3>3. k <= j
      BY <2>2, <2>3, <3>1, Zenon
    <3>4. observeLeft' + m >= k /\ learnLeft' + m >= k
      BY <1>1, <1>4, <1>n, <1>z, <3>2, <3>3, LaterIsEnough, Zenon
    <3> QED
      BY <2>2, <3>4, Zenon
  <2>4. CASE ToCome(r)' <= OutageTime /\ Allowed' = Allowed + OutageTime
    <3>1. k <= OutageTime /\ m = n + OutageTime
      BY <1>2, <1>4, <2>2, <2>4, Zenon
    <3>2. observeLeft + m >= OutageTime /\ learnLeft + m >= OutageTime
      BY <1>1, <1>5, <3>1, SMT
    <3>3. m >= m /\ OutageTime \in Int
      BY <1>1, <1>n, SMT
    <3>k. k \in Int /\ k <= OutageTime
      BY <1>n, <3>1
    <3>4. observeLeft' + m >= k
      BY <1>1, <1>z, <3>k, <3>2, <3>3, LaterIsEnough, Zenon
    <3>5. learnLeft' + m >= k
      BY <1>1, <1>z, <3>k, <3>2, <3>3, LaterIsEnough, Zenon
    <3> QED
      BY <2>2, <3>4, <3>5, Zenon
  <2> QED
    BY <2>3, <2>4
<1> QED
  BY <1>4, <1>6, <1>7, Zenon DEF InTime

\* A death that is recorded leaves a shorter outage than the one it continues, and none
\* longer than an outage is.
LEMMA DeathShortens ==
  ASSUME IInv, IInv', NEW s \in Sources, note_death(s), s \in down'
  PROVE  /\ rec'[s].attempting = FALSE /\ rec'[s].wait > 0
         /\ ToCome(s)' <= OutageTime
         /\ s \in down => ToCome(s)' <= Spare(rec[s].tries) + Grace + 1
<1> DEFINE old == IF s \in down THEN rec[s] ELSE NoRecord
<1>1. old \in Records /\ rec[s] \in Records
  BY NoRecordType, Zenon DEF IInv, TypeOK, Records
<1>2. old.tries \in 0..Retries
  <2> HIDE DEF old
  <2> QED
    BY <1>1, Zenon DEF Records
<1>3. /\ old.tries + 1 <= Retries
      /\ rec' = [rec EXCEPT ![s] = [old EXCEPT !.tries = old.tries + 1, !.wait = Backoff(old.tries + 1),
                                               !.attempting = FALSE, !.proving = 0]]
  BY Zenon DEF note_death
<1>4. /\ rec'[s].tries = old.tries + 1 /\ rec'[s].wait = Backoff(old.tries + 1)
      /\ rec'[s].attempting = FALSE
  <2>1. rec'[s] = [old EXCEPT !.tries = old.tries + 1, !.wait = Backoff(old.tries + 1),
                              !.attempting = FALSE, !.proving = 0]
    BY <1>3, Zenon DEF IInv, TypeOK
  <2> HIDE DEF old
  <2> QED
    BY <1>1, <2>1, Zenon DEF Records
<1>b. Backoff(old.tries + 1) \in 1..BackoffCap
  <2> HIDE DEF old
  <2>1. old.tries + 1 \in 1..Retries /\ Backoff(old.tries + 1) \in 0..BackoffCap
    BY <1>2, <1>3, BackoffType, SupervisorAssumption, SMT
  <2>2. Backoff(old.tries + 1) > 0
    BY <2>1, LatenessAssumption, Zenon
  <2> QED
    BY <2>1, <2>2, SupervisorAssumption, SMT
<1>5. /\ Spare(old.tries + 1) \in Nat /\ Spare(old.tries + 1) + BackoffCap = Spare(old.tries)
      /\ Spare(old.tries) \in Nat /\ Spare(old.tries) <= Spare(0)
  <2> HIDE DEF old
  <2> QED
    BY <1>2, <1>3, BackoffsAreSpent
<1>6. ToCome(s)' = Backoff(old.tries + 1) + Spare(old.tries + 1) + Grace + 1
  BY <1>4, Zenon DEF ToCome
<1>7. s \in down => old = rec[s]
  OBVIOUS
<1> HIDE DEF old
<1>8. PICK b \in 1..BackoffCap : b = Backoff(old.tries + 1)
  BY <1>b
<1>9. PICK u \in Nat, v \in Nat : u = Spare(old.tries + 1) /\ v = Spare(old.tries)
  BY <1>5
<1>10. b + u + Grace + 1 <= v + Grace + 1 /\ b > 0
  <2>1. u + BackoffCap = v /\ Grace \in Nat /\ BackoffCap \in Nat
    BY <1>5, <1>9, SupervisorAssumption, Zenon
  <2> QED
    BY <2>1, SMT
<1>11. ToCome(s)' = b + u + Grace + 1
  BY <1>6, <1>8, <1>9
<1>12. b + u + Grace + 1 <= OutageTime
  <2>1. PICK z \in Int : z = Spare(0)
    <3>1. Spare(0) \in Nat
      BY BackoffsAreSpent, SupervisorAssumption, SMT
    <3> QED
      BY <3>1, SMT
  <2>2. OutageTime = z + Grace + 1 /\ v <= z
    BY <1>5, <1>9, <2>1, OutagesAddUp, Zenon
  <2> QED
    BY <1>10, <2>1, <2>2, SupervisorAssumption, SMT
<1> QED
  BY <1>4, <1>7, <1>8, <1>9, <1>10, <1>11, <1>12, Zenon

\* The service pass reads no exit.
LEMMA ServiceReadsNoDeath == ASSUME IInv, NEW s \in Sources, service(s) PROVE Unseen' = Unseen
<1>1. CASE respawn(s)
  <2>1. s \notin registered /\ s \in down
    BY <1>1, Zenon DEF respawn, IInv, NoSourceForgotten
  <2>2. child' = [child EXCEPT ![s] = "up"] /\ registered' = registered \union {s}
    BY <1>1, Zenon DEF respawn
  <2>3. child'[s] = "up" /\ \A r \in Sources \ {s} : child'[r] = child[r]
    BY <2>2, Zenon DEF IInv, TypeOK
  <2>4. registered \subseteq Sources /\ "up" # "exited"
    BY Zenon DEF IInv, TypeOK
  <2> QED
    BY <2>1, <2>2, <2>3, <2>4, SMT DEF Unseen
<1>2. CASE UNCHANGED <<child, registered>>
  BY <1>2, Zenon DEF Unseen
<1> QED
  BY <1>1, <1>2, Zenon DEF service, launch_fails, survived, not_due

\* A step of the loop about s leaves what the others may still take alone, and shortens the
\* outage of s or starts it where it reads a death.
LEMMA StepsShorten ==
  ASSUME WindowInv, IInv', NEW s \in Sources, service(s) \/ Handle(s), exits' = exits,
         PassWaits, pc # "done"
  PROVE  /\ Deaths' = Deaths \/ Deaths' = Deaths + 1
         /\ \A r \in down' : \/ r \in down /\ ToCome(r)' <= ToCome(r)
                             \/ ToCome(r)' <= OutageTime /\ Deaths' = Deaths + 1
         /\ PassWaits'
<1>0. /\ IInv /\ ClockTypes /\ TypeOK /\ TypeOK' /\ pc' = pc /\ todo' = todo \ {s} /\ s \in todo
      /\ pc \in {"service", "handle"} /\ exits \in Nat
  BY SMT DEF WindowInv, IInv, ClockTypes, service, Handle
<1>c. Cardinality(Unseen) \in Nat /\ IsFiniteSet(Unseen)
  BY <1>0, UnseenIsFinite
<1>1. \A r \in Sources \ {s} : /\ rec'[r] = rec[r] /\ child'[r] = child[r]
                               /\ r \in down' <=> r \in down
  <2>d. ASSUME note_death(s) \/ _resume(s) \/ mark_alive(s)
        PROVE  \A r \in Sources \ {s} : rec'[r] = rec[r] /\ (r \in down' <=> r \in down)
    BY <1>0, <2>d, DeathRecorded, ResumeRecorded, AliveRecorded, Zenon
  <2>1. CASE launch_fails(s) \/ survived(s)
    BY <2>1, <2>d, Zenon DEF launch_fails, survived
  <2>2. CASE not_due(s)
    BY <2>2, Zenon DEF not_due, outage
  <2>3. CASE respawn(s)
    BY <1>0, <2>3, Zenon DEF respawn, TypeOK
  <2>4. CASE ReadBytes(s) \/ ReadEOF(s)
    BY <2>4, <2>d, Zenon DEF ReadBytes, ReadEOF, children
  <2> QED
    BY <2>1, <2>2, <2>3, <2>4 DEF service, Handle
<1>2. \A r \in down' \ {s} : r \in down /\ ToCome(r)' = ToCome(r)
  <2> SUFFICES ASSUME NEW r \in down' \ {s} PROVE r \in down /\ ToCome(r)' = ToCome(r)
    OBVIOUS
  <2>1. r \in Sources \ {s}
    BY <1>0, Zenon DEF TypeOK
  <2>2. rec'[r] = rec[r] /\ child'[r] = child[r] /\ r \in down
    BY <1>1, <2>1
  <2>3. r \in todo' <=> r \in todo
    BY <1>0, <2>1
  <2> QED
    BY <1>0, <2>2, <2>3, Zenon DEF ToCome
<1>3. CASE service(s)
  <2>0. pc = "service" /\ s \in down
    BY <1>0, <1>3, Zenon DEF service, IInv, PassInv
  <2>r. rec[s] \in Records /\ rec'[s] \in Records
    BY <1>0, Zenon DEF TypeOK, Records
  <2>t. /\ rec[s].tries \in 0..Retries /\ rec[s].wait \in 0..BackoffCap /\ rec[s].proving \in 0..Grace
        /\ Spare(rec[s].tries) \in Nat
    <3>1. rec[s].tries \in 0..Retries /\ rec[s].wait \in 0..BackoffCap /\ rec[s].proving \in 0..Grace
      BY <2>r, Zenon DEF Records
    <3> QED
      BY <3>1, BackoffsAreSpent
  <2>1. Deaths' = Deaths
    <3>1. Unseen' = Unseen
      BY <1>0, <1>3, ServiceReadsNoDeath
    <3> QED
      BY <3>1, Zenon DEF Deaths
  <2>2. s \in down' => ToCome(s)' <= ToCome(s) /\ Waits(s)'
    <3>1. CASE respawn(s)
      <4>1. rec'[s].attempting = TRUE /\ rec'[s].proving = Grace /\ ~rec[s].attempting /\ rec[s].wait = 0
        BY <1>0, <3>1, <2>r, Zenon DEF respawn, TypeOK, Records
      <4>2. ToCome(s)' = Grace + 1 /\ ToCome(s) = 0 + Spare(rec[s].tries) + Grace + 1
        BY <1>0, <2>0, <4>1, Zenon DEF ToCome
      <4>3. Grace + 1 <= 0 + Spare(rec[s].tries) + Grace + 1
        BY <2>t, SupervisorAssumption, SMT
      <4>4. Waits(s)'
        BY <4>1, LatenessAssumption, Zenon DEF Waits
      <4> QED
        BY <4>2, <4>3, <4>4, Zenon
    <3>2. CASE launch_fails(s)
      <4>1. note_death(s) /\ ~rec[s].attempting /\ rec[s].wait = 0
        BY <3>2, Zenon DEF launch_fails
      <4>2. ToCome(s) = 0 + Spare(rec[s].tries) + Grace + 1
        BY <4>1, Zenon DEF ToCome
      <4>3. ToCome(s) = Spare(rec[s].tries) + Grace + 1
        <5>1. 0 + Spare(rec[s].tries) + Grace + 1 = Spare(rec[s].tries) + Grace + 1
          BY <2>t, SupervisorAssumption, SMT
        <5> QED
          BY <4>2, <5>1, Zenon
      <4>4. ASSUME s \in down' PROVE ToCome(s)' <= ToCome(s) /\ Waits(s)'
        <5>1. /\ rec'[s].attempting = FALSE /\ rec'[s].wait > 0
              /\ ToCome(s)' <= Spare(rec[s].tries) + Grace + 1
          BY <1>0, <2>0, <4>1, <4>4, DeathShortens
        <5> QED
          BY <4>3, <5>1, Zenon DEF Waits
      <4> QED
        BY <4>4
    <3>3. CASE survived(s)
      BY <1>0, <3>3, ResumeRecorded, Zenon DEF survived
    <3>4. CASE not_due(s)
      <4>1. UNCHANGED <<child, rec>>
        BY <3>4, Zenon DEF not_due, outage
      <4>2. ToCome(s)' = ToCome(s)
        BY <1>0, <2>0, <4>1, Zenon DEF ToCome
      <4>3. ToCome(s) \in Nat
        BY <1>0, ToComeIsNat, Zenon DEF OutagesAreTimed
      <4>4. ToCome(s)' <= ToCome(s)
        <5>1. \A i \in Nat : i <= i
          BY SMT
        <5> QED
          BY <4>2, <4>3, <5>1, Zenon
      <4>5. Waits(s)'
        BY <2>r, <3>4, <4>1, Zenon DEF not_due, Waits, Records
      <4> QED
        BY <4>4, <4>5
    <3> QED
      BY <1>3, <3>1, <3>2, <3>3, <3>4 DEF service
  <2>3. PassWaits'
    <3>1. ASSUME NEW r \in down' \ todo' PROVE Waits(r)'
      <4>1. CASE r = s
        BY <2>2, <4>1
      <4>2. CASE r # s
        <5>1. r \in down \ todo /\ r \in Sources \ {s}
          BY <1>0, <1>2, <4>2, Zenon DEF TypeOK
        <5>2. Waits(r)
          BY <2>0, <5>1, Zenon DEF PassWaits
        <5> QED
          BY <1>1, <5>1, <5>2, Zenon DEF Waits
      <4> QED
        BY <4>1, <4>2
    <3> QED
      BY <1>0, <2>0, <3>1, Zenon DEF PassWaits
  <2>4. \A i \in Nat : i <= i
    BY SMT
  <2>5. \A r \in down' : r \in down /\ ToCome(r)' <= ToCome(r)
    <3>1. ASSUME NEW r \in down', r # s PROVE r \in down /\ ToCome(r)' <= ToCome(r)
      <4>1. r \in Sources /\ r \in down /\ ToCome(r)' = ToCome(r)
        BY <1>0, <1>2, <3>1, Zenon DEF TypeOK
      <4>2. ToCome(r) \in Nat
        BY <1>0, <4>1, ToComeIsNat, Zenon DEF OutagesAreTimed
      <4> QED
        BY <2>4, <4>1, <4>2, Zenon
    <3> QED
      BY <2>0, <2>2, <3>1, Zenon
  <2> QED
    BY <2>1, <2>3, <2>5, Zenon
<1>4. CASE Handle(s)
  <2>0. /\ pc = "handle" /\ s \in registered /\ (unread[s] \/ child[s] = "exited")
        /\ s \in down => rec[s].attempting
    BY <1>0, <1>4, Zenon DEF Handle, IInv, PassInv, NoSourceForgotten
  <2>1. PassWaits'
    BY <1>0, <2>0, Zenon DEF PassWaits
  <2>2. ASSUME NEW r \in down', r # s PROVE r \in down /\ ToCome(r)' <= ToCome(r)
    <3>1. r \in Sources /\ r \in down /\ ToCome(r)' = ToCome(r)
      BY <1>0, <1>2, <2>2, Zenon DEF TypeOK
    <3>2. ToCome(r) \in Nat
      BY <1>0, <3>1, ToComeIsNat, Zenon DEF OutagesAreTimed
    <3>3. \A i \in Nat : i <= i
      BY SMT
    <3> QED
      BY <3>1, <3>2, <3>3, Zenon
  <2>3. CASE ReadBytes(s)
    <3>1. Deaths' = Deaths
      BY <2>3, Zenon DEF ReadBytes, Deaths, Unseen
    <3>2. s \notin down'
      BY <1>0, <2>0, <2>3, ResumeRecorded, Zenon DEF ReadBytes, mark_alive, outage
    <3> QED
      BY <2>1, <2>2, <3>1, <3>2, Zenon
  <2>4. CASE ReadEOF(s)
    <3>1. Deaths' = Deaths + 1
      <4>1. s \in Unseen /\ Unseen' = Unseen \ {s}
        BY <1>0, <2>0, <2>4, Zenon DEF ReadEOF, children, Unseen
      <4>2. Cardinality(Unseen \ {s}) = Cardinality(Unseen) - 1
        BY <1>c, <4>1, FS_RemoveElement, Zenon
      <4>3. Cardinality(Unseen)' = Cardinality(Unseen) - 1
        BY <4>1, <4>2, Zenon
      <4> QED
        BY <1>0, <1>c, <4>3, SMT DEF Deaths
    <3>2. s \in down' => ToCome(s)' <= OutageTime
      BY <1>0, <2>4, DeathShortens, Zenon DEF ReadEOF
    <3> QED
      BY <2>1, <2>2, <3>1, <3>2, Zenon
  <2> QED
    BY <1>4, <2>3, <2>4 DEF Handle
<1> QED
  BY <1>3, <1>4

\* A deadline that stays open still does when it is later.
LEMMA LaterByOne ==
  ASSUME NEW x \in Int, NEW y \in Int, NEW n \in Nat, NEW m \in Nat, y >= x, m >= n, x + n >= 1
  PROVE  y + m >= 1
  BY SMT

\* The same of both moments of a step.
LEMMA AllowedIsNat == WindowInv /\ pc # "done" => Allowed \in Nat
  BY AllowedType

\* What a death is worth once it is read.
LEMMA AllowedSteps ==
  ASSUME WindowInv, WindowInv', pc # "done", pc' # "done"
  PROVE  /\ Allowed \in Nat /\ Allowed' \in Nat /\ Deaths \in Nat
         /\ Deaths' = Deaths => Allowed' = Allowed
         /\ Deaths' = Deaths + 1 => Allowed' = Allowed + OutageTime
<1>1. Deaths \in Nat /\ Allowed \in Nat
  BY AllowedType
<1>2. (WindowInv /\ pc # "done" => Allowed \in Nat)'
  BY AllowedIsNat, PTL
<1>3. Deaths' = Deaths => Allowed' = Allowed
  BY Zenon DEF Allowed
<1>4. Deaths' = Deaths + 1 => Allowed' = Allowed + OutageTime
  BY <1>1, OutagesAddUp, Zenon DEF Allowed
<1> QED
  BY <1>1, <1>2, <1>3, <1>4

\* The deadlines of a state whose outages are in time are late by the exits at most.
LEMMA InTimeIsLateByOutages == WindowInv /\ pc # "done" /\ InTime => LateByOutages
<1> SUFFICES ASSUME WindowInv, pc # "done", InTime PROVE LateByOutages
  OBVIOUS
<1>1. Deaths \in Nat /\ exits \in Nat /\ Deaths <= exits
  BY AllowedType
<1>2. Deaths * OutageTime \in Nat /\ exits * OutageTime \in Nat /\ Deaths * OutageTime <= exits * OutageTime
  BY <1>1, OutagesAddUp, Zenon
<1>3. PICK m \in Nat, n \in Nat : m = Deaths * OutageTime /\ n = exits * OutageTime
  BY <1>2
<1>4. observeLeft + m >= 0 /\ learnLeft + m >= 0 /\ m <= n
  BY <1>2, <1>3, Zenon DEF InTime, Allowed
<1>5. observeLeft \in Int /\ learnLeft \in Int
  BY DEF WindowInv, ClockTypes
<1>6. observeLeft >= -n /\ learnLeft >= -n
  BY <1>4, <1>5, SMT
<1> QED
  BY <1>3, <1>6, Zenon DEF LateByOutages

\* Time given back by a source.
LEMMA SourceStaysInTime ==
  ASSUME LateInv, WindowInv', NEW s \in Sources, service(s) \/ Handle(s), OnResume(s),
         exits' = exits, pc' # "done", phase' \in {phase, "evaluate"}
  PROVE  LateInv'
<1>0. /\ WindowInv /\ pc # "done" /\ pc' = pc /\ InTime /\ PassWaits /\ StaysOpen
      /\ IInv /\ IInv' /\ ClockTypes /\ ClockTypes' /\ TypeOK /\ TypeOK' /\ NoLostTime
  BY Zenon DEF LateInv, WindowInv, IInv, service, Handle
<1>1. /\ Deaths' = Deaths \/ Deaths' = Deaths + 1
      /\ \A r \in down' : \/ r \in down /\ ToCome(r)' <= ToCome(r)
                          \/ ToCome(r)' <= OutageTime /\ Deaths' = Deaths + 1
      /\ PassWaits'
  BY <1>0, StepsShorten
<1>2. /\ Allowed \in Nat /\ Allowed' \in Nat
      /\ Deaths' = Deaths => Allowed' = Allowed
      /\ Deaths' = Deaths + 1 => Allowed' = Allowed + OutageTime
  BY <1>0, AllowedSteps
<1>3. observeLeft' >= observeLeft /\ learnLeft' >= learnLeft
  <2>1. PICK g \in Nat : GivesBack(g)
    BY <1>0, OutagesAreGivenBack
  <2>2. /\ observeLeft' = observeLeft + g \/ observeLeft' = observeLeft
        /\ learnLeft' = learnLeft + g \/ learnLeft' = learnLeft
    BY <2>1, Zenon DEF GivesBack
  <2>3. observeLeft \in Int /\ learnLeft \in Int
    BY <1>0 DEF ClockTypes
  <2> QED
    BY <2>2, <2>3, SMT
<1>4. InTime'
  <2>1. \A r \in down' : \/ r \in down /\ r \in Sources /\ ToCome(r) \in Nat /\ ToCome(r)' <= ToCome(r)
                         \/ ToCome(r)' <= OutageTime /\ Allowed' = Allowed + OutageTime
    BY <1>0, <1>1, <1>2, ToComeIsNat, Zenon DEF TypeOK, OutagesAreTimed
  <2>2. Allowed' = Allowed \/ Allowed' = Allowed + OutageTime
    BY <1>1, <1>2
  <2> QED
    BY <1>0, <1>2, <1>3, <2>1, <2>2, OutagesStayInTime
<1>5. StaysOpen'
  <2>1. PICK m \in Nat, n \in Nat : m = Allowed' /\ n = Allowed /\ m >= n
    <3>1. Allowed' >= Allowed
      <4>1. PICK n \in Nat, k \in Nat : n = Allowed /\ k = OutageTime
        BY <1>2, OutagesAddUp
      <4>2. n >= n /\ n + k >= n
        BY SMT
      <4> QED
        BY <1>1, <1>2, <4>1, <4>2, Zenon
    <3> QED
      BY <1>2, <3>1
  <2>2. /\ observeLeft \in Int /\ observeLeft' \in Int /\ learnLeft \in Int /\ learnLeft' \in Int
    BY <1>0 DEF ClockTypes
  <2>3. observeLeft > 0 \/ observeLeft + n >= 1 => observeLeft' > 0 \/ observeLeft' + m >= 1
    <3>1. observeLeft + n >= 1 => observeLeft' + m >= 1
      BY <1>3, <2>1, <2>2, LaterByOne, Zenon
    <3>2. observeLeft > 0 => observeLeft' > 0
      BY <1>3, <2>2, SMT
    <3> QED
      BY <3>1, <3>2
  <2>4. learnLeft > 0 \/ learnLeft + n >= 1 => learnLeft' > 0 \/ learnLeft' + m >= 1
    <3>1. learnLeft + n >= 1 => learnLeft' + m >= 1
      BY <1>3, <2>1, <2>2, LaterByOne, Zenon
    <3>2. learnLeft > 0 => learnLeft' > 0
      BY <1>3, <2>2, SMT
    <3> QED
      BY <3>1, <3>2
  <2>5. phase' \in {"observe", "learn"} => phase' = phase
    OBVIOUS
  <2> QED
    BY <1>0, <2>1, <2>3, <2>4, <2>5, Zenon DEF StaysOpen
<1>6. LateByOutages'
  <2>1. (WindowInv /\ pc # "done" /\ InTime => LateByOutages)'
    BY InTimeIsLateByOutages, PTL
  <2> QED
    BY <1>4, <2>1
<1> QED
  BY <1>1, <1>4, <1>5, <1>6 DEF LateInv

\* A poll lets a window stay open while there is time left or an outage to wait for.
LEMMA UntilStaysInTime ==
  ASSUME LateInv, WindowInv', Until, pc' # "done"
  PROVE  LateInv'
<1>0. /\ WindowInv /\ InTime /\ IInv /\ ClockTypes /\ TypeOK /\ ObserveCounted
      /\ phase \in {"observe", "learn", "evaluate"}
  BY Zenon DEF LateInv, WindowInv, IInv, Until
<1>1. /\ UNCHANGED <<observeLeft, learnLeft, exits, child, registered, down, rec>>
      /\ pc = "until" /\ pc' = "service" /\ todo' = down /\ tick /\ ~stop'
  BY Zenon DEF Until, StartService, Leave, KillAll, outage, children, deadlines
<1>2. Allowed' = Allowed
  BY <1>1, Zenon DEF Allowed, Deaths, Unseen
<1>3. PICK n \in Nat : n = Allowed
  BY <1>0, <1>1, AllowedIsNat
<1>4. \A s \in down : ToCome(s)' = ToCome(s)
  BY <1>1, Zenon DEF ToCome
<1>5. InTime'
  BY <1>0, <1>1, <1>2, <1>4, Zenon DEF InTime
<1>6. PassWaits'
  BY <1>1, Zenon DEF PassWaits
<1>i. observeLeft \in Int /\ learnLeft \in Int /\ Learn \in Nat \ {0}
  BY <1>0, RunAssumption DEF ClockTypes
<1>7. down # {} => observeLeft + n >= 1 /\ learnLeft + n >= 1
  <2> SUFFICES ASSUME NEW s \in down PROVE observeLeft + n >= 1 /\ learnLeft + n >= 1
    OBVIOUS
  <2>1. s \in Sources
    BY <1>0, Zenon DEF TypeOK
  <2>2. PICK k \in Nat : k = ToCome(s) /\ k >= 1
    BY <1>0, <1>1, <2>1, ToComeType
  <2>3. observeLeft + n >= k /\ learnLeft + n >= k
    BY <1>0, <1>3, <2>2, Zenon DEF InTime
  <2> QED
    BY <1>i, <2>2, <2>3, SMT
<1>8. phase' = "observe" => observeLeft > 0 \/ observeLeft + n >= 1
  BY <1>1, <1>7, TickKinds, Zenon
<1>9. phase' = "learn" => learnLeft > 0 \/ learnLeft + n >= 1
  <2>1. ASSUME phase = "observe", observeLeft <= 0 PROVE learnLeft + n >= 1
    <3>1. learnLeft = observeLeft + Learn
      BY <1>0, <2>1 DEF ObserveCounted
    <3>2. observeLeft + n >= 0
      BY <1>0, <1>3, Zenon DEF InTime
    <3> QED
      BY <1>i, <3>1, <3>2, SMT
  <2> QED
    BY <1>1, <1>7, <2>1, TickKinds, Zenon
<1>10. StaysOpen'
  BY <1>1, <1>2, <1>3, <1>8, <1>9, Zenon DEF StaysOpen
<1>11. LateByOutages'
  BY <1>1, Zenon DEF LateInv, LateByOutages
<1> QED
  BY <1>5, <1>6, <1>10, <1>11 DEF LateInv

\* Time that passes brings every outage nearer its end, as much as it takes from a deadline.
LEMMA SelectStaysInTime ==
  ASSUME LateInv, WindowInv', NEW d \in {0, 1}, RunSelect(d)
  PROVE  LateInv'
<1>0. /\ WindowInv /\ InTime /\ PassWaits /\ StaysOpen /\ IInv /\ ClockTypes /\ TypeOK /\ ObserveCounted
      /\ phase \in {"observe", "learn", "evaluate"}
  BY Zenon DEF LateInv, WindowInv, IInv, RunSelect, Select
<1>1. /\ UNCHANGED <<phase, exits, child, registered, down>>
      /\ pc = "select" /\ pc' = "handle" /\ todo' = Readable
      /\ rec' = [s \in Sources |-> [rec[s] EXCEPT !.wait = Less(rec[s].wait, d),
                                                  !.proving = Less(rec[s].proving, d)]]
  BY Zenon DEF RunSelect, Select, children, endVars
<1> DEFINE c == Counted(d)
<1>2. /\ observeLeft' = IF phase = "observe" THEN observeLeft - c ELSE observeLeft
      /\ learnLeft' = IF phase # "evaluate" THEN learnLeft - c ELSE learnLeft
  BY Zenon DEF RunSelect
<1>3. c \in 0..1 /\ c <= d
  BY SMT DEF Counted
<1> HIDE DEF c
<1>4. Allowed' = Allowed
  BY <1>1, Zenon DEF Allowed, Deaths, Unseen
<1>5. PICK n \in Nat : n = Allowed
  BY <1>0, <1>1, AllowedIsNat
<1>i. observeLeft \in Int /\ learnLeft \in Int /\ Learn \in Nat \ {0}
  BY <1>0, RunAssumption DEF ClockTypes
<1>6. observeLeft' + n >= 0 /\ learnLeft' + n >= 0
  <2>1. observeLeft + n >= 0 /\ learnLeft + n >= 0
    BY <1>0, <1>5, Zenon DEF InTime
  <2>2. CASE phase = "observe"
    <3>1. observeLeft > 0 \/ observeLeft + n >= 1
      BY <1>0, <1>1, <1>5, <2>2, Zenon DEF StaysOpen
    <3>2. learnLeft = observeLeft + Learn
      BY <1>0, <2>2 DEF ObserveCounted
    <3> QED
      BY <1>2, <1>3, <1>i, <2>2, <3>1, <3>2, SMT
  <2>3. CASE phase = "learn"
    <3>1. learnLeft > 0 \/ learnLeft + n >= 1
      BY <1>0, <1>1, <1>5, <2>3, Zenon DEF StaysOpen
    <3> QED
      BY <1>2, <1>3, <1>i, <2>1, <2>3, <3>1, SMT
  <2>4. CASE phase = "evaluate"
    BY <1>2, <2>1, <2>4, Zenon
  <2> QED
    BY <1>0, <2>2, <2>3, <2>4
<1>7. ASSUME NEW s \in down PROVE observeLeft' + n >= ToCome(s)' /\ learnLeft' + n >= ToCome(s)'
  <2>1. s \in Sources /\ rec[s] \in Records /\ Waits(s) /\ (s \in registered <=> rec[s].attempting)
    BY <1>0, <1>1, Zenon DEF TypeOK, Records, PassWaits, IInv, NoSourceForgotten
  <2>2. /\ rec[s].tries \in 0..Retries /\ rec[s].wait \in 0..BackoffCap
        /\ rec[s].attempting \in BOOLEAN /\ rec[s].proving \in 0..Grace
    BY <2>1, Zenon DEF Records
  <2>3. /\ rec'[s].attempting = rec[s].attempting /\ rec'[s].tries = rec[s].tries
        /\ rec'[s].wait = Less(rec[s].wait, d) /\ rec'[s].proving = Less(rec[s].proving, d)
    BY <1>1, <2>1, Zenon DEF Records
  <2>4. PICK k \in Nat : k = ToCome(s)
    BY <1>0, <2>1, ToComeIsNat, Zenon DEF OutagesAreTimed
  <2>5. PICK j \in Nat : j = ToCome(s)'
    <3>1. TypeOK'
      BY DEF WindowInv, IInv
    <3>2. OutagesAreTimed'
      BY <3>1, ToComeIsNat, PTL
    <3> QED
      BY <2>1, <3>2, Zenon DEF OutagesAreTimed
  <2>6. j + d <= k
    <3>1. CASE ~rec[s].attempting
      <4>1. PICK u \in Nat : u = Spare(rec[s].tries)
        BY <2>2, BackoffsAreSpent
      <4>2. ToCome(s) = rec[s].wait + u + Grace + 1 /\ ToCome(s)' = Less(rec[s].wait, d) + u + Grace + 1
        BY <2>3, <3>1, <4>1, Zenon DEF ToCome
      <4>3. rec[s].wait > 0
        BY <2>1, <3>1, Zenon DEF Waits
      <4> QED
        BY <2>2, <2>4, <2>5, <4>2, <4>3, SupervisorAssumption, SMT DEF Less
    <3>2. CASE rec[s].attempting /\ rec[s].proving > 0
      <4>1. /\ ToCome(s) = rec[s].proving + 1
            /\ \/ ToCome(s)' = Less(rec[s].proving, d) + 1
               \/ ToCome(s)' = Less(rec[s].proving, d) + 0
        BY <1>1, <2>3, <3>2, Zenon DEF ToCome
      <4> QED
        BY <2>2, <2>4, <2>5, <3>2, <4>1, SupervisorAssumption, SMT DEF Less
    <3>3. CASE rec[s].attempting /\ ~(rec[s].proving > 0)
      <4>1. child[s] = "exited" /\ s \in Readable
        BY <2>1, <3>3, Zenon DEF Waits, Readable
      <4>2. ToCome(s) = rec[s].proving + 1 /\ ToCome(s)' = Less(rec[s].proving, d) + 0
        BY <1>1, <2>3, <3>3, <4>1, Zenon DEF ToCome
      <4> QED
        BY <2>2, <2>4, <2>5, <3>3, <4>2, SupervisorAssumption, SMT DEF Less
    <3> QED
      BY <2>2, <3>1, <3>2, <3>3
  <2>7. observeLeft + n >= k /\ learnLeft + n >= k
    BY <1>0, <1>5, <2>4, Zenon DEF InTime
  <2>8. observeLeft' + n >= j /\ learnLeft' + n >= j
    BY <1>2, <1>3, <1>i, <2>6, <2>7, SMT
  <2> QED
    BY <2>5, <2>8, Zenon
<1>8. InTime'
  BY <1>1, <1>4, <1>5, <1>6, <1>7, Zenon DEF InTime
<1>9. PassWaits' /\ StaysOpen'
  BY <1>1, Zenon DEF PassWaits, StaysOpen
<1>10. LateByOutages'
  <2>1. (WindowInv /\ pc # "done" /\ InTime => LateByOutages)'
    BY InTimeIsLateByOutages, PTL
  <2> QED
    BY <1>1, <1>8, <2>1, Zenon
<1> QED
  BY <1>8, <1>9, <1>10 DEF LateInv

\* The children, the turns of the loop and its end leave the outages alone: an exit nobody
\* read has not shortened one yet.
LEMMA OthersStayInTime ==
  ASSUME LateInv, WindowInv',
         \/ \E s \in Sources : RunWrite(s) \/ RunExit(s)
         \/ Turn \/ UNCHANGED runVars,
         pc' # "done"
  PROVE  LateInv'
<1>0. /\ WindowInv /\ IInv /\ ClockTypes /\ TypeOK
      /\ pc # "done" => InTime /\ PassWaits /\ StaysOpen
  BY Zenon DEF LateInv, WindowInv, IInv
<1>1. UNCHANGED <<observeLeft, learnLeft, phase, down, rec, todo>>
  BY Zenon DEF RunWrite, RunExit, Turn, sameHistory, deadlines, endVars,
       Write, Exit, EndService, EndHandle, outage, loop, runVars, supervisorVars
<1>2. ASSUME NEW s \in Sources, RunExit(s)
      PROVE  /\ exits' = exits + 1 /\ Deaths' = Deaths /\ pc' = pc
             /\ \A r \in Sources : child[r] = "exited" => child'[r] = "exited"
  <2>1. child' = [child EXCEPT ![s] = "exited"]
    BY <1>2, Zenon DEF RunExit, Exit
  <2> QED
    BY <1>0, <1>2, <2>1, ExitIsUnseen, Zenon DEF TypeOK
<1>3. ASSUME NEW s \in Sources, RunWrite(s)
      PROVE  Deaths' = Deaths /\ pc' = pc /\ child' = child
  BY <1>3, Zenon DEF RunWrite, Write, sameHistory, loop, Deaths, Unseen
<1>4. ASSUME Turn
      PROVE  /\ Deaths' = Deaths /\ child' = child /\ todo = {}
             /\ (pc = "service" /\ pc' = "select") \/ (pc = "handle" /\ pc' = "until")
  BY <1>4, Zenon DEF Turn, EndService, EndHandle, children, sameHistory, Deaths, Unseen
<1>5. ASSUME UNCHANGED runVars
      PROVE  Deaths' = Deaths /\ pc' = pc /\ child' = child
  BY <1>5, Zenon DEF runVars, supervisorVars, Deaths, Unseen
<1>6. /\ Deaths' = Deaths /\ pc # "done"
      /\ \A r \in Sources : child[r] = "exited" => child'[r] = "exited"
      /\ \/ pc' = pc
         \/ pc = "service" /\ pc' = "select" /\ todo = {} /\ child' = child
         \/ pc = "handle" /\ pc' = "until" /\ todo = {} /\ child' = child
  BY <1>2, <1>3, <1>4, <1>5, Zenon
<1>7. Allowed' = Allowed
  BY <1>6, Zenon DEF Allowed
<1>8. InTime'
  <2>1. ASSUME NEW r \in down PROVE ToCome(r)' <= ToCome(r)
    <3>1. r \in Sources /\ rec[r] \in Records
      BY <1>0, Zenon DEF TypeOK, Records
    <3>2. rec[r].proving \in Nat
      <4>1. rec[r].proving \in 0..Grace
        BY <3>1, Zenon DEF Records
      <4> QED
        BY <4>1, SupervisorAssumption, SMT
    <3>3. \/ ToCome(r)' = ToCome(r)
          \/ ToCome(r)' = rec[r].proving + 0 /\ ToCome(r) = rec[r].proving + 1
      BY <1>1, <1>6, <3>1, Zenon DEF ToCome
    <3>4. ToCome(r) \in Nat
      BY <1>0, <3>1, ToComeIsNat, Zenon DEF OutagesAreTimed
    <3>5. (\A i \in Nat : i <= i) /\ \A i \in Nat : i + 0 <= i + 1
      BY SMT
    <3> QED
      BY <3>2, <3>3, <3>4, <3>5, Zenon
  <2>2. \A r \in down' : \/ r \in down /\ r \in Sources /\ ToCome(r) \in Nat /\ ToCome(r)' <= ToCome(r)
                         \/ ToCome(r)' <= OutageTime /\ Allowed' = Allowed + OutageTime
    BY <1>0, <1>1, <2>1, ToComeIsNat, Zenon DEF TypeOK, OutagesAreTimed
  <2>3. observeLeft' >= observeLeft /\ learnLeft' >= learnLeft
    <3>1. observeLeft \in Int /\ learnLeft \in Int
      BY <1>0 DEF ClockTypes
    <3> QED
      BY <1>1, <3>1, SMT
  <2>4. ClockTypes' /\ TypeOK' /\ Allowed \in Nat
    BY <1>0, <1>6, AllowedIsNat, Zenon DEF WindowInv, IInv
  <2> QED
    BY <1>0, <1>6, <1>7, <2>2, <2>3, <2>4, OutagesStayInTime
<1>9. PassWaits'
  <2>1. ASSUME NEW r \in down, Waits(r) PROVE Waits(r)'
    BY <1>0, <1>1, <1>6, <2>1, Zenon DEF Waits, TypeOK
  <2> QED
    BY <1>0, <1>1, <1>6, <2>1, Zenon DEF PassWaits
<1>10. StaysOpen'
  BY <1>0, <1>1, <1>6, <1>7, Zenon DEF StaysOpen
<1>11. LateByOutages'
  <2>1. (WindowInv /\ pc # "done" /\ InTime => LateByOutages)'
    BY InTimeIsLateByOutages, PTL
  <2> QED
    BY <1>8, <2>1, Zenon
<1> QED
  BY <1>8, <1>9, <1>10, <1>11 DEF LateInv

\* Where the loop is left, no time passes any more.
LEMMA LeavingIsInTime ==
  ASSUME LateInv, WindowInv', [RunNext]_runVars, pc' = "done"
  PROVE  LateInv'
<1>0. LateByOutages /\ WindowInv /\ IInv /\ ClockTypes /\ NoLostTime
  BY Zenon DEF LateInv, WindowInv
<1>1. /\ exits' = exits \/ exits' = exits + 1
      /\ \/ UNCHANGED <<observeLeft, learnLeft>>
         \/ \E g \in Nat : GivesBack(g)
  <2>1. ASSUME NEW s \in Sources, RunWrite(s) \/ RunExit(s)
        PROVE  (exits' = exits \/ exits' = exits + 1) /\ UNCHANGED <<observeLeft, learnLeft>>
    BY <2>1, Zenon DEF RunWrite, RunExit, sameHistory, deadlines
  <2>2. CASE RunInterrupt \/ RunFallThrough \/ Turn \/ Until \/ UNCHANGED runVars
    BY <2>2, Zenon DEF RunInterrupt, RunFallThrough, Turn, Until, sameHistory, deadlines, runVars
  <2>3. ASSUME NEW s \in Sources, RunService(s) \/ RunHandle(s) \/ Crash(s)
        PROVE  exits' = exits /\ \E g \in Nat : GivesBack(g)
    <3>1. (service(s) \/ Handle(s) \/ Raise(s)) /\ OnResume(s) /\ exits' = exits
      BY <2>3, Zenon DEF RunService, RunHandle, Crash, Handle, sameHistory
    <3> QED
      BY <1>0, <3>1, OutagesAreGivenBack
  <2>4. ASSUME NEW d \in {0, 1}, RunSelect(d) PROVE FALSE
    BY <2>4, Zenon DEF RunSelect, Select
  <2> QED
    BY <2>1, <2>2, <2>3, <2>4, Zenon DEF RunNext, RunLoop
<1>2. exits \in Nat /\ observeLeft \in Int /\ learnLeft \in Int
  BY <1>0, RunAssumption, SMT DEF ClockTypes
<1>3. PICK m \in Nat, n \in Nat : m = exits * OutageTime /\ n = exits' * OutageTime /\ m <= n
  <2>1. exits * OutageTime \in Nat /\ exits' * OutageTime \in Nat /\ exits * OutageTime <= exits' * OutageTime
    <3>1. exits' \in Nat /\ exits <= exits'
      BY <1>1, <1>2, SMT
    <3> QED
      BY <1>2, <3>1, OutagesAddUp, Zenon
  <2> QED
    BY <2>1
<1>4. observeLeft >= -m /\ learnLeft >= -m
  BY <1>0, <1>3, Zenon DEF LateByOutages
<1>5. observeLeft' >= -n /\ learnLeft' >= -n
  <2>1. CASE UNCHANGED <<observeLeft, learnLeft>>
    <3>1. observeLeft >= -n /\ learnLeft >= -n
      BY <1>2, <1>3, <1>4, SMT
    <3> QED
      BY <2>1, <3>1, Zenon
  <2>2. ASSUME NEW g \in Nat, GivesBack(g) PROVE observeLeft' >= -n /\ learnLeft' >= -n
    <3>1. /\ observeLeft' = observeLeft + g \/ observeLeft' = observeLeft
          /\ learnLeft' = learnLeft + g \/ learnLeft' = learnLeft
      BY <2>2, Zenon DEF GivesBack
    <3>2. /\ observeLeft + g >= -n /\ observeLeft >= -n
          /\ learnLeft + g >= -n /\ learnLeft >= -n
      BY <1>2, <1>3, <1>4, SMT
    <3> QED
      BY <3>1, <3>2, Zenon
  <2> QED
    BY <1>1, <2>1, <2>2
<1>6. LateByOutages'
  BY <1>3, <1>5, Zenon DEF LateByOutages
<1> QED
  BY <1>6 DEF LateInv

\* Every step keeps the windows in time.
LEMMA StepLateInv == ASSUME LateInv, [RunNext]_runVars PROVE LateInv'
<1>0. WindowInv /\ phase \in {"observe", "learn", "evaluate"}
  BY Zenon DEF LateInv, WindowInv
<1>1. WindowInv'
  BY <1>0, StepWindowInv
<1>2. CASE pc' = "done"
  BY <1>1, <1>2, LeavingIsInTime
<1>3. CASE pc' # "done"
  <2>1. CASE (\E s \in Sources : RunWrite(s) \/ RunExit(s)) \/ Turn \/ UNCHANGED runVars
    BY <1>1, <1>3, <2>1, OthersStayInTime
  <2>2. CASE Until
    BY <1>1, <1>3, <2>2, UntilStaysInTime
  <2>3. ASSUME NEW d \in {0, 1}, RunSelect(d) PROVE LateInv'
    BY <1>1, <2>3, SelectStaysInTime
  <2>4. ASSUME NEW s \in Sources, RunService(s) \/ RunHandle(s) PROVE LateInv'
    <3>1. (service(s) \/ Handle(s)) /\ OnResume(s) /\ exits' = exits
      BY <2>4, Zenon DEF RunService, RunHandle, Handle, sameHistory
    <3>2. phase' \in {phase, "evaluate"}
      <4>1. UNCHANGED endVars \/ dispatch(s)
        BY <2>4, Zenon DEF RunService, RunHandle
      <4>2. UNCHANGED endVars \/ _end_learn("stable")
        BY <4>1, Zenon DEF dispatch
      <4> QED
        BY <4>2, Zenon DEF endVars, _end_learn, _start_evaluate, StopWith
    <3> QED
      BY <1>1, <1>3, <3>1, <3>2, SourceStaysInTime
  <2>5. CASE RunInterrupt \/ RunFallThrough \/ \E s \in Sources : Crash(s)
    BY <1>3, <2>5, Zenon DEF RunInterrupt, RunFallThrough, Crash, Interrupt, FallThrough, Leave, Raise,
         KillAll
  <2> QED
    BY <2>1, <2>2, <2>3, <2>4, <2>5, Zenon DEF RunNext, RunLoop
<1> QED
  BY <1>2, <1>3

\* No window is late before the first outage.
LEMMA InitLateInv == RunInit => LateInv
<1> SUFFICES ASSUME RunInit PROVE LateInv
  OBVIOUS
<1>1. WindowInv
  BY InitWindowInv
<1>2. down = {} /\ pc = "until"
  BY Zenon DEF RunInit, Init
<1>3. PICK n \in Nat : n = Allowed
  BY <1>1, <1>2, AllowedIsNat
<1>4. observeLeft + n >= 0 /\ learnLeft + n >= 0
  BY RunAssumption, SMT DEF RunInit
<1>5. InTime
  BY <1>2, <1>3, <1>4, Zenon DEF InTime
<1>6. PassWaits /\ StaysOpen
  BY <1>2, Zenon DEF PassWaits, StaysOpen
<1> QED
  BY <1>1, <1>2, <1>5, <1>6, InTimeIsLateByOutages, Zenon DEF LateInv

\* Outages hold a window open no longer than they last: one budget of backoffs, one grace
\* and one poll for each exit, for any retries, cap, windows and overlap; and the bound on
\* lateness, where the model would stop its clocks, is never reached.
LEMMA WindowsEnd == RunSpec => []WindowsEndInTime
<1>1. LateInv /\ [RunNext]_runVars => LateInv'
  BY StepLateInv
<1>2. LateInv => WindowsEndInTime
  <2> SUFFICES ASSUME LateInv PROVE LateByOutages /\ OnTime
    BY DEF WindowsEndInTime
  <2>1. LateByOutages /\ observeLeft \in Int /\ learnLeft \in Int /\ exits \in 0..MaxExits
    BY Zenon DEF LateInv, WindowInv, ClockTypes
  <2>2. exits * OutageTime \in Nat /\ MaxExits * OutageTime \in Nat /\ exits * OutageTime <= MaxExits * OutageTime
    <3>1. exits \in Nat /\ MaxExits \in Nat /\ exits <= MaxExits
      BY <2>1, RunAssumption, SMT
    <3> QED
      BY <3>1, OutagesAddUp, Zenon
  <2>3. PICK m \in Nat, n \in Nat : m = exits * OutageTime /\ n = MaxExits * OutageTime /\ m <= n
    BY <2>2
  <2>4. observeLeft >= -m /\ learnLeft >= -m /\ MaxLate > n /\ MaxLate \in Nat
    BY <2>1, <2>3, LatenessAssumption, RunAssumption, Zenon DEF LateByOutages
  <2>5. observeLeft > -MaxLate /\ learnLeft > -MaxLate
    BY <2>1, <2>3, <2>4, SMT
  <2> QED
    BY <2>1, <2>5 DEF OnTime
<1> QED
  BY InitLateInv, <1>1, <1>2, PTL DEF RunSpec

\* Windows keep their length: closed by its deadline, a window was watched in full by every
\* capture that is still there, and it outlasts its deadline no longer than the outages
\* lasted.  For any windows, retry budget and number of outages, and whatever their overlap.
THEOREM WindowsKeepLength == RunSpec => WindowsKeepTheirLength
BY WindowsAreFull, WindowsEnd, PTL DEF WindowsKeepTheirLength

-----------------------------------------------------------------------------
(* The order and the windows of a replay.                                  *)

\* The windows of a replay count frame time from the first frame.
ReplayClock ==
  IF now = Unstamped
  THEN /\ first = Unstamped /\ phase = "observe"
       /\ observeLeft = Observe /\ learnLeft = Observe + Learn
  ELSE /\ first # Unstamped /\ first <= now
       /\ phase = "observe" => observeLeft = Observe - (now - first)
       /\ phase # "evaluate" => learnLeft = Observe + Learn - (now - first)
       /\ phase = "learn" => now - first >= Observe

InTimeOrder == \A s \in Sources : InOrder(given[s])

\* The stamped lines of l are in time order; none is before time.
Ordered(l) == \A i, j \in 1..Len(l) : i < j /\ l[i] # Unstamped /\ l[j] # Unstamped => l[i] <= l[j]
AllFrom(time, l) == \A i \in 1..Len(l) : l[i] # Unstamped => time <= l[i]

\* A line is fetched under the time of its source's line before: from there on, and from
\* the time of the merge on, is all that source has left.
SourceTimely(s) ==
  /\ Ordered(lines[s]) /\ AllFrom(now, lines[s])
  /\ record[s] = <<>> /\ pending[s] = {} /\ lines[s] # <<>> => Head(lines[s]) # Unstamped
  /\ pending[s] = {} /\ lines[s] # <<>> => record[s] = <<>> \/ s = picked
  /\ \A x \in pending[s] : /\ x.ts # Unstamped /\ x.raw \in {Unstamped, x.ts}
                           /\ now <= x.ts /\ AllFrom(x.ts, lines[s])

Timely ==
  returned = "running" /\ InTimeOrder =>
    /\ now = last_ts /\ (record[picked] # <<>> => now # Unstamped)
    /\ \A s \in Sources : SourceTimely(s)

\* What is left behind the head of ordered lines.
LEMMA TailIsOrdered ==
  ASSUME NEW l \in Seq(Times), l # <<>>, Ordered(l)
  PROVE  /\ Tail(l) \in Seq(Times) /\ Head(l) \in Times
         /\ Ordered(Tail(l)) /\ (Head(l) # Unstamped => AllFrom(Head(l), Tail(l)))
         /\ \A time \in Times : AllFrom(time, l) =>
              AllFrom(time, Tail(l)) /\ (Head(l) # Unstamped => time <= Head(l))
<1>1. /\ Head(l) \in Times /\ Tail(l) \in Seq(Times) /\ Len(l) \in Nat \ {0}
      /\ Len(Tail(l)) = Len(l) - 1 /\ Head(l) = l[1]
      /\ \A i \in 1..Len(Tail(l)) : Tail(l)[i] = l[i + 1]
  BY EmptySeq, HeadTailProperties, SMT
<1>2. 1 \in 1..Len(l) /\ \A i \in 1..Len(Tail(l)) : i + 1 \in 1..Len(l) /\ 1 < i + 1
  BY <1>1, SMT
<1>3. Ordered(Tail(l))
  <2> SUFFICES ASSUME NEW i \in 1..Len(Tail(l)), NEW j \in 1..Len(Tail(l)), i < j,
                      Tail(l)[i] # Unstamped, Tail(l)[j] # Unstamped
               PROVE  Tail(l)[i] <= Tail(l)[j]
    BY Zenon DEF Ordered
  <2>1. i + 1 < j + 1 /\ i + 1 \in 1..Len(l) /\ j + 1 \in 1..Len(l)
    BY <1>2, SMT
  <2> QED
    BY <1>1, <2>1, Zenon DEF Ordered
<1>4. Head(l) # Unstamped => AllFrom(Head(l), Tail(l))
  BY <1>1, <1>2, Zenon DEF Ordered, AllFrom
<1>5. \A time \in Times : AllFrom(time, l) =>
        AllFrom(time, Tail(l)) /\ (Head(l) # Unstamped => time <= Head(l))
  BY <1>1, <1>2, Zenon DEF AllFrom
<1> QED
  BY <1>1, <1>3, <1>4, <1>5

\* The line fill holds of a source is of no earlier time than the merge, and of no later
\* than what the source gives after it.
FilledTimely(s) ==
  \A x \in Filled(s) :
    /\ x.ts \in Nat /\ x.raw \in {Unstamped, x.ts} /\ now <= x.ts
    /\ AllFrom(x.ts, IF pending[s] = {} THEN Tail(lines[s]) ELSE lines[s])

\* A line fetched in the order of its source is no earlier than what was yielded.
LEMMA FillIsTimely ==
  ASSUME ReplayTypes, NEW s \in Sources, now = last_ts, record[picked] # <<>> => now # Unstamped,
         SourceTimely(s)
  PROVE  FilledTimely(s)
<1>t. lines[s] \in Seq(Times) /\ pending[s] \in Fetched /\ now \in Times
  BY Zenon DEF ReplayTypes
<1> SUFFICES ASSUME NEW x \in Filled(s)
             PROVE  /\ x.ts \in Nat /\ x.raw \in {Unstamped, x.ts} /\ now <= x.ts
                    /\ AllFrom(x.ts, IF pending[s] = {} THEN Tail(lines[s]) ELSE lines[s])
  BY Zenon DEF FilledTimely
<1>1. CASE pending[s] # {}
  <2>1. x \in pending[s]
    BY <1>1, Zenon DEF Filled
  <2>2. x.ts \in Times
    BY <1>t, <2>1, Zenon DEF Fetched
  <2> QED
    BY <1>1, <2>1, <2>2, Zenon DEF SourceTimely, Times
<1>2. CASE pending[s] = {}
  <2> DEFINE raw == Head(lines[s])
  <2>1. lines[s] # <<>> /\ x = [ts |-> Stamp(raw), raw |-> raw]
    BY <1>2, Zenon DEF Filled
  <2>2. /\ raw \in Times /\ (raw # Unstamped => AllFrom(raw, Tail(lines[s])) /\ now <= raw)
        /\ AllFrom(now, Tail(lines[s]))
    BY <1>t, <2>1, TailIsOrdered, Zenon DEF SourceTimely
  <2>3. x.ts = Stamp(raw) /\ x.raw = raw
    BY <2>1, Zenon
  <2>4. raw = Unstamped => now # Unstamped
    <3> SUFFICES ASSUME raw = Unstamped PROVE now # Unstamped
      OBVIOUS
    <3>1. record[s] # <<>> /\ s = picked
      BY <1>2, <2>1, Zenon DEF SourceTimely
    <3> QED
      BY <3>1
  <2>5. CASE raw = Unstamped
    <3>1. x.ts = now /\ now \in Nat
      BY <1>t, <2>3, <2>4, <2>5, Zenon DEF Stamp, Times
    <3>2. now <= now
      BY <3>1, SMT
    <3> QED
      BY <1>2, <2>2, <2>3, <2>5, <3>1, <3>2, Zenon
  <2>6. CASE raw # Unstamped
    <3>1. x.ts = raw /\ raw \in Nat
      BY <2>2, <2>3, <2>6, Zenon DEF Stamp, Times
    <3> QED
      BY <1>2, <2>2, <2>3, <2>6, <3>1, Zenon
  <2> QED
    BY <2>5, <2>6
<1> QED
  BY <1>1, <1>2

\* The merge takes an earliest line, so what is left is of its time or later.
LEMMA MergeIsTimely ==
  ASSUME ReplayTypes, Timely, InTimeOrder, Merge
  PROVE  Timely' /\ MergedInOrder
<1>1. PICK src \in Sources, line \in [ts : Times, raw : Times] : Moves(src, line)
  BY MergeMoves
<1>2. returned = "running" /\ UNCHANGED <<given, returned>>
  BY Zenon DEF Merge
<1>3. \A s \in Sources : SourceTimely(s) /\ FilledTimely(s)
  <2>1. /\ now = last_ts /\ (record[picked] # <<>> => now # Unstamped)
        /\ \A s \in Sources : SourceTimely(s)
    BY <1>2, Zenon DEF Timely
  <2> QED
    BY <2>1, FillIsTimely, Zenon
<1>4. ReplayTypes'
  BY MergeKeepsTypes
<1>5. /\ picked' = src /\ Filled(src) = {line}
      /\ \A s \in Sources : /\ ~Before(s, src)
                            /\ pending'[s] = IF s = src THEN {} ELSE Filled(s)
                            /\ lines'[s] = IF pending[s] = {} /\ Filled(s) # {} THEN Tail(lines[s]) ELSE lines[s]
      /\ record'[src] = Append(record[src], line.raw)
      /\ last_ts' = IF line.ts = Unstamped THEN last_ts ELSE line.ts
      /\ advance(line.ts)
  BY <1>1, Zenon DEF Moves, ReplayTypes
<1>6. line.ts \in Nat /\ now <= line.ts
  BY <1>3, <1>5, Zenon DEF FilledTimely
<1>7. now' = line.ts /\ last_ts' = line.ts
  BY <1>5, <1>6, SMT DEF advance, Elapsed, ReplayTypes, Times, Unstamped
<1>8. \A s \in Sources : \A x \in Filled(s) : x.ts \in Nat /\ now' <= x.ts
  <2> SUFFICES ASSUME NEW s \in Sources, NEW x \in Filled(s) PROVE x.ts \in Nat /\ now' <= x.ts
    OBVIOUS
  <2>1. x.ts \in Nat
    BY <1>3, Zenon DEF FilledTimely
  <2>2. ~Earlier(x.ts, line.ts)
    BY <1>5, Zenon DEF Before
  <2> QED
    BY <1>6, <1>7, <2>1, <2>2, SMT DEF Earlier, Unstamped
<1>9. record'[src] # <<>>
  <2>1. record[src] \in Seq(Times) /\ line.raw \in Times
    BY Zenon DEF ReplayTypes
  <2>2. Append(record[src], line.raw) # <<>>
    BY <2>1, SMT
  <2> QED
    BY <1>5, <2>2, Zenon
<1>10. ASSUME NEW s \in Sources PROVE SourceTimely(s)'
  <2>t. lines[s] \in Seq(Times) /\ now' \in Times /\ lines'[s] \in Seq(Times)
    BY <1>4, Zenon DEF ReplayTypes
  <2>1. CASE Filled(s) = {}
    <3>1. lines[s] = <<>> /\ lines'[s] = <<>> /\ pending'[s] = {}
      BY <1>5, <2>1, FilledType, Zenon
    <3>2. \A i \in 1..Len(lines'[s]) : FALSE
      BY <3>1, SMT
    <3> QED
      BY <3>1, <3>2, Zenon DEF SourceTimely, Ordered, AllFrom
  <2>2. CASE Filled(s) # {}
    <3>1. PICK x \in Filled(s) : x.ts \in Nat /\ now' <= x.ts
      BY <1>8, <2>2, Zenon
    <3>2. lines'[s] = IF pending[s] = {} THEN Tail(lines[s]) ELSE lines[s]
      BY <1>5, <2>2, Zenon
    <3>3. AllFrom(x.ts, lines'[s])
      BY <1>3, <3>2, Zenon DEF FilledTimely
    <3>4. AllFrom(now', lines'[s])
      <4> SUFFICES ASSUME NEW i \in 1..Len(lines'[s]), lines'[s][i] # Unstamped PROVE now' <= lines'[s][i]
        BY Zenon DEF AllFrom
      <4>1. lines'[s][i] \in Times /\ x.ts <= lines'[s][i]
        BY <2>t, <3>3, ElementOfSeq, Zenon DEF AllFrom
      <4> QED
        BY <1>6, <1>7, <3>1, <4>1, SMT DEF Times, Unstamped
    <3>5. Ordered(lines'[s])
      <4>1. CASE pending[s] # {}
        BY <1>3, <3>2, <4>1, Zenon DEF SourceTimely
      <4>2. CASE pending[s] = {}
        <5>1. lines[s] # <<>>
          BY <2>2, <4>2, Zenon DEF Filled
        <5> QED
          BY <1>3, <2>t, <3>2, <4>2, <5>1, TailIsOrdered, Zenon DEF SourceTimely
      <4> QED
        BY <4>1, <4>2
    <3>6. CASE s = src
      <4>1. record'[s] # <<>> /\ s = picked' /\ pending'[s] = {}
        BY <1>5, <1>9, <3>6, Zenon
      <4> QED
        BY <3>4, <3>5, <4>1, Zenon DEF SourceTimely
    <3>7. CASE s # src
      <4>1. pending'[s] = Filled(s)
        BY <1>5, <3>7, Zenon
      <4>2. \A y \in pending'[s] : /\ y.ts # Unstamped /\ y.raw \in {Unstamped, y.ts}
                                   /\ now' <= y.ts /\ AllFrom(y.ts, lines'[s])
        <5> SUFFICES ASSUME NEW y \in Filled(s)
                     PROVE  /\ y.ts # Unstamped /\ y.raw \in {Unstamped, y.ts}
                            /\ now' <= y.ts /\ AllFrom(y.ts, lines'[s])
          BY <4>1, Zenon
        <5>1. y.ts \in Nat /\ y.raw \in {Unstamped, y.ts} /\ AllFrom(y.ts, lines'[s])
          BY <1>3, <3>2, Zenon DEF FilledTimely
        <5>2. y.ts # Unstamped
          BY <5>1, SMT DEF Unstamped
        <5> QED
          BY <1>8, <5>1, <5>2, Zenon
      <4> QED
        BY <2>2, <3>4, <3>5, <4>1, <4>2, Zenon DEF SourceTimely
    <3> QED
      BY <3>6, <3>7
  <2> QED
    BY <2>1, <2>2
<1>11. now' # Unstamped
  BY <1>6, <1>7, SMT DEF Unstamped
<1>12. Timely'
  BY <1>5, <1>7, <1>10, <1>11, Zenon DEF Timely
<1>13. MergedInOrder
  <2> SUFFICES ASSUME NEW s \in Sources, NEW later \in ToSet(lines'[s]) \union {x.raw : x \in pending'[s]},
                      later # Unstamped
               PROVE  later >= now'
    BY Zenon DEF MergedInOrder
  <2>t. lines'[s] \in Seq(Times) /\ pending'[s] \in Fetched /\ DOMAIN lines'[s] = 1..Len(lines'[s])
    BY <1>4, LenProperties, Zenon DEF ReplayTypes
  <2>1. CASE later \in ToSet(lines'[s])
    <3>1. PICK i \in 1..Len(lines'[s]) : later = lines'[s][i]
      BY <2>1, <2>t, Zenon DEF ToSet
    <3>2. now' <= later /\ later \in Times
      BY <1>10, <2>t, <3>1, ElementOfSeq, Zenon DEF SourceTimely, AllFrom
    <3> QED
      BY <1>6, <1>7, <3>2, SMT DEF Times, Unstamped
  <2>2. CASE later \in {x.raw : x \in pending'[s]}
    <3>1. PICK x \in pending'[s] : later = x.raw
      BY <2>2, Zenon
    <3>2. now' <= later /\ later \in Times
      BY <1>10, <2>t, <3>1, Zenon DEF SourceTimely, Fetched
    <3> QED
      BY <1>6, <1>7, <3>2, SMT DEF Times, Unstamped
  <2> QED
    BY <2>1, <2>2
<1> QED
  BY <1>12, <1>13

\* The other steps of a replay that runs on leave what is left alone.
LEMMA ReplayIsTimely ==
  ASSUME ReplayTypes, Timely, ReplayNext
  PROVE  Timely'
<1>1. CASE Merge
  <2>1. given' = given
    BY <1>1, Zenon DEF Merge
  <2> QED
    BY <1>1, <2>1, MergeIsTimely, Zenon DEF Timely, InTimeOrder
<1>2. CASE ~Merge
  <2> SUFFICES ASSUME returned' = "running" PROVE Timely'
    BY Zenon DEF Timely
  <2>1. UNCHANGED <<returned, given, lines, pending, record, last_ts, now, picked>>
    BY <1>2, Zenon DEF ReplayNext, Poll, Dispatch, EndOfInput, ReplayInterrupt
  <2> QED
    BY <2>1, Zenon DEF Timely, InTimeOrder, SourceTimely
<1> QED
  BY <1>1, <1>2

\* The phases follow the frame clock.
LEMMA ReplayKeepsClock ==
  ASSUME StageTypes, ReplayTypes, ClockTypes, ReplayClock, ReplayNext
  PROVE  ReplayClock'
<1>0. phase \in {"observe", "learn", "evaluate"} /\ Unstamped \notin Nat
  BY SMT DEF StageTypes, Unstamped
<1>i. /\ observeLeft \in Int /\ learnLeft \in Int /\ Observe \in Nat \ {0} /\ Learn \in Nat \ {0}
      /\ now \in Times /\ first \in Times
  BY RunAssumption, Zenon DEF ClockTypes, ReplayTypes
<1>1. CASE Merge
  <2>1. PICK src \in Sources, line \in [ts : Times, raw : Times] : Moves(src, line)
    BY <1>1, MergeMoves
  <2>2. PICK ts \in Times : advance(ts)
    BY <2>1, Zenon DEF Moves
  <2>3. phase' = phase
    BY <1>1, Zenon DEF Merge, endVars
  <2>4. CASE now = Unstamped
    <3>1. now' = ts /\ first' = ts /\ observeLeft' = observeLeft - 0 /\ learnLeft' = learnLeft - 0
      BY <1>0, <2>2, <2>4, Zenon DEF advance, Elapsed, ReplayClock
    <3> QED
      BY <1>0, <1>i, <2>2, <2>3, <2>4, <3>1, SMT DEF ReplayClock, Times
  <2>5. CASE now # Unstamped
    <3>1. PICK e \in Nat : e = Elapsed(ts)
      BY <1>i, <2>2, SMT DEF Elapsed, Times, Unstamped
    <3>2. now' = now + e /\ now' \in Nat /\ now \in Nat /\ first \in Nat /\ first' = first
      BY <1>0, <1>i, <2>2, <2>5, <3>1, SMT DEF advance, ReplayClock, Times
    <3>3. /\ observeLeft' = IF phase = "observe" THEN observeLeft - e ELSE observeLeft
          /\ learnLeft' = IF phase # "evaluate" THEN learnLeft - e ELSE learnLeft
      BY <2>2, <3>1, Zenon DEF advance
    <3>4. now' # Unstamped
      BY <1>0, <3>2, Zenon
    <3> QED
      BY <1>i, <2>3, <2>5, <3>2, <3>3, <3>4, SMT DEF ReplayClock
  <2> QED
    BY <2>4, <2>5
<1>2. CASE ~Merge
  <2>1. UNCHANGED <<now, first, observeLeft, learnLeft>>
    BY <1>2, Zenon DEF ReplayNext, Poll, Dispatch, EndOfInput, ReplayInterrupt, deadlines
  <2>2. CASE now = Unstamped
    <3>1. phase' = phase
      <4>1. phase = "observe"
        BY <2>2, Zenon DEF ReplayClock
      <4> QED
        BY <1>2, <2>2, <4>1, Zenon DEF ReplayNext, Poll, Dispatch, EndOfInput, ReplayInterrupt, endVars,
             dispatch, Learning, end_of_input, learn_ends_with_input
    <3> QED
      BY <2>1, <2>2, <3>1, Zenon DEF ReplayClock
  <2>3. CASE now # Unstamped
    <3>1. \/ phase' = phase
          \/ phase' = "evaluate"
          \/ phase = "observe" /\ observeLeft <= 0
      <4>1. CASE Poll
        <5>1. tick
          BY <2>3, <4>1, Zenon DEF Poll
        <5> QED
          BY <1>0, <5>1, TickKinds, Zenon DEF tick, _end_learn, _start_evaluate, StopWith, endVars
      <4>2. CASE Dispatch
        BY <4>2, Zenon DEF Dispatch, dispatch, _end_learn, _start_evaluate, StopWith, endVars
      <4>3. CASE EndOfInput
        BY <4>3, Zenon DEF EndOfInput, end_of_input, learn_ends_with_input, _end_learn, _start_evaluate,
             StopWith, endVars
      <4>4. CASE ReplayInterrupt
        BY <4>4, Zenon DEF ReplayInterrupt, endVars
      <4> QED
        BY <1>2, <4>1, <4>2, <4>3, <4>4 DEF ReplayNext
    <3>2. phase' # "observe" \/ phase = "observe"
      BY <3>1, <1>2, <2>3, TickKinds, Zenon DEF ReplayNext, Poll, Dispatch, EndOfInput, ReplayInterrupt,
           dispatch, end_of_input, learn_ends_with_input, _end_learn, _start_evaluate, StopWith, endVars
    <3>3. now \in Nat /\ first \in Nat /\ first <= now
      BY <1>i, <2>3, Zenon DEF ReplayClock, Times
    <3> QED
      BY <1>0, <1>i, <2>1, <2>3, <3>1, <3>2, <3>3, SMT DEF ReplayClock
  <2> QED
    BY <2>2, <2>3
<1> QED
  BY <1>1, <1>2

\* A poll lets a line through in the window that its time falls in.
LEMMA PollIsInWindow ==
  ASSUME StageTypes, ReplayTypes, ClockTypes, ReplayClock, down = {}, Poll, at' = "dispatch", at = "until"
  PROVE  TakenInItsWindow
<1>1. ~stop' /\ (UNCHANGED phase \/ tick) /\ (now # Unstamped => tick)
      /\ (now = Unstamped => UNCHANGED phase)
  BY Zenon DEF Poll, endVars
<1>i. /\ observeLeft \in Int /\ learnLeft \in Int /\ Observe \in Nat \ {0} /\ Learn \in Nat \ {0}
      /\ now \in Times /\ first \in Times /\ phase \in {"observe", "learn", "evaluate"}
  BY RunAssumption, Zenon DEF ClockTypes, ReplayTypes, StageTypes
<1>2. CASE now = Unstamped
  <2>1. phase = "observe" /\ phase' = "observe" /\ now - first = 0
    BY <1>1, <1>2, SMT DEF ReplayClock, Unstamped
  <2> QED
    BY <1>i, <2>1, SMT DEF TakenInItsWindow
<1>3. CASE now # Unstamped
  <2>1. \/ /\ phase = "learn" /\ phase' \notin {"observe", "learn"}
           /\ ended' = "stable" \/ learnLeft <= 0
        \/ phase = "observe" /\ observeLeft <= 0 /\ phase' # "observe"
        \/ /\ phase' = phase
           /\ phase = "observe" => observeLeft > 0
           /\ phase = "learn" => learnLeft > 0
    BY <1>1, <1>3, TickKinds, Zenon
  <2>2. now \in Nat /\ first \in Nat
    BY <1>i, <1>3, Zenon DEF ReplayClock, Times
  <2>3. PICK time \in Int : time = now - first
    BY <2>2, SMT
  <2>4. /\ phase = "observe" => observeLeft = Observe - time
        /\ phase # "evaluate" => learnLeft = Observe + Learn - time
        /\ phase = "learn" => time >= Observe
    BY <1>i, <1>3, <2>2, <2>3, SMT DEF ReplayClock
  <2>5. "deadline" # "stable"
    OBVIOUS
  <2>6. CASE phase = "observe"
    BY <1>i, <2>1, <2>3, <2>4, <2>6, SMT DEF TakenInItsWindow
  <2>7. CASE phase = "learn"
    BY <1>i, <2>1, <2>3, <2>4, <2>5, <2>7, SMT DEF TakenInItsWindow
  <2>8. CASE phase = "evaluate"
    BY <1>i, <2>1, <2>8, SMT DEF TakenInItsWindow
  <2> QED
    BY <1>i, <2>6, <2>7, <2>8
<1> QED
  BY <1>2, <1>3

TimelyInv == ObserverInv /\ (capture = "replay" => ReplayClock /\ Timely)

\* A replay starts with nothing merged.
LEMMA InitTimely == ObserverInit => TimelyInv
<1> SUFFICES ASSUME ObserverInit PROVE TimelyInv
  OBVIOUS
<1>1. ObserverInv /\ RunInit /\ ReplayInit
  BY InitObserverInv DEF ObserverInit
<1>2. ReplayClock
  BY <1>1, Zenon DEF RunInit, ReplayInit, ReplayClock
<1>3. ASSUME InTimeOrder, NEW s \in Sources PROVE SourceTimely(s)
  <2>1. InOrder(lines[s]) /\ lines[s] \in Seq(Times) /\ now = Unstamped /\ pending[s] = {} /\ record[s] = <<>>
    BY <1>1, <1>3, Zenon DEF InTimeOrder, ReplayInit, ObserverInv, Fed, ReplayTypes
  <2>2. DOMAIN lines[s] = 1..Len(lines[s])
    BY <2>1, LenProperties, Zenon
  <2>3. Ordered(lines[s]) /\ (lines[s] # <<>> => Head(lines[s]) # Unstamped)
    BY <2>1, <2>2, Zenon DEF InOrder, Ordered
  <2>4. AllFrom(now, lines[s])
    <3> SUFFICES ASSUME NEW i \in 1..Len(lines[s]), lines[s][i] # Unstamped PROVE now <= lines[s][i]
      BY Zenon DEF AllFrom
    <3>1. lines[s][i] \in Times
      BY <2>1, ElementOfSeq, Zenon
    <3> QED
      BY <2>1, <3>1, SMT DEF Times, Unstamped
  <2> QED
    BY <2>1, <2>3, <2>4, Zenon DEF SourceTimely
<1>4. Timely
  <2>1. now = last_ts /\ record[picked] = <<>>
    BY <1>1, Zenon DEF ReplayInit, ObserverInv, Fed, ReplayTypes
  <2> QED
    BY <1>3, <2>1, Zenon DEF Timely
<1> QED
  BY <1>1, <1>2, <1>4 DEF TimelyInv

\* Every step of the observer keeps the order and the frame clock.
LEMMA StepTimely ==
  ASSUME TimelyInv, [ObserverNext]_<<runVars, replayVars>> PROVE TimelyInv'
<1>0. /\ ObserverInv /\ StageTypes /\ ReplayTypes /\ ClockTypes
      /\ capture = "replay" => ReplayClock /\ Timely
  BY Zenon DEF TimelyInv, ObserverInv, Ran, Fed
<1>1. ObserverInv'
  BY <1>0, StepObserverInvStutters
<1>2. CASE capture = "live" /\ RunNext /\ UNCHANGED replayVars
  <2>1. capture' = "live" /\ "live" # "replay"
    BY <1>2, Zenon DEF replayVars
  <2> QED
    BY <1>1, <2>1, Zenon DEF TimelyInv
<1>3. CASE capture = "replay" /\ ReplayNext
  BY <1>0, <1>1, <1>3, ReplayKeepsClock, ReplayIsTimely DEF TimelyInv
<1>4. CASE UNCHANGED <<runVars, replayVars>>
  <2>1. UNCHANGED <<capture, given, lines, pending, record, last_ts, now, picked, returned, first>>
        /\ UNCHANGED <<phase, observeLeft, learnLeft>>
    BY <1>4, Zenon DEF runVars, replayVars, deadlines, endVars
  <2>2. capture' = "replay" => ReplayClock' /\ Timely'
    BY <1>0, <2>1, Zenon DEF ReplayClock, Timely, InTimeOrder, SourceTimely
  <2> QED
    BY <1>1, <2>2 DEF TimelyInv
<1> QED
  BY <1>2, <1>3, <1>4 DEF ObserverNext

\* Every line of a replay takes its place, whatever the files and the windows: the merge
\* of sources in time order is in time order, and a line is taken in the window that its
\* time falls in.
THEOREM LinesAreInPlace == ObserverSpec => LinesTakeTheirPlace
<1> DEFINE InPlace ==
  /\ at = "merge" /\ at' = "until" /\ (\A s \in Sources : InOrder(given[s])) => MergedInOrder
  /\ at = "until" /\ at' = "dispatch" => TakenInItsWindow
<1>1. ASSUME TimelyInv, ObserverNext PROVE InPlace
  <2>0. /\ ObserverInv /\ StageTypes /\ ReplayTypes /\ ClockTypes
        /\ capture = "replay" => ReplayClock /\ Timely /\ down = {}
    BY <1>1, Zenon DEF TimelyInv, ObserverInv, OneInput, Ran, Fed
  <2>1. CASE capture = "live" /\ RunNext /\ UNCHANGED replayVars
    <3>1. at' = at /\ "merge" # "until" /\ "until" # "dispatch"
      BY <2>1, Zenon DEF replayVars
    <3> QED
      BY <3>1, Zenon
  <2>2. CASE capture = "replay" /\ ReplayNext
    <3>1. at = "merge" /\ at' = "until" => Merge
      BY <2>2, Zenon DEF ReplayNext, Poll, Dispatch, EndOfInput, ReplayInterrupt
    <3>2. at = "until" /\ at' = "dispatch" => Poll
      BY <2>2, Zenon DEF ReplayNext, Merge, Dispatch, EndOfInput, ReplayInterrupt
    <3> QED
      BY <2>0, <2>2, <3>1, <3>2, MergeIsTimely, PollIsInWindow, Zenon DEF InTimeOrder
  <2> QED
    BY <1>1, <2>1, <2>2 DEF ObserverNext
<1>2. TimelyInv /\ [ObserverNext]_<<runVars, replayVars>> => [InPlace]_<<runVars, replayVars>>
  BY <1>1, Zenon
<1>3. ObserverSpec => []TimelyInv
  BY InitTimely, StepTimely, PTL DEF ObserverSpec
<1> QED
  BY <1>2, <1>3, PTL DEF ObserverSpec, LinesTakeTheirPlace
=============================================================================
