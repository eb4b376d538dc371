------------------------------ MODULE MCOutages ------------------------------
(***************************************************************************)
(* What outages do, at two magnifications (focus), of which a behaviour    *)
(* looks at one: the selector loop alone, under children that die as often *)
(* as they like, with a history of the respawns for the property that is   *)
(* about how fast a source may be started again; or the timed windows of a *)
(* run on top of it.                                                       *)
(***************************************************************************)
EXTENDS MCObserverRun

VARIABLES
  focus,        \* "loop" or "windows"
  sinceSpawn    \* loop: per source, time since its tshark was last respawned (capped)

vars == <<runVars, focus, sinceSpawn>>

\* No property looks at a longer time.
Horizon == Base + 1

Respawned(s) == s \notin registered /\ s \in registered'

\* The loop of a run that evaluates; what it makes of the traffic is left out.
Evaluating ==
  /\ args \in PlainLines /\ phase = "evaluate"
  /\ observeLeft = 0 /\ learnLeft = 0 /\ lostFor = [s \in Sources |-> 0]
  /\ obs = Sources /\ evaluable = Sources /\ learner = Sources
  /\ resumed = {} /\ writes = {} /\ grammar = [s \in Sources |-> "empty"]
  /\ stop = FALSE /\ rc = 0 /\ exits = 0
  /\ watched = [s \in Sources |-> 0] /\ ended = "deadline"

OutagesInit ==
  /\ sinceSpawn = [s \in Sources |-> Horizon]
  /\ \/ focus = "loop" /\ Init /\ Evaluating
     \/ focus = "windows" /\ RunInit

Remember(d) ==
  sinceSpawn' = [s \in Sources |->
    IF Respawned(s) THEN 0
    ELSE IF sinceSpawn[s] + d < Horizon THEN sinceSpawn[s] + d ELSE Horizon]

LoopNext ==
  \/ Select(1) /\ Remember(1)
  \/ Select(0) /\ Remember(0)
  \/ pc # "select" /\ Next /\ Remember(0)
  \/ pc = "select" /\ (Children \/ Interrupt) /\ Remember(0)

OutagesNext ==
  \/ /\ focus = "loop" /\ LoopNext
     /\ UNCHANGED <<focus, args, deadlines, lostFor, siloVars, endVars, exits, watched>>
  \/ focus = "windows" /\ RunNext /\ UNCHANGED <<focus, sinceSpawn>>

Turning == (focus = "loop" /\ Loop) \/ (focus = "windows" /\ RunLoop)

Waiting == (focus = "loop" /\ Select(1)) \/ (focus = "windows" /\ RunSelect(1))

\* Whatever is looked at, the loop never stops running, and select lets time pass again
\* and again.
OutagesFairness == WF_supervisorVars(Turning) /\ SF_supervisorVars(Waiting)

OutagesSpec == OutagesInit /\ [][OutagesNext]_vars /\ OutagesFairness

\* "A genuinely-down interface can never fork-loop": whether its attempts die
\* silently, after some bytes, or never launch, two tsharks of one source are
\* started at least the base backoff apart.
NoForkLoop == [][\A s \in Sources : focus = "loop" /\ Respawned(s) => sinceSpawn[s] >= Base]_vars
=============================================================================
