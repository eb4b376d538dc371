------------------------------- MODULE Resume -------------------------------
(***************************************************************************)
(* What runs hand on: the profile and the grammar each run saves per silo  *)
(* (save_silo_profile, save_silo_grammar), and a later run started with    *)
(* --resume-from one of their directories (load_silo_state), with the      *)
(* observer killed between any two steps and in the middle of a file.      *)
(*                                                                         *)
(* A grammar is the phase config of the tracker it was learned with.  One  *)
(* observer runs at a time.  --grammar FILE is in ObserverRun.             *)
(***************************************************************************)
EXTENDS Integers

CONSTANTS
  Silos, Configs,   \* endpoints; the phase configs a calibration may derive
  Absent, Torn,     \* a file that is not there, and one cut off while it was written
  MaxRuns           \* bound: runs started

ASSUME ResumeAssumption ==
  /\ MaxRuns \in Nat
  /\ Absent \notin Configs /\ Torn \notin Configs /\ Absent # Torn
  /\ Absent \notin Silos

Runs    == 1..MaxRuns
Content == Configs \union {Absent, Torn}

VARIABLES
  profile,    \* <run>/silos/<endpoint>/profile.json, per run and silo
  grammar,    \* .../grammar.json
  run,        \* the run that is on or was last on, 0 before the first
  from,       \* its --resume-from, 0 without
  learn,      \* whether it was given --learn
  stage,      \* where it is, "dead" when none is on
  todo,       \* the silos the current loop has still to handle
  open,       \* the silo whose file is being written, or Absent
  evaluable, resumed,
  tracker,    \* per silo, the config its tracker judges with
  judge       \* per silo, the grammar it judges on

fileVars   == <<profile, grammar>>
argVars    == <<run, from, learn>>
siloVars   == <<evaluable, resumed, tracker, judge>>
resumeVars == <<fileVars, argVars, stage, todo, open, siloVars>>

Nothing == [s \in Silos |-> Absent]

ResumeInit ==
  /\ profile = [r \in Runs |-> Nothing] /\ grammar = [r \in Runs |-> Nothing]
  /\ run = 0 /\ from = 0 /\ learn = FALSE
  /\ stage = "dead" /\ todo = {} /\ open = Absent
  /\ evaluable = {} /\ resumed = {} /\ tracker = Nothing /\ judge = Nothing

StartRun ==
  /\ stage = "dead" /\ run < MaxRuns
  /\ run' = run + 1 /\ from' \in 0..run /\ learn' \in BOOLEAN
  /\ stage' = "observe"
  /\ UNCHANGED <<fileVars, todo, open, siloVars>>

\* The process is gone and what it had in memory with it.
Gone ==
  /\ stage' = "dead" /\ todo' = {} /\ open' = Absent
  /\ evaluable' = {} /\ resumed' = {} /\ tracker' = Nothing /\ judge' = Nothing
  /\ UNCHANGED <<fileVars, argVars>>

-----------------------------------------------------------------------------
(* _end_observe.                                                           *)

\* Each silo gets a tracker with the config calibrated from this window.
Calibrate ==
  /\ stage = "observe" /\ stage' = "profiles"
  /\ evaluable' \in (SUBSET Silos) \ {{}}
  /\ \E calibrated \in [Silos -> Configs] :
       tracker' = [s \in Silos |-> IF s \in evaluable' THEN calibrated[s] ELSE Absent]
  /\ todo' = evaluable'
  /\ UNCHANGED <<fileVars, argVars, open, resumed, judge>>

\* open(..., "w"): the file is there, its content is not.
OpenProfile(s) ==
  /\ stage = "profiles" /\ s \in todo /\ open = Absent
  /\ open' = s
  /\ profile' = [profile EXCEPT ![run][s] = Torn]
  /\ UNCHANGED <<grammar, argVars, stage, todo, siloVars>>

WriteProfile(s) ==
  /\ stage = "profiles" /\ open = s
  /\ profile' = [profile EXCEPT ![run][s] = tracker[s]]
  /\ open' = Absent /\ todo' = todo \ {s}
  /\ UNCHANGED <<grammar, argVars, stage, siloVars>>

ProfilesSaved ==
  /\ stage = "profiles" /\ todo = {}
  /\ stage' = "load"
  /\ todo' = IF from = 0 THEN {} ELSE evaluable
  /\ UNCHANGED <<fileVars, argVars, open, siloVars>>

\* load_silo_state; a profile that is not there leaves the calibrated one.
LearnsAfresh(s) ==
  /\ grammar[from][s] = Absent
  /\ UNCHANGED <<resumed, tracker, judge>>

\* Slipped: a grammar that was cut off is taken for one.
Resumes_torn(s) ==
  /\ grammar[from][s] # Absent
  /\ judge' = [judge EXCEPT ![s] = grammar[from][s]]
  /\ tracker' = IF profile[from][s] = Absent THEN tracker
                ELSE [tracker EXCEPT ![s] = profile[from][s]]
  /\ resumed' = resumed \union {s}

Resumes(s) ==
  /\ grammar[from][s] \in Configs /\ profile[from][s] # Torn
  /\ judge' = [judge EXCEPT ![s] = grammar[from][s]]
  /\ tracker' = IF profile[from][s] = Absent THEN tracker
                ELSE [tracker EXCEPT ![s] = profile[from][s]]
  /\ resumed' = resumed \union {s}

load_silo_state(s) ==
  /\ stage = "load" /\ s \in todo
  /\ LearnsAfresh(s) \/ Resumes(s)
  /\ todo' = todo \ {s}
  /\ UNCHANGED <<fileVars, argVars, stage, open, evaluable>>

\* A file cut off raises out of the run.
LoadRaises(s) ==
  /\ stage = "load" /\ s \in todo
  /\ \/ grammar[from][s] = Torn
     \/ grammar[from][s] # Absent /\ profile[from][s] = Torn
  /\ Gone

NothingToLearn == evaluable \subseteq resumed

Decide ==
  /\ stage = "load" /\ todo = {} /\ (NothingToLearn \/ learn)
  /\ stage' = IF NothingToLearn THEN "evaluate" ELSE "learn"
  /\ UNCHANGED <<fileVars, argVars, todo, open, siloVars>>

\* "nothing to do: pass --learn"
NothingToDo ==
  /\ stage = "load" /\ todo = {} /\ ~NothingToLearn /\ ~learn
  /\ Gone

-----------------------------------------------------------------------------
(* The learn window and _end_learn.                                        *)

\* A write of a resumed silo in the learn window is judged on no grammar.
LearnRaises ==
  /\ stage = "learn" /\ resumed # {}
  /\ Gone

\* Slipped: what resumed silos judge on is saved with the rest.
SavedAll == evaluable

Saved == evaluable \ resumed

EndLearn ==
  /\ stage = "learn" /\ stage' = "export"
  /\ todo' = Saved
  /\ judge' = [s \in Silos |-> IF s \in evaluable \ resumed THEN tracker[s] ELSE judge[s]]
  /\ UNCHANGED <<fileVars, argVars, open, evaluable, resumed, tracker>>

OpenGrammar(s) ==
  /\ stage = "export" /\ s \in todo /\ open = Absent
  /\ open' = s
  /\ grammar' = [grammar EXCEPT ![run][s] = Torn]
  /\ UNCHANGED <<profile, argVars, stage, todo, siloVars>>

WriteGrammar(s) ==
  /\ stage = "export" /\ open = s
  /\ grammar' = [grammar EXCEPT ![run][s] = judge[s]]
  /\ open' = Absent /\ todo' = todo \ {s}
  /\ UNCHANGED <<profile, argVars, stage, siloVars>>

GrammarsSaved ==
  /\ stage = "export" /\ todo = {}
  /\ stage' = "evaluate"
  /\ UNCHANGED <<fileVars, argVars, todo, open, siloVars>>

\* Ctrl-C, SIGTERM or the power: anywhere, and nothing is cleaned up.
Killed == stage # "dead" /\ Gone

ResumeNext ==
  \/ StartRun \/ Calibrate \/ ProfilesSaved \/ Decide \/ NothingToDo
  \/ LearnRaises \/ EndLearn \/ GrammarsSaved \/ Killed
  \/ \E s \in Silos : \/ OpenProfile(s) \/ WriteProfile(s) \/ load_silo_state(s)
                      \/ LoadRaises(s) \/ OpenGrammar(s) \/ WriteGrammar(s)

ResumeSpec == ResumeInit /\ [][ResumeNext]_resumeVars

-----------------------------------------------------------------------------
ResumeTypeOK ==
  /\ profile \in [Runs -> [Silos -> Content]]
  /\ grammar \in [Runs -> [Silos -> Content]]
  /\ run \in 0..MaxRuns /\ from \in 0..MaxRuns /\ learn \in BOOLEAN
  /\ stage \in {"dead", "observe", "profiles", "load", "learn", "export", "evaluate"}
  /\ todo \subseteq Silos /\ open \in Silos \union {Absent}
  /\ evaluable \subseteq Silos /\ resumed \subseteq Silos
  /\ tracker \in [Silos -> Configs \union {Absent}]
  /\ judge \in [Silos -> Configs \union {Absent}]

\* Whatever was killed before, a silo judges with the phase config its grammar was
\* learned with: "the tracker judges with the same numbers the grammar was learned
\* with" (load_silo_state), also through runs that resume one another.
JudgedWithItsProfile ==
  \A s \in evaluable :
    (stage = "evaluate" \/ (stage = "learn" /\ s \in resumed)) => judge[s] = tracker[s]
=============================================================================
