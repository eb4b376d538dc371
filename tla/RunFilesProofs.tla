--------------------------- MODULE RunFilesProofs ----------------------------
(***************************************************************************)
(* What a run finds and leaves on disk, however it ended.                  *)
(*                                                                         *)
(* For any number of runs, silos and phase configs, a silo judges with the *)
(* config its grammar was learned with.  The heart of it is FilesAgree: a  *)
(* grammar that is complete on disk has the complete profile of the same   *)
(* config beside it, because a run saves its profiles before it learns and *)
(* exports what it did not resume.                                         *)
(*                                                                         *)
(* For any frames on the wire, layers and --only, what a probe saw is run  *)
(* or reported, live and in replays of replays: a capture file is there    *)
(* only for what the probe of its own run claimed (CapturesWereClaimed).   *)
(*                                                                         *)
(* For any lines, verdicts and times, the record of a run tells the stream *)
(* of its events, whatever interrupts or kills it: EndsBehind says in      *)
(* which step the index, the counter and the stream may differ by one.     *)
(*                                                                         *)
(* For any label files, a report of that record counts each verdict once,  *)
(* because the index holds each under its own number (VerdictsAreTold).    *)
(***************************************************************************)
EXTENDS Resume, RunReport, Probe, FiniteSetTheorems, WellFoundedInduction, TLAPS

-----------------------------------------------------------------------------
(* Runs that resume one another (observe.py, --resume-from).               *)

\* While a run has not exported, its directory holds no grammar.
Unexported == {"observe", "profiles", "load", "learn"}

\* Once its profiles are saved.
Profiled == {"load", "learn", "export", "evaluate"}

FilesAgree ==
  /\ \A r \in Runs, s \in Silos : grammar[r][s] \in Configs => profile[r][s] = grammar[r][s]
  /\ \A r \in Runs, s \in Silos : r > run => grammar[r][s] = Absent
  /\ stage \in Unexported => \A s \in Silos : grammar[run][s] = Absent

RunIsOn ==
  /\ stage # "dead" => run \in Runs /\ from < run
  /\ stage = "load" /\ from = 0 => todo = {}

OneFileOpen ==
  IF stage \in {"profiles", "export"} THEN open # Absent => open \in todo ELSE open = Absent

\* What the silos hold in memory, against the profiles this run saved.
SilosFollow ==
  /\ stage \in {"dead", "observe"} => evaluable = {}
  /\ stage \in {"dead", "observe", "profiles"} => resumed = {}
  /\ resumed \subseteq evaluable
  /\ stage = "profiles" =>
       \A s \in evaluable : tracker[s] \in Configs /\ (s \notin todo => profile[run][s] = tracker[s])
  /\ stage \in Profiled =>
       \A s \in evaluable \ resumed : tracker[s] \in Configs /\ profile[run][s] = tracker[s]
  /\ \A s \in resumed : judge[s] = tracker[s]
  /\ stage \in {"export", "evaluate"} => \A s \in evaluable : judge[s] = tracker[s]
  /\ stage \in {"load", "profiles"} => todo \subseteq evaluable
  /\ stage = "export" => todo \subseteq evaluable \ resumed

ResumeIInv == ResumeTypeOK /\ FilesAgree /\ RunIsOn /\ OneFileOpen /\ SilosFollow

-----------------------------------------------------------------------------
(* The invariant.                                                          *)

\* The initial states satisfy the invariant.
LEMMA ResumeInitIInv == ResumeInit => ResumeIInv
<1> SUFFICES ASSUME ResumeInit PROVE ResumeIInv
  OBVIOUS
<1>1. Nothing \in [Silos -> Content] /\ Nothing \in [Silos -> Configs \union {Absent}]
  BY SMT DEF Nothing, Content
<1>2. ResumeTypeOK
  <2>1. profile \in [Runs -> [Silos -> Content]] /\ grammar \in [Runs -> [Silos -> Content]]
    BY <1>1, Zenon DEF ResumeInit
  <2>2. tracker \in [Silos -> Configs \union {Absent}] /\ judge \in [Silos -> Configs \union {Absent}]
    BY <1>1, Zenon DEF ResumeInit
  <2>3. run \in 0..MaxRuns /\ from \in 0..MaxRuns
    BY ResumeAssumption, SMT DEF ResumeInit
  <2>4. learn \in BOOLEAN /\ todo \subseteq Silos /\ evaluable \subseteq Silos /\ resumed \subseteq Silos
    BY Zenon DEF ResumeInit
  <2>5. open \in Silos \union {Absent} /\ stage = "dead"
    BY Zenon DEF ResumeInit
  <2> QED
    BY <2>1, <2>2, <2>3, <2>4, <2>5, Zenon DEF ResumeTypeOK
<1>3. FilesAgree
  BY ResumeAssumption, SMT DEF ResumeInit, FilesAgree, Nothing, Unexported
<1>4. RunIsOn /\ OneFileOpen /\ SilosFollow
  BY SMT DEF ResumeInit, RunIsOn, OneFileOpen, SilosFollow, Profiled
<1> QED
  BY <1>2, <1>3, <1>4 DEF ResumeIInv

\* A process that ends leaves its files as they are.
LEMMA ResumeGoneIInv ==
  ASSUME ResumeIInv, Gone
  PROVE  ResumeIInv'
  BY ResumeAssumption, SMT DEF Gone, Nothing, Runs, fileVars, argVars, ResumeIInv, ResumeTypeOK, FilesAgree, RunIsOn, OneFileOpen, SilosFollow, Content, Unexported, Profiled

\* The steps of one run.
LEMMA ResumeRunIInv ==
  ASSUME ResumeIInv, StartRun \/ Calibrate \/ ProfilesSaved \/ Decide \/ EndLearn \/ GrammarsSaved
  PROVE  ResumeIInv'
<1>1. CASE StartRun
  BY <1>1, ResumeAssumption, SMT DEF StartRun, fileVars, siloVars, Runs,
     ResumeIInv, ResumeTypeOK, FilesAgree, RunIsOn, OneFileOpen, SilosFollow,
     Content, Unexported, Profiled
<1>2. CASE Calibrate
  BY <1>2, ResumeAssumption, SMT DEF Calibrate, fileVars, argVars, Runs,
     ResumeIInv, ResumeTypeOK, FilesAgree, RunIsOn, OneFileOpen, SilosFollow,
     Content, Unexported, Profiled
<1>3. CASE ProfilesSaved
  BY <1>3, ResumeAssumption, SMT DEF ProfilesSaved, fileVars, argVars, siloVars, Runs,
     ResumeIInv, ResumeTypeOK, FilesAgree, RunIsOn, OneFileOpen, SilosFollow,
     Content, Unexported, Profiled
<1>4. CASE Decide
  BY <1>4, ResumeAssumption, SMT DEF Decide, NothingToLearn, fileVars, argVars, siloVars, Runs,
     ResumeIInv, ResumeTypeOK, FilesAgree, RunIsOn, OneFileOpen, SilosFollow,
     Content, Unexported, Profiled
<1>5. CASE EndLearn
  BY <1>5, ResumeAssumption, SMT DEF EndLearn, Saved, fileVars, argVars, Runs,
     ResumeIInv, ResumeTypeOK, FilesAgree, RunIsOn, OneFileOpen, SilosFollow,
     Content, Unexported, Profiled
<1>6. CASE GrammarsSaved
  BY <1>6, ResumeAssumption, SMT DEF GrammarsSaved, fileVars, argVars, siloVars, Runs,
     ResumeIInv, ResumeTypeOK, FilesAgree, RunIsOn, OneFileOpen, SilosFollow,
     Content, Unexported, Profiled
<1> QED
  BY <1>1, <1>2, <1>3, <1>4, <1>5, <1>6

\* The steps for one silo of the loop at hand.
LEMMA ResumeSiloIInv ==
  ASSUME ResumeIInv, NEW s \in Silos,
         \/ OpenProfile(s) \/ WriteProfile(s) \/ load_silo_state(s)
         \/ OpenGrammar(s) \/ WriteGrammar(s)
  PROVE  ResumeIInv'
<1>1. CASE OpenProfile(s)
  BY <1>1, ResumeAssumption, SMT DEF OpenProfile, argVars, siloVars, Runs,
     ResumeIInv, ResumeTypeOK, FilesAgree, RunIsOn, OneFileOpen, SilosFollow,
     Content, Unexported, Profiled
<1>2. CASE WriteProfile(s)
  BY <1>2, ResumeAssumption, SMT DEF WriteProfile, argVars, siloVars, Runs,
     ResumeIInv, ResumeTypeOK, FilesAgree, RunIsOn, OneFileOpen, SilosFollow,
     Content, Unexported, Profiled
<1>3. CASE load_silo_state(s)
  <2>1. from \in Runs /\ s \in evaluable /\ todo' = todo \ {s} /\ todo # {}
    BY <1>3, ResumeAssumption, SMT DEF load_silo_state, Runs, ResumeIInv, ResumeTypeOK, RunIsOn, SilosFollow
  <2>2. CASE LearnsAfresh(s)
    BY <1>3, <2>1, <2>2, SMT DEF load_silo_state, LearnsAfresh, fileVars, argVars,
       ResumeIInv, ResumeTypeOK, FilesAgree, RunIsOn, OneFileOpen, SilosFollow, Unexported, Profiled
  <2>3. CASE Resumes(s)
    <3>1. profile[from][s] = grammar[from][s] /\ grammar[from][s] \in Configs /\ grammar[from][s] # Absent
      BY <2>1, <2>3, ResumeAssumption, SMT DEF Resumes, ResumeIInv, FilesAgree
    <3>2. /\ tracker' = [tracker EXCEPT ![s] = grammar[from][s]]
          /\ judge' = [judge EXCEPT ![s] = grammar[from][s]]
          /\ resumed' = resumed \union {s}
      BY <2>3, <3>1, Zenon DEF Resumes
    <3>3. UNCHANGED <<fileVars, argVars, stage, open, evaluable>> /\ stage = "load"
      BY <1>3, Zenon DEF load_silo_state
    <3>4. ResumeTypeOK'
      BY <2>1, <3>1, <3>2, <3>3, SMT DEF ResumeIInv, ResumeTypeOK, fileVars, argVars
    <3>5. FilesAgree' /\ RunIsOn' /\ OneFileOpen'
      BY <2>1, <3>3, SMT DEF ResumeIInv, FilesAgree, RunIsOn, OneFileOpen, fileVars, argVars
    <3>6. SilosFollow'
      BY <2>1, <3>1, <3>2, <3>3, SMT DEF ResumeIInv, ResumeTypeOK, SilosFollow, Profiled, fileVars, argVars
    <3> QED
      BY <3>4, <3>5, <3>6 DEF ResumeIInv
  <2> QED
    BY <1>3, <2>2, <2>3 DEF load_silo_state
<1>4. CASE OpenGrammar(s)
  BY <1>4, ResumeAssumption, SMT DEF OpenGrammar, argVars, siloVars, Runs,
     ResumeIInv, ResumeTypeOK, FilesAgree, RunIsOn, OneFileOpen, SilosFollow,
     Content, Unexported, Profiled
<1>5. CASE WriteGrammar(s)
  BY <1>5, ResumeAssumption, SMT DEF WriteGrammar, argVars, siloVars, Runs,
     ResumeIInv, ResumeTypeOK, FilesAgree, RunIsOn, OneFileOpen, SilosFollow,
     Content, Unexported, Profiled
<1> QED
  BY <1>1, <1>2, <1>3, <1>4, <1>5

\* Every step keeps the invariant; those that raise or are killed leave only files.
LEMMA ResumeNextIInv == ResumeIInv /\ [ResumeNext]_resumeVars => ResumeIInv'
<1> SUFFICES ASSUME ResumeIInv, [ResumeNext]_resumeVars PROVE ResumeIInv'
  OBVIOUS
<1>1. CASE StartRun \/ Calibrate \/ ProfilesSaved \/ Decide \/ EndLearn \/ GrammarsSaved
  BY <1>1, ResumeRunIInv
<1>2. ASSUME NEW s \in Silos,
             \/ OpenProfile(s) \/ WriteProfile(s) \/ load_silo_state(s)
             \/ OpenGrammar(s) \/ WriteGrammar(s)
      PROVE  ResumeIInv'
  BY <1>2, ResumeSiloIInv
<1>3. CASE NothingToDo \/ LearnRaises \/ Killed \/ \E s \in Silos : LoadRaises(s)
  BY <1>3, ResumeGoneIInv DEF NothingToDo, LearnRaises, Killed, LoadRaises
<1>4. CASE UNCHANGED resumeVars
  BY <1>4, Zenon DEF resumeVars, fileVars, argVars, siloVars, ResumeIInv, ResumeTypeOK, FilesAgree,
     RunIsOn, OneFileOpen, SilosFollow
<1> QED
  BY <1>1, <1>2, <1>3, <1>4 DEF ResumeNext

\* The invariant holds of every behaviour.
LEMMA ResumeInvariant == ResumeSpec => []ResumeIInv
  BY ResumeInitIInv, ResumeNextIInv, PTL DEF ResumeSpec

-----------------------------------------------------------------------------
\* Type correctness: whatever is cut off, no file that is torn or missing becomes the
\* config of a tracker or a grammar (load_silo_state).
THEOREM ResumeTypesCorrect == ResumeSpec => []ResumeTypeOK
  BY ResumeInvariant, PTL DEF ResumeIInv

\* A silo judges with the config its grammar was learned with, over any number of runs
\* that resume one another and are killed between any two steps (load_silo_state,
\* save_silo_profile, save_silo_grammar).
THEOREM ResumedJudgements == ResumeSpec => []JudgedWithItsProfile
<1>1. ResumeIInv => JudgedWithItsProfile
  BY Zenon DEF ResumeIInv, SilosFollow, JudgedWithItsProfile
<1> QED
  BY <1>1, ResumeInvariant, PTL

\* A complete grammar on disk has its profile beside it, also while a run is on.
THEOREM FilesStayTogether == ResumeSpec => []FilesAgree
  BY ResumeInvariant, PTL DEF ResumeIInv

-----------------------------------------------------------------------------
(* The probe, and the captures a replay starts from.                       *)

\* The layers a probe claims on some frames.
Claims(frames) ==
  {Layers[match_layer(f)] : f \in {g \in ToSet(frames) : Application(g) /\ match_layer(g) # 0}}

\* The files of a run, by layer.
AllAbsent(r) == \A l \in ToSet(Layers) : layer_tsv[r][l] = "absent"

ProbeTypes ==
  /\ step \in {"idle", "start", "probe", "layers", "sources", "run"}
  /\ launches \in 0..MaxLaunches /\ replayed \in 0..MaxLaunches
  /\ replayed < launches \/ replayed = 0
  /\ step # "idle" => launches >= 1
  /\ read \in Seq(Frames)
  /\ probe_tsv \in [1..MaxLaunches -> Seq(Frames) \union {NoFile}]
  /\ layer_tsv \in [1..MaxLaunches -> [ToSet(Layers) -> {"absent", "empty", "lines"}]]

\* A layer has a capture file only in a run whose own probe claimed it.
CapturesWereClaimed ==
  /\ \A r \in 1..MaxLaunches : \A l \in ToSet(Layers) :
       layer_tsv[r][l] # "absent" => r <= launches /\ l \in Claims(probe_tsv[r])
  /\ step \in {"start", "probe", "layers"} => AllAbsent(launches)

\* What was read is what is recorded, and of a replay all there was.
ProbeIsRecorded ==
  /\ step = "start" => read = <<>>
  /\ step \in {"probe", "layers", "sources", "run"} => probe_tsv[launches] = read
  /\ step \in {"layers", "sources", "run"} /\ replayed # 0 => read = probe_tsv[replayed]

\* What was made of what was read.
ProbeIsClassified ==
  /\ claimed = Claims(read)
  /\ unclaimed = UNION {Unclaimed(f) : f \in ToSet(read)}
  /\ step \in {"layers", "sources", "run"} => surfaced = {u[1] : u \in unclaimed}

\* Every layer that was claimed is left out, waits for its source, has one, or has no
\* file to replay.
LayersAreKept ==
  /\ step \notin {"sources", "run"} => launching = {} /\ running = {}
  /\ step = "run" => launching = {}
  /\ notRun \subseteq claimed
  /\ step \in {"sources", "run"} =>
       /\ notRun = claimed \ run_layers
       /\ launching \subseteq run_layers /\ running \subseteq run_layers
       /\ \A l \in run_layers :
            \/ l \in launching \union running
            \/ replayed # 0 /\ layer_tsv[replayed][l] = "absent"

ProbeInv == ProbeTypes /\ CapturesWereClaimed /\ ProbeIsRecorded /\ ProbeIsClassified /\ LayersAreKept

\* Nothing is read and nothing is on disk.
LEMMA ProbeInitInv == ProbeInit => ProbeInv
<1> SUFFICES ASSUME ProbeInit PROVE ProbeInv
  OBVIOUS
<1> USE ProbeAssumption DEF ProbeInit
<1>1. ProbeTypes
  <2>1. read \in Seq(Frames)
    OBVIOUS
  <2>2. /\ probe_tsv \in [1..MaxLaunches -> Seq(Frames) \union {NoFile}]
        /\ layer_tsv \in [1..MaxLaunches -> [ToSet(Layers) -> {"absent", "empty", "lines"}]]
    OBVIOUS
  <2> QED
    BY <2>1, <2>2 DEF ProbeTypes
<1>2. ToSet(read) = {}
  BY DEF ToSet
<1>3. ProbeIsClassified
  BY <1>2 DEF ProbeIsClassified, Claims
<1>4. CapturesWereClaimed /\ ProbeIsRecorded /\ LayersAreKept
  BY DEF CapturesWereClaimed, ProbeIsRecorded, LayersAreKept
<1> QED
  BY <1>1, <1>3, <1>4 DEF ProbeInv

\* One more frame is one more claim, or one more server unread.
LEMMA FramesAdd ==
  ASSUME NEW frames \in Seq(Frames), NEW f \in Frames
  PROVE  /\ ToSet(Append(frames, f)) = ToSet(frames) \union {f}
         /\ Claims(Append(frames, f)) =
              IF Application(f) /\ match_layer(f) # 0
              THEN Claims(frames) \union {Layers[match_layer(f)]} ELSE Claims(frames)
<1>1. ToSet(Append(frames, f)) = ToSet(frames) \union {f}
  <2> DEFINE longer == Append(frames, f)
  <2>1. /\ DOMAIN longer = 1..(Len(frames) + 1) /\ DOMAIN frames = 1..Len(frames)
        /\ \A i \in 1..Len(frames) : longer[i] = frames[i]
        /\ longer[Len(frames) + 1] = f /\ Len(frames) \in Nat
    OBVIOUS
  <2> HIDE DEF longer
  <2>2. DOMAIN longer = DOMAIN frames \union {Len(frames) + 1}
    BY <2>1
  <2>3. {longer[i] : i \in DOMAIN longer} = {frames[i] : i \in DOMAIN frames} \union {f}
    BY <2>1, <2>2
  <2> QED
    BY <2>3 DEF ToSet, longer
<1> QED
  BY <1>1, Zenon DEF Claims

\* Starting a run and opening its probe file.
LEMMA ProbeStarts ==
  ASSUME ProbeInv, Launch \/ OpenProbe
  PROVE  ProbeInv'
<1> USE ProbeAssumption DEF ProbeInv, foundVars, fileOfVars
<1>1. CASE Launch
  <2> USE <1>1 DEF Launch
  <2>1. ProbeTypes'
    BY DEF ProbeTypes
  <2>2. ToSet(<<>>) = {}
    BY DEF ToSet
  <2>3. ProbeIsClassified'
    BY <2>2 DEF ProbeIsClassified, Claims
  <2>4. CapturesWereClaimed'
    BY DEF CapturesWereClaimed, AllAbsent, ProbeTypes
  <2>5. ProbeIsRecorded' /\ LayersAreKept'
    BY DEF ProbeIsRecorded, LayersAreKept
  <2> QED
    BY <2>1, <2>3, <2>4, <2>5
<1>2. CASE OpenProbe
  <2> USE <1>2 DEF OpenProbe
  <2>1. ProbeTypes'
    <3>1. <<>> \in Seq(Frames)
      OBVIOUS
    <3> QED
      BY <3>1 DEF ProbeTypes
  <2>2. CapturesWereClaimed'
    BY DEF CapturesWereClaimed, AllAbsent, ProbeTypes
  <2>3. ProbeIsRecorded'
    BY DEF ProbeIsRecorded, ProbeTypes
  <2>4. ProbeIsClassified' /\ LayersAreKept'
    BY DEF ProbeIsClassified, LayersAreKept
  <2> QED
    BY <2>1, <2>2, <2>3, <2>4
<1> QED
  BY <1>1, <1>2

\* A line of the probe is recorded and classified.
LEMMA ProbeReads ==
  ASSUME ProbeInv, NEW f \in Frames, ProbeLine(f)
  PROVE  ProbeInv'
<1> USE ProbeAssumption DEF ProbeInv, ProbeLine
<1>1. /\ ToSet(read') = ToSet(read) \union {f}
      /\ Claims(read') = IF Application(f) /\ match_layer(f) # 0
                         THEN Claims(read) \union {Layers[match_layer(f)]} ELSE Claims(read)
  BY FramesAdd DEF ProbeTypes
<1>2. ProbeTypes'
  <2>1. probe_tsv' \in [1..MaxLaunches -> Seq(Frames) \union {NoFile}]
    <3>1. probe_tsv[launches] \in Seq(Frames)
      BY DEF ProbeTypes, ProbeIsRecorded
    <3>2. Append(probe_tsv[launches], f) \in Seq(Frames)
      BY <3>1
    <3> QED
      BY <3>2 DEF ProbeTypes
  <2> QED
    BY <2>1 DEF ProbeTypes
<1>3. CapturesWereClaimed'
  <2>1. \A r \in 1..MaxLaunches : r # launches => probe_tsv'[r] = probe_tsv[r]
    BY DEF ProbeTypes
  <2>2. AllAbsent(launches)
    BY DEF CapturesWereClaimed
  <2>3. AllAbsent(launches)'
    BY <2>2 DEF AllAbsent
  <2> QED
    BY <2>1, <2>2, <2>3 DEF CapturesWereClaimed, AllAbsent
<1>4. ProbeIsRecorded'
  BY DEF ProbeIsRecorded, ProbeTypes
<1>5. ProbeIsClassified'
  <2>1. claimed' = Claims(read')
    BY <1>1 DEF ProbeIsClassified
  <2>2. unclaimed' = UNION {Unclaimed(g) : g \in ToSet(read')}
    BY <1>1 DEF ProbeIsClassified
  <2> QED
    BY <2>1, <2>2 DEF ProbeIsClassified, Claims
<1>6. LayersAreKept'
  BY DEF LayersAreKept
<1> QED
  BY <1>2, <1>3, <1>4, <1>5, <1>6

\* The end of the probe, and the choice among what it found.
LEMMA ProbeChooses ==
  ASSUME ProbeInv, ProbeEnds \/ Choose
  PROVE  ProbeInv'
<1> USE DEF ProbeInv, foundVars, fileOfVars
<1>1. CASE ProbeEnds
  <2> USE <1>1 DEF ProbeEnds
  <2>1. ProbeTypes'
    BY DEF ProbeTypes
  <2>2. CapturesWereClaimed' /\ ProbeIsRecorded'
    BY DEF CapturesWereClaimed, AllAbsent, ProbeIsRecorded
  <2>3. ProbeIsClassified' /\ LayersAreKept'
    BY DEF ProbeIsClassified, LayersAreKept
  <2> QED
    BY <2>1, <2>2, <2>3
<1>2. CASE Choose
  <2> USE <1>2 DEF Choose
  <2>1. ProbeTypes'
    BY DEF ProbeTypes
  <2>2. CapturesWereClaimed' /\ ProbeIsRecorded'
    BY DEF CapturesWereClaimed, AllAbsent, ProbeIsRecorded
  <2>3. ProbeIsClassified' /\ LayersAreKept'
    BY DEF ProbeIsClassified, LayersAreKept, run_layers
  <2> QED
    BY <2>1, <2>2, <2>3
<1> QED
  BY <1>1, <1>2

\* A source opens the file of its layer, and its first line fills it.
LEMMA ProbeRuns ==
  ASSUME ProbeInv, NEW l \in ToSet(Layers), Source(l) \/ Line(l)
  PROVE  ProbeInv'
<1> USE DEF ProbeInv, foundVars
<1>1. /\ step \in {"sources", "run"} /\ l \in run_layers /\ l \in Claims(probe_tsv[launches])
      /\ launches \in 1..MaxLaunches
  BY DEF Source, Line, LayersAreKept, ProbeIsClassified, ProbeIsRecorded, run_layers, ProbeTypes
<1>2. /\ UNCHANGED <<step, launches, replayed, only, read, foundVars, probe_tsv>>
      /\ \E what \in {"empty", "lines"} : layer_tsv' = [layer_tsv EXCEPT ![launches][l] = what]
  BY DEF Source, Line
<1>3. PICK what \in {"empty", "lines"} : layer_tsv' = [layer_tsv EXCEPT ![launches][l] = what]
  BY <1>2
<1>4. \A r \in 1..MaxLaunches : \A k \in ToSet(Layers) :
        layer_tsv'[r][k] = IF r = launches /\ k = l THEN what ELSE layer_tsv[r][k]
  BY <1>1, <1>3 DEF ProbeTypes
<1>5. ProbeTypes'
  BY <1>1, <1>2, <1>3 DEF ProbeTypes
<1>6. CapturesWereClaimed'
  BY <1>1, <1>2, <1>4 DEF CapturesWereClaimed, AllAbsent, Claims, ProbeTypes
<1>7. ProbeIsRecorded' /\ ProbeIsClassified'
  BY <1>2 DEF ProbeIsRecorded, ProbeIsClassified, Claims
<1>8. LayersAreKept'
  <2>1. replayed # 0 => /\ replayed \in 1..MaxLaunches /\ replayed # launches
                        /\ \A k \in ToSet(Layers) : layer_tsv'[replayed][k] = layer_tsv[replayed][k]
    BY <1>4 DEF ProbeTypes
  <2>2. CASE Source(l)
    BY <1>1, <2>1, <2>2 DEF Source, LayersAreKept, run_layers
  <2>3. CASE Line(l)
    BY <1>1, <2>1, <2>3 DEF Line, LayersAreKept, run_layers
  <2> QED
    BY <2>2, <2>3
<1> QED
  BY <1>5, <1>6, <1>7, <1>8

\* The run begins, and ends in any step.
LEMMA ProbeGoesOn ==
  ASSUME ProbeInv, Begin \/ End \/ UNCHANGED probeVars
  PROVE  ProbeInv'
<1> USE DEF ProbeInv, foundVars, fileOfVars
<1>1. CASE Begin
  BY <1>1 DEF Begin, ProbeTypes, CapturesWereClaimed, AllAbsent, ProbeIsRecorded, ProbeIsClassified,
     LayersAreKept, run_layers
<1>2. CASE End
  BY <1>2 DEF End, ProbeTypes, CapturesWereClaimed, AllAbsent, ProbeIsRecorded, ProbeIsClassified,
     LayersAreKept, run_layers
<1>3. CASE UNCHANGED probeVars
  BY <1>3, Zenon DEF probeVars, ProbeTypes, CapturesWereClaimed, AllAbsent, ProbeIsRecorded,
     ProbeIsClassified, LayersAreKept, run_layers
<1> QED
  BY <1>1, <1>2, <1>3

\* Every step keeps the invariant.
LEMMA ProbeNextInv == ProbeInv /\ [ProbeNext]_probeVars => ProbeInv'
  BY ProbeStarts, ProbeReads, ProbeChooses, ProbeRuns, ProbeGoesOn, Zenon DEF ProbeNext

\* The invariant holds of every probe and replay.
LEMMA ProbeInvariant == ProbeSpec => []ProbeInv
  BY ProbeInitInv, ProbeNextInv, PTL DEF ProbeSpec

\* The smallest of some positions.
LEMMA LeastPosition ==
  ASSUME NEW S, S \subseteq Nat, S # {}
  PROVE  Min(S) \in S /\ \A k \in S : Min(S) <= k
<1> DEFINE below == {ss \in Nat \X Nat : ss[1] < ss[2]}
<1>1. IsWellFoundedOn(below, Nat)
  BY NatLessThanWellFounded, Zenon DEF OpToRel
<1>2. \E m \in S : \A k \in S : ~(<<k, m>> \in below)
  BY <1>1, WFMin, Zenon
<1>3. PICK m \in S : \A k \in S : ~(<<k, m>> \in below)
  BY <1>2
<1>4. ASSUME NEW k \in S PROVE m <= k
  <2>1. k \in Nat /\ m \in Nat /\ ~(k < m)
    BY <1>3
  <2> QED
    BY <2>1
<1> QED
  BY <1>4 DEF Min

\* A frame is matched by no layer or by one there is.
LEMMA MatchesALayer ==
  ASSUME NEW f, match_layer(f) # 0
  PROVE  match_layer(f) \in 1..Len(Layers)
<1> DEFINE named == {i \in 1..Len(Layers) : Layers[i] \in f.names}
<1>1. match_layer(f) = IF named # {} THEN Min(named) ELSE 0
  BY DEF match_layer, SelectInSeq
<1>2. named # {} /\ match_layer(f) = Min(named)
  BY <1>1
<1>3. named \subseteq Nat /\ named \subseteq 1..Len(Layers)
  OBVIOUS
<1> HIDE DEF named
<1> QED
  BY <1>2, <1>3, LeastPosition

\* Of two endpoints at least one is the server of the pair.
LEMMA ServerOfThePair ==
  ASSUME NEW f \in Frames, Addressed(f)
  PROVE  server_of(f.src, f.dst) \in Servers(Pair(f))
  BY ProbeAssumption DEF Addressed, server_of, Servers, Pair

\* A claimed layer is run, reported as left out, or has no recorded file; traffic that
\* nothing reads has its server reported, and no other; and a replay runs every layer it
\* was left lines of, however often a record was replayed and recorded again.
THEOREM ProbesHideNothing == ProbeSpec => []ProbeHidesNothing
<1>1. ProbeInv => ProbeHidesNothing
  <2> SUFFICES ASSUME ProbeInv, step = "run" PROVE ProbeHidesNothing
    BY DEF ProbeHidesNothing
  <2>1. /\ launching = {} /\ notRun = claimed \ run_layers /\ claimed = Claims(read)
        /\ \A l \in run_layers : l \in running \/ (replayed # 0 /\ layer_tsv[replayed][l] = "absent")
        /\ unclaimed = UNION {Unclaimed(f) : f \in ToSet(read)}
        /\ surfaced = {u[1] : u \in unclaimed}
    BY DEF ProbeInv, LayersAreKept, ProbeIsClassified
  <2>2. ToSet(read) = {read[i] : i \in DOMAIN read} /\ read \in Seq(Frames)
    BY DEF ToSet, ProbeInv, ProbeTypes
  <2>3. ASSUME NEW i \in DOMAIN read, Application(read[i]), match_layer(read[i]) # 0
        PROVE  \/ Layers[match_layer(read[i])] \in running \union notRun
               \/ replayed # 0 /\ layer_tsv[replayed][Layers[match_layer(read[i])]] = "absent"
    <3>1. Layers[match_layer(read[i])] \in claimed
      BY <2>1, <2>2, <2>3 DEF Claims
    <3> QED
      BY <2>1, <3>1
  <2>4. ASSUME NEW i \in DOMAIN read, Unread(read[i])
        PROVE  Servers(Pair(read[i])) \intersect surfaced # {}
    <3> DEFINE s == server_of(read[i].src, read[i].dst)
    <3>1. <<s, read[i].app>> \in unclaimed
      BY <2>1, <2>2, <2>4 DEF Unclaimed
    <3>2. s \in surfaced
      BY <2>1, <3>1
    <3>3. s \in Servers(Pair(read[i]))
      BY <2>2, <2>4, ServerOfThePair DEF Unread
    <3> QED
      BY <3>2, <3>3
  <2>5. surfaced \subseteq _unclaimed_by_server(read)
    <3> SUFFICES ASSUME NEW s \in surfaced PROVE s \in _unclaimed_by_server(read)
      OBVIOUS
    <3>1. PICK f \in ToSet(read) : Unread(f) /\ s = server_of(f.src, f.dst)
      BY <2>1 DEF Unclaimed
    <3>2. s \in Servers(Pair(f))
      BY <2>2, <3>1, ServerOfThePair DEF Unread
    <3> QED
      BY <3>1, <3>2 DEF _unclaimed_by_server
  <2>6. {c[1] : c \in _servers_of(read)} \subseteq claimed
    BY <2>1 DEF _servers_of, Claims
  <2>7. ASSUME replayed # 0
        PROVE  /\ read = probe_tsv[replayed]
               /\ only = All => \A l \in ToSet(Layers) : layer_tsv[replayed][l] = "lines" => l \in running
    <3>1. read = probe_tsv[replayed] /\ replayed \in 1..MaxLaunches
      BY <2>7 DEF ProbeInv, ProbeIsRecorded, ProbeTypes
    <3>2. ASSUME only = All, NEW l \in ToSet(Layers), layer_tsv[replayed][l] = "lines"
          PROVE  l \in running
      <4>1. l \in Claims(probe_tsv[replayed])
        BY <3>1, <3>2 DEF ProbeInv, CapturesWereClaimed
      <4>2. l \in run_layers
        BY <2>1, <3>1, <3>2, <4>1 DEF run_layers
      <4> QED
        BY <2>1, <3>2, <4>2
    <3> QED
      BY <3>1, <3>2
  <2> QED
    BY <2>3, <2>4, <2>5, <2>6, <2>7, Zenon DEF ProbeHidesNothing
<1> QED
  BY <1>1, ProbeInvariant, PTL

\* The layers found, left out and run are layers of the extractors, and a probe file holds
\* frames or is not there.
THEOREM ProbeTypesCorrect == ProbeSpec => []ProbeTypeOK
<1>1. ProbeInv => ProbeTypeOK
  <2> SUFFICES ASSUME ProbeInv PROVE ProbeTypeOK
    OBVIOUS
  <2>1. Claims(read) \subseteq ToSet(Layers)
    BY MatchesALayer, ProbeAssumption DEF Claims, ToSet
  <2>2. claimed \union notRun \union launching \union running \subseteq ToSet(Layers)
    BY <2>1 DEF ProbeInv, ProbeIsClassified, LayersAreKept, run_layers, ProbeTypes
  <2>3. \A r \in 1..MaxLaunches : probe_tsv[r] = NoFile \/ probe_tsv[r] \in Seq(Frames)
    BY DEF ProbeInv, ProbeTypes
  <2>4. replayed < launches \/ launches = 0
    BY ProbeAssumption DEF ProbeInv, ProbeTypes
  <2> QED
    BY <2>2, <2>3, <2>4 DEF ProbeTypeOK, ProbeInv, ProbeTypes
<1> QED
  BY <1>1, ProbeInvariant, PTL

-----------------------------------------------------------------------------
(* The record of a run (RunRecord, Emitter, CaptureRecorder).              *)

Events ==
  [type : {"verdict"}, frame : 0..MaxTime, result : Results]
    \union [type : {"variable_value", "hold"}, frame : 0..MaxTime]

IndexedAs(n) == [seq : {n}, frame : 0..MaxTime, result : Results, target : {"valve"}]

RecordTypes ==
  /\ now \in 0..MaxTime /\ polls \in 0..MaxPolls
  /\ pipe \in Seq(Lines) /\ capture \in Seq(Lines)
  /\ at \in {"until", "select", "lines", "dispatch", "stdout", "events", "verdicts",
             "closing", "closed", "dead"}
  /\ period \in {"observe", "learn", "evaluate"}
  /\ line \in Lines \union {None} /\ flatDue \in Nat \union {None}
  /\ seq \in Nat /\ rc \in {None, 0}
  /\ stream \in Seq(Events) /\ verdicts \in Seq(UNION {IndexedAs(n) : n \in Nat})

Recorded(l) == \E j \in DOMAIN capture : capture[j] = l

\* Each line is recorded before anything is made of it; it is no later than the clock,
\* so the flats that repeat a sample are due the margin after it at the earliest.
RecordedFirst ==
  /\ \A i \in DOMAIN pipe : pipe[i].frame <= now
  /\ \A i \in DOMAIN stream : InTheCapture(stream[i])
  /\ at = "dispatch" => line \in Lines /\ Recorded(line) /\ line.frame <= now
  /\ at \in {"stdout", "events", "verdicts"} =>
       event \in Events /\ InTheCapture(event) /\ (IsVerdict(event) => event # None)
  /\ flatDue # None =>
       \E j \in DOMAIN capture : capture[j].kind # "write" /\ capture[j].frame + HoldAfter <= flatDue

Told   == JudgedIn(stream, Len(stream))
Listed == Len(verdicts)
Ended  == {"closing", "closed", "dead"}

\* How far the index and the counter are behind the stream.
EndsBehind ==
  /\ Told \in {Listed, Listed + 1} /\ seq \in {Listed, Told}
  /\ at \in {"until", "select", "lines", "dispatch", "stdout"} => Told = Listed
  /\ at \in {"events", "verdicts"} => stream # <<>> /\ stream[Len(stream)] = event
  /\ at = "events" => seq = Listed /\ (Told = Listed + 1 <=> IsVerdict(event))
  /\ at = "verdicts" => Told = Listed + 1 /\ seq = Told /\ IsVerdict(event)
  /\ Told = Listed + 1 => event # None

\* Each verdict that is in the index is there with its number.
IndexTellsTheStream ==
  \A i \in DOMAIN stream :
    LET n == JudgedIn(stream, i)
    IN  IsVerdict(stream[i]) /\ n <= Listed =>
          /\ verdicts[n].seq = n
          /\ verdicts[n].frame = stream[i].frame /\ verdicts[n].result = stream[i].result

ManifestTellsTheEnd ==
  /\ at # "closed" => manifest = None
  /\ at = "closed" => manifest = [exit_code |-> rc, verdicts |-> seq]
  /\ at \in {"closing", "closed"} /\ rc = None => Told = Listed

RecordInv ==
  RecordTypes /\ RecordedFirst /\ EndsBehind /\ IndexTellsTheStream /\ ManifestTellsTheEnd

\* Verdicts are counted by natural numbers, and never more than there are events.
LEMMA CountsAreNatural ==
  ASSUME NEW told, NEW n \in Nat
  PROVE  /\ IsFiniteSet({i \in 1..n : IsVerdict(told[i])})
         /\ JudgedIn(told, n) \in Nat
<1>1. IsFiniteSet(1..n)
  BY FS_Interval
<1>2. IsFiniteSet({i \in 1..n : IsVerdict(told[i])})
  BY <1>1, FS_Subset
<1> QED
  BY <1>2, FS_CardinalityType DEF JudgedIn

\* One more position is one more verdict, or none.
LEMMA CountStep ==
  ASSUME NEW told, NEW n \in Nat
  PROVE  JudgedIn(told, n + 1) = JudgedIn(told, n) + (IF IsVerdict(told[n + 1]) THEN 1 ELSE 0)
<1> DEFINE some == {i \in 1..n : IsVerdict(told[i])}
           more == {i \in 1..(n + 1) : IsVerdict(told[i])}
<1>1. IsFiniteSet(some) /\ Cardinality(some) \in Nat /\ n + 1 \notin some
  <2>1. n + 1 \notin some
    OBVIOUS
  <2> QED
    BY <2>1, CountsAreNatural, Zenon DEF JudgedIn
<1>2. more = IF IsVerdict(told[n + 1]) THEN some \union {n + 1} ELSE some
  <2>1. \A i : i \in 1..(n + 1) <=> i \in 1..n \/ i = n + 1
    OBVIOUS
  <2> QED
    BY <2>1, Zenon
<1>3. JudgedIn(told, n) = Cardinality(some) /\ JudgedIn(told, n + 1) = Cardinality(more)
  BY DEF JudgedIn
<1> HIDE DEF some, more
<1>4. Cardinality(some \union {n + 1}) = Cardinality(some) + 1
  BY <1>1, FS_AddElement
<1> QED
  BY <1>1, <1>2, <1>3, <1>4

\* The count up to an earlier position is no larger.
LEMMA CountsGrow ==
  ASSUME NEW told, NEW n \in Nat, NEW m \in Nat, n <= m
  PROVE  JudgedIn(told, n) <= JudgedIn(told, m)
<1>1. {i \in 1..n : IsVerdict(told[i])} \subseteq {i \in 1..m : IsVerdict(told[i])}
  OBVIOUS
<1> QED
  BY <1>1, CountsAreNatural, FS_Subset DEF JudgedIn

\* An event that is told leaves the counts before it, and is counted if it is a verdict.
LEMMA CountsAfterTelling ==
  ASSUME NEW told \in Seq(Events), NEW e \in Events
  PROVE  /\ \A n \in 0..Len(told) : JudgedIn(Append(told, e), n) = JudgedIn(told, n)
         /\ JudgedIn(Append(told, e), Len(told) + 1)
              = JudgedIn(told, Len(told)) + (IF IsVerdict(e) THEN 1 ELSE 0)
<1> DEFINE longer == Append(told, e)
<1>1. Len(told) \in Nat /\ longer[Len(told) + 1] = e /\ \A i \in 1..Len(told) : longer[i] = told[i]
  OBVIOUS
<1> HIDE DEF longer
<1>2. ASSUME NEW n \in 0..Len(told) PROVE JudgedIn(longer, n) = JudgedIn(told, n)
  <2>1. \A i \in 1..n : longer[i] = told[i]
    BY <1>1
  <2>2. {i \in 1..n : IsVerdict(longer[i])} = {i \in 1..n : IsVerdict(told[i])}
    BY <2>1
  <2> QED
    BY <2>2 DEF JudgedIn
<1>3. JudgedIn(longer, Len(told) + 1) = JudgedIn(longer, Len(told)) + (IF IsVerdict(e) THEN 1 ELSE 0)
  BY <1>1, CountStep
<1>4. JudgedIn(longer, Len(told)) = JudgedIn(told, Len(told))
  BY <1>1, <1>2
<1> QED
  BY <1>2, <1>3, <1>4 DEF longer

\* A run starts with nothing told and nothing kept.
LEMMA RecordInitInv == RecordInit => RecordInv
<1> SUFFICES ASSUME RecordInit PROVE RecordInv
  OBVIOUS
<1> USE RecordAssumption DEF RecordInit
<1>1. Len(stream) = 0 /\ Len(verdicts) = 0 /\ DOMAIN stream = {}
  OBVIOUS
<1>2. JudgedIn(stream, 0) = 0
  <2>1. {i \in 1..0 : IsVerdict(stream[i])} = {}
    OBVIOUS
  <2> QED
    BY <2>1, FS_EmptySet DEF JudgedIn
<1>3. RecordTypes
  BY DEF RecordTypes
<1>4. RecordedFirst /\ IndexTellsTheStream /\ ManifestTellsTheEnd
  BY <1>1 DEF RecordedFirst, IndexTellsTheStream, ManifestTellsTheEnd
<1>5. EndsBehind
  BY <1>1, <1>2 DEF EndsBehind, Told, Listed
<1> QED
  BY <1>3, <1>4, <1>5 DEF RecordInv

\* What the selector loop does between two lines.
LEMMA RecordPolls ==
  ASSUME RecordInv, Until \/ Select \/ EndOfRead \/ \E k \in Kinds : Captured(k)
  PROVE  RecordInv'
<1> USE RecordAssumption DEF RecordInv, diskVars, rotateVars
<1>1. /\ UNCHANGED <<capture, stream, events, verdicts, manifest, seq, rc, line, event, flatDue>>
      /\ at \in {"until", "select", "lines"} /\ at' \in {"until", "select", "lines"}
  BY DEF Until, Select, EndOfRead, Captured
<1>2. RecordTypes'
  <2>1. CASE \E k \in Kinds : Captured(k)
    <3>1. PICK k \in Kinds : Captured(k)
      BY <2>1
    <3>2. [frame |-> now, kind |-> k] \in Lines
      BY DEF RecordTypes, Lines
    <3> QED
      BY <1>1, <3>1, <3>2 DEF Captured, RecordTypes
  <2>2. CASE Until \/ Select \/ EndOfRead
    BY <1>1, <2>2 DEF Until, Select, EndOfRead, Ticked, RecordTypes
  <2> QED
    BY <2>1, <2>2
<1>3. Told' = Told /\ Listed' = Listed
  BY <1>1, Zenon DEF Told, Listed, JudgedIn
<1>4. EndsBehind' /\ IndexTellsTheStream' /\ ManifestTellsTheEnd'
  BY <1>1, <1>3 DEF EndsBehind, IndexTellsTheStream, ManifestTellsTheEnd, JudgedIn
<1>5. RecordedFirst'
  <2>1. \A i \in DOMAIN pipe' : pipe'[i].frame <= now'
    <3>1. pipe \in Seq(Lines) /\ now \in Nat /\ \A i \in DOMAIN pipe : pipe[i].frame <= now
      BY DEF RecordTypes, RecordedFirst
    <3>2. CASE \E k \in Kinds : Captured(k)
      <4>1. PICK k \in Kinds : Captured(k)
        BY <3>2
      <4> DEFINE l == [frame |-> now, kind |-> k]
      <4>2. l.frame = now
        OBVIOUS
      <4> HIDE DEF l
      <4>3. pipe' = Append(pipe, l) /\ now' = now
        BY <4>1 DEF Captured, l
      <4> QED
        BY <3>1, <4>2, <4>3
    <3>3. CASE Until \/ Select \/ EndOfRead
      <4>1. pipe' = pipe /\ now' >= now /\ now' \in Nat
        BY <3>1, <3>3 DEF Until, Select, EndOfRead
      <4>2. ASSUME NEW i \in DOMAIN pipe PROVE pipe[i].frame \in Nat
        <5>1. pipe[i] \in Lines
          BY <3>1
        <5> QED
          BY <5>1 DEF Lines
      <4> QED
        BY <3>1, <4>1, <4>2
    <3> QED
      BY <3>2, <3>3
  <2> QED
    BY <1>1, <2>1 DEF RecordedFirst, InTheCapture
<1> QED
  BY <1>2, <1>4, <1>5

\* A flat tells, if anything, what a sample began at least the margin ago.
LEMMA RecordFlats ==
  ASSUME RecordInv, Flat
  PROVE  RecordInv'
<1> USE RecordAssumption DEF RecordInv, diskVars, rotateVars, Flat
<1>1. /\ UNCHANGED <<now, pipe, capture, stream, verdicts, manifest, seq, rc, line>> /\ at = "until"
      /\ flatDue \in Nat /\ flatDue <= now /\ now \in 0..MaxTime /\ flatDue' = flatDue + HoldEvery
  BY DEF RecordTypes, FlatIsDue
<1>2. \/ event' = [type |-> "hold", frame |-> now] /\ at' = "stdout"
      \/ event' = event /\ at' = "until"
  BY <1>1
<1>3. Told' = Told /\ Listed' = Listed
  BY <1>1, Zenon DEF Told, Listed, JudgedIn
<1>4. RecordTypes'
  BY <1>1, <1>2 DEF RecordTypes
<1>5. RecordedFirst'
  <2>1. PICK j \in DOMAIN capture : capture[j].kind # "write" /\ capture[j].frame + HoldAfter <= flatDue
    BY DEF RecordedFirst, FlatIsDue
  <2>2. capture[j].frame \in Nat
    <3>1. capture[j] \in Lines
      BY <2>1 DEF RecordTypes
    <3> QED
      BY <3>1 DEF Lines
  <2>3. capture[j].frame + HoldAfter <= now /\ capture[j].frame + HoldAfter <= flatDue'
    BY <1>1, <2>1, <2>2
  <2>4. event' = [type |-> "hold", frame |-> now] =>
          event' \in Events /\ ~IsVerdict(event') /\ InTheCapture(event)'
    <3>1. ASSUME event' = [type |-> "hold", frame |-> now] PROVE event'.type = "hold" /\ event'.frame = now
      BY <3>1
    <3>2. ASSUME event' = [type |-> "hold", frame |-> now] PROVE event' \in Events
      BY <1>1, <3>2 DEF Events
    <3> QED
      BY <1>1, <2>1, <2>3, <3>1, <3>2 DEF InTheCapture, IsVerdict
  <2> QED
    BY <1>1, <1>2, <2>1, <2>3, <2>4 DEF RecordedFirst, InTheCapture
<1>6. IndexTellsTheStream'
  BY <1>1, <1>3 DEF IndexTellsTheStream, JudgedIn
<1>7. Told = Listed /\ seq = Told /\ Listed \in Nat /\ manifest = None
  BY <1>1 DEF EndsBehind, ManifestTellsTheEnd, Listed, RecordTypes
<1>8. at' \in {"until", "stdout"} /\ Told' = Listed' /\ seq' = Told' /\ Listed' \in Nat /\ manifest' = None
  BY <1>1, <1>2, <1>3, <1>7
<1>9. EndsBehind' /\ ManifestTellsTheEnd'
  <2>1. Listed' # Listed' + 1
    BY <1>3, <1>7
  <2>4. at' \in {"until", "stdout"} /\ Told' = Listed' /\ seq' = Listed'
    BY <1>8
  <2>2. EndsBehind'
    BY <2>1, <2>4, Zenon DEF EndsBehind
  <2>3. ManifestTellsTheEnd'
    BY <1>8, <2>1, Zenon DEF ManifestTellsTheEnd
  <2> QED
    BY <2>2, <2>3
<1> QED
  BY <1>4, <1>5, <1>6, <1>9

\* A line is recorded, and then taken for what it is.
LEMMA RecordReads ==
  ASSUME RecordInv, Record \/ Dispatch
  PROVE  RecordInv'
<1> USE RecordAssumption DEF RecordInv, diskVars, rotateVars
<1>1. UNCHANGED <<stream, verdicts, manifest, seq, rc>>
  BY DEF Record, Dispatch
<1>2. Told' = Told /\ Listed' = Listed
  BY <1>1, Zenon DEF Told, Listed, JudgedIn
<1>3. IndexTellsTheStream'
  BY <1>1, <1>2 DEF IndexTellsTheStream, JudgedIn
<1>4. CASE Record
  <2> USE <1>4 DEF Record
  <2>1. pipe \in Seq(Lines) /\ pipe # <<>> /\ capture \in Seq(Lines)
    BY DEF RecordTypes
  <2>2. line' \in Lines /\ pipe' \in Seq(Lines) /\ capture' = Append(capture, line') /\ capture' \in Seq(Lines)
    BY <2>1
  <2>3. RecordTypes'
    BY <2>2 DEF RecordTypes
  <2>4. /\ \A j \in DOMAIN capture : j \in DOMAIN capture' /\ capture'[j] = capture[j]
        /\ Len(capture) + 1 \in DOMAIN capture' /\ capture'[Len(capture) + 1] = line'
    BY <2>1, <2>2
  <2>5. RecordedFirst'
    <3>1. Recorded(line)'
      BY <2>4 DEF Recorded
    <3>2. ASSUME NEW i \in DOMAIN stream PROVE InTheCapture(stream[i])'
      BY <2>4 DEF RecordedFirst, InTheCapture
    <3>3. line'.frame <= now' /\ \A i \in DOMAIN pipe' : pipe'[i].frame <= now'
      BY <2>1 DEF RecordedFirst
    <3>4. flatDue' # None =>
            \E j \in DOMAIN capture' : capture'[j].kind # "write" /\ capture'[j].frame + HoldAfter <= flatDue'
      BY <2>4 DEF RecordedFirst
    <3> QED
      BY <1>1, <2>2, <3>1, <3>2, <3>3, <3>4 DEF RecordedFirst
  <2>6. EndsBehind' /\ ManifestTellsTheEnd'
    BY <1>1, <1>2 DEF EndsBehind, ManifestTellsTheEnd
  <2> QED
    BY <1>3, <2>3, <2>5, <2>6
<1>5. CASE Dispatch
  <2> USE <1>5 DEF Dispatch
  <2>1. PICK e \in EventsOf(line, period, Results) :
          event' = e /\ at' = IF e = None THEN "lines" ELSE "stdout"
    OBVIOUS
  <2>2. line \in Lines /\ Recorded(line) /\ line.frame <= now /\ now \in Nat /\ at = "dispatch"
    BY DEF RecordedFirst, RecordTypes
  <2>3. e = None \/ /\ e \in Events /\ e.frame = line.frame /\ e.type # "hold"
                    /\ IsVerdict(e) => line.kind = "write"
    BY <2>1, <2>2 DEF EventsOf, Events, Lines, IsVerdict
  <2>4. RecordTypes'
    BY <2>1, <2>2 DEF RecordTypes
  <2>5. RecordedFirst'
    <3>1. PICK j \in DOMAIN capture : capture[j] = line
      BY <2>2 DEF Recorded
    <3>2. capture' = capture /\ pipe' = pipe /\ now' = now
      BY DEF Dispatch
    <3>3. flatDue' # None =>
            \E l \in DOMAIN capture' : capture'[l].kind # "write" /\ capture'[l].frame + HoldAfter <= flatDue'
      <4>1. CASE period # "observe" /\ line.kind # "write"
        <5>1. line.frame \in Nat /\ flatDue' = now + HoldAfter
          BY <2>2, <4>1 DEF Lines
        <5> QED
          BY <2>2, <3>1, <3>2, <4>1, <5>1
      <4>2. CASE ~(period # "observe" /\ line.kind # "write")
        BY <3>2, <4>2 DEF RecordedFirst
      <4> QED
        BY <4>1, <4>2
    <3>4. e # None => InTheCapture(e)'
      BY <2>3, <3>1, <3>2 DEF InTheCapture
    <3>5. at' # "dispatch" /\ (at' \in {"stdout", "events", "verdicts"} => event' = e /\ e # None /\ e \in Events)
      BY <2>1, <2>3
    <3>6. \A i \in DOMAIN stream' : InTheCapture(stream[i])'
      BY <1>1, <3>2 DEF RecordedFirst, InTheCapture
    <3>7. \A i \in DOMAIN pipe' : pipe'[i].frame <= now'
      BY <3>2 DEF RecordedFirst
    <3>8. at' \in {"stdout", "events", "verdicts"} => InTheCapture(event)'
      BY <3>4, <3>5 DEF InTheCapture
    <3> QED
      BY <3>3, <3>5, <3>6, <3>7, <3>8 DEF RecordedFirst
  <2>6. EndsBehind' /\ ManifestTellsTheEnd'
    <3>1. Listed \in Nat /\ Told = Listed
      BY <2>2 DEF EndsBehind, Listed, RecordTypes
    <3>2. at' \in {"lines", "stdout"}
      BY <2>1
    <3>3. ManifestTellsTheEnd'
      BY <1>1, <2>2, <3>2 DEF ManifestTellsTheEnd
    <3>4. Told' = Listed' /\ seq' = Listed' /\ Listed' # Listed' + 1
      BY <1>1, <1>2, <3>1 DEF EndsBehind
    <3>5. EndsBehind'
      BY <3>2, <3>4, Zenon DEF EndsBehind
    <3> QED
      BY <3>3, <3>5
  <2> QED
    BY <1>3, <2>4, <2>5, <2>6
<1> QED
  BY <1>4, <1>5

\* An event is told before it is kept.
LEMMA RecordEmits ==
  ASSUME RecordInv, Emit
  PROVE  RecordInv'
<1> USE RecordAssumption DEF RecordInv, diskVars, rotateVars, Emit
<1>1. stream \in Seq(Events) /\ event \in Events /\ (IsVerdict(event) => event # None)
      /\ InTheCapture(event) /\ stream' = Append(stream, event)
  BY DEF RecordTypes, RecordedFirst
<1>2. /\ Len(stream') = Len(stream) + 1 /\ Len(stream) \in Nat /\ stream' \in Seq(Events)
      /\ DOMAIN stream' = 1..(Len(stream) + 1) /\ DOMAIN stream = 1..Len(stream)
      /\ \A i \in 1..Len(stream) : stream'[i] = stream[i]
      /\ stream'[Len(stream) + 1] = event
  BY <1>1
<1>3. /\ \A n \in 0..Len(stream) : JudgedIn(stream', n) = JudgedIn(stream, n)
      /\ JudgedIn(stream', Len(stream) + 1) = Told + (IF IsVerdict(event) THEN 1 ELSE 0)
  BY <1>1, CountsAfterTelling DEF Told
<1>4. Told = Listed /\ Listed' = Listed /\ Listed \in Nat /\ Told' = Told + (IF IsVerdict(event) THEN 1 ELSE 0)
  BY <1>2, <1>3 DEF EndsBehind, Told, Listed, RecordTypes
<1>5. RecordTypes'
  BY <1>2 DEF RecordTypes
<1>6. RecordedFirst'
  <2>1. \A x : InTheCapture(x) => InTheCapture(x)'
    BY DEF InTheCapture
  <2>2. \A i \in DOMAIN stream' : InTheCapture(stream[i])'
    BY <1>1, <1>2, <2>1 DEF RecordedFirst, InTheCapture
  <2>3. InTheCapture(event)' /\ event' = event
    BY <1>1 DEF InTheCapture
  <2> QED
    BY <1>1, <2>2, <2>3 DEF RecordedFirst
<1>7. EndsBehind'
  BY <1>1, <1>2, <1>4 DEF EndsBehind
<1>8. IndexTellsTheStream'
  BY <1>2, <1>3, <1>4 DEF IndexTellsTheStream, Listed
<1>9. ManifestTellsTheEnd'
  BY DEF ManifestTellsTheEnd
<1> QED
  BY <1>5, <1>6, <1>7, <1>8, <1>9

\* An event is kept, and a verdict counted.
LEMMA RecordSinks ==
  ASSUME RecordInv, Sink
  PROVE  RecordInv'
<1> USE RecordAssumption DEF RecordInv, diskVars, rotateVars, Sink
<1>1. Told' = Told /\ Listed' = Listed /\ Listed \in Nat
  BY DEF Told, Listed, JudgedIn, RecordTypes
<1>2. RecordTypes'
  BY DEF RecordTypes
<1>3. RecordedFirst' /\ IndexTellsTheStream' /\ ManifestTellsTheEnd'
  BY <1>1 DEF RecordedFirst, InTheCapture, IsVerdict, IndexTellsTheStream, ManifestTellsTheEnd, JudgedIn
<1>4. EndsBehind'
  BY <1>1 DEF EndsBehind, IsVerdict
<1> QED
  BY <1>2, <1>3, <1>4

\* The verdict told last is indexed under its number.
LEMMA RecordIndexes ==
  ASSUME RecordInv, Index
  PROVE  RecordInv'
<1> USE RecordAssumption DEF RecordInv, diskVars, rotateVars, Index
<1>1. /\ event \in Events /\ IsVerdict(event) /\ seq = Told /\ Told = Listed + 1 /\ Listed \in Nat
      /\ stream # <<>> /\ stream[Len(stream)] = event /\ stream \in Seq(Events)
  BY DEF EndsBehind, RecordedFirst, RecordTypes, Listed
<1>2. Indexed(event) \in IndexedAs(seq) /\ seq \in Nat
  BY <1>1 DEF Indexed, IndexedAs, Events, IsVerdict
<1>3. /\ verdicts' = Append(verdicts, Indexed(event)) /\ verdicts' \in Seq(UNION {IndexedAs(n) : n \in Nat})
      /\ Listed' = Listed + 1 /\ Told' = Told
      /\ \A n \in 1..Listed : verdicts'[n] = verdicts[n]
      /\ verdicts'[Listed + 1] = Indexed(event)
  BY <1>2 DEF RecordTypes, Listed, Told, JudgedIn
<1>4. RecordTypes'
  BY <1>3 DEF RecordTypes
<1>5. RecordedFirst' /\ ManifestTellsTheEnd'
  BY DEF RecordedFirst, InTheCapture, ManifestTellsTheEnd
<1>6. EndsBehind'
  BY <1>1, <1>3 DEF EndsBehind
<1>7. IndexTellsTheStream'
  <2> SUFFICES ASSUME NEW i \in DOMAIN stream, IsVerdict(stream[i]), JudgedIn(stream, i) <= Listed + 1
               PROVE  /\ verdicts'[JudgedIn(stream, i)].seq = JudgedIn(stream, i)
                      /\ verdicts'[JudgedIn(stream, i)].frame = stream[i].frame
                      /\ verdicts'[JudgedIn(stream, i)].result = stream[i].result
    BY <1>3 DEF IndexTellsTheStream, JudgedIn
  <2>1. i \in 1..Len(stream) /\ Len(stream) \in Nat /\ i - 1 \in Nat
    BY <1>1
  <2>2. /\ JudgedIn(stream, i) = JudgedIn(stream, i - 1) + 1
        /\ JudgedIn(stream, i - 1) \in Nat /\ JudgedIn(stream, i) \in Nat
    <3> DEFINE p == i - 1
    <3>1. p \in Nat /\ p + 1 = i
      BY <2>1
    <3> HIDE DEF p
    <3>2. JudgedIn(stream, p + 1) = JudgedIn(stream, p) + 1 /\ JudgedIn(stream, p) \in Nat
      BY <3>1, CountStep, CountsAreNatural
    <3>3. JudgedIn(stream, i) = JudgedIn(stream, p) + 1 /\ JudgedIn(stream, i) \in Nat
      BY <3>1, <3>2
    <3> QED
      BY <3>2, <3>3 DEF p
  <2>3. CASE JudgedIn(stream, i) <= Listed
    <3>1. JudgedIn(stream, i) \in 1..Listed
      BY <1>1, <2>2, <2>3
    <3> QED
      BY <1>3, <2>3, <3>1 DEF IndexTellsTheStream
  <2>4. CASE JudgedIn(stream, i) = Listed + 1
    <3>1. i = Len(stream)
      <4>1. SUFFICES ASSUME i < Len(stream) PROVE FALSE
        BY <2>1
      <4>2. JudgedIn(stream, i) <= JudgedIn(stream, Len(stream) - 1)
        BY <2>1, <4>1, CountsGrow
      <4>3. JudgedIn(stream, Len(stream)) = JudgedIn(stream, Len(stream) - 1) + 1
            /\ JudgedIn(stream, Len(stream) - 1) \in Nat
        <5>1. Len(stream) - 1 \in Nat /\ (Len(stream) - 1) + 1 = Len(stream)
          BY <2>1
        <5> QED
          BY <1>1, <5>1, CountStep, CountsAreNatural
      <4> QED
        BY <1>1, <2>2, <2>4, <4>2, <4>3 DEF Told
    <3>2. verdicts'[Listed + 1] = [seq |-> Listed + 1, frame |-> event.frame, result |-> event.result,
                                 target |-> "valve"]
      BY <1>1, <1>3, Zenon DEF Indexed
    <3>3. stream[i] = event
      BY <1>1, <3>1
    <3> DEFINE v == verdicts'[Listed + 1]
               n == Listed + 1
    <3>4. v = [seq |-> n, frame |-> event.frame, result |-> event.result, target |-> "valve"]
      BY <3>2
    <3> HIDE DEF v, n
    <3>5. v.seq = n /\ v.frame = event.frame /\ v.result = event.result
      BY <3>4
    <3> QED
      BY <2>4, <3>3, <3>5, Zenon DEF v, n
  <2>5. JudgedIn(stream, i) <= Listed \/ JudgedIn(stream, i) = Listed + 1
    BY <1>1, <2>2
  <2> QED
    BY <2>3, <2>4, <2>5, Zenon
<1> QED
  BY <1>4, <1>5, <1>6, <1>7

\* The ends of a run keep what there is, and close tells how far it came.
LEMMA RecordEnds ==
  ASSUME RecordInv, Interrupt \/ BrokenPipe \/ Close \/ Kill \/ Copy \/ Truncate \/ UNCHANGED recordVars
  PROVE  RecordInv'
<1> USE RecordAssumption DEF RecordInv, diskVars, rotateVars
<1>1. UNCHANGED <<now, polls, pipe, line, event, period, flatDue, stream, seq, capture, verdicts>>
  BY DEF Interrupt, BrokenPipe, Close, Kill, Copy, Truncate, recordVars
<1>2. \/ UNCHANGED <<at, rc, manifest>>
      \/ at' = "closing" /\ at \notin Ended /\ rc' = 0 /\ manifest' = manifest
      \/ at' = "closing" /\ at = "stdout" /\ rc' = None /\ manifest' = manifest
      \/ at' = "closed" /\ at = "closing" /\ manifest' = [exit_code |-> rc, verdicts |-> seq] /\ rc' = rc
      \/ at' = "dead" /\ at # "closed" /\ UNCHANGED <<rc, manifest>>
  BY DEF Interrupt, BrokenPipe, Close, Kill, Copy, Truncate, recordVars, Running, Ended
<1>3. Told' = Told /\ Listed' = Listed
  BY <1>1, Zenon DEF Told, Listed, JudgedIn
<1>4. RecordTypes'
  BY <1>1, <1>2 DEF RecordTypes
<1>5. RecordedFirst' /\ IndexTellsTheStream'
  BY <1>1, <1>2, <1>3 DEF RecordedFirst, Recorded, InTheCapture, IndexTellsTheStream, JudgedIn
<1>6. EndsBehind'
  BY <1>1, <1>2, <1>3 DEF EndsBehind
<1>7. ManifestTellsTheEnd'
  BY <1>1, <1>2, <1>3 DEF ManifestTellsTheEnd, EndsBehind, Ended
<1> QED
  BY <1>4, <1>5, <1>6, <1>7

\* Every step keeps the invariant.
LEMMA RecordNextInv == RecordInv /\ [RecordNext]_recordVars => RecordInv'
  BY RecordPolls, RecordFlats, RecordReads, RecordEmits, RecordSinks, RecordIndexes, RecordEnds, Zenon DEF RecordNext

\* The invariant holds of every run.
LEMMA RecordInvariant == RecordSpec => []RecordInv
  BY RecordInitInv, RecordNextInv, PTL DEF RecordSpec

\* Whatever ends a run, and whatever rotation took: an event that was told of a line has that
\* line in the capture and one of a hold the sample that it repeats, which ended at least
\* the margin before; the index is the verdicts of the stream in order without at most the
\* last, and the manifest counts them.
THEOREM RecordsTellTheRun == RecordSpec => []RecordTellsTheRun
<1>1. RecordInv => RecordTellsTheRun
  <2> SUFFICES ASSUME RecordInv PROVE RecordTellsTheRun
    OBVIOUS
  <2>1. Told \in {Listed, Listed + 1} /\ seq \in {Listed, Told} /\ Listed \in Nat
        /\ (Told = Listed + 1 => event # None)
    BY DEF RecordInv, EndsBehind, RecordTypes, Listed
  <2>2. Told - Listed \in {0, 1} /\ (Told - Listed = 1 => event # None)
    BY <2>1
  <2>3. at = "closed" => /\ manifest.verdicts - Listed \in {0, Told - Listed}
                         /\ manifest.exit_code = None => Told - Listed = 0
    BY <2>1 DEF RecordInv, ManifestTellsTheEnd
  <2> QED
    BY <2>2, <2>3, Zenon DEF RecordInv, RecordedFirst, IndexTellsTheStream, ManifestTellsTheEnd,
       RecordTellsTheRun, Told, Listed
<1> QED
  BY <1>1, RecordInvariant, PTL

\* The files hold lines, and the run is in one of its steps.
THEOREM RecordTypesCorrect == RecordSpec => []RecordTypeOK
<1>1. RecordInv => RecordTypeOK
  BY DEF RecordInv, RecordTypes, RecordTypeOK
<1> QED
  BY <1>1, RecordInvariant, PTL

-----------------------------------------------------------------------------
(* The report of a run (RunReport, Metrics).                               *)

\* Every number up to the count is the number of a verdict.
LEMMA CountsAreReached ==
  ASSUME NEW told, NEW m \in Nat, NEW n \in 1..JudgedIn(told, m)
  PROVE  \E i \in 1..m : IsVerdict(told[i]) /\ JudgedIn(told, i) = n
<1> DEFINE reaching == {p \in 0..m : JudgedIn(told, p) >= n}
           p == Min(reaching)
<1>1. \A k \in Nat : JudgedIn(told, k) \in Nat
  BY CountsAreNatural
<1>2. JudgedIn(told, 0) = 0
  <2>1. {i \in 1..0 : IsVerdict(told[i])} = {}
    OBVIOUS
  <2> QED
    BY <2>1, FS_EmptySet DEF JudgedIn
<1>3. m \in reaching /\ reaching \subseteq Nat
  BY <1>1
<1>4. p \in reaching /\ \A k \in reaching : p <= k
  BY <1>3, LeastPosition
<1> HIDE DEF p
<1>5. p \in 0..m /\ JudgedIn(told, p) >= n
  BY <1>4
<1>6. p # 0
  BY <1>2, <1>5
<1> DEFINE q == p - 1
<1>7. q \in 0..m /\ q + 1 = p /\ q < p
  BY <1>5, <1>6
<1> HIDE DEF q
<1>8. JudgedIn(told, q) < n
  BY <1>1, <1>4, <1>5, <1>7
<1>9. JudgedIn(told, q + 1) = JudgedIn(told, q) + (IF IsVerdict(told[q + 1]) THEN 1 ELSE 0)
  BY <1>7, CountStep
<1>10. IsVerdict(told[p]) /\ JudgedIn(told, p) = n
  BY <1>1, <1>5, <1>7, <1>8, <1>9
<1> QED
  BY <1>5, <1>6, <1>10

\* The index holds what the stream told.
LEMMA VerdictsAreTold ==
  ASSUME RecordInv
  PROVE  verdicts = [n \in 1..Len(verdicts) |-> ToldAs(n)]
<1>1. verdicts \in Seq(UNION {IndexedAs(n) : n \in Nat}) /\ stream \in Seq(Events) /\ Listed \in Nat
  BY DEF RecordInv, RecordTypes, Listed
<1>2. Told \in {Listed, Listed + 1} /\ Told \in Nat
  BY <1>1 DEF RecordInv, EndsBehind
<1>3. ASSUME NEW n \in 1..Listed PROVE verdicts[n] = ToldAs(n)
  <2>1. n \in 1..JudgedIn(stream, Len(stream))
    BY <1>1, <1>2 DEF Told
  <2>2. \E i \in 1..Len(stream) : IsVerdict(stream[i]) /\ JudgedIn(stream, i) = n
    BY <1>1, <2>1, CountsAreReached
  <2> DEFINE i == CHOOSE i \in DOMAIN stream : IsVerdict(stream[i]) /\ JudgedIn(stream, i) = n
  <2>3. i \in DOMAIN stream /\ IsVerdict(stream[i]) /\ JudgedIn(stream, i) = n
    BY <1>1, <2>2
  <2>4. ToldAs(n) = [seq |-> n, frame |-> stream[i].frame, result |-> stream[i].result, target |-> "valve"]
    BY Zenon DEF ToldAs
  <2> HIDE DEF i
  <2>5. verdicts[n].seq = n /\ verdicts[n].frame = stream[i].frame /\ verdicts[n].result = stream[i].result
    BY <2>3 DEF RecordInv, IndexTellsTheStream
  <2>6. PICK k \in Nat : verdicts[n] \in IndexedAs(k)
    BY <1>1 DEF Listed
  <2>7. verdicts[n] = [seq |-> verdicts[n].seq, frame |-> verdicts[n].frame,
                       result |-> verdicts[n].result, target |-> "valve"]
    BY <2>6 DEF IndexedAs
  <2> QED
    BY <2>4, <2>5, <2>7, Zenon
<1> QED
  BY <1>1, <1>3 DEF Listed

\* Two verdicts of the index differ, and each has a time and one of the results.
LEMMA VerdictsAreDistinct ==
  ASSUME RecordInv
  PROVE  /\ IsFiniteSet(ToSet(verdicts)) /\ Cardinality(ToSet(verdicts)) = Len(verdicts)
         /\ \A v \in ToSet(verdicts) : v.frame \in Nat /\ v.result \in OBSERVED
<1> USE RecordAssumption, ReportAssumption
<1>1. verdicts \in Seq(UNION {IndexedAs(n) : n \in Nat}) /\ Len(verdicts) \in Nat
  BY DEF RecordInv, RecordTypes
<1>2. \A n \in 1..Len(verdicts) : verdicts[n].seq = n
  <2> TAKE n \in 1..Len(verdicts)
  <2>1. verdicts[n] = ToldAs(n)
    BY VerdictsAreTold
  <2> QED
    BY <2>1 DEF ToldAs
<1>3. verdicts \in Bijection(1..Len(verdicts), ToSet(verdicts))
  <2>1. verdicts \in [1..Len(verdicts) -> ToSet(verdicts)] /\ DOMAIN verdicts = 1..Len(verdicts)
    BY <1>1 DEF ToSet
  <2>2. \A a, b \in 1..Len(verdicts) : verdicts[a] = verdicts[b] => a = b
    BY <1>2, Zenon
  <2> QED
    BY <2>1, <2>2 DEF Bijection, Injection, Surjection, IsInjective, ToSet
<1>4. ExistsBijection(1..Len(verdicts), ToSet(verdicts))
  BY <1>3 DEF ExistsBijection
<1>5. IsFiniteSet(ToSet(verdicts)) /\ Cardinality(ToSet(verdicts)) = Len(verdicts)
  BY <1>1, <1>4, FS_Interval, FS_Bijection, FS_CountingElements
<1>6. ASSUME NEW v \in ToSet(verdicts) PROVE v.frame \in Nat /\ v.result \in OBSERVED
  <2>1. PICK n \in Nat : v \in IndexedAs(n)
    BY <1>1 DEF ToSet
  <2> QED
    BY <2>1 DEF IndexedAs
<1> QED
  BY <1>5, <1>6

\* The fields of a label.
LEMMA LabelFields ==
  ASSUME NEW labels \in Seq(LabelTypes), NEW i \in DOMAIN labels
  PROVE  /\ labels[i].rel \in BOOLEAN /\ labels[i].from \in Int /\ labels[i].to \in Int
         /\ labels[i].expected \in EXPECTED
<1>1. labels[i] \in LabelTypes
  OBVIOUS
<1>2. \A l \in LabelTypes : l.rel \in BOOLEAN /\ l.from \in Int /\ l.to \in Int /\ l.expected \in EXPECTED
  BY DEF LabelTypes
<1> QED
  BY <1>1, <1>2

\* What a verdict is counted under matches it, and there is none only if none matches.
LEMMA LabelMatches ==
  ASSUME NEW labels \in Seq(LabelTypes), NEW v, NEW first
  PROVE  LET l == LabelOf(labels, v, first)
         IN  /\ l = 0 <=> \A i \in DOMAIN labels : ~_matches(labels[i], v, first)
             /\ l # 0 => l \in DOMAIN labels /\ _matches(labels[l], v, first)
<1> DEFINE matching == {i \in DOMAIN labels : _matches(labels[i], v, first)}
<1>1. DOMAIN labels = 1..Len(labels) /\ matching \subseteq Nat /\ 0 \notin matching
  OBVIOUS
<1>2. matching # {} => Min(matching) \in matching
  BY <1>1, LeastPosition
<1>3. LabelOf(labels, v, first) = IF matching = {} THEN 0 ELSE Min(matching)
  BY Zenon DEF LabelOf
<1> QED
  BY <1>1, <1>2, <1>3

\* Two finite sets with nothing in common add up.
LEMMA DisjointSets ==
  ASSUME NEW S, NEW R, IsFiniteSet(S), IsFiniteSet(R), S \intersect R = {}
  PROVE  /\ IsFiniteSet(S \union R) /\ Cardinality(S) \in Nat /\ Cardinality(R) \in Nat
         /\ Cardinality(S \union R) = Cardinality(S) + Cardinality(R)
<1>1. Cardinality(S \intersect R) = 0
  BY FS_EmptySet, Zenon
<1>2. Cardinality(S \union R) = Cardinality(S) + Cardinality(R) - Cardinality(S \intersect R)
      /\ IsFiniteSet(S \union R)
  BY FS_Union
<1>3. Cardinality(S) \in Nat /\ Cardinality(R) \in Nat
  BY FS_CardinalityType
<1> QED
  BY <1>1, <1>2, <1>3

\* Of verdicts with a result each, every result has its own.
LEMMA ResultsSplit ==
  ASSUME NEW S, IsFiniteSet(S), \A v \in S : v.result \in OBSERVED
  PROVE  LET n(o) == Cardinality({v \in S : v.result = o})
         IN  /\ \A o \in OBSERVED : n(o) \in Nat
             /\ Cardinality(S) = n("COHERENT") + n("UNUSUAL") + n("INCOHERENT") + n("UNCERTAIN")
<1> DEFINE part(o) == {v \in S : v.result = o}
           A == part("COHERENT") \union part("UNUSUAL")
           B == part("INCOHERENT") \union part("UNCERTAIN")
<1>1. \A o : IsFiniteSet(part(o)) /\ Cardinality(part(o)) \in Nat
  BY FS_Subset, FS_CardinalityType
<1>2. part("COHERENT") \intersect part("UNUSUAL") = {} /\ part("INCOHERENT") \intersect part("UNCERTAIN") = {}
  OBVIOUS
<1>3. A \intersect B = {} /\ S = A \union B
  BY DEF OBSERVED
<1> HIDE DEF part
<1>4. IsFiniteSet(A) /\ Cardinality(A) = Cardinality(part("COHERENT")) + Cardinality(part("UNUSUAL"))
  BY <1>1, <1>2, DisjointSets
<1>5. IsFiniteSet(B) /\ Cardinality(B) = Cardinality(part("INCOHERENT")) + Cardinality(part("UNCERTAIN"))
  BY <1>1, <1>2, DisjointSets
<1> HIDE DEF A, B
<1>6. Cardinality(S) = Cardinality(A) + Cardinality(B)
  BY <1>3, <1>4, <1>5, DisjointSets
<1>7. Cardinality(S) = Cardinality(part("COHERENT")) + Cardinality(part("UNUSUAL"))
        + Cardinality(part("INCOHERENT")) + Cardinality(part("UNCERTAIN"))
  BY <1>1, <1>4, <1>5, <1>6
<1> QED
  BY <1>1, <1>7 DEF part

\* Every cell is a number, and with the verdicts no label matches they add up to all.
LEMMA TableAddsUp ==
  ASSUME RecordInv, NEW labels \in Seq(LabelTypes), NEW first
  PROVE  LET r == evaluate_scenario(labels, verdicts, first)
         IN  /\ \A e \in EXPECTED, o \in OBSERVED : r.table[e][o] \in Nat
             /\ Over(r.table["COHERENT"], OBSERVED) + Over(r.table["INCOHERENT"], OBSERVED)
                  + Cardinality(r.unmatched) = Len(verdicts)
<1> DEFINE T == ToSet(verdicts)
           label(v) == LabelOf(labels, v, first)
           U == {v \in T : label(v) = 0}
           row(e) == {v \in T : label(v) # 0 /\ labels[label(v)].expected = e}
           R == row("COHERENT") \union row("INCOHERENT")
           n(e, o) == Cardinality({v \in row(e) : v.result = o})
           r == evaluate_scenario(labels, verdicts, first)
<1>1. IsFiniteSet(T) /\ Cardinality(T) = Len(verdicts) /\ \A v \in T : v.result \in OBSERVED
  BY VerdictsAreDistinct
<1>2. \A v \in T : label(v) # 0 => labels[label(v)].expected \in EXPECTED
  <2> TAKE v \in T
  <2>1. label(v) # 0 => label(v) \in DOMAIN labels
    BY LabelMatches
  <2> HIDE DEF label
  <2>2. \A i \in DOMAIN labels : labels[i].expected \in EXPECTED
    BY LabelFields
  <2> QED
    BY <2>1, <2>2
<1> HIDE DEF label
<1>3. T = U \union R /\ U \intersect R = {} /\ row("COHERENT") \intersect row("INCOHERENT") = {}
  BY <1>2 DEF EXPECTED
<1>4. IsFiniteSet(U) /\ IsFiniteSet(row("COHERENT")) /\ IsFiniteSet(row("INCOHERENT"))
  BY <1>1, FS_Subset
<1>5. \A e : \A v \in row(e) : v.result \in OBSERVED
  BY <1>1
<1>6. \A e \in EXPECTED, o \in OBSERVED : r.table[e][o] = n(e, o)
  <2> TAKE e \in EXPECTED, o \in OBSERVED
  <2>1. Cell(labels, verdicts, first, e, o) = {v \in row(e) : v.result = o}
    BY Zenon DEF Cell, label
  <2>2. r.table[e][o] = Cardinality(Cell(labels, verdicts, first, e, o))
    BY DEF evaluate_scenario
  <2> QED
    BY <2>1, <2>2
<1>7. r.unmatched = U
  BY DEF evaluate_scenario, label
<1> HIDE DEF T, U, row, r
<1>8. /\ IsFiniteSet(R) /\ Cardinality(R) = Cardinality(row("COHERENT")) + Cardinality(row("INCOHERENT"))
      /\ Cardinality(R) \in Nat /\ Cardinality(U) \in Nat
  BY <1>3, <1>4, DisjointSets, FS_CardinalityType
<1> HIDE DEF R
<1>9. Cardinality(T) = Cardinality(U) + Cardinality(R)
  BY <1>3, <1>4, <1>8, DisjointSets
<1>10. ASSUME NEW e \in EXPECTED
       PROVE  /\ \A o \in OBSERVED : n(e, o) \in Nat
              /\ Cardinality(row(e)) = Over(r.table[e], OBSERVED)
  <2>1. IsFiniteSet(row(e)) /\ \A v \in row(e) : v.result \in OBSERVED
    BY <1>4, <1>5 DEF EXPECTED
  <2>2. /\ \A o \in OBSERVED : n(e, o) \in Nat
        /\ Cardinality(row(e)) = n(e, "COHERENT") + n(e, "UNUSUAL") + n(e, "INCOHERENT") + n(e, "UNCERTAIN")
    BY <2>1, ResultsSplit
  <2>3. \A o \in OBSERVED : r.table[e][o] = n(e, o)
    BY <1>6
  <2> HIDE DEF n
  <2>4. Over(r.table[e], OBSERVED) = n(e, "COHERENT") + n(e, "UNUSUAL") + n(e, "INCOHERENT") + n(e, "UNCERTAIN")
    BY <2>3 DEF Over, OBSERVED
  <2> QED
    BY <2>2, <2>4
<1>11. /\ Cardinality(row("COHERENT")) = Over(r.table["COHERENT"], OBSERVED)
       /\ Cardinality(row("INCOHERENT")) = Over(r.table["INCOHERENT"], OBSERVED)
       /\ \A e \in EXPECTED, o \in OBSERVED : r.table[e][o] \in Nat
  <2> HIDE DEF n
  <2> QED
    BY <1>6, <1>10 DEF EXPECTED
<1>12. Len(verdicts) = Cardinality(U) + Cardinality(row("COHERENT")) + Cardinality(row("INCOHERENT"))
       /\ Cardinality(row("COHERENT")) \in Nat /\ Cardinality(row("INCOHERENT")) \in Nat
  BY <1>1, <1>4, <1>8, <1>9, FS_CardinalityType
<1>13. Over(r.table["COHERENT"], OBSERVED) + Over(r.table["INCOHERENT"], OBSERVED)
         + Cardinality(r.unmatched) = Len(verdicts)
  BY <1>7, <1>8, <1>11, <1>12
<1> QED
  BY <1>11, <1>13, Zenon DEF r

\* What is left out, and what an alarm is, moves verdicts between the numbers of a rule.
LEMMA RulesAgree ==
  ASSUME NEW table, \A e \in EXPECTED, o \in OBSERVED : table[e][o] \in Nat
  PROVE  /\ Judged(headline(table)) - uncertain(table) = Judged(C_abstention_excluded(table))
         /\ B_alarm_inclusive(table).fp >= headline(table).fp
         /\ B_alarm_inclusive(table).fn <= headline(table).fn
<1> DEFINE co == table["COHERENT"]
           inc == table["INCOHERENT"]
<1>1. \A o \in OBSERVED : co[o] \in Nat /\ inc[o] \in Nat
  BY DEF EXPECTED
<1> HIDE DEF co, inc
<1>2. headline(table) =
        [tp |-> inc["INCOHERENT"], fn |-> inc["COHERENT"] + inc["UNUSUAL"] + inc["UNCERTAIN"],
         fp |-> co["INCOHERENT"], tn |-> co["COHERENT"] + co["UNUSUAL"] + co["UNCERTAIN"]]
  BY <1>1 DEF headline, rule, Over, OBSERVED, co, inc
<1>3. B_alarm_inclusive(table) =
        [tp |-> inc["INCOHERENT"] + inc["UNUSUAL"], fn |-> inc["COHERENT"] + inc["UNCERTAIN"],
         fp |-> co["INCOHERENT"] + co["UNUSUAL"], tn |-> co["COHERENT"] + co["UNCERTAIN"]]
  BY <1>1 DEF B_alarm_inclusive, rule, Over, OBSERVED, co, inc
<1>4. C_abstention_excluded(table) =
        [tp |-> inc["INCOHERENT"] + inc["UNUSUAL"], fn |-> inc["COHERENT"],
         fp |-> co["INCOHERENT"] + co["UNUSUAL"], tn |-> co["COHERENT"]]
  BY <1>1 DEF C_abstention_excluded, rule, Over, OBSERVED, co, inc
<1>5. uncertain(table) = inc["UNCERTAIN"] + co["UNCERTAIN"]
  BY DEF uncertain, co, inc
<1> QED
  BY <1>1, <1>2, <1>3, <1>4, <1>5 DEF Judged, OBSERVED

\* A window that starts with the run, or not, is the same for a run that has no first frame.
LEMMA AbsoluteLabels ==
  ASSUME NEW labels \in Seq(LabelTypes), Absolute(labels), NEW first, NEW other
  PROVE  evaluate_scenario(labels, verdicts, first) = evaluate_scenario(labels, verdicts, other)
<1>1. \A i \in DOMAIN labels : \A v : _matches(labels[i], v, first) <=> _matches(labels[i], v, other)
  BY DEF Absolute, _matches, _bounds
<1>2. ASSUME NEW v PROVE LabelOf(labels, v, first) = LabelOf(labels, v, other)
  <2>1. {i \in DOMAIN labels : _matches(labels[i], v, first)} = {i \in DOMAIN labels : _matches(labels[i], v, other)}
    BY <1>1
  <2> QED
    BY <2>1, Zenon DEF LabelOf
<1>3. ASSUME NEW e, NEW o PROVE Cell(labels, verdicts, first, e, o) = Cell(labels, verdicts, other, e, o)
  BY <1>2, Zenon DEF Cell
<1> QED
  BY <1>2, <1>3, Zenon DEF evaluate_scenario

\* A time in two windows is in neither past the other.
LEMMA WindowsMeet ==
  ASSUME NEW o \in Int, NEW f \in Int, NEW from1 \in Int, NEW to1 \in Int, NEW from2 \in Int, NEW to2 \in Int,
         o + from1 <= f, f < o + to1, o + from2 <= f, f < o + to2
  PROVE  ~(to1 <= from2) /\ ~(to2 <= from1)
<1>1. from1 < to2 /\ from2 < to1
  OBVIOUS
<1> QED
  BY <1>1

\* Of windows that do not meet, a verdict matches one at most.
LEMMA OneLabelMatches ==
  ASSUME NEW labels \in Seq(LabelTypes), Disjoint(labels), NEW first \in Int, NEW v, v.frame \in Nat,
         NEW i \in DOMAIN labels, NEW j \in DOMAIN labels,
         _matches(labels[i], v, first), _matches(labels[j], v, first)
  PROVE  i = j
<1> SUFFICES ASSUME i # j PROVE FALSE
  OBVIOUS
<1> DEFINE a == labels[i]
           b == labels[j]
<1>1. /\ a.from \in Int /\ a.to \in Int /\ a.rel \in BOOLEAN
      /\ b.from \in Int /\ b.to \in Int /\ b.rel \in BOOLEAN
  BY LabelFields
<1>2. \/ a.target # b.target
      \/ a.rel = b.rel /\ (a.to <= b.from \/ b.to <= a.from)
  BY Zenon DEF Disjoint
<1>3. _matches(a, v, first) /\ _matches(b, v, first)
  OBVIOUS
<1> HIDE DEF a, b
<1>4. a.target = b.target
  BY <1>3 DEF _matches
<1> DEFINE origin(l) == IF l.rel THEN first ELSE 0
<1>5. /\ origin(a) + a.from <= v.frame /\ v.frame < origin(a) + a.to
      /\ origin(b) + b.from <= v.frame /\ v.frame < origin(b) + b.to
  BY <1>3 DEF _matches, _bounds
<1>6. origin(a) = origin(b) /\ origin(a) \in Int
  BY <1>1, <1>2, <1>4
<1> HIDE DEF origin
<1>7. a.to <= b.from \/ b.to <= a.from
  BY <1>2, <1>4
<1>8. v.frame \in Int
  OBVIOUS
<1> QED
  BY <1>1, <1>5, <1>6, <1>7, <1>8, WindowsMeet

\* So the order of their labels does not matter.
LEMMA OrderDoesNotMatter ==
  ASSUME RecordInv, NEW labels \in Seq(LabelTypes), Disjoint(labels), NEW first \in Int
  PROVE  evaluate_scenario(Reverse(labels), verdicts, first).table
           = evaluate_scenario(labels, verdicts, first).table
<1> DEFINE n == Len(labels)
           back == Reverse(labels)
<1>0. n \in Nat /\ DOMAIN labels = 1..n /\ \A i \in 1..n : labels[i] \in LabelTypes
  OBVIOUS
<1>1. /\ n \in Nat /\ DOMAIN labels = 1..n
      /\ back \in Seq(LabelTypes) /\ DOMAIN back = 1..n
      /\ \A i \in 1..n : n + 1 - i \in 1..n /\ back[i] = labels[n + 1 - i] /\ back[n + 1 - i] = labels[i]
  <2>1. back = [i \in 1..n |-> labels[n - i + 1]]
    BY DEF Reverse
  <2> HIDE DEF n, back
  <2>2. \A i \in 1..n : n - i + 1 \in 1..n /\ n + 1 - i \in 1..n /\ n - i + 1 = n + 1 - i /\ n - (n + 1 - i) + 1 = i
    BY <1>0
  <2>3. back \in [1..n -> LabelTypes]
    BY <1>0, <2>1, <2>2
  <2>4. \A i \in 1..n : n + 1 - i \in 1..n /\ back[i] = labels[n + 1 - i] /\ back[n + 1 - i] = labels[i]
    BY <2>1, <2>2
  <2>5. back \in Seq(LabelTypes) /\ DOMAIN back = 1..n
    BY <1>0, <2>3
  <2> QED
    BY <1>0, <2>4, <2>5
<1> HIDE DEF n, back
<1>2. ASSUME NEW v \in ToSet(verdicts)
      PROVE  LET l == LabelOf(labels, v, first)  k == LabelOf(back, v, first)
             IN  (l = 0 <=> k = 0) /\ (l # 0 => back[k] = labels[l])
  <2> DEFINE l == LabelOf(labels, v, first)
             k == LabelOf(back, v, first)
  <2>1. /\ l = 0 <=> \A i \in 1..n : ~_matches(labels[i], v, first)
        /\ l # 0 => l \in 1..n /\ _matches(labels[l], v, first)
    BY <1>1, LabelMatches
  <2>2. /\ k = 0 <=> \A i \in 1..n : ~_matches(back[i], v, first)
        /\ k # 0 => k \in 1..n /\ _matches(back[k], v, first)
    BY <1>1, LabelMatches
  <2> HIDE DEF l, k
  <2>3. l = 0 <=> k = 0
    BY <1>1, <2>1, <2>2
  <2>4. ASSUME l # 0 PROVE back[k] = labels[l]
    <3>1. /\ l \in DOMAIN labels /\ n + 1 - k \in DOMAIN labels /\ back[k] = labels[n + 1 - k]
          /\ _matches(labels[l], v, first) /\ _matches(labels[n + 1 - k], v, first)
      BY <1>1, <2>1, <2>2, <2>3, <2>4
    <3>2. v.frame \in Nat
      BY VerdictsAreDistinct
    <3>3. l = n + 1 - k
      BY <3>1, <3>2, OneLabelMatches
    <3> QED
      BY <3>1, <3>3
  <2> QED
    BY <2>3, <2>4 DEF l, k
<1>3. ASSUME NEW e, NEW o PROVE Cell(back, verdicts, first, e, o) = Cell(labels, verdicts, first, e, o)
  BY <1>2, Zenon DEF Cell
<1> QED
  BY <1>3, Zenon DEF evaluate_scenario, back

\* A report is made of a run that has ended, and of the index it left.
ReportIsOfTheRun ==
  report # None =>
    /\ at \in {"closed", "dead"}
    /\ report.labels \in Seq(LabelTypes) /\ report.first \in Int
    /\ report.result = evaluate_scenario(report.labels, verdicts, report.first)

ReportInv == RecordInv /\ events \in Seq(Events) /\ ReportIsOfTheRun

\* The first frame is the time of an event or of a verdict.
LEMMA FirstFrame ==
  ASSUME ReportInv, verdicts # <<>>
  PROVE  first_frame \in Int
<1> USE RecordAssumption
<1> DEFINE told == IF events # <<>> THEN events ELSE verdicts
           frames == {told[i].frame : i \in DOMAIN told}
<1>1. \A e \in Events : e.frame \in Nat
  BY DEF Events
<1>2. events \in Seq(Events) /\ verdicts \in Seq(UNION {IndexedAs(n) : n \in Nat})
  BY DEF ReportInv, RecordInv, RecordTypes
<1>3. \A i \in DOMAIN events : events[i].frame \in Nat
  <2> TAKE i \in DOMAIN events
  <2>1. events[i] \in Events
    BY <1>2
  <2> QED
    BY <1>1, <2>1
<1>4. \A i \in DOMAIN verdicts : verdicts[i].frame \in Nat
  <2> TAKE i \in DOMAIN verdicts
  <2>1. verdicts[i] \in ToSet(verdicts)
    BY DEF ToSet
  <2> QED
    BY <2>1, VerdictsAreDistinct DEF ReportInv
<1>5. DOMAIN told # {}
  <2>1. events # <<>> => 1 \in DOMAIN events
    BY <1>2
  <2>2. 1 \in DOMAIN verdicts
    BY <1>2
  <2> QED
    BY <2>1, <2>2
<1>6. frames \subseteq Nat /\ frames # {}
  <2>1. \A i \in DOMAIN told : told[i].frame \in Nat
    BY <1>3, <1>4, Zenon
  <2> HIDE DEF told
  <2> QED
    BY <1>5, <2>1, Zenon
<1>7. first_frame = Min(frames)
  BY Zenon DEF first_frame
<1> HIDE DEF frames, told
<1>8. Min(frames) \in frames
  BY <1>6, LeastPosition, Zenon
<1>9. first_frame \in Nat
  BY <1>6, <1>7, <1>8, Zenon
<1> QED
  BY <1>9

LEMMA ReportInitInv == ReportInit => ReportInv
  BY RecordInitInv DEF ReportInit, RecordInit, ReportInv, ReportIsOfTheRun

\* After the run ended, rotation is all that happens, and it leaves the index alone.
LEMMA ReportStays ==
  ASSUME ReportInv, [RecordNext]_recordVars, UNCHANGED report
  PROVE  ReportInv'
<1> USE RecordAssumption DEF ReportInv, diskVars, rotateVars
<1>1. RecordInv'
  BY RecordNextInv
<1>2. events' \in Seq(Events)
  <2>1. CASE Sink
    <3>1. event \in Events
      BY <2>1 DEF Sink, RecordInv, RecordedFirst
    <3> QED
      BY <2>1, <3>1 DEF Sink
  <2>2. CASE Truncate
    BY <2>2 DEF Truncate
  <2>3. CASE ~Sink /\ ~Truncate
    <3>1. events' = events
      BY <2>3 DEF RecordNext, recordVars, Captured, Flat, Until, Select, Record, EndOfRead, Dispatch, Emit, Index,
         Interrupt, BrokenPipe, Close, Kill, Copy
    <3> QED
      BY <3>1
  <2> QED
    BY <2>1, <2>2, <2>3
<1>3. at \in {"closed", "dead"} => at' = at /\ verdicts' = verdicts
  BY DEF RecordNext, recordVars, Captured, Flat, Until, Select, Record, EndOfRead, Dispatch, Emit, Sink, Index,
     Interrupt, Running, BrokenPipe, Close, Kill, Copy, Truncate
<1>4. ReportIsOfTheRun'
  BY <1>3 DEF ReportIsOfTheRun
<1> QED
  BY <1>1, <1>2, <1>4

\* A report is made.
LEMMA ReportIsMade ==
  ASSUME ReportInv, NEW labels \in Scenarios, compute(labels)
  PROVE  ReportInv'
<1> USE ReportAssumption DEF compute
<1>1. UNCHANGED recordVars
  OBVIOUS
<1>2. RecordInv'
  BY <1>1, RecordNextInv DEF ReportInv
<1>3. UNCHANGED <<at, verdicts, events>>
  BY <1>1 DEF recordVars, diskVars
<1>4. first_frame \in Int /\ labels \in Seq(LabelTypes)
  BY FirstFrame
<1>5. report'.labels = labels /\ report'.first = first_frame
      /\ report'.result = evaluate_scenario(labels, verdicts, first_frame)
  BY Zenon
<1>6. ReportIsOfTheRun'
  BY <1>3, <1>4, <1>5 DEF ReportIsOfTheRun
<1> QED
  BY <1>2, <1>3, <1>6 DEF ReportInv

LEMMA ReportNextInv == ReportInv /\ [ReportNext]_reportVars => ReportInv'
<1> SUFFICES ASSUME ReportInv, [ReportNext]_reportVars PROVE ReportInv'
  OBVIOUS
<1>1. CASE UNCHANGED reportVars
  BY <1>1, ReportStays DEF reportVars
<1>2. CASE RecordNext /\ UNCHANGED report
  BY <1>2, ReportStays
<1>3. CASE \E labels \in Scenarios : compute(labels)
  BY <1>3, ReportIsMade
<1> QED
  BY <1>1, <1>2, <1>3, Zenon DEF ReportNext

\* However a run ended and whatever rotation took, its report counts each verdict of the
\* stream once; the order of labels whose windows do not meet does not matter, and the
\* three rules leave out and call an alarm what they say.
THEOREM ReportsCountTheVerdicts == ReportSpec => []ReportCountsEachVerdictOnce
<1>1. ReportSpec => []ReportInv
  BY ReportInitInv, ReportNextInv, PTL DEF ReportSpec
<1>2. ReportInv => ReportCountsEachVerdictOnce
  <2> SUFFICES ASSUME ReportInv, report # None PROVE ReportCountsEachVerdictOnce
    BY DEF ReportCountsEachVerdictOnce
  <2> DEFINE labels == report.labels
             first == report.first
             r == report.result
             told == [n \in 1..Len(verdicts) |-> ToldAs(n)]
  <2>1. /\ RecordInv /\ labels \in Seq(LabelTypes) /\ first \in Int
        /\ r = evaluate_scenario(labels, verdicts, first)
    BY DEF ReportInv, ReportIsOfTheRun
  <2>2. verdicts = told
    BY <2>1, VerdictsAreTold
  <2> HIDE DEF labels, first, r, told
  <2>3. /\ \A e \in EXPECTED, o \in OBSERVED : r.table[e][o] \in Nat
        /\ Over(r.table["COHERENT"], OBSERVED) + Over(r.table["INCOHERENT"], OBSERVED)
             + Cardinality(r.unmatched) = Len(verdicts)
    BY <2>1, TableAddsUp
  <2>4. Disjoint(labels) => evaluate_scenario(Reverse(labels), verdicts, first).table = r.table
    BY <2>1, OrderDoesNotMatter
  <2>5. Absolute(labels) => evaluate_scenario(labels, told, None).table = r.table
    <3>1. Absolute(labels) => evaluate_scenario(labels, verdicts, None) = r
      BY <2>1, AbsoluteLabels
    <3> QED
      BY <2>2, <3>1
  <2> DEFINE table == r.table
  <2>6. /\ Judged(headline(table)) - uncertain(table) = Judged(C_abstention_excluded(table))
        /\ B_alarm_inclusive(table).fp >= headline(table).fp
        /\ B_alarm_inclusive(table).fn <= headline(table).fn
    <3> HIDE DEF table
    <3>1. \A e \in EXPECTED, o \in OBSERVED : table[e][o] \in Nat
      BY <2>3 DEF table
    <3> QED
      BY <3>1, RulesAgree
  <2> QED
    BY <2>3, <2>4, <2>5, <2>6, Zenon DEF ReportCountsEachVerdictOnce, labels, first, r, told
<1> QED
  BY <1>1, <1>2, PTL

=============================================================================
