-------------------------------- MODULE Probe --------------------------------
(***************************************************************************)
(* How a run finds its protocols: probe_layers reads every frame of a      *)
(* short unfiltered capture, claims the layers that have an extractor and  *)
(* reports the traffic that has none; --only leaves claimed layers out;    *)
(* and each layer that is left gets its source and its capture file.  A    *)
(* later run may replay the record, and its own record be replayed.        *)
(*                                                                         *)
(* A frame is its application chain, the layers named in its chain and its *)
(* two endpoints.  Of a capture file only whether it has lines is kept.    *)
(***************************************************************************)
EXTENDS Integers, FiniteSets, Sequences, SequencesExt

CONSTANTS
  Layers,        \* the wire layers of the extractors, in their order
  Frames,        \* what may be on the wire: [app, names, src, dst], app = NoApp for
                 \* plumbing, src and dst = NoEndpoint when tshark prints no address
  NoApp, NoEndpoint, NoFile,
  Port,          \* per endpoint
  Onlys, All,    \* the sets --only may ask for, and All without it
  MaxFrames, MaxLaunches   \* bounds: frames of a probe, runs

ASSUME ProbeAssumption ==
  /\ \A f \in Frames : \A e \in {f.src, f.dst} \ {NoEndpoint} : Port[e] \in Nat
  /\ DOMAIN Layers = 1..Len(Layers) /\ MaxLaunches \in Nat

VARIABLES
  step,          \* "idle", "start", "probe", "layers", "sources" or "run"
  launches,      \* runs started; the first one is live, the others replay a record
                 \* with --record
  replayed,      \* the run whose record is replayed, 0 if live
  only,          \* --only
  read,          \* the probe lines of the run so far
  claimed, unclaimed, \* of probe_layers; unclaimed: the server of each pair and its chains
  surfaced,      \* events: the endpoints reported as unreadable
  notRun,        \* events: the layers reported as claimed but not run
  launching,     \* the layers that still need their source
  running,       \* the layers that have one
  probe_tsv,     \* per run, capture/probe.tsv: the frames, or NoFile
  layer_tsv      \* per run and layer, capture/<layer>.tsv: "absent", "empty" or "lines"

foundVars == <<claimed, unclaimed, surfaced, notRun>>
fileOfVars == <<probe_tsv, layer_tsv>>
probeVars == <<step, launches, replayed, only, read, foundVars, launching, running, fileOfVars>>

-----------------------------------------------------------------------------
(* wire.py.                                                                *)

app_layer(f) == f.app

\* The first extractor whose layer is named anywhere in the chain, 0 for none.
match_layer(f) == SelectInSeq(Layers, LAMBDA l : l \in f.names)

server_of(a, b) == IF Port[a] <= Port[b] THEN a ELSE b

Application(f) == app_layer(f) # NoApp
Addressed(f)   == f.src # NoEndpoint /\ f.dst # NoEndpoint
Unread(f)      == Application(f) /\ match_layer(f) = 0 /\ Addressed(f)

-----------------------------------------------------------------------------
(* liscere-probe: the same frames as a report, per server of a pair.       *)

Pair(f) == {f.src, f.dst}

\* A pair is a set: whichever of two equal ports comes first is the server.
Servers(pair) == {e \in pair : \A o \in pair : Port[e] <= Port[o]}

\* UNCLAIMED: the servers it may name.
_unclaimed_by_server(frames) == UNION {Servers(Pair(f)) : f \in {g \in ToSet(frames) : Unread(g)}}

\* CLAIMED: (layer, server).
_servers_of(frames) ==
  UNION {{<<Layers[match_layer(f)], s>> : s \in Servers(Pair(f))} :
           f \in {g \in ToSet(frames) : Application(g) /\ Addressed(g) /\ match_layer(g) # 0}}

-----------------------------------------------------------------------------
ProbeInit ==
  /\ step = "idle" /\ launches = 0 /\ replayed = 0 /\ only = All /\ read = <<>>
  /\ claimed = {} /\ unclaimed = {} /\ surfaced = {} /\ notRun = {}
  /\ launching = {} /\ running = {}
  /\ probe_tsv = [r \in 1..MaxLaunches |-> NoFile]
  /\ layer_tsv = [r \in 1..MaxLaunches |-> [l \in ToSet(Layers) |-> "absent"]]

\* _input_from_args: a record without probe.tsv is refused.
Launch ==
  /\ step = "idle" /\ launches < MaxLaunches
  /\ launches' = launches + 1 /\ step' = "start"
  /\ replayed' \in {r \in 0..launches : IF r = 0 THEN launches = 0 ELSE probe_tsv[r] # NoFile}
  /\ only' \in Onlys \union {All}
  /\ read' = <<>> /\ claimed' = {} /\ unclaimed' = {} /\ surfaced' = {} /\ notRun' = {}
  /\ UNCHANGED <<launching, running, fileOfVars>>

OpenProbe ==
  /\ step = "start" /\ step' = "probe"
  /\ probe_tsv' = [probe_tsv EXCEPT ![launches] = <<>>]
  /\ UNCHANGED <<launches, replayed, only, read, foundVars, launching, running, layer_tsv>>

\* Slipped: the endpoint that sent the frame is taken for the server.
Unclaimed_src(f) == IF Unread(f) THEN {<<f.src, f.app>>} ELSE {}

Unclaimed(f) == IF Unread(f) THEN {<<server_of(f.src, f.dst), f.app>>} ELSE {}

\* One line of _probe_lines: recorded, then classified.
ProbeLine(f) ==
  /\ step = "probe" /\ Len(read) < MaxFrames
  /\ replayed # 0 => Len(read) < Len(probe_tsv[replayed]) /\ f = probe_tsv[replayed][Len(read) + 1]
  /\ read' = Append(read, f)
  /\ probe_tsv' = [probe_tsv EXCEPT ![launches] = Append(@, f)]
  /\ claimed' = IF Application(f) /\ match_layer(f) # 0
                THEN claimed \union {Layers[match_layer(f)]} ELSE claimed
  /\ unclaimed' = unclaimed \union Unclaimed(f)
  /\ UNCHANGED <<step, launches, replayed, only, surfaced, notRun, launching, running, layer_tsv>>

\* A live probe ends by its time, a replayed one at the end of its file.
ProbeEnds ==
  /\ step = "probe" /\ (replayed # 0 => read = probe_tsv[replayed])
  /\ surfaced' = {u[1] : u \in unclaimed}
  /\ step' = IF claimed = {} THEN "idle" ELSE "layers"
  /\ UNCHANGED <<launches, replayed, only, read, claimed, unclaimed, notRun, launching, running, fileOfVars>>

run_layers == IF only = All THEN claimed ELSE claimed \intersect only

\* --only; with nothing left the run ends with 2.
Choose ==
  /\ step = "layers"
  /\ notRun' = claimed \ run_layers
  /\ launching' = run_layers
  /\ step' = IF run_layers = {} THEN "idle" ELSE "sources"
  /\ UNCHANGED <<launches, replayed, only, read, claimed, unclaimed, surfaced, running, fileOfVars>>

\* The next source, in any order.  The record is opened before a replay looks whether
\* there is anything to replay.
Source(l) ==
  /\ step = "sources" /\ l \in launching
  /\ launching' = launching \ {l}
  /\ layer_tsv' = [layer_tsv EXCEPT ![launches][l] = "empty"]
  /\ running' = IF replayed = 0 \/ layer_tsv[replayed][l] # "absent" THEN running \union {l} ELSE running
  /\ UNCHANGED <<step, launches, replayed, only, read, foundVars, probe_tsv>>

Begin ==
  /\ step = "sources" /\ launching = {}
  /\ IF running = {} THEN step' = "idle" ELSE step' = "run"
  /\ UNCHANGED <<launches, replayed, only, read, foundVars, launching, running, fileOfVars>>

\* The first line of a source.
Line(l) ==
  /\ step = "run" /\ l \in running
  /\ replayed # 0 => layer_tsv[replayed][l] = "lines"
  /\ layer_tsv[launches][l] # "lines"
  /\ layer_tsv' = [layer_tsv EXCEPT ![launches][l] = "lines"]
  /\ UNCHANGED <<step, launches, replayed, only, read, foundVars, launching, running, probe_tsv>>

\* The run ends, or the process is gone.
End ==
  /\ step # "idle" /\ step' = "idle" /\ launching' = {} /\ running' = {}
  /\ UNCHANGED <<launches, replayed, only, read, foundVars, fileOfVars>>

ProbeNext ==
  \/ Launch \/ OpenProbe \/ ProbeEnds \/ Choose \/ Begin \/ End
  \/ \E f \in Frames : ProbeLine(f)
  \/ \E l \in ToSet(Layers) : Source(l) \/ Line(l)

ProbeSpec == ProbeInit /\ [][ProbeNext]_probeVars

-----------------------------------------------------------------------------
ProbeTypeOK ==
  /\ step \in {"idle", "start", "probe", "layers", "sources", "run"}
  /\ replayed < launches \/ launches = 0
  /\ claimed \union notRun \union launching \union running \subseteq ToSet(Layers)
  /\ \A r \in 1..MaxLaunches : probe_tsv[r] = NoFile \/ probe_tsv[r] \in Seq(Frames)

\* "Replay <run dir> reproduces the run", "a run must say plainly what it saw and chose not
\* to run": of a run that has begun, live or replaying a record or a replay's record,
\* every addressed application frame of the probe is of a layer that is running, one
\* that was reported as left out, one of a replay without a recorded file, or its server
\* was reported; the report of liscere-probe on the same frames names the same servers;
\* and a replay without --only runs every layer whose lines it was left.
ProbeHidesNothing ==
  step = "run" =>
    /\ \A i \in DOMAIN read :
         LET f == read[i]
         IN  /\ Application(f) /\ match_layer(f) # 0 =>
                  \/ Layers[match_layer(f)] \in running \union notRun
                  \/ replayed # 0 /\ layer_tsv[replayed][Layers[match_layer(f)]] = "absent"
             /\ Unread(f) => Servers(Pair(f)) \intersect surfaced # {}
    /\ surfaced \subseteq _unclaimed_by_server(read)
    /\ {c[1] : c \in _servers_of(read)} \subseteq claimed
    /\ replayed # 0 =>
         /\ read = probe_tsv[replayed]
         /\ only = All => \A l \in ToSet(Layers) : layer_tsv[replayed][l] = "lines" => l \in running
=============================================================================
