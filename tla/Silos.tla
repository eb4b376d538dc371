-------------------------------- MODULE Silos --------------------------------
(***************************************************************************)
(* From the events of the extractors to what an operator sees.             *)
(*                                                                         *)
(* Every endpoint heard in the observe window becomes a silo; discovery    *)
(* looks for its state signal and announces what it found; afterwards the  *)
(* samples and writes of a silo feed its own tracker and its own events.   *)
(* All silos share one Emitter, which leaves out what was said before; the *)
(* reader is ui.DiscoveryModel, which has the event stream and no more.    *)
(*                                                                         *)
(* Which flow behaves like a STATE, and the phase a tracker infers, are    *)
(* chosen by the environment; learning and verdicts are in Grammar.        *)
(***************************************************************************)
EXTENDS Integers, Sequences

CONSTANTS
  Endpoints, FlowKeys, FlowValues, Phases,
  Layer,      \* endpoint -> the extractor that reads it
  Routing,    \* endpoints of an extractor that routes per item (OPC UA); the others are polled
  Reads,   \* endpoint -> its reads and publishes: sequences of items [key, value]
  WriteKeys,  \* endpoint -> keys that may be written
  Murky,      \* endpoints that also send frames their extractor tells to be unreadable
  Declared,   \* configurations considered: [excluded, pin]
  MaxEvents   \* bound: events and ticks after the observe window

None == "none"

ASSUME SilosAssumption ==
  /\ Routing \subseteq Endpoints /\ Murky \subseteq Endpoints /\ DOMAIN Layer = Endpoints
  /\ WriteKeys \in [Endpoints -> SUBSET FlowKeys]
  /\ \A e \in Endpoints : Reads[e] \subseteq Seq([key : FlowKeys, value : FlowValues])
  /\ Declared \subseteq [excluded : SUBSET FlowKeys, pin : FlowKeys \union {None}]
  /\ \A e \in Endpoints : Layer[e] \notin Endpoints
  /\ None \notin FlowKeys \union FlowValues \union Phases /\ MaxEvents \in Nat

VARIABLES
  stage,          \* "observe", "discover", "feed" (learn and evaluate alike) or "stopped"
  settings,
  heard,          \* endpoints with events in obs_by_ext
  roles,          \* per endpoint and key, the role group_flows gives it
  silos,          \* endpoints that were made a silo
  state_key,      \* per endpoint, silo.state_key: None if it is not evaluable
  reported_late,
  tracker,        \* per endpoint, tracker.phase
  real,           \* per endpoint, the sample fed last: [key, value], the key as history
  emitter,        \* Emitter._shared
  ui,             \* DiscoveryModel
  written,        \* history: <<endpoint, key>> written after observe
  latest,         \* history: per endpoint and key, the value last fed or written under it
  own,            \* history: per endpoint, what its state variable itself was read to be last
  found,          \* history: per endpoint and key, the nature discovery announced
  late,           \* history: endpoints that were heard only after observe
  stale,          \* history: an event told the reader nothing new
  count           \* events and ticks after observe (bounded by MaxEvents)

siloVars == <<heard, roles, silos, state_key, reported_late, tracker, real>>
history  == <<written, latest, own, found, late>>
silosVars == <<stage, settings, siloVars, emitter, ui, history, stale, count>>

Vars == Endpoints \X FlowKeys
Unset == [e \in Endpoints |-> [k \in FlowKeys |-> None]]
NoSample == [key |-> None, value |-> None]

SilosInit ==
  /\ stage = "observe" /\ settings \in Declared
  /\ heard = {} /\ roles = Unset /\ silos = {}
  /\ state_key = [e \in Endpoints |-> None] /\ reported_late = {}
  /\ tracker = [e \in Endpoints |-> None] /\ real = [e \in Endpoints |-> NoSample]
  /\ emitter = [last_phase |-> [e \in Endpoints |-> None], last_values |-> Unset,
                announced |-> Unset, state_keys |-> {}, opaque |-> {}]
  /\ ui = [root |-> [e \in Endpoints |-> None], flows |-> {}, starred |-> {},
           nature |-> Unset, starlate |-> {}, value |-> Unset, phase |-> Unset,
           unreadable |-> {}, unevaluable |-> {}]
  /\ written = {} /\ latest = Unset /\ own = [e \in Endpoints |-> None] /\ found = Unset /\ late = {}
  /\ stale = FALSE /\ count = 0

-----------------------------------------------------------------------------
(* DiscoveryModel: one handler per type of event.  Those that discovery    *)
(* emits for a set of keys take the set: each event has a row of its own.  *)

_ensure_silo(model, e) ==
  IF model.root[e] = None THEN [model EXCEPT !.root[e] = "evaluable"] ELSE model

_flow_found(model, e, keys) ==
  IF keys = {} THEN model
  ELSE [_ensure_silo(model, e) EXCEPT !.flows = @ \union ({e} \X keys)]

\* The nature is shown in the table and, where the silo has a root, on the map.
_variable_found(model, e, keys, nature, islate) ==
  [model EXCEPT
     !.nature[e] = [k \in FlowKeys |-> IF k \in keys THEN nature[k] ELSE @[k]],
     !.starlate = IF islate THEN @ \union ({e} \X keys) ELSE @ \ ({e} \X keys),
     !.flows = IF model.root[e] # None THEN @ \union ({e} \X keys) ELSE @]

_variable_value(model, e, key, value) == [model EXCEPT !.value[e][key] = value]

_phase(model, e, key, phase) == [model EXCEPT !.phase[e][key] = phase]

_state_signal(model, e, key) ==
  [model EXCEPT !.starred = IF <<e, key>> \in model.flows THEN @ \union {<<e, key>>} ELSE @]

\* An unevaluable silo is marked in place, or listed if it has no place on the map.
_unevaluable(model, e) ==
  IF model.root[e] # None THEN [model EXCEPT !.root[e] = "unevaluable"]
  ELSE [model EXCEPT !.unevaluable = @ \union {e}]

\* Layers that were claimed and have no evaluable silo: without an endpoint.
_empty_layers(model, layers) == [model EXCEPT !.unevaluable = @ \union layers]

_unreadable(model, e) == [model EXCEPT !.unreadable = @ \union {e}]

-----------------------------------------------------------------------------
(* Emitter: a step starts from Quiet, and each method gives back what the  *)
(* emitter remembers and what the reader has made of the events so far.    *)

Quiet == [shared |-> emitter, ui |-> ui, stale |-> stale]

\* An event after which the emitter remembers shared and the reader shows model.
_emit(em, shared, model) ==
  [shared |-> shared, ui |-> model, stale |-> em.stale \/ (stage = "feed" /\ model = em.ui)]

\* Slipped: the silos share the de-duplication of one of them.
bind_shared(e) == CHOOSE x \in Endpoints : TRUE

\* The tag that keys the de-duplication of e.
bind(e) == e

phase_event(em, e, key, phase) ==
  IF em.shared.last_phase[bind(e)] = phase THEN em
  ELSE _emit(em, [em.shared EXCEPT !.last_phase[bind(e)] = phase], _phase(em.ui, e, key, phase))

variable_value(em, e, key, value) ==
  IF em.shared.last_values[bind(e)][key] = value THEN em
  ELSE _emit(em, [em.shared EXCEPT !.last_values[bind(e)][key] = value],
             _variable_value(em.ui, e, key, value))

announce(em, e, keys, nature, islate) ==
  _emit(em, [em.shared EXCEPT !.announced[bind(e)] =
               [k \in FlowKeys |-> IF k \in keys THEN nature[k] ELSE @[k]]],
        _variable_found(em.ui, e, keys, nature, islate))

\* Slipped: a write reclassifies the state signal too.
command_found_always(em, e, key) ==
  IF em.shared.announced[bind(e)][key] = "COMMAND" THEN em
  ELSE announce(em, e, {key}, [k \in {key} |-> "COMMAND"], TRUE)

\* A write proves a command, once; it never reclassifies the state signal.
command_found(em, e, key) ==
  IF em.shared.announced[bind(e)][key] = "COMMAND" \/ <<bind(e), key>> \in em.shared.state_keys THEN em
  ELSE announce(em, e, {key}, [k \in {key} |-> "COMMAND"], TRUE)

state_signal_discovered(em, e, key) ==
  _emit(em, [em.shared EXCEPT !.state_keys = @ \union {<<bind(e), key>>}],
        _state_signal(em.ui, e, key))

opaque_endpoint(em, e) ==
  IF e \in em.shared.opaque THEN em
  ELSE _emit(em, [em.shared EXCEPT !.opaque = @ \union {e}], _unreadable(em.ui, e))

\* The step emits what em says, and the reader reads it.
Tell(em) == emitter' = em.shared /\ ui' = em.ui /\ stale' = em.stale

-----------------------------------------------------------------------------
(* The observe window.                                                     *)

\* The flows of a publish (one per handle) or read answer (one per address).
Telemetry(items) == {items[i].key : i \in DOMAIN items}

\* group_flows: one role per variable, the first heard.
Grouped(e, keys, role) ==
  [roles EXCEPT ![e] = [k \in FlowKeys |-> IF @[k] = None /\ k \in keys THEN role ELSE @[k]]]

\* An event of e; one without items (a request, a keep-alive) makes no flow.
Observe(e) ==
  /\ stage = "observe"
  /\ \/ \E m \in Reads[e] \union {<<>>} :
          roles' = Grouped(e, Telemetry(m), "telemetry")
     \/ \E keys \in SUBSET WriteKeys[e] : roles' = Grouped(e, keys, "command")
  /\ heard' = heard \union {e}
  /\ UNCHANGED <<stage, settings, silos, state_key, reported_late, tracker, real, emitter,
                 ui, history, stale, count>>

Flows(e)      == {k \in FlowKeys : roles[e][k] # None}
Candidates(e) == Flows(e) \ settings.excluded

\* classify_flows; CONSTANT_METADATA stands for AMBIGUOUS as well.
Nature(e, k, stateful) ==
  CASE k \in settings.excluded -> "EXCLUDED"
    [] k \notin settings.excluded /\ k \in stateful -> "STATE"
    [] k \notin settings.excluded \union stateful /\ roles[e][k] = "command" -> "COMMAND"
    [] OTHER -> "CONSTANT_METADATA"

\* The state flow: the pinned one if it was observed and not excluded; else one of
\* those that behave like a state (the one with the most distinct values).
StateFlow(e, stateful, key) ==
  \/ settings.pin # None /\ key = (IF settings.pin \in Candidates(e) THEN settings.pin ELSE None)
  \/ /\ settings.pin = None
     /\ IF stateful = {} THEN key = None ELSE key \in stateful

flow_found(em, e, keys) == _emit(em, em.shared, _flow_found(em.ui, e, keys))

discover(em, e, stateful, key) ==
  LET nature    == [k \in FlowKeys |-> Nature(e, k, stateful)]
      flows     == flow_found(em, e, Flows(e))
      variables == announce(flows, e, Candidates(e), nature, FALSE)
      all       == announce(variables, e, Flows(e) \ Candidates(e), nature, FALSE)
  IN  IF key = None THEN all ELSE state_signal_discovered(all, e, key)

\* A silo with a state signal gets a fresh tracker, one without stays unevaluable.
_calibrate_silo(key) == IF key = None THEN None ELSE "UNKNOWN"

silo_event(em, e, key) ==
  _emit(em, em.shared, IF key = None THEN _unevaluable(em.ui, e) ELSE _ensure_silo(em.ui, e))

EndObserve ==
  /\ stage = "observe" /\ stage' = "discover"
  /\ UNCHANGED <<settings, siloVars, emitter, ui, history, stale, count>>

\* build_silos: one round of its loop, for one of the endpoints with events.
BuildSilo(e) ==
  /\ stage = "discover" /\ e \in heard \ silos
  /\ \E stateful \in SUBSET Candidates(e), key \in FlowKeys \union {None} :
       /\ StateFlow(e, stateful, key)
       /\ Tell(silo_event(discover(Quiet, e, stateful, key), e, key))
       /\ state_key' = [state_key EXCEPT ![e] = key]
       /\ tracker' = [tracker EXCEPT ![e] = _calibrate_silo(key)]
       /\ found' = [found EXCEPT ![e] =
                      [k \in FlowKeys |-> IF k \in Flows(e) THEN Nature(e, k, stateful) ELSE None]]
  /\ silos' = silos \union {e}
  /\ UNCHANGED <<stage, settings, heard, roles, reported_late, real, written, latest, own, late, count>>

evaluable == {e \in silos : state_key[e] # None}

Layers == {Layer[e] : e \in Endpoints}

\* The layers without an evaluable silo are told; with none at all the run ends.
EndDiscovery ==
  /\ stage = "discover" /\ silos = heard
  /\ stage' = IF evaluable = {} THEN "stopped" ELSE "feed"
  /\ Tell(_emit(Quiet, emitter, _empty_layers(ui, Layers \ {Layer[e] : e \in evaluable})))
  /\ UNCHANGED <<settings, siloVars, history, count>>

-----------------------------------------------------------------------------
(* After it: _Run.dispatch and _feed_or_judge.                             *)

Count == stage = "feed" /\ count < MaxEvents /\ count' = count + 1

\* Slipped: a silo that cannot be evaluated is taken for a late one.
silos_by_ep_evaluable == evaluable

silos_by_ep == silos

\* An event of an endpoint that is no evaluable silo: reported once if it came too late.
Unrouted(e) ==
  /\ Count
  /\ e \notin evaluable
  /\ IF e \in silos_by_ep \union reported_late
     THEN UNCHANGED <<reported_late, emitter, ui, stale>>
     ELSE Tell(silo_event(Quiet, e, None)) /\ reported_late' = reported_late \union {e}
  /\ late' = IF e \in heard THEN late ELSE late \union {e}
  /\ UNCHANGED <<stage, settings, heard, roles, silos, state_key, tracker, real,
                 written, latest, own, found>>

\* extract_state_samples: the items that are samples; a polled extractor takes every one.
Sampled(e, items) == {i \in DOMAIN items : e \in Routing => items[i].key = state_key[e]}

Unfed(e) == [em |-> Quiet, phase |-> tracker[e], real |-> real[e],
             value |-> latest[e][state_key[e]]]

\* One sample: the phase the tracker is in is told after it, and its value.
FeedOne(acc, e, sample, phase) ==
  [em    |-> variable_value(phase_event(acc.em, e, state_key[e], phase),
                            e, state_key[e], sample.value),
   phase |-> phase, real |-> sample, value |-> sample.value]

Fed(e, items, taken, phases) ==
  LET fed[i \in 0..Len(items)] ==
        IF i = 0 THEN Unfed(e)
        ELSE IF i \in taken THEN FeedOne(fed[i - 1], e, items[i], phases[i]) ELSE fed[i - 1]
  IN  fed[Len(items)]

Feed(e, items, taken, phases) ==
  LET fed == Fed(e, items, taken, phases)
  IN  /\ Tell(fed.em)
      /\ tracker' = [tracker EXCEPT ![e] = fed.phase]
      /\ real' = [real EXCEPT ![e] = fed.real]
      /\ latest' = [latest EXCEPT ![e][state_key[e]] = fed.value]

\* What the state variable of e itself was in a message: the last item of its key.
OwnIn(e, items) ==
  LET mine == {i \in DOMAIN items : items[i].key = state_key[e]}
  IN  IF mine = {} THEN own[e] ELSE items[CHOOSE i \in mine : \A j \in mine : j <= i].value

\* A message without a sample changes nothing.
ReadOf(e) ==
  /\ Count
  /\ e \in evaluable
  /\ \E m \in Reads[e] :
       /\ \E phases \in [DOMAIN m -> Phases] : Feed(e, m, Sampled(e, m), phases)
       /\ own' = [own EXCEPT ![e] = OwnIn(e, m)]
  /\ UNCHANGED <<stage, settings, heard, roles, silos, state_key, reported_late,
                 written, found, late>>

\* A write: of one that writes several variables, only the first counts.
WriteOf(e) ==
  /\ Count
  /\ e \in evaluable
  /\ \E k \in WriteKeys[e], v \in FlowValues :
       /\ Tell(variable_value(command_found(Quiet, e, k), e, k, v))
       /\ written' = written \union {<<e, k>>}
       /\ latest' = [latest EXCEPT ![e][k] = v]
  /\ UNCHANGED <<stage, settings, siloVars, own, found, late>>

\* _resample_holds: a flat repeat of the last real sample.
Hold(e) ==
  /\ Count
  /\ e \in evaluable /\ real[e] # NoSample
  /\ \E p \in Phases : Feed(e, <<real[e]>>, {1}, <<p>>)
  /\ UNCHANGED <<stage, settings, heard, roles, silos, state_key, reported_late,
                 written, own, found, late>>

\* A frame of e that its extractor declines as unreadable.
Opaque(e) ==
  /\ e \in Murky
  /\ \/ stage = "observe" /\ UNCHANGED count
     \/ Count
  /\ Tell(opaque_endpoint(Quiet, e))
  /\ UNCHANGED <<stage, settings, siloVars, history>>

SilosNext ==
  \/ EndObserve \/ EndDiscovery
  \/ \E e \in Endpoints : Observe(e) \/ BuildSilo(e) \/ Unrouted(e) \/ ReadOf(e) \/ WriteOf(e)
                            \/ Hold(e) \/ Opaque(e)

SilosSpec == SilosInit /\ [][SilosNext]_silosVars

-----------------------------------------------------------------------------
\* The types of what the observer keeps per silo and of what the reader has.
SilosTypeOK ==
  /\ stage \in {"observe", "discover", "feed", "stopped"} /\ settings \in Declared
  /\ heard \subseteq Endpoints /\ silos \subseteq heard
  /\ reported_late \subseteq Endpoints \ heard
  /\ roles \in [Endpoints -> [FlowKeys -> {None, "telemetry", "command"}]]
  /\ state_key \in [Endpoints -> FlowKeys \union {None}]
  /\ \A e \in Endpoints : real[e] \in [key : FlowKeys, value : FlowValues] \union {NoSample}
  /\ tracker \in [Endpoints -> Phases \union {None, "UNKNOWN"}]
  /\ emitter.state_keys = {x \in Vars : x[1] \in evaluable /\ x[2] = state_key[x[1]]}
  /\ ui.flows \subseteq Vars /\ ui.starred \subseteq ui.flows /\ ui.starlate \subseteq Vars
  /\ ui.unevaluable \subseteq Endpoints \union Layers /\ ui.unreadable \subseteq Endpoints

\* De-duplication loses nothing: what a reader of the events shows under a variable is
\* the value last fed to the tracker or written under it, in its own silo, and the phase
\* shown of a silo is the one its tracker is in, however samples, writes and holds of
\* silos that share their keys alternate.  What is fed is what the state variable itself
\* was read to be last, if the extractor routes its items or the last sample was of that
\* variable; a polled extractor may feed another one's (StateSignalIsNotMixed).
ValuesAreShown ==
  /\ \A x \in Vars : ui.value[x[1]][x[2]] = latest[x[1]][x[2]]
  /\ \A e \in evaluable : real[e] # NoSample =>
       /\ e \in Routing => real[e].key = state_key[e]
       /\ real[e].key = state_key[e] => real[e].value = own[e]
  /\ \A e \in evaluable :
       ui.phase[e][state_key[e]] = IF real[e] = NoSample THEN None ELSE tracker[e]
  /\ \A x \in Vars : ui.phase[x[1]][x[2]] # None => x \in emitter.state_keys

\* A write outranks what discovery made of a variable, also of one it never saw, and
\* nothing else does; only the state signal is never reclassified.  A command is
\* marked late exactly if discovery had not told it (command_found).
WritesProveCommands ==
  \A x \in Vars : stage = "feed" /\ x[1] \in heard =>
    LET e == x[1]  k == x[2]  proven == x \in written /\ k # state_key[e]
    IN  /\ ui.nature[e][k] = IF proven THEN "COMMAND" ELSE found[e][k]
        /\ x \in ui.starlate <=> proven /\ found[e][k] # "COMMAND"

\* Once observe ended, every endpoint ever heard has one place in front of the reader:
\* on the map (with the star on its state signal, if it is evaluable), or in the list
\* of what cannot be evaluated, never both ("Same endpoint in two places was the
\* incoherence", _silo); and a claimed layer is listed when it has no evaluable silo.
EveryEndpointHasOnePlace ==
  stage \in {"feed", "stopped"} =>
    /\ \A e \in Endpoints :
         /\ e \in heard \union late <=> (ui.root[e] # None \/ e \in ui.unevaluable)
         /\ ~(ui.root[e] # None /\ e \in ui.unevaluable)
         /\ ui.root[e] = "evaluable" <=> e \in evaluable
    /\ ui.starred = emitter.state_keys
    /\ \A x \in Layers : x \in ui.unevaluable <=> \A e \in evaluable : Layer[e] # x

\* The event stream tells its reader what the observer knows (Emitter, DiscoveryModel).
ReaderSeesTheSilos == ValuesAreShown /\ EveryEndpointHasOnePlace

\* Each event tells the reader something new: a phase or a value is told on a change,
\* a late command, a late silo and an unreadable endpoint once ("hundreds of opaque
\* frames yield a single event").
EveryEventIsNews == ~stale

\* "Feed the tracker ONLY the discovered state signal's samples", and its value is
\* shown under its own key (_feed_or_judge).
StateSignalIsNotMixed ==
  \A e \in evaluable : real[e] # NoSample => real[e].key = state_key[e]
=============================================================================
