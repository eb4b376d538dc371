--------------------------- MODULE EventPathProofs ---------------------------
(***************************************************************************)
(* From the writes on the wire to what a reader of the events shows, for   *)
(* any endpoints, keys, values, windows and bounds.                        *)
(*                                                                         *)
(* The coalescer: the open run stands for the write whose event was        *)
(* yielded last and is as old as that event.  The silos: the emitter       *)
(* remembers exactly what the reader shows, which is why leaving out what  *)
(* was said before loses nothing; a message with several samples keeps     *)
(* this sample by sample, by induction over the message.                   *)
(***************************************************************************)
EXTENDS WriteCoalescer, Silos, WellFoundedInduction, TLAPS

-----------------------------------------------------------------------------
(* The coalescer: every write is counted once and bursts are split.        *)

\* The open run is the latest event yielded.
RunIsLastYield ==
  run # NoRun => /\ DOMAIN run = {"key", "start", "last"}
                 /\ run.key \in Writes /\ sinceYield[run.key] = run.start

CoalescerTypes ==
  /\ sent \in [WriteServers -> Nat]
  /\ DOMAIN sinceYield = Writes

CoalescerIInv == CoalescerTypes /\ RunIsLastYield /\ CountsEveryWrite

\* Nothing is written and no run is open at the start.
LEMMA CoalescerInitInvariant == CoalescerInit => CoalescerIInv
  BY DEF CoalescerInit, CoalescerIInv, CoalescerTypes, RunIsLastYield, CountsEveryWrite, NoRun

\* A write either repeats the open run, at whose server it is counted, or opens
\* the run of the event it yields.
LEMMA CoalesceKeeps ==
  ASSUME CoalescerIInv, NEW w \in Writes, coalesce_write(w)
  PROVE  CoalescerIInv'
<1>1. w.server \in WriteServers
  BY DEF WriteServers
<1>2. CoalescerTypes'
  BY <1>1 DEF CoalescerIInv, CoalescerTypes, coalesce_write, CountsEveryWrite
<1>3. CASE Repeats(w)
  <2>1. run # NoRun /\ run.key = w
    BY <1>3 DEF Repeats, SameWrite
  <2>2. /\ run' = [run EXCEPT !.last = 0]
        /\ told' = [told EXCEPT ![run.key.server] = @ + 1]
        /\ UNCHANGED sinceYield
    BY <1>3 DEF coalesce_write
  <2>3. CountsEveryWrite'
    BY <2>1, <2>2 DEF coalesce_write, CoalescerIInv, CountsEveryWrite
  <2>4. /\ DOMAIN run' = {"key", "start", "last"}
        /\ run'.key = run.key /\ run'.start = run.start
    BY <2>1, <2>2 DEF CoalescerIInv, RunIsLastYield
  <2>5. RunIsLastYield'
    BY <2>1, <2>2, <2>4 DEF CoalescerIInv, RunIsLastYield
  <2> QED
    BY <1>2, <2>3, <2>5 DEF CoalescerIInv
<1>4. CASE ~Repeats(w)
  <2>1. /\ run' = [key |-> w, start |-> 0, last |-> 0]
        /\ told' = [told EXCEPT ![w.server] = @ + 1]
        /\ sinceYield' = [sinceYield EXCEPT ![w] = 0]
    BY <1>4 DEF coalesce_write
  <2>2. CountsEveryWrite'
    BY <2>1 DEF coalesce_write, CoalescerIInv, CountsEveryWrite
  <2>3. RunIsLastYield'
    BY <2>1 DEF CoalescerIInv, CoalescerTypes, RunIsLastYield
  <2> QED
    BY <1>2, <2>2, <2>3 DEF CoalescerIInv
<1> QED
  BY <1>3, <1>4

\* Time ages the run and the events yielded alike.
LEMMA AgingKeeps ==
  ASSUME CoalescerIInv, CoalescerTick
  PROVE  CoalescerIInv'
<1>1. CoalescerTypes' /\ CountsEveryWrite'
  BY DEF CoalescerIInv, CoalescerTypes, CountsEveryWrite, CoalescerTick
<1>2. CASE run = NoRun
  BY <1>1, <1>2 DEF CoalescerTick, CoalescerIInv, RunIsLastYield
<1>3. CASE run # NoRun
  <2>1. run' = [[run EXCEPT !.start = Aged(@)] EXCEPT !.last = Aged(@)]
    BY <1>3 DEF CoalescerTick
  <2>2. /\ DOMAIN run = {"key", "start", "last"}
        /\ run.key \in Writes /\ sinceYield[run.key] = run.start
    BY <1>3 DEF CoalescerIInv, RunIsLastYield
  <2>3. DOMAIN run' = DOMAIN run /\ run'.key = run.key /\ run'.start = Aged(run.start)
    BY <2>1, <2>2
  <2>4. sinceYield'[run.key] = Aged(run.start)
    BY <2>2 DEF CoalescerTick
  <2>5. RunIsLastYield'
    BY <2>1, <2>2, <2>3, <2>4 DEF RunIsLastYield
  <2> QED
    BY <1>1, <2>5 DEF CoalescerIInv
<1> QED
  BY <1>2, <1>3

\* The other steps leave the run alone or close it.
LEMMA CoalescerStepKeeps == CoalescerIInv /\ [CoalescerNext]_coalescerVars => CoalescerIInv'
<1> SUFFICES ASSUME CoalescerIInv, [CoalescerNext]_coalescerVars PROVE CoalescerIInv'
  OBVIOUS
<1>1. ASSUME NEW w \in Writes, coalesce_write(w) PROVE CoalescerIInv'
  BY <1>1, CoalesceKeeps
<1>2. CASE coalesce_other
  BY <1>2 DEF coalesce_other, CoalescerIInv, CoalescerTypes, RunIsLastYield, CountsEveryWrite
<1>3. ASSUME NEW d \in DerivedWindows, apply_derived_coalesce_window(d) PROVE CoalescerIInv'
  BY <1>3 DEF apply_derived_coalesce_window, CoalescerIInv, CoalescerTypes, RunIsLastYield, CountsEveryWrite
<1>4. CASE RespawnCoalescer
  BY <1>4 DEF RespawnCoalescer, CoalescerIInv, CoalescerTypes, RunIsLastYield, CountsEveryWrite
<1>5. CASE CoalescerTick
  BY <1>5, AgingKeeps
<1>6. CASE UNCHANGED coalescerVars
  BY <1>6 DEF coalescerVars, wireVars, CoalescerIInv, CoalescerTypes, RunIsLastYield, CountsEveryWrite
<1> QED
  BY <1>1, <1>2, <1>3, <1>4, <1>5, <1>6 DEF CoalescerNext

\* Every write on the wire is in the repeat count of exactly one event of its own
\* server, however runs are opened, folded into and dropped by respawns.
THEOREM WritesAreCounted == CoalescerSpec => []CountsEveryWrite
<1>1. CoalescerIInv => CountsEveryWrite
  BY DEF CoalescerIInv
<1> QED
  BY <1>1, CoalescerInitInvariant, CoalescerStepKeeps, PTL DEF CoalescerSpec

\* A write is folded only while an event of the same write is at most one window
\* old: the run it is folded into is as old as that event.
LEMMA FoldsAreRecent ==
  ASSUME CoalescerIInv, NEW w \in Writes, coalesce_write(w), folded'
  PROVE  run'.key = w /\ sinceYield[w] <= Window
<1>1. Repeats(w)
  BY DEF coalesce_write
<1>2. run # NoRun /\ run.key = w /\ run.start <= Window
  BY <1>1 DEF Repeats, SameWrite
<1>3. sinceYield[w] = run.start
  BY <1>2 DEF CoalescerIInv, RunIsLastYield
<1>4. run' = [run EXCEPT !.last = 0]
  BY <1>1 DEF coalesce_write
<1> QED
  BY <1>2, <1>3, <1>4

\* A button held for ever is told again and again (the span bound).
THEOREM Bursts == CoalescerSpec => BurstsAreSplit
<1>1. CoalescerIInv /\ [CoalescerNext]_coalescerVars
        => [folded' => \E w \in Writes : run'.key = w /\ sinceYield[w] <= Window]_coalescerVars
  <2> SUFFICES ASSUME CoalescerIInv, CoalescerNext, folded'
               PROVE  \E w \in Writes : run'.key = w /\ sinceYield[w] <= Window
    OBVIOUS
  <2>1. PICK w \in Writes : coalesce_write(w)
    BY DEF CoalescerNext, coalesce_other, apply_derived_coalesce_window, RespawnCoalescer,
           CoalescerTick
  <2> QED
    BY <2>1, FoldsAreRecent
<1> QED
  BY <1>1, CoalescerInitInvariant, CoalescerStepKeeps, PTL DEF CoalescerSpec, BurstsAreSplit

\* No window is longer than the ages told apart.
LEMMA WindowsAreShorter == LongAgo \in Nat /\ DefaultWindow < LongAgo
<1> DEFINE Windows == DerivedWindows \union {DefaultWindow}
           longest == CHOOSE n \in Windows : \A m \in Windows : m <= n
<1>1. \E n \in Windows : \A m \in Windows : m <= n
  <2>1. PICK n \in Windows : \A m \in DerivedWindows : m <= n
    BY CoalescerAssumption
  <2>2. CASE DefaultWindow <= n
    BY <2>1, <2>2
  <2>3. CASE ~(DefaultWindow <= n)
    <3>1. \A m \in Windows : m <= DefaultWindow
      BY <2>1, <2>3, CoalescerAssumption
    <3> QED
      BY <3>1
  <2> QED
    BY <2>2, <2>3
<1>2. longest \in Windows /\ \A m \in Windows : m <= longest
  BY <1>1
<1>3. longest \in Nat /\ DefaultWindow <= longest
  BY <1>2, CoalescerAssumption
<1>4. LongAgo = 1 + longest
  BY DEF LongAgo
<1> QED
  BY <1>3, <1>4, CoalescerAssumption

\* Time passes alike for the ages of a run.
LEMMA AgesPass ==
  ASSUME NEW a \in 0..LongAgo, NEW b \in 0..LongAgo, a <= b
  PROVE  /\ Aged(a) \in 0..LongAgo /\ Aged(b) \in 0..LongAgo /\ Aged(a) <= Aged(b)
BY WindowsAreShorter DEF Aged

\* The windows are those of the configuration, and the open run was started by the
\* generator that knows its ages, for any writes and windows.
THEOREM CoalescerTypesCorrect == CoalescerSpec => []CoalescerTypeOK
<1> DEFINE Typed == CoalescerIInv /\ CoalescerTypeOK
<1>1. CoalescerInit => CoalescerTypeOK
  BY CoalescerAssumption DEF CoalescerInit, CoalescerTypeOK, NoRun, Unread
<1>2. CoalescerIInv /\ CoalescerTypeOK /\ [CoalescerNext]_coalescerVars => CoalescerTypeOK'
  <2> SUFFICES ASSUME CoalescerIInv, CoalescerTypeOK, [CoalescerNext]_coalescerVars
               PROVE  CoalescerTypeOK'
    OBVIOUS
  <2> DEFINE Configured == DerivedWindows \union {DefaultWindow}
  <2>1. /\ config_window \in Configured /\ window \in {Unread} \union Configured
        /\ run # NoRun => /\ run.key \in Writes /\ window # Unread
                          /\ run.start \in 0..LongAgo /\ run.last \in 0..run.start
        /\ respawns \in 0..MaxRespawns
    BY DEF CoalescerTypeOK
  <2>2. \A w \in Configured : w # Unread
    BY CoalescerAssumption DEF Unread
  <2>3. Window \in Configured
    BY <2>1 DEF Window
  <2>4. ASSUME NEW w \in Writes, coalesce_write(w) PROVE CoalescerTypeOK'
    <3>1. /\ window' = Window /\ config_window' = config_window /\ respawns' = respawns
      BY <2>4 DEF coalesce_write
    <3>2. CASE Repeats(w)
      <4>1. run # NoRun /\ run' = [run EXCEPT !.last = 0]
        BY <2>4, <3>2 DEF coalesce_write, Repeats, SameWrite
      <4>2. DOMAIN run = {"key", "start", "last"}
        BY <4>1 DEF CoalescerIInv, RunIsLastYield
      <4>3. run'.key = run.key /\ run'.start = run.start /\ run'.last = 0
        BY <4>1, <4>2
      <4>4. run.key \in Writes /\ run.start \in 0..LongAgo
        BY <2>1, <4>1
      <4> QED
        BY <2>1, <2>2, <2>3, <3>1, <4>3, <4>4 DEF CoalescerTypeOK
    <3>3. CASE ~Repeats(w)
      <4>1. run' = [key |-> w, start |-> 0, last |-> 0]
        BY <2>4, <3>3 DEF coalesce_write
      <4> QED
        BY <2>1, <2>2, <2>3, <3>1, <4>1, WindowsAreShorter DEF CoalescerTypeOK
    <3> QED
      BY <3>2, <3>3
  <2>5. CASE coalesce_other
    BY <2>1, <2>2, <2>3, <2>5 DEF coalesce_other, CoalescerTypeOK
  <2>6. ASSUME NEW d \in DerivedWindows, apply_derived_coalesce_window(d) PROVE CoalescerTypeOK'
    BY <2>1, <2>6 DEF apply_derived_coalesce_window, CoalescerTypeOK
  <2>7. CASE respawns < MaxRespawns /\ RespawnCoalescer
    BY <2>1, <2>7, CoalescerAssumption DEF RespawnCoalescer, CoalescerTypeOK
  <2>8. CASE CoalescerTick
    <3>1. window' = window /\ config_window' = config_window /\ respawns' = respawns
      BY <2>8 DEF CoalescerTick
    <3>2. CASE run = NoRun
      BY <2>1, <2>8, <3>1, <3>2 DEF CoalescerTick, CoalescerTypeOK
    <3>3. CASE run # NoRun
      <4>1. run' = [run EXCEPT !.start = Aged(@), !.last = Aged(@)]
        BY <2>8, <3>3 DEF CoalescerTick
      <4>2. DOMAIN run = {"key", "start", "last"}
        BY <3>3 DEF CoalescerIInv, RunIsLastYield
      <4>3. run'.key = run.key /\ run'.start = Aged(run.start) /\ run'.last = Aged(run.last)
        BY <4>1, <4>2
      <4>4. run.start \in 0..LongAgo /\ run.last \in 0..LongAgo /\ run.last <= run.start
        BY <2>1, <3>3, WindowsAreShorter
      <4>5. /\ run'.start \in 0..LongAgo /\ run'.last \in 0..LongAgo
            /\ run'.last <= run'.start
        BY <4>3, <4>4, AgesPass
      <4> QED
        BY <2>1, <3>1, <3>3, <4>3, <4>5 DEF CoalescerTypeOK
    <3> QED
      BY <3>2, <3>3
  <2>9. CASE UNCHANGED coalescerVars
    BY <2>9 DEF coalescerVars, CoalescerTypeOK
  <2> QED
    BY <2>4, <2>5, <2>6, <2>7, <2>8, <2>9 DEF CoalescerNext
<1>3. CoalescerInit => Typed
  BY <1>1, CoalescerInitInvariant
<1>4. Typed /\ [CoalescerNext]_coalescerVars => Typed'
  BY <1>2, CoalescerStepKeeps
<1>5. Typed => CoalescerTypeOK
  OBVIOUS
<1> HIDE DEF Typed
<1> QED
  BY <1>3, <1>4, <1>5, PTL DEF CoalescerSpec

-----------------------------------------------------------------------------
(* Silos: the emitter remembers exactly what the reader shows, which is    *)
(* why leaving out what was said before loses nothing.                     *)

Natures == {None, "EXCLUDED", "STATE", "COMMAND", "CONSTANT_METADATA"}
Items   == [key : FlowKeys, value : FlowValues]
ShownPhases == Phases \union {None}
ShownValues == FlowValues \union {None}

SharedType ==
  [last_phase  : [Endpoints -> ShownPhases],
   last_values : [Endpoints -> [FlowKeys -> ShownValues]],
   announced   : [Endpoints -> [FlowKeys -> Natures]],
   state_keys  : SUBSET Vars,
   opaque      : SUBSET Endpoints]

ModelType ==
  [root        : [Endpoints -> {None, "evaluable", "unevaluable"}],
   flows       : SUBSET Vars,
   starred     : SUBSET Vars,
   nature      : [Endpoints -> [FlowKeys -> Natures]],
   starlate    : SUBSET Vars,
   value       : [Endpoints -> [FlowKeys -> ShownValues]],
   phase       : [Endpoints -> [FlowKeys -> ShownPhases]],
   unreadable  : SUBSET Endpoints,
   unevaluable : SUBSET (Endpoints \union Layers)]

EmType == [shared : SharedType, ui : ModelType, stale : BOOLEAN]

\* What the reader shows is what the emitter remembers, field by field.
Mirrors(shared, model) ==
  /\ model.value = shared.last_values
  /\ model.nature = shared.announced
  /\ model.unreadable = shared.opaque
  /\ model.starred = shared.state_keys
  /\ \A e \in Endpoints, k \in FlowKeys :
       model.phase[e][k] = IF <<e, k>> \in shared.state_keys THEN shared.last_phase[e] ELSE None

SilosTypes ==
  /\ stage \in {"observe", "discover", "feed", "stopped"} /\ settings \in Declared
  /\ heard \subseteq Endpoints /\ silos \subseteq heard
  /\ reported_late \subseteq Endpoints \ heard
  /\ roles \in [Endpoints -> [FlowKeys -> {None, "telemetry", "command"}]]
  /\ state_key \in [Endpoints -> FlowKeys \union {None}]
  /\ real \in [Endpoints -> Items \union {NoSample}] /\ own \in [Endpoints -> FlowValues \union {None}]
  /\ tracker \in [Endpoints -> Phases \union {None, "UNKNOWN"}]
  /\ emitter \in SharedType /\ ui \in ModelType /\ ui.starred \subseteq ui.flows
  /\ written \subseteq Vars /\ count \in Nat
  /\ found \in [Endpoints -> [FlowKeys -> Natures]]

\* How far discovery has come.
Progress ==
  /\ \A e \in Endpoints : e \notin silos => state_key[e] = None /\ found[e] = [k \in FlowKeys |-> None]
  /\ stage = "observe" => silos = {}
  /\ stage \in {"feed", "stopped"} => silos = heard
  /\ stage \in {"observe", "discover"} => written = {} /\ reported_late = {}
  /\ emitter.state_keys = {x \in Vars : x[1] \in evaluable /\ x[2] = state_key[x[1]]}

\* The values and the phases of the silos are those that were told last, and a sample of
\* the state variable is what that variable was read to be last.
ToldLast ==
  /\ emitter.last_values = latest
  /\ \A e \in Endpoints :
       /\ emitter.last_phase[e] = IF real[e] = NoSample THEN None ELSE tracker[e]
       /\ real[e] # NoSample => e \in evaluable /\ tracker[e] \in Phases
       /\ e \in Routing /\ real[e] # NoSample => real[e].key = state_key[e]
       /\ real[e] # NoSample /\ real[e].key = state_key[e] => real[e].value = own[e]

\* A write proves a command, of an evaluable silo.
Proven ==
  /\ \A x \in written : x[1] \in evaluable
  /\ \A e \in Endpoints, k \in FlowKeys :
       LET proven == <<e, k>> \in written /\ k # state_key[e]
       IN  /\ ui.nature[e][k] = IF proven THEN "COMMAND" ELSE found[e][k]
           /\ <<e, k>> \in ui.starlate <=> proven /\ found[e][k] # "COMMAND"

\* Where the reader finds an endpoint.
Placed ==
  /\ late = reported_late
  /\ \A e \in Endpoints :
       /\ e \notin silos => ui.root[e] = None
       /\ e \in evaluable => ui.root[e] = "evaluable"
       /\ e \in silos \ evaluable => ui.root[e] # "evaluable"
       /\ e \in ui.unevaluable <=> (e \in silos /\ ui.root[e] = None) \/ e \in reported_late
  /\ stage \in {"observe", "discover"} => ui.unevaluable \subseteq Endpoints
  /\ stage \in {"feed", "stopped"} =>
       \A x \in Layers : x \in ui.unevaluable <=> \A e \in evaluable : Layer[e] # x

SilosIInv ==
  SilosTypes /\ Progress /\ Mirrors(emitter, ui) /\ ToldLast /\ Proven /\ Placed /\ stale = FALSE

-----------------------------------------------------------------------------
(* The methods of the emitter.                                             *)

\* What the map and the lists of the reader show, and what tells the natures.
MapOf(m)    == <<m.root, m.flows, m.starred, m.unevaluable>>
NatureOf(m) == <<m.nature, m.starlate>>

\* A table with one entry written.
Cell(f, e, key, v) == [f EXCEPT ![e] = [f[e] EXCEPT ![key] = v]]

IsTable(f) == DOMAIN f = Endpoints /\ f = [d \in Endpoints |-> f[d]]
              /\ \A d \in Endpoints : DOMAIN f[d] = FlowKeys /\ f[d] = [k \in FlowKeys |-> f[d][k]]

\* The values and the phases shown are tables.
LEMMA Tables ==
  /\ \A f \in [Endpoints -> [FlowKeys -> ShownValues]] : IsTable(f)
  /\ \A f \in [Endpoints -> [FlowKeys -> ShownPhases]] : IsTable(f)
  BY DEF IsTable

\* Writing a cell of a table changes that cell only.
LEMMA CellValue ==
  ASSUME NEW f, IsTable(f), NEW e \in Endpoints, NEW key \in FlowKeys, NEW v
  PROVE  \A d \in Endpoints, k \in FlowKeys :
           Cell(f, e, key, v)[d][k] = IF d = e /\ k = key THEN v ELSE f[d][k]
  BY DEF Cell, IsTable

\* Writing what a cell holds changes nothing.
LEMMA CellSame ==
  ASSUME NEW f, IsTable(f), NEW e \in Endpoints, NEW key \in FlowKeys
  PROVE  f = Cell(f, e, key, f[e][key])
<1>1. f[e] = [f[e] EXCEPT ![key] = f[e][key]]
  BY DEF IsTable
<1> QED
  BY <1>1 DEF Cell, IsTable

\* Of two values written to a cell, the later stays.
LEMMA CellTwice ==
  ASSUME NEW f, IsTable(f), NEW e \in Endpoints, NEW key \in FlowKeys, NEW v, NEW w
  PROVE  Cell(Cell(f, e, key, v), e, key, w) = Cell(f, e, key, w)
<1>1. [[f[e] EXCEPT ![key] = v] EXCEPT ![key] = w] = [f[e] EXCEPT ![key] = w]
  BY DEF IsTable
<1> QED
  BY <1>1 DEF Cell, IsTable

\* An event that changes what is shown, or one of discovery, is not stale.
LEMMA EventTells ==
  ASSUME NEW em \in EmType, NEW s \in SharedType, NEW m \in ModelType,
         m # em.ui \/ stage # "feed", NEW r, r = _emit(em, s, m)
  PROVE  r \in EmType /\ r.shared = s /\ r.ui = m /\ r.stale = em.stale
<1>1. r.shared = s /\ r.ui = m /\ r = [shared |-> r.shared, ui |-> r.ui, stale |-> r.stale]
  BY DEF _emit
<1>2. r.stale = (em.stale \/ (stage = "feed" /\ m = em.ui))
  BY DEF _emit
<1>3. em.stale \in BOOLEAN
  BY DEF EmType
<1>4. r.stale = em.stale
  BY <1>2, <1>3
<1> QED
  BY <1>1, <1>3, <1>4 DEF EmType

\* What telling a phase and telling a value change.
PhaseTold(em, r, e, key, p) ==
  /\ r \in EmType /\ r.stale = em.stale
  /\ r.shared.last_phase = [em.shared.last_phase EXCEPT ![e] = p]
  /\ r.ui.phase = Cell(em.ui.phase, e, key, p)
  /\ r.shared.last_values = em.shared.last_values /\ r.ui.value = em.ui.value
  /\ r.shared.announced = em.shared.announced /\ NatureOf(r.ui) = NatureOf(em.ui)
  /\ r.shared.state_keys = em.shared.state_keys /\ MapOf(r.ui) = MapOf(em.ui)
  /\ r.shared.opaque = em.shared.opaque /\ r.ui.unreadable = em.ui.unreadable

ValueTold(em, r, e, key, v) ==
  /\ r \in EmType /\ r.stale = em.stale
  /\ r.shared.last_values = Cell(em.shared.last_values, e, key, v)
  /\ r.ui.value = r.shared.last_values
  /\ r.shared.last_phase = em.shared.last_phase /\ r.ui.phase = em.ui.phase
  /\ r.shared.announced = em.shared.announced /\ NatureOf(r.ui) = NatureOf(em.ui)
  /\ r.shared.state_keys = em.shared.state_keys /\ MapOf(r.ui) = MapOf(em.ui)
  /\ r.shared.opaque = em.shared.opaque /\ r.ui.unreadable = em.ui.unreadable

\* A phase that is what the reader shows is not told, and one that is told is new.
LEMMA PhaseIsTold ==
  ASSUME NEW em \in EmType, NEW e \in Endpoints, NEW key \in FlowKeys, NEW p \in Phases,
         em.ui.phase[e][key] = em.shared.last_phase[e],
         NEW r, r = phase_event(em, e, key, p)
  PROVE  PhaseTold(em, r, e, key, p)
<1> DEFINE s == [em.shared EXCEPT !.last_phase[e] = p]
           m == _phase(em.ui, e, key, p)
<1>1. em.shared \in SharedType /\ em.ui \in ModelType
  BY DEF EmType
<1>2. CASE em.shared.last_phase[e] = p
  <2>1. em.shared.last_phase = [em.shared.last_phase EXCEPT ![e] = p]
    BY <1>1, <1>2 DEF SharedType
  <2>2. em.ui.phase[e] = [em.ui.phase[e] EXCEPT ![key] = p]
    BY <1>1, <1>2 DEF ModelType
  <2>3. em.ui.phase = [em.ui.phase EXCEPT ![e] = [em.ui.phase[e] EXCEPT ![key] = p]]
    BY <1>1, <2>2 DEF ModelType
  <2>4. r = em
    BY <1>2 DEF phase_event, bind
  <2> QED
    BY <2>1, <2>3, <2>4 DEF PhaseTold, Cell
<1>3. CASE em.shared.last_phase[e] # p
  <2>1. /\ s.last_phase = [em.shared.last_phase EXCEPT ![e] = p]
        /\ s.last_values = em.shared.last_values /\ s.announced = em.shared.announced
        /\ s.state_keys = em.shared.state_keys /\ s.opaque = em.shared.opaque
    BY <1>1 DEF SharedType
  <2>2. s \in SharedType
    BY <1>1 DEF SharedType, ShownPhases
  <2>3. /\ m.phase = [em.ui.phase EXCEPT ![e] = [em.ui.phase[e] EXCEPT ![key] = p]]
        /\ m.value = em.ui.value /\ m.nature = em.ui.nature /\ m.starlate = em.ui.starlate
        /\ m.root = em.ui.root /\ m.flows = em.ui.flows /\ m.starred = em.ui.starred
        /\ m.unevaluable = em.ui.unevaluable /\ m.unreadable = em.ui.unreadable
    BY <1>1 DEF ModelType, _phase
  <2>4. m \in ModelType
    BY <1>1 DEF ModelType, _phase, ShownPhases
  <2>5. m.phase[e][key] = p
    BY <1>1, <2>3 DEF ModelType
  <2>6. m # em.ui
    BY <1>3, <2>5
  <2>7. r = _emit(em, s, m)
    BY <1>3 DEF phase_event, bind
  <2> HIDE DEF s, m
  <2>8. r \in EmType /\ r.shared = s /\ r.ui = m /\ r.stale = em.stale
    BY <2>2, <2>4, <2>6, <2>7, EventTells
  <2> QED
    BY <2>1, <2>3, <2>8 DEF MapOf, NatureOf, PhaseTold, Cell
<1> QED
  BY <1>2, <1>3

\* Likewise a value.
LEMMA ValueIsTold ==
  ASSUME NEW em \in EmType, NEW e \in Endpoints, NEW key \in FlowKeys, NEW v \in FlowValues,
         em.ui.value = em.shared.last_values,
         NEW r, r = variable_value(em, e, key, v)
  PROVE  ValueTold(em, r, e, key, v)
<1> DEFINE values == [em.shared.last_values EXCEPT ![e] = [em.shared.last_values[e] EXCEPT ![key] = v]]
           s == [em.shared EXCEPT !.last_values[e][key] = v]
           m == _variable_value(em.ui, e, key, v)
<1>1. em.shared \in SharedType /\ em.ui \in ModelType
  BY DEF EmType
<1>2. CASE em.shared.last_values[e][key] = v
  <2>1. em.shared.last_values[e] = [em.shared.last_values[e] EXCEPT ![key] = v]
    BY <1>1, <1>2 DEF SharedType
  <2>2. em.shared.last_values = values
    BY <1>1, <2>1 DEF SharedType
  <2>3. r = em
    BY <1>2 DEF variable_value, bind
  <2> QED
    BY <2>2, <2>3 DEF ValueTold, Cell
<1>3. CASE em.shared.last_values[e][key] # v
  <2>1. /\ s.last_values = values
        /\ s.last_phase = em.shared.last_phase /\ s.announced = em.shared.announced
        /\ s.state_keys = em.shared.state_keys /\ s.opaque = em.shared.opaque
    BY <1>1 DEF SharedType
  <2>2. s \in SharedType
    BY <1>1 DEF SharedType, ShownValues
  <2>3. /\ m.value = values
        /\ m.phase = em.ui.phase /\ m.nature = em.ui.nature /\ m.starlate = em.ui.starlate
        /\ m.root = em.ui.root /\ m.flows = em.ui.flows /\ m.starred = em.ui.starred
        /\ m.unevaluable = em.ui.unevaluable /\ m.unreadable = em.ui.unreadable
    BY <1>1 DEF ModelType, _variable_value
  <2>4. m \in ModelType
    BY <1>1 DEF ModelType, _variable_value, ShownValues
  <2>5. m.value[e][key] = v
    BY <1>1, <2>3 DEF SharedType
  <2>6. m # em.ui
    BY <1>3, <2>5
  <2>7. r = _emit(em, s, m)
    BY <1>3 DEF variable_value, bind
  <2> HIDE DEF s, m, values
  <2>8. r \in EmType /\ r.shared = s /\ r.ui = m /\ r.stale = em.stale
    BY <2>2, <2>4, <2>6, <2>7, EventTells
  <2> QED
    BY <2>1, <2>3, <2>8 DEF MapOf, NatureOf, values, ValueTold, Cell
<1> QED
  BY <1>2, <1>3

\* A nature is told of some keys: the table and the star of lateness follow, and the
\* map only gains variables.
NatureTold(em, r, e, keys, nature, islate) ==
  /\ r \in EmType /\ r.stale = em.stale
  /\ r.shared.announced
       = [em.shared.announced EXCEPT ![e] =
            [k \in FlowKeys |-> IF k \in keys THEN nature[k] ELSE em.shared.announced[e][k]]]
  /\ r.ui.nature = r.shared.announced
  /\ r.ui.starlate = IF islate THEN em.ui.starlate \union ({e} \X keys)
                     ELSE em.ui.starlate \ ({e} \X keys)
  /\ em.ui.flows \subseteq r.ui.flows
  /\ r.ui.root = em.ui.root /\ r.ui.starred = em.ui.starred
  /\ r.ui.unevaluable = em.ui.unevaluable
  /\ r.shared.last_phase = em.shared.last_phase /\ r.ui.phase = em.ui.phase
  /\ r.shared.last_values = em.shared.last_values /\ r.ui.value = em.ui.value
  /\ r.shared.state_keys = em.shared.state_keys
  /\ r.shared.opaque = em.shared.opaque /\ r.ui.unreadable = em.ui.unreadable

\* It is told as it is meant, and told in vain only while discovery lasts.
LEMMA NatureIsTold ==
  ASSUME NEW em \in EmType, NEW e \in Endpoints, NEW keys \in SUBSET FlowKeys, NEW nature,
         \A k \in keys : nature[k] \in Natures, NEW islate \in BOOLEAN,
         em.ui.nature = em.shared.announced,
         stage # "feed" \/ \E k \in keys : em.shared.announced[e][k] # nature[k]
  PROVE  NatureTold(em, announce(em, e, keys, nature, islate), e, keys, nature, islate)
<1> DEFINE row(f) == [k \in FlowKeys |-> IF k \in keys THEN nature[k] ELSE f[k]]
           table == [em.shared.announced EXCEPT ![e] = row(em.shared.announced[e])]
           s == [em.shared EXCEPT !.announced[e] = row(em.shared.announced[e])]
           m == _variable_found(em.ui, e, keys, nature, islate)
           r == announce(em, e, keys, nature, islate)
<1>1. em.shared \in SharedType /\ em.ui \in ModelType
  BY DEF EmType
<1>2. table \in [Endpoints -> [FlowKeys -> Natures]]
  <2>1. row(em.shared.announced[e]) \in [FlowKeys -> Natures]
    BY <1>1 DEF SharedType
  <2> HIDE DEF row
  <2> QED
    BY <1>1, <2>1 DEF SharedType
<1>3. {e} \X keys \subseteq Vars
  BY DEF Vars
<1>4. /\ s.announced = table
      /\ s.last_phase = em.shared.last_phase /\ s.last_values = em.shared.last_values
      /\ s.state_keys = em.shared.state_keys /\ s.opaque = em.shared.opaque
  <2> HIDE DEF row
  <2> QED
    BY <1>1 DEF SharedType
<1>5. s \in SharedType
  <2> HIDE DEF row, table
  <2> QED
    BY <1>1, <1>2, <1>4 DEF SharedType
<1>6. /\ m.nature = table
      /\ m.starlate = IF islate THEN em.ui.starlate \union ({e} \X keys)
                      ELSE em.ui.starlate \ ({e} \X keys)
      /\ m.flows = IF em.ui.root[e] # None THEN em.ui.flows \union ({e} \X keys) ELSE em.ui.flows
      /\ m.phase = em.ui.phase /\ m.value = em.ui.value
      /\ m.root = em.ui.root /\ m.starred = em.ui.starred
      /\ m.unevaluable = em.ui.unevaluable /\ m.unreadable = em.ui.unreadable
  BY <1>1 DEF ModelType, _variable_found
<1>7. m \in ModelType
  <2> DEFINE R == row(em.ui.nature[e])
             S == IF islate THEN em.ui.starlate \union ({e} \X keys)
                  ELSE em.ui.starlate \ ({e} \X keys)
             F == IF em.ui.root[e] # None THEN em.ui.flows \union ({e} \X keys) ELSE em.ui.flows
  <2>1. m = [em.ui EXCEPT !.nature[e] = R, !.starlate = S, !.flows = F]
    BY DEF _variable_found
  <2>2. R \in [FlowKeys -> Natures]
    BY <1>1 DEF ModelType
  <2>3. S \in SUBSET Vars /\ F \in SUBSET Vars
    BY <1>1, <1>3 DEF ModelType
  <2> HIDE DEF m, R, S, F
  <2> QED
    BY <1>1, <2>1, <2>2, <2>3 DEF ModelType
<1>8. m # em.ui \/ stage # "feed"
  <2>1. SUFFICES ASSUME NEW k \in keys, em.shared.announced[e][k] # nature[k] PROVE m # em.ui
    OBVIOUS
  <2>2. m.nature[e][k] = nature[k]
    BY <1>1, <1>6 DEF SharedType
  <2> QED
    BY <2>1, <2>2
<1>9. r = _emit(em, s, m)
  BY DEF announce, bind
<1> HIDE DEF s, m, r
<1>10. r \in EmType /\ r.shared = s /\ r.ui = m /\ r.stale = em.stale
  BY <1>5, <1>7, <1>8, <1>9, EventTells
<1>11. NatureTold(em, r, e, keys, nature, islate)
  BY <1>4, <1>6, <1>10 DEF NatureTold
<1> QED
  BY <1>11 DEF r

\* A write proves a command unless it is known to be one or is the state signal.
LEMMA CommandIsTold ==
  ASSUME NEW em \in EmType, NEW e \in Endpoints, NEW key \in FlowKeys,
         em.ui.nature = em.shared.announced, NEW r, r = command_found(em, e, key),
         em.shared.announced[e][key] # "COMMAND", <<e, key>> \notin em.shared.state_keys
  PROVE  /\ r \in EmType /\ r.stale = em.stale
         /\ r.shared.announced
              = [em.shared.announced EXCEPT ![e] = [em.shared.announced[e] EXCEPT ![key] = "COMMAND"]]
         /\ r.ui.nature = r.shared.announced
         /\ r.ui.starlate = em.ui.starlate \union {<<e, key>>}
         /\ em.ui.flows \subseteq r.ui.flows
         /\ r.ui.root = em.ui.root /\ r.ui.starred = em.ui.starred
         /\ r.ui.unevaluable = em.ui.unevaluable
         /\ r.shared.last_phase = em.shared.last_phase /\ r.ui.phase = em.ui.phase
         /\ r.shared.last_values = em.shared.last_values /\ r.ui.value = em.ui.value
         /\ r.shared.state_keys = em.shared.state_keys
         /\ r.shared.opaque = em.shared.opaque /\ r.ui.unreadable = em.ui.unreadable
<1> DEFINE nature == [k \in {key} |-> "COMMAND"]
<1>1. r = announce(em, e, {key}, nature, TRUE)
  BY DEF command_found, bind
<1>2. \A k \in {key} : nature[k] \in Natures
  BY DEF Natures
<1>3. \E k \in {key} : em.shared.announced[e][k] # nature[k]
  OBVIOUS
<1>4. {key} \in SUBSET FlowKeys
  OBVIOUS
<1>5. {e} \X {key} = {<<e, key>>}
  OBVIOUS
<1>6. [k \in FlowKeys |-> IF k \in {key} THEN nature[k] ELSE em.shared.announced[e][k]]
        = [em.shared.announced[e] EXCEPT ![key] = "COMMAND"]
  BY DEF EmType, SharedType
<1> HIDE DEF nature
<1>7. NatureTold(em, r, e, {key}, nature, TRUE)
  BY <1>1, <1>2, <1>3, <1>4, NatureIsTold
<1> QED
  BY <1>5, <1>6, <1>7 DEF NatureTold

\* An unreadable endpoint is told once.
LEMMA OpaqueIsTold ==
  ASSUME NEW em \in EmType, NEW e \in Endpoints, em.ui.unreadable = em.shared.opaque,
         NEW r, r = opaque_endpoint(em, e)
  PROVE  /\ r \in EmType /\ r.stale = em.stale
         /\ r.ui.unreadable = r.shared.opaque
         /\ r.shared.last_phase = em.shared.last_phase /\ r.ui.phase = em.ui.phase
         /\ r.shared.last_values = em.shared.last_values /\ r.ui.value = em.ui.value
         /\ r.shared.announced = em.shared.announced /\ NatureOf(r.ui) = NatureOf(em.ui)
         /\ r.shared.state_keys = em.shared.state_keys /\ MapOf(r.ui) = MapOf(em.ui)
<1> DEFINE s == [em.shared EXCEPT !.opaque = @ \union {e}]
           m == _unreadable(em.ui, e)
<1>1. em.shared \in SharedType /\ em.ui \in ModelType
  BY DEF EmType
<1>2. CASE e \in em.shared.opaque
  BY <1>2 DEF opaque_endpoint
<1>3. CASE e \notin em.shared.opaque
  <2>1. /\ s.opaque = em.shared.opaque \union {e}
        /\ s.last_phase = em.shared.last_phase /\ s.announced = em.shared.announced
        /\ s.state_keys = em.shared.state_keys /\ s.last_values = em.shared.last_values
    BY <1>1 DEF SharedType
  <2>2. s \in SharedType
    BY <1>1 DEF SharedType
  <2>3. /\ m.unreadable = em.ui.unreadable \union {e}
        /\ m.phase = em.ui.phase /\ m.nature = em.ui.nature /\ m.starlate = em.ui.starlate
        /\ m.root = em.ui.root /\ m.flows = em.ui.flows /\ m.starred = em.ui.starred
        /\ m.unevaluable = em.ui.unevaluable /\ m.value = em.ui.value
    BY <1>1 DEF ModelType, _unreadable
  <2>4. m \in ModelType
    BY <1>1 DEF ModelType, _unreadable
  <2>5. m # em.ui
    BY <1>3, <2>3
  <2>6. r = _emit(em, s, m)
    BY <1>3 DEF opaque_endpoint
  <2> HIDE DEF s, m
  <2>7. r \in EmType /\ r.shared = s /\ r.ui = m /\ r.stale = em.stale
    BY <2>2, <2>4, <2>5, <2>6, EventTells
  <2> QED
    BY <2>1, <2>3, <2>7 DEF MapOf, NatureOf
<1> QED
  BY <1>2, <1>3

-----------------------------------------------------------------------------
(* The samples of a message.                                               *)

Below == {ss \in Nat \X Nat : ss[1] < ss[2]}

\* A set with zero that contains the successors of its members is all of Nat.
LEMMA NaturalsByInduction ==
  ASSUME NEW T, 0 \in T, \A k \in Nat : k \in T => k + 1 \in T
  PROVE  Nat \subseteq T
<1> SUFFICES ASSUME Nat \ T # {} PROVE FALSE
  BY Zenon
<1>1. IsWellFoundedOn(Below, Nat)
  BY NatLessThanWellFounded, Zenon DEF OpToRel, Below
<1>2. \E m \in Nat \ T : \A k \in Nat \ T : ~(<<k, m>> \in Below)
  BY <1>1, WFMin, Zenon
<1>3. PICK m \in Nat \ T : \A k \in Nat \ T : ~(<<k, m>> \in Below)
  BY <1>2
<1>4. m - 1 \in Nat /\ m - 1 < m /\ (m - 1) + 1 = m
  BY <1>3, SMT
<1>5. <<m - 1, m>> \in Below
  BY <1>3, <1>4, SMT DEF Below
<1>6. m - 1 \in T
  BY <1>3, <1>4, <1>5, Zenon
<1> QED
  BY <1>3, <1>4, <1>6, SMT

\* Among some numbers up to n there is a last one.
LEMMA LastOfSome ==
  ASSUME NEW n \in Nat, NEW S \in SUBSET (1..n), NEW i \in S
  PROVE  \E l \in S : \A j \in S : j <= l
<1> DEFINE T == {m \in Nat : \A l \in S : l + m >= n => \E k \in S : \A j \in S : j <= k}
<1>1. 0 \in T
  <2> SUFFICES ASSUME NEW l \in S, l + 0 >= n PROVE \A j \in S : j <= l
    OBVIOUS
  <2> QED
    OBVIOUS
<1>2. ASSUME NEW m \in Nat, m \in T PROVE m + 1 \in T
  <2> SUFFICES ASSUME NEW l \in S, l + (m + 1) >= n
               PROVE  \E k \in S : \A j \in S : j <= k
    OBVIOUS
  <2>1. CASE \A j \in S : j <= l
    BY <2>1
  <2>2. CASE \E j \in S : ~(j <= l)
    <3>1. PICK j \in S : ~(j <= l)
      BY <2>2
    <3>2. j + m >= n
      BY <3>1
    <3> QED
      BY <1>2, <3>2
  <2> QED
    BY <2>1, <2>2
<1> HIDE DEF T
<1>3. n \in T
  BY <1>1, <1>2, NaturalsByInduction
<1>4. i + n >= n
  OBVIOUS
<1> QED
  BY <1>3, <1>4 DEF T

\* What has become of the emitter when some samples are fed in order: only the phase
\* of the silo and the value of its state signal are told.
FedTold(e, items, taken, r) ==
  LET key == state_key[e]  shared == r.em.shared  model == r.em.ui
  IN  /\ r.em \in EmType /\ r.em.stale = stale
      /\ \/ taken = {} /\ r.phase = tracker[e] /\ r.real = real[e]
         \/ r.phase \in Phases /\ \E i \in taken : r.real = items[i] /\ \A j \in taken : j <= i
      /\ r.value \in ShownValues
      /\ shared.last_phase = [emitter.last_phase EXCEPT ![e] = IF r.real = NoSample THEN None ELSE r.phase]
      /\ model.phase = Cell(ui.phase, e, key, shared.last_phase[e])
      /\ shared.last_values = Cell(emitter.last_values, e, key, r.value)
      /\ model.value = shared.last_values
      /\ shared.announced = emitter.announced /\ NatureOf(model) = NatureOf(ui)
      /\ shared.state_keys = emitter.state_keys /\ MapOf(model) = MapOf(ui)
      /\ shared.opaque = emitter.opaque /\ model.unreadable = ui.unreadable

\* What a silo may rely on before it is fed.
Feedable(e) ==
  /\ e \in Endpoints /\ state_key[e] \in FlowKeys
  /\ emitter \in SharedType /\ ui \in ModelType /\ stale = FALSE
  /\ ui.value = emitter.last_values /\ emitter.last_values = latest
  /\ ui.phase[e][state_key[e]] = emitter.last_phase[e]
  /\ emitter.last_phase[e] = IF real[e] = NoSample THEN None ELSE tracker[e]

\* Before the first sample of a message everything is told.
LEMMA UnfedTold ==
  ASSUME NEW e, Feedable(e), NEW items
  PROVE  FedTold(e, items, {}, Unfed(e))
<1> DEFINE r == Unfed(e)
           key == state_key[e]
<1>1. /\ r.em = Quiet /\ r.phase = tracker[e] /\ r.real = real[e] /\ r.value = latest[e][key]
      /\ Quiet \in EmType /\ Quiet.shared = emitter /\ Quiet.ui = ui /\ Quiet.stale = stale
  BY DEF Unfed, Quiet, Feedable, EmType
<1>2. /\ emitter.last_phase \in [Endpoints -> ShownPhases]
      /\ emitter.last_values \in [Endpoints -> [FlowKeys -> ShownValues]]
      /\ ui.phase \in [Endpoints -> [FlowKeys -> ShownPhases]]
  BY DEF Feedable, SharedType, ModelType
<1>3. emitter.last_phase = [emitter.last_phase EXCEPT ![e] = IF r.real = NoSample THEN None ELSE r.phase]
  BY <1>1, <1>2 DEF Feedable
<1> HIDE DEF r, key
<1>8. e \in Endpoints /\ key \in FlowKeys
  BY DEF Feedable, key
<1>4. ui.phase = Cell(ui.phase, e, key, emitter.last_phase[e])
  <2>1. ui.phase = Cell(ui.phase, e, key, ui.phase[e][key])
    BY <1>2, <1>8, CellSame, Tables
  <2> QED
    BY <2>1 DEF Feedable, key
<1>5. emitter.last_values = Cell(emitter.last_values, e, key, r.value)
  <2>1. emitter.last_values = Cell(emitter.last_values, e, key, emitter.last_values[e][key])
    BY <1>2, <1>8, CellSame, Tables
  <2> QED
    BY <1>1, <2>1 DEF Feedable
<1>6. r.value \in ShownValues /\ ui.value = emitter.last_values
  BY <1>1, <1>2, <1>8 DEF Feedable
<1>7. FedTold(e, items, {}, r)
  BY <1>1, <1>3, <1>4, <1>5, <1>6 DEF FedTold, key
<1> QED
  BY <1>7 DEF r

\* One sample more.
LEMMA OneMoreTold ==
  ASSUME NEW e, Feedable(e), NEW items, NEW taken, NEW i \in Nat, \A j \in taken : j <= i,
         items[i] \in Items, NEW p \in Phases, NEW r, FedTold(e, items, taken, r)
  PROVE  FedTold(e, items, taken \union {i}, FeedOne(r, e, items[i], p))
<1> DEFINE key == state_key[e]
           v == items[i].value
           phased == phase_event(r.em, e, key, p)
           n == FeedOne(r, e, items[i], p)
<1>1. /\ v \in FlowValues /\ v \in ShownValues /\ p \in ShownPhases
      /\ e \in Endpoints /\ key \in FlowKeys /\ items[i] # NoSample /\ r.em \in EmType
  BY SilosAssumption DEF Items, NoSample, Feedable, FedTold, ShownValues, ShownPhases
<1>2. n.em = variable_value(phased, e, key, v) /\ n.phase = p /\ n.real = items[i] /\ n.value = v
  BY DEF FeedOne
<1> HIDE DEF v
<1>3. /\ emitter.last_phase \in [Endpoints -> ShownPhases]
      /\ emitter.last_values \in [Endpoints -> [FlowKeys -> ShownValues]]
      /\ ui.phase \in [Endpoints -> [FlowKeys -> ShownPhases]]
  BY DEF Feedable, SharedType, ModelType
<1>13. /\ r.em.ui.phase = Cell(ui.phase, e, key, r.em.shared.last_phase[e])
       /\ r.em.shared.last_values = Cell(emitter.last_values, e, key, r.value)
       /\ r.em.ui.value = r.em.shared.last_values
  BY DEF FedTold
<1> HIDE DEF key
<1>4. r.em.ui.phase[e][key] = r.em.shared.last_phase[e]
  BY <1>1, <1>3, <1>13, CellValue, Tables
<1>5. PhaseTold(r.em, phased, e, key, p)
  BY <1>1, <1>4, PhaseIsTold
<1> HIDE DEF phased
<1>6. phased \in EmType /\ phased.ui.value = phased.shared.last_values
  BY <1>5, <1>13 DEF PhaseTold
<1>12. ValueTold(phased, n.em, e, key, v)
  BY <1>1, <1>2, <1>6, ValueIsTold
<1> HIDE DEF n
<1>7. n.em.shared.last_phase = [emitter.last_phase EXCEPT ![e] = p]
  BY <1>3, <1>5, <1>12 DEF FedTold, PhaseTold, ValueTold
<1>8. n.em.ui.phase = Cell(ui.phase, e, key, p)
  <2>1. n.em.ui.phase = Cell(r.em.ui.phase, e, key, p)
    BY <1>5, <1>12 DEF PhaseTold, ValueTold
  <2>2. IsTable(ui.phase)
    BY <1>3, Tables
  <2> DEFINE q == r.em.shared.last_phase[e]
  <2> HIDE DEF q
  <2>3. Cell(Cell(ui.phase, e, key, q), e, key, p) = Cell(ui.phase, e, key, p)
    BY <1>1, <2>2, CellTwice
  <2> QED
    BY <1>13, <2>1, <2>3 DEF q
<1>9. n.em.shared.last_values = Cell(emitter.last_values, e, key, v)
  <2>1. n.em.shared.last_values = Cell(r.em.shared.last_values, e, key, v)
    BY <1>5, <1>12 DEF PhaseTold, ValueTold
  <2>2. IsTable(emitter.last_values)
    BY <1>3, Tables
  <2>3. Cell(Cell(emitter.last_values, e, key, r.value), e, key, v) = Cell(emitter.last_values, e, key, v)
    BY <1>1, <2>2, CellTwice
  <2> QED
    BY <1>13, <2>1, <2>3
<1>10. n.em.shared.last_phase[e] = p
  BY <1>1, <1>3, <1>7
<1>14. \E l \in taken \union {i} : n.real = items[l] /\ \A j \in taken \union {i} : j <= l
  BY <1>2
<1>11. FedTold(e, items, taken \union {i}, n)
  BY <1>1, <1>2, <1>5, <1>12, <1>7, <1>8, <1>9, <1>10, <1>14 DEF FedTold, key, PhaseTold, ValueTold
<1> QED
  BY <1>11 DEF n

\* However many samples a message holds: none is told twice, and none in vain.
LEMMA FedIsTold ==
  ASSUME NEW e, Feedable(e), NEW items \in Seq(Items), NEW taken \in SUBSET DOMAIN items,
         NEW phases \in [DOMAIN items -> Phases]
  PROVE  FedTold(e, items, taken, Fed(e, items, taken, phases))
<1> DEFINE n == Len(items)
           Next1(prev, i) == IF i \in taken THEN FeedOne(prev, e, items[i], phases[i]) ELSE prev
           Feeds(f, m) == f = [i \in 0..m |-> IF i = 0 THEN Unfed(e) ELSE Next1(f[i - 1], i)]
           Rec(f) == f = [i \in 0..n |-> IF i = 0 THEN Unfed(e)
                           ELSE IF i \in taken THEN FeedOne(f[i - 1], e, items[i], phases[i])
                           ELSE f[i - 1]]
           fed == CHOOSE f : Rec(f)
           Upto(m) == taken \intersect 1..m
           T == {m \in Nat : m <= n => /\ \E f : Feeds(f, m)
                                       /\ \A f : Feeds(f, n) => FedTold(e, items, Upto(m), f[m])}
<1>1. n \in Nat /\ DOMAIN items = 1..n
  OBVIOUS
<1>2. FedTold(e, items, Upto(0), Unfed(e)) /\ Upto(n) = taken
  <2>1. Upto(0) = {} /\ Upto(n) = taken
    BY <1>1
  <2> QED
    BY <2>1, UnfedTold
<1>3. ASSUME NEW i \in 1..n, NEW prev, FedTold(e, items, Upto(i - 1), prev)
      PROVE  FedTold(e, items, Upto(i), Next1(prev, i))
  <2>1. CASE i \in taken
    <3>1. items[i] \in Items /\ phases[i] \in Phases /\ i \in Nat
      BY <1>1
    <3>2. Upto(i) = Upto(i - 1) \union {i} /\ \A j \in Upto(i - 1) : j <= i
      BY <1>1, <2>1
    <3> HIDE DEF Upto
    <3> QED
      BY <1>3, <2>1, <3>1, <3>2, OneMoreTold
  <2>2. CASE i \notin taken
    <3>1. Upto(i) = Upto(i - 1)
      BY <1>1, <2>2
    <3> QED
      BY <1>3, <2>2, <3>1
  <2> QED
    BY <2>1, <2>2
<1> HIDE DEF Next1, n, Upto
<1>4. 0 \in T
  <2> DEFINE f == [i \in 0..0 |-> Unfed(e)]
  <2>1. Feeds(f, 0)
    OBVIOUS
  <2>2. \A g : Feeds(g, n) => g[0] = Unfed(e)
    BY <1>1
  <2> HIDE DEF f, Feeds
  <2> QED
    BY <1>2, <2>1, <2>2
<1>5. ASSUME NEW m \in Nat, m \in T PROVE m + 1 \in T
  <2> SUFFICES ASSUME m + 1 <= n
               PROVE  /\ \E f : Feeds(f, m + 1)
                      /\ \A f : Feeds(f, n) => FedTold(e, items, Upto(m + 1), f[m + 1])
    BY <1>5
  <2>1. PICK f : Feeds(f, m)
    BY <1>1, <1>5
  <2> DEFINE g == [i \in 0..(m + 1) |-> IF i = m + 1 THEN Next1(f[m], m + 1) ELSE f[i]]
  <2>2. ASSUME NEW i \in 0..(m + 1)
        PROVE  g[i] = IF i = 0 THEN Unfed(e) ELSE Next1(g[i - 1], i)
    <3>1. CASE i = m + 1
      BY <3>1
    <3>2. CASE i = 0
      BY <2>1, <3>2
    <3>3. CASE i \in 1..m
      BY <2>1, <3>3
    <3> QED
      BY <3>1, <3>2, <3>3
  <2>3. g = [i \in 0..(m + 1) |-> g[i]]
    OBVIOUS
  <2> HIDE DEF g
  <2>4. Feeds(g, m + 1)
    BY <2>2, <2>3
  <2>5. ASSUME NEW h, Feeds(h, n) PROVE FedTold(e, items, Upto(m + 1), h[m + 1])
    <3>1. FedTold(e, items, Upto(m), h[m])
      <4>1. m <= n
        BY <1>1
      <4> HIDE DEF Feeds
      <4>2. \A j : Feeds(j, n) => FedTold(e, items, Upto(m), j[m])
        BY <1>5, <4>1
      <4> QED
        BY <2>5, <4>2
    <3>2. h[m + 1] = Next1(h[m], m + 1)
      <4>1. m + 1 \in 0..n /\ m + 1 # 0 /\ (m + 1) - 1 = m
        BY <1>1
      <4> QED
        BY <2>5, <4>1
    <3>3. m + 1 \in 1..n /\ (m + 1) - 1 = m
      BY <1>1
    <3> QED
      BY <1>3, <3>1, <3>2, <3>3
  <2> HIDE DEF Feeds
  <2> QED
    BY <2>4, <2>5
<1>6. n \in T
  <2> HIDE DEF T
  <2> QED
    BY <1>1, <1>4, <1>5, NaturalsByInduction
<1>7. \A f : Rec(f) <=> Feeds(f, n)
  BY DEF Next1
<1>8. Rec(fed)
  <2> HIDE DEF Rec
  <2>1. \E f : Rec(f)
    <3> HIDE DEF Feeds
    <3> QED
      BY <1>1, <1>6, <1>7
  <2> QED
    BY <2>1, Zenon
<1>9. Fed(e, items, taken, phases) = fed[n]
  BY DEF Fed, n
<1> HIDE DEF Rec, fed, Feeds
<1> QED
  BY <1>1, <1>2, <1>6, <1>7, <1>8, <1>9

-----------------------------------------------------------------------------
(* The steps of the silos.                                                 *)

\* Before the first event nothing is remembered and nothing is shown.
LEMMA SilosInitInvariant == SilosInit => SilosIInv
<1> SUFFICES ASSUME SilosInit PROVE SilosIInv
  OBVIOUS
<1>1. /\ emitter \in SharedType /\ ui \in ModelType
      /\ emitter.state_keys = {} /\ emitter.last_values = Unset /\ emitter.announced = Unset
      /\ emitter.opaque = {} /\ emitter.last_phase = [e \in Endpoints |-> None]
      /\ ui.starred = {} /\ ui.flows = {} /\ ui.nature = Unset /\ ui.starlate = {}
      /\ ui.value = Unset /\ ui.phase = Unset /\ ui.unreadable = {} /\ ui.unevaluable = {}
      /\ ui.root = [e \in Endpoints |-> None]
  BY DEF SilosInit, SharedType, ModelType, Unset, Natures, ShownPhases, ShownValues
<1>2. evaluable = {}
  BY DEF SilosInit, evaluable
<1>3. SilosTypes
  BY <1>1 DEF SilosInit, SilosTypes, Unset, Natures
<1>4. Progress
  BY <1>1, <1>2 DEF SilosInit, Progress, Unset
<1>5. Mirrors(emitter, ui)
  BY <1>1 DEF Mirrors, Unset
<1>6. ToldLast
  BY <1>1 DEF SilosInit, ToldLast
<1>7. Proven
  BY <1>1 DEF SilosInit, Proven, Unset
<1>8. Placed
  BY <1>1, <1>2 DEF SilosInit, Placed
<1> QED
  BY <1>3, <1>4, <1>5, <1>6, <1>7, <1>8 DEF SilosInit, SilosIInv

\* Feeding an evaluable silo: only what is told of its state signal changes.
LEMMA FeedKeeps ==
  ASSUME SilosIInv, NEW e \in evaluable, NEW items \in Seq(Items), NEW taken \in SUBSET DOMAIN items,
         e \in Routing => \A i \in taken : items[i].key = state_key[e],
         NEW phases \in [DOMAIN items -> Phases], Feed(e, items, taken, phases), count' \in Nat,
         UNCHANGED <<stage, settings, heard, roles, silos, state_key, reported_late, written, found, late>>,
         NEW v \in FlowValues \union {None}, own' = [own EXCEPT ![e] = v], taken = {} => v = own[e],
         \A i \in taken : (\A j \in taken : j <= i) /\ items[i].key = state_key[e] => v = items[i].value
  PROVE  SilosIInv'
<1> DEFINE key == state_key[e]
           r == Fed(e, items, taken, phases)
<1>1. e \in Endpoints /\ e \in silos /\ key \in FlowKeys /\ <<e, key>> \in emitter.state_keys
  BY DEF SilosIInv, SilosTypes, Progress, evaluable, Vars
<1>2. Feedable(e)
  BY <1>1 DEF SilosIInv, SilosTypes, Mirrors, ToldLast, Feedable
<1>3. FedTold(e, items, taken, r)
  BY <1>2, FedIsTold
<1>4. /\ emitter' = r.em.shared /\ ui' = r.em.ui /\ stale' = r.em.stale
      /\ tracker' = [tracker EXCEPT ![e] = r.phase] /\ real' = [real EXCEPT ![e] = r.real]
      /\ latest' = [latest EXCEPT ![e][key] = r.value]
  BY DEF Feed, Tell
<1> HIDE DEF r, key
<1>5. evaluable' = evaluable
  BY DEF evaluable
<1>6. /\ r.em \in EmType /\ r.em.stale = FALSE /\ r.real \in Items \union {NoSample}
      /\ r.phase \in Phases \union {None, "UNKNOWN"}
      /\ r.real # NoSample => r.phase \in Phases
      /\ e \in Routing /\ r.real # NoSample => r.real.key = state_key[e]
      /\ r.real # NoSample /\ r.real.key = state_key[e] => r.real.value = v
  <2>1. r.em \in EmType /\ r.em.stale = FALSE
    BY <1>3 DEF FedTold, SilosIInv
  <2>2. CASE taken = {} /\ r.phase = tracker[e] /\ r.real = real[e]
    BY <1>1, <2>1, <2>2 DEF SilosIInv, SilosTypes, ToldLast
  <2>3. CASE r.phase \in Phases /\ \E i \in taken : r.real = items[i] /\ \A j \in taken : j <= i
    BY <2>1, <2>3
  <2> QED
    BY <1>3, <2>2, <2>3 DEF FedTold
<1>7. /\ emitter' \in SharedType /\ ui' \in ModelType
      /\ emitter'.last_phase = [emitter.last_phase EXCEPT ![e] = IF r.real = NoSample THEN None ELSE r.phase]
      /\ ui'.phase = Cell(ui.phase, e, key, emitter'.last_phase[e])
      /\ emitter'.last_values = Cell(emitter.last_values, e, key, r.value)
      /\ ui'.value = emitter'.last_values
      /\ emitter'.announced = emitter.announced /\ ui'.nature = ui.nature /\ ui'.starlate = ui.starlate
      /\ emitter'.state_keys = emitter.state_keys
      /\ ui'.root = ui.root /\ ui'.flows = ui.flows /\ ui'.starred = ui.starred
      /\ ui'.unevaluable = ui.unevaluable
      /\ emitter'.opaque = emitter.opaque /\ ui'.unreadable = ui.unreadable
  BY <1>3, <1>4 DEF FedTold, EmType, NatureOf, MapOf, key
<1>8. SilosTypes'
  BY <1>1, <1>4, <1>6, <1>7 DEF SilosIInv, SilosTypes
<1>9. Progress'
  BY <1>5, <1>7 DEF SilosIInv, Progress
<1>10. Mirrors(emitter, ui)'
  <2>1. IsTable(ui.phase)
    BY Tables DEF SilosIInv, SilosTypes, ModelType
  <2>2. ASSUME NEW d \in Endpoints, NEW k \in FlowKeys
        PROVE  ui'.phase[d][k] = IF <<d, k>> \in emitter'.state_keys THEN emitter'.last_phase[d] ELSE None
    <3>1. ui'.phase[d][k] = IF d = e /\ k = key THEN emitter'.last_phase[e] ELSE ui.phase[d][k]
      BY <1>1, <1>7, <2>1, CellValue
    <3>2. ui.phase[d][k] = IF <<d, k>> \in emitter.state_keys THEN emitter.last_phase[d] ELSE None
      BY DEF SilosIInv, Mirrors
    <3>3. <<e, k>> \in emitter.state_keys => k = key
      BY DEF SilosIInv, Progress, key
    <3>4. d # e => emitter'.last_phase[d] = emitter.last_phase[d]
      BY <1>7 DEF SilosIInv, SilosTypes, SharedType
    <3> QED
      BY <1>1, <1>7, <3>1, <3>2, <3>3, <3>4
  <2> QED
    BY <1>7, <2>2 DEF SilosIInv, Mirrors
<1>11. ToldLast'
  <2>1. emitter'.last_values = latest'
    BY <1>4, <1>7 DEF SilosIInv, ToldLast, Cell
  <2>2. ASSUME NEW d \in Endpoints
        PROVE  /\ emitter'.last_phase[d] = IF real'[d] = NoSample THEN None ELSE tracker'[d]
               /\ real'[d] # NoSample => d \in evaluable /\ tracker'[d] \in Phases
               /\ d \in Routing /\ real'[d] # NoSample => real'[d].key = state_key[d]
               /\ real'[d] # NoSample /\ real'[d].key = state_key[d] => real'[d].value = own'[d]
    <3>1. CASE d = e
      BY <1>1, <1>4, <1>6, <1>7, <3>1 DEF SilosIInv, SilosTypes, SharedType
    <3>2. CASE d # e
      <4>1. /\ emitter'.last_phase[d] = emitter.last_phase[d] /\ real'[d] = real[d] /\ tracker'[d] = tracker[d]
            /\ own'[d] = own[d]
        BY <1>4, <1>7, <3>2 DEF SilosIInv, SilosTypes, SharedType
      <4> QED
        BY <4>1 DEF SilosIInv, ToldLast
    <3> QED
      BY <3>1, <3>2
  <2> QED
    BY <1>5, <2>1, <2>2 DEF ToldLast
<1>12. Proven'
  BY <1>5, <1>7 DEF SilosIInv, Proven
<1>13. Placed'
  BY <1>5, <1>7 DEF SilosIInv, Placed
<1> QED
  BY <1>4, <1>6, <1>8, <1>9, <1>10, <1>11, <1>12, <1>13 DEF SilosIInv

\* A read answer or a publish feeds its samples.
LEMMA ReadKeeps ==
  ASSUME SilosIInv, NEW e \in Endpoints, ReadOf(e)
  PROVE  SilosIInv'
<1>0. PICK m \in Reads[e] : /\ \E phases \in [DOMAIN m -> Phases] : Feed(e, m, Sampled(e, m), phases)
                            /\ own' = [own EXCEPT ![e] = OwnIn(e, m)]
  BY DEF ReadOf
<1>1. PICK phases \in [DOMAIN m -> Phases] : Feed(e, m, Sampled(e, m), phases)
  BY <1>0
<1>2. m \in Seq(Items)
  BY SilosAssumption DEF Items
<1>3. /\ Sampled(e, m) \in SUBSET DOMAIN m
      /\ e \in Routing => \A i \in Sampled(e, m) : m[i].key = state_key[e]
  BY DEF Sampled
<1>4. e \in evaluable /\ count' \in Nat
      /\ UNCHANGED <<stage, settings, heard, roles, silos, state_key, reported_late, written, found, late>>
  BY DEF ReadOf, Count, SilosIInv, SilosTypes
<1> DEFINE mine == {i \in DOMAIN m : m[i].key = state_key[e]}
           Last(i) == i \in mine /\ \A j \in mine : j <= i
<1>5. \A i \in DOMAIN m : i \in Nat /\ m[i] \in Items /\ m[i].value \in FlowValues
  <2>1. \A i \in DOMAIN m : i \in Nat /\ m[i] \in Items
    BY <1>2
  <2> QED
    BY <2>1 DEF Items
<1>6. OwnIn(e, m) = IF mine = {} THEN own[e] ELSE m[CHOOSE i \in mine : \A j \in mine : j <= i].value
  BY DEF OwnIn
<1>7. Sampled(e, m) = {} => mine = {}
  BY DEF Sampled
<1>8. ASSUME NEW i \in Sampled(e, m), \A j \in Sampled(e, m) : j <= i, m[i].key = state_key[e]
      PROVE  OwnIn(e, m) = m[i].value
  <2>1. Last(i)
    BY <1>8 DEF Sampled
  <2>2. \A j \in mine : Last(j) => j = i
    BY <1>5, <2>1
  <2> HIDE DEF mine
  <2>3. (CHOOSE j \in mine : \A l \in mine : l <= j) = i
    BY <2>1, <2>2
  <2> QED
    BY <1>6, <2>1, <2>3
<1>9. OwnIn(e, m) \in FlowValues \union {None}
  <2>1. own[e] \in FlowValues \union {None}
    BY DEF SilosIInv, SilosTypes
  <2>2. CASE Sampled(e, m) = {}
    BY <1>6, <1>7, <2>1, <2>2
  <2>3. ASSUME NEW i \in mine PROVE \E j \in mine : Last(j)
    <3>1. m \in Seq(Items) /\ mine \subseteq 1..Len(m) /\ Len(m) \in Nat
      BY <1>2
    <3> QED
      BY <2>3, <3>1, LastOfSome
  <2>4. CASE mine # {}
    <3>1. (CHOOSE j \in mine : \A l \in mine : l <= j) \in mine
      BY <2>3, <2>4
    <3> QED
      BY <1>5, <1>6, <2>4, <3>1
  <2>5. CASE mine = {}
    BY <1>6, <2>1, <2>5
  <2> QED
    BY <2>4, <2>5
<1>10. Sampled(e, m) = {} => OwnIn(e, m) = own[e]
  BY <1>6, <1>7
<1> QED
  BY <1>0, <1>1, <1>2, <1>3, <1>4, <1>8, <1>9, <1>10, FeedKeeps

\* A hold repeats the last real sample.
LEMMA HoldKeeps ==
  ASSUME SilosIInv, NEW e \in Endpoints, Hold(e)
  PROVE  SilosIInv'
<1>1. PICK p \in Phases : Feed(e, <<real[e]>>, {1}, <<p>>)
  BY DEF Hold
<1>2. real[e] # NoSample /\ real[e] \in Items
  BY DEF Hold, SilosIInv, SilosTypes
<1> DEFINE items == <<real[e]>>
           phases == <<p>>
<1>3. /\ items \in Seq(Items) /\ {1} \in SUBSET DOMAIN items /\ items[1] = real[e]
      /\ phases \in [DOMAIN items -> Phases]
  BY <1>2
<1>4. e \in Routing => \A i \in {1} : items[i].key = state_key[e]
  BY <1>2, <1>3 DEF SilosIInv, ToldLast
<1>5. e \in evaluable /\ count' \in Nat
      /\ UNCHANGED <<stage, settings, heard, roles, silos, state_key, reported_late, written, found, late>>
  BY DEF Hold, Count, SilosIInv, SilosTypes
<1> HIDE DEF items, phases
<1>6. Feed(e, items, {1}, phases)
  BY <1>1 DEF items, phases
<1>7. own[e] \in FlowValues \union {None} /\ own' = [own EXCEPT ![e] = own[e]]
  BY <1>5 DEF Hold, SilosIInv, SilosTypes
<1>8. /\ \A i \in {1} : (\A j \in {1} : j <= i) /\ items[i].key = state_key[e] => own[e] = items[i].value
      /\ {1} = {} => own[e] = own[e]
  <2>1. items[1].key = state_key[e] => own[e] = items[1].value
    BY <1>2, <1>3, <1>5 DEF SilosIInv, ToldLast, SilosTypes, evaluable
  <2> QED
    BY <2>1
<1> QED
  BY <1>3, <1>4, <1>5, <1>6, <1>7, <1>8, FeedKeeps

\* A write is told as a command unless it is known to be one or the state signal.
LEMMA WriteOfKeeps ==
  ASSUME SilosIInv, NEW e \in Endpoints, WriteOf(e)
  PROVE  SilosIInv'
<1>1. PICK k \in WriteKeys[e], v \in FlowValues :
        /\ Tell(variable_value(command_found(Quiet, e, k), e, k, v))
        /\ written' = written \union {<<e, k>>}
        /\ latest' = [latest EXCEPT ![e][k] = v]
  BY DEF WriteOf
<1> DEFINE c == command_found(Quiet, e, k)
           r == variable_value(c, e, k, v)
           known == emitter.announced[e][k] = "COMMAND" \/ <<e, k>> \in emitter.state_keys
<1>2. /\ k \in FlowKeys /\ <<e, k>> \in Vars /\ e \in evaluable
      /\ Quiet \in EmType /\ Quiet.shared = emitter /\ Quiet.ui = ui /\ Quiet.stale = stale
  BY SilosAssumption DEF Quiet, EmType, Vars, WriteOf, SilosIInv, SilosTypes
<1>3. /\ UNCHANGED <<stage, settings, heard, roles, silos, state_key, reported_late, tracker, real, own, found, late>>
      /\ evaluable' = evaluable /\ count' \in Nat /\ stage = "feed"
  BY DEF WriteOf, siloVars, Count, evaluable, SilosIInv, SilosTypes
<1>4. /\ ui.nature = emitter.announced /\ ui.value = emitter.last_values
      /\ ui.nature \in [Endpoints -> [FlowKeys -> Natures]]
  BY DEF SilosIInv, Mirrors, SilosTypes, ModelType
<1>5. /\ c \in EmType /\ c.stale = FALSE
      /\ c.ui.nature = IF known THEN ui.nature
                       ELSE [ui.nature EXCEPT ![e] = [ui.nature[e] EXCEPT ![k] = "COMMAND"]]
      /\ c.ui.nature = c.shared.announced
      /\ c.ui.starlate = IF known THEN ui.starlate ELSE ui.starlate \union {<<e, k>>}
      /\ ui.flows \subseteq c.ui.flows
      /\ c.ui.root = ui.root /\ c.ui.starred = ui.starred /\ c.ui.unevaluable = ui.unevaluable
      /\ c.shared.last_phase = emitter.last_phase /\ c.ui.phase = ui.phase
      /\ c.shared.last_values = emitter.last_values /\ c.ui.value = ui.value
      /\ c.shared.state_keys = emitter.state_keys
      /\ c.shared.opaque = emitter.opaque /\ c.ui.unreadable = ui.unreadable
  <2>1. CASE known
    BY <1>2, <1>4, <2>1 DEF command_found, bind, SilosIInv
  <2>2. CASE ~known
    <3> HIDE DEF c
    <3>1. c = command_found(Quiet, e, k)
      BY DEF c
    <3> QED
      BY <1>2, <1>4, <2>2, <3>1, CommandIsTold DEF SilosIInv
  <2> QED
    BY <2>1, <2>2
<1> HIDE DEF c
<1>6. ValueTold(c, r, e, k, v)
  <2>1. c.ui.value = c.shared.last_values
    BY <1>4, <1>5
  <2> HIDE DEF r
  <2>2. r = variable_value(c, e, k, v)
    BY DEF r
  <2> QED
    BY <1>2, <1>5, <2>1, <2>2, ValueIsTold
<1>7. emitter' = r.shared /\ ui' = r.ui /\ stale' = r.stale
  BY <1>1 DEF Tell, c
<1> HIDE DEF r
<1>8. /\ emitter' \in SharedType /\ ui' \in ModelType /\ stale' = FALSE
      /\ emitter'.last_values = Cell(emitter.last_values, e, k, v) /\ ui'.value = emitter'.last_values
      /\ ui'.nature = c.ui.nature /\ ui'.starlate = c.ui.starlate /\ emitter'.announced = ui'.nature
      /\ ui.flows \subseteq ui'.flows
      /\ ui'.root = ui.root /\ ui'.starred = ui.starred /\ ui'.unevaluable = ui.unevaluable
      /\ emitter'.last_phase = emitter.last_phase /\ ui'.phase = ui.phase
      /\ emitter'.state_keys = emitter.state_keys
      /\ emitter'.opaque = emitter.opaque /\ ui'.unreadable = ui.unreadable
  BY <1>5, <1>6, <1>7 DEF ValueTold, EmType, NatureOf, MapOf
<1>9. SilosTypes'
  BY <1>1, <1>2, <1>3, <1>8 DEF SilosIInv, SilosTypes
<1>10. Progress'
  BY <1>3, <1>8 DEF SilosIInv, Progress
<1>11. Mirrors(emitter, ui)'
  BY <1>8 DEF SilosIInv, Mirrors
<1>12. ToldLast'
  BY <1>1, <1>3, <1>8 DEF SilosIInv, ToldLast, Cell
<1>13. Proven'
  <2>1. \A x \in written' : x[1] \in evaluable'
    BY <1>1, <1>2, <1>3 DEF SilosIInv, Proven
  <2>2. k # state_key[e] <=> <<e, k>> \notin emitter.state_keys
    BY <1>2 DEF SilosIInv, Progress
  <2>3. ASSUME NEW d \in Endpoints, NEW j \in FlowKeys
        PROVE  LET proven == <<d, j>> \in written' /\ j # state_key[d]
               IN  /\ ui'.nature[d][j] = IF proven THEN "COMMAND" ELSE found[d][j]
                   /\ <<d, j>> \in ui'.starlate <=> proven /\ found[d][j] # "COMMAND"
    <3>1. LET proven == <<d, j>> \in written /\ j # state_key[d]
          IN  /\ ui.nature[d][j] = IF proven THEN "COMMAND" ELSE found[d][j]
              /\ <<d, j>> \in ui.starlate <=> proven /\ found[d][j] # "COMMAND"
      BY DEF SilosIInv, Proven
    <3>2. CASE d = e /\ j = k
      <4>1. CASE known
        BY <1>1, <1>4, <1>5, <1>8, <2>2, <3>1, <3>2, <4>1
      <4>2. CASE ~known
        <5>1. ui'.nature[e][k] = "COMMAND" /\ <<e, k>> \in ui'.starlate /\ ui.nature[e][k] # "COMMAND"
          BY <1>2, <1>4, <1>5, <1>8, <4>2
        <5> QED
          BY <1>1, <2>2, <3>1, <3>2, <4>2, <5>1
      <4> QED
        BY <4>1, <4>2
    <3>3. CASE d # e \/ j # k
      <4>1. ui'.nature[d][j] = ui.nature[d][j] /\ (<<d, j>> \in ui'.starlate <=> <<d, j>> \in ui.starlate)
        BY <1>2, <1>4, <1>5, <1>8, <3>3
      <4>2. <<d, j>> \in written' <=> <<d, j>> \in written
        BY <1>1, <3>3
      <4> QED
        BY <3>1, <4>1, <4>2
    <3> QED
      BY <3>2, <3>3
  <2> QED
    BY <1>3, <2>1, <2>3 DEF Proven
<1>14. Placed'
  BY <1>3, <1>8 DEF SilosIInv, Placed
<1> QED
  BY <1>8, <1>9, <1>10, <1>11, <1>12, <1>13, <1>14 DEF SilosIInv

\* An unreadable frame is told once for its endpoint.
LEMMA OpaqueKeeps ==
  ASSUME SilosIInv, NEW e \in Endpoints, Opaque(e)
  PROVE  SilosIInv'
<1> DEFINE r == opaque_endpoint(Quiet, e)
<1>1. /\ Quiet \in EmType /\ Quiet.shared = emitter /\ Quiet.ui = ui /\ Quiet.stale = FALSE
      /\ ui.unreadable = emitter.opaque
  BY DEF Quiet, EmType, SilosIInv, SilosTypes, Mirrors
<1>2. emitter' = r.shared /\ ui' = r.ui /\ stale' = r.stale
  BY DEF Opaque, Tell
<1>3. /\ UNCHANGED <<stage, settings, siloVars, history>> /\ evaluable' = evaluable /\ count' \in Nat
  BY DEF Opaque, siloVars, Count, evaluable, SilosIInv, SilosTypes
<1>4. /\ r \in EmType /\ r.stale = FALSE
      /\ r.ui.unreadable = r.shared.opaque
      /\ r.shared.last_phase = emitter.last_phase /\ r.ui.phase = ui.phase
      /\ r.shared.last_values = emitter.last_values /\ r.ui.value = ui.value
      /\ r.shared.announced = emitter.announced /\ NatureOf(r.ui) = NatureOf(ui)
      /\ r.shared.state_keys = emitter.state_keys /\ MapOf(r.ui) = MapOf(ui)
  <2> HIDE DEF r
  <2>1. r = opaque_endpoint(Quiet, e)
    BY DEF r
  <2> QED
    BY <1>1, <2>1, OpaqueIsTold
<1> HIDE DEF r
<1>5. SilosTypes'
  BY <1>2, <1>3, <1>4 DEF SilosIInv, SilosTypes, EmType, MapOf, siloVars, history
<1>6. Progress'
  BY <1>2, <1>3, <1>4 DEF SilosIInv, Progress, siloVars, history
<1>7. Mirrors(emitter, ui)'
  BY <1>2, <1>4 DEF SilosIInv, Mirrors, NatureOf, MapOf
<1>8. ToldLast'
  BY <1>2, <1>3, <1>4 DEF SilosIInv, ToldLast, siloVars, history
<1>9. Proven'
  BY <1>2, <1>3, <1>4 DEF SilosIInv, Proven, NatureOf, siloVars, history
<1>10. Placed'
  BY <1>2, <1>3, <1>4 DEF SilosIInv, Placed, MapOf, siloVars, history
<1> QED
  BY <1>2, <1>4, <1>5, <1>6, <1>7, <1>8, <1>9, <1>10 DEF SilosIInv

\* What the reader has been told when a silo is built: its natures, its place and,
\* if it has one, its state signal.
SiloTold(e, stateful, key, r) ==
  /\ r \in EmType /\ r.stale = FALSE
  /\ r.shared.announced
       = [emitter.announced EXCEPT ![e] =
            [k \in FlowKeys |-> IF k \in Flows(e) THEN Nature(e, k, stateful) ELSE None]]
  /\ r.ui.nature = r.shared.announced /\ r.ui.starlate = ui.starlate
  /\ r.ui.root = [ui.root EXCEPT ![e] = IF key # None THEN "evaluable"
                                        ELSE IF Flows(e) = {} THEN None ELSE "unevaluable"]
  /\ r.ui.unevaluable = IF key = None /\ Flows(e) = {} THEN ui.unevaluable \union {e} ELSE ui.unevaluable
  /\ r.shared.state_keys = IF key = None THEN emitter.state_keys ELSE emitter.state_keys \union {<<e, key>>}
  /\ r.ui.starred = r.shared.state_keys /\ r.ui.starred \subseteq r.ui.flows
  /\ r.shared.last_phase = emitter.last_phase /\ r.ui.phase = ui.phase
  /\ r.shared.last_values = emitter.last_values /\ r.ui.value = ui.value
  /\ r.shared.opaque = emitter.opaque /\ r.ui.unreadable = ui.unreadable

\* Emitting the flows puts the endpoint on the map, if it has any.
FlowsTold(e, r) ==
  /\ r \in EmType /\ r.stale = FALSE /\ r.shared = emitter
  /\ r.ui.root = [ui.root EXCEPT ![e] = IF Flows(e) = {} THEN None ELSE "evaluable"]
  /\ r.ui.flows = ui.flows \union ({e} \X Flows(e))
  /\ r.ui.starred = ui.starred /\ r.ui.unevaluable = ui.unevaluable
  /\ r.ui.nature = ui.nature /\ r.ui.starlate = ui.starlate
  /\ r.ui.phase = ui.phase /\ r.ui.value = ui.value /\ r.ui.unreadable = ui.unreadable

\* Discovery puts the flows of a silo on the map, and its root with them.
LEMMA FlowsAreTold ==
  ASSUME SilosIInv, stage = "discover", NEW e \in heard \ silos
  PROVE  FlowsTold(e, flow_found(Quiet, e, Flows(e)))
<1> DEFINE keys == Flows(e)
           m == _flow_found(ui, e, keys)
           r == flow_found(Quiet, e, keys)
<1>1. /\ e \in Endpoints /\ ui.root[e] = None
      /\ Quiet \in EmType /\ Quiet.shared = emitter /\ Quiet.ui = ui /\ Quiet.stale = FALSE
      /\ emitter \in SharedType /\ ui \in ModelType
  <2>1. e \in Endpoints /\ e \notin silos
    BY DEF SilosIInv, SilosTypes
  <2> QED
    BY <2>1 DEF Quiet, EmType, SilosIInv, SilosTypes, Placed
<1>6. {e} \X keys \subseteq Vars
  BY <1>1 DEF Flows, Vars
<1> HIDE DEF keys
<1>2. /\ m \in ModelType
      /\ m.root = [ui.root EXCEPT ![e] = IF keys = {} THEN None ELSE "evaluable"]
      /\ m.flows = ui.flows \union ({e} \X keys)
      /\ m.starred = ui.starred /\ m.unevaluable = ui.unevaluable
      /\ m.nature = ui.nature /\ m.starlate = ui.starlate
      /\ m.phase = ui.phase /\ m.value = ui.value /\ m.unreadable = ui.unreadable
  <2>1. CASE keys = {}
    <3>1. m = ui /\ {e} \X keys = {}
      BY <2>1 DEF _flow_found
    <3>2. ui.root = [ui.root EXCEPT ![e] = None]
      BY <1>1 DEF ModelType
    <3> QED
      BY <1>1, <2>1, <3>1, <3>2
  <2>2. CASE keys # {}
    <3> DEFINE F == ui.flows \union ({e} \X keys)
    <3>1. F \in SUBSET Vars
      BY <1>1, <1>6 DEF ModelType
    <3>2. m = [[ui EXCEPT !.root[e] = "evaluable"] EXCEPT !.flows = F]
      BY <1>1, <2>2 DEF _flow_found, _ensure_silo, ModelType
    <3> HIDE DEF m, F
    <3>3. m \in ModelType
      BY <1>1, <3>1, <3>2 DEF ModelType
    <3>4. /\ m.root = [ui.root EXCEPT ![e] = "evaluable"] /\ m.flows = F
          /\ m.starred = ui.starred /\ m.unevaluable = ui.unevaluable
          /\ m.nature = ui.nature /\ m.starlate = ui.starlate
          /\ m.phase = ui.phase /\ m.value = ui.value /\ m.unreadable = ui.unreadable
      BY <1>1, <3>2 DEF ModelType
    <3> QED
      BY <2>2, <3>3, <3>4 DEF F
  <2> QED
    BY <2>1, <2>2
<1>3. r = _emit(Quiet, emitter, m)
  BY <1>1 DEF flow_found
<1> HIDE DEF m, r
<1>4. r \in EmType /\ r.shared = emitter /\ r.ui = m /\ r.stale = FALSE
  BY <1>1, <1>2, <1>3, EventTells
<1>5. FlowsTold(e, r)
  BY <1>2, <1>4 DEF FlowsTold, keys
<1> QED
  BY <1>5 DEF r, keys

\* Every flow gets one of the natures.
LEMMA NaturesAreTyped ==
  ASSUME NEW e, NEW k, NEW stateful
  PROVE  Nature(e, k, stateful) \in Natures
  BY DEF Nature, Natures

\* The state signal is starred where its flow is on the map.
SignalTold(em, r, e, key) ==
  /\ r \in EmType /\ r.stale = em.stale
  /\ r.shared.state_keys = em.shared.state_keys \union {<<e, key>>}
  /\ r.ui.starred = em.ui.starred \union {<<e, key>>}
  /\ r.ui.root = em.ui.root /\ r.ui.flows = em.ui.flows /\ r.ui.unevaluable = em.ui.unevaluable
  /\ r.shared.announced = em.shared.announced /\ r.ui.nature = em.ui.nature
  /\ r.ui.starlate = em.ui.starlate
  /\ r.shared.last_phase = em.shared.last_phase /\ r.ui.phase = em.ui.phase
  /\ r.shared.last_values = em.shared.last_values /\ r.ui.value = em.ui.value
  /\ r.shared.opaque = em.shared.opaque /\ r.ui.unreadable = em.ui.unreadable

\* The state signal of a silo gets its star.
LEMMA SignalIsTold ==
  ASSUME NEW em \in EmType, stage # "feed", NEW e \in Endpoints, NEW key \in FlowKeys,
         <<e, key>> \in em.ui.flows, NEW r, r = state_signal_discovered(em, e, key)
  PROVE  SignalTold(em, r, e, key)
<1> DEFINE s == [em.shared EXCEPT !.state_keys = @ \union {<<e, key>>}]
           m == _state_signal(em.ui, e, key)
<1>1. em.shared \in SharedType /\ em.ui \in ModelType /\ <<e, key>> \in Vars
  BY DEF EmType, Vars
<1>2. /\ s.state_keys = em.shared.state_keys \union {<<e, key>>}
      /\ s.last_phase = em.shared.last_phase /\ s.announced = em.shared.announced
      /\ s.opaque = em.shared.opaque /\ s.last_values = em.shared.last_values
  BY <1>1 DEF SharedType
<1>3. s \in SharedType
  BY <1>1 DEF SharedType
<1>4. /\ m.starred = em.ui.starred \union {<<e, key>>}
      /\ m.phase = em.ui.phase /\ m.nature = em.ui.nature /\ m.starlate = em.ui.starlate
      /\ m.root = em.ui.root /\ m.flows = em.ui.flows /\ m.value = em.ui.value
      /\ m.unevaluable = em.ui.unevaluable /\ m.unreadable = em.ui.unreadable
  BY <1>1 DEF ModelType, _state_signal
<1>5. m \in ModelType
  BY <1>1 DEF ModelType, _state_signal
<1>6. r = _emit(em, s, m)
  BY DEF state_signal_discovered, bind
<1> HIDE DEF s, m
<1>7. r \in EmType /\ r.shared = s /\ r.ui = m /\ r.stale = em.stale
  BY <1>3, <1>5, <1>6, EventTells
<1> QED
  BY <1>2, <1>4, <1>7 DEF SignalTold

\* A silo takes its place: on the map, or in the list of what cannot be evaluated.
PlaceTold(em, r, e, key, flows) ==
  /\ r \in EmType /\ r.stale = em.stale /\ r.shared = em.shared
  /\ r.ui.root = [em.ui.root EXCEPT ![e] = IF key # None THEN "evaluable"
                                           ELSE IF flows = {} THEN None ELSE "unevaluable"]
  /\ r.ui.unevaluable = IF key = None /\ flows = {} THEN em.ui.unevaluable \union {e}
                        ELSE em.ui.unevaluable
  /\ r.ui.starred = em.ui.starred /\ r.ui.flows = em.ui.flows
  /\ r.ui.nature = em.ui.nature /\ r.ui.starlate = em.ui.starlate
  /\ r.ui.phase = em.ui.phase /\ r.ui.value = em.ui.value /\ r.ui.unreadable = em.ui.unreadable

\* Where silo_event leaves an endpoint: on the map, marked there or in the list.
LEMMA PlaceIsTold ==
  ASSUME NEW em \in EmType, NEW e \in Endpoints, NEW key, NEW flows,
         stage # "feed" \/ (key = None /\ flows = {} /\ e \notin em.ui.unevaluable),
         em.ui.root[e] = IF flows = {} THEN None ELSE "evaluable", key # None => flows # {},
         NEW r, r = silo_event(em, e, key)
  PROVE  PlaceTold(em, r, e, key, flows)
<1> DEFINE m == IF key = None THEN _unevaluable(em.ui, e) ELSE _ensure_silo(em.ui, e)
<1>1. em.shared \in SharedType /\ em.ui \in ModelType
  BY DEF EmType
<1>2. /\ m \in ModelType
      /\ m.root = [em.ui.root EXCEPT ![e] = IF key # None THEN "evaluable"
                                            ELSE IF flows = {} THEN None ELSE "unevaluable"]
      /\ m.unevaluable = IF key = None /\ flows = {} THEN em.ui.unevaluable \union {e}
                         ELSE em.ui.unevaluable
      /\ m.starred = em.ui.starred /\ m.flows = em.ui.flows
      /\ m.nature = em.ui.nature /\ m.starlate = em.ui.starlate
      /\ m.phase = em.ui.phase /\ m.value = em.ui.value /\ m.unreadable = em.ui.unreadable
  <2>1. CASE key # None
    <3>1. m = em.ui /\ em.ui.root[e] = "evaluable"
      BY <2>1 DEF _ensure_silo, None
    <3>2. em.ui.root = [em.ui.root EXCEPT ![e] = "evaluable"]
      BY <1>1, <3>1 DEF ModelType
    <3> QED
      BY <1>1, <2>1, <3>1, <3>2
  <2>2. CASE key = None /\ flows = {}
    <3> DEFINE U == em.ui.unevaluable \union {e}
    <3>1. m = [em.ui EXCEPT !.unevaluable = U] /\ em.ui.root[e] = None
      BY <2>2 DEF _unevaluable
    <3>4. U \in SUBSET (Endpoints \union Layers)
      BY <1>1 DEF ModelType
    <3>2. em.ui.root = [em.ui.root EXCEPT ![e] = None]
      BY <1>1, <3>1 DEF ModelType
    <3> HIDE DEF m, U
    <3>3. m \in ModelType
      BY <1>1, <3>1, <3>4 DEF ModelType
    <3>5. /\ m.unevaluable = U /\ m.root = em.ui.root
          /\ m.starred = em.ui.starred /\ m.flows = em.ui.flows
          /\ m.nature = em.ui.nature /\ m.starlate = em.ui.starlate
          /\ m.phase = em.ui.phase /\ m.value = em.ui.value /\ m.unreadable = em.ui.unreadable
      BY <1>1, <3>1 DEF ModelType
    <3> QED
      BY <2>2, <3>2, <3>3, <3>5 DEF U
  <2>3. CASE key = None /\ flows # {}
    <3>1. m = [em.ui EXCEPT !.root[e] = "unevaluable"]
      BY <2>3 DEF _unevaluable, None
    <3> HIDE DEF m
    <3>2. m \in ModelType
      BY <1>1, <3>1 DEF ModelType
    <3> QED
      BY <1>1, <2>3, <3>1, <3>2 DEF ModelType
  <2> QED
    BY <2>1, <2>2, <2>3
<1>3. r = _emit(em, em.shared, m)
  BY DEF silo_event
<1> HIDE DEF m
<1>4. r \in EmType /\ r.shared = em.shared /\ r.ui = m /\ r.stale = em.stale
  <2>1. m # em.ui \/ stage # "feed"
    BY <1>2
  <2> QED
    BY <1>1, <1>2, <1>3, <2>1, EventTells
<1> QED
  BY <1>2, <1>4 DEF PlaceTold

\* What the events of one round of discovery make of the silo.
LEMMA SiloIsTold ==
  ASSUME SilosIInv, stage = "discover", NEW e \in heard \ silos, NEW stateful,
         NEW key, key # None => key \in Flows(e)
  PROVE  SiloTold(e, stateful, key, silo_event(discover(Quiet, e, stateful, key), e, key))
<1> DEFINE nature    == [k \in FlowKeys |-> Nature(e, k, stateful)]
           flows     == flow_found(Quiet, e, Flows(e))
           variables == announce(flows, e, Candidates(e), nature, FALSE)
           all       == announce(variables, e, Flows(e) \ Candidates(e), nature, FALSE)
           found1    == IF key = None THEN all ELSE state_signal_discovered(all, e, key)
           r         == silo_event(found1, e, key)
<1>1. discover(Quiet, e, stateful, key) = found1
  BY DEF discover
<1>2. /\ e \in Endpoints /\ Flows(e) \in SUBSET FlowKeys /\ Candidates(e) \in SUBSET Flows(e)
      /\ e \notin silos
  BY DEF SilosIInv, SilosTypes, Flows, Candidates
<1>3. FlowsTold(e, flows)
  BY FlowsAreTold
<1>4. ui.nature = emitter.announced /\ ui.starred = emitter.state_keys /\ ui.starred \subseteq ui.flows
  BY DEF SilosIInv, SilosTypes, Mirrors
<1>5. emitter.announced \in [Endpoints -> [FlowKeys -> Natures]] /\ ui.root \in [Endpoints -> {None, "evaluable", "unevaluable"}]
  BY DEF SilosIInv, SilosTypes, SharedType, ModelType
<1>6. \A k \in FlowKeys : emitter.announced[e][k] = None /\ <<e, k>> \notin ui.starlate
  <2>1. ASSUME NEW k \in FlowKeys PROVE found[e][k] = None /\ <<e, k>> \notin written
    BY <1>2 DEF SilosIInv, Progress
  <2> QED
    BY <1>2, <1>4, <2>1 DEF SilosIInv, Proven
<1>7. \A k \in FlowKeys : nature[k] \in Natures /\ nature[k] = Nature(e, k, stateful)
  BY NaturesAreTyped
<1> HIDE DEF flows, nature
<1>8. FALSE \in BOOLEAN
  OBVIOUS
<1>9. NatureTold(flows, variables, e, Candidates(e), nature, FALSE)
  <2>1. flows \in EmType /\ flows.ui.nature = flows.shared.announced
    BY <1>3, <1>4 DEF FlowsTold
  <2> QED
    BY <1>2, <1>7, <1>8, <2>1, NatureIsTold
<1> HIDE DEF variables
<1>10. NatureTold(variables, all, e, Flows(e) \ Candidates(e), nature, FALSE)
  <2>1. variables \in EmType /\ variables.ui.nature = variables.shared.announced
    BY <1>9 DEF NatureTold
  <2>2. Flows(e) \ Candidates(e) \in SUBSET FlowKeys
    BY <1>2
  <2> QED
    BY <1>2, <1>7, <1>8, <2>1, <2>2, NatureIsTold
<1> HIDE DEF all
<1>11. /\ all \in EmType /\ all.stale = FALSE
       /\ all.ui.nature = all.shared.announced
       /\ all.ui.root = [ui.root EXCEPT ![e] = IF Flows(e) = {} THEN None ELSE "evaluable"]
       /\ ui.flows \union ({e} \X Flows(e)) \subseteq all.ui.flows
       /\ all.ui.starred = ui.starred /\ all.ui.unevaluable = ui.unevaluable
       /\ all.shared.last_phase = emitter.last_phase /\ all.ui.phase = ui.phase
       /\ all.shared.last_values = emitter.last_values /\ all.ui.value = ui.value
       /\ all.shared.state_keys = emitter.state_keys
       /\ all.shared.opaque = emitter.opaque /\ all.ui.unreadable = ui.unreadable
  BY <1>3, <1>9, <1>10 DEF FlowsTold, NatureTold
<1>12. all.shared.announced
         = [emitter.announced EXCEPT ![e] =
              [k \in FlowKeys |-> IF k \in Flows(e) THEN Nature(e, k, stateful) ELSE None]]
  <2> DEFINE row1 == [k \in FlowKeys |-> IF k \in Candidates(e) THEN nature[k] ELSE emitter.announced[e][k]]
             row2 == [k \in FlowKeys |-> IF k \in Flows(e) \ Candidates(e) THEN nature[k] ELSE row1[k]]
             row  == [k \in FlowKeys |-> IF k \in Flows(e) THEN Nature(e, k, stateful) ELSE None]
  <2>1. variables.shared.announced = [emitter.announced EXCEPT ![e] = row1]
    BY <1>3, <1>9 DEF FlowsTold, NatureTold
  <2>2. variables.shared.announced[e] = row1
    <3> HIDE DEF row1
    <3> QED
      BY <1>2, <1>5, <2>1
  <2>3. all.shared.announced = [variables.shared.announced EXCEPT ![e] = row2]
    <3> HIDE DEF row1
    <3> QED
      BY <1>10, <2>2 DEF NatureTold
  <2>4. row2 = row
    BY <1>2, <1>6, <1>7
  <2> HIDE DEF row1, row2, row
  <2>5. all.shared.announced = [emitter.announced EXCEPT ![e] = row]
    BY <1>2, <1>5, <2>1, <2>3, <2>4
  <2> QED
    BY <2>5 DEF row
<1>13. all.ui.starlate = ui.starlate
  <2>1. all.ui.starlate = (ui.starlate \ ({e} \X Candidates(e))) \ ({e} \X (Flows(e) \ Candidates(e)))
    BY <1>3, <1>9, <1>10 DEF FlowsTold, NatureTold
  <2> QED
    BY <1>2, <1>6, <2>1
<1>14. /\ found1 \in EmType /\ found1.stale = FALSE
       /\ found1.shared.state_keys = IF key = None THEN emitter.state_keys ELSE emitter.state_keys \union {<<e, key>>}
       /\ found1.ui.starred = found1.shared.state_keys /\ found1.ui.starred \subseteq found1.ui.flows
       /\ found1.ui.root = all.ui.root /\ found1.ui.flows = all.ui.flows
       /\ found1.ui.unevaluable = ui.unevaluable
       /\ found1.shared.announced = all.shared.announced /\ found1.ui.nature = all.shared.announced
       /\ found1.ui.starlate = ui.starlate
       /\ found1.shared.last_phase = emitter.last_phase /\ found1.ui.phase = ui.phase
       /\ found1.shared.last_values = emitter.last_values /\ found1.ui.value = ui.value
       /\ found1.shared.opaque = emitter.opaque /\ found1.ui.unreadable = ui.unreadable
  <2>1. CASE key = None
    BY <1>4, <1>11, <1>13, <2>1
  <2>2. CASE key # None
    <3>1. key \in FlowKeys /\ <<e, key>> \in all.ui.flows
      BY <1>2, <1>11, <2>2
    <3>2. found1 = state_signal_discovered(all, e, key)
      BY <2>2
    <3> HIDE DEF found1
    <3>3. SignalTold(all, found1, e, key)
      BY <1>2, <1>11, <3>1, <3>2, SignalIsTold
    <3> QED
      BY <1>4, <1>11, <1>13, <2>2, <3>1, <3>3 DEF SignalTold
  <2> QED
    BY <2>1, <2>2
<1> HIDE DEF found1
<1>15. found1.ui.root[e] = IF Flows(e) = {} THEN None ELSE "evaluable"
  BY <1>2, <1>5, <1>11, <1>14
<1>16. PlaceTold(found1, r, e, key, Flows(e))
  <2> HIDE DEF r
  <2>1. r = silo_event(found1, e, key) /\ (key # None => Flows(e) # {})
    BY DEF r
  <2> QED
    BY <1>2, <1>14, <1>15, <2>1, PlaceIsTold
<1> HIDE DEF r
<1>17. r.ui.root = [ui.root EXCEPT ![e] = IF key # None THEN "evaluable"
                                          ELSE IF Flows(e) = {} THEN None ELSE "unevaluable"]
  BY <1>2, <1>5, <1>11, <1>14, <1>16 DEF PlaceTold
<1>18. SiloTold(e, stateful, key, r)
  BY <1>12, <1>14, <1>16, <1>17 DEF SiloTold, PlaceTold
<1> QED
  BY <1>1, <1>18 DEF r

\* A round of discovery tells all of one silo, and nothing of the others.
LEMMA BuildSiloKeeps ==
  ASSUME SilosIInv, NEW e \in Endpoints, BuildSilo(e)
  PROVE  SilosIInv'
<1>1. stage = "discover" /\ e \in heard \ silos
  BY DEF BuildSilo
<1>2. PICK stateful \in SUBSET Candidates(e), key \in FlowKeys \union {None} :
        /\ StateFlow(e, stateful, key)
        /\ Tell(silo_event(discover(Quiet, e, stateful, key), e, key))
        /\ state_key' = [state_key EXCEPT ![e] = key]
        /\ tracker' = [tracker EXCEPT ![e] = _calibrate_silo(key)]
        /\ found' = [found EXCEPT ![e] =
                       [k \in FlowKeys |-> IF k \in Flows(e) THEN Nature(e, k, stateful) ELSE None]]
  BY DEF BuildSilo
<1> DEFINE r == silo_event(discover(Quiet, e, stateful, key), e, key)
           row == [k \in FlowKeys |-> IF k \in Flows(e) THEN Nature(e, k, stateful) ELSE None]
<1>3. key # None => key \in Flows(e)
  BY <1>2 DEF StateFlow, Candidates
<1>4. SiloTold(e, stateful, key, r)
  BY <1>1, <1>3, SiloIsTold
<1>5. emitter' = r.shared /\ ui' = r.ui /\ stale' = r.stale
  BY <1>2 DEF Tell
<1> HIDE DEF r
<1>6. /\ silos' = silos \union {e}
      /\ UNCHANGED <<stage, settings, heard, roles, reported_late, real, written, latest, own, late, count>>
  BY DEF BuildSilo
<1>7. /\ emitter' \in SharedType /\ ui' \in ModelType /\ stale' = FALSE
      /\ emitter'.announced = [emitter.announced EXCEPT ![e] = row]
      /\ ui'.nature = emitter'.announced /\ ui'.starlate = ui.starlate
      /\ ui'.root = [ui.root EXCEPT ![e] = IF key # None THEN "evaluable"
                                           ELSE IF Flows(e) = {} THEN None ELSE "unevaluable"]
      /\ ui'.unevaluable = IF key = None /\ Flows(e) = {} THEN ui.unevaluable \union {e} ELSE ui.unevaluable
      /\ emitter'.state_keys = IF key = None THEN emitter.state_keys ELSE emitter.state_keys \union {<<e, key>>}
      /\ ui'.starred = emitter'.state_keys /\ ui'.starred \subseteq ui'.flows
      /\ emitter'.last_phase = emitter.last_phase /\ ui'.phase = ui.phase
      /\ emitter'.last_values = emitter.last_values /\ ui'.value = ui.value
      /\ emitter'.opaque = emitter.opaque /\ ui'.unreadable = ui.unreadable
  BY <1>4, <1>5 DEF SiloTold, EmType
<1>8. row \in [FlowKeys -> Natures]
  <2>1. \A k \in FlowKeys : Nature(e, k, stateful) \in Natures
    BY NaturesAreTyped
  <2> QED
    BY <2>1 DEF Natures
<1> HIDE DEF row
<1>9. /\ emitter \in SharedType /\ ui \in ModelType /\ emitter.announced = ui.nature
      /\ state_key \in [Endpoints -> FlowKeys \union {None}]
      /\ tracker \in [Endpoints -> Phases \union {None, "UNKNOWN"}]
      /\ found \in [Endpoints -> [FlowKeys -> Natures]]
      /\ silos \subseteq heard /\ heard \subseteq Endpoints
      /\ state_key[e] = None /\ e \notin evaluable /\ real[e] = NoSample /\ e \notin reported_late
      /\ written = {} /\ reported_late = {}
      /\ ui.root[e] = None
  BY <1>1 DEF SilosIInv, SilosTypes, Mirrors, Progress, ToldLast, Placed, evaluable
<1>10. /\ state_key'[e] = key /\ found'[e] = row
       /\ \A d \in Endpoints : d # e => /\ state_key'[d] = state_key[d] /\ found'[d] = found[d]
                                      /\ tracker'[d] = tracker[d] /\ ui'.nature[d] = ui.nature[d]
                                      /\ ui'.root[d] = ui.root[d]
       /\ ui'.nature[e] = row
       /\ ui'.root[e] = IF key # None THEN "evaluable" ELSE IF Flows(e) = {} THEN None ELSE "unevaluable"
  BY <1>2, <1>7, <1>9 DEF SharedType, ModelType, row
<1>11. evaluable' = IF key = None THEN evaluable ELSE evaluable \union {e}
  BY <1>6, <1>9, <1>10 DEF evaluable
<1>12. SilosTypes'
  <2>1. state_key' \in [Endpoints -> FlowKeys \union {None}] /\ found' \in [Endpoints -> [FlowKeys -> Natures]]
    BY <1>2, <1>8, <1>9 DEF row
  <2>2. tracker' \in [Endpoints -> Phases \union {None, "UNKNOWN"}]
    BY <1>2, <1>9 DEF _calibrate_silo
  <2> QED
    BY <1>1, <1>6, <1>7, <2>1, <2>2 DEF SilosIInv, SilosTypes
<1>13. Progress'
  <2>1. \A d \in Endpoints : d \notin silos' =>
          state_key'[d] = None /\ found'[d] = [k \in FlowKeys |-> None]
    BY <1>6, <1>10 DEF SilosIInv, Progress
  <2>2. emitter'.state_keys = {x \in Vars : x[1] \in evaluable' /\ x[2] = state_key'[x[1]]}
    <3>1. emitter.state_keys = {x \in Vars : x[1] \in evaluable /\ x[2] = state_key[x[1]]}
      BY DEF SilosIInv, Progress
    <3>2. \A x \in Vars : x \in emitter'.state_keys <=> (x \in emitter.state_keys \/ (key # None /\ x[1] = e /\ x[2] = key))
      BY <1>7 DEF Vars
    <3>3. \A x \in Vars : x[1] \in Endpoints
      BY DEF Vars
    <3>4. emitter'.state_keys \subseteq Vars
      BY <1>7 DEF SharedType
    <3> QED
      BY <1>9, <1>10, <1>11, <3>1, <3>2, <3>3, <3>4
  <2> QED
    BY <1>1, <1>6, <2>1, <2>2 DEF SilosIInv, Progress
<1>14. Mirrors(emitter, ui)'
  <2>1. ASSUME NEW d \in Endpoints, NEW k \in FlowKeys
        PROVE  ui'.phase[d][k] = IF <<d, k>> \in emitter'.state_keys THEN emitter'.last_phase[d] ELSE None
    <3>1. ui.phase[d][k] = IF <<d, k>> \in emitter.state_keys THEN emitter.last_phase[d] ELSE None
      BY DEF SilosIInv, Mirrors
    <3>2. emitter.last_phase[e] = None
      BY <1>9 DEF SilosIInv, ToldLast
    <3>3. CASE <<d, k>> \in emitter.state_keys
      BY <1>7, <3>1, <3>3
    <3>4. CASE <<d, k>> \notin emitter.state_keys
      <4>1. <<d, k>> \in emitter'.state_keys => d = e
        BY <1>7, <3>4
      <4> QED
        BY <1>7, <3>1, <3>2, <3>4, <4>1
    <3> QED
      BY <3>3, <3>4
  <2> QED
    BY <1>7, <2>1 DEF SilosIInv, Mirrors
<1>15. ToldLast'
  <2>1. ASSUME NEW d \in Endpoints
        PROVE  /\ emitter'.last_phase[d] = IF real'[d] = NoSample THEN None ELSE tracker'[d]
               /\ real'[d] # NoSample => d \in evaluable' /\ tracker'[d] \in Phases
               /\ d \in Routing /\ real'[d] # NoSample => real'[d].key = state_key'[d]
               /\ real'[d] # NoSample /\ real'[d].key = state_key'[d] => real'[d].value = own'[d]
    BY <1>6, <1>7, <1>9, <1>10, <1>11 DEF SilosIInv, ToldLast
  <2> QED
    BY <1>6, <1>7, <2>1 DEF SilosIInv, ToldLast
<1>16. Proven'
  <2>1. ASSUME NEW d \in Endpoints, NEW k \in FlowKeys
        PROVE  ui'.nature[d][k] = found'[d][k] /\ <<d, k>> \notin ui'.starlate
    <3>1. ui.nature[d][k] = found[d][k] /\ <<d, k>> \notin ui.starlate
      BY <1>9 DEF SilosIInv, Proven
    <3> QED
      BY <1>7, <1>10, <3>1
  <2> QED
    BY <1>6, <1>9, <2>1 DEF Proven
<1>17. Placed'
  <2>1. ASSUME NEW d \in Endpoints
        PROVE  /\ d \notin silos' => ui'.root[d] = None
               /\ d \in evaluable' => ui'.root[d] = "evaluable"
               /\ d \in silos' \ evaluable' => ui'.root[d] # "evaluable"
               /\ d \in ui'.unevaluable <=> (d \in silos' /\ ui'.root[d] = None) \/ d \in reported_late'
    <3>1. CASE d = e
      BY <1>1, <1>6, <1>7, <1>9, <1>10, <1>11, <3>1 DEF SilosIInv, Placed, None
    <3>2. CASE d # e
      BY <1>6, <1>7, <1>10, <1>11, <3>2 DEF SilosIInv, Placed
    <3> QED
      BY <3>1, <3>2
  <2> QED
    BY <1>1, <1>6, <1>7, <2>1 DEF SilosIInv, Placed
<1> QED
  BY <1>7, <1>12, <1>13, <1>14, <1>15, <1>16, <1>17 DEF SilosIInv

\* A layer is no endpoint, so that listing it puts no endpoint in a second place.
LEMMA EndDiscoveryKeeps ==
  ASSUME SilosIInv, EndDiscovery
  PROVE  SilosIInv'
<1> DEFINE L == Layers \ {Layer[e] : e \in evaluable}
           m == _empty_layers(ui, L)
           r == _emit(Quiet, emitter, m)
<1>1. /\ Quiet \in EmType /\ Quiet.shared = emitter /\ Quiet.ui = ui /\ Quiet.stale = FALSE
      /\ emitter \in SharedType /\ ui \in ModelType
  BY DEF Quiet, EmType, SilosIInv, SilosTypes
<1>2. L \subseteq Layers /\ \A e \in Endpoints : e \notin Layers
  BY SilosAssumption DEF Layers
<1>3. \A x \in Layers : x \in L <=> \A e \in evaluable : Layer[e] # x
  OBVIOUS
<1> HIDE DEF L
<1>4. /\ m \in ModelType /\ m.unevaluable = ui.unevaluable \union L
      /\ m.root = ui.root /\ m.starred = ui.starred /\ m.flows = ui.flows
      /\ m.nature = ui.nature /\ m.starlate = ui.starlate
      /\ m.phase = ui.phase /\ m.value = ui.value /\ m.unreadable = ui.unreadable
  <2> DEFINE U == ui.unevaluable \union L
  <2>1. U \in SUBSET (Endpoints \union Layers) /\ m = [ui EXCEPT !.unevaluable = U]
    BY <1>1, <1>2 DEF ModelType, _empty_layers
  <2> HIDE DEF m, U
  <2>2. m \in ModelType /\ m.unevaluable = U
    BY <1>1, <2>1 DEF ModelType
  <2> QED
    BY <1>1, <2>1, <2>2 DEF ModelType, U
<1>5. stage = "discover" /\ silos = heard /\ stage' \in {"stopped", "feed"}
      /\ UNCHANGED <<settings, siloVars, history, count>> /\ evaluable' = evaluable
  BY DEF EndDiscovery, siloVars, evaluable
<1>6. Tell(r)
  BY DEF EndDiscovery, L
<1> HIDE DEF m
<1>7. r \in EmType /\ r.shared = emitter /\ r.ui = m /\ r.stale = FALSE
  BY <1>1, <1>4, <1>5, EventTells
<1> HIDE DEF r
<1>8. emitter' = emitter /\ ui' = m /\ stale' = FALSE
  BY <1>6, <1>7 DEF Tell
<1>9. SilosTypes'
  BY <1>4, <1>5, <1>8 DEF SilosIInv, SilosTypes, siloVars, history
<1>10. Progress'
  BY <1>5, <1>8 DEF SilosIInv, Progress, siloVars, history
<1>11. Mirrors(emitter, ui)'
  BY <1>4, <1>8 DEF SilosIInv, Mirrors
<1>12. ToldLast'
  BY <1>5, <1>8 DEF SilosIInv, ToldLast, siloVars, history
<1>13. Proven'
  BY <1>4, <1>5, <1>8 DEF SilosIInv, Proven, siloVars, history
<1>14. Placed'
  <2>1. \A d \in Endpoints : d \in ui'.unevaluable <=> d \in ui.unevaluable
    BY <1>2, <1>4, <1>8
  <2>2. \A x \in Layers : x \in ui'.unevaluable <=> \A e \in evaluable : Layer[e] # x
    BY <1>2, <1>3, <1>4, <1>5, <1>8 DEF SilosIInv, Placed
  <2> QED
    BY <1>4, <1>5, <1>8, <2>1, <2>2 DEF SilosIInv, Placed, siloVars, history
<1> QED
  BY <1>8, <1>9, <1>10, <1>11, <1>12, <1>13, <1>14 DEF SilosIInv

\* An endpoint heard too late is listed, once.
LEMMA UnroutedKeeps ==
  ASSUME SilosIInv, NEW e \in Endpoints, Unrouted(e)
  PROVE  SilosIInv'
<1>1. /\ UNCHANGED <<stage, settings, heard, roles, silos, state_key, tracker, real, written, latest, own, found>>
      /\ evaluable' = evaluable /\ count' \in Nat /\ stage = "feed" /\ silos = heard /\ late = reported_late
      /\ late' = IF e \in heard THEN late ELSE late \union {e}
  BY DEF Unrouted, Count, evaluable, SilosIInv, SilosTypes, Progress, Placed
<1>2. CASE e \in silos \union reported_late
  <2>1. UNCHANGED <<reported_late, emitter, ui, stale>> /\ late' = late
    BY <1>1, <1>2 DEF Unrouted, silos_by_ep
  <2>2. SilosTypes'
    BY <1>1, <2>1 DEF SilosIInv, SilosTypes
  <2>3. Progress'
    BY <1>1, <2>1 DEF SilosIInv, Progress
  <2>4. Mirrors(emitter, ui)'
    BY <2>1 DEF SilosIInv, Mirrors
  <2>5. ToldLast' /\ Proven' /\ Placed'
    BY <1>1, <2>1 DEF SilosIInv, ToldLast, Proven, Placed
  <2> QED
    BY <2>1, <2>2, <2>3, <2>4, <2>5 DEF SilosIInv
<1>3. CASE e \notin silos \union reported_late
  <2> DEFINE r == silo_event(Quiet, e, None)
  <2>1. /\ Quiet \in EmType /\ Quiet.shared = emitter /\ Quiet.ui = ui /\ Quiet.stale = FALSE
        /\ ui \in ModelType /\ ui.root[e] = None /\ e \notin ui.unevaluable
    BY <1>3 DEF Quiet, EmType, SilosIInv, SilosTypes, Placed
  <2>2. Tell(r) /\ reported_late' = reported_late \union {e} /\ late' = late \union {e}
    BY <1>1, <1>3 DEF Unrouted, silos_by_ep
  <2> HIDE DEF r
  <2>3. r = silo_event(Quiet, e, None)
    BY DEF r
  <2>4. PlaceTold(Quiet, r, e, None, {})
    BY <2>1, <2>3, PlaceIsTold
  <2>5. /\ emitter' = emitter /\ ui' \in ModelType /\ stale' = FALSE
        /\ ui'.root = [ui.root EXCEPT ![e] = None] /\ ui'.unevaluable = ui.unevaluable \union {e}
        /\ ui'.starred = ui.starred /\ ui'.flows = ui.flows
        /\ ui'.nature = ui.nature /\ ui'.starlate = ui.starlate
        /\ ui'.phase = ui.phase /\ ui'.value = ui.value /\ ui'.unreadable = ui.unreadable
    BY <2>1, <2>2, <2>4 DEF Tell, PlaceTold, EmType
  <2>6. ui'.root = ui.root
    BY <2>1, <2>5 DEF ModelType
  <2>7. SilosTypes'
    BY <1>1, <1>3, <2>2, <2>5 DEF SilosIInv, SilosTypes
  <2>8. Progress'
    BY <1>1, <2>5 DEF SilosIInv, Progress
  <2>9. Mirrors(emitter, ui)'
    BY <2>5 DEF SilosIInv, Mirrors
  <2>10. ToldLast'
    BY <1>1, <2>5 DEF SilosIInv, ToldLast
  <2>11. Proven'
    BY <1>1, <2>5 DEF SilosIInv, Proven
  <2>12. Placed'
    <3>1. \A x \in Layers : x # e
      BY SilosAssumption DEF Layers
    <3> QED
      BY <1>1, <1>3, <2>2, <2>5, <2>6, <3>1 DEF SilosIInv, Placed
  <2> QED
    BY <2>5, <2>7, <2>8, <2>9, <2>10, <2>11, <2>12 DEF SilosIInv
<1> QED
  BY <1>2, <1>3

\* An event of the observe window only groups flows.
LEMMA ObserveKeeps ==
  ASSUME SilosIInv, NEW e \in Endpoints, Observe(e)
  PROVE  SilosIInv'
<1>1. /\ stage = "observe" /\ heard' = heard \union {e}
      /\ UNCHANGED <<stage, settings, silos, state_key, reported_late, tracker, real, emitter,
                     ui, history, stale, count>>
      /\ evaluable' = evaluable
  BY DEF Observe, evaluable
<1>2. roles' \in [Endpoints -> [FlowKeys -> {None, "telemetry", "command"}]]
  <2>1. PICK keys, role : role \in {"telemetry", "command"} /\ roles' = Grouped(e, keys, role)
    <3>1. ASSUME NEW m \in Reads[e] \union {<<>>}, roles' = Grouped(e, Telemetry(m), "telemetry")
          PROVE  \E keys, role : role \in {"telemetry", "command"} /\ roles' = Grouped(e, keys, role)
      <4> WITNESS Telemetry(m), "telemetry"
      <4> QED
        BY <3>1
    <3>2. ASSUME NEW keys \in SUBSET WriteKeys[e], roles' = Grouped(e, keys, "command")
          PROVE  \E keyset, role : role \in {"telemetry", "command"} /\ roles' = Grouped(e, keyset, role)
      <4> WITNESS keys, "command"
      <4> QED
        BY <3>2
    <3> QED
      BY <3>1, <3>2 DEF Observe
  <2> DEFINE row == [k \in FlowKeys |-> IF roles[e][k] = None /\ k \in keys THEN role ELSE roles[e][k]]
  <2>2. roles \in [Endpoints -> [FlowKeys -> {None, "telemetry", "command"}]]
    BY DEF SilosIInv, SilosTypes
  <2>3. row \in [FlowKeys -> {None, "telemetry", "command"}]
    BY <2>1, <2>2
  <2>4. roles' = [roles EXCEPT ![e] = row]
    BY <2>1, <2>2 DEF Grouped
  <2> HIDE DEF row
  <2> QED
    BY <2>2, <2>3, <2>4
<1>3. SilosTypes'
  BY <1>1, <1>2 DEF SilosIInv, SilosTypes, history, Progress
<1>4. Progress'
  BY <1>1 DEF SilosIInv, Progress, history
<1>5. Mirrors(emitter, ui)'
  BY <1>1 DEF SilosIInv, Mirrors
<1>6. ToldLast' /\ Proven' /\ Placed'
  BY <1>1 DEF SilosIInv, ToldLast, Proven, Placed, history
<1> QED
  BY <1>1, <1>3, <1>4, <1>5, <1>6 DEF SilosIInv

\* Every step keeps the invariant.
LEMMA SilosStepKeeps == SilosIInv /\ [SilosNext]_silosVars => SilosIInv'
<1> SUFFICES ASSUME SilosIInv, [SilosNext]_silosVars PROVE SilosIInv'
  OBVIOUS
<1>1. CASE EndObserve
  <2>1. /\ stage' = "discover" /\ UNCHANGED <<settings, siloVars, emitter, ui, history, stale, count>>
        /\ evaluable' = evaluable /\ stage = "observe"
    BY <1>1 DEF EndObserve, evaluable, siloVars
  <2>2. SilosTypes'
    BY <2>1 DEF SilosIInv, SilosTypes, siloVars, history
  <2>3. Progress'
    BY <2>1 DEF SilosIInv, Progress, siloVars, history
  <2>4. Mirrors(emitter, ui)'
    BY <2>1 DEF SilosIInv, Mirrors
  <2>5. ToldLast' /\ Proven' /\ Placed'
    BY <2>1 DEF SilosIInv, ToldLast, Proven, Placed, siloVars, history
  <2> QED
    BY <2>1, <2>2, <2>3, <2>4, <2>5 DEF SilosIInv
<1>2. CASE EndDiscovery
  BY <1>2, EndDiscoveryKeeps
<1>3. ASSUME NEW e \in Endpoints, Observe(e) PROVE SilosIInv'
  BY <1>3, ObserveKeeps
<1>4. ASSUME NEW e \in Endpoints, BuildSilo(e) PROVE SilosIInv'
  BY <1>4, BuildSiloKeeps
<1>5. ASSUME NEW e \in Endpoints, Unrouted(e) PROVE SilosIInv'
  BY <1>5, UnroutedKeeps
<1>6. ASSUME NEW e \in Endpoints, ReadOf(e) PROVE SilosIInv'
  BY <1>6, ReadKeeps
<1>7. ASSUME NEW e \in Endpoints, WriteOf(e) PROVE SilosIInv'
  BY <1>7, WriteOfKeeps
<1>8. ASSUME NEW e \in Endpoints, Hold(e) PROVE SilosIInv'
  BY <1>8, HoldKeeps
<1>9. ASSUME NEW e \in Endpoints, Opaque(e) PROVE SilosIInv'
  BY <1>9, OpaqueKeeps
<1>10. CASE UNCHANGED silosVars
  <2>1. UNCHANGED <<stage, settings, siloVars, emitter, ui, history, stale, count>> /\ evaluable' = evaluable
    BY <1>10 DEF silosVars, evaluable, siloVars
  <2>2. SilosTypes'
    BY <2>1 DEF SilosIInv, SilosTypes, siloVars, history
  <2>3. Progress'
    BY <2>1 DEF SilosIInv, Progress, siloVars, history
  <2>4. Mirrors(emitter, ui)'
    BY <2>1 DEF SilosIInv, Mirrors
  <2>5. ToldLast' /\ Proven' /\ Placed'
    BY <2>1 DEF SilosIInv, ToldLast, Proven, Placed, siloVars, history
  <2> QED
    BY <2>1, <2>2, <2>3, <2>4, <2>5 DEF SilosIInv
<1> QED
  BY <1>1, <1>2, <1>3, <1>4, <1>5, <1>6, <1>7, <1>8, <1>9, <1>10 DEF SilosNext

-----------------------------------------------------------------------------
(* What a reader of the events can rely on.                                *)

\* The invariant holds as long as the run lasts.
LEMMA SilosInvariant == SilosSpec => []SilosIInv
<1>1. SilosInit => SilosIInv
  BY SilosInitInvariant
<1>2. SilosIInv /\ [SilosNext]_silosVars => SilosIInv'
  BY SilosStepKeeps
<1> QED
  BY <1>1, <1>2, PTL DEF SilosSpec

\* What the observer keeps of a silo, and what the reader shows, have their types.
THEOREM SilosTypesCorrect == SilosSpec => []SilosTypeOK
<1>1. SilosIInv => SilosTypeOK
  <2> SUFFICES ASSUME SilosIInv PROVE SilosTypeOK
    OBVIOUS
  <2>1. \A e \in Endpoints : real[e] \in [key : FlowKeys, value : FlowValues] \union {NoSample}
    BY DEF SilosIInv, SilosTypes, Items
  <2>2. /\ ui.flows \subseteq Vars /\ ui.starlate \subseteq Vars
        /\ ui.unevaluable \subseteq Endpoints \union Layers /\ ui.unreadable \subseteq Endpoints
    BY DEF SilosIInv, SilosTypes, ModelType
  <2> QED
    BY <2>1, <2>2 DEF SilosIInv, SilosTypes, Progress, SilosTypeOK
<1> QED
  BY <1>1, SilosInvariant, PTL

\* De-duplication loses nothing: the reader shows under every variable the value last fed
\* to the tracker or written under it (what the state variable itself was read to be last
\* where items are routed, or where the last sample was its own), the phase each tracker
\* is in, and every endpoint ever heard has its one place.
THEOREM ReaderSees == SilosSpec => []ReaderSeesTheSilos
<1>1. SilosIInv => ValuesAreShown
  <2> SUFFICES ASSUME SilosIInv PROVE ValuesAreShown
    OBVIOUS
  <2>1. /\ ui.value = latest /\ emitter.state_keys \subseteq Vars
        /\ \A e \in Endpoints, k \in FlowKeys :
             ui.phase[e][k] = IF <<e, k>> \in emitter.state_keys THEN emitter.last_phase[e] ELSE None
    BY DEF SilosIInv, Mirrors, ToldLast, SilosTypes, SharedType
  <2>2. \A x \in Vars : x[1] \in Endpoints /\ x[2] \in FlowKeys /\ x = <<x[1], x[2]>>
    BY DEF Vars
  <2>3. ASSUME NEW e \in evaluable
        PROVE  ui.phase[e][state_key[e]] = IF real[e] = NoSample THEN None ELSE tracker[e]
    <3>1. e \in Endpoints /\ state_key[e] \in FlowKeys
      BY DEF evaluable, SilosIInv, SilosTypes
    <3>2. <<e, state_key[e]>> \in emitter.state_keys
      BY <3>1 DEF SilosIInv, Progress, Vars
    <3> QED
      BY <2>1, <3>1, <3>2 DEF SilosIInv, ToldLast
  <2>4. ASSUME NEW x \in Vars, ui.phase[x[1]][x[2]] # None PROVE x \in emitter.state_keys
    BY <2>1, <2>2, <2>4
  <2>5. ASSUME NEW e \in evaluable, real[e] # NoSample
        PROVE  /\ e \in Routing => real[e].key = state_key[e]
               /\ real[e].key = state_key[e] => real[e].value = own[e]
    <3>1. e \in Endpoints
      BY DEF evaluable, SilosIInv, SilosTypes
    <3> QED
      BY <2>5, <3>1 DEF SilosIInv, ToldLast
  <2> QED
    BY <2>1, <2>3, <2>4, <2>5 DEF ValuesAreShown
<1>2. SilosIInv => EveryEndpointHasOnePlace
  <2> SUFFICES ASSUME SilosIInv, stage \in {"feed", "stopped"}
               PROVE  /\ \A e \in Endpoints :
                           /\ e \in heard \union late <=> (ui.root[e] # None \/ e \in ui.unevaluable)
                           /\ ~(ui.root[e] # None /\ e \in ui.unevaluable)
                           /\ ui.root[e] = "evaluable" <=> e \in evaluable
                      /\ ui.starred = emitter.state_keys
                      /\ \A x \in Layers : x \in ui.unevaluable
                                           <=> \A e \in evaluable : Layer[e] # x
    BY DEF EveryEndpointHasOnePlace
  <2>1. /\ silos = heard /\ late = reported_late /\ reported_late \intersect silos = {}
        /\ evaluable \subseteq silos
    BY DEF SilosIInv, Progress, Placed, SilosTypes, evaluable
  <2>2. ASSUME NEW e \in Endpoints
        PROVE  /\ e \in heard \union late <=> (ui.root[e] # None \/ e \in ui.unevaluable)
               /\ ~(ui.root[e] # None /\ e \in ui.unevaluable)
               /\ ui.root[e] = "evaluable" <=> e \in evaluable
    <3>1. /\ e \notin silos => ui.root[e] = None
          /\ e \in evaluable => ui.root[e] = "evaluable"
          /\ e \in silos \ evaluable => ui.root[e] # "evaluable"
          /\ e \in ui.unevaluable <=> (e \in silos /\ ui.root[e] = None) \/ e \in reported_late
      BY DEF SilosIInv, Placed
    <3>2. None # "evaluable"
      BY DEF None
    <3> QED
      BY <2>1, <3>1, <3>2
  <2> QED
    BY <2>2 DEF SilosIInv, Placed, Mirrors
<1> QED
  BY <1>1, <1>2, SilosInvariant, PTL DEF ReaderSeesTheSilos

\* A write outranks what discovery made of a variable, nothing else does, and the
\* state signal is never reclassified.
THEOREM WritesProve == SilosSpec => []WritesProveCommands
<1>1. SilosIInv => WritesProveCommands
  <2> SUFFICES ASSUME SilosIInv, NEW x \in Vars
               PROVE  LET e == x[1]  k == x[2]  proven == x \in written /\ k # state_key[e]
                      IN  /\ ui.nature[e][k] = IF proven THEN "COMMAND" ELSE found[e][k]
                          /\ x \in ui.starlate <=> proven /\ found[e][k] # "COMMAND"
    BY DEF WritesProveCommands
  <2>1. PICK e \in Endpoints, k \in FlowKeys : x = <<e, k>>
    BY DEF Vars
  <2> QED
    BY <2>1 DEF SilosIInv, Proven
<1> QED
  BY <1>1, SilosInvariant, PTL

\* No event of learn or evaluate tells the reader what it already shows.
THEOREM EventsAreNews == SilosSpec => []EveryEventIsNews
<1>1. SilosIInv => EveryEventIsNews
  BY DEF SilosIInv, EveryEventIsNews
<1> QED
  BY <1>1, SilosInvariant, PTL
=============================================================================
