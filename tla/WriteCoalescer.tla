--------------------------- MODULE WriteCoalescer ---------------------------
(***************************************************************************)
(* ModbusExtractor.coalesce_writes behind _Coalescer: an operator who holds*)
(* a button repeats one write, and the repeats are folded into the first.  *)
(* The generator reads coalesce_window_s when it is first fed and keeps it *)
(* as long as it lives; calibration derives a new window at the end of     *)
(* observe, and a respawn of the source starts a fresh generator.          *)
(*                                                                         *)
(* Times are kept as ages.                                                 *)
(***************************************************************************)
EXTENDS Integers, FiniteSets

CONSTANTS
  Writes,          \* records of a server and a command: (register, value)
  DefaultWindow,   \* ModbusConfig.coalesce_window_s
  DerivedWindows,  \* what derive_coalesce_window_s may make of the half-cycle
  MaxWrites,       \* bound: writes of a behaviour
  MaxRespawns      \* bound: respawns of a behaviour

\* The derived windows are clamped: there is a longest one.
ASSUME CoalescerAssumption ==
  /\ \A w \in Writes : DOMAIN w = {"server", "command"}
  /\ DefaultWindow \in Nat \ {0} /\ DerivedWindows \subseteq Nat \ {0}
  /\ \E n \in DerivedWindows \union {DefaultWindow} : \A m \in DerivedWindows : m <= n
  /\ MaxWrites \in Nat /\ MaxRespawns \in Nat

WriteServers == {w.server : w \in Writes}

\* Bound: ages past it are not told apart.
LongAgo == 1 + CHOOSE n \in DerivedWindows \union {DefaultWindow} :
                 \A m \in DerivedWindows \union {DefaultWindow} : m <= n

VARIABLES
  config_window,  \* config.coalesce_window_s
  window,         \* the generator's own copy, Unread before it is first fed
  run,            \* the open run: its key, the ages of its first and last write; or NoRun
  calibrated,
  sent,           \* history, per server: writes on the wire
  told,           \* history, per server: the repeat counts of the events yielded
  sinceYield,     \* history, per write: time since an event of it was yielded
  folded,         \* history: the last step dropped a repeat
  respawns

wireVars == <<sent, told, sinceYield, folded>>
coalescerVars == <<config_window, window, run, calibrated, wireVars, respawns>>

Unread == 0
NoRun  == [key |-> "none"]

CoalescerInit ==
  /\ config_window = DefaultWindow /\ window = Unread /\ run = NoRun
  /\ calibrated = FALSE
  /\ sent = [s \in WriteServers |-> 0] /\ told = [s \in WriteServers |-> 0]
  /\ sinceYield = [w \in Writes |-> LongAgo]
  /\ folded = FALSE /\ respawns = 0

-----------------------------------------------------------------------------
Window == IF window = Unread THEN config_window ELSE window

\* Slipped: the run's identity is the command, whatever the server.
SameWrite_any(w) == run # NoRun /\ run.key.command = w.command

SameWrite(w) == run # NoRun /\ run.key = w

\* Slipped: only the gap to the previous write bounds a run.
Repeats_gap(w) == SameWrite(w) /\ run.last <= Window

Repeats(w) == SameWrite(w) /\ run.last <= Window /\ run.start <= Window

coalesce_write(w) ==
  /\ window' = Window
  /\ sent' = [sent EXCEPT ![w.server] = @ + 1]
  /\ \/ /\ Repeats(w)
        /\ run' = [run EXCEPT !.last = 0]
        /\ told' = [told EXCEPT ![run.key.server] = @ + 1]
        /\ folded' = TRUE
        /\ UNCHANGED sinceYield
     \/ /\ ~Repeats(w)
        /\ run' = [key |-> w, start |-> 0, last |-> 0]
        /\ told' = [told EXCEPT ![w.server] = @ + 1]
        /\ sinceYield' = [sinceYield EXCEPT ![w] = 0]
        /\ folded' = FALSE
  /\ UNCHANGED <<config_window, calibrated, respawns>>

\* Reads and responses pass straight through, and start the generator too.
coalesce_other ==
  /\ window' = Window
  /\ folded' = FALSE
  /\ UNCHANGED <<config_window, run, calibrated, sent, told, sinceYield, respawns>>

\* Called once, after the observe window.
apply_derived_coalesce_window(w) ==
  /\ ~calibrated
  /\ calibrated' = TRUE /\ config_window' = w
  /\ folded' = FALSE
  /\ UNCHANGED <<window, run, sent, told, sinceYield, respawns>>

\* _Source.respawn: the extractor and its config stay, the generator is a new one.
RespawnCoalescer ==
  /\ window' = Unread /\ run' = NoRun
  /\ respawns' = respawns + 1
  /\ folded' = FALSE
  /\ UNCHANGED <<config_window, calibrated, sent, told, sinceYield>>

Aged(n) == IF n < LongAgo THEN n + 1 ELSE LongAgo

CoalescerTick ==
  /\ run' = IF run = NoRun THEN NoRun
            ELSE [run EXCEPT !.start = Aged(@), !.last = Aged(@)]
  /\ sinceYield' = [w \in Writes |-> Aged(sinceYield[w])]
  /\ folded' = FALSE
  /\ UNCHANGED <<config_window, window, calibrated, sent, told, respawns>>

CoalescerNext ==
  \/ \E w \in Writes : sent[w.server] < MaxWrites /\ coalesce_write(w)
  \/ coalesce_other
  \/ \E w \in DerivedWindows : apply_derived_coalesce_window(w)
  \/ respawns < MaxRespawns /\ RespawnCoalescer
  \/ CoalescerTick

CoalescerSpec == CoalescerInit /\ [][CoalescerNext]_coalescerVars

-----------------------------------------------------------------------------
\* The open run's ages are those of one generator: it was started, and its first
\* write is no younger than its last.
CoalescerTypeOK ==
  /\ config_window \in DerivedWindows \union {DefaultWindow}
  /\ window \in {Unread, DefaultWindow} \union DerivedWindows
  /\ run # NoRun => /\ run.key \in Writes /\ window # Unread
                    /\ run.start \in 0..LongAgo /\ run.last \in 0..run.start
  /\ respawns \in 0..MaxRespawns

\* Every write on the wire is in the repeat count of exactly one event, of its own
\* server: folding loses no server's writes to another that is written alike.
CountsEveryWrite == told = sent

\* A button held for ever is told again and again: a write is only folded while an
\* event of the same write is at most one window old, so a phase that turns inside
\* a burst is judged on both sides (the span bound of coalesce_writes).
BurstsAreSplit ==
  [][folded' => \E w \in Writes : run'.key = w /\ sinceYield[w] <= Window]_coalescerVars

\* The derived window is meant for the learn and evaluate captures
\* (apply_derived_coalesce_window): nothing is folded beyond it.
DerivedWindowApplies ==
  [][folded' /\ calibrated => run.start <= config_window]_coalescerVars
=============================================================================
