----------------------------- MODULE Supervisor -----------------------------
(***************************************************************************)
(* liscere.observe: the selector loop (multiplex) over one tshark child    *)
(* per source, and the respawn policy (_Supervisor) for children that die. *)
(* One thread: each loop iteration asks until(), services the sources that *)
(* are down, then handles every readable fd.  The children run beside it:  *)
(* they write, and they exit, at any moment.                               *)
(*                                                                         *)
(* Instants (retry_at, alive_at, lost_at) are kept as time left or time    *)
(* passed, so that the state stays finite while time goes on for ever.     *)
(***************************************************************************)
EXTENDS Integers, FiniteSets

CONSTANTS
  Sources,
  Retries,      \* --respawn-retries
  BackoffCap,   \* --respawn-backoff-cap
  Base, Grace   \* first backoff, and how long a respawn must survive

ASSUME SupervisorAssumption ==
  /\ IsFiniteSet(Sources) /\ Sources # {}
  /\ Retries \in Nat /\ Base \in Nat \ {0} /\ Grace \in Nat
  /\ BackoffCap \in Nat \ {0}

VARIABLES
  child,       \* per source, the tshark process: "up" or "exited"
  unread,      \* per source, does its pipe hold bytes nobody read yet
  registered,  \* sources whose fd the selector watches
  down,        \* the keys of _down
  rec,         \* per source, its outage record (meaningful for s \in down)
  event,       \* per source, the last capture event emitted
  pc,          \* where the loop is
  todo,        \* sources the current pass still has to visit
  outcome      \* "running", "stopped" (until() said so), "fell_through",
               \* "interrupted" (Ctrl-C) or "raised" (by a handler)

children == <<child, unread>>
outage   == <<down, rec, event>>
loop     == <<pc, todo, outcome>>
supervisorVars == <<child, unread, registered, down, rec, event, pc, todo, outcome>>

Events == {"none", "lost", "resumed", "permanently_lost"}

NoRecord == [tries |-> 0, wait |-> 0, attempting |-> FALSE, proving |-> 0]

Backoff(tries) ==
  LET grown == Base * 2 ^ (tries - 1)
  IN  IF grown \in 0..BackoffCap THEN grown ELSE BackoffCap

Init ==
  /\ child = [s \in Sources |-> "up"]
  /\ unread = [s \in Sources |-> FALSE]
  /\ registered = Sources
  /\ down = {}
  /\ rec = [s \in Sources |-> NoRecord]
  /\ event = [s \in Sources |-> "none"]
  /\ pc = "until"
  /\ todo = {}
  /\ outcome = "running"

-----------------------------------------------------------------------------
(* The children.                                                           *)

Write(s) ==
  /\ child[s] = "up" /\ s \in registered /\ ~unread[s]
  /\ unread' = [unread EXCEPT ![s] = TRUE]
  /\ UNCHANGED <<child, registered, outage, loop>>

Exit(s) ==
  /\ child[s] = "up" /\ s \in registered
  /\ child' = [child EXCEPT ![s] = "exited"]
  /\ UNCHANGED <<unread, registered, outage, loop>>

-----------------------------------------------------------------------------
(* _Supervisor.                                                            *)

\* Slipped: one respawn too many.
note_death_late(s) ==
  LET old   == IF s \in down THEN rec[s] ELSE NoRecord
      tries == old.tries + 1
  IN  \/ /\ tries > Retries + 1
         /\ down' = down \ {s} /\ rec' = [rec EXCEPT ![s] = NoRecord]
         /\ event' = [event EXCEPT ![s] = "permanently_lost"]
      \/ /\ tries <= Retries + 1
         /\ down' = down \union {s} /\ event' = [event EXCEPT ![s] = "lost"]
         /\ rec' = [rec EXCEPT ![s] = [old EXCEPT !.tries = tries, !.wait = Backoff(tries),
                                                  !.attempting = FALSE, !.proving = 0]]

\* Slipped: the last respawn of the budget is not tried.
note_death_early(s) ==
  LET old   == IF s \in down THEN rec[s] ELSE NoRecord
      tries == old.tries + 1
  IN  \/ /\ tries >= Retries
         /\ down' = down \ {s} /\ rec' = [rec EXCEPT ![s] = NoRecord]
         /\ event' = [event EXCEPT ![s] = "permanently_lost"]
      \/ /\ tries < Retries
         /\ down' = down \union {s} /\ event' = [event EXCEPT ![s] = "lost"]
         /\ rec' = [rec EXCEPT ![s] = [old EXCEPT !.tries = tries, !.wait = Backoff(tries),
                                                  !.attempting = FALSE, !.proving = 0]]

\* Slipped: the first respawn does not wait.
note_death_eager(s) ==
  LET old   == IF s \in down THEN rec[s] ELSE NoRecord
      tries == old.tries + 1
  IN  \/ /\ tries > Retries
         /\ down' = down \ {s} /\ rec' = [rec EXCEPT ![s] = NoRecord]
         /\ event' = [event EXCEPT ![s] = "permanently_lost"]
      \/ /\ tries <= Retries
         /\ down' = down \union {s} /\ event' = [event EXCEPT ![s] = "lost"]
         /\ rec' = [rec EXCEPT ![s] = [old EXCEPT !.tries = tries, !.attempting = FALSE,
                                       !.wait = IF tries = 1 THEN 0 ELSE Backoff(tries),
                                       !.proving = 0]]

\* Start or continue the outage of s; schedule a respawn or give up.
note_death(s) ==
  LET old   == IF s \in down THEN rec[s] ELSE NoRecord
      tries == old.tries + 1
  IN  \/ /\ tries > Retries
         /\ down' = down \ {s}
         /\ rec' = [rec EXCEPT ![s] = NoRecord]
         /\ event' = [event EXCEPT ![s] = "permanently_lost"]
      \/ /\ tries <= Retries
         /\ down' = down \union {s}
         /\ rec' = [rec EXCEPT ![s] = [old EXCEPT !.tries = tries,
                                                  !.wait = Backoff(tries),
                                                  !.attempting = FALSE,
                                                  !.proving = 0]]
         /\ event' = [event EXCEPT ![s] = "lost"]

_resume(s) ==
  /\ down' = down \ {s}
  /\ rec' = [rec EXCEPT ![s] = NoRecord]
  /\ event' = [event EXCEPT ![s] = "resumed"]

mark_alive(s) ==
  \/ s \in down /\ rec[s].attempting /\ _resume(s)
  \/ ~(s \in down /\ rec[s].attempting) /\ UNCHANGED outage

\* Slipped: the fresh fd is not registered.
respawn_unregistered(s) ==
  /\ s \in down /\ ~rec[s].attempting /\ rec[s].wait = 0
  /\ child' = [child EXCEPT ![s] = "up"]
  /\ unread' = [unread EXCEPT ![s] = FALSE]
  /\ rec' = [rec EXCEPT ![s].attempting = TRUE, ![s].proving = Grace]
  /\ UNCHANGED <<registered, down, event>>

\* One source of service(): respawn it if its backoff elapsed (the launch itself
\* may fail, which counts as a try), promote it if it survived the grace.
respawn(s) ==
  /\ s \in down /\ ~rec[s].attempting /\ rec[s].wait = 0
  /\ child' = [child EXCEPT ![s] = "up"]
  /\ unread' = [unread EXCEPT ![s] = FALSE]
  /\ registered' = registered \union {s}
  /\ rec' = [rec EXCEPT ![s].attempting = TRUE, ![s].proving = Grace]
  /\ UNCHANGED <<down, event>>

launch_fails(s) ==
  /\ s \in down /\ ~rec[s].attempting /\ rec[s].wait = 0
  /\ note_death(s)
  /\ UNCHANGED <<child, unread, registered>>

\* Slipped: only a capture that has something to read is promoted.
survived_if_read(s) ==
  /\ s \in down /\ rec[s].attempting /\ rec[s].proving = 0 /\ child[s] = "up" /\ unread[s]
  /\ _resume(s)
  /\ UNCHANGED <<child, unread, registered>>

survived(s) ==
  /\ s \in down /\ rec[s].attempting /\ rec[s].proving = 0 /\ child[s] = "up"
  /\ _resume(s)
  /\ UNCHANGED <<child, unread, registered>>

not_due(s) ==
  /\ \/ ~rec[s].attempting /\ rec[s].wait > 0
     \/ rec[s].attempting /\ (rec[s].proving > 0 \/ child[s] = "exited")
  /\ UNCHANGED <<child, unread, registered, outage>>

-----------------------------------------------------------------------------
(* multiplex.                                                              *)

Runnable == registered # {} \/ down # {}

KillAll(why) ==
  /\ pc' = "done" /\ outcome' = why /\ todo' = {}
  /\ child' = [s \in Sources |-> "exited"]

Leave(why) == KillAll(why) /\ UNCHANGED <<unread, registered, outage>>

FallThrough == pc = "until" /\ ~Runnable /\ Leave("fell_through")

Stop == pc = "until" /\ Runnable /\ Leave("stopped")

\* Ctrl-C, wherever the loop is.
Interrupt == pc # "done" /\ Leave("interrupted")

StartService ==
  /\ pc = "until" /\ Runnable
  /\ pc' = "service" /\ todo' = down
  /\ UNCHANGED <<children, registered, outage, outcome>>

service(s) ==
  /\ pc = "service" /\ s \in todo
  /\ todo' = todo \ {s}
  /\ respawn(s) \/ launch_fails(s) \/ survived(s) \/ not_due(s)
  /\ UNCHANGED <<pc, outcome>>

EndService ==
  /\ pc = "service" /\ todo = {}
  /\ pc' = "select"
  /\ UNCHANGED <<children, registered, outage, todo, outcome>>

Readable == {s \in registered : unread[s] \/ child[s] = "exited"}

Less(n, d) == IF n > d THEN n - d ELSE 0

\* select(0.25): returns at once when something is readable, blocks otherwise.
Select(d) ==
  /\ pc = "select"
  /\ d = 0 => Readable # {}
  /\ pc' = "handle" /\ todo' = Readable
  /\ rec' = [s \in Sources |-> [rec[s] EXCEPT !.wait = Less(@, d), !.proving = Less(@, d)]]
  /\ UNCHANGED <<children, registered, down, event, outcome>>

\* os.read of a ready fd: bytes written before an exit come before its EOF.
ReadBytes(s) ==
  /\ unread[s]
  /\ unread' = [unread EXCEPT ![s] = FALSE]
  /\ mark_alive(s)
  /\ UNCHANGED <<child, registered>>

ReadEOF(s) ==
  /\ ~unread[s]
  /\ registered' = registered \ {s}
  /\ note_death(s)
  /\ UNCHANGED children

Handle(s) ==
  /\ pc = "handle" /\ s \in todo
  /\ todo' = todo \ {s}
  /\ ReadBytes(s) \/ ReadEOF(s)
  /\ UNCHANGED <<pc, outcome>>

\* on_event raises on what was read.
Raise(s) ==
  /\ pc = "handle" /\ s \in todo /\ unread[s]
  /\ unread' = [unread EXCEPT ![s] = FALSE]
  /\ mark_alive(s)
  /\ KillAll("raised")
  /\ UNCHANGED registered

EndHandle ==
  /\ pc = "handle" /\ todo = {}
  /\ pc' = "until"
  /\ UNCHANGED <<children, registered, outage, todo, outcome>>

Children == \E s \in Sources : Write(s) \/ Exit(s)

Loop ==
  \/ FallThrough \/ Stop
  \/ StartService \/ EndService \/ EndHandle
  \/ \E s \in Sources : service(s) \/ Handle(s) \/ Raise(s)
  \/ \E d \in {0, 1} : Select(d)

Next == Children \/ Interrupt \/ Loop

Spec == Init /\ [][Next]_supervisorVars

\* The loop never stops running, and select lets time pass again and again.
Fairness == WF_supervisorVars(Loop) /\ SF_supervisorVars(Select(1))

FairSpec == Spec /\ Fairness

-----------------------------------------------------------------------------
\* The types of the children, of the records of _Supervisor and of the loop: tries
\* never passes the budget while a source is down, no backoff passes the cap.
TypeOK ==
  /\ child \in [Sources -> {"up", "exited"}]
  /\ unread \in [Sources -> BOOLEAN]
  /\ registered \subseteq Sources
  /\ down \subseteq Sources
  /\ rec \in [Sources -> [tries : 0..Retries, wait : 0..BackoffCap,
                          attempting : BOOLEAN, proving : 0..Grace]]
  /\ event \in [Sources -> Events]
  /\ pc \in {"until", "service", "select", "handle", "done"}
  /\ todo \subseteq Sources
  /\ outcome \in {"running", "stopped", "fell_through", "interrupted", "raised"}

\* No source is ever forgotten: it is watched by the selector, or in an outage,
\* or was given up and said so; and it waits for a respawn exactly while no fd
\* of it is registered.
NoSourceForgotten ==
  \A s \in Sources :
    /\ s \in registered \/ s \in down \/ event[s] = "permanently_lost"
    /\ s \in registered => event[s] # "permanently_lost"
    /\ s \in down => (rec[s].attempting <=> s \in registered)
    /\ s \in down <=> event[s] = "lost"

\* The loop ends on its own only when every capture was reported permanently
\* lost (the exit code 3 of main): a survivor keeps being judged.
FallThroughMeansAllLost ==
  outcome = "fell_through" => \A s \in Sources : event[s] = "permanently_lost"

\* A live tshark is never left behind by the loop, and none is started beside
\* another one of the same source.
OneChildPerSource ==
  /\ pc = "done" => \A s \in Sources : child[s] = "exited"
  /\ \A s \in Sources : child[s] = "up" => s \in registered
  /\ \A s \in down : ~rec[s].attempting => child[s] = "exited"

\* Through every outage each source keeps its place in the loop and its one child.
SourcesAreKept == NoSourceForgotten /\ OneChildPerSource

\* What the capture events tell a reader: an outage opens with "lost" once and
\* closes once; nothing follows "permanently_lost"; a budget of Retries respawns
\* is spent before giving up.
CaptureEventsTellTheOutage ==
  [][\A s \in Sources :
       /\ event[s] = "permanently_lost" => event'[s] = "permanently_lost"
       /\ event'[s] = "resumed" /\ event[s] # "resumed" => event[s] = "lost"
       /\ event'[s] = "permanently_lost" /\ event[s] # "permanently_lost"
            => (event[s] = "lost" /\ rec[s].tries = Retries) \/ Retries = 0
    ]_supervisorVars

\* Every outage ends: the source resumes or is declared permanently lost.
OutagesEnd == \A s \in Sources : s \in down ~> (s \notin down \/ pc = "done")
=============================================================================
