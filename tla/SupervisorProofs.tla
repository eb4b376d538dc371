-------------------------- MODULE SupervisorProofs --------------------------
(***************************************************************************)
(* The supervised selector loop keeps track of every source, for any set   *)
(* of sources, retry budget, backoff and grace.                            *)
(***************************************************************************)
EXTENDS Supervisor, TLAPS

\* What a pass may rely on while it visits its sources: the service pass only
\* down ones, the handle pass only registered ones with something to read.
PassInv ==
  /\ pc = "service" => todo \subseteq down
  /\ pc = "handle" => \A s \in todo : s \in registered /\ (unread[s] \/ child[s] = "exited")
  /\ outcome # "running" => pc = "done"

\* The inductive invariant.
IInv == TypeOK /\ PassInv /\ NoSourceForgotten /\ OneChildPerSource /\ FallThroughMeansAllLost

Records == [tries : 0..Retries, wait : 0..BackoffCap, attempting : BOOLEAN, proving : 0..Grace]

\* The record no outage has is a record.
LEMMA NoRecordType == NoRecord \in Records
  BY SupervisorAssumption, SMT DEF NoRecord, Records

\* Whatever the number of tries, the backoff stays under its cap.
LEMMA BackoffType == \A n : Backoff(n) \in 0..BackoffCap
  BY SupervisorAssumption, SMT DEF Backoff

\* The initial states satisfy the invariant.
LEMMA InitIInv == Init => IInv
<1> SUFFICES ASSUME Init PROVE IInv
  OBVIOUS
<1>1. TypeOK
  BY NoRecordType, Zenon DEF Init, TypeOK, Records, Events
<1>2. PassInv /\ NoSourceForgotten /\ OneChildPerSource /\ FallThroughMeansAllLost
  BY SMT DEF Init, PassInv, NoSourceForgotten, OneChildPerSource, FallThroughMeansAllLost
<1> QED
  BY <1>1, <1>2 DEF IInv

\* A death gives up the source and says so, or starts or continues its outage.
LEMMA DeathRecorded ==
  ASSUME TypeOK, NEW s \in Sources, note_death(s)
  PROVE  /\ down' \subseteq Sources /\ rec' \in [Sources -> Records] /\ event' \in [Sources -> Events]
         /\ \A r \in Sources \ {s} : /\ r \in down' <=> r \in down
                                     /\ rec'[r] = rec[r] /\ event'[r] = event[r]
         /\ \/ s \notin down' /\ event'[s] = "permanently_lost"
            \/ s \in down' /\ event'[s] = "lost" /\ rec'[s].attempting = FALSE
<1> DEFINE old == IF s \in down THEN rec[s] ELSE NoRecord
           next == [old EXCEPT !.tries = old.tries + 1, !.wait = Backoff(old.tries + 1),
                               !.attempting = FALSE, !.proving = 0]
<1>1. old \in Records
  BY NoRecordType, Zenon DEF TypeOK, Records
<1>t. old.tries \in 0..Retries
  <2> HIDE DEF old
  <2> QED
    BY <1>1, Zenon DEF Records
<1>2. CASE old.tries + 1 > Retries
  <2>1. /\ down' = down \ {s} /\ rec' = [rec EXCEPT ![s] = NoRecord]
        /\ event' = [event EXCEPT ![s] = "permanently_lost"]
    BY <1>1, <1>2, SupervisorAssumption, SMT DEF note_death, Records
  <2> QED
    BY <2>1, NoRecordType, SMT DEF TypeOK, Records, Events
<1>3. CASE old.tries + 1 <= Retries
  <2>1. /\ down' = down \union {s} /\ rec' = [rec EXCEPT ![s] = next]
        /\ event' = [event EXCEPT ![s] = "lost"]
    BY <1>1, <1>3, SupervisorAssumption, SMT DEF note_death, Records
  <2>2. next \in Records /\ next.attempting = FALSE
    <3>1. old.tries + 1 \in 0..Retries /\ Backoff(old.tries + 1) \in 0..BackoffCap /\ 0 \in 0..Grace
      BY <1>t, <1>3, BackoffType, SupervisorAssumption, SMT
    <3> HIDE DEF old
    <3> QED
      BY <1>1, <3>1, Zenon DEF Records
  <2> HIDE DEF next
  <2> QED
    BY <2>1, <2>2, SMT DEF TypeOK, Records, Events
<1>4. old.tries + 1 > Retries \/ old.tries + 1 <= Retries
  <2> HIDE DEF old
  <2> QED
    BY <1>t, SupervisorAssumption, SMT
<1> QED
  BY <1>2, <1>3, <1>4

\* A source that resumes leaves its outage, and says so.
LEMMA ResumeRecorded ==
  ASSUME TypeOK, NEW s \in Sources, _resume(s)
  PROVE  /\ down' \subseteq Sources /\ rec' \in [Sources -> Records] /\ event' \in [Sources -> Events]
         /\ \A r \in Sources \ {s} : /\ r \in down' <=> r \in down
                                     /\ rec'[r] = rec[r] /\ event'[r] = event[r]
         /\ s \notin down' /\ event'[s] = "resumed"
  BY NoRecordType, SMT DEF _resume, TypeOK, Records, Events

Rest == PassInv /\ NoSourceForgotten /\ OneChildPerSource /\ FallThroughMeansAllLost

\* A child that writes or exits.
LEMMA ChildrenKeepIInv == ASSUME IInv, NEW s \in Sources, Write(s) \/ Exit(s) PROVE IInv'
<1> USE DEF outage, loop
<1>1. TypeOK'
  <2>1. CASE Write(s)
    BY <2>1, Zenon DEF IInv, TypeOK, Write
  <2>2. CASE Exit(s)
    BY <2>2, Zenon DEF IInv, TypeOK, Exit
  <2> QED
    BY <2>1, <2>2
<1>2. Rest'
  BY SMT DEF IInv, Write, Exit, TypeOK, Rest, PassInv, NoSourceForgotten, OneChildPerSource, FallThroughMeansAllLost
<1> QED
  BY <1>1, <1>2 DEF IInv, Rest

\* Whatever way the loop is left.
LEMMA LeaveKeepsIInv ==
  ASSUME IInv, FallThrough \/ Stop \/ Interrupt
  PROVE  IInv'
<1> USE DEF outage
<1>1. TypeOK'
  BY Zenon DEF IInv, TypeOK, FallThrough, Stop, Interrupt, Leave, KillAll
<1>2. Rest'
  BY SMT DEF IInv, FallThrough, Stop, Interrupt, Leave, KillAll, Runnable, TypeOK, Rest, PassInv,
       NoSourceForgotten, OneChildPerSource, FallThroughMeansAllLost
<1> QED
  BY <1>1, <1>2 DEF IInv, Rest

\* The turns of the loop between its passes.
LEMMA TurnsKeepIInv ==
  ASSUME IInv, StartService \/ EndService \/ EndHandle
  PROVE  IInv'
<1> USE DEF outage, children
<1>1. TypeOK'
  BY Zenon DEF IInv, TypeOK, StartService, EndService, EndHandle
<1>2. Rest'
  BY SMT DEF IInv, StartService, EndService, EndHandle, Runnable, TypeOK, Rest, PassInv,
       NoSourceForgotten, OneChildPerSource, FallThroughMeansAllLost
<1> QED
  BY <1>1, <1>2 DEF IInv, Rest

\* A select lets the timers run down.
LEMMA SelectKeepsIInv == ASSUME IInv, NEW d \in {0, 1}, Select(d) PROVE IInv'
<1> USE DEF children
<1>1. \A s \in Sources : Less(rec[s].wait, d) \in 0..BackoffCap /\ Less(rec[s].proving, d) \in 0..Grace
  BY SupervisorAssumption, SMT DEF IInv, TypeOK, Less
<1>2. rec' \in [Sources -> Records] /\ \A s \in Sources : rec'[s].attempting = rec[s].attempting
  <2>1. \A s \in Sources : rec[s] \in Records
    BY Zenon DEF IInv, TypeOK, Records
  <2>2. rec' = [s \in Sources |-> [rec[s] EXCEPT !.wait = Less(rec[s].wait, d),
                                                !.proving = Less(rec[s].proving, d)]]
    BY Zenon DEF Select
  <2> QED
    BY <1>1, <2>1, <2>2, Zenon DEF Records
<1>3. TypeOK'
  <2>1. todo' \subseteq Sources
    BY Zenon DEF Select, IInv, TypeOK, Readable
  <2> QED
    BY <1>2, <2>1, Zenon DEF Select, IInv, TypeOK, Records
<1>4. Rest'
  <2>1. UNCHANGED <<child, unread, registered, down, event, outcome>> /\ pc' = "handle" /\ todo' = Readable
    BY Zenon DEF Select
  <2>2. outcome = "running"
    BY Zenon DEF Select, IInv, PassInv
  <2> QED
    BY <1>2, <2>1, <2>2, SMT DEF IInv, TypeOK, Readable, Rest, PassInv,
         NoSourceForgotten, OneChildPerSource, FallThroughMeansAllLost
<1> QED
  BY <1>3, <1>4 DEF IInv, Rest

\* A visit of the service pass: a respawn, a launch that failed, a source that
\* survived its grace, or nothing yet.
LEMMA ServiceKeepsIInv == ASSUME IInv, NEW s \in Sources, service(s) PROVE IInv'
<1>1. /\ s \in down /\ pc = "service" /\ pc' = pc /\ outcome' = outcome /\ outcome = "running"
      /\ todo' = todo \ {s} /\ todo \subseteq down
  BY SMT DEF service, IInv, PassInv
<1>2. CASE respawn(s)
  <2>1. /\ rec' = [rec EXCEPT ![s] = [rec[s] EXCEPT !.attempting = TRUE, !.proving = Grace]]
        /\ UNCHANGED <<down, event>>
    BY <1>2, Zenon DEF respawn
  <2>2. rec' \in [Sources -> Records] /\ rec'[s].attempting = TRUE
        /\ \A r \in Sources \ {s} : rec'[r] = rec[r]
    <3>1. rec \in [Sources -> Records] /\ rec[s] \in Records
      BY Zenon DEF IInv, TypeOK, Records
    <3>2. Grace \in 0..Grace
      BY SupervisorAssumption, SMT
    <3>3. [rec[s] EXCEPT !.attempting = TRUE, !.proving = Grace] \in Records
      BY <3>1, <3>2, Zenon DEF Records
    <3>4. [rec[s] EXCEPT !.attempting = TRUE, !.proving = Grace].attempting = TRUE
      BY <3>1, Zenon DEF Records
    <3> QED
      BY <2>1, <3>1, <3>3, <3>4, Zenon
  <2>3. TypeOK'
    BY <1>1, <1>2, <2>1, <2>2, Zenon DEF respawn, IInv, TypeOK, Records
  <2>4. Rest'
    BY <1>1, <1>2, <2>1, <2>2, SMT DEF respawn, IInv, TypeOK, Rest, PassInv,
         NoSourceForgotten, OneChildPerSource, FallThroughMeansAllLost
  <2> QED
    BY <2>3, <2>4 DEF IInv, Rest
<1>3. CASE launch_fails(s) \/ survived(s)
  <2>1. UNCHANGED <<child, unread, registered>>
    BY <1>3 DEF launch_fails, survived
  <2>2. /\ down' \subseteq Sources /\ rec' \in [Sources -> Records] /\ event' \in [Sources -> Events]
        /\ \A r \in Sources \ {s} : /\ r \in down' <=> r \in down
                                    /\ rec'[r] = rec[r] /\ event'[r] = event[r]
    BY <1>3, DeathRecorded, ResumeRecorded, Zenon DEF launch_fails, survived, IInv
  <2>3. \/ s \in registered /\ s \notin down' /\ event'[s] = "resumed"
        \/ /\ s \notin registered
           /\ \/ s \notin down' /\ event'[s] = "permanently_lost"
              \/ s \in down' /\ event'[s] = "lost" /\ rec'[s].attempting = FALSE
    <3>1. CASE launch_fails(s)
      <4>1. s \notin registered
        BY <3>1, <1>1, Zenon DEF launch_fails, IInv, NoSourceForgotten
      <4> QED
        BY <3>1, <4>1, DeathRecorded, Zenon DEF launch_fails, IInv
    <3>2. CASE survived(s)
      <4>1. s \in registered
        BY <3>2, <1>1, Zenon DEF survived, IInv, NoSourceForgotten
      <4> QED
        BY <3>2, <4>1, ResumeRecorded, Zenon DEF survived, IInv
    <3> QED
      BY <1>3, <3>1, <3>2
  <2>4. TypeOK'
    BY <1>1, <2>1, <2>2, Zenon DEF IInv, TypeOK, Records
  <2>5. Rest'
    BY <1>1, <2>1, <2>2, <2>3, SMT DEF IInv, TypeOK, Rest, PassInv,
         NoSourceForgotten, OneChildPerSource, FallThroughMeansAllLost
  <2> QED
    BY <2>4, <2>5 DEF IInv, Rest
<1>4. CASE not_due(s)
  <2>1. UNCHANGED <<child, unread, registered, down, rec, event>>
    BY <1>4 DEF not_due, outage
  <2>2. TypeOK'
    BY <1>1, <2>1, Zenon DEF IInv, TypeOK
  <2>3. Rest'
    BY <1>1, <2>1, SMT DEF IInv, TypeOK, Rest, PassInv,
         NoSourceForgotten, OneChildPerSource, FallThroughMeansAllLost
  <2> QED
    BY <2>2, <2>3 DEF IInv, Rest
<1> QED
  BY <1>2, <1>3, <1>4 DEF service

\* First bytes of a respawned source end its outage; of any other, nothing.
LEMMA AliveRecorded ==
  ASSUME TypeOK, NEW s \in Sources, mark_alive(s)
  PROVE  /\ down' \subseteq Sources /\ rec' \in [Sources -> Records] /\ event' \in [Sources -> Events]
         /\ \A r \in Sources \ {s} : /\ r \in down' <=> r \in down
                                     /\ rec'[r] = rec[r] /\ event'[r] = event[r]
         /\ \/ s \in down /\ rec[s].attempting /\ s \notin down' /\ event'[s] = "resumed"
            \/ (s \in down' <=> s \in down) /\ rec'[s] = rec[s] /\ event'[s] = event[s]
<1>1. CASE s \in down /\ rec[s].attempting /\ _resume(s)
  BY <1>1, ResumeRecorded, Zenon
<1>2. CASE UNCHANGED outage
  BY <1>2, Zenon DEF TypeOK, Records, outage
<1> QED
  BY <1>1, <1>2 DEF mark_alive

\* Reading the end of a pipe unregisters its source, which a death then accounts for.
LEMMA EOFKeepsIInv ==
  ASSUME IInv, NEW s \in Sources, pc = "handle", s \in todo, todo' = todo \ {s},
         ReadEOF(s), UNCHANGED <<pc, outcome>>
  PROVE  IInv'
<1>1. /\ UNCHANGED <<child, unread>> /\ registered' = registered \ {s}
      /\ ~unread[s] /\ child[s] = "exited" /\ outcome = "running"
  BY Zenon DEF ReadEOF, children, IInv, PassInv
<1>2. /\ down' \subseteq Sources /\ rec' \in [Sources -> Records] /\ event' \in [Sources -> Events]
      /\ \A r \in Sources \ {s} : /\ r \in down' <=> r \in down
                                  /\ rec'[r] = rec[r] /\ event'[r] = event[r]
      /\ \/ s \notin down' /\ event'[s] = "permanently_lost"
         \/ s \in down' /\ event'[s] = "lost" /\ rec'[s].attempting = FALSE
  BY DeathRecorded, Zenon DEF ReadEOF, IInv
<1>3. TypeOK'
  BY <1>1, <1>2, Zenon DEF IInv, TypeOK, Records
<1>4. Rest'
  BY <1>1, <1>2, SMT DEF IInv, TypeOK, Rest, PassInv,
       NoSourceForgotten, OneChildPerSource, FallThroughMeansAllLost
<1> QED
  BY <1>3, <1>4 DEF IInv, Rest

\* Reading bytes, whether the handler returns or raises.
LEMMA BytesKeepIInv ==
  ASSUME IInv, NEW s \in Sources, pc = "handle", s \in todo,
         unread' = [unread EXCEPT ![s] = FALSE], mark_alive(s), UNCHANGED registered,
         \/ todo' = todo \ {s} /\ UNCHANGED <<child, pc, outcome>>
         \/ KillAll("raised")
  PROVE  IInv'
<1>1. s \in registered /\ outcome = "running"
  BY Zenon DEF IInv, PassInv
<1>2. /\ down' \subseteq Sources /\ rec' \in [Sources -> Records] /\ event' \in [Sources -> Events]
      /\ \A r \in Sources \ {s} : /\ r \in down' <=> r \in down
                                  /\ rec'[r] = rec[r] /\ event'[r] = event[r]
      /\ \/ s \in down /\ rec[s].attempting /\ s \notin down' /\ event'[s] = "resumed"
         \/ (s \in down' <=> s \in down) /\ rec'[s] = rec[s] /\ event'[s] = event[s]
  BY AliveRecorded, Zenon DEF IInv
<1>3. TypeOK'
  <2>1. unread' \in [Sources -> BOOLEAN]
    BY Zenon DEF IInv, TypeOK
  <2>2. CASE todo' = todo \ {s} /\ UNCHANGED <<child, pc, outcome>>
    BY <1>2, <2>1, <2>2, Zenon DEF IInv, TypeOK, Records
  <2>3. CASE KillAll("raised")
    BY <1>2, <2>1, <2>3, Zenon DEF IInv, TypeOK, Records, KillAll
  <2> QED
    BY <2>2, <2>3
<1>4. Rest'
  <2>1. \A r \in Sources \ {s} : unread'[r] = unread[r]
    BY SMT DEF IInv, TypeOK
  <2>2. CASE todo' = todo \ {s} /\ UNCHANGED <<child, pc, outcome>>
    BY <1>1, <1>2, <2>1, <2>2, SMT DEF IInv, TypeOK, Rest, PassInv,
         NoSourceForgotten, OneChildPerSource, FallThroughMeansAllLost
  <2>3. CASE KillAll("raised")
    BY <1>1, <1>2, <2>3, SMT DEF KillAll, IInv, TypeOK, Rest, PassInv,
         NoSourceForgotten, OneChildPerSource, FallThroughMeansAllLost
  <2> QED
    BY <2>2, <2>3
<1> QED
  BY <1>3, <1>4 DEF IInv, Rest

\* Every step keeps the invariant.
LEMMA NextIInv == ASSUME IInv, [Next]_supervisorVars PROVE IInv'
<1>1. ASSUME NEW s \in Sources, Handle(s) PROVE IInv'
  <2>1. CASE ReadBytes(s)
    BY <1>1, <2>1, BytesKeepIInv, Zenon DEF Handle, ReadBytes
  <2>2. CASE ReadEOF(s)
    BY <1>1, <2>2, EOFKeepsIInv, Zenon DEF Handle
  <2> QED
    BY <1>1, <2>1, <2>2 DEF Handle
<1>2. ASSUME NEW s \in Sources, Raise(s) PROVE IInv'
  BY <1>2, BytesKeepIInv, Zenon DEF Raise
<1>3. CASE Children
  BY <1>3, ChildrenKeepIInv DEF Children
<1>4. CASE Interrupt
  BY <1>4, LeaveKeepsIInv
<1>5. CASE Loop
  BY <1>1, <1>2, <1>5, LeaveKeepsIInv, TurnsKeepIInv, SelectKeepsIInv, ServiceKeepsIInv, Zenon DEF Loop
<1>6. CASE UNCHANGED supervisorVars
  BY <1>6, Zenon DEF supervisorVars, IInv, TypeOK, PassInv, NoSourceForgotten, OneChildPerSource,
       FallThroughMeansAllLost
<1> QED
  BY <1>3, <1>4, <1>5, <1>6 DEF Next

\* The invariant holds throughout.
LEMMA SupervisorInvariant == Spec => []IInv
  BY InitIInv, NextIInv, PTL DEF Spec

\* Type correctness: no retry count passes the budget, no backoff passes its cap.
THEOREM TypeCorrect == Spec => []TypeOK
  BY SupervisorInvariant, PTL DEF IInv

\* No source is ever forgotten by the loop, and no tshark is left behind or doubled.
THEOREM SourcesAccountedFor == Spec => []SourcesAreKept
  BY SupervisorInvariant, PTL DEF IInv, SourcesAreKept

\* The loop only falls through when every capture was reported permanently lost.
THEOREM FallThroughSound == Spec => []FallThroughMeansAllLost
  BY SupervisorInvariant, PTL DEF IInv

-----------------------------------------------------------------------------
(* The capture events.                                                     *)

\* What CaptureEventsTellTheOutage says of a step and a source.
Tells(s) ==
  /\ event[s] = "permanently_lost" => event'[s] = "permanently_lost"
  /\ event'[s] = "resumed" /\ event[s] # "resumed" => event[s] = "lost"
  /\ event'[s] = "permanently_lost" /\ event[s] # "permanently_lost"
       => (event[s] = "lost" /\ rec[s].tries = Retries) \/ Retries = 0

\* A source is given up from an outage whose budget is spent.
LEMMA DeathTells ==
  ASSUME IInv, NEW s \in Sources, note_death(s), s \in down \/ s \in registered
  PROVE  \A r \in Sources : Tells(r)
<1>1. event[s] # "permanently_lost" /\ (s \in down <=> event[s] = "lost")
  BY Zenon DEF IInv, NoSourceForgotten
<1>2. \A r \in Sources \ {s} : event'[r] = event[r]
  BY DeathRecorded, Zenon DEF IInv
<1>3. event'[s] \in {"permanently_lost", "lost"}
  BY DeathRecorded, Zenon DEF IInv
<1>4. event'[s] = "permanently_lost" => (s \in down /\ rec[s].tries = Retries) \/ Retries = 0
  <2> SUFFICES ASSUME event'[s] = "permanently_lost"
               PROVE  (s \in down /\ rec[s].tries = Retries) \/ Retries = 0
    OBVIOUS
  <2>1. event \in [Sources -> Events] /\ rec[s] \in Records
    BY Zenon DEF IInv, TypeOK, Records
  <2>2. rec[s].tries \in 0..Retries
    BY <2>1, Zenon DEF Records
  <2>3. CASE s \in down
    <3>1. rec[s].tries + 1 > Retries
      BY <2>1, <2>3, SMT DEF note_death
    <3> QED
      BY <2>2, <2>3, <3>1, SupervisorAssumption, SMT
  <2>4. CASE s \notin down
    <3>1. 0 + 1 > Retries
      BY <2>1, <2>4, SMT DEF note_death, NoRecord
    <3> QED
      BY <3>1, SupervisorAssumption, SMT
  <2> QED
    BY <2>3, <2>4
<1> QED
  BY <1>1, <1>2, <1>3, <1>4, Zenon DEF Tells

\* A source resumes from an outage.
LEMMA ResumeTells ==
  ASSUME IInv, NEW s \in Sources, s \in down, _resume(s)
  PROVE  \A r \in Sources : Tells(r)
<1>1. event[s] = "lost"
  BY Zenon DEF IInv, NoSourceForgotten
<1>2. (\A r \in Sources \ {s} : event'[r] = event[r]) /\ event'[s] = "resumed"
  BY ResumeRecorded, Zenon DEF IInv
<1> QED
  BY <1>1, <1>2, Zenon DEF Tells

\* Every step tells the outage.
LEMMA StepTells == ASSUME IInv, [Next]_supervisorVars PROVE \A r \in Sources : Tells(r)
<1>q. ASSUME UNCHANGED event PROVE \A r \in Sources : Tells(r)
  BY <1>q, Zenon DEF Tells
<1>a. ASSUME NEW s \in Sources, mark_alive(s) PROVE \A r \in Sources : Tells(r)
  BY <1>q, <1>a, ResumeTells, Zenon DEF mark_alive, outage
<1>1. ASSUME NEW s \in Sources, service(s) PROVE \A r \in Sources : Tells(r)
  <2>1. CASE respawn(s) \/ not_due(s)
    BY <1>q, <2>1, Zenon DEF respawn, not_due, outage
  <2>2. CASE launch_fails(s)
    BY <2>2, DeathTells, Zenon DEF launch_fails
  <2>3. CASE survived(s)
    BY <2>3, ResumeTells, Zenon DEF survived
  <2> QED
    BY <1>1, <2>1, <2>2, <2>3 DEF service
<1>2. ASSUME NEW s \in Sources, Handle(s) PROVE \A r \in Sources : Tells(r)
  <2>1. CASE ReadBytes(s)
    BY <2>1, <1>a, Zenon DEF ReadBytes
  <2>2. CASE ReadEOF(s)
    <3>1. s \in registered
      BY <1>2, Zenon DEF Handle, IInv, PassInv
    <3> QED
      BY <2>2, <3>1, DeathTells, Zenon DEF ReadEOF
  <2> QED
    BY <1>2, <2>1, <2>2 DEF Handle
<1>3. ASSUME NEW s \in Sources, Raise(s) PROVE \A r \in Sources : Tells(r)
  BY <1>3, <1>a, Zenon DEF Raise
<1>4. CASE Children \/ Interrupt \/ UNCHANGED supervisorVars
  BY <1>4, <1>q, Zenon DEF Children, Write, Exit, Interrupt, Leave, outage, supervisorVars
<1>5. CASE Loop
  BY <1>1, <1>2, <1>3, <1>5, <1>q, Zenon DEF Loop, FallThrough, Stop, StartService, EndService,
       EndHandle, Select, Leave, outage
<1> QED
  BY <1>4, <1>5 DEF Next

\* What the capture events tell a reader of the event stream is what happened, for
\* any retry budget: an outage opens and closes once, nothing follows the last event.
THEOREM EventsTellTheOutage == Spec => CaptureEventsTellTheOutage
<1>1. IInv /\ [Next]_supervisorVars => [\A s \in Sources : Tells(s)]_supervisorVars
  BY StepTells
<1>2. Spec => [][\A s \in Sources : Tells(s)]_supervisorVars
  BY <1>1, SupervisorInvariant, PTL DEF Spec
<1> QED
  BY <1>2, Zenon DEF CaptureEventsTellTheOutage, Tells
=============================================================================
