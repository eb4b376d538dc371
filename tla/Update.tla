------------------------------- MODULE Update -------------------------------
(***************************************************************************)
(* liscere-update [TAG | --rollback]: the releases kept on the Pi, the     *)
(* version in the virtual environment, and an update that may be cut off   *)
(* between any two commands or in the middle of one, and started again.    *)
(*                                                                         *)
(* A wheel is named by its version.  current and previous are Empty when    *)
(* they were opened for writing and never written: such a file is there,   *)
(* and copied, but names nothing to roll back to.  liscere-check is not    *)
(* part of the repository: it is there or not, and passes or fails.        *)
(***************************************************************************)
EXTENDS Integers

CONSTANTS
  Versions,      \* releases that can be asked for
  NoVersion,     \* nothing installed, or a missing file
  Empty,         \* a file without content
  MaxUpdates     \* bound: how often the script is started

ASSUME UpdateAssumption ==
  NoVersion \notin Versions /\ Empty \notin Versions /\ Empty # NoVersion /\ MaxUpdates \in Nat

VARIABLES
  wheel,       \* per version, its file under releases/: "absent", "cut" or "whole"
  venv,        \* the version that liscere-observe --version prints
  current,     \* releases/current
  previous,    \* releases/previous
  service,     \* the version the service was last started with
  command,     \* the next command of the script, "idle" when it does not run
  want,        \* the wheel to install
  seen,        \* installed_version read before the installation
  outcome,     \* how the script last ended
  before,      \* when it was started: what it was asked for, what was installed, and
               \* whether current said so
  updates

releaseVars == <<wheel, current, previous>>
updateVars  == <<releaseVars, venv, service, command, want, seen, outcome, before, updates>>

UpdateInit ==
  /\ wheel = [v \in Versions |-> "absent"]
  /\ venv = NoVersion /\ current = NoVersion /\ previous = NoVersion /\ service = NoVersion
  /\ command = "idle" /\ want = NoVersion /\ seen = NoVersion /\ outcome = "none"
  /\ before = [asked |-> NoVersion, version |-> NoVersion, settled |-> FALSE] /\ updates = 0

\* The environment is the release the files name, and its wheel is kept.
Settled == venv # NoVersion /\ current = venv /\ wheel[venv] = "whole"

Started(first, v) ==
  /\ command = "idle" /\ updates < MaxUpdates
  /\ updates' = updates + 1 /\ outcome' = "none"
  /\ before' = [asked |-> v, version |-> venv, settled |-> Settled]
  /\ command' = first /\ want' = v
  /\ UNCHANGED <<releaseVars, venv, service, seen>>

\* A script that ends.  Crash: a signal or the power, anywhere.
Exit(how) == command' = "idle" /\ outcome' = how

Crash ==
  /\ command # "idle" /\ Exit("crashed")
  /\ UNCHANGED <<releaseVars, venv, service, want, seen, before, updates>>

-----------------------------------------------------------------------------
\* curl -o: the wheel is overwritten where it lies, also one that is kept.
Download ==
  /\ command = "download"
  /\ wheel' = [wheel EXCEPT ![want] = "cut"]
  /\ command' = "transfer"
  /\ UNCHANGED <<current, previous, venv, service, want, seen, outcome, before, updates>>

\* The transfer and the checksum; set -e and die end the script.
Transfer ==
  /\ command = "transfer"
  /\ \/ wheel' = [wheel EXCEPT ![want] = "whole"] /\ command' = "version" /\ UNCHANGED outcome
     \/ Exit("failed") /\ UNCHANGED wheel
  /\ UNCHANGED <<current, previous, venv, service, want, seen, before, updates>>

installed_version ==
  /\ command = "version"
  /\ seen' = venv
  /\ command' = IF venv # NoVersion /\ current # NoVersion THEN "open_previous" ELSE "install"
  /\ UNCHANGED <<releaseVars, venv, service, want, outcome, before, updates>>

\* cp current previous.
OpenPrevious ==
  /\ command = "open_previous" /\ command' = "copy"
  /\ previous' = Empty
  /\ UNCHANGED <<wheel, current, venv, service, want, seen, outcome, before, updates>>

\* Slipped: what the service was started with is kept.
KeptServed == service

Kept == current

CopyCurrent ==
  /\ command = "copy" /\ command' = "install"
  /\ previous' = Kept
  /\ UNCHANGED <<wheel, current, venv, service, want, seen, outcome, before, updates>>

\* pip install; one that fails leaves the environment as it was or without the package.
install_wheel(next) ==
  /\ \/ wheel[want] = "whole" /\ venv' = want /\ command' = next /\ UNCHANGED outcome
     \/ venv' \in {venv, NoVersion} /\ Exit("failed")
  /\ UNCHANGED <<releaseVars, service, want, seen, before, updates>>

Install == command = "install" /\ install_wheel("open_current")

\* basename > current.
OpenCurrent ==
  /\ command = "open_current" /\ command' = "write_current"
  /\ current' = Empty
  /\ UNCHANGED <<wheel, previous, venv, service, want, seen, outcome, before, updates>>

WriteCurrent ==
  /\ command = "write_current" /\ command' = "restart"
  /\ current' = want
  /\ UNCHANGED <<wheel, previous, venv, service, want, seen, outcome, before, updates>>

\* A restart that fails, or of a service that is not there yet, is a warning.
Restarted == service' \in {venv, NoVersion}

restart_service ==
  /\ command = "restart" /\ command' = "check"
  /\ Restarted
  /\ UNCHANGED <<releaseVars, venv, want, seen, outcome, before, updates>>

Check ==
  /\ command = "check"
  /\ \/ Exit("updated")
     \/ command' = "rollback" /\ UNCHANGED outcome
  /\ UNCHANGED <<releaseVars, venv, service, want, seen, before, updates>>

-----------------------------------------------------------------------------
\* rollback, of a failed check or of --rollback; current stays as it is.
Rollback ==
  /\ command = "rollback"
  /\ IF previous \in Versions /\ wheel[previous] # "absent"
     THEN command' = "reinstall" /\ want' = previous /\ UNCHANGED outcome
     ELSE Exit("failed") /\ UNCHANGED want
  /\ UNCHANGED <<releaseVars, venv, service, seen, before, updates>>

Reinstall == command = "reinstall" /\ install_wheel("restart_again")

RestartAgain ==
  /\ command = "restart_again" /\ Exit("rolled_back")
  /\ Restarted
  /\ UNCHANGED <<releaseVars, venv, want, seen, before, updates>>

UpdateNext ==
  \/ (\E v \in Versions : Started("download", v)) \/ Started("rollback", NoVersion)
  \/ Download \/ Transfer \/ installed_version \/ OpenPrevious \/ CopyCurrent
  \/ Install \/ OpenCurrent \/ WriteCurrent \/ restart_service \/ Check
  \/ Rollback \/ Reinstall \/ RestartAgain \/ Crash

UpdateSpec == UpdateInit /\ [][UpdateNext]_updateVars

-----------------------------------------------------------------------------
UpdateTypeOK ==
  /\ wheel \in [Versions -> {"absent", "cut", "whole"}]
  /\ {venv, service, want, seen} \subseteq Versions \union {NoVersion}
  /\ {current, previous} \subseteq Versions \union {NoVersion, Empty}
  /\ outcome \in {"none", "crashed", "failed", "updated", "rolled_back"}

\* An update from a release that was recorded as the current one to another one can be
\* taken back: once it has ended well, what ran before is what --rollback installs and
\* its wheel is whole; once it has been rolled back by a failed check, what ran before
\* is what is installed.
RollbackRestores ==
  before.settled /\ before.asked \notin {NoVersion, before.version} /\ command = "idle" =>
    /\ outcome = "updated" => /\ previous = before.version /\ wheel[previous] = "whole"
                              /\ current = before.asked /\ venv = current
    /\ outcome = "rolled_back" => venv = before.version
=============================================================================
