---------------------------- MODULE MCEventPath -----------------------------
(***************************************************************************)
(* The path of the traffic before a silo judges it: from the lines of one  *)
(* source to its events (sources), and from the events of all sources to   *)
(* the silos and the event stream (silos).                                 *)
(***************************************************************************)
EXTENDS MCSourceFeed, MCSilos

VARIABLE focus

pathVars == <<focus, feedVars, silosVars>>

PathInit ==
  /\ FeedInit /\ SilosInit
  /\ focus \in {"sources", "silos"}
  /\ focus = "sources" => settings = CHOOSE c \in Declared : TRUE
  /\ focus = "silos" => layer = "s7comm" /\ emptyTokens

PathNext ==
  \/ focus = "sources" /\ FeedNext /\ UNCHANGED <<focus, silosVars>>
  \/ focus = "silos" /\ SilosNext /\ UNCHANGED <<focus, feedVars>>

PathSpec == PathInit /\ [][PathNext]_pathVars

-----------------------------------------------------------------------------
\* The types of what the extractors, the silos, the emitter and the reader keep.
PathTypeOK == FeedTypeOK /\ SilosTypeOK
=============================================================================
