------------------------------ MODULE MCReplay -------------------------------
(***************************************************************************)
(* Two sources, whose files hold up to three lines: in time order, with a  *)
(* gap as long as both windows, without a time on one line, and one file   *)
(* that goes back in time.                                                 *)
(***************************************************************************)
EXTENDS Replay, MCObserverRun

CONSTANTS s1, s2

Listed == <<s1, s2>>

Files ==
  {<<>>, <<0>>, <<1>>, <<0, 1>>, <<0, 2, 3>>, <<0, 4>>, <<1, 1, 2>>,
   <<0, Unstamped, 2>>, <<1, Unstamped>>, <<0, 2, 1, 2>>,
   <<Unstamped, 1>>}
=============================================================================
