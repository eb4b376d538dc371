---------------------------- MODULE MCRunReport -----------------------------
(***************************************************************************)
(* Label files: windows that touch, windows that meet and whose order      *)
(* decides, and a label that counts from the first frame beside one of     *)
(* another target.                                                         *)
(***************************************************************************)
EXTENDS RunReport

Label(target, rel, from, to, expected) ==
  [target |-> target, rel |-> rel, from |-> from, to |-> to, expected |-> expected]

SomeScenarios ==
  {<<Label("valve", FALSE, 0, 2, "COHERENT"), Label("valve", FALSE, 2, 3, "INCOHERENT"),
     Label("valve", FALSE, 3, 4, "COHERENT")>>,
   <<Label("valve", FALSE, 2, 4, "INCOHERENT"), Label("valve", FALSE, 0, 3, "COHERENT")>>,
   <<Label("pump", FALSE, 0, 4, "COHERENT"), Label("valve", TRUE, 1, 2, "INCOHERENT")>>}
=============================================================================
