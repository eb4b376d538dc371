------------------------------ MODULE MCUpload ------------------------------
(***************************************************************************)
(* Three captures of which two have the same name, and a session that is   *)
(* archived with one of them, with one that was added later, or with the   *)
(* two of one name.                                                        *)
(***************************************************************************)
EXTENDS Upload

CONSTANTS a, b, c

Names == (a :> "x") @@ (b :> "x") @@ (c :> "y")

Sessions == {<<a>>, <<a, c>>, <<a, b>>}
=============================================================================
