--------------------------- MODULE MCObserverRun ----------------------------
(***************************************************************************)
(* The command lines _Run is checked on: what each combination of --learn, *)
(* --grammar, --learn-until-stable and --resume-from makes of the windows. *)
(***************************************************************************)
EXTENDS ObserverRun

Line(learn, file, stable, saved) ==
  [learn |-> learn, grammar |-> file, until_stable |-> stable, saved |-> saved]

\* observe, learn for the whole window, evaluate
PlainLines == {Line(TRUE, FALSE, FALSE, {})}

\* the others, without a silo that is resumed beside one that learns
OtherLines ==
  {Line(FALSE, FALSE, FALSE, {}),       \* nothing to do
   Line(FALSE, TRUE, FALSE, {}),        \* evaluate on a file
   Line(TRUE, TRUE, FALSE, {}),         \* learn to a file
   Line(TRUE, TRUE, TRUE, {}),
   Line(TRUE, FALSE, TRUE, {}),         \* learn until stable
   Line(FALSE, FALSE, FALSE, Sources)}  \* every silo resumed

\* --resume-from a run that knew some of the silos
ResumeLines == {Line(TRUE, FALSE, FALSE, S) : S \in (SUBSET Sources) \ {{}}}

AllLines == PlainLines \union OtherLines \union ResumeLines
=============================================================================
