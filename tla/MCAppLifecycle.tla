--------------------------- MODULE MCAppLifecycle ---------------------------
(* Instances of the app lifecycle for TLC.                                 *)
EXTENDS AppProperties, TLC

\* Jobs are interchangeable: safety runs only.
JobSymmetry == Permutations(Jobs)
=============================================================================
