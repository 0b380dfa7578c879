--------------------------- MODULE MCJobLifecycle ---------------------------
(***************************************************************************)
(* Instances of JobLifecycle for TLC.                                      *)
(***************************************************************************)
EXTENDS JobImplementsContract, TLC

\* Job identifiers are random strings and handler threads are alike: both sets
\* are symmetric in JobLifecycle.  Used by the safety runs only.
Symmetry == Permutations(Jobs) \cup Permutations(Handlers)
=============================================================================
