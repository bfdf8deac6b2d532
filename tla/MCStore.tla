------------------------------- MODULE MCStore -------------------------------
(* Instances of Store for TLC. *)
EXTENDS Store, TLC

\* Sound: no definition tells two processes apart.
ModelSymmetry == Permutations(Process)
=============================================================================
