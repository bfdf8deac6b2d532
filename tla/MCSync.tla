------------------------------- MODULE MCSync -------------------------------
(* Instances of Sync for TLC. *)
EXTENDS Sync, TLC

\* Sound where BigTable is empty: no definition tells two tables or two shippers apart.
ModelSymmetry == Permutations(Shipper) \cup Permutations(Table)
=============================================================================
