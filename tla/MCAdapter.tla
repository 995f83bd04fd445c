------------------------------ MODULE MCAdapter ------------------------------
(* Small instances of Adapter; symmetry for the runs without liveness. *)
EXTENDS Adapter, TLC

ClientSymmetry == Permutations(Clients)
ValueSymmetry == Permutations(Values)
Symmetry == ClientSymmetry \cup ValueSymmetry
=============================================================================
