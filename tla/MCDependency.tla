---------------------------- MODULE MCDependency ----------------------------
(* Instances of Dependency for TLC. *)
EXTENDS Dependency, TLC

(* Addresses are only compared for equality. *)
Symmetry == Permutations(Accessor)
=============================================================================
