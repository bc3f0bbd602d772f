----------------------------- MODULE MCTraining -----------------------------
(* Instances of Training for TLC: the constants are given in the .cfg files. *)
EXTENDS Training, TLC

Symmetry == Permutations(Workers) \union Permutations(Containers)

=============================================================================
