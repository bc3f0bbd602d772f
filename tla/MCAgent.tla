------------------------------ MODULE MCAgent ------------------------------
(* Instances of Agent for TLC: the constants are given in the .cfg files.   *)
EXTENDS Agent, TLC

CpuSymmetry == Permutations(Cpus)
Symmetry == CpuSymmetry \union Permutations(Containers \ Unmatched)

\* Two containers whose names differ only in characters that
\* sanitizeContainerId replaces.
SameSafeId == [c \in Containers |-> "safe"]

=============================================================================
