---------------------------- MODULE MCModelStore ----------------------------
(* Instances of ModelStore for TLC: two containers have the same file name,  *)
(* as "a/b" and "a_b" do, and the third one has its own.                     *)
EXTENDS ModelStore, TLC

CONSTANTS slash, under, other, shared, own

SafeNames == (slash :> shared) @@ (under :> shared) @@ (other :> own)

Trainings == (shared :> 2) @@ (own :> 1)

Symmetry == Permutations(Processes) \union Permutations({slash, under})

=============================================================================
