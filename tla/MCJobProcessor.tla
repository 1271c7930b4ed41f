--------------------------- MODULE MCJobProcessor ---------------------------
(* Instances of JobProcessor for TLC: K loop slots on each node. *)
EXTENDS JobRefinement, TLC

CONSTANT K

MCLoop == Owner \X (1..K)

MCNodeOf == [w \in MCLoop |-> w[1]]

Symmetric == Permutations(Owner) \cup Permutations(Key)
=============================================================================
