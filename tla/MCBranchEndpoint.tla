--------------------------- MODULE MCBranchEndpoint ---------------------------
(* Two connections, two timers. *)
EXTENDS BranchEndpoint, TLC

CONSTANTS c1, c2, i1, i2
Symmetry == Permutations({c1, c2}) \cup Permutations({i1, i2})
=============================================================================
