-------------------------- MODULE MCPrimaryEndpoint --------------------------
(* Two branches, two timelines and one reader beside the operation. *)
EXTENDS PrimaryEndpoint, TLC

CONSTANTS main, dev, t1, t2, r1

\* Initial states, steps and properties treat the timelines alike.
Symmetry == Permutations({t1, t2})

\* Main differs from other branches only where there is no selection: with Unadopted
\* FALSE there always is one.
BranchSymmetry == Symmetry \cup Permutations({main, dev})
=============================================================================
