-------------------------- MODULE MCBranchLifecycle --------------------------
(* Main and two more branches. *)
EXTENDS BranchLifecycle, TLC

CONSTANTS main, a, b

\* The names other than main are used alike.
Symmetry == Permutations({a, b})

Old(state, parent, tl, pub) ==
    [state |-> state, parent |-> parent, tl |-> tl, pw |-> pub, pub |-> pub]

\* Branches without attachments, whatever their parents; and main with a branch that is
\* published or deleted and perhaps a child of that one.
MCLegacyFiles ==
    {rows \in [Names -> {Absent} \cup {Old("active", p, 0, FALSE) : p \in Names}] :
        Loadable(rows) /\ rows[main].parent = main}
    \cup
    {[n \in Names |->
        CASE n = main -> Old("active", main, 1, TRUE)
          [] n = x -> Old(IF deleted THEN "deleted" ELSE "active", main, 2, ~deleted)
          [] OTHER -> IF child THEN Old("active", x, 0, FALSE) ELSE Absent] :
     x \in {a, b}, deleted \in BOOLEAN, child \in BOOLEAN}
=============================================================================
