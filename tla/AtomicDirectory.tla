--------------------------- MODULE AtomicDirectory ---------------------------
(***************************************************************************)
(* What backup, restore and recovery promise their callers                 *)
(* (internal/controllerdb/database.go): the databases of the data          *)
(* directory are one value. It changes by a write of the controller to one *)
(* database or by a restore of a whole backup, and a backup is a copy of   *)
(* it. There are no files, journals or locks here, and no steps that fail  *)
(* half way: a call that fails changes nothing. The one concession is that *)
(* a power loss may take back a restore that has not returned yet.         *)
(***************************************************************************)
CONSTANTS
    DB,        \* the databases
    Contents   \* what a database may hold

VARIABLES
    now,       \* the databases, as whoever locks the directory next finds them
    kept,      \* what a power loss may make of them
    backups    \* the published backups

vars == <<now, kept, backups>>

Init ==
    /\ now \in [DB -> Contents]
    /\ kept = {now}
    /\ backups \subseteq [DB -> Contents]

Write ==
    \E d \in DB, content \in Contents :
        /\ now' = [now EXCEPT ![d] = content]
        /\ kept' = {now'}
        /\ UNCHANGED backups

Restore ==
    \E b \in backups :
        /\ now' = b
        /\ kept' = kept \cup {b}
        /\ UNCHANGED backups

\* A restore becomes durable.
Confirm ==
    /\ kept' = {now}
    /\ UNCHANGED <<now, backups>>

PowerLoss ==
    /\ now' \in kept
    /\ kept' = {now'}
    /\ UNCHANGED backups

Backup ==
    /\ backups' = backups \cup {now}
    /\ UNCHANGED <<now, kept>>

Next == Write \/ Restore \/ Confirm \/ PowerLoss \/ Backup

Spec == Init /\ [][Next]_vars

=============================================================================
