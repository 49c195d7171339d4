----------------------------- MODULE OperationLog -----------------------------
(***************************************************************************)
(* What the operation manager promises its callers and the readers of the  *)
(* log (internal/server/operations.go): one operation at a time is         *)
(* admitted, what happened is written down in the order it was asked for,  *)
(* and a result is the one the operation's function returned. There are no *)
(* retries, pending results or trimming here, and no table that can fail.  *)
(* The concession is that the end of the process may still take back the   *)
(* result of the last operation, if its caller was told that it could not  *)
(* be stored; an operation it interrupts has failed.                       *)
(***************************************************************************)
EXTENDS Naturals

CONSTANT Ids   \* the ids of operations and rejections

VARIABLES
    log,        \* what the log says of each id
    active,     \* the operation under way: no id or one
    returned,   \* what the functions of this process's operations returned
    unsure,     \* the result that is not stored yet: no id or one
    confirmed   \* the operations whose callers were told that they succeeded

vars == <<log, active, returned, unsure, confirmed>>

Nothing == [i \in Ids |-> "absent"]

Init ==
    /\ log = Nothing /\ returned = Nothing
    /\ active = {} /\ unsure = {} /\ confirmed = {}

\* Ids grow.
Newest(i) == \A j \in Ids : log[j] # "absent" => j < i

\* No operation is admitted beside another, nor over a result that is not stored.
Admit(i) ==
    /\ active = {}
    /\ Newest(i)
    /\ log' = [log EXCEPT ![i] = "running"]
    /\ active' = {i}
    /\ unsure' = {}
    /\ UNCHANGED <<returned, confirmed>>

Refuse(i) ==
    /\ Newest(i)
    /\ log' = [log EXCEPT ![i] = "rejected"]
    /\ UNCHANGED <<active, returned, unsure, confirmed>>

\* The caller learns of a success if and only if it is stored.
End(i, status) ==
    /\ active = {i}
    /\ active' = {}
    /\ log' = [log EXCEPT ![i] = status]
    /\ returned' = [returned EXCEPT ![i] = status]
    /\ \/ /\ unsure' = {}
          /\ confirmed' = IF status = "succeeded" THEN confirmed \cup {i} ELSE confirmed
       \/ /\ unsure' = {i}
          /\ UNCHANGED confirmed

\* The result that waited is stored.
Settle ==
    /\ unsure' = {}
    /\ UNCHANGED <<log, active, returned, confirmed>>

\* The process ends, at any time.
Die ==
    /\ log' = [i \in Ids |-> IF i \in active \cup unsure THEN "failed" ELSE log[i]]
    /\ returned' = Nothing
    /\ active' = {} /\ unsure' = {}
    /\ UNCHANGED confirmed

Next ==
    \/ \E i \in Ids : \/ Admit(i) \/ Refuse(i)
                      \/ \E status \in {"succeeded", "failed"} : End(i, status)
    \/ Settle \/ Die

Spec == Init /\ [][Next]_vars

=============================================================================
