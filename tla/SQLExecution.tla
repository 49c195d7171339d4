----------------------------- MODULE SQLExecution -----------------------------
(***************************************************************************)
(* Running SQL for the console: the executor                               *)
(* (internal/server/sql_execution.go) and the handler that calls it        *)
(* (server.go), and the execution history (sql_query_library.go).          *)
(*                                                                         *)
(* Each execution has a Postgres session of its own, to which it sends     *)
(* BEGIN, one statement and, if it may write, COMMIT. The session lives    *)
(* its own life: it works on what was sent while the client has given up,  *)
(* notices late that the client is gone, and its answers may be lost. The  *)
(* handler must say what became of the write from what it has seen, and    *)
(* write that to the history before it answers.                            *)
(*                                                                         *)
(* Rows, columns and SQL texts are left out, and requests refused before   *)
(* the executor is called. What a session does is Postgres's and pgx's,    *)
(* modelled from how the code uses them.                                   *)
(***************************************************************************)
EXTENDS Naturals, Sequences, FiniteSets, SequencesExt

CONSTANTS
    Writes,      \* executions with writes allowed
    Reads,       \* read-only executions
    Retention,   \* SQLHistoryRetentionLimit
    MaxFaults    \* bound on failing calls, lost connections, crashes of the controller

ASSUME DisjointAssumption == Writes \cap Reads = {}
ASSUME RetentionAssumption == Retention \in Nat \ {0}
ASSUME BoundAssumption == MaxFaults \in Nat

Execs == Writes \cup Reads

VARIABLES
    exec,      \* each execution: where it is, its answer, what it has heard
    session,   \* its session: the transaction, what was sent, is the client there
    history,   \* the table sql_execution_history
    library,   \* the store of the query library: "sqlite", or "unavailable", it did not open
    bad,       \* sqlQueryLibrary.bad, the degraded state health reports
    faults,    \* faults so far
    stored     \* every history row ever stored; only the properties read it

vars == <<exec, session, history, library, bad, faults, stored>>

Definite == {"not_found", "endpoint_unavailable", "timeout", "canceled", "sql_error",
             "result_limit", "commit_failed"}
Codes == Definite \cup {"none", "succeeded", "commit_outcome_unknown"}

Fault ==
    /\ faults < MaxFaults
    /\ faults' = faults + 1

(***************************************************************************)
(* Operators named X_Y are faulty variants of X, the plausible mistakes    *)
(* the properties are tested against; nothing uses them.                   *)
(***************************************************************************)

-----------------------------------------------------------------------------
(* The client's side: Execute and executeTransaction *)

At(x, pc) == exec[x].pc = pc

Goto(x, pc) == exec' = [exec EXCEPT ![x].pc = pc]

\* Execute returns; its deferred calls come first.
Return(x, code) == exec' = [exec EXCEPT ![x] = [@ EXCEPT !.pc = "cleanup", !.code = code]]

Send(x, message) == session' = [session EXCEPT ![x].sent = message]

others == <<history, library, bad, stored>>

\* connect and BeginTx. What fails may have begun a transaction all the same.
Connect(x) ==
    /\ At(x, "connect")
    /\ Goto(x, "query")
    /\ session' = [session EXCEPT ![x] = [@ EXCEPT !.tx = "open", !.client = TRUE]]
    /\ UNCHANGED <<others, faults>>

ConnectFails(x) ==
    /\ At(x, "connect")
    /\ Fault
    /\ \E code \in {"not_found", "endpoint_unavailable", "timeout", "sql_error"} :
          Return(x, code)
    /\ \E tx \in {"none", "open"} :
          session' = [session EXCEPT ![x] = [@ EXCEPT !.tx = tx, !.client = tx = "open"]]
    /\ UNCHANGED others

SendQuery(x) ==
    /\ At(x, "query")
    /\ Goto(x, "rows")
    /\ Send(x, "query")
    /\ UNCHANGED <<others, faults>>

\* Only what may write is committed. A write whose rows exceed the limits is not, nor one
\* that has a row whose values cannot be read.
ReadRows(x) ==
    /\ At(x, "rows")
    /\ exec[x].heard = "rows"
    /\ \/ x \in Reads /\ Return(x, "succeeded")
       \/ x \in Writes /\ Goto(x, "commit")
       \/ x \in Writes /\ Return(x, "result_limit")
       \/ Return(x, "sql_error")
    /\ UNCHANGED <<session, others, faults>>

QueryFails(x) ==
    /\ At(x, "rows")
    /\ exec[x].heard \in {"error", "lost"}
    /\ Return(x, "sql_error")
    /\ UNCHANGED <<session, others, faults>>

\* The request's context is done: the HTTP client has gone.
Cancel(x) ==
    /\ exec[x].pc \in {"query", "rows", "commit"}
    /\ Fault
    /\ Return(x, "canceled")
    /\ UNCHANGED <<session, others>>

SendCommit(x) ==
    /\ At(x, "commit")
    /\ exec' = [exec EXCEPT ![x] = [@ EXCEPT !.pc = "await", !.heard = "none"]]
    /\ Send(x, "commit")
    /\ UNCHANGED <<others, faults>>

\* Any failure of the commit is the deadline's or the client's.
CommitCode_Timeout(heard) ==
    CASE heard = "committed" -> "succeeded"
      [] heard = "refused" -> "commit_failed"
      [] OTHER -> "timeout"

\* classifySQLCommitError: only an answer from Postgres says that it rolled back.
CommitCode(heard) ==
    CASE heard = "committed" -> "succeeded"
      [] heard = "refused" -> "commit_failed"
      [] OTHER -> "commit_outcome_unknown"

CommitAnswered(x) ==
    /\ At(x, "await")
    /\ exec[x].heard # "none"
    /\ Return(x, CommitCode(exec[x].heard))
    /\ UNCHANGED <<session, others, faults>>

\* The commit has no deadline of its own.
CommitTimesOut_Never(x) == FALSE /\ UNCHANGED vars

\* commitTimeout, or the request's context.
CommitTimesOut(x) ==
    /\ At(x, "await")
    /\ exec[x].heard = "none"
    /\ Return(x, CommitCode("none"))
    /\ UNCHANGED <<session, others, faults>>

\* rollbackSQLTx and closeSQLConnection, bounded by the cleanup timeout.
Cleanup(x) ==
    /\ At(x, "cleanup")
    /\ Goto(x, "record")
    /\ session' = [session EXCEPT ![x].client = FALSE]
    /\ UNCHANGED <<others, faults>>

-----------------------------------------------------------------------------
(* The session's side *)

Tell(x, pc, what) ==
    exec' = IF session[x].client /\ At(x, pc) THEN [exec EXCEPT ![x].heard = what] ELSE exec

\* The statement runs; errors and the statement timeout leave a failed transaction.
ServerQuery(x) ==
    /\ session[x].tx = "open"
    /\ session[x].sent = "query"
    /\ \E ok \in BOOLEAN :
        /\ session' = [session EXCEPT ![x] = [@ EXCEPT !.sent = "none", !.tx = IF ok THEN "open" ELSE "failed"]]
        /\ Tell(x, "rows", IF ok THEN "rows" ELSE "error")
        /\ IF ok THEN UNCHANGED faults ELSE Fault
    /\ UNCHANGED others

\* A commit that was sent is worked on whether or not the client still waits. A deferred
\* constraint may refuse it.
ServerCommit(x) ==
    /\ session[x].tx = "open"
    /\ session[x].sent = "commit"
    /\ \/ /\ session' = [session EXCEPT ![x] = [@ EXCEPT !.sent = "none", !.tx = "committed"]]
          /\ Tell(x, "await", "committed")
          /\ UNCHANGED faults
       \/ /\ Fault
          /\ session' = [session EXCEPT ![x] = [@ EXCEPT !.sent = "none", !.tx = "aborted"]]
          /\ Tell(x, "await", "refused")
    /\ UNCHANGED others

\* The session ends with its client; what was sent last may never have arrived.
ServerEnds(x) ==
    /\ ~session[x].client
    /\ session[x].tx \in {"open", "failed"}
    /\ session' = [session EXCEPT ![x] = [@ EXCEPT !.sent = "none", !.tx = "aborted"]]
    /\ UNCHANGED <<exec, others, faults>>

\* The compute stops, or the connection through the branch endpoint breaks: also after
\* the transaction has ended and before its answer has come.
ConnectionLost(x) ==
    /\ session[x].client
    /\ exec[x].pc \in {"query", "rows", "commit", "await"}
    /\ exec[x].heard # "lost"
    /\ Fault
    /\ LET pc == CASE At(x, "query") -> "rows"
                   [] At(x, "commit") -> "await"
                   [] OTHER -> exec[x].pc
       IN  exec' = [exec EXCEPT ![x] = [@ EXCEPT !.heard = "lost", !.pc = pc]]
    /\ LET s == [session[x] EXCEPT !.client = FALSE]
           ended == IF s.tx = "committed" THEN "committed" ELSE "aborted"
       IN  session' \in {[session EXCEPT ![x] = s],
                         [session EXCEPT ![x] = [s EXCEPT !.sent = "none", !.tx = ended]]}
    /\ UNCHANGED others

-----------------------------------------------------------------------------
(* The history *)

\* Every error is a failure.
HistoryStatus_Failed(code) == IF code = "succeeded" THEN "succeeded" ELSE "failed"

\* sqlExecutionHistoryStatus.
HistoryStatus(code) ==
    CASE code = "succeeded" -> "succeeded"
      [] code = "commit_outcome_unknown" -> "outcome_unknown"
      [] OTHER -> "failed"

\* The rows that come first stay.
Prune_Oldest(rows) == SubSeq(rows, 1, IF Len(rows) < Retention THEN Len(rows) ELSE Retention)

\* One row too many stays.
Prune_OneMore(rows) ==
    IF Len(rows) > Retention THEN SubSeq(rows, Len(rows) - Retention, Len(rows)) ELSE rows

\* pruneSQLExecutionHistory, in the transaction of the insert.
Prune(rows) ==
    IF Len(rows) > Retention THEN SubSeq(rows, Len(rows) - Retention + 1, Len(rows)) ELSE rows

\* The health check shows how the last record went.
Mark_Latest(ok) == ~ok

\* markResult: every error counts, the recording's own deadline as well, for as long as
\* the process runs.
Mark(ok) == bad \/ ~ok

\* recordSQLExecutionHistory, whose errors are only logged, then the answer. A failed
\* call of a store that opened may have stored the row.
Record(x) ==
    /\ At(x, "record")
    /\ Goto(x, "done")
    /\ LET row == [exec |-> x, status |-> HistoryStatus(exec[x].code)]
           Stores == history' = Prune(Append(history, row)) /\ stored' = Append(stored, row)
       IN
       \/ /\ library = "sqlite"
          /\ Stores
          /\ bad' = Mark(TRUE)
          /\ UNCHANGED faults
       \/ /\ library = "sqlite"
          /\ Fault
          /\ bad' = Mark(FALSE)
          /\ Stores \/ UNCHANGED <<history, stored>>
       \/ /\ library = "unavailable"
          /\ bad' = Mark(FALSE)
          /\ UNCHANGED <<history, stored, faults>>
    /\ UNCHANGED <<session, library>>

-----------------------------------------------------------------------------

\* A library that does not open leaves the controller running without it, degraded.
Libraries == {"sqlite", "unavailable"}

Degraded(l) == l = "unavailable"

\* The controller is killed and started again: requests end without an answer, or were
\* answered by a process that is gone; those still to come go to the new one; sessions
\* lose their client; opening the library prunes.
Crash ==
    /\ Fault
    /\ exec' = [x \in Execs |->
                    IF At(x, "connect") THEN exec[x] ELSE [exec[x] EXCEPT !.pc = "gone"]]
    /\ session' = [x \in Execs |-> [session[x] EXCEPT !.client = FALSE]]
    /\ library' \in Libraries
    /\ bad' = Degraded(library')
    /\ history' = IF library' = "sqlite" THEN Prune(history) ELSE history
    /\ UNCHANGED stored

Init ==
    /\ exec = [x \in Execs |-> [pc |-> "connect", code |-> "none", heard |-> "none"]]
    /\ session = [x \in Execs |-> [tx |-> "none", sent |-> "none", client |-> FALSE]]
    /\ history = << >>
    /\ library \in Libraries
    /\ bad = Degraded(library)
    /\ faults = 0
    /\ stored = << >>

ClientStep(x) ==
    \/ Connect(x) \/ SendQuery(x) \/ ReadRows(x) \/ QueryFails(x) \/ SendCommit(x)
    \/ CommitAnswered(x) \/ CommitTimesOut(x) \/ Cleanup(x) \/ Record(x)

Next ==
    \/ \E x \in Execs :
          \/ ClientStep(x) \/ ConnectFails(x) \/ Cancel(x)
          \/ ServerQuery(x) \/ ServerCommit(x) \/ ServerEnds(x) \/ ConnectionLost(x)
    \/ Crash

Spec == Init /\ [][Next]_vars

\* The handler's goroutine runs on: connecting, committing, cleaning up and recording each
\* have a deadline in the code. BEGIN and the query wait with the request's context, which
\* has none: that Postgres answers them, the query within statement_timeout, is assumed.
\* Nothing is assumed of the commit, which waits for the safekeepers.
FairSpec == Spec /\ \A x \in Execs : WF_vars(ClientStep(x)) /\ WF_vars(ServerQuery(x))

-----------------------------------------------------------------------------
(* Properties *)

PCs == {"connect", "query", "rows", "commit", "await", "cleanup", "record", "done", "gone"}
Heard == {"none", "rows", "error", "committed", "refused", "lost"}
Transactions == {"none", "open", "failed", "committed", "aborted"}
Messages == {"none", "query", "commit"}
Rows == [exec : Execs, status : {"succeeded", "outcome_unknown", "failed"}]

\* The variables have the values the code gives them.
TypeOK ==
    /\ exec \in [Execs -> [pc : PCs, code : Codes, heard : Heard]]
    /\ session \in [Execs -> [tx : Transactions, sent : Messages, client : BOOLEAN]]
    /\ history \in Seq(Rows) /\ Len(history) <= Retention
    /\ library \in Libraries
    /\ bad \in BOOLEAN
    /\ faults \in 0..MaxFaults
    /\ stored \in Seq(Rows)

Committed(x) == session[x].tx = "committed"

\* An execution's answer is true, when it is given and ever after: a write that is said
\* to have failed, timed out, been cancelled or rolled back is not committed, also not by
\* a commit still under way, and one that is said to have succeeded is. What the history
\* says of it, which may be read long after the answer, is true as well.
AnswersTrue ==
    /\ \A x \in Execs :
        /\ exec[x].code \in Definite => ~Committed(x)
        /\ exec[x].code = "succeeded" /\ x \in Writes => Committed(x)
    /\ \A i \in DOMAIN stored :
        /\ stored[i].status = "failed" => ~Committed(stored[i].exec)
        /\ stored[i].status = "succeeded" /\ stored[i].exec \in Writes
              => Committed(stored[i].exec)

\* The history holds the newest rows, across failures and restarts.
HistoryNewest ==
    IsSuffix(history, stored) /\ (Len(history) = Retention \/ history = stored)

\* An execution that was answered and was never stored shows in the health check, until
\* the process that answered it goes down: no later success hides it.
LossReported ==
    \A x \in Execs : At(x, "done") => bad \/ \E i \in DOMAIN stored : stored[i].exec = x

\* Every execution is answered, also when Postgres never answers a commit, unless the
\* controller goes down.
ExecutionAnswered == \A x \in Execs : <>(exec[x].pc \in {"done", "gone"})

=============================================================================
