--------------------------- MODULE OperationManager ---------------------------
(***************************************************************************)
(* The controller's operation lock and operation log                       *)
(* (internal/server/operations.go).                                        *)
(*                                                                         *)
(* Every state-changing request goes through operationManager.Run: start   *)
(* admits one operation at a time and stores a "running" row, the          *)
(* operation's function runs outside the mutex, finish stores the result.  *)
(* Requests that find an operation running are recorded as "rejected".     *)
(* Each locked region is one action; between them other requests, Close,   *)
(* a crash of the process and its restart may come.                        *)
(*                                                                         *)
(* Entries are identified by their id: the in-memory slice is appended in  *)
(* id order and loaded in id order, so a function from ids to statuses     *)
(* carries the slice and the table alike. Type, message and timestamps do  *)
(* not influence control and are left out.                                 *)
(***************************************************************************)
EXTENDS Naturals, FiniteSets

CONSTANTS
    Callers,      \* request handlers that may call Run concurrently
    MaxEntries,   \* operationManager.maxEntries, the in-memory retention
    MaxID         \* bound on the ids handed out (a uint64 counter)

ASSUME RetentionAssumption == MaxEntries \in Nat \ {0}
ASSUME IDBoundAssumption == MaxID \in Nat

VARIABLES
    alive,            \* the controller process is up
    handle,           \* what m.store is: see Handles
    entries,          \* m.entries, by id
    nextID,           \* m.nextID
    running,          \* m.running
    degraded,         \* m.persistenceDegraded, shown by the health endpoint
    pendingTerminal,  \* m.pendingTerminal, by id
    store,            \* the rows of operations.db: the only durable state
    pc,               \* where each request handler is in Run
    opID,             \* the id a working handler was given by start
    outcome,          \* history: what fn returned, for operations of this process
    acked             \* history: ids for which Run returned nil, ever

volatile == <<entries, nextID, running, degraded, pendingTerminal>>
vars == <<alive, handle, entries, nextID, running, degraded, pendingTerminal,
          store, pc, opID, outcome, acked>>

Ids == 1..MaxID
Terminal == {"succeeded", "failed"}
Statuses == {"running", "rejected"} \cup Terminal

\* The store behind the manager: the SQLite table, the unavailable store put
\* there by Close, or the one put there when Load failed.
Handles == {"sqlite", "closed", "unloaded"}

NoRows == [i \in Ids |-> "absent"]
Pending == {i \in Ids : pendingTerminal[i] # "absent"}

(***************************************************************************)
(* Operators named X_Y are faulty variants of X, the plausible mistakes    *)
(* the properties are tested against; nothing uses them.                   *)
(***************************************************************************)

\* Trimming that treats the active operation like any other entry.
Trim_EvictsActive(e) ==
    [i \in Ids |->
        IF Cardinality({j \in Ids : e[j] # "absent" /\ j > i}) < MaxEntries
        THEN e[i] ELSE "absent"]

(***************************************************************************)
(* trimEntriesLocked: drop the oldest entries that are not running while   *)
(* more than MaxEntries are held. An entry stays when it is running or     *)
(* when fewer than MaxEntries entries are running or newer than it.        *)
(***************************************************************************)
Trim(e) ==
    [i \in Ids |->
        IF \/ e[i] = "running"
           \/ Cardinality({j \in Ids : /\ e[j] # "absent"
                                       /\ e[j] = "running" \/ j > i}) < MaxEntries
        THEN e[i] ELSE "absent"]

(***************************************************************************)
(* persistEntryLocked: two attempts to upsert one row. ok is whether one   *)
(* of them succeeded, which only the SQLite store can do.                  *)
(***************************************************************************)
CanPersist(ok) == ok => handle = "sqlite"

Upsert(rows, i, status, ok) == IF ok THEN [rows EXCEPT ![i] = status] ELSE rows

-----------------------------------------------------------------------------
(* Run: start *)

\* A start that does not look at m.running.
CanStart_Unguarded == TRUE

\* start's guard.
CanStart == ~running

\* start returns ErrOperationInProgress; Run goes on to reject.
StartBusy(c) ==
    /\ alive /\ pc[c] = "idle"
    /\ running
    /\ pc' = [pc EXCEPT ![c] = "rejecting"]
    /\ UNCHANGED <<alive, handle, volatile, store, opID, outcome, acked>>

\* A flush that forgets results instead of storing them.
FlushedRows_Dropped(flushed) == store

\* The table after the pending results in flushed were upserted.
FlushedRows(flushed) ==
    [i \in Ids |-> IF i \in flushed THEN pendingTerminal[i] ELSE store[i]]

\* pendingTerminal after they were deleted from it.
StillPending(flushed) ==
    [i \in Ids |-> IF i \in flushed THEN "absent" ELSE pendingTerminal[i]]

\* flushPendingTerminalLocked: pending rows are upserted in id order, up to the
\* first that fails. flushed is the set that made it to the store.
Flush(flushed) ==
    /\ flushed \subseteq Pending
    /\ \A i \in flushed, j \in Pending : j < i => j \in flushed
    /\ CanPersist(flushed # {})
    /\ store' = FlushedRows(flushed)
    /\ pendingTerminal' = StillPending(flushed)

\* start gives up because an earlier result still cannot be stored.
StartFlushFails(c) ==
    /\ alive /\ pc[c] = "idle"
    /\ CanStart
    /\ \E flushed \in SUBSET Pending : flushed # Pending /\ Flush(flushed)
    /\ degraded' = TRUE
    /\ UNCHANGED <<alive, handle, entries, nextID, running, pc, opID, outcome, acked>>

\* start gives up because its own "running" row cannot be stored: the entry is
\* taken back, the id is not.
StartPersistFails(c) ==
    /\ alive /\ pc[c] = "idle"
    /\ CanStart
    /\ nextID < MaxID
    /\ Flush(Pending)
    /\ nextID' = nextID + 1
    /\ degraded' = TRUE
    /\ UNCHANGED <<alive, handle, entries, running, pc, opID, outcome, acked>>

\* start admits the operation: earlier results are stored, then its own row.
StartAdmits(c) ==
    /\ alive /\ pc[c] = "idle"
    /\ CanStart
    /\ nextID < MaxID
    /\ CanPersist(TRUE)
    /\ nextID' = nextID + 1
    /\ store' = [FlushedRows(Pending) EXCEPT ![nextID + 1] = "running"]
    /\ pendingTerminal' = StillPending(Pending)
    /\ entries' = Trim([entries EXCEPT ![nextID + 1] = "running"])
    /\ running' = TRUE
    /\ pc' = [pc EXCEPT ![c] = "working"]
    /\ opID' = [opID EXCEPT ![c] = nextID + 1]
    /\ UNCHANGED <<alive, handle, degraded, outcome, acked>>

(* Run: reject *)

\* A rejection whose lost row goes unreported.
RejectDegrades_Silent(ok) == FALSE

\* persistEntryLocked reports a lost row even where its caller ignores the error.
RejectDegrades(ok) == ~ok

\* The rejection is recorded; that its row may not be stored is ignored.
Reject(c) ==
    /\ alive /\ pc[c] = "rejecting"
    /\ nextID < MaxID
    /\ nextID' = nextID + 1
    /\ \E ok \in BOOLEAN :
          /\ CanPersist(ok)
          /\ store' = Upsert(store, nextID + 1, "rejected", ok)
          /\ degraded' = (degraded \/ RejectDegrades(ok))
    /\ entries' = Trim([entries EXCEPT ![nextID + 1] = "rejected"])
    /\ pc' = [pc EXCEPT ![c] = "idle"]
    /\ UNCHANGED <<alive, handle, running, pendingTerminal, opID, outcome, acked>>

(* Run: fn has returned, finish *)

\* Parking the entry as it was before finish updated it; not parking it at all.
Parked_BeforeUpdate(id, status, ok) ==
    IF entries[id] = "absent" THEN pendingTerminal
    ELSE [pendingTerminal EXCEPT ![id] = IF ok THEN "absent" ELSE entries[id]]

\* A result that cannot be stored waits in pendingTerminal; a stored one does not.
\* An id that is not in memory any more is not parked.
Parked(id, status, ok) ==
    IF entries[id] = "absent" THEN pendingTerminal
    ELSE [pendingTerminal EXCEPT ![id] = IF ok THEN "absent" ELSE status]

\* Run returning nil although the result was not stored.
ReturnsNil_IgnoringStore(status, ok) == status = "succeeded"

\* Run returns nil when fn did and finish did.
ReturnsNil(status, ok) == status = "succeeded" /\ ok

\* Clearing m.running only on the path that stored the result.
Unlock_OnlyWhenStored(ok) == running' = (running /\ ~ok)

\* Every return of finish has cleared m.running.
Unlock(ok) == running' = FALSE

\* finish looks for the operation's entry, updates it and stores it; without the
\* entry, or without the row, it returns an error.
Finish(c, status) ==
    LET id == opID[c]
        found == entries[id] # "absent"
    IN  /\ alive /\ pc[c] = "working"
        /\ entries' = IF found THEN [entries EXCEPT ![id] = status] ELSE entries
        /\ \E ok \in BOOLEAN :
              /\ CanPersist(ok)
              /\ ok => found
              /\ store' = Upsert(store, id, status, ok)
              /\ pendingTerminal' = Parked(id, status, ok)
              /\ degraded' = (degraded \/ ~ok)
              /\ Unlock(ok)
              /\ acked' = IF ReturnsNil(status, ok) THEN acked \cup {id} ELSE acked
        /\ outcome' = [outcome EXCEPT ![id] = status]
        /\ pc' = [pc EXCEPT ![c] = "idle"]
        /\ UNCHANGED <<alive, handle, nextID, opID>>

-----------------------------------------------------------------------------
(* The rest of the manager's life *)

\* ListFiltered: a failing query marks the log degraded and falls back to memory.
ListQueryFails ==
    /\ alive /\ handle = "sqlite"
    /\ degraded' = TRUE
    /\ UNCHANGED <<alive, handle, entries, nextID, running, pendingTerminal,
                   store, pc, opID, outcome, acked>>

\* Close, at the end of the controller's shutdown; operations that outlived the
\* shutdown timeout still run. Over an unavailable store it changes nothing.
Close ==
    /\ alive /\ handle = "sqlite"
    /\ handle' = "closed"
    /\ UNCHANGED <<alive, volatile, store, pc, opID, outcome, acked>>

\* The process ends, by a crash or after its shutdown: memory is gone.
Exit ==
    /\ alive
    /\ alive' = FALSE
    /\ entries' = NoRows /\ pendingTerminal' = NoRows /\ outcome' = NoRows
    /\ nextID' = 0
    /\ running' = FALSE /\ degraded' = FALSE
    /\ pc' = [c \in Callers |-> "idle"]
    /\ opID' = [c \in Callers |-> 0]
    /\ UNCHANGED <<handle, store, acked>>

\* sqliteOperationStore.Load: rows left "running" by the previous process are
\* marked failed (operationInterruptedMsg).
Interrupted(rows) == [i \in Ids |-> IF rows[i] = "running" THEN "failed" ELSE rows[i]]

\* Counting the rows instead of taking the largest id.
MaxStoredID_Count(n, rows) == n = Cardinality({i \in Ids : rows[i] # "absent"})

\* The largest id in the table.
MaxStoredID(n, rows) ==
    /\ n \in {0} \cup {i \in Ids : rows[i] # "absent"}
    /\ \A i \in Ids : rows[i] # "absent" => i <= n

\* newOperationManager with a store that loads: the newest MaxEntries rows are
\* kept in memory and ids go on after the largest one stored.
LoadSucceeds ==
    /\ ~alive
    /\ alive' = TRUE
    /\ handle' = "sqlite"
    /\ store' = Interrupted(store)
    /\ entries' = Trim(store')
    /\ \E n \in 0..MaxID : MaxStoredID(n, store') /\ nextID' = n
    /\ UNCHANGED <<running, degraded, pendingTerminal, pc, opID, outcome, acked>>

\* newOperationManager with a store that does not load: an empty, degraded log
\* over the unavailable store. The UPDATE may have gone through before the error.
LoadFails ==
    /\ ~alive
    /\ alive' = TRUE
    /\ handle' = "unloaded"
    /\ store' \in {store, Interrupted(store)}
    /\ degraded' = TRUE
    /\ UNCHANGED <<entries, nextID, running, pendingTerminal, pc, opID, outcome, acked>>

-----------------------------------------------------------------------------
\* The controller is down over an empty log; its start is LoadSucceeds or LoadFails.
Init ==
    /\ alive = FALSE
    /\ handle = "closed"
    /\ entries = NoRows /\ pendingTerminal = NoRows /\ store = NoRows /\ outcome = NoRows
    /\ nextID = 0
    /\ running = FALSE /\ degraded = FALSE
    /\ pc = [c \in Callers |-> "idle"]
    /\ opID = [c \in Callers |-> 0]
    /\ acked = {}

Next ==
    \/ \E c \in Callers :
          \/ StartBusy(c) \/ StartFlushFails(c) \/ StartPersistFails(c) \/ StartAdmits(c)
          \/ Reject(c)
          \/ \E status \in Terminal : Finish(c, status)
    \/ ListQueryFails \/ Close \/ Exit
    \/ LoadSucceeds \/ LoadFails

Spec == Init /\ [][Next]_vars

\* Handlers return: an admitted operation's function ends and a rejected request
\* is recorded. Nothing makes a client send another request, and nothing makes
\* the controller restart.
FairSpec ==
    /\ Spec
    /\ \A c \in Callers : /\ WF_vars(\E status \in Terminal : Finish(c, status))
                          /\ WF_vars(Reject(c))

-----------------------------------------------------------------------------
(* Properties *)

\* Types of the manager's fields, the rows and the handlers.
TypeOK ==
    /\ alive \in BOOLEAN /\ running \in BOOLEAN /\ degraded \in BOOLEAN
    /\ handle \in Handles
    /\ entries \in [Ids -> Statuses \cup {"absent"}]
    /\ store \in [Ids -> Statuses \cup {"absent"}]
    /\ pendingTerminal \in [Ids -> Terminal \cup {"absent"}]
    /\ outcome \in [Ids -> Terminal \cup {"absent"}]
    /\ nextID \in 0..MaxID
    /\ pc \in [Callers -> {"idle", "rejecting", "working"}]
    /\ opID \in [Callers -> 0..MaxID]
    /\ acked \in SUBSET Ids

Working == {c \in Callers : pc[c] = "working"}

\* The operation lock is exact: m.running is set if and only if one handler is
\* between start and finish, and never are two (start, finish).
OperationsExclusive ==
    /\ running <=> Working # {}
    /\ \A c, d \in Working : c = d

\* However many rejections follow, trimming never evicts the active operation:
\* finish always meets its entry (trimEntriesLocked, finish).
ActiveFinishable ==
    \A c \in Working : opID[c] \in Ids /\ entries[opID[c]] = "running"

\* start's admission is exact: one operation at a time, and its entry is there to be
\* finished whatever else is recorded meanwhile (start, reject, trimEntriesLocked).
AdmissionExact == OperationsExclusive /\ ActiveFinishable

\* While the process lives no result is lost: what fn returned is in the row or
\* waits in pendingTerminal for the next start (finish, flushPendingTerminalLocked).
ResultsKept ==
    \A i \in Ids : outcome[i] # "absent" => outcome[i] \in {store[i], pendingTerminal[i]}

\* In a log that was loaded, a row that says "running" is the active operation or
\* one whose result is pending, and while an operation is active it is the only
\* such row: start stores earlier results before it admits the next operation.
RunningRowsExplained ==
    alive /\ handle # "unloaded" =>
        \A i \in Ids : store[i] = "running" =>
            IF running THEN \E c \in Working : opID[c] = i ELSE i \in Pending

\* An operation whose Run returned nil is "succeeded" in operations.db, and stays
\* so across shutdowns, crashes and restarts (finish, Load).
AckedIsDurable ==
    \A i \in acked : store[i] = "succeeded"

\* When the memory and the stored log disagree the health endpoint says so
\* (persistEntryLocked sets persistenceDegraded, which nothing clears).
DivergenceIsReported ==
    alive => \A i \in Ids :
        entries[i] # "absent" /\ entries[i] # store[i] => degraded

\* The log tells what happened: results are kept, "running" rows are explained, what a
\* caller was told is stored for good, and where memory and table differ the health
\* endpoint says so (finish, reject, flushPendingTerminalLocked, Load).
LogFaithful ==
    /\ ResultsKept
    /\ RunningRowsExplained
    /\ AckedIsDurable
    /\ DivergenceIsReported

RowStep ==
    \A i \in Ids : /\ store[i] \notin {"absent", "running"} => store'[i] = store[i]
                   /\ store[i] = "running" => store'[i] \in {"running"} \cup Terminal

\* A terminal or rejected row is never rewritten and no row is ever deleted: ids
\* are not reused, whatever was trimmed, burned or lost in a crash.
RowsFinal == [][RowStep]_vars

\* What the table says of an id together with what memory knows of it: a row that is left
\* "running" has been interrupted.
Told(i) ==
    IF store[i] # "running" THEN store[i]
    ELSE IF i \in {opID[c] : c \in Working} THEN "running"
    ELSE IF i \in Pending THEN pendingTerminal[i]
    ELSE "failed"

Log == INSTANCE OperationLog
    WITH log <- [i \in Ids |-> Told(i)], active <- {opID[c] : c \in Working},
         returned <- outcome, unsure <- Pending, confirmed <- acked

\* The manager with its table, its retries and its restarts is to its callers the plain log
\* of OperationLog: results wait outside the table for the next start, no admission passes
\* them, and what the end of the process costs is the result of the last operation alone.
ImplementsLog == Log!Spec

\* The lock is not held forever: every admitted operation gives it back, also
\* when its result cannot be stored (finish).
LockReleased == running ~> ~running

(***************************************************************************)
(* What the invariants above need to be inductive.                         *)
(***************************************************************************)

\* A handler at work owns the row and the entry start made for it.
ActiveOwnsRow ==
    \A c \in Working : /\ opID[c] \in Ids
                       /\ opID[c] <= nextID
                       /\ entries[opID[c]] = "running"
                       /\ store[opID[c]] = "running"
                       /\ outcome[opID[c]] = "absent"

\* A pending result belongs to a row that still says "running"; it is reported,
\* and no operation is admitted over it.
PendingSound ==
    \A i \in Ids : pendingTerminal[i] # "absent" =>
        store[i] = "running" /\ i <= nextID /\ degraded /\ ~running

\* Ids above nextID were never used in a log that was loaded.
FreshIDs ==
    /\ \A i \in Ids : outcome[i] # "absent" => i <= nextID
    /\ alive /\ handle = "sqlite" => \A i \in Ids : i > nextID => store[i] = "absent"

\* A process that is down has no memory; one whose log did not load never admits
\* an operation.
NothingWithoutLog ==
    /\ ~alive => entries = NoRows /\ outcome = NoRows /\ nextID = 0
    /\ ~alive \/ handle = "unloaded" => pendingTerminal = NoRows /\ ~running

IInv ==
    /\ TypeOK
    /\ OperationsExclusive
    /\ ActiveOwnsRow
    /\ PendingSound
    /\ FreshIDs
    /\ NothingWithoutLog
    /\ ResultsKept
    /\ RunningRowsExplained
    /\ AckedIsDurable
    /\ DivergenceIsReported

=============================================================================
