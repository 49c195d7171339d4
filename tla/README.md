# A verification of neon-selfhost's controller

neon-selfhost runs Neon (pageserver, safekeeper, compute) on one host under a
Go controller. The controller keeps branches, starts and stops Postgres
computes through Docker, proxies client connections to them, and keeps its own
state in two SQLite databases. These modules model the parts of the controller
where order, failure and concurrency decide whether it is right.

## 1. Inventory

| Component (source) | State it keeps | Operations | Who it talks to |
|---|---|---|---|
| Operation manager (`internal/server/operations.go`) | in-memory log, `running`, ids, unsaved results, `operations.db` | `Run` (start, finish, reject), `ListFiltered`, `Close`, load | every state-changing HTTP handler runs inside `Run` |
| Controller database (`internal/controllerdb`) | data directory: `controller.db`, `operations.db`, restore journal, rollback directories, `flock` | `AcquireLock`, `Restore`, `Backup`, recovery | the controller at startup, `controller-db` by hand |
| Primary endpoint (`primary_endpoint.go`, `primary_endpoint_docker.go`) | selected branch, attachments, generation, transition flag, block, reservation; selection file | start, stop, switch, connection, route admission, adoption | Docker, the compute's start script (through two files), branch endpoints |
| Compute start script, writer lease (`compute_wrapper/shell`) | applied marker, lease file of a timeline | one run per container start | pageserver, the primary endpoint (marker) |
| Branch endpoints (`branch_endpoints.go`) | listeners, connection counts, idle timers, a mutex per branch, containers | publish, unpublish, refresh, accept and proxy, idle stop, close | primary endpoint (routes), Docker, branch store |
| Branch store (`internal/branch`) | branches by name, `controller.db` | create, delete, set attachment, password, endpoint | handlers, resolver, branch endpoints |
| Attachment resolver (`branch_attachment.go`) | tenants and timelines on the pageserver | resolve, restore, reset, delete created | pageserver HTTP API, branch store |
| HTTP handlers (`server.go`) | none | create, restore, reset, delete, publish, start, switch, ... with compensation | all of the above |
| SQL execution (`sql_execution.go`) | one Postgres session and transaction per request | connect, begin, execute, commit, cancel, clean up, answer | Postgres through the branch endpoint's container, the query library |
| SQL query library (`sql_query_library.go`) | saved queries, execution history, a degraded flag | create, change, delete, record and prune | `controller.db` |
| Schema browser (`schema_browser.go`) | none: one read-only transaction per request | list, catalog, detail | Postgres |
| Web console (`ui.go`) | the page: selection, connection, tables, editor, flags, epochs | handlers and async functions | the HTTP API |
| Controller process (`cmd/controller/main.go`) | | start; HTTP shutdown, then close of endpoints, log, store, lock | all |
| Configuration, preflight, migrations, archive validation, scripts | none | checks, once | |

What is hard, and what has to hold:

* **Operation manager.** Each handler passes through two locked regions with
  its work in between; the store may fail in either, the manager may be closed
  meanwhile, the process may die. At most one operation runs; no result is lost
  while the process lives; what was acknowledged is stored for good; ids are
  never reused; the lock is always given back.
* **Controller database.** Two files cannot be replaced in one step. Any call
  may fail, the process may be killed and the machine lose power, also during
  recovery and again during the next. Restore is all or nothing, and nobody who
  holds the lock sees anything else.
* **Primary endpoint.** Goroutines that admit connections, a poll that adopts
  what the compute serves, one operation at a time, and a container that
  restarts when it likes; state is read in several steps without a common lock.
  A connection that is promised a branch must reach that branch's timeline, and
  what is on disk must be what the controller believes.
* **Branch endpoints.** Counting, draining and idle-stopping race with accepts;
  a compute must never run on a timeline that the primary serves.
* **Handlers over store and resolver.** Several stores change in sequence;
  each step may fail, so that compensation must bring them back together.
* **SQL execution.** A commit whose answer is lost or late is neither committed nor
  rolled back for the client; the answer, the history and the health check must
  not claim more than is known, and every request must be answered.
* **Console.** One thread, but any number of requests under way whose answers come
  in any order, while the user selects something else: what is shown, what is saved and
  above all what a write is sent to must be what the user was looking at.

## 2. Modules

| Module | What it is |
|---|---|
| `OperationManager`, `OperationManagerProofs` | operation lock, log and store; proofs, with that of the refinement |
| `OperationLog` | what callers and readers of the log are promised: the abstract specification, which `OperationManager` implements |
| `ControllerDatabase`, `ControllerDatabaseProofs` | lock, restore, journal, recovery and backup on a file system; proofs, with that of the refinement |
| `AtomicDirectory` | what backup and restore promise: the abstract specification, which `ControllerDatabase` implements |
| `PrimaryEndpoint`, `PrimaryEndpointProofs` | manager, compute container with its script, routes, adoption, start/stop/switch; proofs |
| `BranchEndpoint`, `BranchEndpointProofs` | one branch: listener, connections, idle timers, compute, and the operations on it; proofs |
| `BranchLifecycle` | the branch store and its table, the pageserver's timelines, the primary's selection, and the handlers that change several of them |
| `BranchLifecycleProofs`, `BranchOutcomeProofs` | proofs about the store and about the plans of operations; then about what whole operations come to |
| `SQLExecution`, `SQLExecutionProofs` | executions and their Postgres sessions, the history and its store; proofs |
| `Console`, `ConsoleProofs` | the web console's script against the API; proofs |
| `MC*` | the instances for TLC |

The modules meet where one component calls another. `BranchEndpoint` keeps of the primary
endpoint what `PrimaryEndpoint` shows of it (`HeldRoutesRight`); `BranchLifecycle` takes from
`OperationManager` that operations exclude one another (`AdmissionExact`), and from the two
endpoint modules that a publication or a selection succeeds or fails as a whole.

Operators named `X_Y` are faulty variants of `X`: plausible mistakes against
which the properties are tested. No specification uses them.

### OperationManager

One action per region that holds `m.mu`. `StartBusy`, `StartFlushFails`,
`StartPersistFails` and `StartAdmits` are the ways `start` can go, `Reject` is
`reject`, `Finish` is `finish` with whatever the operation's function returned.
`Close`, `Exit` (shutdown or crash) and `LoadSucceeds`/`LoadFails`
(`newOperationManager`) make up the process's life. Only `store`, the SQLite
table, survives an `Exit`.

The slice `m.entries` and the table are functions from ids to statuses: both are
always in id order. `Trim` computes the entries `trimEntriesLocked` keeps. Whether
a row could be stored is a choice (`ok`) wherever the store is the SQLite one, and
FALSE over the unavailable store. Types, messages and timestamps are left out.

`OperationLog` has no table, no failing writes, no pending results, no trimming and no handles.
The refinement maps what it says of an id (`Told`) to the table's row, except that a row left "running"
tells the result that waits for it, "running" while its handler is at work, and otherwise "failed". Its `unsure`
result is the one in `pendingTerminal`, `returned` is what the functions of this process returned, and
`confirmed` those whose `Run` returned nil. An admission that stores a waiting result on its way is one abstract
`Admit`; a start that stores it and then fails is `Settle`; rejections that could not
be stored, loading and closing are stutters; and `Exit` is `Die`, which is where the
promise ends: the process takes the result that waits with it, and the operation is said to have failed.

### ControllerDatabase

One action per file system call that can fail or be followed by a crash, in the
code's order; the loops over `databaseNames` keep their index in `next`. The
`flock` admits one process at a time, so that one program counter serves the
controller, a backup and a restore. `disk` is the directory as processes see it
and `durable` the set of directories a power loss may leave. This is the
module's assumption about the file system: a name changes atomically, name
changes become durable in order, and any successful `fsync` in the file system
makes the earlier ones durable (ordered metadata journalling, as ext4 and xfs do).
Copying into a staging file and its `fsync` are one step with the action that
first publishes the copy. A database is the version number of its contents.

`outcomes` is a history variable: the database sets that the results returned
so far allow. It has one element except between the removal of the journal and
`Restore`'s return.

`AtomicDirectory` has none of this: the databases are one value, which a write, a restore of
a whole backup or a power loss changes in one step. The refinement maps `now` to what
`AcquireLock` would make of the directory, `kept` to what it would make of the directories a power
loss may leave, and `backups` to the published ones. The abstract
`Restore` is then the step that removes the journal, replacing, undoing and recovering are
stutters, and a sync is `Confirm`.

### PrimaryEndpoint

Three parties share the state. The *compute* runs `compute.sh`: it removes the
marker, reads the selection field by field, takes the lease, writes the marker
and becomes healthy; it may exit at any time and Docker restarts it. *Readers* are
the goroutines of `AcquirePrimaryRouteState` (kind "route", which hold `routeMu`
for reading until the connection is made) and of `Connection` (kind "poll", which
hold nothing). The *operation* `op` is the one that the operation manager admits:
the start, stop or switch handler, with reservation, attachment, transition,
Docker calls, waiting, the way back after a failure, and the release. Each lock
region, Docker call and file access is a step. Docker calls may fail before or
after they took effect. The controller may go down at any step and comes up with
what the selection file says.

`Unadopted` says which installations are considered: FALSE, a selection is on disk at
the first start; TRUE, there is none yet or it cannot be read, and polls and routes adopt
what the compute serves.

Branches of the code that only report (status texts, the response) are left out;
so are passwords, the no-op and in-memory runtimes and branch-name folding. The
pageserver gives any timeline for a branch (`Resolve`), so that attachments may
change between operations as a reset changes them.

### BranchEndpoint

Four parties share a branch's endpoint. *Connections* (`handleClientConnection`) are
counted, read the branch's row, take the branch's start lock and a route of the
primary endpoint, write the selection, inspect, create and start the container,
wait for it and proxy. *Timers* and their callbacks (`stopBranchComputeForIdle`) look
at the count, inspect and stop, under no common lock. The *operation* is one
of publish, unpublish, delete, reset of this branch, a switch of the primary to it, or
a switch to another branch ("leave"). The *container* boots, reads
the selection and may exit; Docker calls name it by the id that was inspected,
so that calls on a container that was replaced meanwhile fail. Each region that
holds `mu`, each Docker call and each write of a file or the row is a step.

The primary endpoint is reduced to what connections ask of it: is it in
transition or blocked (`shut`), is this branch reserved, which timeline does it
serve. `MayReserve` is `routeMu`: reservation, the begin and the end of a transition and
release wait until no connection holds a route. Timelines are numbers; deleting a
branch and creating it again, and resetting it, give it the next one. `old` says that
the container was created with an earlier image, which a restart may bring.

Left out: the graceful `Close` (the controller only crashes here), ports, passwords,
status queries. The callback reads the row and inspects in one step.

### BranchLifecycle

An operation (`op`) is a plan: `todo` is the list of the steps that are left. `Request` draws up
the plan of a handler (create, restore, reset, delete, publish, select), each step is
one action (`Resolve`, `ReplaceTimeline`, `Publish`, `Cleanup`, ...), and a step that fails puts the plan of the way back in place of the rest
(`Compensation`), whose steps may fail too. The resolver's `Resolve` is a step that puts the parent's
resolution before itself, as the code recurses. A restart (`Start`) loads the table, imports a legacy
`branches.json` if the table is empty, makes main if there is neither, and then publishes
every active branch (`queue`). A legacy file (`LegacyFiles`) holds rows as an earlier version's store left them, with deleted branches,
attachments, passwords and endpoints or without (`LegacySnapshots`); the pageserver then has the timelines it names.

`branches` is the store in memory, `table` what SQLite holds. A transaction that fails leaves both as they were: SQLite
rolls back, and `persist` returns the error of its last call, the commit (`sqlite_persistence.go:250`). That a commit which reports an error
has not been made is an assumption about SQLite. A crash comes before or after the commit. `timelines` is the pageserver; a call may fail
after its effect. An attachment is one timeline, drawn in order where the code draws random ids.
Requests that are refused before their first change are left out.

`hist` is for the properties: `before` is the state that the last answer promised, `excused` the
timelines that a failed call, a reported rollback or a crash explains, `adrift` whether the primary's selection
may differ from the table for one of these reasons or because its branch was deleted.

### SQLExecution

Each execution has a handler (`exec`) and a Postgres session with a life of its own (`session`):
what was sent to it, the state of its transaction, and whether the client is still there. The handler
connects, sends the statement, reads the rows, sends the commit, waits for it, cleans up,
records and answers; at each wait it may get the answer, an error that Postgres sent, or none
(timeout, cancellation by the HTTP client, lost connection). `CommitCode` is what
`classifySQLCommitError` makes of the latter for a commit. A
session whose client is gone may still commit what it was sent.

The history is a sequence that `Prune` cuts to the retention; recording may fail, with or without
effect, which sets the degraded flag (`bad`) that health reports until the controller restarts. At each start the
library opens or does not (`library`); without it the controller runs on, degraded, and every recording fails. `stored` is a history variable with every
row ever recorded.

### Console

`ui` is the record of the script's variables and the page's controls; the script's synchronous functions
are operators from `ui` to `ui`, with the names of the source in TLA+ spelling. An awaited request
is a task in `ui.tasks`: `at` says which await, `flow` which handler goes on afterwards, `fresh`
which of the epochs the task remembers have not moved on. Incrementing an epoch
removes it from the `fresh` of every task, so that no counter is needed. `off` holds the
controls that are disabled. `previous` is the database list that a task replaced by
its request, and which a failure puts back. Every answer may be an error, and answers arrive in
any order. A request the server rejects, because its branch is gone or it names no database, is
an error that costs no fault. Other clients create and delete branches and saved queries at any time (`Elsewhere`).
An answer may be old when it arrives: it tells what was so at some time since its request was sent (`Told`), taken from
`versions`, what the lists of branches and saved queries have said since the page was opened.

## 3. Runs

| Run | Shows |
|---|---|
| `operations` | all properties of the operation manager: exclusion and trimming (`AdmissionExact`), the log's truth (`LogFaithful`, `RowsFinal`), the refinement of `OperationLog`, and that the lock is given back |
| `database` | atomicity of Restore under power loss, the refinement of `AtomicDirectory`, and that interrupted restores are resolved |
| `database_lockout` | *violated*: a restore that recovery cannot undo (section 5) |
| `primary` | routes, reservations and restarts when a selection is on disk |
| `primary_liveness` | when there is none, or it cannot be read, and the manager adopts what the compute serves: routes are granted right, and primary operations end |
| `primary_adoption_race` | *violated*: a switch whose selection a late adoption overwrites (section 5) |
| `branch` | one writer per timeline, no stray listener, no leaked slot, with two connections and a fault |
| `branch_liveness` | every connection is proxied or turned away, and operations return |
| `branch_reset_stale` | *violated*: a reset undone by a late connection (section 5) |
| `lifecycle` | store, table, timelines and selection stay consistent, and answers are kept, through failing operations, failing compensations, crashes and restarts |
| `sql` | answers and history are true whatever becomes of a commit; the newest history is kept and losses are reported as long as the process runs; every execution is answered |
| `console` | late answers neither show, save nor write anything in another context, and the busy flags and the run button are honest |

Every property is also tested the other way round: `PROJECT.json` names a faulty variant of one
definition under which the run finds the property violated.

Bounds, and why they are enough:

* `operations`: two handlers (one active, one rejected or late), five ids and a
  retention of two: the active entry, a rejection that fills the log, one that
  overflows it, and ids left for a restart and for one operation after it.
* `database`: two databases as in the code; the controller writes once,
  before, between or after two restores; three faults allow a
  failed replacement, a failed rollback and a power loss in one behaviour.
* `primary`: two branches and two timelines (which branch has which is chosen),
  one reader, because readers only meet operations and a second one adds no
  state they share, two generations, so that an operation's selection can be
  replaced by another one's, and two faults. With a selection on disk `main` is a
  branch like the others, so branches are symmetric in this run.
* `primary_liveness`: one branch with two timelines, one generation and one fault; adoption happens before the
  first operation or beside it, and the theorem about grants is for any number. `primary_adoption_race` needs two branches and no fault.
* `branch`: two connections contend for the start lock and the count, one fault may
  fall between any two steps, two timelines allow one reset or one re-creation. One timer
  and one container: a connection that ends while a callback runs waits for it, and a
  container that was replaced because of its image is not created again; two timers
  are in `branch_reset_stale`, and the proofs are for any number.
  `branch_liveness` has two connections and no reset that gets as far as a new timeline.
* `lifecycle`: main and two other names, so that a branch can have a parent that has one; three
  timelines, three operations and two faults: create, change and delete or create
  again, with a failing step whose compensation fails or is cut short by a crash. `MCLegacyFiles` are
  the files of a version without attachments, and main with a branch that is published or deleted and perhaps a child of that one;
  the proofs are for any legacy file (`LegacyAssumption`).
  Operations and faults run out, so that the system may stop: no deadlock check.
* `sql`: one execution that may write and one that reads, a retention of one, so that each
  row evicts the other, and three faults: a lost answer, a failed record and a crash; the library opens or does not at every start. It ends when both
  executions are answered: no deadlock check.
* `console`: two branches, one of them protected, two databases, one saved query, and three events
  (handlers that send a request, failing answers, changes by other clients): two overlapping
  flows and something that comes between them; the proofs are for any number. Synchronous clicks are not
  bounded. When the events are used up and all answers are there, the page waits: no deadlock check.

The bounds `MaxID`, `MaxVersion`, `MaxRestores`, `MaxGen`, `MaxTimeline`, `MaxBox`, `MaxOps`, `MaxEvents` and
`MaxFaults` stand for counters without limits in the code. In the other runs states in which
a bound stops some handler still have enabled actions of others, and deadlock checking is on.
In `database`, `sql` and `primary_liveness` a bounded number of faults also says "faults stop".

### Fairness

* `OperationManager!FairSpec`: functions passed to `Run` return, and a rejected
  request is recorded: HTTP handlers run to completion. No client is obliged to
  send another request and nothing restarts the controller, so pending results
  need not ever be stored.
* `ControllerDatabase!FairSpec`: a process that holds the lock goes on, and the
  controller starts again when the lock is free (`restart: unless-stopped`,
  `docker-compose.yml:35`). Nothing makes an operator run a backup.
* `PrimaryEndpoint!FairSpec`: the script, the goroutines and the handler go on. A
  writer waiting for `routeMu` gets it (strong fairness): `sync.RWMutex` admits no
  new reader once a writer waits. The waits have deadlines (`WaitFails`,
  `VerifyFails`). Healthiness of the compute is *not* assumed to be reached.
* `BranchEndpoint!FairSpec`: connections, callbacks and operations go on; waits have
  deadlines (`WaitFails`, `DialFails`, `DrainFails`, `RefreshFails`), and no client is
  obliged to disconnect. Connections have strong fairness because of the start lock
  (`sync.Mutex` hands over to a waiter that starves) and because a handler that ends
  must find a free member of `Timers`, a wait the code does not have. `WritersFirst`
  is the promise of `sync.RWMutex` as a constraint on steps: while an
  operation waits for routes no connection gets one.
* `SQLExecution!FairSpec`: the handler's goroutine goes on. Connecting, the commit, the clean-up and the recording have a context
  with a deadline. `BeginTx` and the query wait with the request's context, which has none (`sql_execution.go:470`, `:485`): that
  they end is an assumption about Postgres, which answers `BEGIN`, and ends a statement by its own end or by `statement_timeout`, or about the
  connection, whose loss is noticed. A peer that goes silent would keep such a request until its client leaves. Nothing is
  assumed of the answer to a commit: the handler must get on without.

## 4. Proofs

TLAPS checks, for all values of the constants under the named assumptions of
the modules:

| Module | Theorems |
|---|---|
| `OperationManagerProofs` | `TypeCorrect`, `AdmissionIsExact`, `LogIsFaithful`, `RowsAreFinal`, and `Refinement`: `Spec => OperationLog!Spec` under the mapping of section 2; every safety property of `operations` |
| `ControllerDatabaseProofs` | `TypeCorrect`, `RestoreIsAtomic`, the two theorems the refinement rests on, and `Refinement`: `Spec => AtomicDirectory!Spec` under the mapping of section 2 |
| `PrimaryEndpointProofs` | `TypeCorrect` and `RoutesGrantedRight`, in every installation; `RoutesStayRight` and `SelectionFollowed` where a selection is on disk: every property of `primary` |
| `BranchEndpointProofs` | `TypeCorrect`, `OneWriter`, `ListenersAreListed`, `SlotsGivenBack`: every property of `branch` |
| `BranchLifecycleProofs` | `TypeCorrect`, `StoreAlwaysLoads` |
| `BranchOutcomeProofs` | `AttachmentsAreSound`, `PublishedAreComplete`, `LeaksAreExplained`, `AnswersAreKept`, `PrimaryAgreement`: with the two above every property of `lifecycle` |
| `SQLExecutionProofs` | `TypeCorrect`, `AnswersAreTrue`, `NewestKept`, `LossIsReported`: every safety property of `sql` |
| `ConsoleProofs` | `ContextShown`, `WritesConfined`, `TypeCorrect`, `SavedFaithfully`, `BusyIsHonest`: every property of `console` |

All go the same way: an inductive invariant (`IInv`; `Consistent` in `ConsoleProofs`), with one lemma or one
step per action of `Next`, from which each theorem follows, action
properties with the step. The invariants were model-checked on the runs' instances first.

*OperationManager.* The properties are not inductive. That a finish never
rewrites a final row needs that the active operation's own row still says
"running" (`ActiveOwnsRow`); that pending results can be stored in any later
start needs that their rows say so too, and that nothing is admitted over them
(`PendingSound`); that ids are fresh needs that nothing above `nextID` is stored
(`FreshIDs`), which holds only in a log that was loaded: over the unavailable
store `nextID` starts again at 0, and there nothing can be stored. The one lemma about data is that
`Trim` keeps the active entry and changes no status. The refinement needs one invariant more: at most one
result waits (`OneResultWaits`), because an admission stores the one before it, so that the abstract log's concession is
of one operation and never of several.

*ControllerDatabase.* `RestoreAtomic` speaks of every directory that a power loss may
leave, and each step adds at most one to that set. The strengthening says where the
program counter allows a journal, that its rollback copies exist there
(`JournalPlace`), that they are the originals until the replacement begins
(`OriginalsSaved`), and how far each loop has come (`LoopProgress`): databases below
`next` are restored, or replaced. Then a step inside either loop leaves
`Recovered(disk)` unchanged, because it never touches the journal or the copies;
removing the journal at the end of a rollback leaves it unchanged because
all databases equal their copies by then; and removing it at the end of a restore
changes it to `stage`, which `outcomes` admits in the same step. The cleanup of
a failed journal write is safe for the databases even where it destroys the copies:
recovery refuses and the originals are still in place. That is why atomicity
is proved although `JournalRecoverable` is violated. The refinement needs no more: the same
argument says which step changes what recovery would find, and that it is an abstract one.

*PrimaryEndpoint.* Types need to know what an operation has read where (`OpSound`) and that what
is adopted has a timeline (`AdoptSound`). That much already gives `RoutesGrantedRight`, where nothing can be said of the files:
a ready compute wrote the marker that is there, because the script removes it before it reads anew. The other two theorems assume `~Unadopted`, for which the
invariant says that the manager always knows the primary (`AllKnown`). `TransitionSound` relates each place of the
operation to the manager's flags and to the routes: from the begin of a transition to its end nobody
holds one. `SelectionSound` says, for each place, whether the file is the earlier selection, the next one or
may be either, and `RoutesSound` what a goroutine that is about to get a route has seen of the marker, and that the
compute still serves it, because the selection cannot have changed under `routeMu`. With `Unadopted`, neither `RestartKeepsPrimary` nor the weaker
`SelectionPersisted` holds (section 5).

*BranchEndpoint.* `TypeOK` includes that a connection is between the calls that lock and unlock the start lock exactly while it holds
the lock (`StartLockHeld`): it is shown step by step beside `IInv`, which does not need it. `SingleWriter` compares two timelines, but holds for a simpler reason: the branch's
container runs only while the primary is elsewhere (`WriterSound`), and then serves a timeline of the
branch, because whoever starts it has written one to the file (`ConnSound`). What makes this inductive is the
switch to the branch: from the reservation to the change no connection holds a route
(`NoRoutes`), so that none can start the container that was stopped and removed. Late connections hold
timelines that were reset away; that costs `ResetTakesEffect`, never `SingleWriter`.
`NoLeakedSlots` needs that each connection counts down once, which is a lemma about cardinalities
per way a connection ends; a stop of the listener sets the count to 0, after which connections that are still there
must not count below.

*BranchLifecycle.* `StoreRecoverable` follows from a strengthening of the rows in memory and in the table alone (`StoreSound`):
main is active, and the parent of every row is a row. Each plan step changes one row by a
store operation that keeps that, whatever the plan.

The other five properties depend on whole plans, and are proved from one invariant, `OutcomeSound`
(`BranchOutcomeProofs`). Its first part says what a plan can look like at any moment
(`PlanSound`): which steps an operation of this kind still takes, on which branch, in which order, each
but a resolution at most once, and that the resolutions a reset has pushed climb over distinct
branches. That is a property of sequences; it is proved of the
plan each handler makes, and kept by the three things that happen to one: a step
ends, a resolution climbs to its parent, a failure replaces the rest by the compensation. All else is about
*which steps are left*, never about positions in the plan:

* `RowTls`: timelines of rows exist, no two active rows share one, and none has any before main does. The code adopts main's
  timeline because it is the first, and would share it otherwise.
* `OpTls`, `MadeSound`, `NewSound`: the timelines an operation carries. One that was made for a branch stays
  its own until it is bound or discarded; one that was branched off stays until its row is written or the rollback deletes it, and
  a cleanup never deletes a timeline that a row has, unless the step that takes the row off it comes first.
* `ResetTls`: whether the row has the replaced timeline or its replacement, by what is left of the reset.
* `LeaksSound`: each timeline is attached, excused, or some step left in the plan will look after it.
* `AnswerSound`: all rows but the operation's own are as the last answer left them, and that one is when the undoing
  steps are no longer left. A compensation that has failed (`comp`) will be reported, and owes nothing.
* `PrimarySound`: the selection lags behind its branch only while the switch of a reset, or of its rollback, is left.
* `PublishedSound`, `StartSound`, `LegacySound`: what has still to be published has a password and a timeline, or the step that
  gives it one is left; the start publishes active branches only; until the table has rows, those of the legacy file fit the pageserver's timelines.

None of them is inductive without the others: that a cleanup deletes nobody's timeline, for one, takes
`RowTls`, `NewSound` and the order of steps; and that the rows it leaves are those of the last answer takes `ResetTls`.

*SQLExecution.* `AnswersTrue` says of an answer that it stays true, while the session lives on. `ExecSound` relates
the handler's place, what it has heard and the session: a handler that has not sent the commit leaves a
transaction that cannot commit; one that has and has heard nothing may not claim either. The history is a suffix of
everything recorded, by one lemma about `Prune`.

*Console.* The page stands for a branch and a database (`Wanted`), whatever its selector happens to show. It is
`Good` when its connection, its tables and its armed write are of that context
(`ConnectionWell`, `TablesWell`, `ArmedWell`). Every synchronous function
either leaves the context alone or clears what depended on it (`Follows`), so that a page that is good stays good, and
every start and every answer of a request leaves a good page (`Advances`): each answer is compared with what
the page stands for before it is shown. For the selector this needs that a database which is remembered for a branch is in the
branch's list (`PageSound`), also when a failure puts an earlier list back. A
query is sent from a good page, and no later answer sends one, which gives `WritesInContext`.

That a page is good says nothing of the requests it waits for. The other three properties relate the page, every request
under way and the controller. `Consistent` adds that to `Good`, and is the module's one inductive invariant:

* `Honest`: a query can be run only where a database can be chosen, and one can be chosen only from a list that is there and
  has the remembered database. Controls are switched by several functions and put right by the next rendering;
  so what has to be shown is that no function but the renderings ever switches `run` or `db` on.
* `Linked`: at most one request reads the latest epoch of the refresh, and the page refreshes exactly while there is one;
  likewise of the editor, whose reader is the opening or the saving that may still set the saved query. A request that goes on for a saved query
  (`TaskTied`, `TaskPlaced`) has the context of that row and its text, and while it may change the editor the editor's text is
  still the one it sent (`TaskBound`).
* `Connecting`: a page that waits for a connection has a request that reads the latest epoch, and it is about the selected branch.
* `QueryShown`: the editor's saved query has the editor's text, and is of the context the page stands for.
* `ControllerSound`: every list of branches an answer may tell of has main, and every saved query it may tell of is a row that was there, though
  perhaps deleted by now. So an old answer lists nothing the page could not have been given earlier (`ToldSound`).

A step that is between two awaits holds a request that is no longer among those of the page, so all this is stated of a page
and that request (`Tied`, `Partway`), and a page that only waits is the case with none (`Arrived`). One lemma per function of the script
goes from the one to the other, through the same calls as the code. `SavedInContext` needs the rows too: they come and are
dropped, and never change their branch or database (`Grows`), so that a row is what it was when the request was sent. A text
stands for where it comes from (section 6), so that a save over a row writes the text the row already has; what is proved is that it is
never another row's.
`LibraryAssumption` says only that the library at the start is a sequence of rows.

Only model-checked: liveness (`LockReleased`, `JournalResolved`, `OperationEnds`,
`ConnectionSettles`, `OperationReturns`, `ExecutionAnswered`), which is beyond this prover. Every invariant and every action property of the passing runs
is proved.

## 5. Where the code does not do what is said of it

Three runs show what a reader of the code would not expect:

* **A failed directory sync in `Restore` locks the controller out**
  (`database_lockout`). `writeRestoreJournal` renames the journal into place and then
  syncs the directory. If the sync fails, the deferred cleanup sees
  `journalWritten == false` and removes the rollback directory. The databases are
  untouched, but the journal now names a directory that is gone, and `AcquireLock`
  refuses from then on (`database.go:171`, `:450`).
* **An adoption can undo a switch on disk** (`primary_adoption_race`). `adoptAppliedSelection` writes the selection file between its two locked regions. On
  a new installation, a poll of the connection that has passed the first region
  may be overtaken by a switch: its write then puts the earlier selection back on
  disk, the second region notices the switch and leaves the manager alone,
  and the next restart of the compute serves the earlier timeline
  (`primary_endpoint.go:465`). `SelectionPersisted`, which quotes `docs/architecture.md:125`, is violated without a fault.
* **A reset can be undone by a late connection** (`branch_reset_stale`). The row is
  read before the start lock is taken; the selection written from it may be older
  than the one `Refresh` wrote, and the compute serves the timeline from before the
  reset (`branch_endpoints.go:831`, `:921`). Two writers on one timeline do not come of it: `SingleWriter` holds.

Two more come out of the same modules and have no run of their own:

* **Unpublishing can leave a running compute.** `Unpublish` takes
  neither the start lock nor a route. A connection that read the row before
  creates and starts the container after `Unpublish` looked for one, and the idle callback
  ignores branches that are not published (`branch_endpoints.go:483`, `:1139`). The same
  goes for deletion.
* **The idle callback stops a compute in use.** Between its look at
  the count and its stop a connection may come (`branch_endpoints.go:1136`).

Observations, of behaviour that nothing in the repository denies:

* `DELETE` of main unpublishes main's endpoint before the store refuses. A deleted branch that is
  selected as primary stays selected (`hist.adrift`).
* The schema browser's transaction does not make its answer one version of the catalog. Its snapshot covers the catalog's rows;
  `format_type`, `pg_get_expr`, `pg_get_constraintdef`, `pg_get_indexdef` and `pg_relation_size`
  (`schema_browser.go:266`, `:307`, `:340`, `:372`) read the current catalog, so that a migration that commits meanwhile may show in
  some parts. The console calls it a "read-only PostgreSQL catalog snapshot" (`ui.go:1866`). What those functions read is
  PostgreSQL's, and no module models it.
* At startup a published branch whose publication fails stays marked as published; a warning is logged.
* In the console, an entry's `loading` may stay set with no request under way, and disables running until the
  next reload; a reload that fails clears `connectionRefreshInFlight` while a later connection request is under way;
  the answer of a query that was run is shown without a look at what is selected by then; the run button is enabled again by other
  renderings; an answered change of a saved query that was deleted meanwhile can make its id active again;
  requests have no timeout.

## 6. Not modelled

Components marked `not_modelled` in `PROJECT.json`: configuration, preflight, migrations and archive validation run once,
alone, and only check or fail; the scripts are run by hand.

Parts of modelled components that are left out:

* Operation manager: a panic in an operation's function, which would leave `running` set; filtering; the JSONL import.
* Primary endpoint: power loss for the selection file, which is not fsynced, and torn contents of a renamed file; the no-op and in-memory runtimes; passwords.
* Writer lease: a second compute on the same timeline, which would make the script wait or exit; in
  `PrimaryEndpoint` that is one of the exits, and `SingleWriter` says that the controller does not let it come to that.
* Branch endpoints: the graceful `Close` (the controller only crashes), the allocation of ports among branches, the order
  in which a restart restores listeners, passwords, status queries. The callback reads the row and inspects in one step.
* Branch store: power loss, under which `synchronous=NORMAL` may lose the last transactions; slugs and timestamps.
* Handlers: read-only routes, validation, authentication, error texts; the order of a graceful shutdown.
* SQL execution: rows, limits on their number and size, the classification of statements. Query library: renaming, filters, the memory store. Schema browser: the catalog queries.
* Console: rendering, the history tab, renaming, the schema filters, typing, copying of connection strings, the branch scope of the library.

## 7. Plan

What is left, in the order it would be worth doing:

1. The graceful `Close` of the branch endpoints against live connections and operations, with the ten seconds
   of `cmd/controller/main.go:220`; ports among several branches.
2. `WriterHandoff`, which composes `BranchEndpoint`, `PrimaryEndpoint` and the lease's script.
3. An abstract primary whose switch is one step, implemented by `PrimaryEndpoint`.
