---------------------------- MODULE BranchLifecycle ----------------------------
(***************************************************************************)
(* The life of a branch across the places that know of it: the branch      *)
(* store in memory (internal/branch/store.go), its table in controller.db  *)
(* (sqlite_persistence.go), the pageserver's timelines                     *)
(* (internal/server/branch_attachment.go) and the primary's selection, as  *)
(* the handlers of server.go create, restore, reset, delete, publish and   *)
(* select branches, and as the start of the controller publishes them.     *)
(*                                                                         *)
(* The operation log admits one operation at a time (OperationManager), so *)
(* the hard part is not concurrency but failure: an operation is a plan of *)
(* steps on different stores, each of which may fail or be the last one    *)
(* before the controller goes down, and a failing operation takes back     *)
(* what it did with steps that may fail too.                               *)
(*                                                                         *)
(* An attachment is one timeline, 0 is none. Requests that are refused     *)
(* before their first change are left out. What publishing does to the     *)
(* listener and the compute is BranchEndpoint's subject, how the primary   *)
(* changes its selection PrimaryEndpoint's: here they succeed or fail.     *)
(***************************************************************************)
EXTENDS Naturals, Sequences, FiniteSets

CONSTANTS
    Main,          \* the branch "main"
    Others,        \* the names other branches may have
    LegacyFiles,   \* the files branches.json that may be there
    MaxTimeline,   \* bound on the timeline ids drawn (random in the code)
    MaxOps,        \* bound on the operations
    MaxFaults      \* bound on failing calls and controller crashes

ASSUME MainAssumption == Main \notin Others
ASSUME NamesAssumption == IsFiniteSet(Others)
ASSUME BoundAssumption == MaxTimeline \in Nat /\ MaxOps \in Nat /\ MaxFaults \in Nat

VARIABLES
    table,       \* the rows of the table branches
    branches,    \* Store.branches
    legacy,      \* branches.json, left by a version without a database
    up,          \* is the controller running
    queue,       \* the branches its start has still to publish
    op,          \* the operation under way
    primary,     \* the primary's selection
    timelines,   \* the timelines the pageserver has
    drawn,       \* timeline ids drawn so far
    ops,         \* operations so far
    faults,      \* faults so far
    hist         \* what the properties remember; nothing else reads it

vars == <<table, branches, legacy, up, queue, op, primary, timelines, drawn, ops,
          faults, hist>>
external == <<primary, timelines, drawn>>

Names == Others \cup {Main}
Tls == 0..MaxTimeline

Row == [state : {"absent", "active", "deleted"}, parent : Names, tl : Tls,
        pw : BOOLEAN, pub : BOOLEAN]
Absent == [state |-> "absent", parent |-> Main, tl |-> 0, pw |-> FALSE, pub |-> FALSE]
NoRows == [n \in Names |-> Absent]

NewRow(parent, tl, pw) ==
    [state |-> "active", parent |-> parent, tl |-> tl, pw |-> pw, pub |-> FALSE]

ActiveIn(rows, n) == rows[n].state = "active"
Active(n) == ActiveIn(branches, n)                                    \* GetActive
ListActive(rows) == {n \in Names : ActiveIn(rows, n)}
Attached(rows) == {rows[n].tl : n \in ListActive(rows)} \ {0}

Step(do, n) == [do |-> do, on |-> n]
Deeds == {"row", "password", "resolve", "bind", "adopt", "attach", "publish", "unpublish",
          "delete", "timeline", "replace", "restore", "refresh", "switch", "discard",
          "cleanup"}

\* No step makes a row for main, which is always there.
Steps == {s \in [do : Deeds, on : Names] : s.do = "row" => s.on \in Others}
Kinds == {"startup", "create", "restore", "reset", "delete", "publish", "unpublish",
          "select"}

NoOp == [kind |-> "none", name |-> Main, parent |-> Main, todo |-> << >>, prev |-> 0,
         made |-> 0, new |-> 0, failed |-> FALSE, comp |-> FALSE]

Fault ==
    /\ faults < MaxFaults
    /\ faults' = faults + 1

Outcome(ok) == IF ok THEN UNCHANGED faults ELSE Fault

(***************************************************************************)
(* Operators named X_Y are faulty variants of X, the plausible mistakes    *)
(* the properties are tested against; nothing uses them.                   *)
(***************************************************************************)

-----------------------------------------------------------------------------
(* Starting the controller *)

\* What branchMapFromSnapshot demands of the rows.
Loadable(rows) ==
    /\ ActiveIn(rows, Main)
    /\ \A n \in Names : rows[n].state # "absent" => rows[rows[n].parent].state # "absent"

\* What is published can be served.
Complete(rows) ==
    \A n \in Names : rows[n].pub => ActiveIn(rows, n) /\ rows[n].tl # 0 /\ rows[n].pw

\* No two active branches write to the same timeline.
Exclusive(rows) ==
    \A a, b \in ListActive(rows) : a # b /\ rows[a].tl # 0 => rows[a].tl # rows[b].tl

\* An older version kept the rows of the same store in branches.json: as that may have
\* left them, with deleted branches, attachments, passwords and endpoints or without.
\* The first timelines are those of its branches, main's among them.
LegacySnapshots ==
    {rows \in [Names -> Row] :
        /\ Loadable(rows) /\ Complete(rows) /\ Exclusive(rows)
        /\ \A n \in Names : rows[n].state = "absent" => rows[n] = Absent
        /\ rows[Main].tl = 0 => \A n \in Names : rows[n].tl = 0
        /\ \E k \in Tls : {rows[n].tl : n \in Names} \ {0} = 1..k}

ASSUME LegacyAssumption == LegacyFiles \subseteq LegacySnapshots

DefaultRows == [NoRows EXCEPT ![Main] = NewRow(Main, 0, FALSE)]

\* The legacy file is imported at every start.
StartRows_LegacyFirst ==
    IF legacy # NoRows THEN legacy ELSE IF table # NoRows THEN table ELSE DefaultRows

\* The rows are those of the table; an empty table is filled from the legacy file or
\* with the branch main.
StartRows ==
    CASE table # NoRows -> table
      [] table = NoRows /\ legacy # NoRows -> legacy
      [] OTHER -> DefaultRows

\* NewSQLitePersistentStore, then server.New: every active branch is to be published.
Start ==
    /\ ~up
    /\ Loadable(StartRows)
    /\ up' = TRUE
    /\ table' = StartRows
    /\ branches' = StartRows
    /\ queue' = ListActive(StartRows)
    /\ UNCHANGED <<legacy, op, external, ops, faults, hist>>

\* The process is killed between two steps.
Crash ==
    /\ up
    /\ Fault
    /\ up' = FALSE
    /\ branches' = NoRows
    /\ queue' = {}
    /\ op' = NoOp
    /\ hist' = [hist EXCEPT
           !.before = IF op = NoOp THEN @ ELSE table,
           !.excused = @ \cup {op.made, op.new},
           !.adrift = @ \/ op.kind \in {"reset", "select"}]
    /\ UNCHANGED <<table, legacy, external, ops>>

-----------------------------------------------------------------------------
(* The operations: the steps each one takes *)

\* ensureBranchPublished.
EnsurePublished(n) ==
    <<Step("password", n), Step("resolve", n), Step("attach", n), Step("publish", n)>>

Reselect(n) == IF primary.name = n THEN <<Step("switch", n)>> ELSE << >>

\* The primary is left on the old timeline.
ResetPlan_NoReselect(n, parent) ==
    <<Step("password", n), Step("resolve", parent), Step("timeline", parent),
      Step("replace", n), Step("refresh", n)>>

ResetPlan(n, parent) ==
    <<Step("password", n), Step("resolve", parent), Step("timeline", parent),
      Step("replace", n), Step("refresh", n)>> \o Reselect(n)

\* The endpoint stays published.
DeletePlan_Only(n) == <<Step("delete", n)>>

DeletePlan(n) == <<Step("unpublish", n), Step("delete", n)>>

Plan(kind, n, parent) ==
    CASE kind = "startup" -> EnsurePublished(n)
      [] kind = "create" -> <<Step("row", n)>> \o EnsurePublished(n)
      [] kind = "restore" ->
            <<Step("resolve", parent), Step("timeline", parent), Step("row", n)>>
            \o EnsurePublished(n)
      [] kind = "reset" -> ResetPlan(n, parent)
      [] kind = "delete" -> DeletePlan(n)
      [] kind = "publish" ->
            <<Step("resolve", n), Step("attach", n), Step("password", n), Step("publish", n)>>
      [] kind = "unpublish" -> <<Step("unpublish", n)>>
      [] kind = "select" -> <<Step("password", n), Step("resolve", n), Step("switch", n)>>

Begin(kind, n, parent) ==
    /\ up
    /\ op = NoOp
    /\ op' = [NoOp EXCEPT !.kind = kind, !.name = n, !.parent = parent,
                          !.todo = Plan(kind, n, parent), !.prev = branches[n].tl]
    /\ hist' = [hist EXCEPT !.excused = @ \cup Attached(branches)]
    /\ UNCHANGED <<table, branches, legacy, up, external, faults>>

\* autoPublishExistingBranches; the HTTP server listens only afterwards.
PublishExisting ==
    \E n \in queue :
        /\ queue' = queue \ {n}
        /\ Begin("startup", n, Main)
        /\ UNCHANGED ops

Request(kind, n, parent) ==
    /\ queue = {}
    /\ ops < MaxOps
    /\ ops' = ops + 1
    /\ Begin(kind, n, parent)
    /\ UNCHANGED queue

CreateBranch == \E n \in Others, p \in Names :
    ~Active(n) /\ Active(p) /\ Request("create", n, p)
RestoreBranch == \E n \in Others, p \in Names :
    ~Active(n) /\ Active(p) /\ Request("restore", n, p)
ResetBranch == \E n \in Others : Active(n) /\ Request("reset", n, branches[n].parent)
DeleteBranch == \E n \in Names : Active(n) /\ Request("delete", n, Main)
PublishBranch == \E n \in Names : Active(n) /\ Request("publish", n, Main)
UnpublishBranch == \E n \in Names : Active(n) /\ Request("unpublish", n, Main)

\* Starting the primary selects the branch it already has.
SelectBranch == \E n \in Names : Active(n) /\ Request("select", n, Main)

-----------------------------------------------------------------------------
(* How a step ends *)

Here(do) == up /\ op.todo # << >> /\ Head(op.todo).do = do
On == Head(op.todo).on

RollBackRow == <<Step("delete", op.name), Step("cleanup", op.name)>>

\* The branch keeps its row when its timeline goes.
UndoRestore_KeepRow(do) ==
    IF do = "row" \/ Active(op.name) THEN <<Step("cleanup", op.name)>> ELSE << >>

UndoRestore(do) ==
    CASE do = "row" -> <<Step("cleanup", op.name)>>
      [] do # "row" /\ Active(op.name) -> RollBackRow
      [] OTHER -> << >>

\* The timeline created for a reset that could not be stored is forgotten.
UndoReset_NoCleanup(do) ==
    IF do \in {"refresh", "switch"}
    THEN <<Step("restore", op.name), Step("refresh", op.name)>> \o Reselect(op.name)
         \o <<Step("cleanup", op.name)>>
    ELSE << >>

UndoReset(do) ==
    CASE do = "replace" -> <<Step("cleanup", op.name)>>
      [] do \in {"refresh", "switch"} ->
            <<Step("restore", op.name), Step("refresh", op.name)>> \o Reselect(op.name)
            \o <<Step("cleanup", op.name)>>
      [] OTHER -> << >>

\* The steps with which the operation takes back what it has done when the step do
\* fails: the cleanups and rollbacks of the handlers.
Compensation(do) ==
    (IF do = "bind" THEN <<Step("discard", op.name)>> ELSE << >>)
    \o CASE op.kind = "create" /\ do # "row" -> RollBackRow
         [] op.kind = "restore" -> UndoRestore(do)
         [] op.kind = "reset" -> UndoReset(do)
         [] OTHER -> << >>

Done == [op EXCEPT !.todo = Tail(@)]

\* The first failure starts the compensation. One that cannot put the row back ends it,
\* any other goes on; both are reported with the answer.
Failed(do) ==
    IF ~op.failed
    THEN [op EXCEPT !.failed = TRUE, !.todo = Compensation(do),
                    !.new = IF op.kind = "create" THEN branches[op.name].tl ELSE @]
    ELSE [op EXCEPT !.comp = TRUE,
                    !.todo = IF do \in {"delete", "restore"} THEN << >> ELSE Tail(@)]

Advance(do, ok) == op' = IF ok THEN Done ELSE Failed(do)

\* The answer of the operation.
Finish ==
    /\ up
    /\ op # NoOp
    /\ op.todo = << >>
    /\ op' = NoOp
    /\ hist' = [hist EXCEPT
           !.before = IF op.failed /\ ~op.comp THEN @ ELSE branches,
           !.excused = IF op.comp THEN @ \cup {op.made, op.new} ELSE @,
           !.adrift = @ \/ op.comp \/ ~Active(primary.name)]
    /\ UNCHANGED <<table, branches, legacy, up, queue, external, ops, faults>>

-----------------------------------------------------------------------------
(* Steps on the branch store: one transaction each *)

\* The map is swapped before it is stored.
PersistAndSwap_SwapFirst(next, ok) ==
    branches' = next /\ (IF ok THEN table' = next ELSE UNCHANGED table)

\* persistAndSwap.
PersistAndSwap(next, ok) ==
    IF ok THEN table' = next /\ branches' = next
          ELSE UNCHANGED <<table, branches>>

StoreStep(do, next) ==
    \E ok \in BOOLEAN :
        /\ Outcome(ok)
        /\ PersistAndSwap(next, ok)
        /\ Advance(do, ok)
        /\ UNCHANGED <<legacy, up, queue, external, ops, hist>>

\* A step that is refused or has nothing to write.
Skip(do, ok) ==
    /\ Advance(do, ok)
    /\ UNCHANGED <<table, branches, legacy, up, queue, external, ops, faults, hist>>

\* The parent is stored as it was given, which may be blank.
CreatedRow_Blank(n) ==
    [NewRow(op.parent, op.new, TRUE) EXCEPT !.parent = IF @ = Main THEN 0 ELSE @]

\* createLocked: the row replaces that of a deleted branch.
CreatedRow(n) == NewRow(op.parent, op.new, TRUE)

CreateRow ==
    /\ Here("row")
    /\ StoreStep("row", [branches EXCEPT ![On] = CreatedRow(On)])

EnsurePassword ==
    /\ Here("password")
    /\ IF branches[On].pw THEN Skip("password", TRUE)
       ELSE StoreStep("password", [branches EXCEPT ![On].pw = TRUE])

\* SetAttachment with what was resolved, which the row already has.
SetResolved == Here("attach") /\ StoreStep("attach", branches)

\* Publish and Unpublish store the flag last, so that it fails with them.
Publish == Here("publish") /\ StoreStep("publish", [branches EXCEPT ![On].pub = TRUE])
Unpublish == Here("unpublish") /\ StoreStep("unpublish", [branches EXCEPT ![On].pub = FALSE])

\* The row stays, so that its name and its children's parent are known.
SoftDeleted(n) == [branches EXCEPT ![n].state = "deleted"]

SoftDelete ==
    /\ Here("delete")
    /\ IF On = Main THEN Skip("delete", FALSE) ELSE StoreStep("delete", SoftDeleted(On))

\* The reset's SetAttachment, and the one with which it goes back. A branch that had no
\* attachment cannot get that back.
ReplaceTimeline ==
    /\ Here("replace")
    /\ StoreStep("replace", [branches EXCEPT ![On].tl = op.new])
RestoreTimeline ==
    /\ Here("restore")
    /\ IF op.prev = 0 THEN Skip("restore", FALSE)
       ELSE StoreStep("restore", [branches EXCEPT ![On].tl = op.prev])

-----------------------------------------------------------------------------
(* Steps on the pageserver. A call that fails may have taken effect. *)

Draw == drawn < MaxTimeline /\ drawn' = drawn + 1

\* CreateTimeline with a fresh id; next is the operation when it succeeds.
CreateTimeline(do, next) ==
    /\ Draw
    /\ \E ok, effect \in BOOLEAN :
        /\ Outcome(ok)
        /\ ok => effect
        /\ timelines' = IF effect THEN timelines \cup {drawn'} ELSE timelines
        /\ hist' = IF ok THEN hist ELSE [hist EXCEPT !.excused = @ \cup {drawn'}]
        /\ op' = IF ok THEN next ELSE Failed(do)
    /\ UNCHANGED <<table, branches, legacy, up, queue, primary, ops>>

\* ResolveRestore and ResolveReset, their parent's attachment resolved. No history for
\* the time asked for is a failure before the creation.
BranchTimeline ==
    /\ Here("timeline")
    /\ CreateTimeline("timeline", [Done EXCEPT !.new = drawn'])

\* DeleteTimeline of the one the operation has created.
DeleteTimeline(do, tl) ==
    /\ \E ok, effect \in BOOLEAN :
        /\ Outcome(ok)
        /\ ok => effect
        /\ timelines' = IF effect THEN timelines \ {tl} ELSE timelines
        /\ hist' = IF ok THEN hist ELSE [hist EXCEPT !.excused = @ \cup {tl}]
        /\ Advance(do, ok)
    /\ UNCHANGED <<table, branches, legacy, up, queue, primary, drawn, ops>>

Discard == Here("discard") /\ DeleteTimeline("discard", op.made)

\* Nothing is deleted when there is nothing, or when the rollback was incomplete.
Cleanup ==
    /\ Here("cleanup")
    /\ IF op.new = 0 \/ op.comp THEN Skip("cleanup", TRUE)
       ELSE DeleteTimeline("cleanup", op.new)

-----------------------------------------------------------------------------
(* resolveLocked: a branch without a timeline gets one from its parent, which is      *)
(* resolved first. The resolutions under way, a climb, come first in the plan.          *)

Climb ==
    {i \in DOMAIN op.todo : \A k \in 1..i : op.todo[k].do = "resolve"}

\* Only a branch that is its own parent is noticed.
Visiting_Self == {On}

Visiting == {op.todo[i].on : i \in Climb}

Prepend(do, n) == [op EXCEPT !.todo = <<Step(do, n)>> \o @]

\* Without an attachment main takes the first timeline the pageserver lists, and a new
\* one when there is none. It may fail to list them.
ResolveMain ==
    \/ /\ Fault
       /\ Advance("resolve", FALSE)
       /\ UNCHANGED <<table, branches, legacy, up, queue, external, ops, hist>>
    \/ /\ timelines = {}
       /\ CreateTimeline("resolve", [Prepend("bind", On) EXCEPT !.made = drawn'])
    \/ \E tl \in timelines :
          /\ op' = [Prepend("adopt", On) EXCEPT !.made = tl]
          /\ UNCHANGED <<table, branches, legacy, up, queue, external, ops, faults, hist>>

\* The branch shares the timeline of its parent.
ResolveChild_Share(parent) ==
    /\ op' = [Prepend("adopt", On) EXCEPT !.made = branches[parent].tl]
    /\ UNCHANGED <<table, branches, legacy, up, queue, external, ops, faults, hist>>

ResolveChild(parent) ==
    CreateTimeline("resolve", [Prepend("bind", On) EXCEPT !.made = drawn'])

Resolve ==
    /\ Here("resolve")
    /\ LET parent == branches[On].parent IN
       CASE ~Active(On) -> Skip("resolve", FALSE)
         [] Active(On) /\ branches[On].tl # 0 -> Skip("resolve", TRUE)
         [] Active(On) /\ branches[On].tl = 0 /\ On = Main -> ResolveMain
         [] OTHER ->
              IF parent \in Visiting THEN Skip("resolve", FALSE)
              ELSE IF Active(parent) /\ branches[parent].tl # 0
              THEN ResolveChild(parent)
              ELSE /\ op' = Prepend("resolve", parent)
                   /\ UNCHANGED <<table, branches, legacy, up, queue, external, ops,
                                  faults, hist>>

\* SetAttachment of what was created, or found for main.
Bind == Here("bind") /\ StoreStep("bind", [branches EXCEPT ![On].tl = op.made])
Adopt == Here("adopt") /\ StoreStep("adopt", [branches EXCEPT ![On].tl = op.made])

-----------------------------------------------------------------------------
(* Steps on the endpoints *)

Refresh ==
    /\ Here("refresh")
    /\ \E ok \in BOOLEAN : Outcome(ok) /\ Advance("refresh", ok)
    /\ UNCHANGED <<table, branches, legacy, up, queue, external, ops, hist>>

\* Start or SwitchToBranch with the attachment just set. When it fails the selection may
\* be the new one all the same.
Switch ==
    /\ Here("switch")
    /\ \E ok, effect \in BOOLEAN :
        /\ Outcome(ok)
        /\ ok => effect
        /\ primary' = IF effect THEN [name |-> On, tl |-> branches[On].tl] ELSE primary
        /\ hist' = IF ok /\ ~op.failed THEN [hist EXCEPT !.adrift = FALSE] ELSE hist
        /\ Advance("switch", ok)
    /\ UNCHANGED <<table, branches, legacy, up, queue, timelines, drawn, ops>>

-----------------------------------------------------------------------------

Init ==
    /\ table = NoRows
    /\ branches = NoRows
    /\ legacy \in {NoRows} \cup LegacyFiles
    /\ up = FALSE
    /\ queue = {}
    /\ op = NoOp
    /\ primary = [name |-> Main, tl |-> 0]
    /\ drawn \in Tls
    /\ timelines = 1..drawn
    /\ {legacy[n].tl : n \in Names} \ {0} = timelines
    /\ ops = 0
    /\ faults = 0
    /\ hist = [before |-> NoRows, excused |-> timelines, adrift |-> FALSE]

Requests ==
    \/ CreateBranch \/ RestoreBranch \/ ResetBranch \/ DeleteBranch
    \/ PublishBranch \/ UnpublishBranch \/ SelectBranch

OperationStep ==
    \/ CreateRow \/ EnsurePassword \/ Resolve \/ Bind \/ Adopt \/ SetResolved
    \/ Publish \/ Unpublish \/ SoftDelete \/ BranchTimeline
    \/ ReplaceTimeline \/ RestoreTimeline \/ Refresh \/ Switch
    \/ Discard \/ Cleanup \/ Finish

Next == Start \/ PublishExisting \/ Requests \/ OperationStep \/ Crash

Spec == Init /\ [][Next]_vars

-----------------------------------------------------------------------------
(* Properties *)

\* The variables have the values the code gives them.
TypeOK ==
    /\ table \in [Names -> Row]
    /\ branches \in [Names -> Row]
    /\ legacy \in [Names -> Row]
    /\ up \in BOOLEAN
    /\ queue \subseteq Names
    /\ op \in [kind : Kinds \cup {"none"}, name : Names, parent : Names,
               todo : Seq(Steps), prev : Tls, made : Tls, new : Tls,
               failed : BOOLEAN, comp : BOOLEAN]
    /\ primary \in [name : Names, tl : Tls]
    /\ timelines \subseteq Tls \ {0}
    /\ drawn \in Tls
    /\ ops \in 0..MaxOps
    /\ faults \in 0..MaxFaults
    /\ hist \in [before : [Names -> Row], excused : SUBSET Tls,
                 adrift : BOOLEAN]

\* What the store says in memory is what a restart would find, whatever failed, and the
\* rows can always be loaded again: branchMapFromSnapshot refuses rows without main or
\* with a parent it does not know, and the controller would not start.
StoreRecoverable ==
    /\ up => table = branches
    /\ table # NoRows => Loadable(table)

\* No active branch is attached to a timeline that a cleanup has deleted, neither between
\* the steps of an operation nor after a crash between two of them.
AttachedExists == Attached(table) \subseteq timelines

\* No two active branches write to the same timeline: a branch never keeps its parent's,
\* and main, which takes a timeline it finds, never takes another branch's.
TimelinesExclusive == Exclusive(table)

\* Branches can come to be their own ancestors, as deleted names are used again and as old
\* files say: a resolution never starts on a branch that it is resolving, and ends.
ClimbEnds ==
    \A i, j \in Climb : i # j => op.todo[i].on # op.todo[j].on

\* What the resolver and the handlers give branches is sound: each has a timeline that
\* exists and that no other branch has, and looking for it comes to an end.
AttachmentsSound == AttachedExists /\ TimelinesExclusive /\ ClimbEnds

\* A branch's endpoint is published only while the branch is active, has a timeline to
\* serve and a password of its own: also when a deleted name is used again.
PublishedComplete == Complete(table)

\* The timelines on the pageserver that no branch has, had when an operation began or in an
\* older version, or is being given are explained: by a call with an unknown outcome, by a rollback that was
\* reported with the answer, or by a crash. Nothing else leaks storage.
LeaksExplained ==
    timelines \subseteq
        Attached(table) \cup hist.excused \cup {op.made, op.new}

\* The branches of one state are those of another, but for timelines they were yet to get.
Keeps(old, new) ==
    \A n \in Names :
        /\ ActiveIn(old, n) <=> ActiveIn(new, n)
        /\ ActiveIn(old, n) => old[n].parent = new[n].parent /\ old[n].tl \in {0, new[n].tl}

\* Between operations the table holds what the last answer promised, also across crashes
\* and restarts: an operation that failed without reporting an incomplete rollback has
\* changed no branch.
AnswersHold == op = NoOp /\ hist.before # NoRows => Keeps(hist.before, table)

\* The primary's selection lives in a file of its own. Between operations it names the
\* timeline that its branch has in the table, unless a reset or a selection was cut short
\* by a crash, a rollback was reported as incomplete, or the branch was deleted.
PrimaryAgrees ==
    op = NoOp /\ ~hist.adrift /\ primary.tl # 0 => primary.tl = table[primary.name].tl

=============================================================================
