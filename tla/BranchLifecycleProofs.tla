------------------------- MODULE BranchLifecycleProofs -------------------------
(***************************************************************************)
(* The branch store can always be loaded again, for any set of branches,   *)
(* any number of operations, timelines and faults; and what the plans of   *)
(* operations look like, which BranchOutcomeProofs reasons from.           *)
(***************************************************************************)
EXTENDS BranchLifecycle, TLAPS, SequenceTheorems

RowSets == [Names -> Row]
Operations ==
    [kind : Kinds \cup {"none"}, name : Names, parent : Names, todo : Seq(Steps),
     prev : Tls, made : Tls, new : Tls, failed : BOOLEAN, comp : BOOLEAN]
Hists == [before : RowSets, excused : SUBSET Tls, adrift : BOOLEAN]

\* Rows that can be loaded, where the unused ones are blank.
Whole(rows) ==
    /\ Loadable(rows)
    /\ \A n \in Names : rows[n].state = "absent" => rows[n].parent = Main

\* The rows in memory and in the table are the same and can be loaded, and the parent an
\* operation was given is among them: deletion keeps the row.
StoreSound ==
    /\ up => table = branches /\ Whole(branches) /\ branches[op.parent].state # "absent"
    /\ ~up => op = NoOp
    /\ table # NoRows => Whole(table)
    /\ legacy # NoRows => Whole(legacy)

IInv == TypeOK /\ StoreSound

-----------------------------------------------------------------------------
(* Data *)

\* What is fixed about the constants.
LEMMA Facts ==
    /\ Main \in Names /\ Others \subseteq Names /\ Main \notin Others
    /\ 0 \in Tls
    /\ Absent \in Row /\ NoRows \in RowSets /\ ~ActiveIn(NoRows, Main)
    /\ \A p \in Names, tl \in Tls, pw \in BOOLEAN : NewRow(p, tl, pw) \in Row
    /\ MaxTimeline \in Nat /\ MaxOps \in Nat /\ MaxFaults \in Nat
  BY MainAssumption, BoundAssumption
  DEF Names, Tls, Absent, Row, NoRows, RowSets, NewRow, ActiveIn

\* A step that makes no row is a step whatever branch it is on.
LEMMA StepTyped ==
    ASSUME NEW do \in Deeds, NEW n \in Names, do # "row" \/ n \in Others
    PROVE  Step(do, n) \in Steps
  BY DEF Step, Steps

\* No operation is under way.
LEMMA NoOpTyped == NoOp \in Operations
  BY Facts DEF NoOp, Operations

\* Plans consist of steps, and only a branch that is created or restored gets a row.
LEMMA PlanTyped ==
    ASSUME NEW kind \in Kinds, NEW n \in Names, NEW p \in Names,
           kind \in {"create", "restore"} => n \in Others
    PROVE  Plan(kind, n, p) \in Seq(Steps)
  <1>1. /\ Step("password", n) \in Steps /\ Step("resolve", n) \in Steps
        /\ Step("attach", n) \in Steps /\ Step("publish", n) \in Steps
        /\ Step("unpublish", n) \in Steps /\ Step("delete", n) \in Steps
        /\ Step("replace", n) \in Steps /\ Step("refresh", n) \in Steps
        /\ Step("switch", n) \in Steps
        /\ Step("resolve", p) \in Steps /\ Step("timeline", p) \in Steps
    BY StepTyped DEF Deeds
  <1>2. kind \in {"create", "restore"} => Step("row", n) \in Steps
    BY StepTyped DEF Deeds
  <1>3. EnsurePublished(n) \in Seq(Steps)
    BY <1>1 DEF EnsurePublished
  <1>4. Reselect(n) \in Seq(Steps)
    BY <1>1 DEF Reselect
  <1>5. ResetPlan(n, p) \in Seq(Steps)
    BY <1>1, <1>4 DEF ResetPlan
  <1>6. DeletePlan(n) \in Seq(Steps)
    BY <1>1 DEF DeletePlan
  <1>7. kind = "create" => <<Step("row", n)>> \o EnsurePublished(n) \in Seq(Steps)
    BY <1>2, <1>3
  <1>8. kind = "restore" =>
           <<Step("resolve", p), Step("timeline", p), Step("row", n)>> \o EnsurePublished(n)
               \in Seq(Steps)
    BY <1>1, <1>2, <1>3
  <1>9. /\ <<Step("resolve", n), Step("attach", n), Step("password", n), Step("publish", n)>>
              \in Seq(Steps)
        /\ <<Step("unpublish", n)>> \in Seq(Steps)
        /\ <<Step("password", n), Step("resolve", n), Step("switch", n)>> \in Seq(Steps)
    BY <1>1
  <1> QED
    BY <1>3, <1>5, <1>6, <1>7, <1>8, <1>9 DEF Plan, Kinds

\* What an operation does to take back its work consists of steps.
LEMMA CompensationTyped ==
    ASSUME op \in Operations, NEW do
    PROVE  Compensation(do) \in Seq(Steps)
  <1> DEFINE n == op.name
  <1>1. n \in Names
    BY DEF Operations
  <1>2. /\ Step("cleanup", n) \in Steps /\ Step("delete", n) \in Steps
        /\ Step("restore", n) \in Steps /\ Step("refresh", n) \in Steps
        /\ Step("switch", n) \in Steps /\ Step("discard", n) \in Steps
    BY <1>1, StepTyped DEF Deeds
  <1>3. RollBackRow \in Seq(Steps)
    BY <1>2 DEF RollBackRow
  <1>4. UndoRestore(do) \in Seq(Steps)
    BY <1>2, <1>3 DEF UndoRestore
  <1>5. Reselect(n) \in Seq(Steps)
    BY <1>2 DEF Reselect
  <1>6. UndoReset(do) \in Seq(Steps)
    <2>1. <<Step("restore", n), Step("refresh", n)>> \o Reselect(n) \in Seq(Steps)
      BY <1>2, <1>5
    <2>2. (<<Step("restore", n), Step("refresh", n)>> \o Reselect(n)) \o <<Step("cleanup", n)>>
              \in Seq(Steps)
      BY <1>2, <2>1
    <2> QED
      BY <1>2, <2>2 DEF UndoReset
  <1> DEFINE undo == CASE op.kind = "create" /\ do # "row" -> RollBackRow
                       [] op.kind = "restore" -> UndoRestore(do)
                       [] op.kind = "reset" -> UndoReset(do)
                       [] OTHER -> << >>
             dropped == IF do = "bind" THEN <<Step("discard", n)>> ELSE << >>
  <1>7. undo \in Seq(Steps)
    BY <1>3, <1>4, <1>6
  <1>8. dropped \in Seq(Steps)
    BY <1>2
  <1> HIDE DEF undo, dropped
  <1>9. dropped \o undo \in Seq(Steps)
    BY <1>7, <1>8
  <1> QED
    BY <1>9 DEF Compensation, undo, dropped

\* A step that ends leaves an operation on the same branch and parent.
LEMMA EndTyped ==
    ASSUME IInv, op.todo # << >>, NEW do
    PROVE  /\ Done \in Operations /\ Done.parent = op.parent
           /\ Failed(do) \in Operations /\ Failed(do).parent = op.parent
  <1>1. op \in Operations /\ branches \in RowSets
    BY DEF IInv, TypeOK, Operations, RowSets
  <1>2. op.todo \in Seq(Steps)
    BY <1>1 DEF Operations
  <1>3. Tail(op.todo) \in Seq(Steps)
    BY <1>2
  <1>4. Done \in Operations /\ Done.parent = op.parent
    BY <1>1, <1>3 DEF Done, Operations
  <1>5. Compensation(do) \in Seq(Steps)
    BY <1>1, CompensationTyped
  <1>6. branches[op.name].tl \in Tls /\ op.new \in Tls
    BY <1>1 DEF Operations, RowSets, Row
  <1>7. << >> \in Seq(Steps)
    OBVIOUS
  <1>8. CASE ~op.failed
    <2> DEFINE new == IF op.kind = "create" THEN branches[op.name].tl ELSE op.new
    <2>1. new \in Tls
      BY <1>6
    <2>2. Failed(do) = [op EXCEPT !.failed = TRUE, !.todo = Compensation(do), !.new = new]
      BY <1>8 DEF Failed
    <2> HIDE DEF new
    <2> DEFINE r == [op EXCEPT !.failed = TRUE]
               t == [r EXCEPT !.todo = Compensation(do)]
    <2>3. r \in Operations /\ r.parent = op.parent
      BY <1>1 DEF Operations
    <2> HIDE DEF r
    <2>4. t \in Operations /\ t.parent = op.parent
      BY <1>5, <2>3 DEF Operations
    <2> HIDE DEF t
    <2>5. [t EXCEPT !.new = new] \in Operations /\ [t EXCEPT !.new = new].parent = op.parent
      BY <2>1, <2>4 DEF Operations
    <2>6. Failed(do) = [t EXCEPT !.new = new]
      BY <2>2 DEF r, t
    <2> QED
      BY <1>4, <2>5, <2>6
  <1>9. CASE op.failed
    <2> DEFINE todo == IF do \in {"delete", "restore"} THEN << >> ELSE Tail(op.todo)
    <2>1. todo \in Seq(Steps)
      BY <1>3, <1>7
    <2>2. Failed(do) = [op EXCEPT !.comp = TRUE, !.todo = todo]
      BY <1>9 DEF Failed
    <2> HIDE DEF todo
    <2> DEFINE r == [op EXCEPT !.comp = TRUE]
    <2>3. r \in Operations /\ r.parent = op.parent
      BY <1>1 DEF Operations
    <2> HIDE DEF r
    <2>4. [r EXCEPT !.todo = todo] \in Operations /\ [r EXCEPT !.todo = todo].parent = op.parent
      BY <2>1, <2>3 DEF Operations
    <2>5. Failed(do) = [r EXCEPT !.todo = todo]
      BY <2>2 DEF r
    <2> QED
      BY <1>4, <2>4, <2>5
  <1> QED
    BY <1>1, <1>4, <1>8, <1>9 DEF Operations

\* A step that begins a resolution, or is put before it.
LEMMA PrependTyped ==
    ASSUME op \in Operations, NEW do \in Deeds \ {"row"}, NEW n \in Names, NEW made \in Tls
    PROVE  /\ Prepend(do, n) \in Operations /\ Prepend(do, n).parent = op.parent
           /\ [Prepend(do, n) EXCEPT !.made = made] \in Operations
           /\ [Prepend(do, n) EXCEPT !.made = made].parent = op.parent
  <1>1. Step(do, n) \in Steps
    BY StepTyped
  <1>2. op.todo \in Seq(Steps)
    BY DEF Operations
  <1>3. <<Step(do, n)>> \o op.todo \in Seq(Steps)
    BY <1>1, <1>2
  <1> QED
    BY <1>3 DEF Prepend, Operations

-----------------------------------------------------------------------------
(* Steps *)

\* The types in terms of the sets above.
Typed ==
    /\ table \in RowSets /\ branches \in RowSets /\ legacy \in RowSets
    /\ up \in BOOLEAN /\ queue \subseteq Names
    /\ op \in Operations
    /\ primary \in [name : Names, tl : Tls]
    /\ timelines \subseteq Tls \ {0} /\ drawn \in Tls
    /\ ops \in 0..MaxOps /\ faults \in 0..MaxFaults
    /\ hist \in Hists

LEMMA TypedOK == TypeOK <=> Typed
  BY DEF TypeOK, Typed, RowSets, Operations, Hists

\* A failure is within its bound.
LEMMA OutcomeTyped ==
    ASSUME faults \in 0..MaxFaults, NEW ok, Outcome(ok)
    PROVE  faults' \in 0..MaxFaults
  BY Facts DEF Outcome, Fault

\* A step on the store keeps the invariant if the rows it stores can be loaded and the
\* operation's parent is still among them.
LEMMA StoreStepOK ==
    ASSUME IInv, NEW do, Here(do), NEW next \in RowSets, Whole(next),
           next[op.parent].state # "absent", next # NoRows, StoreStep(do, next)
    PROVE  IInv'
  <1>1. PICK ok \in BOOLEAN :
           /\ Outcome(ok)
           /\ PersistAndSwap(next, ok)
           /\ Advance(do, ok)
           /\ UNCHANGED <<legacy, up, queue, external, ops, hist>>
    BY DEF StoreStep
  <1>2. Typed /\ StoreSound /\ up /\ op.todo # << >>
    BY TypedOK DEF IInv, Here
  <1>3. op' \in Operations /\ op'.parent = op.parent
    BY <1>1, <1>2, EndTyped DEF Advance
  <1>4. faults' \in 0..MaxFaults
    BY <1>1, <1>2, OutcomeTyped DEF Typed
  <1>5. \/ table' = next /\ branches' = next
        \/ table' = table /\ branches' = branches
    BY <1>1 DEF PersistAndSwap
  <1>6. Typed'
    BY <1>1, <1>2, <1>3, <1>4, <1>5 DEF Typed, external
  <1>7. StoreSound'
    <2>1. up' = up /\ legacy' = legacy
      BY <1>1
    <2>2. CASE table' = next /\ branches' = next
      BY <1>2, <1>3, <2>1, <2>2 DEF StoreSound, Whole, Loadable, ActiveIn
    <2>3. CASE table' = table /\ branches' = branches
      BY <1>2, <1>3, <2>1, <2>3 DEF StoreSound, Whole, Loadable, ActiveIn
    <2> QED
      BY <1>5, <2>2, <2>3
  <1> QED
    BY <1>6, <1>7, TypedOK DEF IInv, TypeOK, Typed, RowSets, Operations, Hists

\* A step that changes the operation and neither the rows nor the process keeps it, if
\* the operation keeps its parent.
LEMMA OtherStepOK ==
    ASSUME IInv, up, Typed', UNCHANGED <<table, branches, legacy, up>>,
           op'.parent = op.parent
    PROVE  IInv'
  <1>1. StoreSound'
    BY DEF IInv, StoreSound, Whole, Loadable, ActiveIn
  <1> QED
    BY <1>1 DEF IInv, TypeOK, Typed, RowSets, Operations, Hists

\* A step that is refused or has nothing to write.
LEMMA SkipOK ==
    ASSUME IInv, NEW do, Here(do), NEW ok \in BOOLEAN, Skip(do, ok)
    PROVE  IInv'
  <1>1. Typed /\ up /\ op.todo # << >>
    BY TypedOK DEF IInv, Here
  <1>2. op' \in Operations /\ op'.parent = op.parent
    BY <1>1, EndTyped DEF Skip, Advance
  <1>3. UNCHANGED <<table, branches, legacy, up, queue, primary, timelines, drawn, ops, faults, hist>>
    BY DEF Skip, external
  <1>4. Typed'
    BY <1>1, <1>2, <1>3 DEF Typed
  <1> QED
    BY <1>1, <1>2, <1>3, <1>4, OtherStepOK

\* A call that creates a timeline.
LEMMA CreateTimelineOK ==
    ASSUME IInv, NEW do, Here(do), NEW next, drawn' \in Tls => next \in Operations,
           next.parent = op.parent, CreateTimeline(do, next)
    PROVE  IInv'
  <1>1. Typed /\ up /\ op.todo # << >>
    BY TypedOK DEF IInv, Here
  <1>2. drawn' \in Tls \ {0}
    BY <1>1, Facts DEF CreateTimeline, Draw, Typed, Tls
  <1>3. PICK ok \in BOOLEAN, effect \in BOOLEAN :
           /\ Outcome(ok)
           /\ timelines' = IF effect THEN timelines \cup {drawn'} ELSE timelines
           /\ hist' = IF ok THEN hist ELSE [hist EXCEPT !.excused = @ \cup {drawn'}]
           /\ op' = IF ok THEN next ELSE Failed(do)
    BY DEF CreateTimeline
  <1>4. UNCHANGED <<table, branches, legacy, up, queue, primary, ops>>
    BY DEF CreateTimeline
  <1>5. op' \in Operations /\ op'.parent = op.parent
    BY <1>1, <1>2, <1>3, EndTyped
  <1>6. faults' \in 0..MaxFaults
    BY <1>1, <1>3, OutcomeTyped DEF Typed
  <1>7. hist' \in Hists
    BY <1>1, <1>2, <1>3 DEF Typed, Hists
  <1>8. Typed'
    BY <1>1, <1>2, <1>3, <1>4, <1>5, <1>6, <1>7 DEF Typed
  <1> QED
    BY <1>1, <1>4, <1>5, <1>8, OtherStepOK

\* A call that deletes a timeline.
LEMMA DeleteTimelineOK ==
    ASSUME IInv, NEW do, Here(do), NEW tl \in Tls, DeleteTimeline(do, tl)
    PROVE  IInv'
  <1>1. Typed /\ up /\ op.todo # << >>
    BY TypedOK DEF IInv, Here
  <1>2. PICK ok \in BOOLEAN, effect \in BOOLEAN :
           /\ Outcome(ok)
           /\ timelines' = IF effect THEN timelines \ {tl} ELSE timelines
           /\ hist' = IF ok THEN hist ELSE [hist EXCEPT !.excused = @ \cup {tl}]
           /\ Advance(do, ok)
    BY DEF DeleteTimeline
  <1>3. UNCHANGED <<table, branches, legacy, up, queue, primary, drawn, ops>>
    BY DEF DeleteTimeline
  <1>4. op' \in Operations /\ op'.parent = op.parent
    BY <1>1, <1>2, EndTyped DEF Advance
  <1>5. faults' \in 0..MaxFaults
    BY <1>1, <1>2, OutcomeTyped DEF Typed
  <1>6. hist' \in Hists
    BY <1>1, <1>2 DEF Typed, Hists
  <1>7. Typed'
    BY <1>1, <1>2, <1>3, <1>4, <1>5, <1>6 DEF Typed
  <1> QED
    BY <1>1, <1>3, <1>4, <1>7, OtherStepOK

\* The head of the plan is a step, on a branch.
LEMMA HeadTyped ==
    ASSUME IInv, NEW do, Here(do)
    PROVE  On \in Names /\ (do = "row" => On \in Others)
  <1>1. op.todo \in Seq(Steps) /\ op.todo # << >>
    BY TypedOK DEF IInv, Typed, Operations, Here
  <1>2. Head(op.todo) \in Steps
    BY <1>1
  <1> QED
    BY <1>2 DEF On, Steps, Here

\* Changing a row without touching its state or its parent leaves rows that can be loaded.
LEMMA ChangedRowLoads ==
    ASSUME NEW rows \in RowSets, Whole(rows), NEW n \in Names, NEW r \in Row,
           r.state = rows[n].state, r.parent = rows[n].parent, NEW p \in Names,
           rows[p].state # "absent"
    PROVE  /\ [rows EXCEPT ![n] = r] \in RowSets
           /\ Whole([rows EXCEPT ![n] = r])
           /\ [rows EXCEPT ![n] = r][p].state # "absent"
           /\ [rows EXCEPT ![n] = r] # NoRows
  <1> DEFINE next == [rows EXCEPT ![n] = r]
  <1>1. next \in RowSets
    BY DEF RowSets
  <1>2. \A m \in Names : next[m].state = rows[m].state /\ next[m].parent = rows[m].parent
    BY DEF RowSets
  <1>3. \A m \in Names : rows[m].parent \in Names
    BY DEF RowSets, Row
  <1> HIDE DEF next
  <1>4. Whole(next)
    BY <1>2, <1>3, Facts DEF Whole, Loadable, ActiveIn
  <1>5. next # NoRows
    BY <1>4, Facts DEF Whole, Loadable
  <1> QED
    BY <1>1, <1>2, <1>4, <1>5 DEF next

\* The steps that fill in a field of a row.
LEMMA FieldStepOK ==
    ASSUME IInv, NEW do, Here(do), NEW r \in Row,
           r.state = branches[On].state, r.parent = branches[On].parent,
           StoreStep(do, [branches EXCEPT ![On] = r])
    PROVE  IInv'
  <1>1. Typed /\ up /\ Whole(branches) /\ branches[op.parent].state # "absent"
    BY TypedOK DEF IInv, Here, StoreSound
  <1>2. On \in Names /\ op.parent \in Names
    BY <1>1, HeadTyped DEF Typed, Operations
  <1>3. branches \in RowSets
    BY <1>1 DEF Typed
  <1> DEFINE next == [branches EXCEPT ![On] = r]
  <1>4. /\ next \in RowSets /\ Whole(next)
        /\ next[op.parent].state # "absent" /\ next # NoRows
    BY <1>1, <1>2, <1>3, ChangedRowLoads
  <1>5. StoreStep(do, next)
    OBVIOUS
  <1> HIDE DEF next
  <1> QED
    BY <1>4, <1>5, StoreStepOK

\* An operation begins.
LEMMA BeginOK ==
    ASSUME IInv, NEW kind \in Kinds, NEW n \in Names, NEW p \in Names,
           branches[p].state # "absent",
           kind \in {"create", "restore"} => n \in Others,
           Begin(kind, n, p), queue' \subseteq Names, ops' \in 0..MaxOps
    PROVE  IInv'
  <1>1. Typed /\ StoreSound /\ up
    BY TypedOK DEF IInv, Begin
  <1>2. Plan(kind, n, p) \in Seq(Steps)
    BY PlanTyped
  <1>3. branches \in RowSets /\ branches[n].tl \in Tls /\ \A m \in Names : branches[m].tl \in Tls
    BY <1>1 DEF Typed, RowSets, Row
  <1>4. op' = [NoOp EXCEPT !.kind = kind, !.name = n, !.parent = p,
                           !.todo = Plan(kind, n, p), !.prev = branches[n].tl]
    BY DEF Begin
  <1>5. op' = [kind |-> kind, name |-> n, parent |-> p, todo |-> Plan(kind, n, p),
               prev |-> branches[n].tl, made |-> 0, new |-> 0, failed |-> FALSE, comp |-> FALSE]
    BY <1>4 DEF NoOp
  <1>6. op' \in Operations /\ op'.parent = p
    BY <1>2, <1>3, <1>5, Facts DEF Operations
  <1>7. Attached(branches) \subseteq Tls
    BY <1>3 DEF Attached, ListActive
  <1>8. hist' = [hist EXCEPT !.excused = @ \cup Attached(branches)]
    BY DEF Begin
  <1>9. hist' \in Hists
    BY <1>1, <1>7, <1>8 DEF Typed, Hists
  <1>10. UNCHANGED <<table, branches, legacy, up, primary, timelines, drawn, faults>>
    BY DEF Begin, external
  <1>11. Typed'
    BY <1>1, <1>6, <1>9, <1>10 DEF Typed
  <1>12. StoreSound'
    BY <1>1, <1>6, <1>10 DEF StoreSound, Whole, Loadable, ActiveIn, Active
  <1> QED
    BY <1>11, <1>12, TypedOK DEF IInv, TypeOK, Typed, RowSets, Operations, Hists

\* The invariant is kept.
LEMMA StepOK == IInv /\ [Next]_vars => IInv'
  <1> SUFFICES ASSUME IInv, [Next]_vars PROVE IInv'
    OBVIOUS
  <1>a. Typed /\ StoreSound
    BY TypedOK DEF IInv
  <1>1. CASE Start
    <2>1. /\ ~up /\ Loadable(StartRows) /\ up' = TRUE /\ table' = StartRows
          /\ branches' = StartRows /\ queue' = ListActive(StartRows)
          /\ UNCHANGED <<legacy, op, primary, timelines, drawn, ops, faults, hist>>
      BY <1>1 DEF Start, external
    <2>2. DefaultRows \in RowSets
      BY Facts DEF DefaultRows, RowSets
    <2>3. StartRows \in RowSets
      BY <1>a, <2>2 DEF StartRows, Typed
    <2>4. Whole(StartRows)
      <3>1. \A n \in Names \ {Main} : DefaultRows[n] = Absent
        BY DEF DefaultRows, NoRows
      <3>2. DefaultRows[Main] = NewRow(Main, 0, FALSE)
        BY Facts DEF DefaultRows, NoRows
      <3>3. Whole(DefaultRows)
        BY <3>1, <3>2, Facts DEF Whole, Loadable, ActiveIn, Absent, NewRow
      <3> QED
        BY <1>a, <3>3 DEF StartRows, StoreSound
    <2>5. ListActive(StartRows) \subseteq Names
      BY DEF ListActive
    <2>6. Typed'
      BY <1>a, <2>1, <2>3, <2>5 DEF Typed
    <2>7. op = NoOp /\ op.parent = Main
      BY <1>a, <2>1 DEF StoreSound, NoOp
    <2>8. StartRows[Main].state # "absent"
      BY <2>1 DEF Loadable, ActiveIn
    <2>9. StoreSound'
      BY <1>a, <2>1, <2>4, <2>7, <2>8 DEF StoreSound, Whole, Loadable, ActiveIn
    <2> QED
      BY <2>6, <2>9 DEF IInv, TypeOK, Typed, RowSets, Operations, Hists
  <1>2. CASE PublishExisting
    <2>1. PICK n \in queue : queue' = queue \ {n} /\ Begin("startup", n, Main) /\ UNCHANGED ops
      BY <1>2 DEF PublishExisting
    <2>2. n \in Names /\ queue' \subseteq Names /\ ops' \in 0..MaxOps
      BY <1>a, <2>1 DEF Typed
    <2>3. branches[Main].state # "absent"
      BY <1>a, <2>1 DEF Begin, StoreSound, Whole, Loadable, ActiveIn
    <2>4. "startup" \in Kinds
      BY DEF Kinds
    <2> QED
      BY <2>1, <2>2, <2>3, <2>4, Facts, BeginOK
  <1>3. CASE CreateBranch
    <2>1. PICK n \in Others, p \in Names : Active(p) /\ Request("create", n, p)
      BY <1>3 DEF CreateBranch
    <2>2. Begin("create", n, p) /\ queue' \subseteq Names /\ ops' \in 0..MaxOps
      BY <1>a, <2>1, Facts DEF Request, Typed
    <2>3. branches[p].state # "absent"
      BY <2>1 DEF Active, ActiveIn
    <2>4. "create" \in Kinds /\ n \in Names
      BY Facts DEF Kinds
    <2> QED
      BY <2>2, <2>3, <2>4, BeginOK
  <1>4. CASE RestoreBranch
    <2>1. PICK n \in Others, p \in Names : Active(p) /\ Request("restore", n, p)
      BY <1>4 DEF RestoreBranch
    <2>2. Begin("restore", n, p) /\ queue' \subseteq Names /\ ops' \in 0..MaxOps
      BY <1>a, <2>1, Facts DEF Request, Typed
    <2>3. branches[p].state # "absent"
      BY <2>1 DEF Active, ActiveIn
    <2>4. "restore" \in Kinds /\ n \in Names
      BY Facts DEF Kinds
    <2> QED
      BY <2>2, <2>3, <2>4, BeginOK
  <1>5. CASE ResetBranch
    <2>1. PICK n \in Others : Active(n) /\ Request("reset", n, branches[n].parent)
      BY <1>5 DEF ResetBranch
    <2> DEFINE p == branches[n].parent
    <2>2. Begin("reset", n, p) /\ queue' \subseteq Names /\ ops' \in 0..MaxOps
      BY <1>a, <2>1, Facts DEF Request, Typed
    <2>3. n \in Names /\ p \in Names
      BY <1>a, Facts DEF Typed, RowSets, Row
    <2>4. branches[p].state # "absent"
      BY <1>a, <2>1, <2>2, <2>3 DEF Begin, StoreSound, Whole, Loadable, Active, ActiveIn
    <2>5. "reset" \in Kinds
      BY DEF Kinds
    <2> HIDE DEF p
    <2> QED
      BY <2>2, <2>3, <2>4, <2>5, BeginOK
  <1>6. CASE DeleteBranch \/ PublishBranch \/ UnpublishBranch \/ SelectBranch
    <2>1. PICK n \in Names, kind \in {"delete", "publish", "unpublish", "select"} :
             Request(kind, n, Main)
      BY <1>6 DEF DeleteBranch, PublishBranch, UnpublishBranch, SelectBranch
    <2>2. Begin(kind, n, Main) /\ queue' \subseteq Names /\ ops' \in 0..MaxOps
      BY <1>a, <2>1, Facts DEF Request, Typed
    <2>3. branches[Main].state # "absent"
      BY <1>a, <2>2 DEF Begin, StoreSound, Whole, Loadable, ActiveIn
    <2>4. kind \in Kinds /\ kind \notin {"create", "restore"}
      BY DEF Kinds
    <2> QED
      BY <2>2, <2>3, <2>4, Facts, BeginOK
  <1>7. CASE CreateRow
    <2> DEFINE next == [branches EXCEPT ![On] = CreatedRow(On)]
    <2>1. Here("row") /\ StoreStep("row", next)
      BY <1>7 DEF CreateRow
    <2>2. On \in Others /\ On \in Names /\ up
      BY <2>1, HeadTyped DEF Here
    <2>3. /\ branches \in RowSets /\ Whole(branches)
          /\ op.parent \in Names /\ op.new \in Tls /\ branches[op.parent].state # "absent"
      BY <1>a, <2>2 DEF Typed, StoreSound, Operations
    <2>4. /\ CreatedRow(On) \in Row /\ CreatedRow(On).state = "active"
          /\ CreatedRow(On).parent = op.parent
      BY <2>3, Facts DEF CreatedRow, NewRow
    <2>5. next \in RowSets
      BY <2>2, <2>3, <2>4 DEF RowSets
    <2>6. \A m \in Names : next[m] = IF m = On THEN CreatedRow(On) ELSE branches[m]
      BY <2>2, <2>3 DEF RowSets
    <2>7. \A m \in Names : branches[m].parent \in Names
      BY <2>3 DEF RowSets, Row
    <2> HIDE DEF next
    <2>8. next[op.parent].state # "absent"
      BY <2>3, <2>4, <2>6
    <2>9. Whole(next)
      BY <2>2, <2>3, <2>4, <2>6, <2>7, <2>8, Facts DEF Whole, Loadable, ActiveIn
    <2>10. next # NoRows
      BY <2>9, Facts DEF Whole, Loadable
    <2> QED
      BY <2>1, <2>5, <2>8, <2>9, <2>10, StoreStepOK
  <1>8. CASE EnsurePassword
    <2>1. On \in Names /\ Here("password")
      BY <1>8, HeadTyped DEF EnsurePassword
    <2> DEFINE r == [branches[On] EXCEPT !.pw = TRUE]
    <2>2. branches[On] \in Row
      BY <1>a, <2>1 DEF Typed, RowSets
    <2>3. r \in Row /\ r.state = branches[On].state /\ r.parent = branches[On].parent
      BY <2>2 DEF Row
    <2>4. [branches EXCEPT ![On].pw = TRUE] = [branches EXCEPT ![On] = r]
      OBVIOUS
    <2>5. Skip("password", TRUE) \/ StoreStep("password", [branches EXCEPT ![On] = r])
      BY <1>8, <2>4 DEF EnsurePassword
    <2> HIDE DEF r
    <2> QED
      BY <2>1, <2>3, <2>5, FieldStepOK, SkipOK
  <1>9. CASE Bind
    <2>1. On \in Names /\ Here("bind")
      BY <1>9, HeadTyped DEF Bind
    <2> DEFINE r == [branches[On] EXCEPT !.tl = op.made]
    <2>2. branches[On] \in Row /\ op.made \in Tls /\ op.new \in Tls /\ op.prev \in Tls
      BY <1>a, <2>1 DEF Typed, RowSets, Operations
    <2>3. r \in Row /\ r.state = branches[On].state /\ r.parent = branches[On].parent
      BY <2>2 DEF Row
    <2>4. [branches EXCEPT ![On].tl = op.made] = [branches EXCEPT ![On] = r]
      OBVIOUS
    <2>5. StoreStep("bind", [branches EXCEPT ![On] = r])
      BY <1>9, <2>4 DEF Bind
    <2> HIDE DEF r
    <2> QED
      BY <2>1, <2>3, <2>5, FieldStepOK
  <1>10. CASE Adopt
    <2>1. On \in Names /\ Here("adopt")
      BY <1>10, HeadTyped DEF Adopt
    <2> DEFINE r == [branches[On] EXCEPT !.tl = op.made]
    <2>2. branches[On] \in Row /\ op.made \in Tls /\ op.new \in Tls /\ op.prev \in Tls
      BY <1>a, <2>1 DEF Typed, RowSets, Operations
    <2>3. r \in Row /\ r.state = branches[On].state /\ r.parent = branches[On].parent
      BY <2>2 DEF Row
    <2>4. [branches EXCEPT ![On].tl = op.made] = [branches EXCEPT ![On] = r]
      OBVIOUS
    <2>5. StoreStep("adopt", [branches EXCEPT ![On] = r])
      BY <1>10, <2>4 DEF Adopt
    <2> HIDE DEF r
    <2> QED
      BY <2>1, <2>3, <2>5, FieldStepOK
  <1>11. CASE Publish
    <2>1. On \in Names /\ Here("publish")
      BY <1>11, HeadTyped DEF Publish
    <2> DEFINE r == [branches[On] EXCEPT !.pub = TRUE]
    <2>2. branches[On] \in Row /\ op.made \in Tls /\ op.new \in Tls /\ op.prev \in Tls
      BY <1>a, <2>1 DEF Typed, RowSets, Operations
    <2>3. r \in Row /\ r.state = branches[On].state /\ r.parent = branches[On].parent
      BY <2>2 DEF Row
    <2>4. [branches EXCEPT ![On].pub = TRUE] = [branches EXCEPT ![On] = r]
      OBVIOUS
    <2>5. StoreStep("publish", [branches EXCEPT ![On] = r])
      BY <1>11, <2>4 DEF Publish
    <2> HIDE DEF r
    <2> QED
      BY <2>1, <2>3, <2>5, FieldStepOK
  <1>12. CASE Unpublish
    <2>1. On \in Names /\ Here("unpublish")
      BY <1>12, HeadTyped DEF Unpublish
    <2> DEFINE r == [branches[On] EXCEPT !.pub = FALSE]
    <2>2. branches[On] \in Row /\ op.made \in Tls /\ op.new \in Tls /\ op.prev \in Tls
      BY <1>a, <2>1 DEF Typed, RowSets, Operations
    <2>3. r \in Row /\ r.state = branches[On].state /\ r.parent = branches[On].parent
      BY <2>2 DEF Row
    <2>4. [branches EXCEPT ![On].pub = FALSE] = [branches EXCEPT ![On] = r]
      OBVIOUS
    <2>5. StoreStep("unpublish", [branches EXCEPT ![On] = r])
      BY <1>12, <2>4 DEF Unpublish
    <2> HIDE DEF r
    <2> QED
      BY <2>1, <2>3, <2>5, FieldStepOK
  <1>13. CASE ReplaceTimeline
    <2>1. On \in Names /\ Here("replace")
      BY <1>13, HeadTyped DEF ReplaceTimeline
    <2> DEFINE r == [branches[On] EXCEPT !.tl = op.new]
    <2>2. branches[On] \in Row /\ op.made \in Tls /\ op.new \in Tls /\ op.prev \in Tls
      BY <1>a, <2>1 DEF Typed, RowSets, Operations
    <2>3. r \in Row /\ r.state = branches[On].state /\ r.parent = branches[On].parent
      BY <2>2 DEF Row
    <2>4. [branches EXCEPT ![On].tl = op.new] = [branches EXCEPT ![On] = r]
      OBVIOUS
    <2>5. StoreStep("replace", [branches EXCEPT ![On] = r])
      BY <1>13, <2>4 DEF ReplaceTimeline
    <2> HIDE DEF r
    <2> QED
      BY <2>1, <2>3, <2>5, FieldStepOK
  <1>14. CASE RestoreTimeline
    <2>1. On \in Names /\ Here("restore")
      BY <1>14, HeadTyped DEF RestoreTimeline
    <2> DEFINE r == [branches[On] EXCEPT !.tl = op.prev]
    <2>2. branches[On] \in Row /\ op.made \in Tls /\ op.new \in Tls /\ op.prev \in Tls
      BY <1>a, <2>1 DEF Typed, RowSets, Operations
    <2>3. r \in Row /\ r.state = branches[On].state /\ r.parent = branches[On].parent
      BY <2>2 DEF Row
    <2>4. [branches EXCEPT ![On].tl = op.prev] = [branches EXCEPT ![On] = r]
      OBVIOUS
    <2>5. Skip("restore", FALSE) \/ StoreStep("restore", [branches EXCEPT ![On] = r])
      BY <1>14, <2>4 DEF RestoreTimeline
    <2> HIDE DEF r
    <2> QED
      BY <2>1, <2>3, <2>5, FieldStepOK, SkipOK
  <1>15. CASE SetResolved
    <2>1. On \in Names /\ Here("attach") /\ StoreStep("attach", branches) /\ up
      BY <1>15, HeadTyped DEF SetResolved, Here
    <2>2. branches \in RowSets /\ Whole(branches) /\ branches[op.parent].state # "absent"
      BY <1>a, <2>1 DEF Typed, StoreSound
    <2>3. branches # NoRows
      BY <2>2, Facts DEF Whole, Loadable
    <2> QED
      BY <2>1, <2>2, <2>3, StoreStepOK
  <1>16. CASE SoftDelete
    <2>1. On \in Names /\ Here("delete") /\ up
      BY <1>16, HeadTyped DEF SoftDelete, Here
    <2>2. CASE On = Main
      BY <1>16, <2>1, <2>2, SkipOK DEF SoftDelete
    <2>3. CASE On # Main
      <3> DEFINE r == [branches[On] EXCEPT !.state = "deleted"]
                 next == [branches EXCEPT ![On] = r]
      <3>1. StoreStep("delete", SoftDeleted(On)) /\ SoftDeleted(On) = next
        BY <1>16, <2>3 DEF SoftDelete, SoftDeleted
      <3>2. /\ branches \in RowSets /\ Whole(branches)
            /\ op.parent \in Names /\ branches[op.parent].state # "absent"
        BY <1>a, <2>1 DEF Typed, StoreSound, Operations
      <3>3. branches[On] \in Row
        BY <2>1, <3>2 DEF RowSets
      <3>4. r \in Row /\ r.state = "deleted" /\ r.parent = branches[On].parent
        BY <3>3 DEF Row
      <3> HIDE DEF r
      <3>6. next \in RowSets
        BY <2>1, <3>2, <3>4 DEF RowSets
      <3>7. \A m \in Names : next[m] = IF m = On THEN r ELSE branches[m]
        BY <2>1, <3>2 DEF RowSets
      <3>8. \A m \in Names : branches[m].parent \in Names
        BY <3>2 DEF RowSets, Row
      <3> HIDE DEF next
      <3>9. next[op.parent].state # "absent"
        BY <3>2, <3>4, <3>7
      <3>10. branches[branches[On].parent].state # "absent"
        BY <2>1, <3>2, Facts DEF Whole, Loadable, ActiveIn
      <3>11. Whole(next)
        BY <2>1, <2>3, <3>2, <3>4, <3>7, <3>8, <3>10, Facts DEF Whole, Loadable, ActiveIn
      <3>12. next # NoRows
        BY <3>11, Facts DEF Whole, Loadable
      <3>13. StoreStep("delete", next)
        BY <3>1
      <3> QED
        BY <2>1, <3>6, <3>9, <3>11, <3>12, <3>13, StoreStepOK
    <2> QED
      BY <2>2, <2>3
  <1>17. CASE BranchTimeline
    <2> DEFINE next == [Done EXCEPT !.new = drawn']
    <2>1. Here("timeline") /\ CreateTimeline("timeline", next)
      BY <1>17 DEF BranchTimeline
    <2>2. Done \in Operations /\ Done.parent = op.parent
      BY <2>1, EndTyped DEF Here
    <2>3. (drawn' \in Tls => next \in Operations) /\ next.parent = op.parent
      BY <2>2 DEF Operations
    <2> HIDE DEF next
    <2> QED
      BY <2>1, <2>3, CreateTimelineOK
  <1>18. CASE Refresh
    <2>1. /\ Here("refresh") /\ up /\ op.todo # << >>
          /\ \E ok \in BOOLEAN : Outcome(ok) /\ Advance("refresh", ok)
          /\ UNCHANGED <<table, branches, legacy, up, queue, primary, timelines, drawn, ops, hist>>
      BY <1>18 DEF Refresh, Here, external
    <2>2. op' \in Operations /\ op'.parent = op.parent
      BY <2>1, EndTyped DEF Advance
    <2>3. faults' \in 0..MaxFaults
      BY <1>a, <2>1, OutcomeTyped DEF Typed
    <2>4. Typed'
      BY <1>a, <2>1, <2>2, <2>3 DEF Typed
    <2> QED
      BY <2>1, <2>2, <2>4, OtherStepOK
  <1>19. CASE Switch
    <2>1. PICK ok \in BOOLEAN, effect \in BOOLEAN :
             /\ Outcome(ok)
             /\ primary' = IF effect THEN [name |-> On, tl |-> branches[On].tl] ELSE primary
             /\ hist' = IF ok /\ ~op.failed THEN [hist EXCEPT !.adrift = FALSE] ELSE hist
             /\ Advance("switch", ok)
      BY <1>19 DEF Switch
    <2>2. On \in Names /\ up /\ op.todo # << >>
      BY <1>19, HeadTyped DEF Switch, Here
    <2>3. UNCHANGED <<table, branches, legacy, up, queue, timelines, drawn, ops>>
      BY <1>19 DEF Switch
    <2>4. op' \in Operations /\ op'.parent = op.parent
      BY <2>1, <2>2, EndTyped DEF Advance
    <2>5. faults' \in 0..MaxFaults
      BY <1>a, <2>1, OutcomeTyped DEF Typed
    <2>6. branches[On].tl \in Tls
      BY <1>a, <2>2 DEF Typed, RowSets, Row
    <2>7. primary' \in [name : Names, tl : Tls]
      BY <1>a, <2>1, <2>2, <2>6 DEF Typed
    <2>8. hist' \in Hists
      BY <1>a, <2>1 DEF Typed, Hists
    <2>9. Typed'
      BY <1>a, <2>3, <2>4, <2>5, <2>7, <2>8 DEF Typed
    <2> QED
      BY <2>2, <2>3, <2>4, <2>9, OtherStepOK
  <1>20. CASE Discard
    <2>1. Here("discard") /\ DeleteTimeline("discard", op.made) /\ op.made \in Tls
      BY <1>a, <1>20 DEF Discard, Typed, Operations
    <2> QED
      BY <2>1, DeleteTimelineOK
  <1>21. CASE Cleanup
    <2>1. Here("cleanup") /\ op.new \in Tls
      BY <1>a, <1>21 DEF Cleanup, Typed, Operations
    <2>2. Skip("cleanup", TRUE) \/ DeleteTimeline("cleanup", op.new)
      BY <1>21 DEF Cleanup
    <2> QED
      BY <2>1, <2>2, SkipOK, DeleteTimelineOK
  <1>22. CASE Finish
    <2>1. /\ up /\ op' = NoOp
          /\ UNCHANGED <<table, branches, legacy, up, queue, primary, timelines, drawn, ops, faults>>
      BY <1>22 DEF Finish, external
    <2> DEFINE before == IF op.failed /\ ~op.comp THEN hist.before ELSE branches
               excused == IF op.comp THEN hist.excused \cup {op.made, op.new} ELSE hist.excused
               adrift == hist.adrift \/ op.comp \/ ~Active(primary.name)
    <2>2. before \in RowSets /\ excused \subseteq Tls
      BY <1>a DEF Typed, Operations, Hists
    <2>3. hist' = [hist EXCEPT !.before = before, !.excused = excused, !.adrift = adrift]
      BY <1>22 DEF Finish
    <2>a. adrift \in BOOLEAN
      BY <1>a DEF Typed, Hists, Operations
    <2> HIDE DEF before, excused, adrift
    <2>4. hist' \in Hists
      BY <1>a, <2>2, <2>3, <2>a DEF Typed, Hists
    <2>5. Typed'
      BY <1>a, <2>1, <2>4, NoOpTyped DEF Typed
    <2>6. branches[NoOp.parent].state # "absent"
      BY <1>a, <2>1 DEF StoreSound, Whole, Loadable, ActiveIn, NoOp
    <2>7. StoreSound'
      BY <1>a, <2>1, <2>6 DEF StoreSound, Whole, Loadable, ActiveIn
    <2> QED
      BY <2>5, <2>7 DEF IInv, TypeOK, Typed, RowSets, Operations, Hists
  <1>23. CASE Crash
    <2>1. /\ up' = FALSE /\ branches' = NoRows /\ queue' = {} /\ op' = NoOp
          /\ UNCHANGED <<table, legacy, primary, timelines, drawn, ops>> /\ Fault
      BY <1>23 DEF Crash, external
    <2>2. faults' \in 0..MaxFaults
      BY <1>a, <2>1, Facts DEF Fault, Typed
    <2> DEFINE before == IF op = NoOp THEN hist.before ELSE table
               excused == hist.excused \cup {op.made, op.new}
               adrift == hist.adrift \/ op.kind \in {"reset", "select"}
    <2>3. before \in RowSets /\ excused \subseteq Tls
      BY <1>a DEF Typed, Hists, Operations
    <2>4. adrift \in BOOLEAN
      BY <1>a DEF Typed, Hists
    <2>5. hist' = [hist EXCEPT !.before = before, !.excused = excused, !.adrift = adrift]
      BY <1>23 DEF Crash
    <2> HIDE DEF before, excused, adrift
    <2>6. hist' \in Hists
      BY <1>a, <2>3, <2>4, <2>5 DEF Typed, Hists
    <2>7. Typed'
      BY <1>a, <2>1, <2>2, <2>6, NoOpTyped, Facts DEF Typed
    <2>8. StoreSound'
      BY <1>a, <2>1 DEF StoreSound, Whole, Loadable, ActiveIn
    <2> QED
      BY <2>7, <2>8 DEF IInv, TypeOK, Typed, RowSets, Operations, Hists
  <1>24. CASE Resolve
    <2>1. Here("resolve") /\ On \in Names /\ up
      BY <1>24, HeadTyped DEF Resolve, Here
    <2> DEFINE parent == branches[On].parent
               begun == [Prepend("bind", On) EXCEPT !.made = drawn']
    <2>2. parent \in Names /\ op \in Operations
      BY <1>a, <2>1 DEF Typed, RowSets, Row
    <2>3. "bind" \in Deeds \ {"row"} /\ "adopt" \in Deeds \ {"row"} /\ "resolve" \in Deeds \ {"row"}
      BY DEF Deeds
    <2>4. /\ drawn' \in Tls => begun \in Operations
          /\ begun.parent = op.parent
      <3>1. drawn' \in Tls => begun \in Operations
        BY <2>1, <2>2, <2>3, PrependTyped
      <3>2. Prepend("bind", On) \in Operations /\ Prepend("bind", On).parent = op.parent
        BY <2>1, <2>2, <2>3, PrependTyped, Facts
      <3> QED
        BY <3>1, <3>2 DEF Operations
    <2>5. CASE Skip("resolve", FALSE) \/ Skip("resolve", TRUE)
      BY <2>1, <2>5, SkipOK
    <2>6. CASE CreateTimeline("resolve", begun)
      <3> HIDE DEF begun
      <3> QED
        BY <2>1, <2>4, <2>6, CreateTimelineOK
    <2>7. ASSUME NEW tl \in timelines, op' = [Prepend("adopt", On) EXCEPT !.made = tl],
                 UNCHANGED <<table, branches, legacy, up, queue, external, ops, faults, hist>>
          PROVE  IInv'
      <3>1. tl \in Tls
        BY <1>a DEF Typed
      <3>2. op' \in Operations /\ op'.parent = op.parent
        BY <2>1, <2>2, <2>3, <2>7, <3>1, PrependTyped
      <3>3. Typed'
        BY <1>a, <2>7, <3>2 DEF Typed, external
      <3> QED
        BY <2>1, <2>7, <3>2, <3>3, OtherStepOK
    <2>8. CASE /\ op' = Prepend("resolve", parent)
               /\ UNCHANGED <<table, branches, legacy, up, queue, external, ops, faults, hist>>
      <3>1. op' \in Operations /\ op'.parent = op.parent
        BY <2>2, <2>3, <2>8, PrependTyped, Facts
      <3>2. Typed'
        BY <1>a, <2>8, <3>1 DEF Typed, external
      <3> QED
        BY <2>1, <2>8, <3>1, <3>2, OtherStepOK
    <2>9. \/ Skip("resolve", FALSE) \/ Skip("resolve", TRUE)
          \/ ResolveMain \/ ResolveChild(parent)
          \/ /\ op' = Prepend("resolve", parent)
             /\ UNCHANGED <<table, branches, legacy, up, queue, external, ops, faults, hist>>
      BY <1>24 DEF Resolve
    <2>12. CASE /\ Fault /\ Advance("resolve", FALSE)
                /\ UNCHANGED <<table, branches, legacy, up, queue, external, ops, hist>>
      <3>1. op' \in Operations /\ op'.parent = op.parent
        BY <2>1, <2>12, EndTyped DEF Advance, Here
      <3>2. faults' \in 0..MaxFaults
        BY <1>a, <2>12, Facts DEF Fault, Typed
      <3>3. Typed'
        BY <1>a, <2>12, <3>1, <3>2 DEF Typed, external
      <3> QED
        BY <2>1, <2>12, <3>1, <3>3, OtherStepOK
    <2>10. CASE ResolveMain
      BY <2>6, <2>7, <2>10, <2>12 DEF ResolveMain
    <2>11. CASE ResolveChild(parent)
      BY <2>6, <2>11 DEF ResolveChild
    <2> QED
      BY <2>5, <2>8, <2>9, <2>10, <2>11
  <1>25. CASE UNCHANGED vars
    BY <1>25 DEF vars, IInv, TypeOK, StoreSound, Whole, Loadable, ActiveIn, external
  <1> QED
    BY <1>1, <1>2, <1>3, <1>4, <1>5, <1>6, <1>7, <1>8, <1>9, <1>10, <1>11, <1>12, <1>13,
       <1>14, <1>15, <1>16, <1>17, <1>18, <1>19, <1>20, <1>21, <1>22, <1>23, <1>24, <1>25
    DEF Next, Requests, OperationStep

\* The legacy file can be loaded or is not there; everything else is empty.
LEMMA InitOK == Init => IInv
  <1> SUFFICES ASSUME Init PROVE IInv
    OBVIOUS
  <1>1. /\ table = NoRows /\ branches = NoRows /\ up = FALSE /\ queue = {} /\ op = NoOp
        /\ primary = [name |-> Main, tl |-> 0] /\ drawn \in Tls /\ timelines = 1..drawn
        /\ ops = 0 /\ faults = 0
        /\ hist = [before |-> NoRows, excused |-> timelines, adrift |-> FALSE]
    BY DEF Init
  <1>2. legacy = NoRows \/ (legacy \in RowSets /\ Whole(legacy))
    <2>1. ASSUME legacy \in LegacySnapshots PROVE legacy \in RowSets /\ Whole(legacy)
      <3>1. /\ legacy \in [Names -> Row] /\ Loadable(legacy)
            /\ \A n \in Names : legacy[n].state = "absent" => legacy[n] = Absent
        BY <2>1 DEF LegacySnapshots
      <3>2. Absent.parent = Main
        BY DEF Absent
      <3> QED
        BY <3>1, <3>2 DEF RowSets, Whole
    <2> QED
      BY <2>1, LegacyAssumption DEF Init
  <1>6. timelines \subseteq Tls \ {0}
    BY <1>1, Facts DEF Tls
  <1>3. hist \in Hists
    BY <1>1, <1>6, Facts DEF Hists
  <1>4. Typed
    <2>1. /\ table \in RowSets /\ branches \in RowSets /\ legacy \in RowSets /\ up \in BOOLEAN
          /\ op \in Operations
      BY <1>1, <1>2, NoOpTyped, Facts
    <2>2. queue \subseteq Names /\ primary \in [name : Names, tl : Tls]
      BY <1>1, Facts
    <2>3. drawn \in Tls /\ ops \in 0..MaxOps /\ faults \in 0..MaxFaults
      BY <1>1, Facts
    <2> QED
      BY <1>3, <1>6, <2>1, <2>2, <2>3 DEF Typed
  <1>5. StoreSound
    BY <1>1, <1>2 DEF StoreSound
  <1> QED
    BY <1>4, <1>5, TypedOK DEF IInv

\* The invariant holds of every state of every behaviour.
LEMMA Invariance == Spec => []IInv
  BY InitOK, StepOK, PTL DEF Spec

-----------------------------------------------------------------------------
(* The theorems *)

\* Rows, timelines, plans and what the properties remember keep their types; no plan
\* ever makes a row for main.
THEOREM TypeCorrect == Spec => []TypeOK
  <1>1. IInv => TypeOK
    BY DEF IInv
  <1> QED
    BY <1>1, Invariance, PTL

\* While the controller runs its map equals the table, and whatever failed or was cut
\* short, the next start can load the table: main is in it and every parent is.
THEOREM StoreAlwaysLoads == Spec => []StoreRecoverable
  <1>1. IInv => StoreRecoverable
    BY DEF IInv, StoreSound, Whole, StoreRecoverable
  <1> QED
    BY <1>1, Invariance, PTL

-----------------------------------------------------------------------------
(* Plans: what an operation o has still to do *)

\* The positions of its steps, the deeds that are left, and the next one.
Places(o) == 1..Len(o.todo)
Left(o) == {o.todo[i].do : i \in Places(o)}
First(o) == IF o.todo = << >> THEN "none" ELSE o.todo[1].do
Has(o, do, n) == \E i \in Places(o) : o.todo[i].do = do /\ o.todo[i].on = n
After(o, i, do) == \E j \in Places(o) : j > i /\ o.todo[j].do = do

New(o) == o.kind \in {"create", "restore"}
Climbing == {"resolve", "bind", "adopt"}

\* The deeds of an operation, and those that take its work back.
Doing(kind) ==
    CASE kind \in {"startup", "publish"} -> Climbing \cup {"password", "attach", "publish"}
      [] kind = "create" -> Climbing \cup {"row", "password", "attach", "publish"}
      [] kind = "restore" -> Climbing \cup {"timeline", "row", "password", "attach", "publish"}
      [] kind = "reset" -> Climbing \cup {"password", "timeline", "replace", "refresh", "switch"}
      [] kind = "delete" -> {"unpublish", "delete"}
      [] kind = "unpublish" -> {"unpublish"}
      [] kind = "select" -> Climbing \cup {"password", "switch"}
      [] OTHER -> {}
Undoing(kind) ==
    CASE kind \in {"create", "restore"} -> {"discard", "delete", "cleanup"}
      [] kind = "reset" -> {"discard", "restore", "refresh", "switch", "cleanup"}
      [] OTHER -> {"discard"}

\* A step is one that the operation takes, on the branch it concerns.
StepAt(o, i) ==
    /\ o.todo[i].do \in IF o.failed THEN Undoing(o.kind) ELSE Doing(o.kind)
    /\ o.todo[i].do \notin Climbing \cup {"timeline"} => o.todo[i].on = o.name
    /\ o.todo[i].do = "timeline" => o.todo[i].on = o.parent

\* What comes first and last, and what comes directly before or after what.
OrderAt(o, i) ==
    /\ o.todo[i].do \in {"bind", "adopt", "discard"} => i = 1
    /\ o.todo[i].do \in {"publish", "cleanup"} => i = Len(o.todo)
    /\ o.todo[i].do = "delete" /\ ~o.failed => i = Len(o.todo)
    /\ o.todo[i].do = "row" =>
          i = 1 \/ (o.kind = "restore" /\ o.todo[i - 1].do = "timeline")
    /\ o.todo[i].do = "replace" => i = 1 \/ o.todo[i - 1].do = "timeline"
    /\ o.todo[i].do = "timeline" => i = 1 \/ o.todo[i - 1] = Step("resolve", o.parent)
    /\ o.todo[i].do = "timeline" =>
          /\ i < Len(o.todo)
          /\ o.todo[i + 1].do = IF o.kind = "reset" THEN "replace" ELSE "row"
    /\ o.kind = "reset" /\ o.todo[i].do \in Climbing \cup {"password"} =>
          After(o, i, "timeline")
    /\ o.todo[i].do \in {"refresh", "switch"} =>
          ~After(o, i, "replace") /\ ~After(o, i, "restore")

\* Nothing is done twice but to resolve, and no climb comes to a branch again.
AllResolve(o, i, j) == \A k \in i..j : o.todo[k].do = "resolve"
DistinctAt(o, i, j) ==
    i < j /\ o.todo[i].do = o.todo[j].do =>
        /\ o.todo[i].do = "resolve"
        /\ AllResolve(o, i, j) => o.todo[i].on # o.todo[j].on

\* The climb of a reset is one from the parent.
FromParent(o, i) ==
    \E j \in Places(o) : j >= i /\ o.todo[j].on = o.parent /\ AllResolve(o, i, j)

StepsSound(o) == \A i \in Places(o) : StepAt(o, i)
OrderSound(o) == \A i \in Places(o) : OrderAt(o, i)
Distinct(o) == \A i, j \in Places(o) : DistinctAt(o, i, j)
ResetClimb(o) ==
    o.kind = "reset" =>
        \A i \in Places(o) : o.todo[i].do = "resolve" => FromParent(o, i)

PlanSound(o) == StepsSound(o) /\ OrderSound(o) /\ Distinct(o) /\ ResetClimb(o)

\* q is what is left of o after its next step.
Popped(o, q) ==
    /\ q.todo = Tail(o.todo)
    /\ q.kind = o.kind /\ q.name = o.name /\ q.parent = o.parent /\ q.failed = o.failed

\* q is o with a step put before its own.
Pushed(o, q, s) ==
    /\ q.todo = <<s>> \o o.todo
    /\ q.kind = o.kind /\ q.name = o.name /\ q.parent = o.parent /\ q.failed = o.failed

LEMMA TodoFacts ==
    ASSUME NEW o \in Operations
    PROVE  /\ Len(o.todo) \in Nat /\ Places(o) = DOMAIN o.todo
           /\ \A i \in Places(o) : o.todo[i] \in Steps
           /\ o.todo # << >> => Len(o.todo) >= 1 /\ Head(o.todo) = o.todo[1]
           /\ Len(o.todo) >= 1 => o.todo # << >>
  BY DEF Operations, Places

LEMMA PopFacts ==
    ASSUME NEW o \in Operations, NEW q, Popped(o, q), o.todo # << >>
    PROVE  /\ Len(o.todo) \in Nat /\ Len(o.todo) >= 1 /\ Len(q.todo) = Len(o.todo) - 1
           /\ \A i \in 1..(Len(o.todo) - 1) : q.todo[i] = o.todo[i + 1]
           /\ \A i \in 2..Len(o.todo) : o.todo[i] = q.todo[i - 1]
           /\ q.todo = << >> <=> Len(o.todo) = 1
  <1>1. o.todo \in Seq(Steps)
    BY DEF Operations
  <1>2. Tail(o.todo) \in Seq(Steps) /\ Len(Tail(o.todo)) = Len(o.todo) - 1
    BY <1>1
  <1>3. Tail(o.todo) = << >> <=> Len(Tail(o.todo)) = 0
    BY <1>2, EmptySeq
  <1>4. \A i \in 1..(Len(o.todo) - 1) : Tail(o.todo)[i] = o.todo[i + 1]
    BY <1>1
  <1>5. \A i \in 2..Len(o.todo) : o.todo[i] = Tail(o.todo)[i - 1]
    BY <1>1
  <1>6. Len(o.todo) \in Nat /\ Len(o.todo) >= 1
    BY <1>1
  <1> QED
    BY <1>2, <1>3, <1>4, <1>5, <1>6 DEF Popped

LEMMA PopPlan ==
    ASSUME NEW o \in Operations, NEW q, Popped(o, q), o.todo # << >>, PlanSound(o)
    PROVE  PlanSound(q)
  <1> DEFINE L == Len(o.todo)
  <1>1. /\ L \in Nat /\ L >= 1 /\ Places(o) = 1..L /\ Places(q) = 1..(L - 1)
        /\ Len(q.todo) = L - 1
        /\ \A i \in 1..(L - 1) : q.todo[i] = o.todo[i + 1]
        /\ \A i \in 2..L : o.todo[i] = q.todo[i - 1]
    BY PopFacts DEF Places
  <1>2. q.kind = o.kind /\ q.name = o.name /\ q.parent = o.parent /\ q.failed = o.failed
    BY DEF Popped
  <1> HIDE DEF L
  <1>a. ASSUME NEW i \in 1..(L - 1)
        PROVE  /\ i + 1 \in 1..L /\ i + 1 # 1 /\ (i + 1) - 1 = i
               /\ q.todo[i] = o.todo[i + 1]
               /\ i # 1 => i - 1 \in 1..(L - 1) /\ q.todo[i - 1] = o.todo[i]
               /\ i < L - 1 => q.todo[i + 1] = o.todo[(i + 1) + 1]
    <2>1. i # 1 => i - 1 \in 1..(L - 1) /\ (i - 1) + 1 = i
      BY <1>1
    <2>2. i < L - 1 => i + 1 \in 1..(L - 1)
      BY <1>1
    <2> QED
      BY <1>1, <2>1, <2>2
  <1>b. ASSUME NEW i \in 1..(L - 1), NEW j \in 1..(L - 1), AllResolve(q, i, j)
        PROVE  AllResolve(o, i + 1, j + 1)
    <2> SUFFICES ASSUME NEW k \in (i + 1)..(j + 1) PROVE o.todo[k].do = "resolve"
      BY DEF AllResolve
    <2>1. k \in 2..L /\ k - 1 \in i..j
      BY <1>1
    <2> QED
      BY <1>1, <1>b, <2>1 DEF AllResolve
  <1>c. ASSUME NEW i \in 1..(L - 1), NEW j \in 1..(L - 1), AllResolve(o, i + 1, j + 1)
        PROVE  AllResolve(q, i, j)
    <2> SUFFICES ASSUME NEW k \in i..j PROVE q.todo[k].do = "resolve"
      BY DEF AllResolve
    <2>1. k \in 1..(L - 1) /\ k + 1 \in (i + 1)..(j + 1) /\ q.todo[k] = o.todo[k + 1]
      BY <1>1
    <2> QED
      BY <1>c, <2>1 DEF AllResolve
  <1>3. StepsSound(q)
    <2> SUFFICES ASSUME NEW i \in 1..(L - 1) PROVE StepAt(q, i)
      BY <1>1 DEF StepsSound
    <2>1. StepAt(o, i + 1) /\ q.todo[i] = o.todo[i + 1]
      BY <1>1, <1>a DEF PlanSound, StepsSound
    <2> QED
      BY <1>2, <2>1 DEF StepAt
  <1>4. OrderSound(q)
    <2> SUFFICES ASSUME NEW i \in 1..(L - 1) PROVE OrderAt(q, i)
      BY <1>1 DEF OrderSound
    <2>1. OrderAt(o, i + 1)
      BY <1>1, <1>a DEF PlanSound, OrderSound
    <2>2. ASSUME NEW do, After(o, i + 1, do) PROVE After(q, i, do)
      <3>1. PICK j \in 1..L : j > i + 1 /\ o.todo[j].do = do
        BY <1>1, <2>2 DEF After
      <3>2. j - 1 \in 1..(L - 1) /\ j - 1 > i /\ (j - 1) + 1 = j
        BY <1>1, <3>1
      <3> QED
        BY <1>1, <3>1, <3>2 DEF After
    <2>5. ASSUME NEW do, After(q, i, do) PROVE After(o, i + 1, do)
      <3>1. PICK j \in 1..(L - 1) : j > i /\ q.todo[j].do = do
        BY <1>1, <2>5 DEF After
      <3>2. j + 1 \in 1..L /\ j + 1 > i + 1 /\ q.todo[j] = o.todo[j + 1]
        BY <1>1, <3>1
      <3> QED
        BY <1>1, <3>1, <3>2 DEF After
    <2>3. /\ i + 1 # 1 /\ (i + 1) - 1 = i /\ q.todo[i] = o.todo[i + 1]
          /\ i # 1 => q.todo[i - 1] = o.todo[i]
          /\ i < L - 1 => q.todo[i + 1] = o.todo[(i + 1) + 1]
      BY <1>a
    <2>4. (i + 1 = L => i = L - 1) /\ (i + 1 < L => i < L - 1)
      BY <1>1
    <2> QED
      BY <1>1, <1>2, <2>1, <2>2, <2>3, <2>4, <2>5 DEF OrderAt, L
  <1>5. Distinct(q)
    <2> SUFFICES ASSUME NEW i \in 1..(L - 1), NEW j \in 1..(L - 1) PROVE DistinctAt(q, i, j)
      BY <1>1 DEF Distinct
    <2>1. i + 1 \in 1..L /\ j + 1 \in 1..L /\ (i < j => i + 1 < j + 1)
      BY <1>1
    <2>2. DistinctAt(o, i + 1, j + 1)
      BY <1>1, <2>1 DEF PlanSound, Distinct
    <2>3. q.todo[i] = o.todo[i + 1] /\ q.todo[j] = o.todo[j + 1]
      BY <1>1
    <2> QED
      BY <1>b, <2>1, <2>2, <2>3 DEF DistinctAt
  <1>6. ResetClimb(q)
    <2> SUFFICES ASSUME o.kind = "reset", NEW i \in 1..(L - 1), q.todo[i].do = "resolve"
        PROVE  FromParent(q, i)
      BY <1>1, <1>2 DEF ResetClimb
    <2>1. FromParent(o, i + 1)
      <3>1. i + 1 \in 1..L /\ o.todo[i + 1].do = "resolve"
        BY <1>1, <1>a
      <3> QED
        BY <1>1, <3>1 DEF PlanSound, ResetClimb
    <2>2. PICK j \in 1..L : j >= i + 1 /\ o.todo[j].on = o.parent /\ AllResolve(o, i + 1, j)
      BY <1>1, <2>1 DEF FromParent
    <2>3. j - 1 \in 1..(L - 1) /\ j - 1 >= i /\ (j - 1) + 1 = j
      BY <1>1, <2>2
    <2>4. AllResolve(q, i, j - 1) /\ q.todo[j - 1].on = q.parent
      BY <1>1, <1>2, <1>c, <2>2, <2>3
    <2> QED
      BY <1>1, <2>3, <2>4 DEF FromParent
  <1> QED
    BY <1>3, <1>4, <1>5, <1>6 DEF PlanSound
\* What a step leaves: its deed is over, unless it resolves.
LEMMA PopLeft ==
    ASSUME NEW o \in Operations, NEW q, Popped(o, q), o.todo # << >>, Distinct(o)
    PROVE  /\ Left(o) = Left(q) \cup {First(o)}
           /\ First(o) # "resolve" => First(o) \notin Left(q)
           /\ q.todo = << >> <=> Left(q) = {}
           /\ q.todo # << >> => First(q) \in Left(q)
           /\ \A do, n : Has(q, do, n) => Has(o, do, n)
           /\ \A do, n : Has(o, do, n) => Has(q, do, n) \/ (First(o) = do /\ o.todo[1].on = n)
  <1> DEFINE L == Len(o.todo)
  <1>1. /\ L \in Nat /\ L >= 1 /\ Places(o) = 1..L /\ Places(q) = 1..(L - 1)
        /\ \A i \in 1..(L - 1) : q.todo[i] = o.todo[i + 1]
        /\ \A i \in 2..L : o.todo[i] = q.todo[i - 1]
        /\ q.todo = << >> <=> L = 1
        /\ First(o) = o.todo[1].do
    BY PopFacts DEF Places, First
  <1> HIDE DEF L
  <1>2. ASSUME NEW i \in 1..(L - 1) PROVE i + 1 \in 1..L /\ q.todo[i] = o.todo[i + 1]
    BY <1>1
  <1>3. ASSUME NEW i \in 1..L, i # 1 PROVE i - 1 \in 1..(L - 1) /\ o.todo[i] = q.todo[i - 1]
    <2>1. i \in 2..L
      BY <1>1, <1>3
    <2> QED
      BY <1>1, <2>1
  <1>4. 1 \in 1..L
    BY <1>1
  <1>5. Left(o) = Left(q) \cup {First(o)}
    <2>1. Left(q) \subseteq Left(o)
      <3>1. \A i \in 1..(L - 1) : q.todo[i].do \in Left(o)
        BY <1>1, <1>2 DEF Left
      <3> QED
        BY <1>1, <3>1 DEF Left
    <2>2. First(o) \in Left(o)
      BY <1>1, <1>4 DEF Left
    <2>3. ASSUME NEW i \in 1..L PROVE o.todo[i].do \in Left(q) \cup {First(o)}
      <3>1. CASE i = 1
        BY <1>1, <3>1
      <3>2. CASE i # 1
        BY <1>1, <1>3, <3>2 DEF Left
      <3> QED
        BY <3>1, <3>2
    <2> QED
      BY <1>1, <2>1, <2>2, <2>3 DEF Left
  <1>6. ASSUME First(o) # "resolve" PROVE First(o) \notin Left(q)
    <2> SUFFICES ASSUME NEW i \in 1..(L - 1), q.todo[i].do = First(o) PROVE FALSE
      BY <1>1 DEF Left
    <2>1. i + 1 \in 1..L /\ 1 < i + 1 /\ q.todo[i] = o.todo[i + 1]
      BY <1>1
    <2>2. DistinctAt(o, 1, i + 1)
      BY <1>1, <1>4, <2>1 DEF Distinct
    <2> QED
      BY <1>1, <1>6, <2>1, <2>2 DEF DistinctAt
  <1>7. q.todo = << >> <=> Left(q) = {}
    <2>1. L = 1 => Left(q) = {}
      BY <1>1 DEF Left
    <2>2. L # 1 => 1 \in 1..(L - 1)
      BY <1>1
    <2>3. L # 1 => Left(q) # {}
      BY <1>1, <2>2 DEF Left
    <2> QED
      BY <1>1, <2>1, <2>3
  <1>8. q.todo # << >> => First(q) \in Left(q)
    <2>1. L # 1 => 1 \in 1..(L - 1)
      BY <1>1
    <2> QED
      BY <1>1, <2>1 DEF Left, First
  <1>9. ASSUME NEW do, NEW n, Has(q, do, n) PROVE Has(o, do, n)
    BY <1>1, <1>2, <1>9 DEF Has
  <1>10. ASSUME NEW do, NEW n, Has(o, do, n)
         PROVE  Has(q, do, n) \/ (First(o) = do /\ o.todo[1].on = n)
    BY <1>1, <1>3, <1>10 DEF Has
  <1> QED
    BY <1>5, <1>6, <1>7, <1>8, <1>9, <1>10

\* The step that comes after the first.
LEMMA PopFirst ==
    ASSUME NEW o \in Operations, NEW q, Popped(o, q), o.todo # << >>, PlanSound(o)
    PROVE  /\ First(q) \notin {"bind", "adopt", "discard"}
           /\ First(q) = "row" => First(o) = "timeline" /\ o.kind = "restore"
           /\ First(q) = "replace" => First(o) = "timeline"
           /\ First(q) = "timeline" => First(o) = "resolve" /\ o.todo[1].on = o.parent
           /\ First(o) = "timeline" =>
                 First(q) = IF o.kind = "reset" THEN "replace" ELSE "row"
           /\ First(o) \in {"publish", "cleanup"} => q.todo = << >>
           /\ First(o) = "delete" /\ ~o.failed => q.todo = << >>
  <1> DEFINE L == Len(o.todo)
  <1>1. /\ L \in Nat /\ L >= 1 /\ Places(o) = 1..L
        /\ \A i \in 1..(L - 1) : q.todo[i] = o.todo[i + 1]
        /\ q.todo = << >> <=> L = 1
        /\ First(o) = o.todo[1].do
    BY PopFacts DEF Places, First
  <1>2. OrderAt(o, 1)
    BY <1>1 DEF PlanSound, OrderSound
  <1>3. CASE L = 1
    BY <1>1, <1>2, <1>3 DEF OrderAt, First
  <1> HIDE DEF L
  <1>4. CASE L # 1
    <2>1. 2 \in 1..L /\ 1 \in 1..(L - 1) /\ 2 - 1 = 1 /\ 1 + 1 = 2
      BY <1>1, <1>4
    <2>2. OrderAt(o, 2)
      BY <1>1, <2>1 DEF PlanSound, OrderSound
    <2>3. q.todo[1] = o.todo[2] /\ First(q) = o.todo[2].do
      BY <1>1, <1>4, <2>1 DEF First
    <2>4. /\ o.todo[2].do \notin {"bind", "adopt", "discard"}
          /\ o.todo[2].do = "row" => o.kind = "restore" /\ o.todo[1].do = "timeline"
          /\ o.todo[2].do = "replace" => o.todo[1].do = "timeline"
          /\ o.todo[2].do = "timeline" => o.todo[1] = Step("resolve", o.parent)
      BY <2>1, <2>2 DEF OrderAt
    <2>5. /\ o.todo[1].do = "timeline" => o.todo[2].do = IF o.kind = "reset" THEN "replace" ELSE "row"
          /\ o.todo[1].do \in {"publish", "cleanup"} => 1 = L
          /\ o.todo[1].do = "delete" /\ ~o.failed => 1 = L
      BY <1>2, <2>1 DEF OrderAt, L
    <2> QED
      BY <1>1, <1>4, <2>3, <2>4, <2>5 DEF Step
  <1> QED
    BY <1>3, <1>4

\* A step put before a resolution: a climb goes on, to a branch it has not been to.
LEMMA PushFacts ==
    ASSUME NEW o \in Operations, NEW q, NEW s \in Steps, Pushed(o, q, s)
    PROVE  /\ Len(o.todo) \in Nat /\ Len(q.todo) = Len(o.todo) + 1 /\ q.todo # << >>
           /\ q.todo[1] = s
           /\ \A i \in 1..Len(o.todo) : q.todo[i + 1] = o.todo[i]
           /\ \A i \in 2..(Len(o.todo) + 1) : q.todo[i] = o.todo[i - 1]
  <1>1. o.todo \in Seq(Steps)
    BY DEF Operations
  <1> QED
    BY <1>1 DEF Pushed

\* The branches that the climb has come through.
Visits(o) == {o.todo[i].on : i \in {j \in Places(o) : AllResolve(o, 1, j)}}

LEMMA PushPlan ==
    ASSUME NEW o \in Operations, NEW q, NEW s \in Steps, Pushed(o, q, s),
           PlanSound(o), First(o) = "resolve", ~o.failed,
           s.do \in Climbing, s.do = "resolve" => s.on \notin Visits(o)
    PROVE  PlanSound(q)
  <1> DEFINE L == Len(o.todo)
  <1>1. /\ L \in Nat /\ L >= 1 /\ Places(o) = 1..L /\ Places(q) = 1..(L + 1)
        /\ Len(q.todo) = L + 1 /\ q.todo[1] = s
        /\ \A i \in 1..L : q.todo[i + 1] = o.todo[i]
        /\ \A i \in 2..(L + 1) : q.todo[i] = o.todo[i - 1]
    <2>1. o.todo # << >>
      BY DEF First
    <2> QED
      BY <2>1, PushFacts, TodoFacts DEF Places
  <1>2. q.kind = o.kind /\ q.name = o.name /\ q.parent = o.parent /\ q.failed = o.failed
    BY DEF Pushed
  <1>3. o.todo[1].do = "resolve"
    BY DEF First
  <1> HIDE DEF L
  <1>a. ASSUME NEW i \in 1..(L + 1), i # 1
        PROVE  i \in 2..(L + 1) /\ i - 1 \in 1..L /\ (i - 1) + 1 = i /\ q.todo[i] = o.todo[i - 1]
    <2>1. i \in 2..(L + 1) /\ i - 1 \in 1..L
      BY <1>1, <1>a
    <2> QED
      BY <1>1, <2>1
  <1>b. ASSUME NEW i \in 2..(L + 1), NEW j \in 2..(L + 1), AllResolve(q, i, j)
        PROVE  AllResolve(o, i - 1, j - 1)
    <2> SUFFICES ASSUME NEW k \in (i - 1)..(j - 1) PROVE o.todo[k].do = "resolve"
      BY DEF AllResolve
    <2>1. k \in 1..L /\ k + 1 \in i..j /\ q.todo[k + 1] = o.todo[k]
      BY <1>1
    <2> QED
      BY <1>b, <2>1 DEF AllResolve
  <1>c. ASSUME NEW i \in 2..(L + 1), NEW j \in 2..(L + 1), AllResolve(o, i - 1, j - 1)
        PROVE  AllResolve(q, i, j)
    <2> SUFFICES ASSUME NEW k \in i..j PROVE q.todo[k].do = "resolve"
      BY DEF AllResolve
    <2>1. k \in 2..(L + 1) /\ k - 1 \in (i - 1)..(j - 1) /\ q.todo[k] = o.todo[k - 1]
      BY <1>1
    <2> QED
      BY <1>c, <2>1 DEF AllResolve
  <1>d. o.kind \in {"startup", "publish", "create", "restore", "reset", "select"}
    <2>1. StepAt(o, 1)
      BY <1>1 DEF PlanSound, StepsSound
    <2> QED
      BY <1>3, <2>1 DEF StepAt, Doing
  <1>4. StepsSound(q)
    <2> SUFFICES ASSUME NEW i \in 1..(L + 1) PROVE StepAt(q, i)
      BY <1>1 DEF StepsSound
    <2>1. CASE i = 1
      BY <1>1, <1>2, <1>d, <2>1 DEF StepAt, Doing, Climbing
    <2>2. CASE i # 1
      <3>1. StepAt(o, i - 1) /\ q.todo[i] = o.todo[i - 1]
        BY <1>1, <1>a, <2>2 DEF PlanSound, StepsSound
      <3> QED
        BY <1>2, <3>1 DEF StepAt
    <2> QED
      BY <2>1, <2>2
  <1>e. ASSUME NEW i \in 2..(L + 1), NEW do, After(o, i - 1, do) PROVE After(q, i, do)
    <2>1. PICK j \in 1..L : j > i - 1 /\ o.todo[j].do = do
      BY <1>1, <1>e DEF After
    <2>2. j + 1 \in 1..(L + 1) /\ j + 1 > i /\ q.todo[j + 1] = o.todo[j]
      BY <1>1, <2>1
    <2> QED
      BY <1>1, <2>1, <2>2 DEF After
  <1>f. ASSUME NEW i \in 2..(L + 1), NEW do, After(q, i, do) PROVE After(o, i - 1, do)
    <2>1. PICK j \in 1..(L + 1) : j > i /\ q.todo[j].do = do
      BY <1>1, <1>f DEF After
    <2>2. j - 1 \in 1..L /\ j - 1 > i - 1 /\ j \in 2..(L + 1) /\ q.todo[j] = o.todo[j - 1]
      BY <1>1, <2>1
    <2> QED
      BY <1>1, <2>1, <2>2 DEF After
  <1>5. OrderSound(q)
    <2> SUFFICES ASSUME NEW i \in 1..(L + 1) PROVE OrderAt(q, i)
      BY <1>1 DEF OrderSound
    <2>0. OrderAt(o, 1)
      BY <1>1 DEF PlanSound, OrderSound
    <2>1. CASE i = 1
      <3>1. o.kind = "reset" => After(q, 1, "timeline")
        <4>1. o.kind = "reset" => After(o, 1, "timeline")
          BY <1>3, <2>0 DEF OrderAt, Climbing
        <4>2. ASSUME After(o, 1, "timeline") PROVE After(q, 1, "timeline")
          <5>1. PICK j \in 1..L : j > 1 /\ o.todo[j].do = "timeline"
            BY <1>1, <4>2 DEF After
          <5>2. j + 1 \in 1..(L + 1) /\ j + 1 > 1 /\ q.todo[j + 1] = o.todo[j]
            BY <1>1, <5>1
          <5> QED
            BY <1>1, <5>1, <5>2 DEF After
        <4> QED
          BY <4>1, <4>2
      <3> QED
        BY <1>1, <1>2, <2>1, <3>1 DEF OrderAt, Climbing
    <2>2. CASE i # 1
      <3>1. /\ i \in 2..(L + 1) /\ i - 1 \in 1..L /\ (i - 1) + 1 = i /\ q.todo[i] = o.todo[i - 1]
        BY <1>a, <2>2
      <3>2. OrderAt(o, i - 1)
        BY <1>1, <3>1 DEF PlanSound, OrderSound
      <3>3. /\ i - 1 # 1 => q.todo[i - 1] = o.todo[(i - 1) - 1]
            /\ i - 1 < L => q.todo[i + 1] = o.todo[i] /\ i < L + 1
        BY <1>1, <3>1
      <3>4. o.todo[i - 1].do \notin {"bind", "adopt", "discard"}
        <4>1. i - 1 # 1 => o.todo[i - 1].do \notin {"bind", "adopt", "discard"}
          BY <3>2 DEF OrderAt
        <4> QED
          BY <1>3, <4>1
      <3>5. /\ o.todo[i - 1].do \in {"publish", "cleanup"} => i = L + 1
            /\ o.todo[i - 1].do = "delete" /\ ~o.failed => i = L + 1
        BY <1>1, <3>1, <3>2 DEF OrderAt, L
      <3>6. /\ o.todo[i - 1].do = "row" => o.kind = "restore" /\ q.todo[i - 1].do = "timeline"
            /\ o.todo[i - 1].do = "replace" => q.todo[i - 1].do = "timeline"
            /\ o.todo[i - 1].do = "timeline" => q.todo[i - 1] = Step("resolve", o.parent)
        BY <1>3, <3>2, <3>3 DEF OrderAt
      <3>7. o.todo[i - 1].do = "timeline" =>
                /\ i < L + 1
                /\ q.todo[i + 1].do = IF o.kind = "reset" THEN "replace" ELSE "row"
        BY <3>1, <3>2, <3>3 DEF OrderAt, L
      <3>8. o.kind = "reset" /\ o.todo[i - 1].do \in Climbing \cup {"password"} =>
                After(q, i, "timeline")
        BY <1>e, <3>1, <3>2 DEF OrderAt
      <3>9. o.todo[i - 1].do \in {"refresh", "switch"} =>
                ~After(q, i, "replace") /\ ~After(q, i, "restore")
        BY <1>f, <3>1, <3>2 DEF OrderAt
      <3> QED
        BY <1>1, <1>2, <3>1, <3>4, <3>5, <3>6, <3>7, <3>8, <3>9 DEF OrderAt
    <2> QED
      BY <2>1, <2>2
  <1>6. Distinct(q)
    <2> SUFFICES ASSUME NEW i \in 1..(L + 1), NEW j \in 1..(L + 1), i < j,
                        q.todo[i].do = q.todo[j].do
        PROVE  /\ q.todo[i].do = "resolve"
               /\ AllResolve(q, i, j) => q.todo[i].on # q.todo[j].on
      BY <1>1 DEF Distinct, DistinctAt
    <2>1. j # 1 /\ j \in 2..(L + 1) /\ j - 1 \in 1..L /\ q.todo[j] = o.todo[j - 1]
      BY <1>1, <1>a
    <2>2. CASE i = 1
      <3>1. s.do = "resolve"
        <4>1. OrderAt(o, j - 1) /\ o.todo[j - 1].do = s.do
          BY <1>1, <2>1, <2>2 DEF PlanSound, OrderSound
        <4> QED
          BY <1>3, <4>1 DEF OrderAt, Climbing
      <3>2. ASSUME AllResolve(q, 1, j) PROVE s.on # o.todo[j - 1].on
        <4>1. AllResolve(q, 2, j)
          <5>1. \A k \in 2..j : k \in 1..j
            BY <2>1
          <5> QED
            BY <3>2, <5>1 DEF AllResolve
        <4>2. 2 \in 2..(L + 1) /\ 2 - 1 = 1
          BY <1>1
        <4>3. AllResolve(o, 2 - 1, j - 1)
          BY <1>b, <2>1, <4>1, <4>2
        <4>4. o.todo[j - 1].on \in Visits(o)
          BY <1>1, <2>1, <4>2, <4>3 DEF Visits
        <4> QED
          BY <3>1, <4>4
      <3> QED
        BY <1>1, <2>1, <2>2, <3>1, <3>2
    <2>3. CASE i # 1
      <3>1. i \in 2..(L + 1) /\ i - 1 \in 1..L /\ q.todo[i] = o.todo[i - 1] /\ i - 1 < j - 1
        BY <1>1, <1>a, <2>1, <2>3
      <3>2. DistinctAt(o, i - 1, j - 1)
        BY <1>1, <2>1, <3>1 DEF PlanSound, Distinct
      <3> QED
        BY <1>b, <2>1, <3>1, <3>2 DEF DistinctAt
    <2> QED
      BY <2>2, <2>3
  <1>7. ResetClimb(q)
    <2> SUFFICES ASSUME o.kind = "reset", NEW i \in 1..(L + 1), q.todo[i].do = "resolve"
        PROVE  FromParent(q, i)
      BY <1>1, <1>2 DEF ResetClimb
    <2>1. ASSUME NEW h \in 2..(L + 1), q.todo[h].do = "resolve"
          PROVE  \E j \in 2..(L + 1) : j >= h /\ q.todo[j].on = o.parent /\ AllResolve(q, h, j)
      <3>1. h - 1 \in 1..L /\ o.todo[h - 1].do = "resolve"
        BY <1>1, <2>1
      <3>2. PICK j \in 1..L : j >= h - 1 /\ o.todo[j].on = o.parent /\ AllResolve(o, h - 1, j)
        BY <1>1, <3>1 DEF PlanSound, ResetClimb, FromParent
      <3>3. j + 1 \in 2..(L + 1) /\ (j + 1) - 1 = j /\ j + 1 >= h /\ q.todo[j + 1] = o.todo[j]
        BY <1>1, <3>2
      <3> QED
        BY <1>c, <3>2, <3>3
    <2>2. CASE i = 1
      <3>1. 2 \in 2..(L + 1) /\ 2 - 1 = 1 /\ q.todo[2].do = "resolve"
        <4>1. 2 \in 2..(L + 1) /\ 2 - 1 = 1
          BY <1>1
        <4> QED
          BY <1>1, <1>3, <4>1
      <3>2. PICK j \in 2..(L + 1) : j >= 2 /\ q.todo[j].on = o.parent /\ AllResolve(q, 2, j)
        BY <2>1, <3>1
      <3>3. AllResolve(q, 1, j)
        <4>1. \A k \in 1..j : k = 1 \/ k \in 2..j
          BY <3>2
        <4> QED
          BY <2>2, <3>2, <4>1 DEF AllResolve
      <3>4. j \in 1..(L + 1) /\ j >= 1
        BY <1>1, <3>2
      <3> QED
        BY <1>1, <1>2, <2>2, <3>2, <3>3, <3>4 DEF FromParent
    <2>3. CASE i # 1
      <3>1. i \in 2..(L + 1)
        BY <1>a, <2>3
      <3>2. PICK j \in 2..(L + 1) : j >= i /\ q.todo[j].on = o.parent /\ AllResolve(q, i, j)
        BY <2>1, <3>1
      <3>3. j \in 1..(L + 1)
        BY <1>1, <3>2
      <3> QED
        BY <1>1, <1>2, <3>2, <3>3 DEF FromParent
    <2> QED
      BY <2>2, <2>3
  <1> QED
    BY <1>4, <1>5, <1>6, <1>7 DEF PlanSound

LEMMA PushLeft ==
    ASSUME NEW o \in Operations, NEW q, NEW s \in Steps, Pushed(o, q, s)
    PROVE  /\ Left(q) = Left(o) \cup {s.do} /\ First(q) = s.do /\ q.todo[1] = s
           /\ q.todo # << >>
           /\ \A do, n : Has(o, do, n) => Has(q, do, n)
  <1> DEFINE L == Len(o.todo)
  <1>1. /\ L \in Nat /\ Places(o) = 1..L /\ Places(q) = 1..(L + 1)
        /\ Len(q.todo) = L + 1 /\ q.todo[1] = s /\ q.todo # << >>
        /\ \A i \in 1..L : q.todo[i + 1] = o.todo[i]
        /\ \A i \in 2..(L + 1) : q.todo[i] = o.todo[i - 1]
    BY PushFacts DEF Places
  <1> HIDE DEF L
  <1>2. ASSUME NEW i \in 1..L PROVE i + 1 \in 1..(L + 1) /\ q.todo[i + 1] = o.todo[i]
    BY <1>1
  <1>3. ASSUME NEW i \in 1..(L + 1), i # 1 PROVE i - 1 \in 1..L /\ q.todo[i] = o.todo[i - 1]
    <2>1. i \in 2..(L + 1) /\ i - 1 \in 1..L
      BY <1>1, <1>3
    <2> QED
      BY <1>1, <2>1
  <1>4. 1 \in 1..(L + 1)
    BY <1>1
  <1>5. Left(o) \subseteq Left(q) /\ s.do \in Left(q)
    <2>1. \A i \in 1..L : o.todo[i].do \in Left(q)
      BY <1>1, <1>2 DEF Left
    <2>2. s.do \in Left(q)
      BY <1>1, <1>4 DEF Left
    <2> QED
      BY <1>1, <2>1, <2>2 DEF Left
  <1>6. Left(q) \subseteq Left(o) \cup {s.do}
    <2>1. \A i \in 1..(L + 1) : i # 1 => q.todo[i].do \in Left(o)
      BY <1>1, <1>3 DEF Left
    <2> QED
      BY <1>1, <2>1 DEF Left
  <1>7. ASSUME NEW do, NEW n, Has(o, do, n) PROVE Has(q, do, n)
    BY <1>1, <1>2, <1>7 DEF Has
  <1> QED
    BY <1>1, <1>5, <1>6, <1>7 DEF First

\* The deeds that are left are those of the operation, or those that undo it.
LEMMA LeftDeeds ==
    ASSUME NEW o, StepsSound(o)
    PROVE  /\ Left(o) \subseteq IF o.failed THEN Undoing(o.kind) ELSE Doing(o.kind)
           /\ \A do, n : Has(o, do, n) => do \in Left(o)
  <1>1. \A i \in Places(o) : o.todo[i].do \in IF o.failed THEN Undoing(o.kind) ELSE Doing(o.kind)
    BY DEF StepsSound, StepAt
  <1> QED
    BY <1>1 DEF Left, Has

\* Two sequences, the first of a length that is known.
LEMMA Join ==
    ASSUME NEW s \in Seq(Steps), NEW t \in Seq(Steps)
    PROVE  /\ Len(s) \in Nat /\ Len(t) \in Nat /\ Len(s \o t) = Len(s) + Len(t)
           /\ \A i \in 1..Len(s) : (s \o t)[i] = s[i]
           /\ \A i \in 1..Len(t) : (s \o t)[Len(s) + i] = t[i]
           /\ s \o t \in Seq(Steps)
  OBVIOUS

LEMMA Joined ==
    ASSUME NEW s \in Seq(Steps), NEW t \in Seq(Steps), NEW k \in Nat, Len(s) = k
    PROVE  /\ Len(t) \in Nat /\ Len(s \o t) = k + Len(t)
           /\ \A i \in 1..k : (s \o t)[i] = s[i]
           /\ \A i \in 1..Len(t) : (s \o t)[k + i] = t[i]
           /\ s \o t \in Seq(Steps)
  BY Join

\* The plan an operation begins with.
LEMMA PublishSteps ==
    ASSUME NEW n \in Names
    PROVE  LET s == EnsurePublished(n) IN
           /\ s \in Seq(Steps) /\ Len(s) = 4
           /\ s[1] = Step("password", n) /\ s[2] = Step("resolve", n)
           /\ s[3] = Step("attach", n) /\ s[4] = Step("publish", n)
  <1>1. /\ Step("password", n) \in Steps /\ Step("resolve", n) \in Steps
        /\ Step("attach", n) \in Steps /\ Step("publish", n) \in Steps
    BY StepTyped DEF Deeds
  <1> QED
    BY <1>1 DEF EnsurePublished

LEMMA ResetSteps ==
    ASSUME NEW n \in Names, NEW p \in Names
    PROVE  LET s == ResetPlan(n, p) IN
           /\ s[1] = Step("password", n) /\ s[2] = Step("resolve", p)
           /\ s[3] = Step("timeline", p) /\ s[4] = Step("replace", n)
           /\ s[5] = Step("refresh", n)
           /\ IF primary.name = n THEN Len(s) = 6 /\ s[6] = Step("switch", n) ELSE Len(s) = 5
  <1> DEFINE s == <<Step("password", n), Step("resolve", p), Step("timeline", p),
                    Step("replace", n), Step("refresh", n)>>
             t == Reselect(n)
  <1>1. /\ Step("password", n) \in Steps /\ Step("resolve", p) \in Steps
        /\ Step("timeline", p) \in Steps /\ Step("replace", n) \in Steps
        /\ Step("refresh", n) \in Steps /\ Step("switch", n) \in Steps
    BY StepTyped DEF Deeds
  <1>2. /\ s \in Seq(Steps) /\ Len(s) = 5
        /\ s[1] = Step("password", n) /\ s[2] = Step("resolve", p)
        /\ s[3] = Step("timeline", p) /\ s[4] = Step("replace", n)
        /\ s[5] = Step("refresh", n)
    BY <1>1
  <1>3. t \in Seq(Steps) /\ IF primary.name = n THEN Len(t) = 1 /\ t[1] = Step("switch", n) ELSE Len(t) = 0
    BY <1>1 DEF Reselect
  <1>4. ResetPlan(n, p) = s \o t
    BY DEF ResetPlan
  <1> HIDE DEF s, t
  <1>5. /\ Len(s \o t) = 5 + Len(t)
        /\ \A i \in 1..5 : (s \o t)[i] = s[i]
        /\ \A i \in 1..Len(t) : (s \o t)[5 + i] = t[i]
    <2>1. s \in Seq(Steps) /\ t \in Seq(Steps) /\ Len(s) = 5 /\ 5 \in Nat
      BY <1>2, <1>3
    <2> QED
      BY <2>1, Joined, ZenonT(60)
  <1> QED
    BY <1>2, <1>3, <1>4, <1>5

\* q is the operation that begins.
Begun(q, kind, n, p) ==
    /\ q.todo = Plan(kind, n, p)
    /\ q.kind = kind /\ q.name = n /\ q.parent = p /\ q.failed = FALSE

LEMMA ShortPlans ==
    ASSUME NEW kind \in {"startup", "publish", "delete", "unpublish", "select"},
           NEW n \in Names, NEW p \in Names, NEW q, Begun(q, kind, n, p)
    PROVE  /\ PlanSound(q)
           /\ First(q) \in {"password", "resolve", "unpublish"}
           /\ kind \in {"startup", "publish"} => "password" \in Left(q) /\ Has(q, "resolve", n)
           /\ kind = "delete" => "unpublish" \in Left(q)
           /\ q.todo # << >>
  <1> DEFINE L == Len(q.todo)
  <1>1. CASE kind = "startup"
    <2>1. /\ L = 4 /\ q.todo[1] = Step("password", n) /\ q.todo[2] = Step("resolve", n)
          /\ q.todo[3] = Step("attach", n) /\ q.todo[4] = Step("publish", n) /\ q.todo # << >>
      BY <1>1, PublishSteps DEF Begun, Plan
    <2>2. Places(q) = {1, 2, 3, 4} /\ Places(q) = 1..4
      BY <2>1 DEF Places
    <2> HIDE DEF L
    <2>3. StepsSound(q)
      BY <1>1, <2>1, <2>2 DEF StepsSound, StepAt, Step, Begun, Doing, Climbing
    <2>4. OrderSound(q)
      <3>1. OrderAt(q, 1)
        BY <1>1, <2>1, <2>2 DEF OrderAt, Step, Begun, Climbing, L
      <3>2. OrderAt(q, 2)
        BY <1>1, <2>1, <2>2 DEF OrderAt, Step, Begun, Climbing, L
      <3>3. OrderAt(q, 3)
        BY <1>1, <2>1, <2>2 DEF OrderAt, Step, Begun, Climbing, L
      <3>4. OrderAt(q, 4)
        BY <1>1, <2>1, <2>2 DEF OrderAt, Step, Begun, Climbing, L
      <3> QED
        BY <1>1, <2>1, <2>2, <3>1, <3>2, <3>3, <3>4 DEF OrderSound
    <2>5. Distinct(q) /\ ResetClimb(q)
      BY <1>1, <2>1, <2>2 DEF Distinct, DistinctAt, ResetClimb, Step, Begun
    <2> QED
      BY <1>1, <2>1, <2>2, <2>3, <2>4, <2>5 DEF PlanSound, First, Left, Has, Step
  <1>2. CASE kind = "publish"
    <2>0. /\ Step("password", n) \in Steps /\ Step("resolve", n) \in Steps
          /\ Step("attach", n) \in Steps /\ Step("publish", n) \in Steps
      BY StepTyped DEF Deeds
    <2>a. q.todo = <<Step("resolve", n), Step("attach", n), Step("password", n), Step("publish", n)>>
      BY <1>2 DEF Begun, Plan
    <2>1. /\ L = 4 /\ q.todo[1] = Step("resolve", n) /\ q.todo[2] = Step("attach", n)
          /\ q.todo[3] = Step("password", n) /\ q.todo[4] = Step("publish", n) /\ q.todo # << >>
      BY <2>a
    <2>2. Places(q) = {1, 2, 3, 4} /\ Places(q) = 1..4
      BY <2>1 DEF Places
    <2> HIDE DEF L
    <2>3. StepsSound(q)
      BY <1>2, <2>1, <2>2 DEF StepsSound, StepAt, Step, Begun, Doing, Climbing
    <2>4. OrderSound(q)
      <3>1. OrderAt(q, 1)
        BY <1>2, <2>1, <2>2 DEF OrderAt, Step, Begun, Climbing, L
      <3>2. OrderAt(q, 2)
        BY <1>2, <2>1, <2>2 DEF OrderAt, Step, Begun, Climbing, L
      <3>3. OrderAt(q, 3)
        BY <1>2, <2>1, <2>2 DEF OrderAt, Step, Begun, Climbing, L
      <3>4. OrderAt(q, 4)
        BY <1>2, <2>1, <2>2 DEF OrderAt, Step, Begun, Climbing, L
      <3> QED
        BY <1>2, <2>1, <2>2, <3>1, <3>2, <3>3, <3>4 DEF OrderSound
    <2>5. Distinct(q) /\ ResetClimb(q)
      BY <1>2, <2>1, <2>2 DEF Distinct, DistinctAt, ResetClimb, Step, Begun
    <2> QED
      BY <1>2, <2>1, <2>2, <2>3, <2>4, <2>5 DEF PlanSound, First, Left, Has, Step
  <1>3. CASE kind = "delete"
    <2>a. q.todo = <<Step("unpublish", n), Step("delete", n)>>
      BY <1>3 DEF Begun, Plan, DeletePlan
    <2>1. L = 2 /\ q.todo[1] = Step("unpublish", n) /\ q.todo[2] = Step("delete", n) /\ q.todo # << >>
      BY <2>a
    <2>2. Places(q) = {1, 2} /\ Places(q) = 1..2
      BY <2>1 DEF Places
    <2> HIDE DEF L
    <2>3. StepsSound(q)
      BY <1>3, <2>1, <2>2 DEF StepsSound, StepAt, Step, Begun, Doing, Climbing
    <2>4. OrderSound(q)
      <3>1. OrderAt(q, 1)
        BY <1>3, <2>1, <2>2 DEF OrderAt, Step, Begun, Climbing, L
      <3>2. OrderAt(q, 2)
        BY <1>3, <2>1, <2>2 DEF OrderAt, Step, Begun, Climbing, L
      <3> QED
        BY <1>3, <2>1, <2>2, <3>1, <3>2 DEF OrderSound
    <2>5. Distinct(q) /\ ResetClimb(q)
      BY <1>3, <2>1, <2>2 DEF Distinct, DistinctAt, ResetClimb, Step, Begun
    <2> QED
      BY <1>3, <2>1, <2>2, <2>3, <2>4, <2>5 DEF PlanSound, First, Left, Has, Step
  <1>4. CASE kind = "unpublish"
    <2>a. q.todo = <<Step("unpublish", n)>>
      BY <1>4 DEF Begun, Plan
    <2>1. L = 1 /\ q.todo[1] = Step("unpublish", n) /\ q.todo # << >>
      BY <2>a
    <2>2. Places(q) = {1} /\ Places(q) = 1..1
      BY <2>1 DEF Places
    <2> HIDE DEF L
    <2>3. StepsSound(q)
      BY <1>4, <2>1, <2>2 DEF StepsSound, StepAt, Step, Begun, Doing, Climbing
    <2>4. OrderSound(q)
      <3>1. OrderAt(q, 1)
        BY <1>4, <2>1, <2>2 DEF OrderAt, Step, Begun, Climbing, L
      <3> QED
        BY <1>4, <2>1, <2>2, <3>1 DEF OrderSound
    <2>5. Distinct(q) /\ ResetClimb(q)
      BY <1>4, <2>1, <2>2 DEF Distinct, DistinctAt, ResetClimb, Step, Begun
    <2> QED
      BY <1>4, <2>1, <2>2, <2>3, <2>4, <2>5 DEF PlanSound, First, Left, Has, Step
  <1>5. CASE kind = "select"
    <2>a. q.todo = <<Step("password", n), Step("resolve", n), Step("switch", n)>>
      BY <1>5 DEF Begun, Plan
    <2>1. /\ L = 3 /\ q.todo[1] = Step("password", n) /\ q.todo[2] = Step("resolve", n)
          /\ q.todo[3] = Step("switch", n) /\ q.todo # << >>
      BY <2>a
    <2>2. Places(q) = {1, 2, 3} /\ Places(q) = 1..3
      BY <2>1 DEF Places
    <2> HIDE DEF L
    <2>3. StepsSound(q)
      BY <1>5, <2>1, <2>2 DEF StepsSound, StepAt, Step, Begun, Doing, Climbing
    <2>4. OrderSound(q)
      <3>1. OrderAt(q, 1)
        BY <1>5, <2>1, <2>2 DEF OrderAt, Step, Begun, Climbing, L
      <3>2. OrderAt(q, 2)
        BY <1>5, <2>1, <2>2 DEF OrderAt, Step, Begun, Climbing, L
      <3>a. \A do : ~After(q, 3, do)
        BY <2>2 DEF After
      <3>3. OrderAt(q, 3)
        BY <3>a, <1>5, <2>1, <2>2 DEF OrderAt, Step, Begun, Climbing, L
      <3> QED
        BY <1>5, <2>1, <2>2, <3>1, <3>2, <3>3 DEF OrderSound
    <2>5. Distinct(q) /\ ResetClimb(q)
      BY <1>5, <2>1, <2>2 DEF Distinct, DistinctAt, ResetClimb, Step, Begun
    <2> QED
      BY <1>5, <2>1, <2>2, <2>3, <2>4, <2>5 DEF PlanSound, First, Left, Has, Step
  <1> QED
    BY <1>1, <1>2, <1>3, <1>4, <1>5

LEMMA CreatePlan ==
    ASSUME NEW n \in Others, NEW p \in Names, NEW q, Begun(q, "create", n, p)
    PROVE  /\ PlanSound(q) /\ q.todo # << >> /\ First(q) = "row"
           /\ "row" \in Left(q) /\ Has(q, "resolve", n)
           /\ Left(q) = {"row", "password", "resolve", "attach", "publish"}
  <1> DEFINE L == Len(q.todo)
             t == EnsurePublished(n)
  <1>0. n \in Names
    BY Facts
  <1>1. /\ t \in Seq(Steps) /\ Len(t) = 4
        /\ t[1] = Step("password", n) /\ t[2] = Step("resolve", n)
        /\ t[3] = Step("attach", n) /\ t[4] = Step("publish", n)
    BY <1>0, PublishSteps
  <1>2. Step("row", n) \in Steps /\ q.todo = <<Step("row", n)>> \o t
    BY <1>0, StepTyped DEF Deeds, Begun, Plan
  <1> HIDE DEF t
  <1>3. <<Step("row", n)>> \in Seq(Steps) /\ Len(<<Step("row", n)>>) = 1 /\ <<Step("row", n)>>[1] = Step("row", n)
    BY <1>2
  <1>4. /\ L = 1 + 4
        /\ \A i \in 1..1 : q.todo[i] = <<Step("row", n)>>[i]
        /\ \A i \in 1..4 : q.todo[1 + i] = t[i]
    <2> DEFINE s == <<Step("row", n)>>
    <2>1. s \in Seq(Steps) /\ t \in Seq(Steps) /\ Len(s) = 1 /\ 1 \in Nat /\ Len(t) = 4 /\ q.todo = s \o t
      BY <1>1, <1>2, <1>3
    <2> HIDE DEF s
    <2>2. /\ Len(s \o t) = 1 + Len(t)
          /\ \A i \in 1..1 : (s \o t)[i] = s[i]
          /\ \A i \in 1..Len(t) : (s \o t)[1 + i] = t[i]
      BY <2>1, Joined, ZenonT(60)
    <2> QED
      BY <2>1, <2>2 DEF s
  <1>5. q.todo[1 + 1] = t[1] /\ q.todo[1 + 2] = t[2] /\ q.todo[1 + 3] = t[3] /\ q.todo[1 + 4] = t[4]
    BY <1>4
  <1>6. /\ L = 5 /\ q.todo[1] = Step("row", n) /\ q.todo[2] = Step("password", n)
        /\ q.todo[3] = Step("resolve", n) /\ q.todo[4] = Step("attach", n)
        /\ q.todo[5] = Step("publish", n)
    BY <1>1, <1>3, <1>4, <1>5
  <1>7. Places(q) = {1, 2, 3, 4, 5} /\ Places(q) = 1..5 /\ q.todo # << >>
    BY <1>6 DEF Places
  <1> HIDE DEF L
  <1>8. StepsSound(q)
    BY <1>6, <1>7 DEF StepsSound, StepAt, Step, Begun, Doing, Climbing
  <1>9. OrderSound(q)
    <2>1. OrderAt(q, 1)
      BY <1>6, <1>7 DEF OrderAt, Step, Begun, Climbing, L
    <2>2. OrderAt(q, 2)
      BY <1>6, <1>7 DEF OrderAt, Step, Begun, Climbing, L
    <2>3. OrderAt(q, 3)
      BY <1>6, <1>7 DEF OrderAt, Step, Begun, Climbing, L
    <2>4. OrderAt(q, 4)
      BY <1>6, <1>7 DEF OrderAt, Step, Begun, Climbing, L
    <2>5. OrderAt(q, 5)
      BY <1>6, <1>7 DEF OrderAt, Step, Begun, Climbing, L
    <2> QED
      BY <1>6, <1>7, <2>1, <2>2, <2>3, <2>4, <2>5 DEF OrderSound
  <1>10. Distinct(q) /\ ResetClimb(q)
    BY <1>6, <1>7 DEF Distinct, DistinctAt, ResetClimb, Step, Begun
  <1> QED
    BY <1>6, <1>7, <1>8, <1>9, <1>10 DEF PlanSound, First, Left, Has, Step

LEMMA RestorePlan ==
    ASSUME NEW n \in Others, NEW p \in Names, NEW q, Begun(q, "restore", n, p)
    PROVE  /\ PlanSound(q) /\ q.todo # << >> /\ First(q) = "resolve"
           /\ Left(q) = {"timeline", "row", "password", "resolve", "attach", "publish"}
  <1> DEFINE L == Len(q.todo)
             t == EnsurePublished(n)
             s == <<Step("resolve", p), Step("timeline", p), Step("row", n)>>
  <1>0. n \in Names
    BY Facts
  <1>1. /\ t \in Seq(Steps) /\ Len(t) = 4
        /\ t[1] = Step("password", n) /\ t[2] = Step("resolve", n)
        /\ t[3] = Step("attach", n) /\ t[4] = Step("publish", n)
    BY <1>0, PublishSteps
  <1>2. q.todo = s \o t
    BY <1>0 DEF Begun, Plan
  <1>3. /\ s \in Seq(Steps) /\ Len(s) = 3
        /\ s[1] = Step("resolve", p) /\ s[2] = Step("timeline", p) /\ s[3] = Step("row", n)
    <2>1. Step("resolve", p) \in Steps /\ Step("timeline", p) \in Steps /\ Step("row", n) \in Steps
      BY <1>0, StepTyped DEF Deeds
    <2> QED
      BY <2>1
  <1> HIDE DEF t, s
  <1>4. /\ L = 3 + 4
        /\ \A i \in 1..3 : q.todo[i] = s[i]
        /\ \A i \in 1..4 : q.todo[3 + i] = t[i]
    <2>1. s \in Seq(Steps) /\ t \in Seq(Steps) /\ Len(s) = 3 /\ 3 \in Nat /\ Len(t) = 4 /\ q.todo = s \o t
      BY <1>1, <1>2, <1>3
    <2>2. /\ Len(s \o t) = 3 + Len(t)
          /\ \A i \in 1..3 : (s \o t)[i] = s[i]
          /\ \A i \in 1..Len(t) : (s \o t)[3 + i] = t[i]
      BY <2>1, Joined, ZenonT(60)
    <2> QED
      BY <2>1, <2>2
  <1>5. q.todo[3 + 1] = t[1] /\ q.todo[3 + 2] = t[2] /\ q.todo[3 + 3] = t[3] /\ q.todo[3 + 4] = t[4]
    BY <1>4
  <1>6. /\ L = 7 /\ q.todo[1] = Step("resolve", p) /\ q.todo[2] = Step("timeline", p)
        /\ q.todo[3] = Step("row", n) /\ q.todo[4] = Step("password", n)
        /\ q.todo[5] = Step("resolve", n) /\ q.todo[6] = Step("attach", n)
        /\ q.todo[7] = Step("publish", n)
    BY <1>1, <1>3, <1>4, <1>5
  <1>7. Places(q) = {1, 2, 3, 4, 5, 6, 7} /\ Places(q) = 1..7 /\ q.todo # << >>
    BY <1>6 DEF Places
  <1> HIDE DEF L
  <1>8. StepsSound(q)
    BY <1>6, <1>7 DEF StepsSound, StepAt, Step, Begun, Doing, Climbing
  <1>9. OrderSound(q)
    <2>1. OrderAt(q, 1)
      BY <1>6, <1>7 DEF OrderAt, Step, Begun, Climbing, L
    <2>2. OrderAt(q, 2)
      BY <1>6, <1>7 DEF OrderAt, Step, Begun, Climbing, L
    <2>3. OrderAt(q, 3)
      BY <1>6, <1>7 DEF OrderAt, Step, Begun, Climbing, L
    <2>4. OrderAt(q, 4)
      BY <1>6, <1>7 DEF OrderAt, Step, Begun, Climbing, L
    <2>5. OrderAt(q, 5)
      BY <1>6, <1>7 DEF OrderAt, Step, Begun, Climbing, L
    <2>6. OrderAt(q, 6)
      BY <1>6, <1>7 DEF OrderAt, Step, Begun, Climbing, L
    <2>7. OrderAt(q, 7)
      BY <1>6, <1>7 DEF OrderAt, Step, Begun, Climbing, L
    <2> QED
      BY <1>6, <1>7, <2>1, <2>2, <2>3, <2>4, <2>5, <2>6, <2>7 DEF OrderSound
  <1>10. Distinct(q) /\ ResetClimb(q)
    <2>1. ~AllResolve(q, 1, 5)
      BY <1>6 DEF AllResolve, Step
    <2> QED
      BY <1>6, <1>7, <2>1 DEF Distinct, DistinctAt, ResetClimb, Step, Begun
  <1> QED
    BY <1>6, <1>7, <1>8, <1>9, <1>10 DEF PlanSound, First, Left, Step

LEMMA ResetPlanSound ==
    ASSUME NEW n \in Names, NEW p \in Names, NEW q, Begun(q, "reset", n, p)
    PROVE  /\ PlanSound(q) /\ q.todo # << >> /\ First(q) = "password"
           /\ Left(q) = {"password", "resolve", "timeline", "replace", "refresh"}
                         \cup IF primary.name = n THEN {"switch"} ELSE {}
  <1> DEFINE L == Len(q.todo)
  <1>1. /\ q.todo[1] = Step("password", n) /\ q.todo[2] = Step("resolve", p)
        /\ q.todo[3] = Step("timeline", p) /\ q.todo[4] = Step("replace", n)
        /\ q.todo[5] = Step("refresh", n)
        /\ IF primary.name = n THEN L = 6 /\ q.todo[6] = Step("switch", n) ELSE L = 5
    BY ResetSteps DEF Begun, Plan
  <1> HIDE DEF L
  <1>2. ASSUME AllResolve(q, 2, 2) => FromParent(q, 2),
               \A do \in {"replace", "restore"} : ~After(q, 5, do),
               After(q, 1, "timeline"), After(q, 2, "timeline")
        PROVE  /\ \A i \in {1, 2, 3, 4, 5} : StepAt(q, i)
               /\ L >= 5 => \A i \in {1, 2, 3, 4, 5} : OrderAt(q, i)
               /\ FromParent(q, 2)
               /\ \A i, j \in {1, 2, 3, 4, 5} : DistinctAt(q, i, j)
    <2>1. \A i \in {1, 2, 3, 4, 5} : StepAt(q, i)
      BY <1>1 DEF StepAt, Step, Begun, Doing, Climbing
    <2>2. FromParent(q, 2)
      <3>1. AllResolve(q, 2, 2)
        BY <1>1 DEF AllResolve, Step
      <3> QED
        BY <1>2, <3>1
    <2>3. OrderAt(q, 1) /\ OrderAt(q, 2)
      BY <1>1, <1>2 DEF OrderAt, Step, Begun, Climbing, L
    <2>4. L >= 5 => OrderAt(q, 3)
      BY <1>1 DEF OrderAt, Step, Begun, Climbing, L
    <2>5. OrderAt(q, 4) /\ OrderAt(q, 5)
      BY <1>1, <1>2 DEF OrderAt, Step, Begun, Climbing, L
    <2>6. \A i, j \in {1, 2, 3, 4, 5} : DistinctAt(q, i, j)
      BY <1>1 DEF DistinctAt, Step
    <2> QED
      BY <2>1, <2>2, <2>3, <2>4, <2>5, <2>6
  <1>3. CASE primary.name = n
    <2>1. L = 6 /\ q.todo[6] = Step("switch", n)
      BY <1>1, <1>3
    <2>2. Places(q) = {1, 2, 3, 4, 5, 6} /\ Places(q) = 1..6 /\ q.todo # << >>
      BY <2>1 DEF Places, L
    <2>3. /\ AllResolve(q, 2, 2) => FromParent(q, 2)
          /\ After(q, 1, "timeline") /\ After(q, 2, "timeline")
          /\ \A do \in {"replace", "restore"} : ~After(q, 5, do)
      <3>1. /\ AllResolve(q, 2, 2) => FromParent(q, 2)
            /\ After(q, 1, "timeline") /\ After(q, 2, "timeline")
        BY <1>1, <2>2 DEF FromParent, After, Step, Begun
      <3>2. \A j \in Places(q) : j > 5 => q.todo[j].do = "switch"
        BY <2>1, <2>2 DEF Step
      <3> QED
        BY <3>1, <3>2 DEF After
    <2>4. /\ \A i \in {1, 2, 3, 4, 5} : StepAt(q, i)
          /\ \A i \in {1, 2, 3, 4, 5} : OrderAt(q, i)
          /\ FromParent(q, 2)
          /\ \A i, j \in {1, 2, 3, 4, 5} : DistinctAt(q, i, j)
      BY <1>2, <2>1, <2>3
    <2>a. \A do : ~After(q, 6, do)
      BY <2>2 DEF After
    <2>5. StepAt(q, 6) /\ OrderAt(q, 6)
      BY <2>1, <2>a DEF StepAt, OrderAt, Step, Begun, Doing, Climbing, L
    <2>6. \A i \in {1, 2, 3, 4, 5, 6} : DistinctAt(q, i, 6) /\ DistinctAt(q, 6, i)
      BY <1>1, <2>1 DEF DistinctAt, Step
    <2>7. ResetClimb(q)
      BY <1>1, <2>1, <2>2, <2>4 DEF ResetClimb, Step
    <2>8. StepsSound(q) /\ OrderSound(q)
      BY <2>2, <2>4, <2>5 DEF StepsSound, OrderSound
    <2>9. Distinct(q)
      BY <2>2, <2>4, <2>6 DEF Distinct
    <2>10. Left(q) = {"password", "resolve", "timeline", "replace", "refresh", "switch"}
      BY <1>1, <2>1, <2>2 DEF Left, Step
    <2> QED
      BY <1>1, <1>3, <2>2, <2>7, <2>8, <2>9, <2>10 DEF PlanSound, First, Step
  <1>4. CASE primary.name # n
    <2>1. L = 5
      BY <1>1, <1>4
    <2>2. Places(q) = {1, 2, 3, 4, 5} /\ Places(q) = 1..5 /\ q.todo # << >>
      <3>1. Places(q) = 1..5 /\ Len(q.todo) = 5
        BY <2>1 DEF Places, L
      <3>2. q.todo # << >>
        BY <3>1
      <3> QED
        BY <3>1, <3>2
    <2>3. /\ AllResolve(q, 2, 2) => FromParent(q, 2)
          /\ After(q, 1, "timeline") /\ After(q, 2, "timeline")
          /\ \A do \in {"replace", "restore"} : ~After(q, 5, do)
      <3>1. /\ AllResolve(q, 2, 2) => FromParent(q, 2)
            /\ After(q, 1, "timeline") /\ After(q, 2, "timeline")
        BY <1>1, <2>2 DEF FromParent, After, Step, Begun
      <3>2. \A j \in Places(q) : j > 5 => FALSE
        BY <2>2
      <3> QED
        BY <3>1, <3>2 DEF After
    <2>4. /\ \A i \in {1, 2, 3, 4, 5} : StepAt(q, i)
          /\ \A i \in {1, 2, 3, 4, 5} : OrderAt(q, i)
          /\ FromParent(q, 2)
          /\ \A i, j \in {1, 2, 3, 4, 5} : DistinctAt(q, i, j)
      BY <1>2, <2>1, <2>3
    <2>7. ResetClimb(q)
      BY <1>1, <2>2, <2>4 DEF ResetClimb, Step
    <2>8. StepsSound(q) /\ OrderSound(q)
      BY <2>2, <2>4 DEF StepsSound, OrderSound
    <2>9. Distinct(q)
      BY <2>2, <2>4 DEF Distinct
    <2>10. Left(q) = {"password", "resolve", "timeline", "replace", "refresh"}
      BY <1>1, <2>2 DEF Left, Step
    <2> QED
      BY <1>1, <1>4, <2>2, <2>7, <2>8, <2>9, <2>10 DEF PlanSound, First, Step
  <1> QED
    BY <1>3, <1>4

-----------------------------------------------------------------------------
(* The plan with which an operation takes its work back *)

\* q is the operation after its first failure, in the step do.
Undone(q, do) ==
    /\ q.todo = Compensation(do)
    /\ q.kind = op.kind /\ q.name = op.name /\ q.parent = op.parent /\ q.failed = TRUE

\* What is taken back.
Undoes(do) ==
    (IF do = "bind" THEN {"discard"} ELSE {})
    \cup CASE op.kind = "create" /\ do # "row" -> {"delete", "cleanup"}
           [] op.kind = "restore" /\ do = "row" -> {"cleanup"}
           [] op.kind = "restore" /\ do # "row" /\ Active(op.name) -> {"delete", "cleanup"}
           [] op.kind = "reset" /\ do = "replace" -> {"cleanup"}
           [] op.kind = "reset" /\ do \in {"refresh", "switch"} ->
                 {"restore", "refresh", "cleanup"}
                 \cup IF primary.name = op.name THEN {"switch"} ELSE {}
           [] OTHER -> {}

\* The rollback of a reset.
LEMMA RestoreSteps ==
    ASSUME NEW n \in Names
    PROVE  LET s == <<Step("restore", n), Step("refresh", n)>> \o Reselect(n)
                    \o <<Step("cleanup", n)>> IN
           /\ s \in Seq(Steps)
           /\ s[1] = Step("restore", n) /\ s[2] = Step("refresh", n)
           /\ IF primary.name = n
              THEN Len(s) = 4 /\ s[3] = Step("switch", n) /\ s[4] = Step("cleanup", n)
              ELSE Len(s) = 3 /\ s[3] = Step("cleanup", n)
  <1> DEFINE a == <<Step("restore", n), Step("refresh", n)>>
             b == Reselect(n)
             c == <<Step("cleanup", n)>>
  <1>1. /\ Step("restore", n) \in Steps /\ Step("refresh", n) \in Steps
        /\ Step("switch", n) \in Steps /\ Step("cleanup", n) \in Steps
    BY StepTyped DEF Deeds
  <1>2. /\ a \in Seq(Steps) /\ Len(a) = 2 /\ 2 \in Nat
        /\ a[1] = Step("restore", n) /\ a[2] = Step("refresh", n)
    BY <1>1
  <1>3. /\ b \in Seq(Steps)
        /\ primary.name = n => Len(b) = 1 /\ b[1] = Step("switch", n)
        /\ primary.name # n => Len(b) = 0
    BY <1>1 DEF Reselect
  <1>4. c \in Seq(Steps) /\ Len(c) = 1 /\ c[1] = Step("cleanup", n)
    BY <1>1
  <1> HIDE DEF a, b, c
  <1> DEFINE d == a \o b
  <1>5. /\ d \in Seq(Steps) /\ Len(d) = 2 + Len(b)
        /\ \A i \in 1..2 : d[i] = a[i]
        /\ \A i \in 1..Len(b) : d[2 + i] = b[i]
    BY <1>2, <1>3, Joined, ZenonT(60)
  <1> HIDE DEF d
  <1>6. /\ d[1] = Step("restore", n) /\ d[2] = Step("refresh", n)
        /\ primary.name = n => Len(d) = 3 /\ d[3] = Step("switch", n)
        /\ primary.name # n => Len(d) = 2
    <2>1. 1 \in 1..2 /\ 2 \in 1..2 /\ 1 \in 1..1 /\ 2 + 1 = 3
      OBVIOUS
    <2>2. d[1] = Step("restore", n) /\ d[2] = Step("refresh", n)
      BY <1>2, <1>5, <2>1
    <2>3. CASE primary.name = n
      <3>a. Len(b) = 1 /\ 2 + 1 = 3
        BY <1>3, <2>3
      <3>b. Len(d) = 2 + Len(b)
        BY <1>5
      <3>1. Len(b) = 1 /\ Len(d) = 3
        BY <3>a, <3>b
      <3>2. d[2 + 1] = b[1]
        BY <1>5, <2>1, <3>1
      <3> QED
        BY <1>3, <2>1, <2>2, <2>3, <3>1, <3>2
    <2>4. CASE primary.name # n
      BY <1>3, <1>5, <2>2, <2>4
    <2> QED
      BY <2>3, <2>4
  <1>a. d \in Seq(Steps) /\ c \in Seq(Steps) /\ Len(c) = 1
    BY <1>4, <1>5
  <1>7. /\ Len(d \o c) = Len(d) + 1 /\ d \o c \in Seq(Steps)
        /\ \A i \in 1..Len(d) : (d \o c)[i] = d[i]
        /\ (d \o c)[Len(d) + 1] = c[1]
    <2>1. /\ Len(d) \in Nat /\ Len(d \o c) = Len(d) + Len(c) /\ d \o c \in Seq(Steps)
          /\ \A i \in 1..Len(d) : (d \o c)[i] = d[i]
          /\ \A i \in 1..Len(c) : (d \o c)[Len(d) + i] = c[i]
      BY <1>a, Join, Zenon
    <2>2. 1 \in 1..Len(c)
      BY <1>a
    <2> QED
      BY <1>a, <2>1, <2>2
  <1>8. /\ d \o c \in Seq(Steps)
        /\ (d \o c)[1] = Step("restore", n) /\ (d \o c)[2] = Step("refresh", n)
        /\ IF primary.name = n
           THEN Len(d \o c) = 4 /\ (d \o c)[3] = Step("switch", n) /\ (d \o c)[4] = Step("cleanup", n)
           ELSE Len(d \o c) = 3 /\ (d \o c)[3] = Step("cleanup", n)
    <2>1. CASE primary.name = n
      <3>1. Len(d) = 3 /\ 1 \in 1..3 /\ 2 \in 1..3 /\ 3 \in 1..3 /\ 3 + 1 = 4
        BY <1>6, <2>1
      <3> QED
        BY <1>4, <1>6, <1>7, <2>1, <3>1
    <2>2. CASE primary.name # n
      <3>1. Len(d) = 2 /\ 1 \in 1..2 /\ 2 \in 1..2 /\ 2 + 1 = 3
        BY <1>6, <2>2
      <3> QED
        BY <1>4, <1>6, <1>7, <2>2, <3>1
    <2> QED
      BY <2>1, <2>2
  <1> QED
    BY <1>8 DEF a, b, c, d

LEMMA LeftEmpty ==
    ASSUME NEW o \in Operations
    PROVE  o.todo = << >> <=> Left(o) = {}
  <1>1. CASE o.todo = << >>
    BY <1>1 DEF Left, Places
  <1>2. CASE o.todo # << >>
    <2>1. Len(o.todo) >= 1 /\ Len(o.todo) \in Nat
      BY <1>2, TodoFacts
    <2>2. 1 \in Places(o)
      BY <2>1 DEF Places
    <2> QED
      BY <1>2, <2>2 DEF Left
  <1> QED
    BY <1>1, <1>2

LEMMA FirstIs ==
    ASSUME NEW q, 1 \in Places(q)
    PROVE  q.todo # << >> /\ First(q) = q.todo[1].do
  <1>1. q.todo # << >>
    BY DEF Places
  <1> QED
    BY <1>1 DEF First

LEMMA UndoPlan ==
    ASSUME op \in Operations, branches \in RowSets,
           NEW do, NEW q, Undone(q, do)
    PROVE  /\ PlanSound(q)
           /\ Left(q) = Undoes(do)
           /\ First(q) = "discard" <=> do = "bind"
           /\ First(q) \notin {"bind", "adopt", "timeline", "row", "replace"}
  <1> DEFINE n == op.name
             L == Len(q.todo)
             dropped == IF do = "bind" THEN <<Step("discard", n)>> ELSE << >>
             undo == CASE op.kind = "create" /\ do # "row" -> RollBackRow
                       [] op.kind = "restore" -> UndoRestore(do)
                       [] op.kind = "reset" -> UndoReset(do)
                       [] OTHER -> << >>
  <1>1. n \in Names /\ q.todo = dropped \o undo /\ q.name = n
    BY DEF Operations, Undone, Compensation
  <1>2. /\ Step("cleanup", n) \in Steps /\ Step("delete", n) \in Steps
        /\ Step("restore", n) \in Steps /\ Step("refresh", n) \in Steps
        /\ Step("switch", n) \in Steps /\ Step("discard", n) \in Steps
    BY <1>1, StepTyped DEF Deeds
  <1>3. /\ op.kind = "create" /\ do # "row" => undo = <<Step("delete", n), Step("cleanup", n)>>
        /\ op.kind = "create" /\ do = "row" => undo = << >>
        /\ op.kind = "restore" /\ do = "row" => undo = <<Step("cleanup", n)>>
        /\ op.kind = "restore" /\ do # "row" /\ Active(n) => undo = <<Step("delete", n), Step("cleanup", n)>>
        /\ op.kind = "restore" /\ do # "row" /\ ~Active(n) => undo = << >>
        /\ op.kind = "reset" /\ do = "replace" => undo = <<Step("cleanup", n)>>
        /\ op.kind = "reset" /\ do \in {"refresh", "switch"} =>
              undo = <<Step("restore", n), Step("refresh", n)>> \o Reselect(n) \o <<Step("cleanup", n)>>
        /\ op.kind = "reset" /\ do \notin {"replace", "refresh", "switch"} => undo = << >>
        /\ op.kind \notin {"create", "restore", "reset"} => undo = << >>
    BY DEF UndoRestore, UndoReset, RollBackRow
  <1> DEFINE d == <<Step("delete", n), Step("cleanup", n)>>
             c == <<Step("cleanup", n)>>
             r == <<Step("restore", n), Step("refresh", n)>> \o Reselect(n) \o <<Step("cleanup", n)>>
             x == <<Step("discard", n)>>
  <1>4. /\ d \in Seq(Steps) /\ Len(d) = 2 /\ d[1] = Step("delete", n) /\ d[2] = Step("cleanup", n)
        /\ c \in Seq(Steps) /\ Len(c) = 1 /\ c[1] = Step("cleanup", n)
        /\ x \in Seq(Steps) /\ Len(x) = 1 /\ x[1] = Step("discard", n)
    BY <1>2
  <1>5. /\ r \in Seq(Steps) /\ r[1] = Step("restore", n) /\ r[2] = Step("refresh", n)
        /\ IF primary.name = n
           THEN Len(r) = 4 /\ r[3] = Step("switch", n) /\ r[4] = Step("cleanup", n)
           ELSE Len(r) = 3 /\ r[3] = Step("cleanup", n)
    BY <1>1, RestoreSteps, Zenon
  <1>6. undo \in {<< >>, d, c, r} /\ dropped = IF do = "bind" THEN x ELSE << >>
    BY <1>3
  <1> HIDE DEF d, c, r, x, undo, dropped
  <1>7. undo \in Seq(Steps)
    <2>1. << >> \in Seq(Steps)
      OBVIOUS
    <2> HIDE DEF dropped
    <2> QED
      BY <1>4, <1>5, <1>6, <2>1
  <1> DEFINE both == \/ op.kind = "create" /\ do # "row"
                     \/ op.kind = "restore" /\ do # "row" /\ Active(n)
             last == (op.kind = "restore" /\ do = "row") \/ (op.kind = "reset" /\ do = "replace")
             back == op.kind = "reset" /\ do \in {"refresh", "switch"}
             drop == IF do = "bind" THEN {"discard"} ELSE {}
  <1>8. /\ both => undo = d /\ Undoes(do) = drop \cup {"delete", "cleanup"}
        /\ last => undo = c /\ Undoes(do) = {"cleanup"} /\ do # "bind"
        /\ back => undo = r /\ do # "bind"
                   /\ Undoes(do) = {"restore", "refresh", "cleanup"}
                                   \cup IF primary.name = n THEN {"switch"} ELSE {}
        /\ ~both /\ ~last /\ ~back => undo = << >> /\ Undoes(do) = drop
    BY <1>3 DEF Undoes, d, c, r
  <1>9. (both => op.kind \in {"create", "restore"}) /\ (last => op.kind \in {"restore", "reset"})
    OBVIOUS
  <1> HIDE DEF both, last, drop, L
  <1>a. q.kind = op.kind /\ q.parent = op.parent /\ q.failed = TRUE
    BY DEF Undone
  <1>b. (do = "bind" => drop = {"discard"} /\ dropped = x) /\ (do # "bind" => drop = {} /\ dropped = << >>)
    BY <1>6 DEF drop
  <1>c. dropped = << >> => q.todo = undo
    BY <1>1, <1>7, ConcatEmptySeq
  <1>10. CASE do # "bind" /\ both
    <2>1. q.todo = d /\ Undoes(do) = {"delete", "cleanup"}
      BY <1>8, <1>10, <1>b, <1>c
    <2>2. L = 2 /\ q.todo[1] = Step("delete", n) /\ q.todo[2] = Step("cleanup", n)
      BY <1>4, <2>1 DEF L
    <2>3. Places(q) = {1, 2}
      <3>1. Places(q) = 1..2 /\ Len(q.todo) = 2
        BY <2>2 DEF Places, L
      <3> QED
        BY <3>1
    <2>4. StepsSound(q)
      <3>1. Undoing(q.kind) = {"discard", "delete", "cleanup"}
        BY <1>9, <1>10, <1>a DEF Undoing
      <3>2. StepAt(q, 1) /\ StepAt(q, 2)
        BY <1>1, <1>a, <2>2, <3>1 DEF StepAt, Step, Climbing
      <3> QED
        BY <2>3, <3>2 DEF StepsSound
    <2>5. OrderSound(q)
      <3>1. OrderAt(q, 1) /\ OrderAt(q, 2)
        BY <1>a, <2>2 DEF OrderAt, Step, Climbing, L
      <3> QED
        BY <2>3, <3>1 DEF OrderSound
    <2>6. Distinct(q) /\ ResetClimb(q)
      BY <2>2, <2>3 DEF Distinct, DistinctAt, ResetClimb, Step
    <2>7. Left(q) = {"delete", "cleanup"} /\ First(q) = "delete"
      <3>1. q.todo # << >> /\ First(q) = q.todo[1].do
        BY <2>3, FirstIs
      <3> QED
        BY <2>2, <2>3, <3>1 DEF Left, Step
    <2> QED
      BY <1>8, <1>10, <2>1, <2>4, <2>5, <2>6, <2>7 DEF PlanSound
  <1>11. CASE last
    <2>1. q.todo = c /\ Undoes(do) = {"cleanup"}
      BY <1>8, <1>11, <1>b, <1>c
    <2>2. L = 1 /\ q.todo[1] = Step("cleanup", n)
      BY <1>4, <2>1 DEF L
    <2>3. Places(q) = {1}
      <3>1. Places(q) = 1..1 /\ Len(q.todo) = 1
        BY <2>2 DEF Places, L
      <3> QED
        BY <3>1
    <2>4. StepsSound(q)
      <3>1. StepAt(q, 1)
        BY <1>1, <1>9, <1>11, <1>a, <2>2 DEF StepAt, Step, Undoing, Climbing
      <3> QED
        BY <2>3, <3>1 DEF StepsSound
    <2>5. OrderSound(q)
      BY <1>a, <2>2, <2>3 DEF OrderSound, OrderAt, Step, Climbing, L
    <2>6. Distinct(q) /\ ResetClimb(q)
      BY <2>2, <2>3 DEF Distinct, DistinctAt, ResetClimb, Step
    <2>7. Left(q) = {"cleanup"} /\ First(q) = "cleanup"
      <3>1. q.todo # << >> /\ First(q) = q.todo[1].do
        BY <2>3, FirstIs
      <3> QED
        BY <2>2, <2>3, <3>1 DEF Left, Step
    <2> QED
      BY <1>8, <1>11, <2>1, <2>4, <2>5, <2>6, <2>7 DEF PlanSound
  <1>12. CASE ~both /\ ~last /\ ~back /\ do # "bind"
    <2>1. q.todo = << >> /\ Undoes(do) = {}
      BY <1>8, <1>12, <1>b, <1>c
    <2>2. Places(q) = {}
      BY <2>1 DEF Places
    <2>3. Left(q) = {} /\ First(q) = "none"
      BY <2>1, <2>2 DEF Left, First
    <2>4. PlanSound(q)
      BY <2>2 DEF PlanSound, StepsSound, OrderSound, Distinct, ResetClimb
    <2> QED
      BY <1>12, <2>1, <2>3, <2>4
  <1>13. CASE ~both /\ ~last /\ ~back /\ do = "bind"
    <2>1. q.todo = x /\ Undoes(do) = {"discard"}
      BY <1>1, <1>4, <1>8, <1>13, <1>b, ConcatEmptySeq
    <2>2. L = 1 /\ q.todo[1] = Step("discard", n)
      BY <1>4, <2>1 DEF L
    <2>3. Places(q) = {1}
      <3>1. Places(q) = 1..1 /\ Len(q.todo) = 1
        BY <2>2 DEF Places, L
      <3> QED
        BY <3>1
    <2>4. StepsSound(q)
      <3>1. StepAt(q, 1)
        BY <1>1, <1>a, <2>2 DEF StepAt, Step, Undoing, Climbing
      <3> QED
        BY <2>3, <3>1 DEF StepsSound
    <2>5. OrderSound(q)
      BY <1>a, <2>2, <2>3 DEF OrderSound, OrderAt, Step, Climbing, L
    <2>6. Distinct(q) /\ ResetClimb(q)
      BY <2>2, <2>3 DEF Distinct, DistinctAt, ResetClimb, Step
    <2>7. Left(q) = {"discard"} /\ First(q) = "discard"
      <3>1. q.todo # << >> /\ First(q) = q.todo[1].do
        BY <2>3, FirstIs
      <3> QED
        BY <2>2, <2>3, <3>1 DEF Left, Step
    <2> QED
      BY <1>13, <2>1, <2>4, <2>5, <2>6, <2>7 DEF PlanSound
  <1>14. CASE do = "bind" /\ both
    <2>1. q.todo = x \o d /\ Undoes(do) = {"discard", "delete", "cleanup"}
      BY <1>1, <1>8, <1>14, <1>b
    <2>a. 1 \in Nat /\ x \in Seq(Steps) /\ d \in Seq(Steps) /\ Len(x) = 1
      BY <1>4
    <2>b. /\ Len(x \o d) = 1 + Len(d)
          /\ \A i \in 1..1 : (x \o d)[i] = x[i]
          /\ \A i \in 1..Len(d) : (x \o d)[1 + i] = d[i]
      BY <2>a, Joined, ZenonT(60)
    <2>c. (x \o d)[1 + 1] = d[1] /\ (x \o d)[1 + 2] = d[2] /\ (x \o d)[1] = x[1]
      BY <1>4, <2>b
    <2>2. /\ L = 3 /\ q.todo[1] = Step("discard", n) /\ q.todo[2] = Step("delete", n)
          /\ q.todo[3] = Step("cleanup", n)
      BY <1>4, <2>1, <2>b, <2>c DEF L
    <2>3. Places(q) = {1, 2, 3}
      <3>1. Places(q) = 1..3 /\ Len(q.todo) = 3
        BY <2>2 DEF Places, L
      <3> QED
        BY <3>1
    <2>4. StepsSound(q)
      <3>1. Undoing(q.kind) = {"discard", "delete", "cleanup"}
        BY <1>9, <1>14, <1>a DEF Undoing
      <3>2. StepAt(q, 1) /\ StepAt(q, 2) /\ StepAt(q, 3)
        BY <1>1, <1>a, <2>2, <3>1 DEF StepAt, Step, Climbing
      <3> QED
        BY <2>3, <3>2 DEF StepsSound
    <2>5. OrderSound(q)
      <3>1. OrderAt(q, 1) /\ OrderAt(q, 2) /\ OrderAt(q, 3)
        BY <1>a, <2>2 DEF OrderAt, Step, Climbing, L
      <3> QED
        BY <2>3, <3>1 DEF OrderSound
    <2>6. Distinct(q) /\ ResetClimb(q)
      BY <2>2, <2>3 DEF Distinct, DistinctAt, ResetClimb, Step
    <2>7. Left(q) = {"discard", "delete", "cleanup"} /\ First(q) = "discard"
      <3>1. q.todo # << >> /\ First(q) = q.todo[1].do
        BY <2>3, FirstIs
      <3> QED
        BY <2>2, <2>3, <3>1 DEF Left, Step
    <2> QED
      BY <1>14, <2>1, <2>4, <2>5, <2>6, <2>7 DEF PlanSound
  <1>15. CASE back
    <2>1. q.todo = r /\ q.kind = "reset"
      BY <1>8, <1>15, <1>a, <1>b, <1>c
    <2>2. q.todo[1] = Step("restore", n) /\ q.todo[2] = Step("refresh", n)
      BY <1>5, <2>1
    <2>3. CASE primary.name = n
      <3>1. L = 4 /\ q.todo[3] = Step("switch", n) /\ q.todo[4] = Step("cleanup", n)
        BY <1>5, <2>1, <2>3 DEF L
      <3>2. Places(q) = {1, 2, 3, 4}
        <4>1. Places(q) = 1..4 /\ Len(q.todo) = 4
          BY <3>1 DEF Places, L
        <4> QED
          BY <4>1
      <3>4. StepsSound(q)
        BY <1>1, <1>a, <2>1, <2>2, <3>1, <3>2 DEF StepsSound, StepAt, Step, Undoing, Climbing
      <3>5. OrderSound(q)
        <4>a. \A deed \in {"replace", "restore"} : ~After(q, 2, deed) /\ ~After(q, 3, deed)
          BY <2>2, <3>1, <3>2 DEF After, Step
        <4>1. OrderAt(q, 1) /\ OrderAt(q, 2) /\ OrderAt(q, 3) /\ OrderAt(q, 4)
          BY <1>a, <2>2, <3>1, <4>a DEF OrderAt, Step, Climbing, L
        <4> QED
          BY <3>2, <4>1 DEF OrderSound
      <3>6. Distinct(q) /\ ResetClimb(q)
        BY <2>2, <3>1, <3>2 DEF Distinct, DistinctAt, ResetClimb, Step
      <3>7. Left(q) = {"restore", "refresh", "switch", "cleanup"} /\ First(q) = "restore"
        <4>1. q.todo # << >> /\ First(q) = q.todo[1].do
          BY <3>2, FirstIs
        <4> QED
          BY <2>2, <3>1, <3>2, <4>1 DEF Left, Step
      <3>8. Left(q) = Undoes(do)
        BY <1>8, <1>15, <2>3, <3>7
      <3> QED
        BY <1>8, <1>15, <3>4, <3>5, <3>6, <3>7, <3>8 DEF PlanSound
    <2>4. CASE primary.name # n
      <3>1. L = 3 /\ q.todo[3] = Step("cleanup", n)
        BY <1>5, <2>1, <2>4 DEF L
      <3>2. Places(q) = {1, 2, 3}
        <4>1. Places(q) = 1..3 /\ Len(q.todo) = 3
          BY <3>1 DEF Places, L
        <4> QED
          BY <4>1
      <3>4. StepsSound(q)
        BY <1>1, <1>a, <2>1, <2>2, <3>1, <3>2 DEF StepsSound, StepAt, Step, Undoing, Climbing
      <3>5. OrderSound(q)
        <4>a. \A deed \in {"replace", "restore"} : ~After(q, 2, deed)
          BY <2>2, <3>1, <3>2 DEF After, Step
        <4>1. OrderAt(q, 1) /\ OrderAt(q, 2) /\ OrderAt(q, 3)
          BY <1>a, <2>2, <3>1, <4>a DEF OrderAt, Step, Climbing, L
        <4> QED
          BY <3>2, <4>1 DEF OrderSound
      <3>6. Distinct(q) /\ ResetClimb(q)
        BY <2>2, <3>1, <3>2 DEF Distinct, DistinctAt, ResetClimb, Step
      <3>7. Left(q) = {"restore", "refresh", "cleanup"} /\ First(q) = "restore"
        <4>1. q.todo # << >> /\ First(q) = q.todo[1].do
          BY <3>2, FirstIs
        <4> QED
          BY <2>2, <3>1, <3>2, <4>1 DEF Left, Step
      <3>8. Left(q) = Undoes(do)
        BY <1>8, <1>15, <2>4, <3>7
      <3> QED
        BY <1>8, <1>15, <3>4, <3>5, <3>6, <3>7, <3>8 DEF PlanSound
    <2> QED
      BY <2>3, <2>4
  <1>16. last => do # "bind"
    BY <1>8
  <1> QED
    BY <1>8, <1>10, <1>11, <1>12, <1>13, <1>14, <1>15

=============================================================================
