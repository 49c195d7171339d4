-------------------------- MODULE BranchOutcomeProofs --------------------------
(***************************************************************************)
(* What BranchLifecycle promises of whole operations, for any set of       *)
(* branches, any number of operations, timelines and faults: what branches *)
(* are attached to, what is published, what storage leaks, what answers    *)
(* are worth and what the primary serves.                                  *)
(*                                                                         *)
(* An operation o works on rows r, timelines t of which d were drawn, with *)
(* ex excused, b the rows of the last answer, the primary's selection p,   *)
(* and a whether that may be adrift.                                       *)
(***************************************************************************)
EXTENDS BranchLifecycleProofs

-----------------------------------------------------------------------------
(* The inductive invariant *)

\* A rollback that has still to put a row back ends with the cleanup.
UndoSound(o) ==
    /\ o.comp => o.failed
    /\ o.failed /\ Left(o) \cap {"delete", "restore"} # {} => "cleanup" \in Left(o)

\* Whether the branch of an operation is active.
RowsSound(o, r) ==
    /\ New(o) => o.name \in Others
    /\ New(o) /\ ~o.failed => ("row" \in Left(o) <=> ~ActiveIn(r, o.name))
    /\ o.kind = "reset" =>
          o.name \in Others /\ ActiveIn(r, o.name) /\ r[o.name].parent = o.parent
    /\ o.kind \in {"startup", "publish", "unpublish", "select"} => ActiveIn(r, o.name)
    /\ o.kind = "delete" => ActiveIn(r, o.name) \/ (o.todo = << >> /\ ~o.failed)

\* What a publication that is under way has done or has still to do.
PublishedSound(o, r) ==
    /\ \A n \in Names : r[n].pub => ActiveIn(r, n) /\ r[n].tl # 0 /\ r[n].pw
    /\ New(o) /\ ((~o.failed /\ o.todo # << >>) \/ "delete" \in Left(o)) => ~r[o.name].pub
    /\ o.kind = "delete" /\ ~o.failed => "unpublish" \in Left(o) \/ ~r[o.name].pub
    /\ "publish" \in Left(o) /\ "row" \notin Left(o) =>
          /\ "password" \in Left(o) \/ r[o.name].pw
          /\ Has(o, "resolve", o.name) \/ r[o.name].tl # 0
    /\ o.kind = "create" /\ "row" \in Left(o) => Has(o, "resolve", o.name)

\* The timelines of the rows exist and belong to one branch each. Branches get theirs from
\* a parent, so that main is the first to have one.
RowTls(r, t, d) ==
    /\ t \subseteq 1..d
    /\ \A n \in Names : r[n].tl <= d
    /\ Attached(r) \subseteq t
    /\ \A m, n \in ListActive(r) : m # n /\ r[m].tl # 0 => r[m].tl # r[n].tl
    /\ r[Main].tl = 0 => \A n \in Names : r[n].tl = 0

\* The timelines an operation carries.
OpTls(o, r, d) ==
    /\ o.made <= d /\ o.new <= d /\ o.prev <= d
    /\ r[Main].tl = 0 => o.new = 0 /\ o.prev = 0
    /\ ~o.failed /\ o.kind \notin {"restore", "reset"} => o.new = 0
    /\ "timeline" \in Left(o) => o.new = 0
    /\ o.kind = "create" /\ "row" \in Left(o) => o.made = 0

\* The one it has made for a branch that has none.
MadeSound(o, r, t) ==
    /\ First(o) \in {"bind", "adopt"} =>
          LET n == o.todo[1].on IN
          /\ o.made \in t /\ o.made \notin Attached(r) /\ o.made # o.prev
          /\ ActiveIn(r, n) /\ r[n].tl = 0 /\ (n # Main => r[Main].tl # 0)
          /\ o.kind = "reset" => n # o.name
    /\ First(o) = "adopt" => o.todo[1].on = Main
    /\ First(o) = "discard" => o.made \notin Attached(r) /\ o.made # o.prev

\* A reset has the timeline it replaces, and the one it replaces that with.
ResetTls(o, r, t) ==
    o.kind = "reset" =>
        /\ o.prev # 0 => o.prev \in t /\ \A m \in ListActive(r) : r[m].tl = o.prev => m = o.name
        /\ o.new # 0 => o.new # o.prev
        /\ ~o.failed => r[o.name].tl = IF "replace" \in Left(o) THEN o.prev ELSE o.new
        /\ ~o.failed /\ "replace" \notin Left(o) => o.new # 0
        /\ o.failed /\ "restore" \in Left(o) => r[o.name].tl = o.new

\* The one it has branched off, or that its rollback has to delete.
NewSound(o, r, t) ==
    /\ First(o) = "timeline" => r[o.parent].tl # 0
    /\ First(o) \in {"row", "replace"} /\ o.kind # "create" =>
          o.new \in t /\ o.new \notin Attached(r)
    /\ o.kind = "restore" /\ ~o.failed /\ ActiveIn(r, o.name) => r[o.name].tl = o.new /\ o.new # 0
    /\ New(o) /\ o.failed /\ "delete" \in Left(o) => r[o.name].tl = o.new
    /\ "cleanup" \in Left(o) /\ ~o.comp /\ o.new # 0 =>
          \A m \in ListActive(r) : r[m].tl = o.new =>
              m = o.name /\ Left(o) \cap {"delete", "restore"} # {}

\* Every timeline is attached, excused, or will be looked after by the operation.
LeaksSound(o, r, t, ex) ==
    /\ t \subseteq Attached(r) \cup ex \cup {o.made, o.new}
    /\ o.made \in t =>
          \/ o.made \in Attached(r) \cup ex \/ o.made = o.new
          \/ First(o) \in {"bind", "discard"} \/ o.comp
    /\ o.new \in t =>
          \/ o.new \in Attached(r) \cup ex \/ o.comp \/ "cleanup" \in Left(o)
          \/ ~o.failed /\ First(o) \in {"row", "replace"}
    /\ o.kind = "delete" => r[o.name].tl \in ex \cup {0}
    /\ o.kind = "reset" => o.prev \in ex \cup {0}

\* A row is as the last answer left it.
KeepsRow(b, r, n) ==
    /\ ActiveIn(b, n) <=> ActiveIn(r, n)
    /\ ActiveIn(b, n) => b[n].parent = r[n].parent /\ b[n].tl \in {0, r[n].tl}

\* All but the operation's branch are, and that one is when the operation is undone.
AnswerSound(o, r, b) ==
    /\ r = NoRows => b = NoRows
    /\ b # NoRows =>
        /\ \A m \in Names :
              m # o.name \/ o.kind \notin {"create", "restore", "delete", "reset"} => KeepsRow(b, r, m)
        /\ New(o) => ~ActiveIn(b, o.name)
        /\ New(o) /\ o.failed /\ "delete" \notin Left(o) /\ ~o.comp => ~ActiveIn(r, o.name)
        /\ o.kind = "delete" => KeepsRow(b, r, o.name) \/ (~o.failed /\ o.todo = << >>)
        /\ o.kind = "reset" =>
              /\ ActiveIn(b, o.name) /\ b[o.name].parent = o.parent /\ b[o.name].tl \in {0, o.prev}
              /\ \/ ~o.failed /\ "replace" \in Left(o)
                 \/ o.failed /\ "restore" \notin Left(o) /\ ~o.comp
                 => KeepsRow(b, r, o.name)

\* The primary may be on another timeline than its branch while a reset is yet to switch
\* it, or after it could not.
Behind(o) ==
    /\ o.kind = "reset"
    /\ o.comp \/ ("switch" \in Left(o) /\ (o.failed \/ "replace" \notin Left(o)))

PrimarySound(o, r, p, a) ==
    /\ ~a /\ p.tl # 0 => p.tl = r[p.name].tl \/ Behind(o)
    /\ o.kind = "reset" =>
          /\ p.name = o.name /\ ((~o.failed /\ "replace" \in Left(o)) \/ "restore" \in Left(o)) =>
                "switch" \in Left(o)
          /\ "switch" \in Left(o) => p.name = o.name
    /\ New(o) => o.name # p.name \/ a

\* The controller publishes before it serves, and knows the primary's branch afterwards.
StartSound(o, r, q, p, a) ==
    /\ q # {} => o.kind \in {"none", "startup"} /\ q \subseteq ListActive(r)
    /\ q = {} /\ o.kind \notin {"startup", "delete"} => a \/ ActiveIn(r, p.name)

\* What an operation has made of the branches, apart from what it publishes.
StateSound(o, r, t, d, ex, b, p, a) ==
    /\ PlanSound(o) /\ UndoSound(o)
    /\ RowsSound(o, r)
    /\ RowTls(r, t, d)
    /\ OpTls(o, r, d)
    /\ MadeSound(o, r, t)
    /\ ResetTls(o, r, t)
    /\ NewSound(o, r, t)
    /\ LeaksSound(o, r, t, ex)
    /\ AnswerSound(o, r, b)
    /\ PrimarySound(o, r, p, a)

\* The invariant: what is known of every state of every behaviour.
OutcomeSound ==
    /\ StateSound(op, table, timelines, drawn, hist.excused, hist.before, primary, hist.adrift)
    /\ PublishedSound(op, table)
    /\ up => StartSound(op, table, queue, primary, hist.adrift)

\* As long as the table is empty, the timelines are those the old file knows of.
LegacySound == table = NoRows => RowTls(legacy, timelines, drawn) /\ Complete(legacy)

-----------------------------------------------------------------------------
(* How plans go on *)

\* q is what is left of o after its next step, which has ended well.
Ends(o, q) ==
    /\ Popped(o, q)
    /\ q.prev = o.prev /\ q.made = o.made /\ q.new = o.new /\ q.comp = o.comp

\* The steps that an operation takes, on its own branch but for the climb.
LEMMA FirstStep ==
    ASSUME NEW o \in Operations, o.todo # << >>, PlanSound(o)
    PROVE  /\ First(o) \in Left(o) /\ First(o) = o.todo[1].do
           /\ First(o) \in IF o.failed THEN Undoing(o.kind) ELSE Doing(o.kind)
           /\ Left(o) \subseteq IF o.failed THEN Undoing(o.kind) ELSE Doing(o.kind)
           /\ First(o) \notin Climbing \cup {"timeline"} => o.todo[1].on = o.name
           /\ First(o) = "timeline" => o.todo[1].on = o.parent
           /\ o.todo[1] \in Steps /\ o.todo[1].on \in Names
           /\ First(o) = "row" => o.todo[1].on \in Others
  <1>1. Len(o.todo) \in Nat /\ Len(o.todo) >= 1 /\ 1 \in Places(o)
    BY TodoFacts DEF Places
  <1>2. StepAt(o, 1) /\ First(o) = o.todo[1].do
    BY <1>1, FirstIs DEF PlanSound, StepsSound
  <1>3. o.todo[1] \in Steps
    BY <1>1, TodoFacts
  <1>4. First(o) \in Left(o)
    BY <1>1, <1>2 DEF Left
  <1>5. Left(o) \subseteq IF o.failed THEN Undoing(o.kind) ELSE Doing(o.kind)
    BY LeftDeeds DEF PlanSound
  <1> QED
    BY <1>2, <1>3, <1>4, <1>5 DEF StepAt, Steps

\* A branch gets its row first.
LEMMA RowFirst ==
    ASSUME NEW o \in Operations, PlanSound(o), o.kind = "create", "row" \in Left(o)
    PROVE  First(o) = "row"
  <1>1. PICK i \in Places(o) : o.todo[i].do = "row"
    BY DEF Left
  <1>2. i = 1
    BY <1>1 DEF PlanSound, OrderSound, OrderAt
  <1> QED
    BY <1>1, <1>2, FirstIs

\* A reset replaces the timeline unless it is already past that.
LEMMA ReplaceComes ==
    ASSUME NEW o \in Operations, PlanSound(o), o.kind = "reset", ~o.failed, o.todo # << >>,
           First(o) \notin {"refresh", "switch"}
    PROVE  "replace" \in Left(o)
  <1>1. /\ Len(o.todo) \in Nat /\ 1 \in Places(o) /\ Places(o) = 1..Len(o.todo)
        /\ First(o) = o.todo[1].do
    <2>1. Len(o.todo) \in Nat /\ Len(o.todo) >= 1
      BY TodoFacts
    <2> QED
      BY <2>1, FirstIs DEF Places
  <1>2. ASSUME NEW i \in Places(o), o.todo[i].do = "timeline" PROVE "replace" \in Left(o)
    <2>1. i < Len(o.todo) /\ o.todo[i + 1].do = "replace"
      BY <1>2 DEF PlanSound, OrderSound, OrderAt
    <2>2. i + 1 \in Places(o)
      BY <1>1, <2>1
    <2> QED
      BY <2>1, <2>2 DEF Left
  <1>3. First(o) \in Climbing \cup {"password", "timeline", "replace"}
    BY FirstStep DEF Doing
  <1>4. CASE First(o) \in Climbing \cup {"password"}
    <2>1. After(o, 1, "timeline")
      BY <1>1, <1>4 DEF PlanSound, OrderSound, OrderAt
    <2> QED
      BY <1>2, <2>1 DEF After
  <1>5. CASE First(o) = "timeline"
    BY <1>1, <1>2, <1>5
  <1>6. CASE First(o) = "replace"
    BY <1>1, <1>6 DEF Left
  <1> QED
    BY <1>3, <1>4, <1>5, <1>6

\* It refreshes and switches when the timeline is replaced, or put back.
LEMMA ReplacedBefore ==
    ASSUME NEW o \in Operations, PlanSound(o), First(o) \in {"refresh", "switch"}
    PROVE  "replace" \notin Left(o) /\ "restore" \notin Left(o)
  <1>1. o.todo # << >>
    BY DEF First
  <1>2. Len(o.todo) \in Nat /\ 1 \in Places(o) /\ First(o) = o.todo[1].do
    <2>1. Len(o.todo) \in Nat /\ Len(o.todo) >= 1
      BY <1>1, TodoFacts
    <2> QED
      BY <2>1, FirstIs DEF Places
  <1>3. ~After(o, 1, "replace") /\ ~After(o, 1, "restore")
    BY <1>2 DEF PlanSound, OrderSound, OrderAt
  <1>4. ASSUME NEW i \in Places(o), o.todo[i].do \in {"replace", "restore"} PROVE FALSE
    <2>1. i # 1 /\ i > 1
      BY <1>2, <1>4 DEF Places
    <2> QED
      BY <1>3, <1>4, <2>1 DEF After
  <1> QED
    BY <1>4 DEF Left

\* What a step that ends well means for the plan.
LEMMA Goes ==
    ASSUME NEW o \in Operations, NEW q \in Operations, PlanSound(o), UndoSound(o), Ends(o, q),
           o.todo # << >>
    PROVE  /\ PlanSound(q) /\ UndoSound(q)
           /\ q.kind = o.kind /\ q.name = o.name /\ q.parent = o.parent /\ q.failed = o.failed
           /\ q.prev = o.prev /\ q.made = o.made /\ q.new = o.new /\ q.comp = o.comp
           /\ Left(o) = Left(q) \cup {First(o)}
           /\ First(o) # "resolve" => First(o) \notin Left(q)
           /\ q.todo = << >> <=> Left(q) = {}
           /\ q.todo = << >> => First(q) = "none"
           /\ First(o) \in Left(o)
           /\ First(q) \notin {"bind", "adopt", "discard"}
           /\ First(q) = "row" => First(o) = "timeline" /\ o.kind = "restore"
           /\ First(q) = "replace" => First(o) = "timeline"
           /\ First(q) = "timeline" => First(o) = "resolve" /\ o.todo[1].on = o.parent
           /\ First(o) = "timeline" => First(q) = IF o.kind = "reset" THEN "replace" ELSE "row"
           /\ First(o) \in {"publish", "cleanup"} => Left(q) = {}
           /\ First(o) = "delete" /\ ~o.failed => Left(q) = {}
  <1>1. Popped(o, q) /\ q.comp = o.comp
    BY DEF Ends
  <1>2. /\ Left(o) = Left(q) \cup {First(o)}
        /\ First(o) # "resolve" => First(o) \notin Left(q)
        /\ q.todo = << >> <=> Left(q) = {}
    BY <1>1, PopLeft DEF PlanSound
  <1>3. /\ First(q) \notin {"bind", "adopt", "discard"}
        /\ First(q) = "row" => First(o) = "timeline" /\ o.kind = "restore"
        /\ First(q) = "replace" => First(o) = "timeline"
        /\ First(q) = "timeline" => First(o) = "resolve" /\ o.todo[1].on = o.parent
        /\ First(o) = "timeline" => First(q) = IF o.kind = "reset" THEN "replace" ELSE "row"
        /\ First(o) \in {"publish", "cleanup"} => q.todo = << >>
        /\ First(o) = "delete" /\ ~o.failed => q.todo = << >>
    BY <1>1, PopFirst
  <1>4. PlanSound(q)
    BY <1>1, PopPlan
  <1>5. UndoSound(q)
    BY <1>1, <1>2, <1>3 DEF UndoSound, Popped
  <1> QED
    BY <1>1, <1>2, <1>3, <1>4, <1>5 DEF Ends, Popped, First

-----------------------------------------------------------------------------
(* Steps that change neither what branches there are nor what they are attached to *)

\* The rows have changed in nothing but passwords and publications.
Same(r, s) ==
    \A m \in Names :
        s[m].state = r[m].state /\ s[m].parent = r[m].parent /\ s[m].tl = r[m].tl

LEMMA AttachedIs ==
    ASSUME NEW r, NEW x
    PROVE  x \in Attached(r) <=> x # 0 /\ \E m \in Names : ActiveIn(r, m) /\ r[m].tl = x
  BY DEF Attached, ListActive

LEMMA SameFacts ==
    ASSUME NEW r, NEW s, Same(r, s)
    PROVE  /\ \A m \in Names : ActiveIn(s, m) <=> ActiveIn(r, m)
           /\ ListActive(s) = ListActive(r) /\ Attached(s) = Attached(r)
           /\ \A b, m : m \in Names /\ KeepsRow(b, r, m) => KeepsRow(b, s, m)
  <1>1. \A m \in Names : ActiveIn(s, m) <=> ActiveIn(r, m)
    BY DEF Same, ActiveIn
  <1>2. ListActive(s) = ListActive(r)
    BY <1>1 DEF ListActive
  <1>3. Attached(s) = Attached(r)
    <2>1. \A x : x \in Attached(s) <=> x \in Attached(r)
      BY <1>1, AttachedIs DEF Same
    <2> QED
      BY <2>1
  <1>4. \A b, m : m \in Names /\ KeepsRow(b, r, m) => KeepsRow(b, s, m)
    BY <1>1 DEF Same, KeepsRow
  <1> QED
    BY <1>1, <1>2, <1>3, <1>4

LEMMA SameSound ==
    ASSUME NEW o \in Operations, NEW r, NEW s, NEW t, NEW d, NEW ex, NEW b,
           NEW p, p.name \in Names, NEW a,
           StateSound(o, r, t, d, ex, b, p, a), Same(r, s), s # NoRows
    PROVE  StateSound(o, s, t, d, ex, b, p, a)
  <1>1. /\ o.name \in Names /\ o.parent \in Names
        /\ \A m \in Names : ActiveIn(s, m) <=> ActiveIn(r, m)
        /\ \A m \in Names : s[m].tl = r[m].tl /\ s[m].parent = r[m].parent
        /\ ListActive(s) = ListActive(r) /\ Attached(s) = Attached(r) /\ Main \in Names
    BY SameFacts, Facts DEF Same, Operations
  <1>2. PlanSound(o) /\ UndoSound(o)
    BY DEF StateSound
  <1>3. RowsSound(o, s)
    BY <1>1 DEF StateSound, RowsSound
  <1>4. RowTls(s, t, d)
    <2>1. \A m \in ListActive(s) : m \in Names
      BY DEF ListActive
    <2> QED
      BY <1>1, <2>1 DEF StateSound, RowTls
  <1>5. OpTls(o, s, d)
    BY <1>1 DEF StateSound, OpTls
  <1>6. MadeSound(o, s, t)
    <2>1. First(o) \in {"bind", "adopt"} => o.todo[1].on \in Names
      <3>1. First(o) \in {"bind", "adopt"} => o.todo # << >>
        BY DEF First
      <3> QED
        BY <1>2, <3>1, FirstStep
    <2> QED
      BY <1>1, <2>1 DEF StateSound, MadeSound
  <1>7. ResetTls(o, s, t)
    <2>1. \A m \in ListActive(s) : m \in Names
      BY DEF ListActive
    <2> QED
      BY <1>1, <2>1 DEF StateSound, ResetTls
  <1>8. NewSound(o, s, t)
    <2>1. \A m \in ListActive(s) : m \in Names
      BY DEF ListActive
    <2> QED
      BY <1>1, <2>1 DEF StateSound, NewSound
  <1>9. LeaksSound(o, s, t, ex)
    BY <1>1 DEF StateSound, LeaksSound
  <1>10. AnswerSound(o, s, b)
    <2>1. \A m \in Names : KeepsRow(b, r, m) => KeepsRow(b, s, m)
      BY SameFacts
    <2> QED
      BY <1>1, <2>1 DEF StateSound, AnswerSound
  <1>11. PrimarySound(o, s, p, a)
    BY <1>1 DEF StateSound, PrimarySound
  <1> QED
    BY <1>2, <1>3, <1>4, <1>5, <1>6, <1>7, <1>8, <1>9, <1>10, <1>11 DEF StateSound

\* Steps that only move on.
Plain == {"password", "resolve", "attach", "publish", "unpublish", "refresh"}

LEMMA PlainSound ==
    ASSUME NEW o \in Operations, NEW q \in Operations, NEW r, NEW t, NEW d, NEW ex, NEW b,
           NEW p, NEW a, StateSound(o, r, t, d, ex, b, p, a),
           Ends(o, q), o.todo # << >>, First(o) \in Plain,
           First(o) = "resolve" => r[o.todo[1].on].tl # 0
    PROVE  StateSound(q, r, t, d, ex, b, p, a)
  <1>1. PlanSound(o) /\ UndoSound(o)
    BY DEF StateSound
  <1>2. /\ PlanSound(q) /\ UndoSound(q)
        /\ q.kind = o.kind /\ q.name = o.name /\ q.parent = o.parent /\ q.failed = o.failed
        /\ q.prev = o.prev /\ q.made = o.made /\ q.new = o.new /\ q.comp = o.comp
        /\ Left(o) = Left(q) \cup {First(o)}
        /\ First(q) \notin {"bind", "adopt", "discard", "row", "replace"}
        /\ First(q) = "timeline" => First(o) = "resolve" /\ o.todo[1].on = o.parent
    BY <1>1, Goes DEF Plain
  <1>3. /\ \A do \in {"row", "timeline", "replace", "restore", "delete", "cleanup", "switch"} :
              do \in Left(q) <=> do \in Left(o)
        /\ Left(q) \cap {"delete", "restore"} = Left(o) \cap {"delete", "restore"}
        /\ First(o) \notin {"bind", "adopt", "discard", "row", "replace"}
    BY <1>2 DEF Plain
  <1>4. RowsSound(q, r)
    BY <1>2, <1>3 DEF StateSound, RowsSound, New
  <1>5. RowTls(r, t, d)
    BY DEF StateSound
  <1>6. OpTls(q, r, d)
    BY <1>2, <1>3 DEF StateSound, OpTls
  <1>7. MadeSound(q, r, t)
    BY <1>2 DEF MadeSound
  <1>8. ResetTls(q, r, t)
    BY <1>2, <1>3 DEF StateSound, ResetTls
  <1>9. NewSound(q, r, t)
    BY <1>2, <1>3 DEF StateSound, NewSound, New
  <1>10. LeaksSound(q, r, t, ex)
    BY <1>2, <1>3 DEF StateSound, LeaksSound
  <1>11. AnswerSound(q, r, b)
    BY <1>2, <1>3 DEF StateSound, AnswerSound, New
  <1>12. PrimarySound(q, r, p, a)
    BY <1>2, <1>3 DEF StateSound, PrimarySound, New, Behind
  <1> QED
    BY <1>2, <1>4, <1>5, <1>6, <1>7, <1>8, <1>9, <1>10, <1>11, <1>12 DEF StateSound

-----------------------------------------------------------------------------
(* Steps on the rows *)

\* The kinds of operation that take a step.
LEMMA KindOf ==
    ASSUME NEW o \in Operations, o.todo # << >>, PlanSound(o)
    PROVE  /\ First(o) = "row" => New(o) /\ ~o.failed
           /\ First(o) \in {"bind", "adopt", "resolve"} => ~o.failed /\ o.kind \notin {"delete", "unpublish", "none"}
           /\ First(o) = "timeline" => ~o.failed /\ o.kind \in {"restore", "reset"}
           /\ First(o) = "replace" => ~o.failed /\ o.kind = "reset"
           /\ First(o) = "restore" => o.failed /\ o.kind = "reset"
           /\ First(o) = "delete" => IF o.failed THEN New(o) ELSE o.kind = "delete"
           /\ First(o) = "discard" => o.failed
           /\ First(o) = "cleanup" => o.failed /\ (New(o) \/ o.kind = "reset")
           /\ First(o) = "switch" => o.kind = "reset" \/ (~o.failed /\ o.kind = "select")
           /\ ~o.failed => "cleanup" \notin Left(o) /\ "restore" \notin Left(o)
           /\ o.kind # "delete" /\ ~o.failed => "delete" \notin Left(o)
           /\ o.failed => Left(o) \cap {"timeline", "replace", "row", "publish"} = {}
  BY FirstStep DEF Doing, Undoing, Climbing, New

LEMMA RowSound ==
    ASSUME NEW o \in Operations, NEW q \in Operations, NEW r \in RowSets, NEW s, NEW t,
           NEW d \in Nat, NEW ex, NEW b, NEW p, p.name \in Names, NEW a,
           StateSound(o, r, t, d, ex, b, p, a),
           Ends(o, q), o.todo # << >>, First(o) = "row", s # NoRows,
           \A m \in Names : s[m] = IF m = o.name THEN NewRow(o.parent, o.new, TRUE) ELSE r[m]
    PROVE  StateSound(q, s, t, d, ex, b, p, a)
  <1> DEFINE n == o.name
  <1>1. PlanSound(o) /\ UndoSound(o) /\ ~o.failed /\ New(o)
    BY KindOf DEF StateSound
  <1>2. /\ PlanSound(q) /\ UndoSound(q)
        /\ q.kind = o.kind /\ q.name = o.name /\ q.parent = o.parent /\ q.failed = o.failed
        /\ q.prev = o.prev /\ q.made = o.made /\ q.new = o.new /\ q.comp = o.comp
        /\ Left(o) = Left(q) \cup {"row"} /\ "row" \notin Left(q) /\ "row" \in Left(o)
        /\ First(q) \notin {"bind", "adopt", "discard", "row", "replace", "timeline"}
    BY <1>1, Goes
  <1>3. n \in Others /\ n \in Names /\ n # Main /\ Main \in Names /\ ~ActiveIn(r, n)
    BY <1>1, <1>2, Facts DEF StateSound, RowsSound
  <1>4. /\ ActiveIn(s, n) /\ s[n].tl = o.new /\ s[n].parent = o.parent
        /\ \A m \in Names : m # n => s[m] = r[m] /\ (ActiveIn(s, m) <=> ActiveIn(r, m))
    BY <1>3 DEF NewRow, ActiveIn
  <1>5. o.new \in Nat /\ \A m \in Names : r[m].tl \in Nat
    BY DEF Operations, Tls, RowSets, Row
  <1>6. o.new = 0 \/ (o.new \in t /\ o.new \notin Attached(r))
    BY <1>1 DEF StateSound, OpTls, NewSound, New
  <1>a. o.kind = "restore" => o.new \in t /\ o.new # 0
    <2>1. t \subseteq 1..d
      BY DEF StateSound, RowTls
    <2>2. o.kind = "restore" => o.new \in t
      BY <1>1 DEF StateSound, NewSound
    <2> QED
      BY <2>1, <2>2
  <1>7. /\ \A x : x \in Attached(r) => x \in Attached(s)
        /\ \A x : x \in Attached(s) => x \in Attached(r) \/ x = o.new
        /\ o.new # 0 => o.new \in Attached(s)
    BY <1>3, <1>4, AttachedIs
  <1>8. RowsSound(q, s)
    BY <1>1, <1>2, <1>3, <1>4 DEF StateSound, RowsSound, New
  <1>9. RowTls(s, t, d)
    <2>1. t \subseteq 1..d /\ (\A m \in Names : s[m].tl <= d) /\ Attached(s) \subseteq t
      <3>1. o.new <= d
        BY DEF StateSound, OpTls
      <3> QED
        BY <1>3, <1>4, <1>6, <1>7, <3>1, AttachedIs DEF StateSound, RowTls
    <2>2. ASSUME NEW m \in ListActive(s), NEW k \in ListActive(s), m # k, s[m].tl # 0
          PROVE  s[m].tl # s[k].tl
      <3>1. m \in Names /\ k \in Names /\ ActiveIn(s, m) /\ ActiveIn(s, k)
        BY DEF ListActive
      <3>2. CASE m # n /\ k # n
        <4>1. m \in ListActive(r) /\ k \in ListActive(r) /\ s[m] = r[m] /\ s[k] = r[k]
          BY <1>4, <3>1, <3>2 DEF ListActive
        <4> QED
          BY <2>2, <4>1 DEF StateSound, RowTls
      <3>3. CASE m = n
        <4>1. ActiveIn(r, k) /\ s[k].tl = r[k].tl /\ s[m].tl = o.new
          BY <1>4, <2>2, <3>1, <3>3
        <4> QED
          BY <1>6, <2>2, <3>1, <4>1, AttachedIs
      <3>4. CASE k = n
        <4>1. ActiveIn(r, m) /\ s[m].tl = r[m].tl /\ s[k].tl = o.new
          BY <1>4, <2>2, <3>1, <3>4
        <4> QED
          BY <1>6, <2>2, <3>1, <4>1, AttachedIs
      <3> QED
        BY <3>2, <3>3, <3>4
    <2>3. s[Main].tl = 0 => \A m \in Names : s[m].tl = 0
      BY <1>3, <1>4 DEF StateSound, RowTls, OpTls
    <2> QED
      BY <2>1, <2>2, <2>3 DEF RowTls
  <1>10. OpTls(q, s, d)
    BY <1>2, <1>3, <1>4 DEF StateSound, OpTls
  <1>11. MadeSound(q, s, t)
    BY <1>2 DEF MadeSound
  <1>12. ResetTls(q, s, t)
    BY <1>1, <1>2 DEF ResetTls, New
  <1>13. NewSound(q, s, t)
    <2>1. "cleanup" \notin Left(q)
      BY <1>1, <1>2, KindOf
    <2> QED
      BY <1>1, <1>2, <1>4, <1>a, <2>1 DEF NewSound
  <1>14. LeaksSound(q, s, t, ex)
    <2>1. /\ t \subseteq Attached(s) \cup ex \cup {o.made, o.new}
          /\ o.made \in t => o.made \in Attached(s) \cup ex \/ o.made = o.new \/ o.comp
      BY <1>7 DEF StateSound, LeaksSound
    <2>2. o.new \in t => o.new \in Attached(s)
      <3>1. 0 \notin t
        BY DEF StateSound, RowTls
      <3> QED
        BY <1>7, <3>1
    <2> QED
      BY <1>1, <1>2, <2>1, <2>2 DEF LeaksSound, New
  <1>15. AnswerSound(q, s, b)
    <2>1. \A m \in Names : m # n /\ KeepsRow(b, r, m) => KeepsRow(b, s, m)
      BY <1>4 DEF KeepsRow
    <2> QED
      BY <1>1, <1>2, <2>1 DEF StateSound, AnswerSound, New
  <1>16. PrimarySound(q, s, p, a)
    <2>1. p.name # n \/ a
      BY <1>1 DEF StateSound, PrimarySound
    <2>2. ~Behind(o)
      BY <1>1 DEF Behind, New
    <2> QED
      BY <1>1, <1>2, <1>4, <2>1, <2>2 DEF StateSound, PrimarySound, New
  <1> QED
    BY <1>2, <1>8, <1>9, <1>10, <1>11, <1>12, <1>13, <1>14, <1>15, <1>16 DEF StateSound

\* s is r with another timeline for n.
SetTl(r, s, n, x) ==
    /\ \A m \in Names : s[m].state = r[m].state /\ s[m].parent = r[m].parent
    /\ \A m \in Names : s[m].tl = IF m = n THEN x ELSE r[m].tl

\* A timeline that is nobody's can be anybody's.
LEMMA SetTlRows ==
    ASSUME NEW r, NEW s, NEW n \in Names, NEW x, NEW t, NEW d \in Nat, SetTl(r, s, n, x),
           RowTls(r, t, d), ActiveIn(r, n), x \in t,
           \A m \in ListActive(r) : r[m].tl = x => m = n,
           n # Main => r[Main].tl # 0
    PROVE  /\ RowTls(s, t, d) /\ x # 0 /\ s[Main].tl # 0 /\ x \in Attached(s)
           /\ \A m \in Names : ActiveIn(s, m) <=> ActiveIn(r, m)
           /\ \A y : y \in Attached(r) /\ y # r[n].tl => y \in Attached(s)
           /\ \A y : y \in Attached(s) => (y \in Attached(r) \/ y = x)
  <1>1. /\ \A m \in Names : ActiveIn(s, m) <=> ActiveIn(r, m)
        /\ \A m \in Names : s[m].tl = IF m = n THEN x ELSE r[m].tl
        /\ Main \in Names
    BY Facts DEF SetTl, ActiveIn
  <1>2. t \subseteq 1..d /\ x # 0 /\ x <= d
    <2>1. t \subseteq 1..d
      BY DEF RowTls
    <2>2. x \in 1..d
      BY <2>1
    <2> QED
      BY <2>1, <2>2
  <1>3. ListActive(s) = ListActive(r) /\ \A m \in ListActive(r) : m \in Names /\ ActiveIn(r, m)
    BY <1>1 DEF ListActive
  <1>4. /\ x \in Attached(s)
        /\ \A y : y \in Attached(r) /\ y # r[n].tl => y \in Attached(s)
        /\ \A y : y \in Attached(s) => (y \in Attached(r) \/ y = x)
    BY <1>1, <1>2, AttachedIs
  <1>5. s[Main].tl # 0
    BY <1>1, <1>2
  <1>6. ASSUME NEW m \in ListActive(s), NEW k \in ListActive(s), m # k, s[m].tl # 0
        PROVE  s[m].tl # s[k].tl
    <2>1. m \in ListActive(r) /\ k \in ListActive(r) /\ m \in Names /\ k \in Names
      BY <1>3
    <2>2. r[m].tl # 0 => r[m].tl # r[k].tl
      BY <1>6, <2>1 DEF RowTls
    <2> QED
      BY <1>1, <1>6, <2>1, <2>2
  <1>7. (\A m \in Names : s[m].tl <= d) /\ Attached(s) \subseteq t
    BY <1>1, <1>2, <1>4 DEF RowTls
  <1>8. RowTls(s, t, d)
    BY <1>2, <1>5, <1>6, <1>7 DEF RowTls
  <1> QED
    BY <1>1, <1>2, <1>4, <1>5, <1>8

\* A branch that had no timeline is given the one made, or found, for it.
LEMMA BindSound ==
    ASSUME NEW o \in Operations, NEW q \in Operations, NEW r \in RowSets, NEW s, NEW t,
           NEW d \in Nat, NEW ex, NEW b, NEW p, p.name \in Names, NEW a,
           StateSound(o, r, t, d, ex, b, p, a),
           Ends(o, q), o.todo # << >>, First(o) \in {"bind", "adopt"}, s # NoRows,
           SetTl(r, s, o.todo[1].on, o.made)
    PROVE  StateSound(q, s, t, d, ex, b, p, a)
  <1> DEFINE n == o.todo[1].on
             x == o.made
  <1>1. PlanSound(o) /\ UndoSound(o) /\ ~o.failed /\ o.kind # "delete" /\ n \in Names
    BY KindOf, FirstStep DEF StateSound
  <1>2. /\ PlanSound(q) /\ UndoSound(q)
        /\ q.kind = o.kind /\ q.name = o.name /\ q.parent = o.parent /\ q.failed = o.failed
        /\ q.prev = o.prev /\ q.made = o.made /\ q.new = o.new /\ q.comp = o.comp
        /\ Left(o) = Left(q) \cup {First(o)}
        /\ First(q) \notin {"bind", "adopt", "discard", "row", "replace", "timeline"}
    BY <1>1, Goes
  <1>3. /\ x \in t /\ x \notin Attached(r) /\ x # o.prev
        /\ ActiveIn(r, n) /\ r[n].tl = 0 /\ (n # Main => r[Main].tl # 0)
        /\ o.kind = "reset" => n # o.name
    BY DEF StateSound, MadeSound
  <1>a. o.name \in Names /\ o.parent \in Names /\ Main \in Names
    BY Facts DEF Operations
  <1>4. /\ \A do \in {"row", "timeline", "replace", "restore", "delete", "cleanup", "switch"} :
              do \in Left(q) <=> do \in Left(o)
    BY <1>2
  <1>b. \A m \in ListActive(r) : m \in Names /\ ActiveIn(r, m)
    BY DEF ListActive
  <1>c. \A m \in ListActive(r) : r[m].tl = x => m = n
    <2>1. x # 0
      <3>1. t \subseteq 1..d
        BY DEF StateSound, RowTls
      <3> QED
        BY <1>3, <3>1
    <2> QED
      BY <1>3, <1>b, <2>1, AttachedIs
  <1> DEFINE z == s
  <1>5. /\ RowTls(s, t, d) /\ x # 0 /\ s[Main].tl # 0 /\ x \in Attached(s)
        /\ \A m \in Names : ActiveIn(s, m) <=> ActiveIn(r, m)
        /\ \A y : y \in Attached(r) /\ y # r[n].tl => y \in Attached(s)
        /\ \A y : y \in Attached(s) => (y \in Attached(r) \/ y = x)
    <2>1. RowTls(r, t, d)
      BY DEF StateSound
    <2> HIDE DEF n, x
    <2> QED
      BY <1>1, <1>3, <1>c, <2>1, SetTlRows DEF n, x
  <1>d. ListActive(s) = ListActive(r)
    BY <1>5 DEF ListActive
  <1>6. \A y : y \in Attached(r) => y \in Attached(s)
    BY <1>3, <1>5, AttachedIs
  <1>7. /\ \A m \in Names : s[m].parent = r[m].parent
        /\ \A m \in Names : s[m].tl = IF m = n THEN x ELSE r[m].tl
    BY DEF SetTl
  <1> HIDE DEF n, x
  <1>8. RowsSound(q, s)
    BY <1>a, <1>2, <1>4, <1>5, <1>7 DEF StateSound, RowsSound, New
  <1>9. OpTls(q, s, d)
    BY <1>2, <1>4, <1>5 DEF StateSound, OpTls
  <1>10. MadeSound(q, s, t)
    BY <1>2 DEF MadeSound
  <1>11. ResetTls(q, s, t)
    <2> SUFFICES ASSUME o.kind = "reset" PROVE ResetTls(q, s, t)
      BY <1>2 DEF ResetTls
    <2>1. s[o.name].tl = r[o.name].tl
      BY <1>a, <1>3, <1>7
    <2>2. \A m \in ListActive(r) : s[m].tl = o.prev => r[m].tl = o.prev
      BY <1>3, <1>7, <1>b
    <2> QED
      BY <1>1, <1>2, <1>4, <1>d, <2>1, <2>2 DEF StateSound, ResetTls
  <1>12. NewSound(q, s, t)
    <2>1. "cleanup" \notin Left(q)
      BY <1>1, <1>4, KindOf
    <2>2. o.kind = "restore" /\ ActiveIn(s, o.name) => s[o.name].tl = o.new /\ o.new # 0
      BY <1>1, <1>3, <1>5, <1>7, <1>a DEF StateSound, NewSound
    <2> QED
      BY <1>1, <1>2, <2>1, <2>2 DEF NewSound
  <1>13. LeaksSound(q, s, t, ex)
    <2>1. /\ t \subseteq Attached(s) \cup ex \cup {o.made, o.new}
          /\ o.made \in Attached(s)
      BY <1>5, <1>6 DEF StateSound, LeaksSound, x
    <2>2. o.new \in t => o.new \in Attached(s) \cup ex \/ o.comp
      <3>1. First(o) \notin {"row", "replace"} /\ "cleanup" \notin Left(o)
        BY <1>1, KindOf
      <3> QED
        BY <1>6, <3>1 DEF StateSound, LeaksSound
    <2>3. o.kind = "reset" => o.prev \in ex \cup {0}
      BY DEF StateSound, LeaksSound
    <2> QED
      BY <1>1, <1>2, <2>1, <2>2, <2>3 DEF LeaksSound
  <1>14. AnswerSound(q, s, b)
    <2>1. ASSUME NEW m \in Names, KeepsRow(b, r, m) PROVE KeepsRow(b, s, m)
      BY <1>3, <1>5, <1>7, <2>1 DEF KeepsRow
    <2> QED
      BY <1>1, <1>a, <1>2, <1>4, <1>5, <2>1 DEF StateSound, AnswerSound, New
  <1>15. PrimarySound(q, s, p, a)
    <2>1. p.tl # 0 /\ p.tl = r[p.name].tl => p.tl = s[p.name].tl
      BY <1>3, <1>7
    <2> QED
      BY <1>1, <1>2, <1>4, <2>1 DEF StateSound, PrimarySound, New, Behind
  <1> QED
    BY <1>2, <1>5, <1>8, <1>9, <1>10, <1>11, <1>12, <1>13, <1>14, <1>15 DEF StateSound

\* The branch that is reset gets the timeline that was branched off for it.
LEMMA ReplaceSound ==
    ASSUME NEW o \in Operations, NEW q \in Operations, NEW r \in RowSets, NEW s, NEW t,
           NEW d \in Nat, NEW ex, NEW b, NEW p, p.name \in Names, NEW a,
           StateSound(o, r, t, d, ex, b, p, a),
           Ends(o, q), o.todo # << >>, First(o) = "replace", s # NoRows,
           SetTl(r, s, o.name, o.new)
    PROVE  StateSound(q, s, t, d, ex, b, p, a)
  <1> DEFINE n == o.name
             x == o.new
  <1>1. PlanSound(o) /\ UndoSound(o) /\ ~o.failed /\ o.kind = "reset"
    BY KindOf DEF StateSound
  <1>2. /\ PlanSound(q) /\ UndoSound(q)
        /\ q.kind = o.kind /\ q.name = o.name /\ q.parent = o.parent /\ q.failed = o.failed
        /\ q.prev = o.prev /\ q.made = o.made /\ q.new = o.new /\ q.comp = o.comp
        /\ Left(o) = Left(q) \cup {"replace"} /\ "replace" \notin Left(q)
        /\ First(q) \notin {"bind", "adopt", "discard", "row", "replace", "timeline"}
    BY <1>1, Goes
  <1>3. x \in t /\ x \notin Attached(r)
    BY <1>1 DEF StateSound, NewSound
  <1>4. n \in Others /\ n \in Names /\ Main \in Names /\ ActiveIn(r, n) /\ r[n].parent = o.parent
    BY <1>1, Facts DEF StateSound, RowsSound
  <1>5. "replace" \in Left(o) /\ r[n].tl = o.prev
    BY <1>1, <1>2 DEF StateSound, ResetTls
  <1>6. t \subseteq 1..d /\ x # 0
    <2>1. t \subseteq 1..d
      BY DEF StateSound, RowTls
    <2> QED
      BY <1>3, <2>1
  <1>7. r[Main].tl # 0
    BY <1>6 DEF StateSound, OpTls
  <1>b. \A m \in ListActive(r) : m \in Names /\ ActiveIn(r, m)
    BY DEF ListActive
  <1>8. \A m \in ListActive(r) : r[m].tl = x => m = n
    BY <1>3, <1>6, <1>b, AttachedIs
  <1>9. /\ RowTls(s, t, d) /\ s[Main].tl # 0 /\ x \in Attached(s)
        /\ \A m \in Names : ActiveIn(s, m) <=> ActiveIn(r, m)
        /\ \A y : y \in Attached(r) /\ y # r[n].tl => y \in Attached(s)
    <2>1. RowTls(r, t, d)
      BY DEF StateSound
    <2>2. SetTl(r, s, n, x)
      OBVIOUS
    <2> HIDE DEF n, x
    <2> QED
      BY <1>3, <1>4, <1>7, <1>8, <2>1, <2>2, SetTlRows
  <1>10. /\ \A m \in Names : s[m].parent = r[m].parent
         /\ \A m \in Names : s[m].tl = IF m = n THEN x ELSE r[m].tl
         /\ ListActive(s) = ListActive(r)
    BY <1>9 DEF SetTl, ListActive
  <1> HIDE DEF n, x
  <1>11. RowsSound(q, s)
    BY <1>1, <1>2, <1>4, <1>9, <1>10 DEF RowsSound, New, n
  <1>12. OpTls(q, s, d)
    BY <1>2, <1>9 DEF StateSound, OpTls
  <1>13. MadeSound(q, s, t)
    BY <1>2 DEF MadeSound
  <1>14. ResetTls(q, s, t)
    <2>1. o.new # o.prev /\ s[o.name].tl = o.new
      BY <1>1, <1>4, <1>6, <1>10 DEF StateSound, ResetTls, n, x
    <2>2. o.prev # 0 => o.prev \in t /\ \A m \in ListActive(s) : s[m].tl = o.prev => m = o.name
      BY <1>1, <1>10, <1>b DEF StateSound, ResetTls, n, x
    <2> QED
      BY <1>1, <1>2, <1>6, <2>1, <2>2 DEF ResetTls, x
  <1>15. NewSound(q, s, t)
    <2>1. "cleanup" \notin Left(q)
      BY <1>1, <1>2, KindOf
    <2> QED
      BY <1>1, <1>2, <2>1 DEF NewSound, New
  <1>16. LeaksSound(q, s, t, ex)
    <2>1. o.prev \in ex \cup {0} /\ 0 \notin t
      BY <1>1, <1>6 DEF StateSound, LeaksSound
    <2>2. \A y \in t : y \in Attached(r) \cup ex => y \in Attached(s) \cup ex
      BY <1>5, <1>9, <2>1
    <2>3. /\ t \subseteq Attached(s) \cup ex \cup {o.made, o.new}
          /\ o.made \in t => o.made \in Attached(s) \cup ex \/ o.made = o.new \/ o.comp
      BY <1>2, <2>2 DEF StateSound, LeaksSound
    <2> QED
      BY <1>1, <1>2, <1>9, <2>1, <2>3 DEF LeaksSound, x
  <1>17. AnswerSound(q, s, b)
    <2>1. \A m \in Names : m # n /\ KeepsRow(b, r, m) => KeepsRow(b, s, m)
      BY <1>9, <1>10 DEF KeepsRow
    <2> QED
      BY <1>1, <1>2, <2>1 DEF StateSound, AnswerSound, New, n
  <1>18. PrimarySound(q, s, p, a)
    <2>1. p.name = n => "switch" \in Left(q)
      BY <1>1, <1>2, <1>5 DEF StateSound, PrimarySound, n
    <2>2. "switch" \in Left(q) => p.name = o.name
      BY <1>1, <1>2 DEF StateSound, PrimarySound
    <2>3. ~a /\ p.tl # 0 => p.tl = s[p.name].tl \/ Behind(q)
      <3>1. CASE p.name = n
        BY <1>1, <1>2, <2>1, <3>1 DEF Behind
      <3>2. CASE p.name # n
        <4>1. Behind(o) => Behind(q)
          BY <1>1, <1>2 DEF Behind
        <4> QED
          BY <1>10, <3>2, <4>1 DEF StateSound, PrimarySound
      <3> QED
        BY <3>1, <3>2
    <2> QED
      BY <1>1, <1>2, <2>1, <2>2, <2>3 DEF PrimarySound, New, n
  <1> QED
    BY <1>2, <1>9, <1>11, <1>12, <1>13, <1>14, <1>15, <1>16, <1>17, <1>18 DEF StateSound

\* It gets the one it had back, when its rollback puts that into the row.
LEMMA RestoreSound ==
    ASSUME NEW o \in Operations, NEW q \in Operations, NEW r \in RowSets, NEW s, NEW t,
           NEW d \in Nat, NEW ex, NEW b, NEW p, p.name \in Names, NEW a,
           StateSound(o, r, t, d, ex, b, p, a),
           Ends(o, q), o.todo # << >>, First(o) = "restore", s # NoRows,
           o.prev # 0, SetTl(r, s, o.name, o.prev)
    PROVE  StateSound(q, s, t, d, ex, b, p, a)
  <1> DEFINE n == o.name
             x == o.prev
  <1>1. PlanSound(o) /\ UndoSound(o) /\ o.failed /\ o.kind = "reset"
    BY KindOf DEF StateSound
  <1>2. /\ PlanSound(q) /\ UndoSound(q)
        /\ q.kind = o.kind /\ q.name = o.name /\ q.parent = o.parent /\ q.failed = o.failed
        /\ q.prev = o.prev /\ q.made = o.made /\ q.new = o.new /\ q.comp = o.comp
        /\ Left(o) = Left(q) \cup {"restore"} /\ "restore" \notin Left(q)
        /\ First(q) \notin {"bind", "adopt", "discard", "row", "replace", "timeline"}
    BY <1>1, Goes
  <1>3. x \in t /\ \A m \in ListActive(r) : r[m].tl = x => m = n
    BY <1>1 DEF StateSound, ResetTls
  <1>4. n \in Others /\ n \in Names /\ Main \in Names /\ ActiveIn(r, n) /\ r[n].parent = o.parent
    BY <1>1, Facts DEF StateSound, RowsSound
  <1>5. r[n].tl = o.new /\ "cleanup" \in Left(q) /\ (o.new # 0 => o.new # x)
    BY <1>1, <1>2 DEF StateSound, ResetTls, UndoSound
  <1>7. r[Main].tl # 0
    BY DEF StateSound, OpTls
  <1>b. \A m \in ListActive(r) : m \in Names /\ ActiveIn(r, m)
    BY DEF ListActive
  <1>9. /\ RowTls(s, t, d) /\ s[Main].tl # 0 /\ x \in Attached(s)
        /\ \A m \in Names : ActiveIn(s, m) <=> ActiveIn(r, m)
        /\ \A y : y \in Attached(r) /\ y # r[n].tl => y \in Attached(s)
    <2>1. RowTls(r, t, d)
      BY DEF StateSound
    <2>2. SetTl(r, s, n, x)
      OBVIOUS
    <2> HIDE DEF n, x
    <2> QED
      BY <1>3, <1>4, <1>7, <2>1, <2>2, SetTlRows, SMTT(30)
  <1>10. /\ \A m \in Names : s[m].parent = r[m].parent
         /\ \A m \in Names : s[m].tl = IF m = n THEN x ELSE r[m].tl
         /\ ListActive(s) = ListActive(r)
    BY <1>9 DEF SetTl, ListActive
  <1> HIDE DEF n, x
  <1>11. RowsSound(q, s)
    BY <1>1, <1>2, <1>4, <1>9, <1>10 DEF RowsSound, New, n
  <1>12. OpTls(q, s, d)
    BY <1>2, <1>9 DEF StateSound, OpTls
  <1>13. MadeSound(q, s, t)
    BY <1>2 DEF MadeSound
  <1>14. ResetTls(q, s, t)
    <2>1. \A m \in ListActive(s) : s[m].tl = o.prev => m = o.name
      BY <1>3, <1>10, <1>b DEF n, x
    <2> QED
      BY <1>1, <1>2, <1>3, <1>5, <2>1 DEF ResetTls, x
  <1>15. NewSound(q, s, t)
    <2>1. ASSUME NEW m \in ListActive(s), o.new # 0, s[m].tl = o.new PROVE FALSE
      <3>1. m \in ListActive(r) /\ m \in Names /\ n \in ListActive(r)
        BY <1>4, <1>10, <1>b DEF ListActive
      <3>2. m # n
        BY <1>5, <1>10, <2>1, <3>1
      <3>3. r[m].tl = r[n].tl /\ r[m].tl # 0
        BY <1>5, <1>10, <2>1, <3>1, <3>2
      <3> QED
        BY <3>1, <3>2, <3>3 DEF StateSound, RowTls
    <2> QED
      BY <1>1, <1>2, <2>1 DEF NewSound, New
  <1>16. LeaksSound(q, s, t, ex)
    <2>1. o.prev \in ex \cup {0} /\ First(o) \notin {"bind", "discard"}
      BY <1>1 DEF StateSound, LeaksSound
    <2>2. \A y : y \in Attached(r) => y \in Attached(s) \/ y = o.new
      BY <1>5, <1>9
    <2>3. /\ t \subseteq Attached(s) \cup ex \cup {o.made, o.new}
          /\ o.made \in t => o.made \in Attached(s) \cup ex \/ o.made = o.new \/ o.comp
      BY <2>1, <2>2 DEF StateSound, LeaksSound
    <2> QED
      BY <1>1, <1>2, <1>5, <2>1, <2>3 DEF LeaksSound
  <1>17. AnswerSound(q, s, b)
    <2>1. \A m \in Names : m # n /\ KeepsRow(b, r, m) => KeepsRow(b, s, m)
      BY <1>9, <1>10 DEF KeepsRow
    <2>2. b # NoRows => KeepsRow(b, s, n)
      <3>1. b # NoRows => /\ ActiveIn(b, o.name) /\ b[o.name].parent = o.parent
                          /\ b[o.name].tl \in {0, o.prev}
        BY <1>1 DEF StateSound, AnswerSound
      <3> QED
        BY <1>4, <1>9, <1>10, <3>1 DEF KeepsRow, n, x
    <2> QED
      BY <1>1, <1>2, <2>1, <2>2 DEF StateSound, AnswerSound, New, n
  <1>18. PrimarySound(q, s, p, a)
    <2>1. p.name = n => "switch" \in Left(q)
      BY <1>1, <1>2 DEF StateSound, PrimarySound, n
    <2>2. "switch" \in Left(q) => p.name = o.name
      BY <1>1, <1>2 DEF StateSound, PrimarySound
    <2>3. ~a /\ p.tl # 0 => p.tl = s[p.name].tl \/ Behind(q)
      <3>1. CASE p.name = n
        BY <1>1, <1>2, <2>1, <3>1 DEF Behind
      <3>2. CASE p.name # n
        <4>1. Behind(o) => Behind(q)
          BY <1>1, <1>2 DEF Behind
        <4> QED
          BY <1>10, <3>2, <4>1 DEF StateSound, PrimarySound
      <3> QED
        BY <3>1, <3>2
    <2> QED
      BY <1>1, <1>2, <2>1, <2>2, <2>3 DEF PrimarySound, New, n
  <1> QED
    BY <1>2, <1>9, <1>11, <1>12, <1>13, <1>14, <1>15, <1>16, <1>17, <1>18 DEF StateSound

\* A branch is deleted, on request or because its creation is undone.
LEMMA DeleteSound ==
    ASSUME NEW o \in Operations, NEW q \in Operations, NEW r \in RowSets, NEW s, NEW t,
           NEW d \in Nat, NEW ex, NEW b, NEW p, p.name \in Names, NEW a,
           StateSound(o, r, t, d, ex, b, p, a),
           Ends(o, q), o.todo # << >>, First(o) = "delete", s # NoRows, o.name # Main,
           \A m \in Names : s[m].tl = r[m].tl /\ s[m].parent = r[m].parent,
           \A m \in Names : ActiveIn(s, m) <=> ActiveIn(r, m) /\ m # o.name
    PROVE  StateSound(q, s, t, d, ex, b, p, a)
  <1> DEFINE n == o.name
  <1>1. /\ PlanSound(o) /\ UndoSound(o) /\ n \in Names /\ Main \in Names
        /\ IF o.failed THEN New(o) ELSE o.kind = "delete"
    BY KindOf, Facts DEF StateSound, Operations
  <1>2. /\ PlanSound(q) /\ UndoSound(q)
        /\ q.kind = o.kind /\ q.name = o.name /\ q.parent = o.parent /\ q.failed = o.failed
        /\ q.prev = o.prev /\ q.made = o.made /\ q.new = o.new /\ q.comp = o.comp
        /\ Left(o) = Left(q) \cup {"delete"} /\ "delete" \notin Left(q)
        /\ First(q) \notin {"bind", "adopt", "discard", "row", "replace", "timeline"}
        /\ ~o.failed => Left(q) = {} /\ q.todo = << >>
    BY <1>1, Goes
  <1>3. o.failed => "cleanup" \in Left(q) /\ r[n].tl = o.new
    BY <1>1, <1>2 DEF StateSound, UndoSound, NewSound
  <1>4. /\ \A m \in ListActive(s) : m \in ListActive(r) /\ m \in Names /\ m # n
        /\ \A m \in Names : ActiveIn(s, m) => ActiveIn(r, m)
        /\ \A y : y \in Attached(s) => y \in Attached(r)
        /\ \A y : y \in Attached(r) => y \in Attached(s) \/ y = r[n].tl
    BY AttachedIs DEF ListActive
  <1>5. RowsSound(q, s)
    BY <1>1, <1>2 DEF StateSound, RowsSound, New
  <1>6. RowTls(s, t, d)
    BY <1>1, <1>4 DEF StateSound, RowTls
  <1>7. OpTls(q, s, d)
    BY <1>1, <1>2 DEF StateSound, OpTls
  <1>8. MadeSound(q, s, t)
    BY <1>2 DEF MadeSound
  <1>9. ResetTls(q, s, t)
    BY <1>1, <1>2 DEF ResetTls, New
  <1>10. NewSound(q, s, t)
    <2>1. ASSUME o.failed, ~o.comp, o.new # 0, NEW m \in ListActive(s), s[m].tl = o.new
          PROVE  FALSE
      <3>1. m \in ListActive(r) /\ r[m].tl = o.new /\ m # n
        BY <1>4, <2>1
      <3> QED
        BY <1>2, <1>3, <2>1, <3>1 DEF StateSound, NewSound
    <2> QED
      BY <1>1, <1>2, <2>1 DEF NewSound, New
  <1>11. LeaksSound(q, s, t, ex)
    <2>1. ~o.failed => r[n].tl \in ex \cup {0}
      BY <1>1 DEF StateSound, LeaksSound
    <2>2. o.failed \/ o.new = 0
      BY <1>1 DEF StateSound, OpTls
    <2>3. t \subseteq 1..d
      BY DEF StateSound, RowTls
    <2>4. \A y : y \in t => y # 0
      BY <2>3
    <2>5. \A y : y \in Attached(r) /\ y \in t => y \in Attached(s) \cup ex \/ y = o.new
      BY <1>3, <1>4, <2>1, <2>4
    <2>6. /\ t \subseteq Attached(s) \cup ex \cup {o.made, o.new}
          /\ o.made \in t => o.made \in Attached(s) \cup ex \/ o.made = o.new \/ o.comp
      BY <2>5 DEF StateSound, LeaksSound
    <2>7. o.new \in t => "cleanup" \in Left(q)
      BY <1>3, <2>2, <2>4
    <2> QED
      BY <1>1, <1>2, <2>1, <2>6, <2>7 DEF LeaksSound, New
  <1>12. AnswerSound(q, s, b)
    <2>1. \A m \in Names : m # n /\ KeepsRow(b, r, m) => KeepsRow(b, s, m)
      BY DEF KeepsRow
    <2> QED
      BY <1>1, <1>2, <2>1 DEF StateSound, AnswerSound, New
  <1>13. PrimarySound(q, s, p, a)
    BY <1>1, <1>2 DEF StateSound, PrimarySound, New, Behind
  <1> QED
    BY <1>2, <1>5, <1>6, <1>7, <1>8, <1>9, <1>10, <1>11, <1>12, <1>13 DEF StateSound

-----------------------------------------------------------------------------
(* Steps on the pageserver and on the primary *)

\* A timeline has been branched off.
LEMMA TimelineSound ==
    ASSUME NEW o \in Operations, NEW q \in Operations, NEW r \in RowSets, NEW t,
           NEW d \in Nat, NEW ex, NEW b, NEW p, p.name \in Names, NEW a,
           StateSound(o, r, t, d, ex, b, p, a),
           Popped(o, q), q.prev = o.prev, q.made = o.made, q.new = d + 1, q.comp = o.comp,
           o.todo # << >>, First(o) = "timeline"
    PROVE  StateSound(q, r, t \cup {d + 1}, d + 1, ex, b, p, a)
  <1> DEFINE u == t \cup {d + 1}
  <1>1. /\ PlanSound(o) /\ UndoSound(o) /\ ~o.failed /\ ~o.comp
        /\ o.kind \in {"restore", "reset"} /\ o.parent \in Names
    BY KindOf DEF StateSound, UndoSound, Operations
  <1>2. /\ PlanSound(q) /\ UndoSound(q)
        /\ q.kind = o.kind /\ q.name = o.name /\ q.parent = o.parent /\ q.failed = o.failed
        /\ Left(o) = Left(q) \cup {"timeline"} /\ "timeline" \notin Left(q)
        /\ First(q) = IF o.kind = "reset" THEN "replace" ELSE "row"
        /\ First(q) \in Left(q)
    <2>1. PlanSound(q) /\ UndoSound(q)
      BY <1>1, PopPlan DEF Popped, UndoSound
    <2>2. First(q) = IF o.kind = "reset" THEN "replace" ELSE "row"
      BY <1>1, PopFirst
    <2>3. q.todo # << >>
      BY <1>1, <2>2 DEF First
    <2> QED
      BY <1>1, <2>1, <2>2, <2>3, PopLeft DEF Popped, PlanSound
  <1>3. /\ t \subseteq 1..d /\ Attached(r) \subseteq t /\ (\A m \in Names : r[m].tl <= d)
        /\ o.made <= d /\ o.prev <= d /\ o.new = 0
        /\ o.made \in Nat /\ o.prev \in Nat /\ \A m \in Names : r[m].tl \in Nat
    <2>1. o.new = 0
      BY <1>2 DEF StateSound, OpTls
    <2>2. t \subseteq 1..d /\ Attached(r) \subseteq t /\ \A m \in Names : r[m].tl <= d
      BY DEF StateSound, RowTls
    <2>3. o.made <= d /\ o.prev <= d
      BY DEF StateSound, OpTls
    <2>4. o.made \in Nat /\ o.prev \in Nat /\ \A m \in Names : r[m].tl \in Nat
      BY DEF Operations, RowSets, Row, Tls
    <2> QED
      BY <2>1, <2>2, <2>3, <2>4
  <1>4. r[Main].tl # 0
    BY <1>1 DEF StateSound, NewSound, RowTls
  <1>5. /\ d + 1 \notin t /\ d + 1 \notin Attached(r) /\ 0 \notin t
        /\ o.made # d + 1 /\ o.prev # d + 1 /\ d + 1 # 0
    BY <1>3
  <1>6. RowsSound(q, r)
    BY <1>1, <1>2 DEF StateSound, RowsSound, New
  <1>7. RowTls(r, u, d + 1)
    <2>0. 1..d \subseteq 1..(d + 1) /\ d + 1 \in 1..(d + 1)
      OBVIOUS
    <2>1. u \subseteq 1..(d + 1) /\ Attached(r) \subseteq u
      BY <1>3, <2>0
    <2>2. \A m \in Names : r[m].tl <= d + 1
      BY <1>3
    <2> QED
      BY <2>1, <2>2 DEF StateSound, RowTls
  <1>8. OpTls(q, r, d + 1)
    <2>1. o.made <= d + 1 /\ o.prev <= d + 1 /\ d + 1 <= d + 1
      BY <1>3
    <2> QED
      BY <1>1, <1>2, <1>4, <2>1 DEF OpTls
  <1>9. MadeSound(q, r, u)
    BY <1>1, <1>2 DEF MadeSound
  <1>10. ResetTls(q, r, u)
    BY <1>1, <1>2, <1>5 DEF StateSound, ResetTls
  <1>11. NewSound(q, r, u)
    <2>1. "cleanup" \notin Left(q)
      BY <1>1, <1>2, KindOf
    <2>2. o.kind = "restore" => ~ActiveIn(r, o.name)
      BY <1>1, <1>2 DEF StateSound, RowsSound, New
    <2> QED
      BY <1>1, <1>2, <1>5, <2>1, <2>2 DEF NewSound, New
  <1>12. LeaksSound(q, r, u, ex)
    <2>1. First(o) \notin {"bind", "discard"}
      OBVIOUS
    <2>2. o.made \in t => o.made \in Attached(r) \cup ex
      BY <1>1, <1>3, <1>5, <2>1 DEF StateSound, LeaksSound
    <2>3. t \subseteq Attached(r) \cup ex \cup {o.made}
      BY <1>3, <1>5 DEF StateSound, LeaksSound
    <2>4. q.made \in u => q.made \in Attached(r) \cup ex
      BY <1>5, <2>2
    <2>5. u \subseteq Attached(r) \cup ex \cup {q.made, q.new}
      BY <2>3
    <2>6. o.kind = "reset" => o.prev \in ex \cup {0}
      BY DEF StateSound, LeaksSound
    <2> HIDE DEF u
    <2> QED
      BY <1>1, <1>2, <2>4, <2>5, <2>6 DEF LeaksSound
  <1>13. AnswerSound(q, r, b)
    BY <1>1, <1>2 DEF StateSound, AnswerSound, New
  <1>14. PrimarySound(q, r, p, a)
    BY <1>1, <1>2 DEF StateSound, PrimarySound, New, Behind
  <1> QED
    BY <1>2, <1>6, <1>7, <1>8, <1>9, <1>10, <1>11, <1>12, <1>13, <1>14 DEF StateSound

\* The primary is on the branch's timeline.
LEMMA SwitchSound ==
    ASSUME NEW o \in Operations, NEW q \in Operations, NEW r, NEW t, NEW d, NEW ex, NEW b,
           NEW p, NEW a, StateSound(o, r, t, d, ex, b, p, a),
           Ends(o, q), o.todo # << >>, First(o) = "switch",
           NEW s, s.name = o.name, s.tl = r[o.name].tl, NEW z
    PROVE  StateSound(q, r, t, d, ex, b, s, z)
  <1>1. PlanSound(o) /\ UndoSound(o) /\ ~New(o)
    BY KindOf DEF StateSound, New
  <1>2. /\ PlanSound(q) /\ UndoSound(q)
        /\ q.kind = o.kind /\ q.name = o.name /\ q.parent = o.parent /\ q.failed = o.failed
        /\ q.prev = o.prev /\ q.made = o.made /\ q.new = o.new /\ q.comp = o.comp
        /\ Left(o) = Left(q) \cup {"switch"} /\ "switch" \notin Left(q)
        /\ First(q) \notin {"bind", "adopt", "discard", "row", "replace", "timeline"}
    BY <1>1, Goes
  <1>3. /\ \A do \in {"row", "timeline", "replace", "restore", "delete", "cleanup"} :
              do \in Left(q) <=> do \in Left(o)
        /\ Left(q) \cap {"delete", "restore"} = Left(o) \cap {"delete", "restore"}
    BY <1>2
  <1>4. RowsSound(q, r)
    BY <1>1, <1>2, <1>3 DEF StateSound, RowsSound, New
  <1>5. RowTls(r, t, d)
    BY DEF StateSound
  <1>6. OpTls(q, r, d)
    BY <1>2, <1>3 DEF StateSound, OpTls
  <1>7. MadeSound(q, r, t)
    BY <1>2 DEF MadeSound
  <1>8. ResetTls(q, r, t)
    BY <1>2, <1>3 DEF StateSound, ResetTls
  <1>9. NewSound(q, r, t)
    BY <1>1, <1>2, <1>3 DEF StateSound, NewSound, New
  <1>10. LeaksSound(q, r, t, ex)
    BY <1>2, <1>3 DEF StateSound, LeaksSound
  <1>11. AnswerSound(q, r, b)
    BY <1>1, <1>2, <1>3 DEF StateSound, AnswerSound, New
  <1>12. PrimarySound(q, r, s, z)
    BY <1>1, <1>2, <1>3, ReplacedBefore DEF PrimarySound, New
  <1> QED
    BY <1>2, <1>4, <1>5, <1>6, <1>7, <1>8, <1>9, <1>10, <1>11, <1>12 DEF StateSound

\* The timeline made for a branch that could not be stored is deleted.
LEMMA DiscardSound ==
    ASSUME NEW o \in Operations, NEW q \in Operations, NEW r, NEW t, NEW d, NEW ex, NEW b,
           NEW p, NEW a, StateSound(o, r, t, d, ex, b, p, a),
           Ends(o, q), o.todo # << >>, First(o) = "discard"
    PROVE  StateSound(q, r, t \ {o.made}, d, ex, b, p, a)
  <1> DEFINE u == t \ {o.made}
  <1>1. PlanSound(o) /\ UndoSound(o) /\ o.failed
    BY KindOf DEF StateSound
  <1>2. /\ PlanSound(q) /\ UndoSound(q)
        /\ q.kind = o.kind /\ q.name = o.name /\ q.parent = o.parent /\ q.failed = o.failed
        /\ q.prev = o.prev /\ q.made = o.made /\ q.new = o.new /\ q.comp = o.comp
        /\ Left(o) = Left(q) \cup {"discard"}
        /\ First(q) \notin {"bind", "adopt", "discard", "row", "replace", "timeline"}
    BY <1>1, Goes
  <1>3. /\ \A do \in {"row", "timeline", "replace", "restore", "delete", "cleanup", "switch"} :
              do \in Left(q) <=> do \in Left(o)
        /\ Left(q) \cap {"delete", "restore"} = Left(o) \cap {"delete", "restore"}
    BY <1>2
  <1>m. o.made \notin Attached(r) /\ o.made # o.prev
    BY DEF StateSound, MadeSound
  <1>4. RowsSound(q, r)
    BY <1>1, <1>2, <1>3 DEF StateSound, RowsSound, New
  <1>5. RowTls(r, u, d)
    BY <1>m DEF StateSound, RowTls
  <1>6. OpTls(q, r, d)
    BY <1>2, <1>3 DEF StateSound, OpTls
  <1>7. MadeSound(q, r, u)
    BY <1>2 DEF MadeSound
  <1>8. ResetTls(q, r, u)
    BY <1>1, <1>2, <1>3, <1>m DEF StateSound, ResetTls
  <1>9. NewSound(q, r, u)
    BY <1>1, <1>2, <1>3 DEF StateSound, NewSound, New
  <1>10. LeaksSound(q, r, u, ex)
    <2>1. First(o) \notin {"row", "replace"}
      OBVIOUS
    <2>2. u \subseteq Attached(r) \cup ex \cup {o.made, o.new} /\ o.made \notin u
      BY DEF StateSound, LeaksSound
    <2>3. o.new \in u => o.new \in Attached(r) \cup ex \/ o.comp \/ "cleanup" \in Left(q)
      BY <1>1, <1>3 DEF StateSound, LeaksSound
    <2>4. /\ o.kind = "delete" => r[o.name].tl \in ex \cup {0}
          /\ o.kind = "reset" => o.prev \in ex \cup {0}
      BY DEF StateSound, LeaksSound
    <2> HIDE DEF u
    <2> QED
      BY <1>2, <2>2, <2>3, <2>4 DEF LeaksSound
  <1>11. AnswerSound(q, r, b)
    <2>1. o.kind = "delete" => KeepsRow(b, r, o.name) \/ b = NoRows
      BY <1>1 DEF StateSound, AnswerSound
    <2> QED
      BY <1>1, <1>2, <1>3, <2>1 DEF StateSound, AnswerSound, New
  <1>12. PrimarySound(q, r, p, a)
    BY <1>2, <1>3 DEF StateSound, PrimarySound, New, Behind
  <1> QED
    BY <1>2, <1>4, <1>5, <1>6, <1>7, <1>8, <1>9, <1>10, <1>11, <1>12 DEF StateSound

\* The new branch's timeline is deleted at the end of a rollback that was complete.
LEMMA CleanupSound ==
    ASSUME NEW o \in Operations, NEW q \in Operations, NEW r, NEW t, NEW d, NEW ex, NEW b,
           NEW p, NEW a, StateSound(o, r, t, d, ex, b, p, a),
           Ends(o, q), o.todo # << >>, First(o) = "cleanup",
           NEW u, u = IF o.new = 0 \/ o.comp THEN t ELSE t \ {o.new}
    PROVE  StateSound(q, r, u, d, ex, b, p, a)
  <1>1. PlanSound(o) /\ UndoSound(o) /\ o.failed /\ (New(o) \/ o.kind = "reset")
    BY KindOf DEF StateSound
  <1>2. /\ PlanSound(q) /\ UndoSound(q)
        /\ q.kind = o.kind /\ q.name = o.name /\ q.parent = o.parent /\ q.failed = o.failed
        /\ q.prev = o.prev /\ q.made = o.made /\ q.new = o.new /\ q.comp = o.comp
        /\ Left(q) = {} /\ Left(o) = {"cleanup"}
        /\ First(q) \notin {"bind", "adopt", "discard", "row", "replace", "timeline"}
    BY <1>1, Goes
  <1>3. u \subseteq t /\ \A y \in t : y # o.new => y \in u
    OBVIOUS
  <1>4. ~o.comp /\ o.new # 0 => o.new \notin Attached(r)
    <2>1. ~o.comp /\ o.new # 0 => \A m \in ListActive(r) : r[m].tl # o.new
      BY <1>2 DEF StateSound, NewSound
    <2> QED
      BY <2>1, AttachedIs DEF ListActive
  <1>5. RowsSound(q, r)
    BY <1>1, <1>2 DEF StateSound, RowsSound, New
  <1>6. RowTls(r, u, d)
    <2>1. Attached(r) \subseteq u
      BY <1>4 DEF StateSound, RowTls
    <2> QED
      BY <1>3, <2>1 DEF StateSound, RowTls
  <1>7. OpTls(q, r, d)
    BY <1>1, <1>2 DEF StateSound, OpTls
  <1>8. MadeSound(q, r, u)
    BY <1>2 DEF MadeSound
  <1>9. ResetTls(q, r, u)
    <2>1. o.kind = "reset" /\ o.prev # 0 => o.prev \in u
      BY <1>3 DEF StateSound, ResetTls
    <2> QED
      BY <1>1, <1>2, <2>1 DEF StateSound, ResetTls
  <1>10. NewSound(q, r, u)
    BY <1>1, <1>2 DEF NewSound, New
  <1>11. LeaksSound(q, r, u, ex)
    <2>1. 0 \notin u /\ (o.new \in u => o.comp)
      <3>1. t \subseteq 1..d
        BY DEF StateSound, RowTls
      <3>2. 0 \notin t
        BY <3>1
      <3> QED
        BY <1>3, <3>2
    <2>2. /\ u \subseteq Attached(r) \cup ex \cup {o.made, o.new}
          /\ o.made \in u => o.made \in Attached(r) \cup ex \/ o.made = o.new \/ o.comp
      BY <1>3 DEF StateSound, LeaksSound
    <2>3. o.kind = "reset" => o.prev \in ex \cup {0}
      BY DEF StateSound, LeaksSound
    <2> QED
      BY <1>1, <1>2, <2>1, <2>2, <2>3 DEF LeaksSound, New
  <1>12. AnswerSound(q, r, b)
    BY <1>1, <1>2 DEF StateSound, AnswerSound, New
  <1>13. PrimarySound(q, r, p, a)
    BY <1>1, <1>2 DEF StateSound, PrimarySound, New, Behind
  <1> QED
    BY <1>2, <1>5, <1>6, <1>7, <1>8, <1>9, <1>10, <1>11, <1>12, <1>13 DEF StateSound

\* A call that failed may have created a timeline, or not: it is excused.
LEMMA DrawnSound ==
    ASSUME NEW o \in Operations, NEW r \in RowSets, NEW t, NEW d \in Nat, NEW ex, NEW b, NEW p,
           NEW a, StateSound(o, r, t, d, ex, b, p, a), NEW u \in {t, t \cup {d + 1}}
    PROVE  StateSound(o, r, u, d + 1, ex \cup {d + 1}, b, p, a)
  <1> DEFINE ey == ex \cup {d + 1}
  <1>1. /\ t \subseteq 1..d /\ Attached(r) \subseteq t /\ (\A m \in Names : r[m].tl <= d)
        /\ \A m \in Names : r[m].tl \in Nat
    BY DEF StateSound, RowTls, RowSets, Row, Tls
  <1>2. t \subseteq u /\ u \subseteq t \cup {d + 1}
    OBVIOUS
  <1>3. /\ o.made <= d /\ o.new <= d /\ o.prev <= d
        /\ o.made \in Nat /\ o.new \in Nat /\ o.prev \in Nat
    BY DEF StateSound, OpTls, Operations, Tls
  <1>4. RowTls(r, u, d + 1)
    <2>1. 1..d \subseteq 1..(d + 1) /\ d + 1 \in 1..(d + 1)
      OBVIOUS
    <2>2. \A m \in Names : r[m].tl <= d + 1
      BY <1>1
    <2>3. u \subseteq 1..(d + 1) /\ Attached(r) \subseteq u
      BY <1>1, <1>2, <2>1
    <2> QED
      BY <2>2, <2>3 DEF StateSound, RowTls
  <1>5. OpTls(o, r, d + 1)
    <2>1. o.made <= d + 1 /\ o.new <= d + 1 /\ o.prev <= d + 1
      BY <1>3
    <2> QED
      BY <2>1 DEF StateSound, OpTls
  <1>6. MadeSound(o, r, u)
    BY <1>2 DEF StateSound, MadeSound
  <1>7. ResetTls(o, r, u)
    BY <1>2 DEF StateSound, ResetTls
  <1>8. NewSound(o, r, u)
    BY <1>2 DEF StateSound, NewSound
  <1>9. LeaksSound(o, r, u, ey)
    <2>1. \A y \in u : y \in t \/ y \in ey
      BY <1>2
    <2>2. ex \subseteq ey
      OBVIOUS
    <2> HIDE DEF ey
    <2> QED
      BY <2>1, <2>2 DEF StateSound, LeaksSound
  <1> QED
    BY <1>4, <1>5, <1>6, <1>7, <1>8, <1>9 DEF StateSound

\* More may be excused.
LEMMA ExcusedSound ==
    ASSUME NEW o, NEW r, NEW t, NEW d, NEW ex, NEW b, NEW p, NEW a,
           StateSound(o, r, t, d, ex, b, p, a), NEW ey, ex \subseteq ey
    PROVE  StateSound(o, r, t, d, ey, b, p, a)
  <1>1. LeaksSound(o, r, t, ey)
    BY DEF StateSound, LeaksSound
  <1> QED
    BY <1>1 DEF StateSound

\* A call that failed may have deleted the timeline: that was nobody's.
LEMMA DroppedSound ==
    ASSUME NEW o \in Operations, NEW r, NEW t, NEW d, NEW ex, NEW b, NEW p, NEW a,
           StateSound(o, r, t, d, ex, b, p, a), o.todo # << >>, NEW x,
           \/ First(o) = "discard" /\ x = o.made
           \/ First(o) = "cleanup" /\ x = o.new /\ ~o.comp /\ o.new # 0
    PROVE  StateSound(o, r, t \ {x}, d, ex, b, p, a)
  <1>1. PlanSound(o) /\ UndoSound(o) /\ o.failed
    BY KindOf DEF StateSound
  <1>2. x \notin Attached(r) /\ (o.kind = "reset" /\ o.prev # 0 => x # o.prev)
    <2>1. CASE First(o) = "discard" /\ x = o.made
      BY <2>1 DEF StateSound, MadeSound
    <2>2. CASE First(o) = "cleanup" /\ x = o.new /\ ~o.comp /\ o.new # 0
      <3>1. Left(o) = {"cleanup"}
        <4> DEFINE q == [o EXCEPT !.todo = Tail(o.todo)]
        <4>1. /\ o.todo \in Seq(Steps)
              /\ \A k \in {"kind", "name", "parent", "prev", "made", "new", "failed", "comp"} :
                    q[k] = o[k]
          BY DEF Operations
        <4>2. Tail(o.todo) \in Seq(Steps)
          BY <4>1
        <4>3. q \in Operations /\ Ends(o, q)
          BY <4>2 DEF Operations, Ends, Popped
        <4> HIDE DEF q
        <4> QED
          BY <1>1, <2>2, <4>3, Goes
      <3>2. \A m \in ListActive(r) : r[m].tl # x
        BY <2>2, <3>1 DEF StateSound, NewSound
      <3> QED
        BY <2>2, <3>2, AttachedIs DEF StateSound, ResetTls, ListActive
    <2> QED
      BY <2>1, <2>2
  <1>3. First(o) \notin {"bind", "adopt", "row", "replace"}
    OBVIOUS
  <1>4. RowTls(r, t \ {x}, d)
    BY <1>2 DEF StateSound, RowTls
  <1>5. MadeSound(o, r, t \ {x})
    BY <1>3 DEF StateSound, MadeSound
  <1>6. ResetTls(o, r, t \ {x})
    <2>1. o.kind = "reset" /\ o.prev # 0 => o.prev \in t \ {x}
      BY <1>2 DEF StateSound, ResetTls
    <2> QED
      BY <1>1, <2>1 DEF StateSound, ResetTls
  <1>7. NewSound(o, r, t \ {x})
    BY <1>3 DEF StateSound, NewSound
  <1>8. LeaksSound(o, r, t \ {x}, ex)
    BY DEF StateSound, LeaksSound
  <1> QED
    BY <1>4, <1>5, <1>6, <1>7, <1>8 DEF StateSound

\* The primary's selection may be the branch's timeline although the switch failed.
LEMMA PrimaryMoved ==
    ASSUME NEW o, NEW r, NEW t, NEW d, NEW ex, NEW b, NEW p, NEW a,
           StateSound(o, r, t, d, ex, b, p, a), NEW s,
           s.name = o.name, s.tl = r[o.name].tl, ~New(o),
           o.kind = "reset" => p.name = o.name
    PROVE  StateSound(o, r, t, d, ex, b, s, a)
  <1>1. PrimarySound(o, r, s, a)
    BY DEF StateSound, PrimarySound
  <1> QED
    BY <1>1 DEF StateSound

-----------------------------------------------------------------------------
(* The climb to a timeline *)

LEMMA PushSound ==
    ASSUME NEW o \in Operations, NEW q \in Operations, NEW r \in RowSets, NEW t,
           NEW d \in Nat, NEW ex, NEW b, NEW p, NEW a,
           StateSound(o, r, t, d, ex, b, p, a), o.todo # << >>, First(o) = "resolve",
           NEW s \in Steps, Pushed(o, q, s),
           q.prev = o.prev, q.new = o.new, q.comp = o.comp,
           NEW n, n = o.todo[1].on, ActiveIn(r, n), r[n].tl = 0,
           n = Main \/ r[n].parent \notin Visits(o),
           NEW u, NEW e,
           \/ /\ s = Step("bind", n) /\ q.made = d + 1 /\ u = t \cup {d + 1} /\ e = d + 1
              /\ n # Main => r[Main].tl # 0
           \/ /\ s = Step("adopt", n) /\ n = Main /\ q.made \in t /\ u = t /\ e = d
           \/ /\ s = Step("resolve", r[n].parent) /\ n # Main /\ q.made = o.made /\ u = t /\ e = d
    PROVE  StateSound(q, r, u, e, ex, b, p, a)
  <1>1. /\ PlanSound(o) /\ UndoSound(o) /\ ~o.failed /\ ~o.comp /\ o.kind # "delete"
        /\ n \in Names
    BY KindOf, FirstStep DEF StateSound, UndoSound
  <1>2. s.do \in Climbing /\ (s.do = "resolve" => s.on \notin Visits(o)) /\ s.do # "timeline"
    BY DEF Step, Climbing
  <1>3. PlanSound(q)
    BY <1>1, <1>2, PushPlan
  <1>4. /\ Left(q) = Left(o) \cup {s.do} /\ First(q) = s.do /\ q.todo[1] = s
        /\ q.todo # << >>
    BY PushLeft
  <1>5. q.kind = o.kind /\ q.name = o.name /\ q.parent = o.parent /\ q.failed = o.failed
    BY DEF Pushed
  <1>6. /\ \A do \in {"row", "timeline", "replace", "restore", "delete", "cleanup", "switch"} :
              do \in Left(q) <=> do \in Left(o)
        /\ First(q) \in Climbing
        /\ "cleanup" \notin Left(q)
    <2>1. "cleanup" \notin Left(o)
      BY <1>1, KindOf
    <2> QED
      BY <1>2, <1>4, <2>1 DEF Climbing
  <1>7. /\ t \subseteq 1..d /\ Attached(r) \subseteq t /\ (\A m \in Names : r[m].tl <= d)
        /\ o.made <= d /\ o.prev <= d /\ o.new <= d
        /\ o.made \in Nat /\ o.prev \in Nat /\ o.new \in Nat /\ \A m \in Names : r[m].tl \in Nat
    <2>1. t \subseteq 1..d /\ Attached(r) \subseteq t /\ \A m \in Names : r[m].tl <= d
      BY DEF StateSound, RowTls
    <2>2. o.made <= d /\ o.prev <= d /\ o.new <= d
      BY DEF StateSound, OpTls
    <2>3. o.made \in Nat /\ o.prev \in Nat /\ o.new \in Nat /\ \A m \in Names : r[m].tl \in Nat
      BY DEF Operations, RowSets, Row, Tls
    <2> QED
      BY <2>1, <2>2, <2>3
  <1>8. /\ d + 1 \notin t /\ 0 \notin t /\ d + 1 # o.prev /\ d + 1 # o.new /\ d + 1 # 0
        /\ t \subseteq u /\ u \subseteq t \cup {d + 1}
    BY <1>7
  <1>9. UndoSound(q)
    BY <1>1, <1>5 DEF UndoSound
  <1>10. RowsSound(q, r)
    BY <1>1, <1>4, <1>5, <1>6 DEF StateSound, RowsSound, New
  <1>11. RowTls(r, u, e)
    <2>1. CASE u = t /\ e = d
      BY <2>1 DEF StateSound
    <2>2. CASE u = t \cup {d + 1} /\ e = d + 1
      <3>1. 1..d \subseteq 1..(d + 1) /\ d + 1 \in 1..(d + 1)
        OBVIOUS
      <3>2. \A m \in Names : r[m].tl <= d + 1
        BY <1>7
      <3>3. u \subseteq 1..(d + 1) /\ Attached(r) \subseteq u
        BY <1>7, <2>2, <3>1
      <3> QED
        BY <2>2, <3>2, <3>3 DEF StateSound, RowTls
    <2> QED
      BY <2>1, <2>2
  <1>12. OpTls(q, r, e)
    <2>1. q.made <= e /\ o.prev <= e /\ o.new <= e
      <3>1. CASE q.made = d + 1 /\ e = d + 1
        BY <1>7, <3>1
      <3>2. CASE q.made \in t /\ e = d
        <4>1. q.made \in 1..d
          BY <1>7, <3>2
        <4> QED
          BY <1>7, <3>2, <4>1
      <3>3. CASE q.made = o.made /\ e = d
        BY <1>7, <3>3
      <3> QED
        BY <3>1, <3>2, <3>3
    <2>2. o.kind = "create" => "row" \notin Left(o)
      BY <1>1, RowFirst
    <2> QED
      BY <1>5, <1>6, <2>1, <2>2 DEF StateSound, OpTls
  <1>13. MadeSound(q, r, u)
    <2>1. r[Main].tl = 0 => Attached(r) = {} /\ o.prev = 0
      <3>1. r[Main].tl = 0 => \A m \in Names : r[m].tl = 0
        BY DEF StateSound, RowTls
      <3>2. r[Main].tl = 0 => \A y : y \notin Attached(r)
        BY <3>1, AttachedIs
      <3> QED
        BY <3>2 DEF StateSound, OpTls
    <2>2. o.kind = "reset" => n # o.name
      <3> SUFFICES ASSUME o.kind = "reset", n = o.name PROVE FALSE
        OBVIOUS
      <3>1. n \in Others /\ n # Main /\ r[n].parent = o.parent
        BY Facts DEF StateSound, RowsSound
      <3>2. 1 \in Places(o) /\ o.todo[1].do = "resolve"
        <4>1. Len(o.todo) \in Nat /\ Len(o.todo) >= 1
          BY TodoFacts
        <4> QED
          BY <4>1, FirstIs DEF Places
      <3>3. FromParent(o, 1)
        BY <1>1, <3>2 DEF PlanSound, ResetClimb
      <3>4. o.parent \in Visits(o)
        BY <3>3 DEF FromParent, Visits
      <3> QED
        BY <3>1, <3>4
    <2>3. CASE s = Step("bind", n)
      <3>1. q.made = d + 1 /\ u = t \cup {d + 1} /\ (n # Main => r[Main].tl # 0)
        BY <2>3 DEF Step
      <3>2. q.made \in u /\ q.made \notin Attached(r) /\ q.made # q.prev
        BY <1>7, <1>8, <3>1
      <3>3. First(q) = "bind" /\ q.todo[1].on = n
        BY <1>4, <2>3 DEF Step
      <3> QED
        BY <1>5, <2>2, <3>1, <3>2, <3>3 DEF MadeSound
    <2>4. CASE s = Step("adopt", n)
      <3>1. q.made \in t /\ u = t /\ n = Main
        BY <2>4 DEF Step
      <3>2. q.made \in u /\ q.made \notin Attached(r) /\ q.made # q.prev
        BY <1>8, <2>1, <3>1
      <3>3. First(q) = "adopt" /\ q.todo[1].on = n
        BY <1>4, <2>4 DEF Step
      <3> QED
        BY <1>5, <2>2, <3>1, <3>2, <3>3 DEF MadeSound
    <2>5. CASE s = Step("resolve", r[n].parent)
      BY <1>4, <2>5 DEF MadeSound, Step
    <2> QED
      BY <2>3, <2>4, <2>5
  <1>14. ResetTls(q, r, u)
    BY <1>1, <1>5, <1>6, <1>8 DEF StateSound, ResetTls
  <1>15. NewSound(q, r, u)
    BY <1>1, <1>5, <1>6 DEF StateSound, NewSound, Climbing
  <1>16. LeaksSound(q, r, u, ex)
    <2>1. /\ o.made \in t => o.made \in Attached(r) \cup ex \/ o.made = o.new
          /\ t \subseteq Attached(r) \cup ex \cup {o.made, o.new}
          /\ o.new \in t => o.new \in Attached(r) \cup ex
      BY <1>1, KindOf DEF StateSound, LeaksSound
    <2>2. t \subseteq Attached(r) \cup ex
      BY <2>1
    <2>3. u \subseteq Attached(r) \cup ex \cup {q.made, q.new}
      BY <2>2
    <2>4. q.made \in u => q.made \in Attached(r) \cup ex \/ First(q) = "bind"
      BY <1>4, <2>2 DEF Step
    <2>5. q.new \in u => q.new \in Attached(r) \cup ex
      BY <1>8, <2>2
    <2>6. o.kind = "reset" => o.prev \in ex \cup {0}
      BY DEF StateSound, LeaksSound
    <2> QED
      BY <1>1, <1>5, <2>3, <2>4, <2>5, <2>6 DEF LeaksSound
  <1>17. AnswerSound(q, r, b)
    BY <1>1, <1>4, <1>5, <1>6 DEF StateSound, AnswerSound, New
  <1>18. PrimarySound(q, r, p, a)
    BY <1>1, <1>5, <1>6 DEF StateSound, PrimarySound, New, Behind
  <1> QED
    BY <1>3, <1>9, <1>10, <1>11, <1>12, <1>13, <1>14, <1>15, <1>16, <1>17, <1>18
    DEF StateSound

-----------------------------------------------------------------------------
(* Failures *)

\* The first failure: what has been done is what the rollback takes back.
LEMMA FirstFailure ==
    ASSUME op \in Operations, branches \in RowSets, NEW t, NEW d \in Nat, NEW ex, NEW b, NEW a,
           StateSound(op, branches, t, d, ex, b, primary, a), op.todo # << >>, ~op.failed,
           NEW q \in Operations, Undone(q, First(op)),
           q.prev = op.prev, q.made = op.made, q.comp = op.comp,
           q.new = IF op.kind = "create" THEN branches[op.name].tl ELSE op.new
    PROVE  StateSound(q, branches, t, d, ex, b, primary, a)
  <1> DEFINE do == First(op)
             n == op.name
             r == branches
  <1>1. /\ PlanSound(op) /\ UndoSound(op) /\ ~op.comp /\ n \in Names
        /\ do \in Left(op)
    BY FirstStep DEF StateSound, UndoSound, Operations
  <1>2. /\ PlanSound(q) /\ Left(q) = Undoes(do)
        /\ First(q) = "discard" <=> do = "bind"
        /\ First(q) \notin {"bind", "adopt", "timeline", "row", "replace"}
    BY UndoPlan
  <1>3. q.kind = op.kind /\ q.name = n /\ q.parent = op.parent /\ q.failed /\ ~q.comp
    BY <1>1 DEF Undone
  <1>c. op.kind = "create" =>
          /\ "delete" \in Left(q) <=> do # "row"
          /\ "cleanup" \in Left(q) <=> do # "row"
          /\ {"timeline", "row", "restore", "switch"} \cap Left(q) = {}
    BY <1>2 DEF Undoes
  <1>d. op.kind = "restore" =>
          /\ "delete" \in Left(q) <=> do # "row" /\ ActiveIn(r, n)
          /\ "cleanup" \in Left(q) <=> do = "row" \/ ActiveIn(r, n)
          /\ {"timeline", "row", "restore", "switch"} \cap Left(q) = {}
    BY <1>2 DEF Undoes, Active
  <1>e. op.kind = "reset" =>
          /\ "restore" \in Left(q) <=> do \in {"refresh", "switch"}
          /\ "cleanup" \in Left(q) <=> do \in {"refresh", "switch", "replace"}
          /\ "switch" \in Left(q) <=> do \in {"refresh", "switch"} /\ primary.name = n
          /\ {"timeline", "row", "delete", "replace"} \cap Left(q) = {}
    BY <1>2 DEF Undoes
  <1>f. op.kind \notin {"create", "restore", "reset"} => Left(q) \subseteq {"discard"}
    BY <1>2 DEF Undoes
  <1>k. /\ do = "row" => New(op)
        /\ do = "replace" => op.kind = "reset"
        /\ do # "discard"
        /\ "cleanup" \notin Left(op)
    BY <1>1, KindOf
  <1> HIDE DEF do, n, r
  <1>4. UndoSound(q)
    BY <1>3, <1>c, <1>d, <1>e, <1>f DEF UndoSound
  <1>5. RowsSound(q, r)
    BY <1>3 DEF StateSound, RowsSound, New, n, r
  <1>6. RowTls(r, t, d)
    BY DEF StateSound, r
  <1>g. op.kind = "create" /\ do # "row" => ActiveIn(r, n)
    <2>1. op.kind = "create" /\ do # "row" => "row" \notin Left(op)
      BY <1>1, RowFirst DEF do
    <2> QED
      BY <2>1 DEF StateSound, RowsSound, New, n, r
  <1>h. op.kind = "restore" /\ ActiveIn(r, n) => r[n].tl = op.new
    BY DEF StateSound, NewSound, n, r
  <1>i. op.kind = "reset" /\ do \in {"refresh", "switch"} => r[n].tl = op.new /\ ActiveIn(r, n)
    <2>1. do \in {"refresh", "switch"} => "replace" \notin Left(op)
      BY <1>1, ReplacedBefore DEF do
    <2> QED
      BY <2>1 DEF StateSound, ResetTls, RowsSound, n, r
  <1>j. New(op) /\ do = "row" => ~ActiveIn(r, n)
    BY <1>1 DEF StateSound, RowsSound, n, r
  <1>l. 0 \notin t
    <2>1. t \subseteq 1..d
      BY DEF StateSound, RowTls
    <2> QED
      BY <2>1
  <1>7. OpTls(q, r, d)
    <2>1. op.made <= d /\ op.prev <= d /\ q.new <= d
      BY <1>1 DEF StateSound, OpTls, RowTls, n, r
    <2>2. r[Main].tl = 0 => q.new = 0 /\ op.prev = 0
      BY <1>1 DEF StateSound, OpTls, RowTls, n, r
    <2>3. "timeline" \notin Left(q) /\ "row" \notin Left(q)
      BY <1>c, <1>d, <1>e, <1>f
    <2> QED
      BY <1>3, <2>1, <2>2, <2>3 DEF OpTls
  <1>8. MadeSound(q, r, t)
    <2>1. do = "bind" => op.made \notin Attached(r) /\ op.made # op.prev
      BY DEF StateSound, MadeSound, do, r
    <2> QED
      BY <1>2, <2>1 DEF MadeSound
  <1>9. ResetTls(q, r, t)
    BY <1>3, <1>e, <1>i DEF StateSound, ResetTls, n, r
  <1>10. NewSound(q, r, t)
    <2>1. New(op) /\ "delete" \in Left(q) => r[n].tl = q.new
      BY <1>c, <1>d, <1>h DEF New, n, r
    <2>2. ASSUME "cleanup" \in Left(q), q.new # 0, NEW m \in ListActive(r), r[m].tl = q.new
          PROVE  m = n /\ Left(q) \cap {"delete", "restore"} # {}
      <3>1. CASE do = "row" \/ do = "replace"
        <4>1. op.kind # "create"
          BY <1>c, <1>k, <2>2, <3>1 DEF New
        <4>2. op.new \notin Attached(r)
          BY <3>1, <4>1 DEF StateSound, NewSound, do, r
        <4> QED
          BY <2>2, <4>1, <4>2, AttachedIs DEF ListActive
      <3>2. CASE do # "row" /\ do # "replace"
        <4>1. ActiveIn(r, n) /\ r[n].tl = q.new /\ Left(q) \cap {"delete", "restore"} # {}
          <5>1. CASE op.kind = "create"
            BY <1>c, <1>g, <3>2, <5>1 DEF n, r
          <5>2. CASE op.kind = "restore"
            BY <1>d, <1>h, <2>2, <3>2, <5>2
          <5>3. CASE op.kind = "reset"
            BY <1>e, <1>i, <2>2, <3>2, <5>3
          <5> QED
            BY <1>f, <2>2, <5>1, <5>2, <5>3
        <4>2. n \in ListActive(r)
          BY <1>1, <4>1 DEF ListActive
        <4>3. m = n
          BY <1>6, <2>2, <4>1, <4>2 DEF RowTls
        <4> QED
          BY <4>1, <4>3
      <3> QED
        BY <3>1, <3>2
    <2> QED
      BY <1>2, <1>3, <2>1, <2>2 DEF NewSound, New, n
  <1>11. LeaksSound(q, r, t, ex)
    <2>1. /\ t \subseteq Attached(r) \cup ex \cup {op.made, op.new}
          /\ op.made \in t => op.made \in Attached(r) \cup ex \/ op.made = op.new \/ do = "bind"
          /\ op.new \in t => op.new \in Attached(r) \cup ex \/ do \in {"row", "replace"}
      BY <1>1, <1>k DEF StateSound, LeaksSound, do, r
    <2>2. op.kind = "create" => op.new = 0
      BY DEF StateSound, OpTls
    <2>3. t \subseteq Attached(r) \cup ex \cup {q.made, q.new}
      BY <1>l, <2>1, <2>2
    <2>4. q.made \in t => q.made \in Attached(r) \cup ex \/ q.made = q.new \/ First(q) = "discard"
      BY <1>2, <1>l, <2>1, <2>2
    <2>5. q.new \in t => q.new \in Attached(r) \cup ex \/ "cleanup" \in Left(q)
      <3>1. CASE op.kind = "create" /\ do # "row"
        BY <1>c, <3>1
      <3>2. CASE op.kind = "create" /\ do = "row"
        <4>1. op.made = 0
          BY <1>1, <3>2 DEF StateSound, OpTls, do
        <4> QED
          BY <1>l, <2>1, <2>2, <3>2, <4>1
      <3>3. CASE op.kind # "create"
        BY <1>d, <1>e, <1>k, <2>1, <3>3 DEF New
      <3> QED
        BY <3>1, <3>2, <3>3
    <2>6. /\ op.kind = "delete" => r[n].tl \in ex \cup {0}
          /\ op.kind = "reset" => op.prev \in ex \cup {0}
      BY DEF StateSound, LeaksSound, n, r
    <2> QED
      BY <1>3, <2>3, <2>4, <2>5, <2>6 DEF LeaksSound
  <1>12. AnswerSound(q, r, b)
    <2>1. New(op) /\ "delete" \notin Left(q) => ~ActiveIn(r, n)
      BY <1>c, <1>d, <1>j DEF New
    <2>2. op.kind = "reset" /\ "restore" \notin Left(q) => "replace" \in Left(op)
      BY <1>1, <1>e, ReplaceComes DEF do
    <2>3. b # NoRows /\ op.kind = "reset" /\ "restore" \notin Left(q) => KeepsRow(b, r, n)
      BY <2>2 DEF StateSound, AnswerSound, n, r
    <2> QED
      BY <1>3, <2>1, <2>3 DEF StateSound, AnswerSound, New, n, r
  <1>13. PrimarySound(q, r, primary, a)
    <2>1. Behind(op) => Behind(q)
      <3>1. Behind(op) => do \in {"refresh", "switch"} /\ "switch" \in Left(op)
        BY <1>1, ReplaceComes DEF Behind, do
      <3>2. op.kind = "reset" /\ "switch" \in Left(op) => primary.name = n
        BY DEF StateSound, PrimarySound, n
      <3> QED
        BY <1>3, <1>e, <3>1, <3>2 DEF Behind
    <2> QED
      BY <1>3, <1>e, <2>1 DEF StateSound, PrimarySound, New, n, r
  <1> QED
    BY <1>2, <1>4, <1>5, <1>6, <1>7, <1>8, <1>9, <1>10, <1>11, <1>12, <1>13 DEF StateSound, r

\* A failing rollback goes on, or ends when the row is not back.
LEMMA LaterFailure ==
    ASSUME NEW o \in Operations, NEW q \in Operations, NEW r, NEW t, NEW d, NEW ex, NEW b,
           NEW p, NEW a, StateSound(o, r, t, d, ex, b, p, a), o.todo # << >>, o.failed,
           q.kind = o.kind, q.name = o.name, q.parent = o.parent, q.failed, q.comp,
           q.prev = o.prev, q.made = o.made, q.new = o.new,
           q.todo = IF First(o) \in {"delete", "restore"} THEN << >> ELSE Tail(o.todo)
    PROVE  StateSound(q, r, t, d, ex, b, p, a)
  <1>1. PlanSound(o) /\ UndoSound(o)
    BY DEF StateSound
  <1>k. Left(o) \cap {"timeline", "replace", "row"} = {}
    BY <1>1, KindOf
  <1>2. /\ PlanSound(q) /\ UndoSound(q) /\ Left(q) \subseteq Left(o)
        /\ First(q) \notin {"bind", "adopt", "discard", "row", "replace", "timeline"}
        /\ "restore" \in Left(q) /\ "switch" \in Left(o) => "switch" \in Left(q)
    <2>1. CASE First(o) \in {"delete", "restore"}
      <3>1. Places(q) = {} /\ Left(q) = {} /\ First(q) = "none"
        <4>1. Len(q.todo) = 0
          BY <2>1
        <4> QED
          BY <2>1, <4>1 DEF Places, Left, First
      <3> QED
        BY <3>1 DEF PlanSound, StepsSound, OrderSound, Distinct, ResetClimb, UndoSound
    <2>2. CASE First(o) \notin {"delete", "restore"}
      <3>1. Popped(o, q)
        BY <2>2 DEF Popped
      <3>2. PlanSound(q) /\ Left(o) = Left(q) \cup {First(o)}
        BY <1>1, <3>1, PopPlan, PopLeft DEF PlanSound
      <3>3. /\ First(q) \notin {"bind", "adopt", "discard"}
            /\ First(q) = "row" => First(o) = "timeline"
            /\ First(q) = "replace" => First(o) = "timeline"
            /\ First(q) = "timeline" => First(o) = "resolve"
            /\ First(o) = "cleanup" => q.todo = << >>
        BY <1>1, <3>1, PopFirst
      <3>4. First(o) \in Left(o) /\ First(o) # "resolve"
        BY <1>1, FirstStep, KindOf
      <3>5. First(q) \notin {"bind", "adopt", "discard", "row", "replace", "timeline"}
        BY <1>k, <3>3, <3>4
      <3>6. UndoSound(q)
        <4>1. q.todo = << >> <=> Left(q) = {}
          BY <1>1, <3>1, PopLeft DEF PlanSound
        <4> QED
          BY <1>1, <3>2, <3>3, <4>1 DEF UndoSound
      <3>7. "restore" \in Left(q) /\ "switch" \in Left(o) => "switch" \in Left(q)
        BY <1>1, <3>2, ReplacedBefore
      <3> QED
        BY <3>2, <3>5, <3>6, <3>7
    <2> QED
      BY <2>1, <2>2
  <1>4. RowsSound(q, r)
    BY DEF StateSound, RowsSound, New
  <1>5. OpTls(q, r, d)
    BY <1>2, <1>k DEF StateSound, OpTls
  <1>6. MadeSound(q, r, t)
    BY <1>2 DEF MadeSound
  <1>7. ResetTls(q, r, t)
    BY <1>2 DEF StateSound, ResetTls
  <1>8. NewSound(q, r, t)
    BY <1>2 DEF StateSound, NewSound, New
  <1>9. LeaksSound(q, r, t, ex)
    BY DEF StateSound, LeaksSound
  <1>10. AnswerSound(q, r, b)
    <2>1. o.kind = "delete" => KeepsRow(b, r, o.name) \/ b = NoRows
      BY DEF StateSound, AnswerSound
    <2> QED
      BY <2>1 DEF StateSound, AnswerSound, New
  <1>11. PrimarySound(q, r, p, a)
    BY <1>2 DEF StateSound, PrimarySound, New, Behind
  <1> QED
    BY <1>2, <1>4, <1>5, <1>6, <1>7, <1>8, <1>9, <1>10, <1>11 DEF StateSound

-----------------------------------------------------------------------------
(* Between operations *)

LEMMA Nothing ==
    /\ NoOp.kind = "none" /\ NoOp.name = Main /\ NoOp.parent = Main /\ NoOp.todo = << >>
    /\ NoOp.prev = 0 /\ NoOp.made = 0 /\ NoOp.new = 0
    /\ NoOp.failed = FALSE /\ NoOp.comp = FALSE
    /\ Places(NoOp) = {} /\ Left(NoOp) = {} /\ First(NoOp) = "none" /\ ~New(NoOp)
    /\ PlanSound(NoOp) /\ UndoSound(NoOp) /\ NoOp \in Operations
  <1>1. /\ NoOp.kind = "none" /\ NoOp.name = Main /\ NoOp.parent = Main /\ NoOp.todo = << >>
        /\ NoOp.prev = 0 /\ NoOp.made = 0 /\ NoOp.new = 0
        /\ NoOp.failed = FALSE /\ NoOp.comp = FALSE
    BY DEF NoOp
  <1>2. Places(NoOp) = {}
    <2>1. Len(NoOp.todo) = 0
      BY <1>1
    <2> QED
      BY <2>1 DEF Places
  <1>3. Left(NoOp) = {} /\ First(NoOp) = "none" /\ ~New(NoOp)
    BY <1>1, <1>2 DEF Left, First, New
  <1>4. PlanSound(NoOp) /\ UndoSound(NoOp)
    BY <1>1, <1>2, <1>3 DEF PlanSound, StepsSound, OrderSound, Distinct, ResetClimb, UndoSound
  <1> QED
    BY <1>1, <1>2, <1>3, <1>4, NoOpTyped

\* What is known when no operation is under way.
IdleSound(r, t, d, ex, b, p, a) ==
    /\ RowTls(r, t, d)
    /\ t \subseteq Attached(r) \cup ex
    /\ r = NoRows => b = NoRows
    /\ b # NoRows => \A m \in Names : KeepsRow(b, r, m)
    /\ ~a /\ p.tl # 0 => p.tl = r[p.name].tl

LEMMA Idle ==
    ASSUME NEW r, NEW t, NEW d \in Nat, NEW ex, NEW b, NEW p, NEW a
    PROVE  StateSound(NoOp, r, t, d, ex, b, p, a) <=> IdleSound(r, t, d, ex, b, p, a)
  <1>1. ASSUME RowTls(r, t, d) PROVE 0 \notin t
    <2>1. t \subseteq 1..d
      BY <1>1 DEF RowTls
    <2> QED
      BY <2>1
  <1>2. RowTls(r, t, d) => OpTls(NoOp, r, d)
    BY Nothing DEF OpTls
  <1>3. RowsSound(NoOp, r) /\ MadeSound(NoOp, r, t) /\ ResetTls(NoOp, r, t) /\ NewSound(NoOp, r, t)
    BY Nothing DEF RowsSound, MadeSound, ResetTls, NewSound
  <1>4. RowTls(r, t, d) => (LeaksSound(NoOp, r, t, ex) <=> t \subseteq Attached(r) \cup ex)
    BY Nothing, <1>1 DEF LeaksSound
  <1>5. AnswerSound(NoOp, r, b) <=>
          (r = NoRows => b = NoRows) /\ (b # NoRows => \A m \in Names : KeepsRow(b, r, m))
    BY Nothing DEF AnswerSound
  <1>6. PrimarySound(NoOp, r, p, a) <=> (~a /\ p.tl # 0 => p.tl = r[p.name].tl)
    BY Nothing DEF PrimarySound, Behind
  <1> QED
    BY <1>2, <1>3, <1>4, <1>5, <1>6, Nothing DEF StateSound, IdleSound

\* Whatever an operation was about to do, a crash leaves what is excused.
LEMMA CrashSound ==
    ASSUME NEW o \in Operations, NEW r, NEW t, NEW d \in Nat, NEW ex, NEW b, NEW p, NEW a,
           StateSound(o, r, t, d, ex, b, p, a), NEW c, c = IF o = NoOp THEN b ELSE r,
           NEW z, a \/ o.kind \in {"reset", "select"} => z
    PROVE  StateSound(NoOp, r, t, d, ex \cup {o.made, o.new}, c, p, z)
  <1>1. t \subseteq Attached(r) \cup (ex \cup {o.made, o.new})
    BY DEF StateSound, LeaksSound
  <1>2. (r = NoRows => c = NoRows) /\ (c # NoRows => \A m \in Names : KeepsRow(c, r, m))
    <2>1. CASE o = NoOp
      BY <2>1, Nothing DEF StateSound, AnswerSound
    <2>2. CASE o # NoOp
      BY <2>2 DEF KeepsRow
    <2> QED
      BY <2>1, <2>2
  <1>3. ~z /\ p.tl # 0 => p.tl = r[p.name].tl
    BY DEF StateSound, PrimarySound, Behind
  <1>4. IdleSound(r, t, d, ex \cup {o.made, o.new}, c, p, z)
    BY <1>1, <1>2, <1>3 DEF IdleSound, StateSound
  <1> QED
    BY <1>4, Idle

\* The answer of an operation tells what is so.
LEMMA FinishSound ==
    ASSUME NEW o \in Operations, NEW r, NEW t, NEW d \in Nat, NEW ex, NEW b, NEW p, NEW a,
           StateSound(o, r, t, d, ex, b, p, a), o.todo = << >>,
           NEW ey, ex \subseteq ey, o.comp => o.made \in ey /\ o.new \in ey,
           NEW c, c = b \/ c = r, c = b => c = r \/ (o.failed /\ ~o.comp),
           NEW z, a \/ o.comp => z
    PROVE  StateSound(NoOp, r, t, d, ey, c, p, z)
  <1>1. Left(o) = {} /\ First(o) = "none"
    BY LeftEmpty DEF First
  <1>2. t \subseteq Attached(r) \cup ey
    <2>1. ~o.comp => t \subseteq Attached(r) \cup ex
      <3>1. /\ t \subseteq Attached(r) \cup ex \cup {o.made, o.new}
            /\ ~o.comp /\ o.made \in t => o.made \in Attached(r) \cup ex \/ o.made = o.new
            /\ ~o.comp /\ o.new \in t => o.new \in Attached(r) \cup ex
        BY <1>1 DEF StateSound, LeaksSound
      <3> QED
        BY <3>1
    <2>2. t \subseteq Attached(r) \cup ex \cup {o.made, o.new}
      BY DEF StateSound, LeaksSound
    <2> QED
      BY <2>1, <2>2
  <1>3. (r = NoRows => c = NoRows) /\ (c # NoRows => \A m \in Names : KeepsRow(c, r, m))
    <2>1. CASE c = b /\ o.failed /\ ~o.comp
      <3>1. ASSUME b # NoRows, NEW m \in Names PROVE KeepsRow(b, r, m)
        <4>1. CASE m # o.name \/ o.kind \notin {"create", "restore", "delete", "reset"}
          BY <3>1, <4>1 DEF StateSound, AnswerSound
        <4>2. CASE m = o.name /\ New(o)
          BY <1>1, <2>1, <3>1, <4>2 DEF StateSound, AnswerSound, KeepsRow
        <4>3. CASE m = o.name /\ o.kind \in {"delete", "reset"}
          BY <1>1, <2>1, <3>1, <4>3 DEF StateSound, AnswerSound
        <4> QED
          BY <4>1, <4>2, <4>3 DEF New
      <3> QED
        BY <2>1, <3>1 DEF StateSound, AnswerSound
    <2>2. CASE c = r
      BY <2>2 DEF KeepsRow
    <2> QED
      BY <2>1, <2>2
  <1>4. ~z /\ p.tl # 0 => p.tl = r[p.name].tl
    BY <1>1 DEF StateSound, PrimarySound, Behind
  <1>5. IdleSound(r, t, d, ey, c, p, z)
    BY <1>2, <1>3, <1>4 DEF IdleSound, StateSound
  <1> QED
    BY <1>5, Idle

\* A controller that finds no rows starts with branches whose timelines are there.
LEMMA FreshSound ==
    ASSUME NEW s \in RowSets, NEW t, NEW d \in Nat, NEW ex, NEW b, NEW p \in [name : Names, tl : Tls],
           NEW a, StateSound(NoOp, NoRows, t, d, ex, b, p, a), RowTls(s, t, d)
    PROVE  StateSound(NoOp, s, t, d, ex, b, p, a)
  <1>1. IdleSound(NoRows, t, d, ex, b, p, a)
    BY Idle
  <1>2. Main \in Names /\ \A m \in Names : NoRows[m].tl = 0
    BY Facts DEF NoRows, Absent
  <1>3. \A y : y \notin Attached(NoRows)
    BY <1>2, AttachedIs
  <1>4. t \subseteq ex /\ b = NoRows /\ (a \/ p.tl = 0)
    BY <1>1, <1>2, <1>3 DEF IdleSound
  <1>5. IdleSound(s, t, d, ex, b, p, a)
    BY <1>4 DEF IdleSound
  <1> QED
    BY <1>5, Idle

\* What the plans of the kinds have in common.
LEMMA PlanFacts ==
    ASSUME NEW kind \in Kinds, NEW n \in Names, NEW par \in Names, NEW q \in Operations,
           Begun(q, kind, n, par), kind \in {"create", "restore"} => n \in Others
    PROVE  /\ PlanSound(q) /\ q.todo # << >>
           /\ First(q) \notin {"bind", "adopt", "discard", "timeline", "replace"}
           /\ First(q) = "row" => kind = "create"
           /\ kind \in {"create", "restore"} => "row" \in Left(q)
           /\ kind = "reset" => "replace" \in Left(q) /\ ("switch" \in Left(q) <=> primary.name = n)
           /\ Left(q) \cap {"cleanup", "restore"} = {}
           /\ kind # "delete" => "delete" \notin Left(q)
           /\ kind = "delete" => "unpublish" \in Left(q)
           /\ kind \in {"startup", "publish"} => "password" \in Left(q) /\ Has(q, "resolve", n)
           /\ kind = "create" => Has(q, "resolve", n)
           /\ "publish" \in Left(q) => kind \in {"startup", "publish", "create", "restore"}
  <1>1. q.kind = kind /\ q.failed = FALSE /\ q.name = n
    BY DEF Begun
  <1>2. ASSUME PlanSound(q)
        PROVE  /\ Left(q) \cap {"cleanup", "restore"} = {}
               /\ kind # "delete" => "delete" \notin Left(q)
               /\ "publish" \in Left(q) => kind \in {"startup", "publish", "create", "restore"}
    <2>1. Left(q) \subseteq Doing(kind)
      BY <1>1, <1>2, LeftDeeds DEF PlanSound
    <2> QED
      BY <2>1 DEF Doing, Climbing, Kinds
  <1>3. CASE kind = "create"
    BY <1>2, <1>3, CreatePlan
  <1>4. CASE kind = "restore"
    BY <1>2, <1>4, RestorePlan
  <1>5. CASE kind = "reset"
    BY <1>2, <1>5, ResetPlanSound
  <1>6. CASE kind \in {"startup", "publish", "delete", "unpublish", "select"}
    BY <1>2, <1>6, ShortPlans
  <1> QED
    BY <1>3, <1>4, <1>5, <1>6 DEF Kinds

\* An operation begins with what is known when none is under way.
LEMMA BeginSound ==
    ASSUME branches \in RowSets, NEW kind \in Kinds, NEW n \in Names, NEW par \in Names,
           NEW t, NEW d \in Nat, NEW ex, NEW b, NEW a,
           StateSound(NoOp, branches, t, d, ex, b, primary, a),
           NEW q \in Operations, Begun(q, kind, n, par),
           q.prev = branches[n].tl, q.made = 0, q.new = 0, q.comp = FALSE,
           kind \in {"create", "restore"} =>
               n \in Others /\ ~Active(n) /\ (a \/ Active(primary.name)),
           kind = "reset" => n \in Others /\ par = branches[n].parent,
           kind \notin {"create", "restore"} => Active(n)
    PROVE  StateSound(q, branches, t, d, ex \cup Attached(branches), b, primary, a)
  <1> DEFINE r == branches
             ey == ex \cup Attached(r)
  <1>1. IdleSound(r, t, d, ex, b, primary, a)
    BY Idle
  <1>2. /\ q.kind = kind /\ q.name = n /\ q.parent = par /\ q.failed = FALSE
        /\ Active(n) <=> ActiveIn(r, n)
        /\ Active(primary.name) <=> ActiveIn(r, primary.name)
    BY DEF Begun, Active
  <1>3. /\ PlanSound(q) /\ q.todo # << >>
        /\ First(q) \notin {"bind", "adopt", "discard", "timeline", "replace"}
        /\ First(q) = "row" => kind = "create"
        /\ kind \in {"create", "restore"} => "row" \in Left(q)
        /\ kind = "reset" => "replace" \in Left(q) /\ ("switch" \in Left(q) <=> primary.name = n)
        /\ Left(q) \cap {"cleanup", "restore"} = {}
        /\ kind # "delete" => "delete" \notin Left(q)
    BY PlanFacts
  <1> HIDE DEF r
  <1>4. UndoSound(q)
    BY <1>2 DEF UndoSound
  <1>5. RowsSound(q, r)
    BY <1>2, <1>3 DEF RowsSound, New, r
  <1>6. RowTls(r, t, d)
    BY <1>1 DEF IdleSound
  <1>7. t \subseteq 1..d /\ 0 \notin t
    <2>1. t \subseteq 1..d
      BY <1>6 DEF RowTls
    <2> QED
      BY <2>1
  <1>8. OpTls(q, r, d)
    <2>1. 0 <= d /\ r[n].tl <= d /\ (r[Main].tl = 0 => r[n].tl = 0)
      BY <1>6 DEF RowTls
    <2> QED
      BY <1>2, <2>1 DEF OpTls, r
  <1>9. MadeSound(q, r, t)
    BY <1>3 DEF MadeSound
  <1>10. ResetTls(q, r, t)
    <2> SUFFICES ASSUME kind = "reset" PROVE ResetTls(q, r, t)
      BY <1>2 DEF ResetTls
    <2>1. n \in ListActive(r)
      BY <1>2 DEF ListActive
    <2>2. r[n].tl # 0 => r[n].tl \in Attached(r)
      BY <1>2, AttachedIs
    <2>3. q.prev # 0 => q.prev \in t /\ \A m \in ListActive(r) : r[m].tl = q.prev => m = q.name
      BY <1>2, <1>6, <2>1, <2>2 DEF RowTls, r
    <2> QED
      BY <1>2, <1>3, <2>3 DEF ResetTls, r
  <1>11. NewSound(q, r, t)
    BY <1>2, <1>3 DEF NewSound, New
  <1>12. LeaksSound(q, r, t, ey)
    <2>1. t \subseteq Attached(r) \cup ey
      BY <1>1 DEF IdleSound
    <2>2. ActiveIn(r, n) => r[n].tl \in ey \cup {0}
      BY AttachedIs
    <2> HIDE DEF ey
    <2> QED
      BY <1>2, <1>7, <2>1, <2>2 DEF LeaksSound, r
  <1>13. AnswerSound(q, r, b)
    <2>1. b # NoRows => KeepsRow(b, r, n)
      BY <1>1 DEF IdleSound
    <2>2. kind = "reset" /\ b # NoRows =>
              ActiveIn(b, n) /\ b[n].parent = par /\ b[n].tl \in {0, q.prev}
      BY <1>2, <2>1 DEF KeepsRow, r
    <2>3. New(q) /\ b # NoRows => ~ActiveIn(b, n)
      BY <1>2, <2>1 DEF KeepsRow, New
    <2>4. (r = NoRows => b = NoRows) /\ (b # NoRows => \A m \in Names : KeepsRow(b, r, m))
      BY <1>1 DEF IdleSound
    <2> QED
      BY <1>2, <1>3, <2>1, <2>2, <2>3, <2>4 DEF AnswerSound, New
  <1>14. PrimarySound(q, r, primary, a)
    <2>1. ~a /\ primary.tl # 0 => primary.tl = r[primary.name].tl
      BY <1>1 DEF IdleSound
    <2> QED
      BY <1>2, <1>3, <2>1 DEF PrimarySound, New
  <1> QED
    BY <1>3, <1>4, <1>5, <1>6, <1>8, <1>9, <1>10, <1>11, <1>12, <1>13, <1>14 DEF StateSound, r

-----------------------------------------------------------------------------
(* What is published *)

\* A step that publishes nothing.
LEMMA UnpublishedSound ==
    ASSUME NEW o \in Operations, NEW q, NEW r, NEW s, PlanSound(o), o.todo # << >>, Popped(o, q),
           PublishedSound(o, r), First(o) \notin {"publish", "row"},
           Complete(s), s[o.name].pub => r[o.name].pub,
           r[o.name].pw => s[o.name].pw, r[o.name].tl # 0 => s[o.name].tl # 0,
           First(o) = "password" => s[o.name].pw,
           First(o) = "resolve" => s[o.todo[1].on].tl # 0,
           First(o) = "unpublish" => ~s[o.name].pub
    PROVE  PublishedSound(q, s)
  <1>1. q.kind = o.kind /\ q.name = o.name /\ q.parent = o.parent /\ q.failed = o.failed
    BY DEF Popped
  <1>2. /\ Left(o) = Left(q) \cup {First(o)}
        /\ \A do, n : Has(o, do, n) => Has(q, do, n) \/ (First(o) = do /\ o.todo[1].on = n)
    BY PopLeft DEF PlanSound
  <1>3. \A n \in Names : s[n].pub => ActiveIn(s, n) /\ s[n].tl # 0 /\ s[n].pw
    BY DEF Complete
  <1>4. New(q) /\ ((~q.failed /\ q.todo # << >>) \/ "delete" \in Left(q)) => ~s[q.name].pub
    BY <1>1, <1>2 DEF PublishedSound, New
  <1>5. q.kind = "delete" /\ ~q.failed => "unpublish" \in Left(q) \/ ~s[q.name].pub
    BY <1>1, <1>2 DEF PublishedSound
  <1>6. "publish" \in Left(q) /\ "row" \notin Left(q) =>
            /\ "password" \in Left(q) \/ s[q.name].pw
            /\ Has(q, "resolve", q.name) \/ s[q.name].tl # 0
    BY <1>1, <1>2 DEF PublishedSound
  <1>7. q.kind = "create" /\ "row" \in Left(q) => Has(q, "resolve", q.name)
    <2>1. q.kind = "create" => "row" \notin Left(o)
      BY <1>1, RowFirst
    <2> QED
      BY <1>2, <2>1
  <1> QED
    BY <1>3, <1>4, <1>5, <1>6, <1>7 DEF PublishedSound

\* The row of a new branch.
LEMMA RowPublished ==
    ASSUME NEW o \in Operations, NEW q, NEW r, NEW s, PlanSound(o), o.todo # << >>, Popped(o, q),
           PublishedSound(o, r), First(o) = "row", Complete(s),
           ~s[o.name].pub, s[o.name].pw, o.kind = "restore" => s[o.name].tl # 0
    PROVE  PublishedSound(q, s)
  <1>1. /\ q.kind = o.kind /\ q.name = o.name /\ q.parent = o.parent /\ q.failed = o.failed
        /\ New(o)
    BY KindOf DEF Popped
  <1>2. /\ Left(o) = Left(q) \cup {First(o)} /\ "row" \notin Left(q) /\ "row" \in Left(o)
        /\ \A do, n : Has(o, do, n) => Has(q, do, n) \/ (First(o) = do /\ o.todo[1].on = n)
    BY PopLeft DEF PlanSound
  <1>3. o.kind = "create" => Has(q, "resolve", o.name)
    BY <1>2 DEF PublishedSound
  <1> QED
    BY <1>1, <1>2, <1>3 DEF PublishedSound, Complete, New

\* The last step, which publishes.
LEMMA LastPublished ==
    ASSUME NEW o \in Operations, NEW q \in Operations, NEW r, NEW s, PlanSound(o), UndoSound(o),
           o.todo # << >>, Ends(o, q),
           PublishedSound(o, r), First(o) = "publish", RowsSound(o, r),
           \A m \in Names : /\ ActiveIn(s, m) <=> ActiveIn(r, m)
                            /\ s[m].tl = r[m].tl /\ s[m].pw = r[m].pw
                            /\ s[m].pub => r[m].pub \/ m = o.name
    PROVE  PublishedSound(q, s)
  <1>1. /\ q.kind = o.kind /\ q.name = o.name /\ q.failed = o.failed
        /\ Left(q) = {} /\ Left(o) = {"publish"} /\ q.todo = << >>
    BY Goes
  <1>2. ~o.failed /\ o.kind \in {"startup", "publish", "create", "restore"}
    <2>1. o.kind \in Kinds \cup {"none"}
      BY DEF Operations
    <2> QED
      BY <2>1, FirstStep DEF Doing, Undoing, Climbing, Kinds
  <1>3. ActiveIn(r, o.name)
    BY <1>1, <1>2 DEF RowsSound, New
  <1>4. r[o.name].pw /\ r[o.name].tl # 0
    <2>1. ~Has(o, "resolve", o.name)
      <3>1. Has(o, "resolve", o.name) => "resolve" \in Left(o)
        BY LeftDeeds DEF PlanSound
      <3> QED
        BY <1>1, <3>1
    <2> QED
      BY <1>1, <2>1 DEF PublishedSound
  <1>5. Complete(s)
    BY <1>3, <1>4 DEF PublishedSound, Complete
  <1> QED
    BY <1>1, <1>2, <1>5 DEF PublishedSound, Complete, New

\* A climb, a failure and an operation that begins, ends or is cut short publish nothing.
LEMMA PushPublished ==
    ASSUME NEW o \in Operations, NEW q, NEW s \in Steps, NEW r, Pushed(o, q, s), o.todo # << >>,
           s.do \in Climbing, PublishedSound(o, r)
    PROVE  PublishedSound(q, r)
  <1>1. q.kind = o.kind /\ q.name = o.name /\ q.parent = o.parent /\ q.failed = o.failed
    BY DEF Pushed
  <1>2. Left(q) = Left(o) \cup {s.do} /\ \A do, n : Has(o, do, n) => Has(q, do, n)
    BY PushLeft
  <1> QED
    BY <1>1, <1>2 DEF PublishedSound, New, Climbing

LEMMA FailurePublished ==
    ASSUME NEW o \in Operations, NEW q \in Operations, NEW r, PlanSound(o), PlanSound(q),
           o.todo # << >>, q.kind = o.kind, q.name = o.name, q.failed,
           o.failed => Left(q) \subseteq Left(o), PublishedSound(o, r)
    PROVE  PublishedSound(q, r)
  <1>1. Left(q) \cap {"publish", "row"} = {}
    BY LeftDeeds DEF PlanSound, Undoing
  <1> QED
    BY <1>1 DEF PublishedSound, New

LEMMA BeginPublished ==
    ASSUME NEW r, NEW kind \in Kinds, NEW n \in Names, NEW par \in Names,
           NEW q \in Operations, Begun(q, kind, n, par), Complete(r),
           kind \in {"create", "restore"} => n \in Others /\ ~ActiveIn(r, n)
    PROVE  PublishedSound(q, r)
  <1>1. q.kind = kind /\ q.name = n /\ q.failed = FALSE
    BY DEF Begun
  <1> QED
    BY <1>1, PlanFacts DEF PublishedSound, Complete, New

LEMMA IdlePublished == ASSUME NEW r PROVE PublishedSound(NoOp, r) <=> Complete(r)
  BY Nothing DEF PublishedSound, Complete

-----------------------------------------------------------------------------
(* The steps of an operation: what they leave when they end well, or fail *)

\* The invariant with q for the operation and r for the rows.
Holds(q, r) ==
    /\ StateSound(q, r, timelines, drawn, hist.excused, hist.before, primary, hist.adrift)
    /\ PublishedSound(q, r)
    /\ StartSound(q, r, queue, primary, hist.adrift)

LEMMA HereFacts ==
    ASSUME IInv, OutcomeSound, NEW do, Here(do)
    PROVE  /\ up /\ op \in Operations /\ op.todo # << >> /\ First(op) = do
           /\ On = op.todo[1].on /\ On \in Names /\ op.name \in Names /\ op.parent \in Names
           /\ table = branches /\ branches \in RowSets /\ ActiveIn(branches, Main)
           /\ primary \in [name : Names, tl : Tls] /\ primary.name \in Names
           /\ drawn \in Nat /\ timelines \subseteq Tls
           /\ Done \in Operations /\ Ends(op, Done) /\ Popped(op, Done)
           /\ Holds(op, branches) /\ PlanSound(op) /\ UndoSound(op) /\ RowsSound(op, branches)
           /\ do \notin Climbing \cup {"timeline"} => On = op.name
           /\ Main \in Names
  <1>1. op \in Operations /\ up /\ op.todo # << >> /\ Head(op.todo).do = do
    BY DEF IInv, TypeOK, Here, Operations
  <1>2. Head(op.todo) = op.todo[1]
    BY <1>1, TodoFacts
  <1>3. First(op) = do /\ On = op.todo[1].on
    BY <1>1, <1>2 DEF First, On
  <1>4. table = branches /\ ActiveIn(branches, Main)
    BY <1>1 DEF IInv, StoreSound, Whole, Loadable
  <1>5. Holds(op, branches)
    BY <1>1, <1>4 DEF OutcomeSound, Holds
  <1>6. PlanSound(op) /\ UndoSound(op) /\ RowsSound(op, branches)
    BY <1>5 DEF Holds, StateSound
  <1>7. Done \in Operations
    BY <1>1, EndTyped
  <1>8. Ends(op, Done) /\ Popped(op, Done)
    <2>1. /\ Done.todo = Tail(op.todo) /\ Done.kind = op.kind /\ Done.name = op.name
          /\ Done.parent = op.parent /\ Done.failed = op.failed
          /\ Done.prev = op.prev /\ Done.made = op.made /\ Done.new = op.new /\ Done.comp = op.comp
      BY <1>1 DEF Done, Operations
    <2> QED
      BY <2>1 DEF Ends, Popped
  <1>9. /\ branches \in RowSets /\ primary \in [name : Names, tl : Tls] /\ drawn \in Tls
        /\ timelines \subseteq Tls
    BY DEF IInv, TypeOK, RowSets
  <1>10. drawn \in Nat /\ primary.name \in Names /\ op.name \in Names /\ op.parent \in Names
    BY <1>1, <1>9 DEF Tls, Operations
  <1>11. On \in Names /\ (do \notin Climbing \cup {"timeline"} => On = op.name)
    BY <1>1, <1>3, <1>6, FirstStep
  <1> QED
    BY <1>1, <1>3, <1>4, <1>5, <1>6, <1>7, <1>8, <1>9, <1>10, <1>11, Facts

\* Rows with an active branch are not none.
LEMMA NotBlank ==
    ASSUME NEW s, NEW m \in Names, ActiveIn(s, m)
    PROVE  s # NoRows
  BY DEF ActiveIn, NoRows, Absent

\* What is known of the start stays while branches stay.
LEMMA StartKept ==
    ASSUME NEW o, NEW q, NEW r, NEW s, NEW w, NEW p, p.name \in Names, NEW a,
           StartSound(o, r, w, p, a), q.kind = o.kind,
           \A m \in Names : ActiveIn(r, m) => ActiveIn(s, m)
    PROVE  StartSound(q, s, w, p, a)
  BY DEF StartSound, ListActive

\* A step that fails.
LEMMA FailureOutcome ==
    ASSUME IInv, IInv', OutcomeSound, NEW do, Here(do), op' = Failed(do),
           UNCHANGED <<table, branches, legacy, up, queue>>,
           StateSound(op, branches, timelines', drawn', hist'.excused, hist'.before, primary,
                      hist'.adrift),
           hist'.adrift = hist.adrift,
           \/ primary' = primary
           \/ do = "switch" /\ primary' = [name |-> On, tl |-> branches[On].tl]
    PROVE  OutcomeSound'
  <1>1. /\ up /\ op \in Operations /\ op.todo # << >> /\ First(op) = do
        /\ table = branches /\ branches \in RowSets /\ primary.name \in Names
        /\ Holds(op, branches) /\ PlanSound(op) /\ UndoSound(op) /\ RowsSound(op, branches)
        /\ do \notin Climbing \cup {"timeline"} => On = op.name
    BY HereFacts
  <1>2. op' \in Operations /\ drawn' \in Nat
    BY DEF IInv, TypeOK, Operations, Tls
  <1>3. /\ op'.kind = op.kind /\ op'.name = op.name /\ op'.parent = op.parent /\ op'.failed
        /\ op'.prev = op.prev /\ op'.made = op.made
        /\ ~op.failed =>
              /\ op'.todo = Compensation(do) /\ op'.comp = op.comp /\ op'.failed = TRUE
              /\ op'.new = IF op.kind = "create" THEN branches[op.name].tl ELSE op.new
        /\ op.failed =>
              /\ op'.comp /\ op'.new = op.new
              /\ op'.todo = IF do \in {"delete", "restore"} THEN << >> ELSE Tail(op.todo)
    BY <1>1 DEF Failed, Operations
  <1>4. StateSound(op', branches, timelines', drawn', hist'.excused, hist'.before, primary,
                   hist'.adrift)
    <2>1. CASE ~op.failed
      <3>1. Undone(op', First(op))
        BY <1>1, <1>3, <2>1 DEF Undone
      <3> QED
        BY <1>1, <1>2, <1>3, <2>1, <3>1, FirstFailure
    <2>2. CASE op.failed
      BY <1>1, <1>2, <1>3, <2>2, LaterFailure
    <2> QED
      BY <2>1, <2>2
  <1>5. /\ StateSound(op', branches, timelines', drawn', hist'.excused, hist'.before, primary',
                      hist'.adrift)
        /\ primary' = primary \/ ActiveIn(branches, primary'.name)
    <2>1. CASE primary' = primary
      BY <1>4, <2>1
    <2>2. CASE do = "switch" /\ primary' = [name |-> On, tl |-> branches[On].tl]
      <3>1. op.kind \in {"reset", "select"} /\ "switch" \in Left(op)
        BY <1>1, <2>2, KindOf, FirstStep
      <3>2. On = op.name
        BY <1>1, <2>2 DEF Climbing
      <3>3. op.kind = "reset" => primary.name = op.name
        BY <1>1, <3>1 DEF Holds, StateSound, PrimarySound
      <3>4. primary'.name = op.name /\ primary'.tl = branches[op.name].tl
        BY <2>2, <3>2
      <3>5. ActiveIn(branches, op.name)
        BY <1>1, <3>1 DEF RowsSound
      <3> QED
        BY <1>3, <1>4, <3>1, <3>3, <3>4, <3>5, PrimaryMoved DEF New
    <2> QED
      BY <2>1, <2>2
  <1>6. PublishedSound(op', branches)
    <2>1. PlanSound(op')
      BY <1>4 DEF StateSound
    <2>2. op.failed => Left(op') \subseteq Left(op)
      <3>1. CASE op.failed /\ do \in {"delete", "restore"}
        <4>1. op'.todo = << >>
          BY <1>3, <3>1
        <4> QED
          BY <1>2, <4>1, LeftEmpty
      <3>2. CASE op.failed /\ do \notin {"delete", "restore"}
        <4>1. Popped(op, op')
          BY <1>3, <3>2 DEF Popped
        <4> QED
          BY <1>1, <4>1, PopLeft DEF PlanSound
      <3> QED
        BY <3>1, <3>2
    <2> QED
      BY <1>1, <1>2, <1>3, <2>1, <2>2, FailurePublished DEF Holds
  <1>7. StartSound(op', branches, queue, primary', hist.adrift)
    BY <1>1, <1>3, <1>5 DEF Holds, StartSound
  <1> QED
    BY <1>1, <1>5, <1>6, <1>7 DEF OutcomeSound

\* A step on the store.
LEMMA StoreOutcome ==
    ASSUME IInv, IInv', OutcomeSound, NEW do, Here(do), NEW next, StoreStep(do, next),
           Holds(Done, next)
    PROVE  OutcomeSound'
  <1>1. PICK ok \in BOOLEAN :
            /\ PersistAndSwap(next, ok)
            /\ Advance(do, ok)
            /\ UNCHANGED <<legacy, up, queue, external, ops, hist>>
    BY DEF StoreStep
  <1>2. UNCHANGED <<legacy, up, queue, primary, timelines, drawn, hist>>
    BY <1>1 DEF external
  <1>3. CASE ok = TRUE
    <2>1. op' = Done /\ table' = next
      BY <1>1, <1>3 DEF Advance, PersistAndSwap
    <2> QED
      BY <1>2, <2>1 DEF Holds, OutcomeSound
  <1>4. CASE ok = FALSE
    <2>1. op' = Failed(do) /\ UNCHANGED <<table, branches>>
      BY <1>1, <1>4 DEF Advance, PersistAndSwap
    <2>2. Holds(op, branches)
      BY HereFacts
    <2>3. StateSound(op, branches, timelines', drawn', hist'.excused, hist'.before, primary,
                     hist'.adrift)
      BY <1>2, <2>2 DEF Holds
    <2> QED
      BY <1>2, <2>1, <2>3, FailureOutcome
  <1> QED
    BY <1>3, <1>4

\* A step with nothing to write, or refused.
LEMMA SkipOutcome ==
    ASSUME IInv, IInv', OutcomeSound, NEW do, Here(do), NEW ok \in BOOLEAN, Skip(do, ok),
           ok => Holds(Done, branches)
    PROVE  OutcomeSound'
  <1>2. /\ UNCHANGED <<table, branches, legacy, up, queue, primary, timelines, drawn, hist>>
        /\ Advance(do, ok)
    BY DEF Skip, external
  <1>0. table = branches
    BY HereFacts
  <1>3. CASE ok
    <2>1. op' = Done
      BY <1>2, <1>3 DEF Advance
    <2> QED
      BY <1>0, <1>2, <1>3, <2>1 DEF Holds, OutcomeSound
  <1>4. CASE ~ok
    <2>1. op' = Failed(do)
      BY <1>2, <1>4 DEF Advance
    <2>2. Holds(op, branches)
      BY HereFacts
    <2>3. StateSound(op, branches, timelines', drawn', hist'.excused, hist'.before, primary,
                     hist'.adrift)
      BY <1>2, <2>2 DEF Holds
    <2> QED
      BY <1>2, <2>1, <2>3, FailureOutcome
  <1> QED
    BY <1>3, <1>4

-----------------------------------------------------------------------------
(* The steps of an operation, one by one *)

\* Those that neither move a branch nor attach it.
LEMMA PlainDone ==
    ASSUME IInv, OutcomeSound, NEW do \in Plain, Here(do), NEW next, Same(branches, next),
           do = "resolve" => branches[On].tl # 0, PublishedSound(Done, next)
    PROVE  Holds(Done, next)
  <1>1. /\ op \in Operations /\ op.todo # << >> /\ First(op) = do /\ On = op.todo[1].on
        /\ On \in Names /\ Main \in Names /\ ActiveIn(branches, Main) /\ primary.name \in Names
        /\ Done \in Operations /\ Ends(op, Done) /\ Holds(op, branches)
    BY HereFacts
  <1>2. \A m \in Names : ActiveIn(next, m) <=> ActiveIn(branches, m)
    BY SameFacts
  <1>3. next # NoRows
    BY <1>1, <1>2, NotBlank
  <1>4. StateSound(op, next, timelines, drawn, hist.excused, hist.before, primary, hist.adrift)
    BY <1>1, <1>3, SameSound DEF Holds
  <1>5. StateSound(Done, next, timelines, drawn, hist.excused, hist.before, primary, hist.adrift)
    <2>1. do = "resolve" => next[On].tl # 0
      BY <1>1 DEF Same
    <2> QED
      BY <1>1, <1>4, <2>1, PlainSound
  <1>6. StartSound(Done, next, queue, primary, hist.adrift)
    <2>1. Done.kind = op.kind
      BY <1>1 DEF Ends, Popped
    <2> QED
      BY <1>1, <1>2, <2>1, StartKept DEF Holds
  <1> QED
    BY <1>5, <1>6 DEF Holds

LEMMA PasswordOutcome ==
    ASSUME IInv, IInv', OutcomeSound, EnsurePassword
    PROVE  OutcomeSound'
  <1>0. Here("password")
    BY DEF EnsurePassword
  <1>1. /\ op \in Operations /\ op.todo # << >> /\ First(op) = "password"
        /\ On \in Names /\ On = op.name /\ branches \in RowSets
        /\ Popped(op, Done) /\ Holds(op, branches) /\ PlanSound(op)
    BY <1>0, HereFacts DEF Climbing
  <1>2. Complete(branches)
    BY <1>1 DEF Holds, PublishedSound, Complete
  <1>3. CASE branches[On].pw /\ Skip("password", TRUE)
    <2>1. PublishedSound(Done, branches)
      BY <1>1, <1>2, <1>3, UnpublishedSound DEF Holds
    <2>2. Holds(Done, branches)
      BY <1>0, <2>1, PlainDone DEF Same, Plain
    <2> QED
      BY <1>0, <1>3, <2>2, SkipOutcome
  <1>4. CASE StoreStep("password", [branches EXCEPT ![On].pw = TRUE])
    <2> DEFINE next == [branches EXCEPT ![On].pw = TRUE]
    <2>1. /\ Same(branches, next) /\ next[On].pw
          /\ \A m \in Names : /\ next[m].pub = branches[m].pub
                              /\ branches[m].pw => next[m].pw
      BY <1>1 DEF RowSets, Row, Same
    <2> HIDE DEF next
    <2>2. Complete(next)
      BY <1>2, <2>1, SameFacts DEF Complete, Same
    <2>3. PublishedSound(Done, next)
      BY <1>1, <2>1, <2>2, UnpublishedSound DEF Holds, Same
    <2>4. Holds(Done, next)
      BY <1>0, <2>1, <2>3, PlainDone DEF Plain
    <2> QED
      BY <1>0, <1>4, <2>4, StoreOutcome DEF next
  <1> QED
    BY <1>3, <1>4 DEF EnsurePassword

LEMMA AttachOutcome ==
    ASSUME IInv, IInv', OutcomeSound, SetResolved
    PROVE  OutcomeSound'
  <1>0. Here("attach") /\ StoreStep("attach", branches)
    BY DEF SetResolved
  <1>1. /\ op \in Operations /\ op.todo # << >> /\ First(op) = "attach"
        /\ Popped(op, Done) /\ Holds(op, branches) /\ PlanSound(op)
    BY <1>0, HereFacts
  <1>2. Complete(branches)
    BY <1>1 DEF Holds, PublishedSound, Complete
  <1>3. PublishedSound(Done, branches)
    BY <1>1, <1>2, UnpublishedSound DEF Holds
  <1>4. Holds(Done, branches)
    BY <1>0, <1>3, PlainDone DEF Same, Plain
  <1> QED
    BY <1>0, <1>4, StoreOutcome

LEMMA PublishOutcome ==
    ASSUME IInv, IInv', OutcomeSound, Publish
    PROVE  OutcomeSound'
  <1> DEFINE next == [branches EXCEPT ![On].pub = TRUE]
  <1>0. Here("publish") /\ StoreStep("publish", next)
    BY DEF Publish
  <1>1. /\ op \in Operations /\ op.todo # << >> /\ First(op) = "publish"
        /\ On \in Names /\ On = op.name /\ branches \in RowSets
        /\ Done \in Operations /\ Ends(op, Done)
        /\ Holds(op, branches) /\ PlanSound(op) /\ UndoSound(op) /\ RowsSound(op, branches)
    BY <1>0, HereFacts DEF Climbing
  <1>2. /\ Same(branches, next)
        /\ \A m \in Names : /\ next[m].pub => branches[m].pub \/ m = op.name
                            /\ next[m].pw = branches[m].pw
    BY <1>1 DEF RowSets, Row, Same
  <1> HIDE DEF next
  <1>3. PublishedSound(Done, next)
    BY <1>1, <1>2, LastPublished, SameFacts DEF Holds, Same
  <1>4. Holds(Done, next)
    BY <1>0, <1>2, <1>3, PlainDone DEF Plain
  <1> QED
    BY <1>0, <1>4, StoreOutcome

LEMMA UnpublishOutcome ==
    ASSUME IInv, IInv', OutcomeSound, Unpublish
    PROVE  OutcomeSound'
  <1> DEFINE next == [branches EXCEPT ![On].pub = FALSE]
  <1>0. Here("unpublish") /\ StoreStep("unpublish", next)
    BY DEF Unpublish
  <1>1. /\ op \in Operations /\ op.todo # << >> /\ First(op) = "unpublish"
        /\ On \in Names /\ On = op.name /\ branches \in RowSets
        /\ Popped(op, Done) /\ Holds(op, branches) /\ PlanSound(op)
    BY <1>0, HereFacts DEF Climbing
  <1>2. /\ Same(branches, next) /\ ~next[On].pub
        /\ \A m \in Names : /\ next[m].pub => branches[m].pub
                            /\ next[m].pw = branches[m].pw
    BY <1>1 DEF RowSets, Row, Same
  <1> HIDE DEF next
  <1>3. Complete(next)
    BY <1>1, <1>2, SameFacts DEF Holds, PublishedSound, Complete, Same
  <1>4. PublishedSound(Done, next)
    BY <1>1, <1>2, <1>3, UnpublishedSound DEF Holds, Same
  <1>5. Holds(Done, next)
    BY <1>0, <1>2, <1>4, PlainDone DEF Plain
  <1> QED
    BY <1>0, <1>5, StoreOutcome

LEMMA RefreshOutcome ==
    ASSUME IInv, IInv', OutcomeSound, Refresh
    PROVE  OutcomeSound'
  <1>0. Here("refresh") /\ \E ok \in BOOLEAN : Outcome(ok) /\ Advance("refresh", ok)
    BY DEF Refresh
  <1>a. UNCHANGED <<table, branches, legacy, up, queue, primary, timelines, drawn, hist>>
    BY DEF Refresh, external
  <1>1. /\ op \in Operations /\ op.todo # << >> /\ First(op) = "refresh"
        /\ Popped(op, Done) /\ Holds(op, branches) /\ PlanSound(op) /\ table = branches
    BY <1>0, HereFacts
  <1>2. Complete(branches)
    BY <1>1 DEF Holds, PublishedSound, Complete
  <1>3. PublishedSound(Done, branches)
    BY <1>1, <1>2, UnpublishedSound DEF Holds
  <1>4. Holds(Done, branches)
    BY <1>0, <1>3, PlainDone DEF Same, Plain
  <1>5. CASE op' = Done
    BY <1>1, <1>a, <1>4, <1>5 DEF Holds, OutcomeSound
  <1>6. CASE op' = Failed("refresh")
    <2>1. StateSound(op, branches, timelines', drawn', hist'.excused, hist'.before, primary,
                     hist'.adrift)
      BY <1>a, <1>1 DEF Holds
    <2> QED
      BY <1>0, <1>a, <1>6, <2>1, FailureOutcome
  <1> QED
    BY <1>0, <1>5, <1>6 DEF Advance

LEMMA RowOutcome ==
    ASSUME IInv, IInv', OutcomeSound, CreateRow
    PROVE  OutcomeSound'
  <1> DEFINE next == [branches EXCEPT ![On] = CreatedRow(On)]
             n == op.name
  <1>0. Here("row") /\ StoreStep("row", next)
    BY DEF CreateRow
  <1>1. /\ op \in Operations /\ op.todo # << >> /\ First(op) = "row"
        /\ On \in Names /\ On = n /\ branches \in RowSets /\ primary.name \in Names
        /\ Done \in Operations /\ Ends(op, Done) /\ Popped(op, Done) /\ drawn \in Nat
        /\ Holds(op, branches) /\ PlanSound(op) /\ ActiveIn(branches, Main) /\ Main \in Names
    BY <1>0, HereFacts DEF Climbing
  <1>2. \A m \in Names : next[m] = IF m = n THEN NewRow(op.parent, op.new, TRUE) ELSE branches[m]
    BY <1>1 DEF RowSets, CreatedRow
  <1> HIDE DEF next
  <1>3. /\ ActiveIn(next, n) /\ ~next[n].pub /\ next[n].pw = TRUE /\ next[n].tl = op.new
        /\ \A m \in Names : ActiveIn(branches, m) => ActiveIn(next, m)
    BY <1>1, <1>2 DEF NewRow, ActiveIn
  <1>4. next # NoRows
    BY <1>1, <1>3, NotBlank
  <1>5. StateSound(Done, next, timelines, drawn, hist.excused, hist.before, primary, hist.adrift)
    BY <1>1, <1>2, <1>4, RowSound DEF Holds
  <1>6. PublishedSound(Done, next)
    <2>1. Complete(next)
      BY <1>1, <1>2, <1>3 DEF Holds, PublishedSound, Complete
    <2>2. op.kind = "restore" => op.new # 0
      <3>1. op.kind = "restore" => op.new \in timelines
        BY <1>1 DEF Holds, StateSound, NewSound
      <3>2. timelines \subseteq 1..drawn
        BY <1>1 DEF Holds, StateSound, RowTls
      <3> QED
        BY <3>1, <3>2
    <2> QED
      BY <1>1, <1>3, <2>1, <2>2, RowPublished DEF Holds
  <1>7. StartSound(Done, next, queue, primary, hist.adrift)
    <2>1. Done.kind = op.kind
      BY <1>1 DEF Ends, Popped
    <2> QED
      BY <1>1, <1>3, <2>1, StartKept DEF Holds
  <1>8. Holds(Done, next)
    BY <1>5, <1>6, <1>7 DEF Holds
  <1> QED
    BY <1>0, <1>8, StoreOutcome

\* Those that attach a branch.
Attaching(n, x) == [branches EXCEPT ![n].tl = x]

LEMMA AttachedFacts ==
    ASSUME branches \in RowSets, NEW n \in Names, NEW x, x # 0, Complete(branches)
    PROVE  /\ SetTl(branches, Attaching(n, x), n, x) /\ Complete(Attaching(n, x))
           /\ \A m \in Names :
                 /\ ActiveIn(Attaching(n, x), m) <=> ActiveIn(branches, m)
                 /\ Attaching(n, x)[m].pub = branches[m].pub
                 /\ Attaching(n, x)[m].pw = branches[m].pw
                 /\ branches[m].tl # 0 => Attaching(n, x)[m].tl # 0
  <1> DEFINE next == Attaching(n, x)
  <1>1. /\ SetTl(branches, next, n, x)
        /\ \A m \in Names : /\ next[m].pub = branches[m].pub /\ next[m].pw = branches[m].pw
    BY DEF SetTl, RowSets, Row, Attaching
  <1> HIDE DEF next
  <1>2. \A m \in Names : ActiveIn(next, m) <=> ActiveIn(branches, m)
    BY <1>1 DEF SetTl, ActiveIn
  <1>3. \A m \in Names : branches[m].tl # 0 => next[m].tl # 0
    BY <1>1 DEF SetTl
  <1>4. Complete(next)
    BY <1>1, <1>2, <1>3 DEF Complete
  <1> QED
    BY <1>1, <1>2, <1>3, <1>4 DEF next

LEMMA AttachingDone ==
    ASSUME IInv, OutcomeSound, NEW do \in {"bind", "adopt", "replace", "restore"}, Here(do),
           NEW x, x # 0, NEW next, next = Attaching(On, x),
           next # NoRows =>
               StateSound(Done, next, timelines, drawn, hist.excused, hist.before, primary,
                          hist.adrift)
    PROVE  Holds(Done, next)
  <1>1. /\ op \in Operations /\ op.todo # << >> /\ First(op) = do
        /\ On \in Names /\ op.name \in Names /\ branches \in RowSets /\ primary.name \in Names
        /\ Popped(op, Done) /\ Holds(op, branches) /\ PlanSound(op)
        /\ ActiveIn(branches, Main) /\ Main \in Names
    BY HereFacts
  <1>2. Complete(branches)
    BY <1>1 DEF Holds, PublishedSound, Complete
  <1>3. /\ Complete(next)
        /\ \A m \in Names : /\ ActiveIn(next, m) <=> ActiveIn(branches, m)
                            /\ next[m].pub = branches[m].pub /\ next[m].pw = branches[m].pw
                            /\ branches[m].tl # 0 => next[m].tl # 0
    BY <1>1, <1>2, AttachedFacts
  <1>4. PublishedSound(Done, next)
    BY <1>1, <1>3, UnpublishedSound DEF Holds
  <1>5. StartSound(Done, next, queue, primary, hist.adrift)
    <2>1. Done.kind = op.kind
      BY <1>1 DEF Popped
    <2> QED
      BY <1>1, <1>3, <2>1, StartKept DEF Holds
  <1>6. next # NoRows
    BY <1>1, <1>3, NotBlank
  <1> QED
    BY <1>4, <1>5, <1>6 DEF Holds

LEMMA BindOutcome ==
    ASSUME IInv, IInv', OutcomeSound, Bind \/ Adopt
    PROVE  OutcomeSound'
  <1> DEFINE next == Attaching(On, op.made)
  <1>0. PICK do \in {"bind", "adopt"} : Here(do) /\ StoreStep(do, next)
    BY DEF Bind, Adopt, Attaching
  <1>1. /\ op \in Operations /\ op.todo # << >> /\ First(op) = do /\ On = op.todo[1].on
        /\ On \in Names /\ branches \in RowSets /\ primary.name \in Names /\ drawn \in Nat
        /\ Done \in Operations /\ Ends(op, Done) /\ Holds(op, branches)
    BY <1>0, HereFacts
  <1>2. op.made # 0
    <2>1. op.made \in timelines /\ timelines \subseteq 1..drawn
      BY <1>1 DEF Holds, StateSound, MadeSound, RowTls
    <2>2. op.made \in 1..drawn
      BY <2>1
    <2> QED
      BY <1>1, <2>2
  <1>3. SetTl(branches, next, On, op.made)
    <2>1. Complete(branches)
      BY <1>1 DEF Holds, PublishedSound, Complete
    <2> QED
      BY <1>1, <1>2, <2>1, AttachedFacts
  <1> HIDE DEF next
  <1>4. next # NoRows =>
            StateSound(Done, next, timelines, drawn, hist.excused, hist.before, primary, hist.adrift)
    BY <1>0, <1>1, <1>3, BindSound DEF Holds
  <1>5. Holds(Done, next)
    BY <1>0, <1>2, <1>4, AttachingDone DEF next
  <1> QED
    BY <1>0, <1>5, StoreOutcome

LEMMA ReplaceOutcome ==
    ASSUME IInv, IInv', OutcomeSound, ReplaceTimeline
    PROVE  OutcomeSound'
  <1> DEFINE next == Attaching(On, op.new)
  <1>0. Here("replace") /\ StoreStep("replace", next)
    BY DEF ReplaceTimeline, Attaching
  <1>1. /\ op \in Operations /\ op.todo # << >> /\ First(op) = "replace" /\ On = op.name
        /\ On \in Names /\ branches \in RowSets /\ primary.name \in Names /\ drawn \in Nat
        /\ Done \in Operations /\ Ends(op, Done) /\ Holds(op, branches) /\ PlanSound(op)
    BY <1>0, HereFacts DEF Climbing
  <1>2. op.new # 0
    <2>0. op.kind = "reset"
      BY <1>1, KindOf
    <2>1. op.new \in timelines /\ timelines \subseteq 1..drawn
      BY <1>1, <2>0 DEF Holds, StateSound, NewSound, RowTls
    <2>2. op.new \in 1..drawn
      BY <2>1
    <2> QED
      BY <1>1, <2>2
  <1>3. SetTl(branches, next, op.name, op.new)
    <2>1. Complete(branches)
      BY <1>1 DEF Holds, PublishedSound, Complete
    <2> QED
      BY <1>1, <1>2, <2>1, AttachedFacts
  <1> HIDE DEF next
  <1>4. next # NoRows =>
            StateSound(Done, next, timelines, drawn, hist.excused, hist.before, primary, hist.adrift)
    BY <1>1, <1>3, ReplaceSound DEF Holds
  <1>5. Holds(Done, next)
    BY <1>0, <1>2, <1>4, AttachingDone DEF next
  <1> QED
    BY <1>0, <1>5, StoreOutcome

LEMMA RestoreOutcome ==
    ASSUME IInv, IInv', OutcomeSound, RestoreTimeline
    PROVE  OutcomeSound'
  <1> DEFINE next == Attaching(On, op.prev)
  <1>0. Here("restore")
    BY DEF RestoreTimeline
  <1>1. /\ op \in Operations /\ op.todo # << >> /\ First(op) = "restore" /\ On = op.name
        /\ On \in Names /\ branches \in RowSets /\ primary.name \in Names /\ drawn \in Nat
        /\ Done \in Operations /\ Ends(op, Done) /\ Holds(op, branches) /\ PlanSound(op)
    BY <1>0, HereFacts DEF Climbing
  <1>2. CASE op.prev = 0 /\ Skip("restore", FALSE)
    BY <1>0, <1>2, SkipOutcome
  <1>3. CASE op.prev # 0 /\ StoreStep("restore", next)
    <2>1. SetTl(branches, next, op.name, op.prev)
      <3>1. Complete(branches)
        BY <1>1 DEF Holds, PublishedSound, Complete
      <3> QED
        BY <1>1, <1>3, <3>1, AttachedFacts
    <2> HIDE DEF next
    <2>2. next # NoRows =>
            StateSound(Done, next, timelines, drawn, hist.excused, hist.before, primary, hist.adrift)
      BY <1>1, <1>3, <2>1, RestoreSound DEF Holds
    <2>3. Holds(Done, next)
      BY <1>0, <1>3, <2>2, AttachingDone DEF next
    <2> QED
      BY <1>0, <1>3, <2>3, StoreOutcome
  <1> QED
    BY <1>2, <1>3 DEF RestoreTimeline, Attaching

LEMMA DeleteOutcome ==
    ASSUME IInv, IInv', OutcomeSound, SoftDelete
    PROVE  OutcomeSound'
  <1> DEFINE next == SoftDeleted(On)
             n == op.name
             r == branches
  <1>0. Here("delete")
    BY DEF SoftDelete
  <1>1. /\ op \in Operations /\ op.todo # << >> /\ First(op) = "delete" /\ On = n
        /\ On \in Names /\ branches \in RowSets /\ primary.name \in Names /\ drawn \in Nat
        /\ Done \in Operations /\ Ends(op, Done) /\ Popped(op, Done)
        /\ Holds(op, r) /\ PlanSound(op) /\ UndoSound(op)
        /\ ActiveIn(r, Main) /\ Main \in Names
    BY <1>0, HereFacts DEF Climbing
  <1>2. CASE On = Main /\ Skip("delete", FALSE)
    BY <1>0, <1>2, SkipOutcome
  <1>3. CASE On # Main /\ StoreStep("delete", next)
    <2>1. \A m \in Names : next[m].tl = r[m].tl /\ next[m].parent = r[m].parent
                           /\ next[m].pub = r[m].pub /\ next[m].pw = r[m].pw
                           /\ next[m].state = IF m = n THEN "deleted" ELSE r[m].state
      BY <1>1 DEF RowSets, Row, SoftDeleted
    <2> HIDE DEF next
    <2>2. \A m \in Names : ActiveIn(next, m) <=> ActiveIn(r, m) /\ m # n
      BY <2>1 DEF ActiveIn
    <2>3. next # NoRows
      BY <1>1, <1>3, <2>2, NotBlank
    <2>4. StateSound(Done, next, timelines, drawn, hist.excused, hist.before, primary, hist.adrift)
      BY <1>1, <1>3, <2>1, <2>2, <2>3, DeleteSound DEF Holds
    <2>5. PublishedSound(Done, next)
      <3>1. "delete" \in Left(op) /\ (IF op.failed THEN New(op) ELSE op.kind = "delete")
        BY <1>1, FirstStep, KindOf
      <3>2. ~op.failed => Left(op) = {"delete"}
        BY <1>1, Goes
      <3>3. ~r[n].pub
        BY <1>1, <3>1, <3>2 DEF Holds, PublishedSound, New
      <3>4. Complete(next)
        BY <1>1, <2>1, <2>2, <3>3 DEF Holds, PublishedSound, Complete
      <3> QED
        BY <1>1, <2>1, <3>3, <3>4, UnpublishedSound DEF Holds
    <2>6. StartSound(Done, next, queue, primary, hist.adrift)
      <3>1. Done.kind = op.kind /\ op.kind \in {"create", "restore", "delete"}
        BY <1>1, KindOf DEF Popped, New
      <3>2. New(op) => n # primary.name \/ hist.adrift
        BY <1>1 DEF Holds, StateSound, PrimarySound
      <3> QED
        BY <1>1, <2>2, <3>1, <3>2 DEF Holds, StartSound, New
    <2>7. Holds(Done, next)
      BY <2>4, <2>5, <2>6 DEF Holds
    <2> QED
      BY <1>0, <1>3, <2>7, StoreOutcome
  <1> QED
    BY <1>2, <1>3 DEF SoftDelete

\* Those that call the pageserver.
LEMMA CreationOutcome ==
    ASSUME IInv, IInv', OutcomeSound, NEW do, Here(do), NEW next, CreateTimeline(do, next),
           /\ StateSound(next, branches, timelines \cup {drawn + 1}, drawn + 1, hist.excused,
                         hist.before, primary, hist.adrift)
           /\ PublishedSound(next, branches)
           /\ StartSound(next, branches, queue, primary, hist.adrift)
    PROVE  OutcomeSound'
  <1>1. /\ drawn' = drawn + 1
        /\ UNCHANGED <<table, branches, legacy, up, queue, primary, ops>>
    BY DEF CreateTimeline, Draw
  <1>2. PICK ok \in BOOLEAN, effect \in BOOLEAN :
            /\ ok => effect
            /\ timelines' = IF effect THEN timelines \cup {drawn'} ELSE timelines
            /\ hist' = IF ok THEN hist ELSE [hist EXCEPT !.excused = @ \cup {drawn'}]
            /\ op' = IF ok THEN next ELSE Failed(do)
    BY DEF CreateTimeline
  <1>3. op \in Operations /\ branches \in RowSets /\ drawn \in Nat /\ Holds(op, branches) /\ table = branches
    BY HereFacts
  <1>4. CASE ok
    <2>1. op' = next /\ hist' = hist /\ timelines' = timelines \cup {drawn + 1}
      BY <1>1, <1>2, <1>4
    <2> QED
      BY <1>1, <1>3, <2>1 DEF OutcomeSound
  <1>5. CASE ~ok
    <2>1. /\ op' = Failed(do) /\ timelines' \in {timelines, timelines \cup {drawn + 1}}
          /\ hist'.excused = hist.excused \cup {drawn + 1}
          /\ hist'.before = hist.before /\ hist'.adrift = hist.adrift
      BY <1>1, <1>2, <1>5 DEF IInv, TypeOK
    <2>2. StateSound(op, branches, timelines', drawn + 1, hist.excused \cup {drawn + 1},
                     hist.before, primary, hist.adrift)
      <3>1. CASE timelines' = timelines
        BY <1>3, <3>1, DrawnSound DEF Holds
      <3>2. CASE timelines' = timelines \cup {drawn + 1}
        BY <1>3, <3>2, DrawnSound DEF Holds
      <3> QED
        BY <2>1, <3>1, <3>2
    <2>3. StateSound(op, branches, timelines', drawn', hist'.excused, hist'.before, primary,
                     hist'.adrift)
      BY <1>1, <2>1, <2>2
    <2> QED
      BY <1>1, <2>1, <2>3, FailureOutcome
  <1> QED
    BY <1>4, <1>5

LEMMA DeletionOutcome ==
    ASSUME IInv, IInv', OutcomeSound, NEW do, Here(do), NEW x, DeleteTimeline(do, x),
           \/ do = "discard" /\ x = op.made
           \/ do = "cleanup" /\ x = op.new /\ ~op.comp /\ op.new # 0
    PROVE  OutcomeSound'
  <1>1. UNCHANGED <<table, branches, legacy, up, queue, primary, drawn, ops>>
    BY DEF DeleteTimeline
  <1>2. PICK ok \in BOOLEAN, effect \in BOOLEAN :
            /\ ok => effect
            /\ timelines' = IF effect THEN timelines \ {x} ELSE timelines
            /\ hist' = IF ok THEN hist ELSE [hist EXCEPT !.excused = @ \cup {x}]
            /\ Advance(do, ok)
    BY DEF DeleteTimeline
  <1>3. /\ op \in Operations /\ op.todo # << >> /\ First(op) = do /\ primary.name \in Names
        /\ Done \in Operations /\ Ends(op, Done) /\ Popped(op, Done)
        /\ branches \in RowSets /\ Holds(op, branches) /\ PlanSound(op) /\ table = branches
    BY HereFacts
  <1>4. CASE ok
    <2>1. op' = Done /\ hist' = hist /\ timelines' = timelines \ {x}
      BY <1>2, <1>4 DEF Advance
    <2>2. StateSound(Done, branches, timelines', drawn, hist.excused, hist.before, primary,
                     hist.adrift)
      <3>1. CASE do = "discard"
        <4>1. timelines' = timelines \ {op.made}
          BY <2>1, <3>1
        <4> QED
          BY <1>3, <3>1, <4>1, DiscardSound DEF Holds
      <3>2. CASE do = "cleanup"
        <4>1. timelines' = IF op.new = 0 \/ op.comp THEN timelines ELSE timelines \ {op.new}
          BY <2>1, <3>2
        <4> QED
          BY <1>3, <3>2, <4>1, CleanupSound DEF Holds
      <3> QED
        BY <3>1, <3>2
    <2>3. PublishedSound(Done, branches)
      <3>1. Complete(branches)
        BY <1>3 DEF Holds, PublishedSound, Complete
      <3> QED
        BY <1>3, <3>1, UnpublishedSound DEF Holds
    <2>4. StartSound(Done, branches, queue, primary, hist.adrift)
      <3>1. Done.kind = op.kind
        BY <1>3 DEF Popped
      <3> QED
        BY <1>3, <3>1, StartKept DEF Holds
    <2> QED
      BY <1>1, <1>3, <2>1, <2>2, <2>3, <2>4 DEF OutcomeSound
  <1>5. CASE ~ok
    <2>1. /\ op' = Failed(do) /\ (timelines' = timelines \/ timelines' = timelines \ {x})
          /\ hist'.excused = hist.excused \cup {x}
          /\ hist'.before = hist.before /\ hist'.adrift = hist.adrift
      BY <1>2, <1>5 DEF IInv, TypeOK, Advance
    <2>2. StateSound(op, branches, timelines', drawn, hist.excused, hist.before, primary,
                     hist.adrift)
      <3>1. CASE timelines' = timelines
        BY <1>3, <3>1 DEF Holds
      <3>2. CASE timelines' = timelines \ {x}
        BY <1>3, <3>2, DroppedSound DEF Holds
      <3> QED
        BY <2>1, <3>1, <3>2
    <2>3. StateSound(op, branches, timelines', drawn', hist'.excused, hist'.before, primary,
                     hist'.adrift)
      <3>1. hist.excused \subseteq hist'.excused
        BY <2>1
      <3> QED
        BY <1>1, <2>1, <2>2, <3>1, ExcusedSound
    <2> QED
      BY <1>1, <2>1, <2>3, FailureOutcome
  <1> QED
    BY <1>4, <1>5

LEMMA CleanupOutcome ==
    ASSUME IInv, IInv', OutcomeSound, Discard \/ Cleanup
    PROVE  OutcomeSound'
  <1>1. CASE Discard
    BY <1>1, DeletionOutcome DEF Discard
  <1>2. CASE Cleanup /\ ~(op.new = 0 \/ op.comp)
    BY <1>2, DeletionOutcome DEF Cleanup
  <1>3. CASE Cleanup /\ (op.new = 0 \/ op.comp)
    <2>0. Here("cleanup") /\ Skip("cleanup", TRUE)
      BY <1>3 DEF Cleanup
    <2>1. /\ op \in Operations /\ op.todo # << >> /\ First(op) = "cleanup"
          /\ primary.name \in Names
          /\ Done \in Operations /\ Ends(op, Done) /\ Popped(op, Done)
          /\ Holds(op, branches) /\ PlanSound(op)
      BY <2>0, HereFacts
    <2>2. StateSound(Done, branches, timelines, drawn, hist.excused, hist.before, primary,
                     hist.adrift)
      BY <1>3, <2>1, CleanupSound DEF Holds
    <2>3. PublishedSound(Done, branches)
      <3>1. Complete(branches)
        BY <2>1 DEF Holds, PublishedSound, Complete
      <3> QED
        BY <2>1, <3>1, UnpublishedSound DEF Holds
    <2>4. StartSound(Done, branches, queue, primary, hist.adrift)
      <3>1. Done.kind = op.kind
        BY <2>1 DEF Popped
      <3> QED
        BY <2>1, <3>1, StartKept DEF Holds
    <2>5. Holds(Done, branches)
      BY <2>2, <2>3, <2>4 DEF Holds
    <2> QED
      BY <2>0, <2>5, SkipOutcome
  <1> QED
    BY <1>1, <1>2, <1>3

LEMMA TimelineOutcome ==
    ASSUME IInv, IInv', OutcomeSound, BranchTimeline
    PROVE  OutcomeSound'
  <1> DEFINE next == [Done EXCEPT !.new = drawn']
  <1>0. Here("timeline") /\ CreateTimeline("timeline", next)
    BY DEF BranchTimeline
  <1>1. /\ op \in Operations /\ op.todo # << >> /\ First(op) = "timeline"
        /\ branches \in RowSets /\ primary.name \in Names /\ drawn \in Nat
        /\ Done \in Operations /\ Ends(op, Done) /\ Popped(op, Done)
        /\ Holds(op, branches) /\ PlanSound(op)
    BY <1>0, HereFacts
  <1>2. drawn' = drawn + 1 /\ drawn' \in Tls
    BY <1>0 DEF CreateTimeline, Draw, IInv, TypeOK
  <1>3. next \in Operations /\ Popped(op, next) /\ next.prev = op.prev /\ next.made = op.made
        /\ next.new = drawn + 1 /\ next.comp = op.comp /\ next.kind = op.kind
    <2>1. next \in Operations /\ next.new = drawn + 1
      BY <1>1, <1>2 DEF Operations
    <2>2. /\ next.todo = Done.todo /\ next.kind = Done.kind /\ next.name = Done.name
          /\ next.parent = Done.parent /\ next.failed = Done.failed
          /\ next.prev = Done.prev /\ next.made = Done.made /\ next.comp = Done.comp
      BY <1>1 DEF Operations
    <2> HIDE DEF next
    <2> QED
      BY <1>1, <2>1, <2>2 DEF Ends, Popped
  <1> HIDE DEF next
  <1>4. StateSound(next, branches, timelines \cup {drawn + 1}, drawn + 1, hist.excused,
                   hist.before, primary, hist.adrift)
    BY <1>1, <1>3, TimelineSound DEF Holds
  <1>5. PublishedSound(next, branches)
    <2>1. Complete(branches)
      BY <1>1 DEF Holds, PublishedSound, Complete
    <2> QED
      BY <1>1, <1>3, <2>1, UnpublishedSound DEF Holds
  <1>6. StartSound(next, branches, queue, primary, hist.adrift)
    BY <1>1, <1>3, StartKept DEF Holds
  <1> QED
    BY <1>0, <1>4, <1>5, <1>6, CreationOutcome

LEMMA SwitchOutcome ==
    ASSUME IInv, IInv', OutcomeSound, Switch
    PROVE  OutcomeSound'
  <1>0. Here("switch") /\ UNCHANGED <<table, branches, legacy, up, queue, timelines, drawn, ops>>
    BY DEF Switch
  <1>1. PICK ok \in BOOLEAN, effect \in BOOLEAN :
            /\ ok => effect
            /\ primary' = IF effect THEN [name |-> On, tl |-> branches[On].tl] ELSE primary
            /\ hist' = IF ok /\ ~op.failed THEN [hist EXCEPT !.adrift = FALSE] ELSE hist
            /\ Advance("switch", ok)
    BY DEF Switch
  <1>2. /\ up /\ op \in Operations /\ op.todo # << >> /\ First(op) = "switch" /\ On = op.name
        /\ Done \in Operations /\ Ends(op, Done) /\ Popped(op, Done) /\ table = branches
        /\ Holds(op, branches) /\ PlanSound(op) /\ RowsSound(op, branches)
    BY <1>0, HereFacts DEF Climbing
  <1>3. CASE ok
    <2>1. /\ op' = Done /\ primary'.name = op.name /\ primary'.tl = branches[op.name].tl
          /\ hist'.excused = hist.excused /\ hist'.before = hist.before
      BY <1>1, <1>2, <1>3 DEF Advance, IInv, TypeOK
    <2>2. StateSound(Done, branches, timelines, drawn, hist.excused, hist.before, primary',
                     hist'.adrift)
      BY <1>2, <2>1, SwitchSound DEF Holds
    <2>3. PublishedSound(Done, branches)
      <3>1. Complete(branches)
        BY <1>2 DEF Holds, PublishedSound, Complete
      <3> QED
        BY <1>2, <3>1, UnpublishedSound DEF Holds
    <2>4. StartSound(Done, branches, queue, primary', hist'.adrift)
      <3>1. op.kind \in {"reset", "select"} /\ Done.kind = op.kind
        BY <1>2, KindOf DEF Popped
      <3>2. ActiveIn(branches, primary'.name)
        BY <1>2, <2>1, <3>1 DEF RowsSound
      <3> QED
        BY <1>2, <3>1, <3>2 DEF Holds, StartSound
    <2> QED
      BY <1>0, <1>2, <2>1, <2>2, <2>3, <2>4 DEF OutcomeSound
  <1>4. CASE ~ok
    <2>1. /\ op' = Failed("switch") /\ hist' = hist
          /\ primary' = primary \/ primary' = [name |-> On, tl |-> branches[On].tl]
      BY <1>1, <1>4 DEF Advance
    <2>2. StateSound(op, branches, timelines', drawn', hist'.excused, hist'.before, primary,
                     hist'.adrift)
      BY <1>0, <1>2, <2>1 DEF Holds
    <2> QED
      BY <1>0, <2>1, <2>2, FailureOutcome
  <1> QED
    BY <1>3, <1>4

\* The resolutions under way.
LEMMA ClimbIs ==
    ASSUME op \in Operations
    PROVE  /\ Climb = {j \in Places(op) : AllResolve(op, 1, j)}
           /\ Visiting = Visits(op)
  <1>1. Climb = {j \in Places(op) : AllResolve(op, 1, j)}
    BY TodoFacts DEF Climb, AllResolve
  <1> QED
    BY <1>1 DEF Visiting, Visits

\* A step that is put before the others.
Prefixed(do, n, x) == [Prepend(do, n) EXCEPT !.made = x]

LEMMA Prepended ==
    ASSUME op \in Operations, NEW do \in Deeds \ {"row"}, NEW n \in Names, NEW x \in Tls
    PROVE  /\ Prefixed(do, n, x) \in Operations /\ Step(do, n) \in Steps
           /\ Pushed(op, Prefixed(do, n, x), Step(do, n))
           /\ Prefixed(do, n, x).prev = op.prev /\ Prefixed(do, n, x).new = op.new
           /\ Prefixed(do, n, x).comp = op.comp /\ Prefixed(do, n, x).made = x
           /\ Prefixed(do, n, x).kind = op.kind
  <1>1. Prefixed(do, n, x) \in Operations
    BY PrependTyped DEF Prefixed
  <1>2. Step(do, n) \in Steps
    BY StepTyped
  <1>3. /\ Pushed(op, Prefixed(do, n, x), Step(do, n))
        /\ Prefixed(do, n, x).prev = op.prev /\ Prefixed(do, n, x).new = op.new
        /\ Prefixed(do, n, x).comp = op.comp /\ Prefixed(do, n, x).made = x
        /\ Prefixed(do, n, x).kind = op.kind
    BY DEF Operations, Prepend, Prefixed, Pushed
  <1> QED
    BY <1>1, <1>2, <1>3

LEMMA ResolveOutcome ==
    ASSUME IInv, IInv', OutcomeSound, Resolve
    PROVE  OutcomeSound'
  <1> DEFINE n == On
             par == branches[On].parent
  <1>0. Here("resolve")
    BY DEF Resolve
  <1>1. /\ op \in Operations /\ op.todo # << >> /\ First(op) = "resolve" /\ n = op.todo[1].on
        /\ n \in Names /\ branches \in RowSets /\ primary.name \in Names /\ drawn \in Nat
        /\ Popped(op, Done) /\ Main \in Names
        /\ Holds(op, branches) /\ PlanSound(op) /\ table = branches
    BY <1>0, HereFacts
  <1>a. Active(n) <=> ActiveIn(branches, n)
    BY DEF Active
  <1>b. par \in Names
    BY <1>1 DEF RowSets, Row
  <1>2. CASE ~Active(On)
    <2>1. Skip("resolve", FALSE)
      BY <1>2 DEF Resolve
    <2> QED
      BY <1>0, <2>1, SkipOutcome
  <1>3. CASE Active(On) /\ branches[On].tl # 0
    <2>1. Skip("resolve", TRUE)
      BY <1>3 DEF Resolve
    <2>2. Complete(branches)
      BY <1>1 DEF Holds, PublishedSound, Complete
    <2>3. PublishedSound(Done, branches)
      BY <1>1, <1>3, <2>2, UnpublishedSound DEF Holds
    <2>4. Holds(Done, branches)
      BY <1>0, <1>3, <2>3, PlainDone DEF Same, Plain
    <2> QED
      BY <1>0, <2>1, <2>4, SkipOutcome
  \* What is left when a step is put before the resolution.
  <1>4. ASSUME Active(On), branches[On].tl = 0, NEW q \in Operations, NEW s \in Steps,
               Pushed(op, q, s), q.prev = op.prev, q.new = op.new, q.comp = op.comp,
               q.kind = op.kind, n = Main \/ par \notin Visiting, NEW u, NEW e,
               \/ /\ s = Step("bind", n) /\ q.made = drawn + 1
                  /\ u = timelines \cup {drawn + 1} /\ e = drawn + 1
                  /\ n # Main => branches[Main].tl # 0
               \/ /\ s = Step("adopt", n) /\ n = Main /\ q.made \in timelines
                  /\ u = timelines /\ e = drawn
               \/ /\ s = Step("resolve", par) /\ n # Main /\ q.made = op.made
                  /\ u = timelines /\ e = drawn
        PROVE  /\ StateSound(q, branches, u, e, hist.excused, hist.before, primary, hist.adrift)
               /\ PublishedSound(q, branches)
               /\ StartSound(q, branches, queue, primary, hist.adrift)
    <2>1. ActiveIn(branches, n) /\ branches[n].tl = 0 /\ (n = Main \/ branches[n].parent \notin Visits(op))
      BY <1>1, <1>4, <1>a, ClimbIs
    <2>2. s.do \in Climbing
      BY <1>4 DEF Step, Climbing
    <2>3. StateSound(q, branches, u, e, hist.excused, hist.before, primary, hist.adrift)
      <3>1. StateSound(op, branches, timelines, drawn, hist.excused, hist.before, primary, hist.adrift)
        BY <1>1 DEF Holds
      <3>2. \/ /\ s = Step("bind", n) /\ q.made = drawn + 1
               /\ u = timelines \cup {drawn + 1} /\ e = drawn + 1
               /\ n # Main => branches[Main].tl # 0
            \/ /\ s = Step("adopt", n) /\ n = Main /\ q.made \in timelines
               /\ u = timelines /\ e = drawn
            \/ /\ s = Step("resolve", branches[n].parent) /\ n # Main /\ q.made = op.made
               /\ u = timelines /\ e = drawn
        BY <1>4
      <3> HIDE DEF n
      <3> QED
        BY <1>1, <1>4, <2>1, <3>1, <3>2, PushSound
    <2>4. PublishedSound(q, branches)
      BY <1>1, <1>4, <2>2, PushPublished DEF Holds
    <2>5. StartSound(q, branches, queue, primary, hist.adrift)
      BY <1>1, <1>4, StartKept DEF Holds
    <2> QED
      BY <2>3, <2>4, <2>5
  \* A timeline is created for the branch.
  <1>5. ASSUME Active(On), branches[On].tl = 0, n = Main \/ par \notin Visiting,
               n # Main => branches[Main].tl # 0,
               CreateTimeline("resolve", [Prepend("bind", On) EXCEPT !.made = drawn'])
        PROVE  OutcomeSound'
    <2> DEFINE q == Prefixed("bind", n, drawn')
               s == Step("bind", n)
    <2>1. drawn' = drawn + 1 /\ drawn' \in Tls
      BY <1>5 DEF CreateTimeline, Draw, IInv, TypeOK
    <2>2. /\ q \in Operations /\ Pushed(op, q, s) /\ s \in Steps
          /\ q.prev = op.prev /\ q.new = op.new /\ q.comp = op.comp /\ q.made = drawn + 1
          /\ q.kind = op.kind
      BY <1>1, <2>1, Prepended DEF Deeds
    <2> HIDE DEF q, s
    <2>3. /\ StateSound(q, branches, timelines \cup {drawn + 1}, drawn + 1, hist.excused,
                        hist.before, primary, hist.adrift)
          /\ PublishedSound(q, branches)
          /\ StartSound(q, branches, queue, primary, hist.adrift)
      <3>1. s = Step("bind", n)
        BY DEF s
      <3> HIDE DEF n, par
      <3> QED
        BY <1>4, <1>5, <2>2, <3>1 DEF n, par
    <2> QED
      BY <1>0, <1>5, <2>3, CreationOutcome DEF q, Prefixed
  \* Nothing but the plan changes.
  <1>6. ASSUME Active(On), branches[On].tl = 0, n = Main \/ par \notin Visiting,
               NEW do \in {"adopt", "resolve"}, NEW m \in Names, NEW x \in Tls,
               op' = [Prepend(do, m) EXCEPT !.made = x],
               UNCHANGED <<table, branches, legacy, up, queue, external, ops, faults, hist>>,
               \/ do = "adopt" /\ m = n /\ n = Main /\ x \in timelines
               \/ do = "resolve" /\ m = par /\ n # Main /\ x = op.made
        PROVE  OutcomeSound'
    <2> DEFINE q == Prefixed(do, m, x)
               s == Step(do, m)
    <2>2. /\ q \in Operations /\ Pushed(op, q, s) /\ s \in Steps
          /\ q.prev = op.prev /\ q.new = op.new /\ q.comp = op.comp /\ q.made = x
          /\ q.kind = op.kind
      BY <1>1, <1>6, Prepended DEF Deeds
    <2>1. op' = q
      BY <1>6 DEF Prefixed
    <2> HIDE DEF q, s
    <2>3. /\ StateSound(q, branches, timelines, drawn, hist.excused, hist.before, primary,
                        hist.adrift)
          /\ PublishedSound(q, branches)
          /\ StartSound(q, branches, queue, primary, hist.adrift)
      <3>1. CASE do = "adopt"
        <4>1. s = Step("adopt", n) /\ n = Main /\ q.made \in timelines
          BY <1>6, <2>2, <3>1 DEF s
        <4> HIDE DEF n, par
        <4> QED
          BY <1>4, <1>6, <2>2, <4>1 DEF n, par
      <3>2. CASE do = "resolve"
        <4>1. s = Step("resolve", par) /\ n # Main /\ q.made = op.made
          BY <1>6, <2>2, <3>2 DEF s
        <4> HIDE DEF n, par
        <4> QED
          BY <1>4, <1>6, <2>2, <4>1 DEF n, par
      <3> QED
        BY <1>6, <3>1, <3>2
    <2> QED
      BY <1>1, <1>6, <2>1, <2>3 DEF OutcomeSound, external
  <1>7. CASE Active(On) /\ branches[On].tl = 0 /\ On = Main
    <2>1. ResolveMain
      BY <1>7 DEF Resolve
    <2>2. CASE CreateTimeline("resolve", [Prepend("bind", On) EXCEPT !.made = drawn'])
      BY <1>5, <1>7, <2>2
    <2>3. ASSUME NEW tl \in timelines, op' = [Prepend("adopt", On) EXCEPT !.made = tl],
                 UNCHANGED <<table, branches, legacy, up, queue, external, ops, faults, hist>>
          PROVE  OutcomeSound'
      <3>1. tl \in Tls
        BY <1>0, HereFacts
      <3> QED
        BY <1>1, <1>6, <1>7, <2>3, <3>1
    <2>4. CASE /\ Fault /\ Advance("resolve", FALSE)
               /\ UNCHANGED <<table, branches, legacy, up, queue, external, ops, hist>>
      <3>1. /\ op' = Failed("resolve")
            /\ UNCHANGED <<table, branches, legacy, up, queue, primary, timelines, drawn, hist>>
        BY <2>4 DEF Advance, external
      <3>2. StateSound(op, branches, timelines', drawn', hist'.excused, hist'.before, primary,
                       hist'.adrift)
        BY <1>1, <3>1 DEF Holds
      <3> QED
        BY <1>0, <3>1, <3>2, FailureOutcome
    <2> QED
      BY <2>1, <2>2, <2>3, <2>4 DEF ResolveMain
  <1>8. CASE Active(On) /\ branches[On].tl = 0 /\ On # Main
    <2>1. CASE par \in Visiting
      <3>1. Skip("resolve", FALSE)
        BY <1>8, <2>1 DEF Resolve
      <3> QED
        BY <1>0, <3>1, SkipOutcome
    <2>2. CASE par \notin Visiting /\ Active(par) /\ branches[par].tl # 0
      <3>1. CreateTimeline("resolve", [Prepend("bind", On) EXCEPT !.made = drawn'])
        BY <1>8, <2>2 DEF Resolve, ResolveChild
      <3>2. branches[Main].tl # 0
        BY <1>1, <1>b, <2>2, SMTT(30) DEF Holds, StateSound, RowTls
      <3> QED
        BY <1>5, <1>8, <2>2, <3>1, <3>2
    <2>3. CASE par \notin Visiting /\ ~(Active(par) /\ branches[par].tl # 0)
      <3>1. /\ op' = Prepend("resolve", par)
            /\ UNCHANGED <<table, branches, legacy, up, queue, external, ops, faults, hist>>
        BY <1>8, <2>3 DEF Resolve
      <3>2. op' = [Prepend("resolve", par) EXCEPT !.made = op.made] /\ op.made \in Tls
        BY <1>1, <3>1 DEF Prepend, Operations
      <3> QED
        BY <1>1, <1>6, <1>8, <1>b, <2>3, <3>1, <3>2
    <2> QED
      BY <2>1, <2>2, <2>3
  <1> QED
    BY <1>2, <1>3, <1>7, <1>8

-----------------------------------------------------------------------------
(* How operations begin and end, and the controller with them *)

LEMMA FinishOutcome ==
    ASSUME IInv, IInv', OutcomeSound, Finish
    PROVE  OutcomeSound'
  <1>1. /\ up /\ op \in Operations /\ op.todo = << >> /\ op' = NoOp
        /\ UNCHANGED <<table, branches, legacy, up, queue, primary, timelines, drawn>>
    BY DEF Finish, IInv, TypeOK, Operations, external
  <1>2. /\ hist'.before = IF op.failed /\ ~op.comp THEN hist.before ELSE branches
        /\ hist'.excused = IF op.comp THEN hist.excused \cup {op.made, op.new} ELSE hist.excused
        /\ hist'.adrift = (hist.adrift \/ op.comp \/ ~Active(primary.name))
    BY DEF Finish, IInv, TypeOK
  <1>3. table = branches /\ drawn \in Nat
    BY <1>1 DEF IInv, TypeOK, StoreSound, Tls
  <1>4. StateSound(NoOp, table, timelines, drawn, hist'.excused, hist'.before, primary, hist'.adrift)
    <2>1. StateSound(op, branches, timelines, drawn, hist.excused, hist.before, primary, hist.adrift)
      BY <1>3 DEF OutcomeSound
    <2>2. hist.adrift \/ op.comp => hist'.adrift
      BY <1>2
    <2>3. /\ hist'.before = hist.before \/ hist'.before = table
          /\ hist'.before = hist.before => hist'.before = table \/ (op.failed /\ ~op.comp)
          /\ hist.excused \subseteq hist'.excused
          /\ op.comp => op.made \in hist'.excused /\ op.new \in hist'.excused
      BY <1>2, <1>3
    <2>4. StateSound(op, table, timelines, drawn, hist.excused, hist.before, primary, hist.adrift)
      BY <1>3, <2>1
    <2> QED
      BY <1>1, <1>3, <2>2, <2>3, <2>4, FinishSound
  <1>5. PublishedSound(NoOp, table)
    BY IdlePublished DEF OutcomeSound, PublishedSound, Complete
  <1>6. StartSound(NoOp, table, queue, primary, hist'.adrift)
    <2>1. queue # {} => queue \subseteq ListActive(table)
      BY <1>1 DEF OutcomeSound, StartSound
    <2>2. hist'.adrift \/ ActiveIn(table, primary.name)
      BY <1>2, <1>3 DEF Active
    <2> QED
      BY <2>1, <2>2, Nothing DEF StartSound
  <1> QED
    BY <1>1, <1>4, <1>5, <1>6 DEF OutcomeSound

LEMMA BeginOutcome ==
    ASSUME IInv, IInv', OutcomeSound, NEW kind \in Kinds, NEW n \in Names, NEW par \in Names,
           Begin(kind, n, par),
           \/ kind = "startup" /\ n \in queue /\ queue' \subseteq queue
           \/ kind # "startup" /\ queue = {} /\ queue' = {},
           kind \in {"create", "restore"} => n \in Others /\ ~Active(n),
           kind = "reset" => n \in Others /\ par = branches[n].parent,
           kind \notin {"create", "restore", "startup"} => Active(n)
    PROVE  OutcomeSound'
  <1>1. /\ up /\ op = NoOp
        /\ UNCHANGED <<table, branches, legacy, up, primary, timelines, drawn>>
    BY DEF Begin, external
  <1>2. /\ Begun(op', kind, n, par)
        /\ op'.prev = branches[n].tl /\ op'.made = 0 /\ op'.new = 0 /\ op'.comp = FALSE
        /\ op'.kind = kind
    BY DEF Begin, Begun, NoOp
  <1>3. /\ table = branches /\ drawn \in Nat /\ branches \in RowSets /\ op' \in Operations
        /\ hist'.excused = hist.excused \cup Attached(branches)
        /\ hist'.before = hist.before /\ hist'.adrift = hist.adrift
    BY <1>1 DEF IInv, TypeOK, StoreSound, Tls, Operations, RowSets, Begin
  <1>4. /\ StateSound(NoOp, branches, timelines, drawn, hist.excused, hist.before, primary,
                      hist.adrift)
        /\ StartSound(NoOp, branches, queue, primary, hist.adrift)
        /\ Complete(branches)
    BY <1>1, <1>3, IdlePublished DEF OutcomeSound
  <1>5. kind \notin {"create", "restore"} => Active(n)
    BY <1>4 DEF StartSound, ListActive, Active
  <1>6. kind # "startup" => hist.adrift \/ Active(primary.name)
    BY <1>4, Nothing DEF StartSound, Active
  <1>7. StateSound(op', branches, timelines, drawn, hist'.excused, hist'.before, primary,
                   hist'.adrift)
    <2>1. StateSound(op', branches, timelines, drawn, hist.excused \cup Attached(branches),
                     hist.before, primary, hist.adrift)
      BY <1>2, <1>3, <1>4, <1>5, <1>6, BeginSound
    <2> QED
      BY <1>3, <2>1
  <1>8. PublishedSound(op', branches)
    BY <1>2, <1>3, <1>4, BeginPublished DEF Active
  <1>9. StartSound(op', branches, queue', primary, hist'.adrift)
    BY <1>2, <1>3, <1>4, <1>6 DEF StartSound, Active
  <1> QED
    BY <1>1, <1>3, <1>7, <1>8, <1>9 DEF OutcomeSound

LEMMA RequestOutcome ==
    ASSUME IInv, IInv', OutcomeSound, PublishExisting \/ Requests
    PROVE  OutcomeSound'
  <1>1. queue \subseteq Names /\ Main \in Names /\ Others \subseteq Names
        /\ \A n \in Names : branches[n].parent \in Names
    BY Facts DEF IInv, TypeOK, Row
  <1>2. CASE PublishExisting
    <2>1. PICK n \in queue : queue' = queue \ {n} /\ Begin("startup", n, Main)
      BY <1>2 DEF PublishExisting
    <2>2. n \in Names /\ queue' \subseteq queue
      BY <1>1, <2>1
    <2> QED
      BY <1>1, <2>1, <2>2, BeginOutcome DEF Kinds
  <1>3. CASE CreateBranch \/ RestoreBranch
    <2>1. PICK n \in Others, p \in Names, kind \in {"create", "restore"} :
             ~Active(n) /\ Request(kind, n, p)
      BY <1>3 DEF CreateBranch, RestoreBranch
    <2>2. queue = {} /\ queue' = {} /\ Begin(kind, n, p) /\ n \in Names
      BY <1>1, <2>1 DEF Request
    <2> QED
      BY <2>1, <2>2, BeginOutcome DEF Kinds
  <1>4. CASE ResetBranch
    <2>1. PICK n \in Others : Active(n) /\ Request("reset", n, branches[n].parent)
      BY <1>4 DEF ResetBranch
    <2>2. queue = {} /\ queue' = {} /\ Begin("reset", n, branches[n].parent) /\ n \in Names
      BY <1>1, <2>1 DEF Request
    <2> QED
      BY <1>1, <2>1, <2>2, BeginOutcome DEF Kinds
  <1>5. CASE DeleteBranch \/ PublishBranch \/ UnpublishBranch \/ SelectBranch
    <2>1. PICK n \in Names, kind \in {"delete", "publish", "unpublish", "select"} :
             Active(n) /\ Request(kind, n, Main)
      BY <1>5 DEF DeleteBranch, PublishBranch, UnpublishBranch, SelectBranch
    <2>2. queue = {} /\ queue' = {} /\ Begin(kind, n, Main)
      BY <2>1 DEF Request
    <2> QED
      BY <1>1, <2>1, <2>2, BeginOutcome DEF Kinds
  <1> QED
    BY <1>2, <1>3, <1>4, <1>5 DEF Requests

LEMMA CrashOutcome ==
    ASSUME IInv, IInv', OutcomeSound, Crash
    PROVE  OutcomeSound'
  <1>1. /\ up /\ op \in Operations /\ op' = NoOp /\ up' = FALSE
        /\ UNCHANGED <<table, legacy, primary, timelines, drawn>>
    BY DEF Crash, IInv, TypeOK, Operations, external
  <1>2. /\ hist'.before = IF op = NoOp THEN hist.before ELSE table
        /\ hist'.excused = hist.excused \cup {op.made, op.new}
        /\ hist'.adrift = (hist.adrift \/ op.kind \in {"reset", "select"})
        /\ drawn \in Nat
    BY DEF Crash, IInv, TypeOK, Tls
  <1>4. StateSound(NoOp, table, timelines, drawn, hist'.excused, hist'.before, primary, hist'.adrift)
    <2>1. StateSound(op, table, timelines, drawn, hist.excused, hist.before, primary, hist.adrift)
      BY DEF OutcomeSound
    <2>2. hist.adrift \/ op.kind \in {"reset", "select"} => hist'.adrift
      BY <1>2
    <2>3. StateSound(NoOp, table, timelines, drawn, hist.excused \cup {op.made, op.new},
                     hist'.before, primary, hist'.adrift)
      BY <1>1, <1>2, <2>1, <2>2, CrashSound
    <2> QED
      BY <1>2, <2>3
  <1>5. PublishedSound(NoOp, table)
    BY IdlePublished DEF OutcomeSound, PublishedSound, Complete
  <1> QED
    BY <1>1, <1>4, <1>5 DEF OutcomeSound

LEMMA StartOutcome ==
    ASSUME IInv, IInv', OutcomeSound, LegacySound, Start
    PROVE  OutcomeSound'
  <1>1. /\ ~up /\ op = NoOp /\ op' = NoOp /\ table' = StartRows /\ queue' = ListActive(StartRows)
        /\ UNCHANGED <<legacy, primary, timelines, drawn, hist>>
        /\ Loadable(StartRows)
    BY DEF Start, IInv, StoreSound, external
  <1>2. /\ StartRows \in RowSets /\ drawn \in Nat /\ primary \in [name : Names, tl : Tls]
        /\ Main \in Names
    BY <1>1, Facts DEF IInv, TypeOK, RowSets, Tls
  <1>3. StateSound(NoOp, table, timelines, drawn, hist.excused, hist.before, primary, hist.adrift)
        /\ Complete(table)
    BY <1>1, IdlePublished DEF OutcomeSound
  <1>4. CASE table # NoRows
    <2>1. StartRows = table
      BY <1>4 DEF StartRows
    <2>2. StartSound(NoOp, StartRows, ListActive(StartRows), primary, hist.adrift)
      BY <1>1, <1>2, Nothing DEF StartSound, Loadable, ListActive
    <2> QED
      BY <1>1, <1>3, <2>1, <2>2, IdlePublished DEF OutcomeSound
  <1>5. CASE table = NoRows
    <2>1. RowTls(StartRows, timelines, drawn) /\ Complete(StartRows)
      <3>1. CASE legacy # NoRows
        <4>1. StartRows = legacy
          BY <1>5, <3>1 DEF StartRows
        <4> QED
          BY <1>5, <4>1 DEF LegacySound
      <3>2. CASE legacy = NoRows
        <4>1. StartRows = DefaultRows
          BY <1>5, <3>2 DEF StartRows
        <4>2. \A m \in Names : DefaultRows[m].tl = 0 /\ DefaultRows[m].pub = FALSE
          BY DEF DefaultRows, NoRows, Absent, NewRow
        <4>3. \A y : y \notin Attached(DefaultRows)
          BY <1>2, <4>2, AttachedIs
        <4>4. timelines \subseteq 1..drawn
          BY <1>3 DEF StateSound, RowTls
        <4> QED
          BY <1>2, <4>1, <4>2, <4>3, <4>4 DEF RowTls, Complete, ListActive
      <3> QED
        BY <3>1, <3>2
    <2>2. StateSound(NoOp, StartRows, timelines, drawn, hist.excused, hist.before, primary,
                     hist.adrift)
      BY <1>2, <1>3, <1>5, <2>1, FreshSound
    <2>4. StartSound(NoOp, StartRows, ListActive(StartRows), primary, hist.adrift)
      BY <1>1, <1>2, Nothing DEF StartSound, Loadable, ListActive
    <2> QED
      BY <1>1, <2>1, <2>2, <2>4, IdlePublished DEF OutcomeSound
  <1> QED
    BY <1>4, <1>5

-----------------------------------------------------------------------------
(* The invariant *)

LEMMA OutcomeInit == Init => OutcomeSound /\ LegacySound
  <1> SUFFICES ASSUME Init PROVE OutcomeSound /\ LegacySound
    OBVIOUS
  <1>1. /\ table = NoRows /\ up = FALSE /\ op = NoOp /\ timelines = 1..drawn /\ drawn \in Nat
        /\ primary.tl = 0
        /\ hist.before = NoRows /\ hist.excused = timelines /\ hist.adrift = FALSE
        /\ {legacy[m].tl : m \in Names} \ {0} = timelines
    BY DEF Init, Tls
  <1>2. \A m \in Names : NoRows[m].tl = 0 /\ NoRows[m].pub = FALSE
    BY DEF NoRows, Absent
  <1>3. \A y : y \notin Attached(NoRows)
    BY <1>2, AttachedIs
  <1>4. RowTls(NoRows, timelines, drawn)
    BY <1>1, <1>2, <1>3, Facts DEF RowTls, ListActive
  <1>5. IdleSound(NoRows, timelines, drawn, timelines, NoRows, primary, FALSE)
    BY <1>1, <1>4 DEF IdleSound
  <1>6. StateSound(NoOp, NoRows, timelines, drawn, timelines, NoRows, primary, FALSE)
    BY <1>1, <1>5, Idle
  <1>7. PublishedSound(NoOp, NoRows)
    BY <1>2, IdlePublished DEF Complete
  <1>8. LegacySound
    <2>1. CASE legacy = NoRows
      BY <1>2, <1>4, <2>1 DEF LegacySound, Complete
    <2>2. CASE legacy \in LegacySnapshots
      <3>1. /\ Complete(legacy) /\ Exclusive(legacy)
            /\ legacy[Main].tl = 0 => \A n \in Names : legacy[n].tl = 0
        BY <2>2 DEF LegacySnapshots
      <3>2. \A m \in Names : legacy[m].tl <= drawn
        BY <1>1
      <3>3. Attached(legacy) \subseteq timelines
        BY <1>1 DEF Attached, ListActive
      <3> QED
        BY <1>1, <3>1, <3>2, <3>3 DEF LegacySound, RowTls, Exclusive
    <2> QED
      BY <2>1, <2>2, LegacyAssumption DEF Init
  <1> QED
    BY <1>1, <1>6, <1>7, <1>8 DEF OutcomeSound

\* A controller that has been up has a table with main in it, and the old file is past.
LEMMA LegacyStep ==
    ASSUME IInv, IInv', LegacySound, [Next]_vars
    PROVE  LegacySound'
  <1>1. up => table # NoRows
    BY NotBlank, Facts DEF IInv, StoreSound, Whole, Loadable
  <1>2. up' => table' # NoRows
    BY NotBlank, Facts DEF IInv, StoreSound, Whole, Loadable
  <1>3. CASE UNCHANGED vars
    BY <1>3 DEF LegacySound, vars
  <1>4. CASE Crash
    BY <1>1, <1>4 DEF Crash, LegacySound
  <1>5. CASE Start
    BY <1>2, <1>5 DEF Start, LegacySound
  <1>6. CASE PublishExisting \/ Requests
    <2>1. \E kind, n, p : Begin(kind, n, p)
      BY <1>6 DEF PublishExisting, Requests, CreateBranch, RestoreBranch, ResetBranch,
         DeleteBranch, PublishBranch, UnpublishBranch, SelectBranch, Request
    <2>2. up' = up /\ up
      BY <2>1 DEF Begin
    <2> QED
      BY <1>2, <2>2 DEF LegacySound
  <1>7. CASE OperationStep
    <2>1. up' = up /\ up
      BY <1>7 DEF OperationStep, Here, CreateRow, EnsurePassword, Resolve, ResolveMain,
         ResolveChild, Bind, Adopt, SetResolved, Publish, Unpublish, SoftDelete, BranchTimeline,
         ReplaceTimeline, RestoreTimeline, Refresh, Switch, Discard, Cleanup, Finish, StoreStep,
         Skip, CreateTimeline, DeleteTimeline
    <2> QED
      BY <1>2, <2>1 DEF LegacySound
  <1> QED
    BY <1>3, <1>4, <1>5, <1>6, <1>7 DEF Next

LEMMA OutcomeStep == IInv /\ OutcomeSound /\ LegacySound /\ [Next]_vars => OutcomeSound'
  <1> SUFFICES ASSUME IInv, OutcomeSound, LegacySound, [Next]_vars PROVE OutcomeSound'
    OBVIOUS
  <1>1. IInv'
    BY StepOK
  <1>2. CASE UNCHANGED vars
    BY <1>2 DEF OutcomeSound, vars
  <1>3. CASE Start
    BY <1>1, <1>3, StartOutcome
  <1>4. CASE PublishExisting \/ Requests
    BY <1>1, <1>4, RequestOutcome
  <1>5. CASE Crash
    BY <1>1, <1>5, CrashOutcome
  <1>6. CASE OperationStep
    <2>1. CASE CreateRow
      BY <1>1, <2>1, RowOutcome
    <2>2. CASE EnsurePassword
      BY <1>1, <2>2, PasswordOutcome
    <2>3. CASE Resolve
      BY <1>1, <2>3, ResolveOutcome
    <2>4. CASE Bind \/ Adopt
      BY <1>1, <2>4, BindOutcome
    <2>5. CASE SetResolved
      BY <1>1, <2>5, AttachOutcome
    <2>6. CASE Publish
      BY <1>1, <2>6, PublishOutcome
    <2>7. CASE Unpublish
      BY <1>1, <2>7, UnpublishOutcome
    <2>8. CASE SoftDelete
      BY <1>1, <2>8, DeleteOutcome
    <2>9. CASE BranchTimeline
      BY <1>1, <2>9, TimelineOutcome
    <2>10. CASE ReplaceTimeline
      BY <1>1, <2>10, ReplaceOutcome
    <2>11. CASE RestoreTimeline
      BY <1>1, <2>11, RestoreOutcome
    <2>12. CASE Refresh
      BY <1>1, <2>12, RefreshOutcome
    <2>13. CASE Switch
      BY <1>1, <2>13, SwitchOutcome
    <2>14. CASE Discard \/ Cleanup
      BY <1>1, <2>14, CleanupOutcome
    <2>15. CASE Finish
      BY <1>1, <2>15, FinishOutcome
    <2> QED
      BY <1>6, <2>1, <2>2, <2>3, <2>4, <2>5, <2>6, <2>7, <2>8, <2>9, <2>10, <2>11, <2>12,
         <2>13, <2>14, <2>15 DEF OperationStep
  <1> QED
    BY <1>2, <1>3, <1>4, <1>5, <1>6 DEF Next

LEMMA OutcomeInvariance == Spec => [](IInv /\ OutcomeSound)
  <1>1. Init => IInv /\ OutcomeSound /\ LegacySound
    BY InitOK, OutcomeInit
  <1>2. IInv /\ OutcomeSound /\ LegacySound /\ [Next]_vars
            => (IInv /\ OutcomeSound /\ LegacySound)'
    BY StepOK, OutcomeStep, LegacyStep
  <1> QED
    BY <1>1, <1>2, PTL DEF Spec

-----------------------------------------------------------------------------
(* The theorems *)

\* Whatever fails and whenever the controller goes down, no active branch is left with a
\* timeline that a cleanup has deleted or that another active branch has, and no resolution
\* comes to a branch that it is resolving already.
THEOREM AttachmentsAreSound == Spec => []AttachmentsSound
  <1>1. IInv /\ OutcomeSound => AttachmentsSound
    <2> SUFFICES ASSUME IInv, OutcomeSound PROVE AttachmentsSound
      OBVIOUS
    <2>1. RowTls(table, timelines, drawn) /\ PlanSound(op) /\ op \in Operations
      BY DEF OutcomeSound, StateSound, IInv, TypeOK, Operations
    <2>2. AttachedExists /\ TimelinesExclusive
      BY <2>1 DEF AttachedExists, TimelinesExclusive, Exclusive, RowTls
    <2>3. ClimbEnds
      <3>1. /\ Climb = {j \in Places(op) : AllResolve(op, 1, j)} /\ Len(op.todo) \in Nat
            /\ Places(op) = 1..Len(op.todo)
        BY <2>1, ClimbIs, TodoFacts DEF Places
      <3>2. ASSUME NEW i \in Climb, NEW j \in Climb, i < j PROVE op.todo[i].on # op.todo[j].on
        <4>1. /\ i \in Places(op) /\ j \in Places(op) /\ i \in Nat /\ j \in Nat /\ i >= 1
              /\ AllResolve(op, 1, j) /\ AllResolve(op, 1, i)
          BY <3>1
        <4>2. op.todo[i].do = "resolve" /\ op.todo[j].do = "resolve" /\ AllResolve(op, i, j)
          BY <3>2, <4>1 DEF AllResolve
        <4>3. DistinctAt(op, i, j)
          BY <2>1, <4>1 DEF PlanSound, Distinct
        <4> QED
          BY <3>2, <4>2, <4>3 DEF DistinctAt
      <3>3. \A i, j \in Climb : i # j => i < j \/ j < i
        BY <3>1
      <3> QED
        BY <3>2, <3>3 DEF ClimbEnds
    <2> QED
      BY <2>2, <2>3 DEF AttachmentsSound
  <1> QED
    BY <1>1, OutcomeInvariance, PTL

\* An endpoint is published only while its branch is active and has a timeline and a
\* password, also when the name of a deleted branch is used again.
THEOREM PublishedAreComplete == Spec => []PublishedComplete
  <1>1. OutcomeSound => PublishedComplete
    BY DEF OutcomeSound, PublishedSound, PublishedComplete, Complete
  <1> QED
    BY <1>1, OutcomeInvariance, PTL

\* No operation, failed or not, leaves a timeline behind that no branch has or had, but for
\* calls with an unknown outcome, rollbacks reported as incomplete, and crashes.
THEOREM LeaksAreExplained == Spec => []LeaksExplained
  <1>1. OutcomeSound => LeaksExplained
    BY DEF OutcomeSound, StateSound, LeaksSound, LeaksExplained
  <1> QED
    BY <1>1, OutcomeInvariance, PTL

\* What an answer promised of the branches is still so after operations that failed and were
\* taken back, and after crashes and restarts.
THEOREM AnswersAreKept == Spec => []AnswersHold
  <1>1. OutcomeSound => AnswersHold
    <2> SUFFICES ASSUME OutcomeSound, op = NoOp, hist.before # NoRows
                 PROVE  Keeps(hist.before, table)
      BY DEF AnswersHold
    <2>1. \A m \in Names : KeepsRow(hist.before, table, m)
      BY Nothing DEF OutcomeSound, StateSound, AnswerSound
    <2> QED
      BY <2>1 DEF Keeps, KeepsRow
  <1> QED
    BY <1>1, OutcomeInvariance, PTL

\* The primary's selection names its branch's timeline between operations, unless a crash
\* cut a reset or a selection short, a rollback was incomplete, or the branch is deleted.
THEOREM PrimaryAgreement == Spec => []PrimaryAgrees
  <1>1. OutcomeSound => PrimaryAgrees
    BY Nothing DEF OutcomeSound, StateSound, PrimarySound, PrimaryAgrees, Behind
  <1> QED
    BY <1>1, OutcomeInvariance, PTL

=============================================================================
