------------------------------- MODULE Console -------------------------------
(***************************************************************************)
(* The web console (the script in internal/server/ui.go): one page, whose  *)
(* handlers run up to an await, and go on when the answer comes, in        *)
(* whatever order answers come. Each async function remembers an epoch, or *)
(* what was selected, and drops an answer that no longer fits.             *)
(*                                                                         *)
(* ui is the script's state and the page's controls. Synchronous functions *)
(* of the script are operators from ui to ui. A request that is awaited is *)
(* a task: at is the await, flow the handler it belongs to, and fresh the  *)
(* epochs that have not moved on since the task read them ("object" is the *)
(* identity of the connection object). The controller is what the requests *)
(* see of it: its branches and saved queries (sql_query_library.go), which *)
(* may have changed when an answer comes.                                  *)
(*                                                                         *)
(* Left out: rendering, the history tab, renaming, and the schema filters. *)
(* The editor's text stands for where it comes from, which typing leaves   *)
(* as it is. The library lists the queries of the project, so the check of *)
(* an answer's context (scope "context") has no work. A context is a       *)
(* branch and a database; its tables are alike. The branch main is always  *)
(* there.                                                                  *)
(***************************************************************************)
EXTENDS Naturals, Sequences, FiniteSets

CONSTANTS
    Branches,     \* branch names
    Main,         \* the branch main
    Protected,    \* the branches that isProtectedBranch holds of
    Databases,    \* database names
    Default,      \* the database of the endpoint's connection, found on every branch
    Library,      \* the saved queries at the start, a sequence of rows
    MaxEvents     \* bound on handlers that send a request, failing answers and changes
                  \* by other clients, all together

ASSUME MainAssumption == Main \in Protected /\ Protected \subseteq Branches
ASSUME DefaultAssumption == Default \in Databases
ASSUME BoundAssumption == MaxEvents \in Nat
ASSUME LibraryAssumption ==
    Library \in Seq([branch : Branches, db : Databases, text : STRING, live : BOOLEAN])

VARIABLES
    ui,        \* the page
    exists,    \* the active branches
    queries,   \* sql_saved_queries: the row with id i is at i, live until deleted
    versions,  \* what lists of them said since the page was opened, and say now
    requests,  \* handlers started so far
    faults     \* faults so far

vars == <<ui, exists, queries, versions, requests, faults>>
server == <<exists, queries, versions>>

NoBranch == "no branch"
NoDB == "no database"
NoQuery == 0

ASSUME MarkerAssumption == NoDB \notin Databases

NoConnection == [branch |-> NoBranch, published |-> FALSE]
NoEntry == [known |-> FALSE, names |-> {}, loading |-> FALSE, error |-> FALSE, required |-> FALSE]

\* What openSQLInEditor is given.
Entry(branch, db, text, id) == [branch |-> branch, db |-> db, text |-> text, id |-> id]
NoOpened == Entry(NoBranch, NoDB, "none", NoQuery)

Fault ==
    /\ requests + faults < MaxEvents
    /\ faults' = faults + 1

Outcome(ok) == IF ok THEN UNCHANGED faults ELSE Fault

Now == [branches |-> exists, queries |-> {i \in DOMAIN queries : queries[i].live}]

\* A change of exists and queries.
Changed == versions' = IF Now' = Now THEN versions ELSE Append(versions, Now')

\* What the answer to a request may tell: what was so at some time since it was sent.
Told(t) == {versions[i] : i \in {j \in DOMAIN versions : j >= t.since}}

(***************************************************************************)
(* Operators named X_Y are faulty variants of X, the plausible mistakes    *)
(* the properties are tested against; nothing uses them.                   *)
(***************************************************************************)

-----------------------------------------------------------------------------
(* Reading the page *)

Usable(u) == u.connection = [branch |-> u.selected, published |-> TRUE]

\* selectedSQLDatabase of the selected branch.
SelectedDB(u) ==
    LET entry == u.entries[u.selected] IN
    CASE entry.required -> NoDB
      [] ~entry.required /\ u.chosen[u.selected] # NoDB -> u.chosen[u.selected]
      [] OTHER -> IF entry.known \/ u.connection # NoConnection THEN Default ELSE NoDB

Context(u) == <<u.selected, SelectedDB(u)>>

NoContext == <<NoBranch, NoDB>>

-----------------------------------------------------------------------------
(* Synchronous functions *)

\* An epoch moves on, or the connection object is another: tasks that read it are stale.
Bump(u, epochs) == [u EXCEPT !.tasks = {[t EXCEPT !.fresh = @ \ epochs] : t \in @}]

Off(u, controls) == [u EXCEPT !.off = @ \cup controls]

On(u, controls) == [u EXCEPT !.off = @ \ controls]

SetConnection(u, connection) == Bump([u EXCEPT !.connection = connection], {"object"})

\* applySQLModeVisualState.
ApplySQLMode(u) ==
    LET listed == u.selected \in u.branches
        writing == u.writes /\ "writes" \notin u.off
        confirmation == writing /\ listed /\ u.selected \in Protected
        confirm == u.confirm /\ confirmation
        ready ==
            /\ listed /\ Usable(u) /\ SelectedDB(u) # NoDB
            /\ ~u.connBusy /\ ~u.refreshing
            /\ u.off \cap {"writes", "db"} = {}
            /\ confirmation => confirm
    IN  [u EXCEPT !.confirm = confirm,
                  !.armed = IF u.writes THEN @ ELSE NoContext,
                  !.confirmed = IF confirm THEN @ ELSE NoContext,
                  !.off = (@ \ {"confirm", "run"}) \cup (IF confirmation THEN {} ELSE {"confirm"})
                                                  \cup (IF ready THEN {} ELSE {"run"})]

ClearSQLWriteMode(u) == ApplySQLMode([u EXCEPT !.writes = FALSE, !.confirm = FALSE])

\* A remembered database that is gone must be chosen again.
DatabaseRequired(entry, chosen, names) ==
    entry.known /\ (entry.required \/ (chosen # NoDB /\ chosen \notin names))

\* renderBranchDatabaseSelector, for both selects.
RenderDatabaseSelector(u) ==
    LET b == u.selected
        entry == u.entries[b]
        names == IF entry.names = {} THEN {Default} ELSE entry.names
        required == DatabaseRequired(entry, u.chosen[b], names)
        v == [u EXCEPT !.entries[b].required = required]
        wanted == IF SelectedDB(v) = NoDB THEN Default ELSE SelectedDB(v)
        value == IF wanted \in names THEN wanted ELSE CHOOSE name \in names : TRUE
    IN  IF ~Usable(u) \/ entry.loading
        THEN Off(u, {"db", "tables"})
        ELSE On([v EXCEPT !.chosen[b] = IF required \/ entry.error THEN @ ELSE value],
                {"db", "tables"})

RenderSQLEditor(u) ==
    IF u.selected \in u.branches /\ (u.refreshing \/ u.connBusy)
    THEN ClearSQLWriteMode(Off(u, {"run", "writes", "confirm", "db"}))
    ELSE IF u.selected \notin u.branches \/ ~Usable(u)
    THEN ApplySQLMode(RenderDatabaseSelector(Off([u EXCEPT !.writes = FALSE], {"run", "writes"})))
    ELSE LET v == RenderDatabaseSelector(u) IN
         IF v.entries[v.selected].loading \/ v.entries[v.selected].required
         THEN ClearSQLWriteMode(Off(v, {"run", "writes"}))
         ELSE ApplySQLMode(On(v, {"run", "writes"}))

\* renderSchemaBrowserContext renders the selects once more.
RenderContext(u) == RenderDatabaseSelector(RenderSQLEditor(u))

InvalidateSavedQuery(u) == Bump([u EXCEPT !.active = NoQuery], {"editor"})

\* The detail stays.
InvalidateSchema_KeepDetail(u) == Bump([u EXCEPT !.catalog = {}], {"catalog", "detail"})

InvalidateSchema(u) == Bump([u EXCEPT !.catalog = {}, !.detail = {}], {"catalog", "detail"})

\* A selected branch that is gone stays selected.
Normalize_Keep(u) == u

\* normalizeSelectedBranch, called by renderBranchSelectors.
Normalize(u) ==
    IF u.selected \in u.branches THEN u
    ELSE InvalidateSchema(InvalidateSavedQuery([u EXCEPT !.selected = Main]))

-----------------------------------------------------------------------------
(* Asynchronous functions, up to their first await *)

Await(u, t, at) ==
    [u EXCEPT !.tasks = @ \cup {[t EXCEPT !.at = at, !.branch = u.selected, !.db = SelectedDB(u),
                                         !.since = Len(versions)]}]

Reads(t, epoch) == [t EXCEPT !.fresh = @ \cup {epoch}]

StartLibrary(u, t) == Await(Bump(u, {"library"}), Reads(t, "library"), "library")

StartDetail(u, t) == Await(Bump(u, {"detail"}), Reads(t, "detail"), "detail")

\* refreshSelectedBranchConnection.
StartConnection(u, t) ==
    LET v == ApplySQLMode(Off([Bump(u, {"connection"}) EXCEPT !.connBusy = TRUE, !.writes = FALSE, !.confirm = FALSE],
                              {"run", "writes", "confirm", "db", "tables"}))
        w == IF v.connection # NoConnection /\ v.connection.branch # v.selected
             THEN RenderContext(ClearSQLWriteMode(SetConnection(v, NoConnection)))
             ELSE v
    IN  Await(w, Reads(t, "connection"), "connection")

\* What open-restored-branch and copy-branch-dsn do with another branch. One that is not
\* listed does not stay selected.
SelectBranch(u, b, t) ==
    StartConnection(Normalize(ClearSQLWriteMode(InvalidateSchema(InvalidateSavedQuery(
        [u EXCEPT !.selected = b])))), t)

\* The end of loadAll; open-restored-branch goes on with its branch.
EndLoadAll(u, t) ==
    IF t.opened.branch \in u.branches
    THEN SelectBranch([u EXCEPT !.page = "other"], t.opened.branch, [t EXCEPT !.flow = "select", !.fresh = {}])
    ELSE u

\* A load that has been overtaken finishes all the same.
FinishLoadAll_Always(u, t) == EndLoadAll(RenderSQLEditor([u EXCEPT !.refreshing = FALSE]), t)

FinishLoadAll(u, t) ==
    EndLoadAll(IF "refresh" \in t.fresh THEN RenderSQLEditor([u EXCEPT !.refreshing = FALSE]) ELSE u, t)

\* loadSchemaCatalog; more is the flow of load-more-schema.
StartCatalog(u, t) ==
    LET v == Bump(u, {"catalog"})
        w == IF t.flow = "more" THEN v ELSE Bump([v EXCEPT !.detail = {}], {"detail"})
        x == RenderDatabaseSelector(w)
    IN  IF w.selected \notin w.branches \/ SelectedDB(w) = NoDB
        THEN LET y == [x EXCEPT !.catalog = {}, !.detail = {}]
             IN  IF t.flow = "loadAll" THEN FinishLoadAll(y, t) ELSE y
        ELSE [x EXCEPT !.tasks = @ \cup {[Reads(t, "catalog") EXCEPT !.at = "catalog", !.branch = w.selected,
                                                                     !.db = SelectedDB(w),
                                                                     !.since = Len(versions)]}]

\* The editor shows the query.
OpenInEditor(u, t) ==
    LET b == t.opened.branch
        v == IF SelectedDB(u) # t.opened.db THEN InvalidateSchema(u) ELSE u
        w == RenderSQLEditor(ClearSQLWriteMode(
                 [v EXCEPT !.chosen[b] = t.opened.db, !.entries[b].required = FALSE]))
    IN  StartLibrary([w EXCEPT !.text = t.opened.text, !.active = t.opened.id, !.page = "sql"], t)

\* What the user wants now is looked at again after each await.
StillOpening(u, t) == "editor" \in t.fresh /\ u.selected = t.opened.branch

AfterDatabases(u, t) ==
    CASE t.flow = "loadAll" -> IF t.page = "tables" THEN StartCatalog(u, t) ELSE StartLibrary(u, t)
      [] t.flow = "sql" -> StartLibrary(u, t)
      [] t.flow = "tables" -> StartCatalog(u, t)
      [] OTHER -> IF StillOpening(u, t) /\ t.opened.db \in u.entries[t.opened.branch].names
                  THEN OpenInEditor(u, t) ELSE u

\* refreshSelectedBranchDatabases.
StartDatabases(u, t) ==
    LET entry == u.entries[u.selected] IN
    IF ~Usable(u) THEN AfterDatabases(RenderDatabaseSelector(u), t)
    ELSE Await(RenderSQLEditor([u EXCEPT !.entries[u.selected] = [entry EXCEPT !.known = TRUE, !.loading = TRUE, !.error = FALSE]]),
               [Reads(t, "object") EXCEPT !.previous = entry], "databases")

AfterConnection(u, t) ==
    CASE t.flow = "loadAll" ->
           IF "refresh" \in t.fresh /\ u.page # "other"
           THEN StartDatabases(u, [t EXCEPT !.page = u.page]) ELSE FinishLoadAll(u, t)
      [] t.flow = "open" -> IF StillOpening(u, t) THEN StartDatabases(u, t) ELSE u
      [] OTHER -> u

StartLoadAll(u, t) ==
    LET v == [Bump(u, {"refresh", "connection"}) EXCEPT !.refreshing = TRUE, !.connBusy = FALSE,
                                                       !.writes = FALSE, !.confirm = FALSE]
    IN  Await(ApplySQLMode(Off(v, {"run", "writes", "confirm", "db"})), Reads(t, "refresh"), "lists")

-----------------------------------------------------------------------------
(* Answers: the task goes on from its await *)

NewTask(flow) ==
    [id |-> requests, flow |-> flow, at |-> "none", branch |-> NoBranch, db |-> NoDB, fresh |-> {},
     since |-> 0, opened |-> NoOpened, page |-> "other", previous |-> NoEntry, query |-> NoQuery, text |-> "none", writes |-> FALSE]

Without(t) == [ui EXCEPT !.tasks = @ \ {t}]

SameContext(u, t) == Context(u) = <<t.branch, t.db>>

\* loadAll, with the branch list.
AnswerLists(t) ==
    /\ t.at = "lists"
    /\ \E ok \in BOOLEAN, told \in Told(t) :
        /\ Outcome(ok)
        /\ LET u == Without(t) IN
           ui' = CASE "refresh" \notin t.fresh -> EndLoadAll(u, t)
                   [] "refresh" \in t.fresh /\ ok -> StartConnection(Normalize([u EXCEPT !.branches = told.branches]), t)
                   [] OTHER -> EndLoadAll(RenderSQLEditor([u EXCEPT !.refreshing = FALSE, !.connBusy = FALSE]), t)
    /\ UNCHANGED <<server, requests>>

\* The answer is of the latest connection request.
Current(u, t) == "connection" \in t.fresh /\ u.selected = t.branch

AnswerConnection(t) ==
    /\ t.at = "connection"
    /\ \E ok, published \in BOOLEAN, told \in Told(t) :
        /\ Outcome(published /\ (ok \/ t.branch \notin told.branches))
        /\ ok => t.branch \in told.branches
        /\ LET u == Without(t)
               connection == IF ok THEN [branch |-> t.branch, published |-> published] ELSE NoConnection
               v == SetConnection(IF ok THEN ClearSQLWriteMode(u) ELSE u, connection)
           IN  ui' = AfterConnection(IF Current(u, t) THEN RenderContext([v EXCEPT !.connBusy = FALSE]) ELSE u, t)
    /\ UNCHANGED <<server, requests>>

AnswerDatabases(t) ==
    /\ t.at = "databases"
    /\ \E names \in {n \in SUBSET Databases : Default \in n}, ok \in BOOLEAN, told \in Told(t) :
        /\ Outcome(ok \/ t.branch \notin told.branches)
        /\ ok => t.branch \in told.branches
        /\ LET u == Without(t)
               b == t.branch
               remembered == u.chosen[b]
               shown == t.previous.names \cup (IF remembered # NoDB THEN {remembered} ELSE {})
               entry == IF ok
                        THEN [NoEntry EXCEPT !.known = TRUE, !.names = names,
                                             !.required = remembered \notin names \cup {NoDB}]
                        ELSE [NoEntry EXCEPT !.known = TRUE, !.error = TRUE,
                                             !.names = IF shown = {} THEN {Default} ELSE shown,
                                             !.required = t.previous.required]
               v == [u EXCEPT !.entries[b] = entry,
                              !.chosen[b] = IF ok /\ remembered = NoDB THEN Default ELSE @]
           IN  ui' = AfterDatabases(IF u.selected = b /\ "object" \in t.fresh THEN RenderSQLEditor(v) ELSE u, t)
    /\ UNCHANGED <<server, requests>>

AnswerLibrary(t) ==
    /\ t.at = "library"
    /\ \E ok \in BOOLEAN, told \in Told(t) :
        /\ Outcome(ok)
        /\ LET u == Without(t)
               v == IF "library" \in t.fresh
                    THEN [u EXCEPT !.listed = IF ok THEN told.queries ELSE {}]
                    ELSE u
           IN  ui' = CASE t.flow = "loadAll" -> FinishLoadAll(v, t)
                       [] t.flow = "save" -> [v EXCEPT !.saving = FALSE]
                       [] t.flow = "run" -> RenderSQLEditor(v)
                       [] OTHER -> v
    /\ UNCHANGED <<server, requests>>

AnswerCatalog(t) ==
    /\ t.at = "catalog"
    /\ \E ok \in BOOLEAN, empty \in BOOLEAN, told \in Told(t) :
        /\ Outcome(ok \/ t.branch \notin told.branches)
        /\ ok => t.branch \in told.branches
        /\ LET u == Without(t)
               reset == t.flow # "more"
               current == "catalog" \in t.fresh /\ SameContext(u, t)
               tables == (IF reset THEN {} ELSE u.catalog) \cup (IF empty THEN {} ELSE {<<t.branch, t.db>>})
               v == CASE ~current \/ (~ok /\ ~reset) -> u
                      [] current /\ ok -> [u EXCEPT !.catalog = tables, !.detail = IF reset THEN {} ELSE @]
                      [] OTHER -> [u EXCEPT !.catalog = {}, !.detail = {}]
           IN  ui' = CASE current /\ ok /\ reset /\ ~empty -> StartDetail(v, t)
                       [] t.flow = "loadAll" /\ ~(current /\ ok /\ ~empty) -> FinishLoadAll(v, t)
                       [] OTHER -> v
    /\ UNCHANGED <<server, requests>>

AnswerDetail(t) ==
    /\ t.at = "detail"
    /\ \E ok \in BOOLEAN, told \in Told(t) :
        /\ Outcome(ok \/ t.branch \notin told.branches \/ t.db = NoDB)
        /\ ok => t.branch \in told.branches /\ t.db # NoDB
        /\ LET u == Without(t)
               v == IF "detail" \in t.fresh /\ SameContext(u, t)
                    THEN [u EXCEPT !.detail = IF ok THEN {<<t.branch, t.db>>} ELSE {}] ELSE u
           IN  ui' = IF t.flow = "loadAll" THEN FinishLoadAll(v, t) ELSE v
    /\ UNCHANGED <<server, requests>>

-----------------------------------------------------------------------------
(* What the controller does with a request that changes something *)

Served(t, at, query) == ui' = [Without(t) EXCEPT !.tasks = @ \cup {[t EXCEPT !.at = at, !.query = query]}]

\* sqliteSQLQueryLibraryStore: ids are not used again.
ServeSave(t) ==
    /\ t.at = "save"
    /\ \/ /\ t.query = NoQuery
          /\ t.branch \in exists
          /\ queries' = Append(queries, [branch |-> t.branch, db |-> t.db, text |-> t.text, live |-> TRUE])
          /\ Served(t, "saved", Len(queries) + 1)
       \/ /\ t.query # NoQuery
          /\ queries[t.query].live
          /\ queries' = [queries EXCEPT ![t.query].text = t.text]
          /\ Served(t, "saved", t.query)
       \/ /\ IF t.query = NoQuery THEN t.branch \notin exists ELSE ~queries[t.query].live
          /\ Served(t, "failed", t.query)
          /\ UNCHANGED queries
    /\ UNCHANGED <<exists, requests, faults>>
    /\ Changed

ServeDelete(t) ==
    /\ t.at = "delete"
    /\ queries' = [queries EXCEPT ![t.query].live = FALSE]
    /\ Served(t, IF queries[t.query].live THEN "deleted" ELSE "failed", t.query)
    /\ UNCHANGED <<exists, requests, faults>>
    /\ Changed

\* A branch is created, restored, deleted or reset.
ServeBranch(t) ==
    /\ t.at = "branch"
    /\ \E b \in Branches \ {Main} : exists' \in {exists, exists \cup {b}, exists \ {b}}
    /\ Served(t, "changed", NoQuery)
    /\ UNCHANGED <<queries, requests, faults>>
    /\ Changed

\* The saved query is the editor's, whatever the editor has been given since.
StillSaving_Always(u, t) == TRUE

StillSaving(u, t) == "editor" \in t.fresh /\ SameContext(u, t)

\* The answers of those requests, or of a query that ran.
AnswerServed(t) ==
    /\ t.at \in {"saved", "deleted", "changed", "failed", "run"}
    /\ \E ok \in BOOLEAN :
        /\ Outcome(ok)
        /\ LET u == Without(t) IN
           ui' = CASE ok /\ t.at = "saved" /\ StillSaving(u, t) -> StartLibrary([u EXCEPT !.active = t.query], t)
                   [] ok /\ t.at = "deleted" ->
                        StartLibrary([u EXCEPT !.active = IF @ = t.query THEN NoQuery ELSE @], t)
                   [] ok /\ t.at = "changed" -> StartLoadAll(u, [t EXCEPT !.flow = "loadAll"])
                   [] t.at = "run" -> StartLibrary(u, t)
                   [] OTHER -> IF t.flow = "save" THEN [u EXCEPT !.saving = FALSE] ELSE u
    /\ UNCHANGED <<server, requests>>

-----------------------------------------------------------------------------
(* The user *)

Request ==
    /\ requests + faults < MaxEvents
    /\ requests' = requests + 1
    /\ UNCHANGED <<server, faults>>

RefreshAll ==
    /\ Request
    /\ ui' = StartLoadAll(ui, NewTask("loadAll"))

ChangeBranches ==
    /\ Request
    /\ ui.page = "other"
    /\ ui' = Await(ui, NewTask("branch"), "branch")

Navigate(page) ==
    /\ Request
    /\ ui' = StartDatabases([ui EXCEPT !.page = page], NewTask(page))

Leave ==
    /\ ui.page # "other"
    /\ ui' = [ui EXCEPT !.page = "other"]
    /\ UNCHANGED <<server, requests, faults>>

\* The sidebar's select.
SelectInSidebar(b) ==
    /\ Request
    /\ b \in ui.branches \ {ui.selected}
    /\ ui' = SelectBranch([Bump(ui, {"library"}) EXCEPT !.page = "other"], b, NewTask("select"))

\* open-restored-branch of a branch that is not listed yet; of one that is, or
\* copy-branch-dsn of another branch, which then only copies: the lists of branches and
\* of endpoints, which offer that, come with different answers.
OpenBranch(b) ==
    /\ Request
    /\ ui.page = "other"
    /\ LET t == [NewTask("loadAll") EXCEPT !.opened = Entry(b, NoDB, "none", NoQuery)] IN
       \/ b \notin ui.branches /\ ui' = StartLoadAll(ui, t)
       \/ ui.branches # {} /\ ui' = SelectBranch(ui, b, [t EXCEPT !.flow = "select"])

\* openSQLInEditor. A branch that is not listed is refused.
Open(entry) ==
    LET t == [NewTask("open") EXCEPT !.opened = entry, !.fresh = {"editor"}]
        u == InvalidateSavedQuery(ui)
    IN  ui' = CASE entry.branch \notin u.branches -> u
                [] entry.branch \in u.branches /\ entry.branch = u.selected -> StartDatabases(u, t)
                [] OTHER -> StartConnection(ClearSQLWriteMode(InvalidateSchema([u EXCEPT !.selected = entry.branch])), t)

OpenSaved(i) ==
    /\ Request
    /\ ui.page = "sql" /\ i \in ui.listed
    /\ Open(Entry(queries[i].branch, queries[i].db, queries[i].text, i))

\* open-schema-query.
OpenInspection ==
    /\ Request
    /\ ui.page = "tables"
    /\ \E context \in ui.detail : Open(Entry(context[1], context[2], "inspection", NoQuery))

\* persistSQLQuery. Without a database it refuses, after it has moved the epoch on.
Save(asNew) ==
    /\ Request
    /\ ui.page = "sql" /\ ~ui.saving
    /\ LET u == Bump(ui, {"editor"})
           t == [NewTask("save") EXCEPT !.fresh = {"editor"}, !.text = u.text,
                                        !.query = IF asNew THEN NoQuery ELSE u.active]
       IN  ui' = IF u.selected \in u.branches /\ SelectedDB(u) # NoDB
                 THEN Await([u EXCEPT !.saving = TRUE], t, "save") ELSE u

Delete(i) ==
    /\ Request
    /\ ui.page = "sql" /\ i \in ui.listed
    /\ ui' = Await(ui, [NewTask("delete") EXCEPT !.query = i], "delete")

Confirmed(u) == u.writes /\ u.selected \in Protected => u.confirm

Run ==
    /\ Request
    /\ ui.page = "sql" /\ "run" \notin ui.off
    /\ ui.selected \in ui.branches /\ Usable(ui) /\ SelectedDB(ui) # NoDB
    /\ Confirmed(ui)
    /\ ui' = Await(Off(ui, {"run", "writes", "db"}), [NewTask("run") EXCEPT !.writes = ui.writes], "run")

TickWrites ==
    /\ ui.page = "sql" /\ "writes" \notin ui.off
    /\ ui' = RenderSQLEditor([ui EXCEPT !.writes = ~@, !.confirm = FALSE, !.armed = Context(ui)])
    /\ UNCHANGED <<server, requests, faults>>

TickConfirm ==
    /\ ui.page = "sql" /\ "confirm" \notin ui.off
    /\ ui' = RenderSQLEditor([ui EXCEPT !.confirm = ~@, !.confirmed = Context(ui)])
    /\ UNCHANGED <<server, requests, faults>>

\* The writes stay enabled.
ChosenDatabase_StaysArmed(u, db) ==
    InvalidateSchema(InvalidateSavedQuery(
        [u EXCEPT !.chosen[u.selected] = db, !.entries[u.selected].required = FALSE]))

ChosenDatabase(u, db) ==
    ClearSQLWriteMode(InvalidateSchema(InvalidateSavedQuery(
        [u EXCEPT !.chosen[u.selected] = db, !.entries[u.selected].required = FALSE])))

\* The selects of the two pages.
ChooseDatabase(db) ==
    /\ Request
    /\ \/ ui.page = "sql" /\ "db" \notin ui.off
       \/ ui.page = "tables" /\ "tables" \notin ui.off
    /\ db # SelectedDB(ui) /\ db \in ui.entries[ui.selected].names
    /\ LET u == RenderContext(ChosenDatabase(ui, db)) IN
       ui' = IF ui.page = "sql" THEN StartLibrary(u, NewTask("sql")) ELSE StartCatalog(u, NewTask("tables"))

\* refresh-schema and select-schema; load-more-schema.
LoadCatalog(flow) ==
    /\ Request
    /\ ui.page = "tables"
    /\ ui' = StartCatalog(ui, NewTask(flow))

SelectTable ==
    /\ Request
    /\ ui.page = "tables" /\ ui.catalog # {}
    /\ ui' = StartDetail(ui, NewTask("detail"))

\* Another client creates or deletes a branch or a saved query.
Elsewhere ==
    /\ Fault
    /\ \/ /\ \E b \in Branches \ {Main} : exists' \in {exists \cup {b}, exists \ {b}} \ {exists}
          /\ UNCHANGED queries
       \/ /\ \/ \E b \in exists, db \in Databases :
                   queries' = Append(queries, [branch |-> b, db |-> db, text |-> "other", live |-> TRUE])
             \/ \E i \in DOMAIN queries :
                   queries[i].live /\ queries' = [queries EXCEPT ![i].live = FALSE]
          /\ UNCHANGED exists
    /\ UNCHANGED <<ui, requests>>
    /\ Changed

-----------------------------------------------------------------------------

\* The script's last statement is loadAll().
Init ==
    LET blank == [branches |-> {}, page |-> "other", selected |-> Main, connection |-> NoConnection,
                  entries |-> [b \in Branches |-> NoEntry], chosen |-> [b \in Branches |-> NoDB],
                  refreshing |-> FALSE, connBusy |-> FALSE, saving |-> FALSE,
                  writes |-> FALSE, confirm |-> FALSE, off |-> {"db", "tables"},
                  text |-> "typed", active |-> NoQuery, listed |-> {}, catalog |-> {}, detail |-> {},
                  armed |-> NoContext, confirmed |-> NoContext, tasks |-> {}]
    IN  /\ exists = Branches
        /\ queries = Library
        /\ versions = <<Now>>
        /\ requests = 0
        /\ faults = 0
        /\ ui = StartLoadAll(blank, NewTask("loadAll"))

Answer(t) ==
    \/ AnswerLists(t) \/ AnswerConnection(t) \/ AnswerDatabases(t) \/ AnswerLibrary(t)
    \/ AnswerCatalog(t) \/ AnswerDetail(t) \/ AnswerServed(t)
    \/ ServeSave(t) \/ ServeDelete(t) \/ ServeBranch(t)

Next ==
    \/ \E t \in ui.tasks : Answer(t)
    \/ RefreshAll \/ ChangeBranches \/ Leave
    \/ \E page \in {"sql", "tables"} : Navigate(page)
    \/ \E b \in Branches : SelectInSidebar(b) \/ OpenBranch(b)
    \/ \E i \in DOMAIN queries : OpenSaved(i) \/ Delete(i)
    \/ OpenInspection \/ SelectTable \/ Run \/ TickWrites \/ TickConfirm
    \/ \E asNew \in BOOLEAN : Save(asNew)
    \/ \E db \in Databases : ChooseDatabase(db)
    \/ \E flow \in {"tables", "more"} : LoadCatalog(flow)
    \/ Elsewhere

Spec == Init /\ [][Next]_vars

-----------------------------------------------------------------------------
(* Properties *)

\* The variables have the values the code gives them; the selected branch is listed.
TypeOK ==
    /\ ui.branches \subseteq Branches
    /\ ui.selected \in Branches /\ (ui.branches # {} => ui.selected \in ui.branches)
    /\ ui.active \in 0..Len(queries)
    /\ ui.listed \subseteq DOMAIN queries
    /\ \A b \in Branches : ui.chosen[b] \in Databases \cup {NoDB} /\ ui.entries[b].names \subseteq Databases
    /\ ui.off \subseteq {"run", "writes", "confirm", "db", "tables"}

\* A query that may write is sent to the branch and the database that were shown when
\* writing was enabled; to a protected branch only with a confirmation that named them.
WritesInContext ==
    [][\A t \in ui'.tasks \ ui.tasks :
          t.at = "run" /\ t.writes =>
              /\ ui.armed = <<t.branch, t.db>>
              /\ t.branch \in Protected => ui.confirm /\ ui.confirmed = <<t.branch, t.db>>]_vars

\* The connection shown is of the selected branch, the tables and the detail are of its
\* selected database, whatever answers came late.
ShownInContext ==
    /\ ui.connection # NoConnection => ui.connection.branch = ui.selected
    /\ SelectedDB(ui) # NoDB => ui.catalog \cup ui.detail \subseteq {Context(ui)}

\* Saving changes the saved query the editor's text comes from, and only while its branch
\* and database are selected.
SavedInContext ==
    ui.active # NoQuery =>
        LET query == queries[ui.active] IN
        /\ query.text = ui.text
        /\ SelectedDB(ui) # NoDB => <<query.branch, query.db>> = Context(ui)

\* The page and its requests agree: while it says that it refreshes or saves, a request is
\* under way whose answer ends that; and a query can be run only when no reload is under
\* way, and the connection and a database of the selected branch are there.
BusyHonest ==
    /\ ui.refreshing => \E t \in ui.tasks : "refresh" \in t.fresh
    /\ ui.connBusy => \E t \in ui.tasks : t.at = "connection" /\ "connection" \in t.fresh
    /\ ui.saving => \E t \in ui.tasks : t.flow = "save"
    /\ "run" \notin ui.off =>
          /\ \A t \in ui.tasks : "refresh" \notin t.fresh
          /\ Usable(ui) /\ SelectedDB(ui) # NoDB
          /\ ~ui.entries[ui.selected].loading

=============================================================================
