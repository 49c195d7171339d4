---------------------------- MODULE ConsoleProofs ----------------------------
(***************************************************************************)
(* The properties of Console, for any branches, databases and saved        *)
(* queries and any number of events, in two parts. The first follows one   *)
(* page through every function of the script: what it shows and may write  *)
(* to is of the context it stands for (Good, for WritesInContext and       *)
(* ShownInContext). The second follows the page with its requests and the  *)
(* controller: what they know of each other (Consistent, for TypeOK,       *)
(* SavedInContext and BusyHonest). Consistent contains Good, and is the    *)
(* inductive invariant of all five.                                        *)
(***************************************************************************)
EXTENDS Console, TLAPS

PageFields ==
    {"branches", "page", "selected", "connection", "entries", "chosen", "refreshing",
     "connBusy", "saving", "writes", "confirm", "off", "text", "active", "listed",
     "catalog", "detail", "armed", "confirmed", "tasks"}

TaskFields ==
    {"id", "flow", "at", "branch", "db", "fresh", "since", "opened", "page", "previous", "query",
     "text", "writes"}

EntryType ==
    [known : BOOLEAN, names : SUBSET Databases, loading : BOOLEAN, error : BOOLEAN,
     required : BOOLEAN]

TaskShape(t) ==
    /\ t = [f \in TaskFields |-> t[f]]
    /\ t.previous \in EntryType

\* A query under way has no epoch, which would change it; a page of tables names a database.
TaskSound(t) ==
    /\ TaskShape(t)
    /\ t.at = "run" => t.fresh = {}
    /\ t.at = "catalog" => t.db # NoDB

\* What renderBranchDatabaseSelector needs to find the remembered database in its list.
EntrySound(entry, chosen) ==
    /\ entry.required => entry.known
    /\ entry.names = {} => chosen \in {NoDB, Default}
    /\ ~entry.known => chosen \in entry.names \cup {NoDB, Default}
    /\ ~entry.loading /\ ~entry.error /\ entry.names # {} => Default \in entry.names

PageSound(u) ==
    /\ u = [f \in PageFields |-> u[f]]
    /\ u.branches \subseteq Branches
    /\ u.selected \in Branches
    /\ u.entries \in [Branches -> EntryType]
    /\ u.chosen \in [Branches -> Databases \cup {NoDB}]
    /\ \A b \in Branches : EntrySound(u.entries[b], u.chosen[b])
    /\ u.writes \in BOOLEAN
    /\ u.confirm \in BOOLEAN
    /\ \A t \in u.tasks : TaskSound(t)

\* The context the page stands for, also while its database must be chosen again.
Wanted(u) ==
    <<u.selected, IF u.chosen[u.selected] = NoDB THEN Default ELSE u.chosen[u.selected]>>

\* Writing was enabled and confirmed for that context.
ArmedWell(u) ==
    /\ u.writes => u.armed = Wanted(u)
    /\ u.confirm => u.confirmed = Wanted(u)

TablesWell(u) == u.catalog \cup u.detail \subseteq {Wanted(u)}

ConnectionWell(u) == u.connection # NoConnection => u.connection.branch = u.selected

Good(u) ==
    /\ PageSound(u)
    /\ ArmedWell(u)
    /\ TablesWell(u)
    /\ ConnectionWell(u)

\* No query is sent from u to v.
SendsNothing(u, v) == \A t \in v.tasks : t.at = "run" => t \in u.tasks

\* v stands for the context of u, and neither shows nor enables more than u.
Follows(u, v) ==
    /\ PageSound(v)
    /\ v.branches = u.branches
    /\ v.selected = u.selected
    /\ Wanted(v) = Wanted(u)
    /\ v.connection \in {u.connection, NoConnection}
    /\ v.catalog \subseteq u.catalog
    /\ v.detail \subseteq u.detail
    /\ v.writes => u.writes /\ v.armed = u.armed
    /\ v.confirm => u.confirm /\ v.confirmed = u.confirmed
    /\ SendsNothing(u, v)

LEMMA FollowsItself == ASSUME NEW u, PageSound(u) PROVE Follows(u, u)
  BY DEF Follows, SendsNothing

LEMMA FollowsOn ==
    ASSUME NEW u, NEW v, NEW w, Follows(u, v), Follows(v, w)
    PROVE  Follows(u, w)
  BY DEF Follows, SendsNothing

LEMMA GoodFollows ==
    ASSUME NEW u, NEW v, Good(u), Follows(u, v)
    PROVE  Good(v)
  BY DEF Follows, Good, ArmedWell, TablesWell, ConnectionWell

LEMMA OffFollows ==
    ASSUME NEW u, PageSound(u), NEW controls
    PROVE  LET v == Off(u, controls) IN
           /\ Follows(u, v) /\ PageSound(v)
           /\ v.connection = u.connection /\ v.writes = u.writes /\ v.confirm = u.confirm
  BY DEF Follows, PageSound, PageFields, Off, Wanted, SendsNothing

LEMMA OnFollows ==
    ASSUME NEW u, PageSound(u), NEW controls
    PROVE  LET v == On(u, controls) IN
           /\ Follows(u, v) /\ PageSound(v)
           /\ v.connection = u.connection /\ v.writes = u.writes /\ v.confirm = u.confirm
  BY DEF Follows, PageSound, PageFields, On, Wanted, SendsNothing

LEMMA BumpFollows ==
    ASSUME NEW u, PageSound(u), NEW epochs
    PROVE  Follows(u, Bump(u, epochs)) /\ Bump(u, epochs).connection = u.connection
  <1> DEFINE T(t) == [t EXCEPT !.fresh = @ \ epochs]
             v == [u EXCEPT !.tasks = {T(t) : t \in u.tasks}]
  <1>1. \A t \in u.tasks : TaskSound(T(t)) /\ T(t).at = t.at /\ (t.at = "run" => T(t) = t)
    BY ZenonT(60) DEF PageSound, TaskSound, TaskShape, TaskFields
  <1>2. v = [f \in PageFields |-> v[f]] /\ v.tasks = {T(t) : t \in u.tasks}
    BY DEF PageSound, PageFields
  <1>3. /\ v.branches = u.branches /\ v.selected = u.selected /\ v.entries = u.entries
        /\ v.chosen = u.chosen /\ v.writes = u.writes /\ v.confirm = u.confirm
        /\ v.armed = u.armed /\ v.confirmed = u.confirmed /\ v.connection = u.connection
        /\ v.catalog = u.catalog /\ v.detail = u.detail
    BY DEF PageSound, PageFields
  <1>4. \A t \in v.tasks : TaskSound(t) /\ (t.at = "run" => t \in u.tasks)
    <2> HIDE DEF T
    <2> QED BY <1>1, <1>2
  <1>5. PageSound(v)
    <2> HIDE DEF v
    <2> QED BY <1>2, <1>3, <1>4 DEF PageSound
  <1>6. Follows(u, v)
    <2> HIDE DEF v
    <2> QED BY <1>3, <1>4, <1>5 DEF Follows, Wanted, SendsNothing
  <1> QED BY <1>3, <1>6 DEF Bump

\* A select shows the remembered database, or the default, and remembers what it shows.
LEMMA SelectorFollows ==
    ASSUME NEW u, PageSound(u)
    PROVE  LET v == RenderDatabaseSelector(u) IN
           /\ Follows(u, v) /\ v.connection = u.connection
           /\ v.writes = u.writes /\ v.confirm = u.confirm
           /\ Usable(u) /\ ~v.entries[u.selected].loading /\ ~v.entries[u.selected].required
                 => Context(u) = Wanted(u)
  <1> DEFINE b == u.selected
             entry == u.entries[b]
             names == IF entry.names = {} THEN {Default} ELSE entry.names
             required == DatabaseRequired(entry, u.chosen[b], names)
             v == [u EXCEPT !.entries[b].required = required]
             wanted == IF SelectedDB(v) = NoDB THEN Default ELSE SelectedDB(v)
             value == IF wanted \in names THEN wanted ELSE CHOOSE name \in names : TRUE
             w == [v EXCEPT !.chosen[b] = IF required \/ entry.error THEN @ ELSE value]
  <1>1. b \in Branches /\ entry \in EntryType /\ EntrySound(entry, u.chosen[b])
        /\ u.chosen[b] \in Databases \cup {NoDB} /\ names \subseteq Databases
        /\ required \in BOOLEAN
    BY DefaultAssumption DEF PageSound, EntryType, DatabaseRequired
  <1>2. /\ v.entries = [u.entries EXCEPT ![b] = [entry EXCEPT !.required = required]]
        /\ v.selected = b /\ v.chosen = u.chosen /\ v.connection = u.connection
    BY <1>1 DEF PageSound, PageFields
  <1>3. v.entries[b] = [entry EXCEPT !.required = required]
    BY <1>1, <1>2 DEF PageSound
  <1>4. ASSUME Usable(u), ~entry.loading, ~required, ~entry.error
        PROVE  value = IF u.chosen[b] = NoDB THEN Default ELSE u.chosen[b]
    <2>1. u.connection # NoConnection
      BY <1>4 DEF Usable, NoConnection
    <2>2. SelectedDB(v) = IF u.chosen[b] = NoDB THEN Default ELSE u.chosen[b]
      BY <1>1, <1>2, <1>3, <1>4, <2>1 DEF SelectedDB, EntryType
    <2>3. wanted \in names
      BY <1>1, <1>4, <2>2 DEF EntrySound, DatabaseRequired, EntryType
    <2> QED BY <2>2, <2>3, <1>1, MarkerAssumption, DefaultAssumption
  <1>5. CASE ~Usable(u) \/ entry.loading
    <2>1. RenderDatabaseSelector(u) = Off(u, {"db", "tables"})
      BY <1>5 DEF RenderDatabaseSelector
    <2>2. /\ Follows(u, Off(u, {"db", "tables"}))
          /\ Off(u, {"db", "tables"}).entries = u.entries
          /\ Off(u, {"db", "tables"}).connection = u.connection
          /\ Off(u, {"db", "tables"}).writes = u.writes
          /\ Off(u, {"db", "tables"}).confirm = u.confirm
      BY OffFollows DEF Off, PageSound, PageFields
    <2> QED BY <2>1, <2>2, <1>5
  <1>6. CASE Usable(u) /\ ~entry.loading
    <2>1. RenderDatabaseSelector(u) = On(w, {"db", "tables"})
      BY <1>6, SMTT(30) DEF RenderDatabaseSelector
    <2>2. /\ w = [f \in PageFields |-> w[f]]
          /\ w.entries = v.entries
          /\ w.chosen = [u.chosen EXCEPT ![b] = IF required \/ entry.error THEN @ ELSE value]
          /\ w.branches = u.branches /\ w.selected = u.selected /\ w.connection = u.connection
          /\ w.catalog = u.catalog /\ w.detail = u.detail /\ w.tasks = u.tasks
          /\ w.writes = u.writes /\ w.confirm = u.confirm
          /\ w.armed = u.armed /\ w.confirmed = u.confirmed
      BY <1>2, ZenonT(60) DEF PageSound, PageFields
    <2>3. /\ b = u.selected /\ entry = u.entries[b]
          /\ names = IF entry.names = {} THEN {Default} ELSE entry.names
          /\ required <=> entry.known /\ (entry.required \/ (u.chosen[b] # NoDB /\ u.chosen[b] \notin names))
      BY DEF DatabaseRequired
    <2> HIDE DEF b, entry, names, required, v, wanted, value, w
    <2>4. /\ w.entries = [u.entries EXCEPT ![b] = [entry EXCEPT !.required = required]]
          /\ w.entries[b] = [entry EXCEPT !.required = required]
      BY <1>2, <1>3, <2>2
    <2>5. w.chosen[b] = u.chosen[b]
          \/ /\ ~required /\ ~entry.error
             /\ u.chosen[b] = NoDB /\ w.chosen[b] = Default
      BY <2>2, <1>4, <1>6, <1>1 DEF PageSound
    <2>6. PageSound(w)
      <3>1. w.entries \in [Branches -> EntryType]
        BY <2>4, <1>1, ZenonT(60) DEF PageSound, EntryType
      <3>2. w.chosen \in [Branches -> Databases \cup {NoDB}]
        BY <2>2, <2>5, <1>1, DefaultAssumption, SMTT(30) DEF PageSound
      <3>3. EntrySound(w.entries[b], w.chosen[b])
        BY <2>3, <2>4, <2>5, <1>1 DEF EntrySound, EntryType
      <3>4. \A c \in Branches \ {b} : w.entries[c] = u.entries[c] /\ w.chosen[c] = u.chosen[c]
        BY <2>2, <2>4, <1>1 DEF PageSound
      <3> QED BY <2>2, <3>1, <3>2, <3>3, <3>4 DEF PageSound
    <2>7. Wanted(w) = Wanted(u)
      BY <2>2, <2>3, <2>5 DEF Wanted
    <2>8. Follows(u, w)
      BY <2>2, <2>6, <2>7 DEF Follows, SendsNothing
    <2>9. /\ On(w, {"db", "tables"}).entries = w.entries
          /\ On(w, {"db", "tables"}).connection = w.connection
          /\ On(w, {"db", "tables"}).writes = w.writes
          /\ On(w, {"db", "tables"}).confirm = w.confirm
      BY <2>2 DEF On, PageFields
    <2>10. Follows(u, On(w, {"db", "tables"}))
      BY <2>6, <2>8, OnFollows, FollowsOn
    <2>11. ~w.entries[b].required => Context(u) = Wanted(u)
      <3>1. ~w.entries[b].required => ~required /\ ~entry.required
        BY <2>3, <2>4, <1>1 DEF EntryType, EntrySound
      <3>2. u.connection # NoConnection
        BY <1>6 DEF Usable, NoConnection
      <3> QED BY <3>1, <3>2, <1>1, <2>3 DEF Context, Wanted, SelectedDB, EntryType
    <2> QED BY <2>1, <2>2, <2>3, <2>9, <2>10, <2>11
  <1> QED BY <1>5, <1>6

LEMMA ModeFollows ==
    ASSUME NEW u, PageSound(u)
    PROVE  LET v == ApplySQLMode(u) IN
           /\ Follows(u, v) /\ v.connection = u.connection
           /\ v.writes = u.writes
           /\ v.confirm => v.writes
  <1> DEFINE listed == u.selected \in u.branches
             writing == u.writes /\ "writes" \notin u.off
             confirmation == writing /\ listed /\ u.selected \in Protected
             confirm == u.confirm /\ confirmation
             ready ==
                 /\ listed /\ Usable(u) /\ SelectedDB(u) # NoDB
                 /\ ~u.connBusy /\ ~u.refreshing
                 /\ u.off \cap {"writes", "db"} = {}
                 /\ confirmation => confirm
             armed == IF u.writes THEN u.armed ELSE NoContext
             confirmed == IF confirm THEN u.confirmed ELSE NoContext
             off == (u.off \ {"confirm", "run"}) \cup (IF confirmation THEN {} ELSE {"confirm"})
                                                 \cup (IF ready THEN {} ELSE {"run"})
  <1>1. ApplySQLMode(u) = [u EXCEPT !.confirm = confirm, !.armed = armed,
                                    !.confirmed = confirmed, !.off = off]
    BY DEF ApplySQLMode
  <1>2. confirm \in BOOLEAN /\ (confirm => u.confirm /\ u.writes)
    OBVIOUS
  <1>3. (u.writes => armed = u.armed) /\ (confirm => confirmed = u.confirmed)
    OBVIOUS
  <1> HIDE DEF confirm, armed, confirmed, off
  <1> DEFINE v == ApplySQLMode(u)
  <1>4. /\ v = [f \in PageFields |-> v[f]]
        /\ v.branches = u.branches /\ v.selected = u.selected /\ v.connection = u.connection
        /\ v.entries = u.entries /\ v.chosen = u.chosen /\ v.writes = u.writes
        /\ v.catalog = u.catalog /\ v.detail = u.detail /\ v.tasks = u.tasks
        /\ v.confirm = confirm /\ v.armed = armed /\ v.confirmed = confirmed
    BY <1>1, ZenonT(60) DEF PageSound, PageFields
  <1> HIDE DEF v
  <1>5. PageSound(v)
    BY <1>2, <1>4 DEF PageSound
  <1>6. Follows(u, v)
    BY <1>2, <1>3, <1>4, <1>5 DEF Follows, Wanted, SendsNothing
  <1> QED BY <1>2, <1>4, <1>6 DEF v

LEMMA ClearFollows ==
    ASSUME NEW u, PageSound(u)
    PROVE  LET v == ClearSQLWriteMode(u) IN
           /\ Follows(u, v) /\ v.connection = u.connection
           /\ ~v.writes /\ ~v.confirm
  <1> DEFINE w == [u EXCEPT !.writes = FALSE, !.confirm = FALSE]
  <1>1. Follows(u, w) /\ w.connection = u.connection /\ w.writes = FALSE
    BY DEF Follows, PageSound, PageFields, Wanted, SendsNothing
  <1>2. PageSound(w)
    BY <1>1 DEF Follows
  <1> HIDE DEF w
  <1>3. /\ Follows(w, ApplySQLMode(w)) /\ ApplySQLMode(w).connection = w.connection
        /\ ~ApplySQLMode(w).writes /\ ~ApplySQLMode(w).confirm
    BY <1>1, <1>2, ModeFollows
  <1>4. ClearSQLWriteMode(u) = ApplySQLMode(w)
    BY DEF ClearSQLWriteMode, w
  <1> QED BY <1>1, <1>3, <1>4, FollowsOn

\* After a render writing is enabled only where the context is what the page shows.
LEMMA EditorFollows ==
    ASSUME NEW u, PageSound(u)
    PROVE  LET v == RenderSQLEditor(u) IN
           /\ Follows(u, v) /\ v.connection = u.connection
           /\ v.writes \/ v.confirm => Context(u) = Wanted(u)
  <1> DEFINE v == RenderSQLEditor(u)
  <1>1. CASE u.selected \in u.branches /\ (u.refreshing \/ u.connBusy)
    <2> DEFINE w == Off(u, {"run", "writes", "confirm", "db"})
    <2>1. v = ClearSQLWriteMode(w)
      BY <1>1 DEF RenderSQLEditor
    <2>2. Follows(u, w) /\ PageSound(w) /\ w.connection = u.connection
      BY OffFollows
    <2> HIDE DEF w
    <2> QED BY <2>1, <2>2, ClearFollows, FollowsOn
  <1>2. CASE /\ ~(u.selected \in u.branches /\ (u.refreshing \/ u.connBusy))
             /\ u.selected \notin u.branches \/ ~Usable(u)
    <2> DEFINE a == [u EXCEPT !.writes = FALSE]
               w == Off(a, {"run", "writes"})
               x == RenderDatabaseSelector(w)
    <2>1. v = ApplySQLMode(x)
      BY <1>2 DEF RenderSQLEditor
    <2>2. Follows(u, a) /\ PageSound(a) /\ a.connection = u.connection /\ a.writes = FALSE
      BY DEF Follows, PageSound, PageFields, Wanted, SendsNothing
    <2> HIDE DEF a
    <2>3. Follows(a, w) /\ PageSound(w) /\ w.connection = a.connection /\ w.writes = FALSE
      BY <2>2, OffFollows
    <2> HIDE DEF w
    <2>4. Follows(w, x) /\ PageSound(x) /\ x.connection = w.connection /\ x.writes = FALSE
      BY <2>3, SelectorFollows DEF Follows
    <2> HIDE DEF x
    <2>5. Follows(x, v) /\ v.connection = x.connection /\ ~v.writes /\ ~v.confirm
      BY <2>1, <2>4, ModeFollows
    <2> QED BY <2>2, <2>3, <2>4, <2>5, FollowsOn
  <1>3. CASE /\ ~(u.selected \in u.branches /\ (u.refreshing \/ u.connBusy))
             /\ ~(u.selected \notin u.branches \/ ~Usable(u))
    <2> DEFINE x == RenderDatabaseSelector(u)
               held == x.entries[x.selected].loading \/ x.entries[x.selected].required
               a == Off(x, {"run", "writes"})
               c == On(x, {"run", "writes"})
    <2>1. v = IF held THEN ClearSQLWriteMode(a) ELSE ApplySQLMode(c)
      BY <1>3 DEF RenderSQLEditor
    <2>2. Follows(u, x) /\ PageSound(x) /\ x.connection = u.connection
      BY SelectorFollows DEF Follows
    <2>3. ~held => Context(u) = Wanted(u)
      BY <1>3, <2>2, SelectorFollows DEF Follows
    <2> HIDE DEF x, held
    <2>4. Follows(x, a) /\ PageSound(a) /\ a.connection = x.connection
      BY <2>2, OffFollows
    <2>5. Follows(x, c) /\ PageSound(c) /\ c.connection = x.connection
      BY <2>2, OnFollows
    <2> HIDE DEF a, c
    <2>6. CASE held
      BY <2>1, <2>2, <2>4, <2>6, ClearFollows, FollowsOn
    <2>7. CASE ~held
      BY <2>1, <2>2, <2>3, <2>5, <2>7, ModeFollows, FollowsOn
    <2> QED BY <2>6, <2>7
  <1> QED BY <1>1, <1>2, <1>3

LEMMA ContextFollows ==
    ASSUME NEW u, PageSound(u)
    PROVE  Follows(u, RenderContext(u)) /\ RenderContext(u).connection = u.connection
  <1> DEFINE v == RenderSQLEditor(u)
  <1>1. Follows(u, v) /\ PageSound(v) /\ v.connection = u.connection
    BY EditorFollows DEF Follows
  <1> HIDE DEF v
  <1>2. Follows(v, RenderDatabaseSelector(v)) /\ RenderDatabaseSelector(v).connection = v.connection
    BY <1>1, SelectorFollows
  <1>3. RenderContext(u) = RenderDatabaseSelector(v)
    BY DEF RenderContext, v
  <1> QED BY <1>1, <1>2, <1>3, FollowsOn

LEMMA InvalidateQueryFollows ==
    ASSUME NEW u, PageSound(u)
    PROVE  LET v == InvalidateSavedQuery(u) IN
           Follows(u, v) /\ v.connection = u.connection
  <1> DEFINE a == [u EXCEPT !.active = NoQuery]
  <1>1. Follows(u, a) /\ PageSound(a) /\ a.connection = u.connection
    BY DEF Follows, PageSound, PageFields, Wanted, SendsNothing
  <1> HIDE DEF a
  <1>2. InvalidateSavedQuery(u) = Bump(a, {"editor"})
    BY DEF InvalidateSavedQuery, a
  <1> QED BY <1>1, <1>2, BumpFollows, FollowsOn

LEMMA InvalidateSchemaFollows ==
    ASSUME NEW u, PageSound(u)
    PROVE  LET v == InvalidateSchema(u) IN
           /\ Follows(u, v) /\ v.connection = u.connection
           /\ v.catalog = {} /\ v.detail = {}
  <1> DEFINE a == [u EXCEPT !.catalog = {}, !.detail = {}]
  <1>1. /\ Follows(u, a) /\ PageSound(a) /\ a.connection = u.connection
        /\ a.catalog = {} /\ a.detail = {}
    BY DEF Follows, PageSound, PageFields, Wanted, SendsNothing
  <1> HIDE DEF a
  <1>2. InvalidateSchema(u) = Bump(a, {"catalog", "detail"})
    BY DEF InvalidateSchema, a
  <1>3. Follows(a, Bump(a, {"catalog", "detail"})) /\ Bump(a, {"catalog", "detail"}).connection = a.connection
    BY <1>1, BumpFollows
  <1> QED BY <1>1, <1>2, <1>3, FollowsOn DEF Follows

LEMMA ConnectionSet ==
    ASSUME NEW u, PageSound(u), NEW connection
    PROVE  LET v == SetConnection(u, connection) IN
           /\ PageSound(v) /\ v.connection = connection
           /\ v.branches = u.branches /\ v.selected = u.selected /\ Wanted(v) = Wanted(u)
           /\ v.catalog \subseteq u.catalog /\ v.detail \subseteq u.detail
           /\ v.writes => u.writes /\ v.armed = u.armed
           /\ v.confirm => u.confirm /\ v.confirmed = u.confirmed
           /\ SendsNothing(u, v)
  <1> DEFINE a == [u EXCEPT !.connection = connection]
  <1>1. /\ PageSound(a) /\ a.connection = connection
        /\ a.branches = u.branches /\ a.selected = u.selected /\ a.chosen = u.chosen
        /\ a.catalog = u.catalog /\ a.detail = u.detail /\ a.tasks = u.tasks
        /\ a.writes = u.writes /\ a.armed = u.armed
        /\ a.confirm = u.confirm /\ a.confirmed = u.confirmed
    BY DEF PageSound, PageFields
  <1> HIDE DEF a
  <1>2. SetConnection(u, connection) = Bump(a, {"object"})
    BY DEF SetConnection, a
  <1>3. Follows(a, Bump(a, {"object"})) /\ Bump(a, {"object"}).connection = connection
    BY <1>1, BumpFollows
  <1> QED BY <1>1, <1>2, <1>3 DEF Follows, Wanted, SendsNothing

-----------------------------------------------------------------------------
(* Functions up to their first await *)

\* The page is good and no query has been sent.
Advances(u, v) == Good(v) /\ SendsNothing(u, v)

LEMMA FollowsAdvances ==
    ASSUME NEW u, NEW v, Good(u), Follows(u, v)
    PROVE  Advances(u, v)
  BY GoodFollows DEF Advances, Follows

LEMMA AdvancesOn ==
    ASSUME NEW u, NEW v, NEW w, SendsNothing(u, v), Advances(v, w)
    PROVE  Advances(u, w)
  BY DEF Advances, SendsNothing

LEMMA ReadsShape ==
    ASSUME NEW t, TaskShape(t), NEW epoch
    PROVE  TaskShape(Reads(t, epoch)) /\ Reads(t, epoch).at = t.at /\ Reads(t, epoch).flow = t.flow
  BY DEF TaskShape, TaskFields, Reads

\* A task with another await is no query.
LEMMA TaskAdded ==
    ASSUME NEW u, PageSound(u), NEW t, TaskSound(t), t.at # "run"
    PROVE  LET v == [u EXCEPT !.tasks = @ \cup {t}] IN
           Follows(u, v) /\ v.connection = u.connection
  <1> DEFINE v == [u EXCEPT !.tasks = @ \cup {t}]
  <1>1. /\ v = [f \in PageFields |-> v[f]]
        /\ v.branches = u.branches /\ v.selected = u.selected /\ v.connection = u.connection
        /\ v.entries = u.entries /\ v.chosen = u.chosen /\ v.writes = u.writes
        /\ v.catalog = u.catalog /\ v.detail = u.detail /\ v.tasks = u.tasks \cup {t}
        /\ v.confirm = u.confirm /\ v.armed = u.armed /\ v.confirmed = u.confirmed
    BY DEF PageSound, PageFields
  <1> HIDE DEF v
  <1>2. PageSound(v)
    BY <1>1 DEF PageSound
  <1> QED BY <1>1, <1>2 DEF Follows, Wanted, SendsNothing, v

LEMMA AwaitFollows ==
    ASSUME NEW u, PageSound(u), NEW t, TaskShape(t), NEW at, at \notin {"run", "catalog"}
    PROVE  Follows(u, Await(u, t, at)) /\ Await(u, t, at).connection = u.connection
  <1> DEFINE s == [t EXCEPT !.at = at, !.branch = u.selected, !.db = SelectedDB(u),
                            !.since = Len(versions)]
  <1>1. TaskSound(s) /\ s.at # "run"
    BY DEF TaskSound, TaskShape, TaskFields
  <1> HIDE DEF s
  <1>2. Await(u, t, at) = [u EXCEPT !.tasks = @ \cup {s}]
    BY DEF Await, s
  <1> QED BY <1>1, <1>2, TaskAdded

LEMMA StartLibraryFollows ==
    ASSUME NEW u, PageSound(u), NEW t, TaskShape(t)
    PROVE  Follows(u, StartLibrary(u, t))
  <1> DEFINE v == Bump(u, {"library"})
             s == Reads(t, "library")
  <1>1. Follows(u, v) /\ PageSound(v) /\ TaskShape(s)
    BY BumpFollows, ReadsShape DEF Follows
  <1> HIDE DEF v, s
  <1>2. Follows(v, Await(v, s, "library"))
    BY <1>1, AwaitFollows
  <1> QED BY <1>1, <1>2, FollowsOn DEF StartLibrary, v, s

LEMMA StartDetailFollows ==
    ASSUME NEW u, PageSound(u), NEW t, TaskShape(t)
    PROVE  Follows(u, StartDetail(u, t))
  <1> DEFINE v == Bump(u, {"detail"})
             s == Reads(t, "detail")
  <1>1. Follows(u, v) /\ PageSound(v) /\ TaskShape(s)
    BY BumpFollows, ReadsShape DEF Follows
  <1> HIDE DEF v, s
  <1>2. Follows(v, Await(v, s, "detail"))
    BY <1>1, AwaitFollows
  <1> QED BY <1>1, <1>2, FollowsOn DEF StartDetail, v, s

\* Whatever was connected and armed, the page is good afterwards.
LEMMA StartConnectionGood ==
    ASSUME NEW u, PageSound(u), TablesWell(u), NEW t, TaskShape(t)
    PROVE  Advances(u, StartConnection(u, t))
  <1> DEFINE a == Bump(u, {"connection"})
             c == [a EXCEPT !.connBusy = TRUE, !.writes = FALSE, !.confirm = FALSE]
             d == Off(c, {"run", "writes", "confirm", "db", "tables"})
             v == ApplySQLMode(d)
             x == SetConnection(v, NoConnection)
             y == ClearSQLWriteMode(x)
             w == IF v.connection # NoConnection /\ v.connection.branch # v.selected
                  THEN RenderContext(y) ELSE v
             s == Reads(t, "connection")
  <1>1. StartConnection(u, t) = Await(w, s, "connection")
    BY DEF StartConnection
  <1>2. Follows(u, a) /\ PageSound(a) /\ TaskShape(s)
    BY BumpFollows, ReadsShape DEF Follows
  <1> HIDE DEF a, s
  <1>3. /\ Follows(a, c) /\ PageSound(c)
        /\ c.writes = FALSE /\ c.confirm = FALSE /\ c.connection = a.connection
    BY <1>2 DEF Follows, PageSound, PageFields, Wanted, SendsNothing
  <1> HIDE DEF c
  <1>4. /\ Follows(c, d) /\ PageSound(d)
        /\ d.writes = FALSE /\ d.confirm = FALSE
    BY <1>3, OffFollows
  <1> HIDE DEF d
  <1>5. /\ Follows(d, v) /\ PageSound(v) /\ ~v.writes /\ ~v.confirm
    BY <1>4, ModeFollows DEF Follows
  <1> HIDE DEF v
  <1>6. Follows(u, v)
    BY <1>2, <1>3, <1>4, <1>5, FollowsOn
  <1>7. Follows(u, w) /\ ConnectionWell(w) /\ ~w.writes /\ ~w.confirm
    <2>1. CASE v.connection # NoConnection /\ v.connection.branch # v.selected
      <3>1. Follows(v, x) /\ PageSound(x) /\ x.connection = NoConnection
        BY <1>5, ConnectionSet DEF Follows
      <3> HIDE DEF x
      <3>2. /\ Follows(x, y) /\ PageSound(y) /\ y.connection = NoConnection
            /\ ~y.writes /\ ~y.confirm
        BY <3>1, ClearFollows DEF Follows
      <3> HIDE DEF y
      <3>3. Follows(y, w) /\ w.connection = NoConnection
        BY <2>1, <3>2, ContextFollows
      <3> HIDE DEF w
      <3>4. Follows(u, w)
        BY <1>6, <3>1, <3>2, <3>3, FollowsOn
      <3> QED BY <3>2, <3>3, <3>4 DEF Follows, ConnectionWell
    <2>2. CASE ~(v.connection # NoConnection /\ v.connection.branch # v.selected)
      BY <1>5, <1>6, <2>2 DEF ConnectionWell
    <2> QED BY <2>1, <2>2
  <1> HIDE DEF w
  <1>8. PageSound(w) /\ TablesWell(w) /\ ArmedWell(w)
    BY <1>7 DEF Follows, TablesWell, ArmedWell
  <1>9. Good(w)
    BY <1>7, <1>8 DEF Good
  <1>10. Advances(w, Await(w, s, "connection"))
    BY <1>2, <1>9, AwaitFollows, FollowsAdvances DEF Good
  <1> QED BY <1>1, <1>7, <1>10, AdvancesOn DEF Follows

\* A selected branch that is not listed gives way to main.
LEMMA NormalizeGood ==
    ASSUME NEW a, PageSound(a), TablesWell(a)
    PROVE  LET v == Normalize(a) IN
           PageSound(v) /\ TablesWell(v) /\ SendsNothing(a, v)
  <1> DEFINE c == [a EXCEPT !.selected = Main]
             d == InvalidateSavedQuery(c)
             e == InvalidateSchema(d)
  <1>1. PageSound(c) /\ c.tasks = a.tasks
    BY MainAssumption DEF PageSound, PageFields
  <1> HIDE DEF c
  <1>2. Follows(c, d) /\ PageSound(d)
    BY <1>1, InvalidateQueryFollows DEF Follows
  <1> HIDE DEF d
  <1>3. Follows(d, e) /\ e.catalog = {} /\ e.detail = {}
    BY <1>2, InvalidateSchemaFollows
  <1>4. Normalize(a) = IF a.selected \in a.branches THEN a ELSE e
    BY DEF Normalize, c, d
  <1> HIDE DEF e
  <1>5. PageSound(e) /\ TablesWell(e) /\ SendsNothing(a, e)
    BY <1>1, <1>2, <1>3 DEF Follows, TablesWell, SendsNothing
  <1> QED BY <1>4, <1>5 DEF SendsNothing

LEMMA SelectBranchGood ==
    ASSUME NEW u, PageSound(u), NEW b \in Branches, NEW t, TaskShape(t)
    PROVE  Advances(u, SelectBranch(u, b, t))
  <1> DEFINE a == [u EXCEPT !.selected = b]
             c == InvalidateSavedQuery(a)
             d == InvalidateSchema(c)
             e == ClearSQLWriteMode(d)
  <1>1. PageSound(a) /\ a.tasks = u.tasks
    BY DEF PageSound, PageFields
  <1> HIDE DEF a
  <1>2. Follows(a, c) /\ PageSound(c)
    BY <1>1, InvalidateQueryFollows DEF Follows
  <1> HIDE DEF c
  <1>3. Follows(c, d) /\ PageSound(d) /\ d.catalog = {} /\ d.detail = {}
    BY <1>2, InvalidateSchemaFollows DEF Follows
  <1> HIDE DEF d
  <1>4. Follows(d, e) /\ PageSound(e)
    BY <1>3, ClearFollows DEF Follows
  <1> HIDE DEF e
  <1>5. TablesWell(e) /\ SendsNothing(u, e)
    BY <1>1, <1>2, <1>3, <1>4 DEF Follows, TablesWell, SendsNothing
  <1> DEFINE n == Normalize(e)
  <1>6. PageSound(n) /\ TablesWell(n) /\ SendsNothing(e, n)
    BY <1>4, <1>5, NormalizeGood
  <1>7. SelectBranch(u, b, t) = StartConnection(n, t)
    BY DEF SelectBranch, a, c, d, e
  <1> HIDE DEF n
  <1>8. Advances(n, StartConnection(n, t))
    BY <1>6, StartConnectionGood
  <1>9. SendsNothing(u, n)
    BY <1>5, <1>6 DEF SendsNothing
  <1> QED BY <1>7, <1>8, <1>9, AdvancesOn

LEMMA EndLoadAllGood ==
    ASSUME NEW u, Good(u), NEW t, TaskShape(t)
    PROVE  Advances(u, EndLoadAll(u, t))
  <1> DEFINE b == t.opened.branch
             a == [u EXCEPT !.page = "other"]
             s == [t EXCEPT !.flow = "select", !.fresh = {}]
  <1>1. CASE b \in u.branches
    <2>1. EndLoadAll(u, t) = SelectBranch(a, b, s)
      BY <1>1 DEF EndLoadAll
    <2>2. PageSound(a) /\ a.tasks = u.tasks /\ TaskShape(s) /\ b \in Branches
      BY <1>1 DEF Good, PageSound, PageFields, TaskShape, TaskFields
    <2> HIDE DEF a, b, s
    <2> QED BY <2>1, <2>2, SelectBranchGood, AdvancesOn DEF SendsNothing
  <1>2. CASE b \notin u.branches
    BY <1>2, FollowsItself, FollowsAdvances DEF EndLoadAll, Good
  <1> QED BY <1>1, <1>2

LEMMA FinishLoadAllGood ==
    ASSUME NEW u, Good(u), NEW t, TaskShape(t)
    PROVE  Advances(u, FinishLoadAll(u, t))
  <1> DEFINE a == [u EXCEPT !.refreshing = FALSE]
             c == RenderSQLEditor(a)
             v == IF "refresh" \in t.fresh THEN c ELSE u
  <1>1. Follows(u, a) /\ PageSound(a)
    BY DEF Good, Follows, PageSound, PageFields, Wanted, SendsNothing
  <1> HIDE DEF a
  <1>2. Follows(u, v)
    BY <1>1, EditorFollows, FollowsOn, FollowsItself DEF Good
  <1>3. FinishLoadAll(u, t) = EndLoadAll(v, t)
    BY DEF FinishLoadAll, a
  <1> HIDE DEF v
  <1> QED BY <1>2, <1>3, GoodFollows, EndLoadAllGood, AdvancesOn DEF Follows

LEMMA StartCatalogGood ==
    ASSUME NEW u, Good(u), NEW t, TaskShape(t)
    PROVE  Advances(u, StartCatalog(u, t))
  <1> DEFINE v == Bump(u, {"catalog"})
             a == [v EXCEPT !.detail = {}]
             w == IF t.flow = "more" THEN v ELSE Bump(a, {"detail"})
             x == RenderDatabaseSelector(w)
             y == [x EXCEPT !.catalog = {}, !.detail = {}]
             s == [Reads(t, "catalog") EXCEPT !.at = "catalog", !.branch = w.selected,
                                              !.db = SelectedDB(w), !.since = Len(versions)]
             z == [x EXCEPT !.tasks = @ \cup {s}]
             none == w.selected \notin w.branches \/ SelectedDB(w) = NoDB
  <1>1. StartCatalog(u, t) =
            IF none THEN IF t.flow = "loadAll" THEN FinishLoadAll(y, t) ELSE y ELSE z
    BY DEF StartCatalog
  <1>2. Follows(u, v) /\ PageSound(v)
    BY BumpFollows DEF Follows, Good
  <1> HIDE DEF v
  <1>3. Follows(v, a) /\ PageSound(a)
    BY <1>2 DEF Follows, PageSound, PageFields, Wanted, SendsNothing
  <1> HIDE DEF a
  <1>4. Follows(u, w) /\ PageSound(w)
    BY <1>2, <1>3, BumpFollows, FollowsOn DEF Follows
  <1>5. TaskShape(s) /\ s.at = "catalog" /\ s.db = SelectedDB(w)
    <2>1. TaskShape(Reads(t, "catalog"))
      BY ReadsShape
    <2> HIDE DEF w
    <2> QED BY <2>1 DEF TaskShape, TaskFields
  <1> HIDE DEF w, s
  <1>6. Follows(w, x) /\ PageSound(x)
    BY <1>4, SelectorFollows DEF Follows
  <1> HIDE DEF x
  <1>7. Follows(u, x) /\ Good(x)
    BY <1>4, <1>6, FollowsOn, GoodFollows
  <1>8. CASE none
    <2>1. Follows(x, y)
      BY <1>6 DEF Follows, PageSound, PageFields, Wanted, SendsNothing
    <2> HIDE DEF y
    <2>2. Follows(u, y) /\ Good(y)
      BY <1>7, <2>1, FollowsOn, GoodFollows
    <2> QED BY <1>1, <1>8, <2>2, FollowsAdvances, FinishLoadAllGood, AdvancesOn DEF Follows
  <1>9. CASE ~none
    <2>1. TaskSound(s) /\ s.at # "run"
      BY <1>5, <1>9 DEF TaskSound
    <2>2. Follows(x, z)
      BY <1>6, <2>1, TaskAdded
    <2> HIDE DEF none, z
    <2> QED BY <1>1, <1>7, <1>9, <2>2, FollowsOn, FollowsAdvances
  <1> QED BY <1>8, <1>9

\* The branch's database need not be chosen again.
Released(entries, b) == [entries EXCEPT ![b].required = FALSE]

LEMMA EntryReleased ==
    ASSUME NEW entries \in [Branches -> EntryType], NEW b \in Branches
    PROVE  LET new == Released(entries, b) IN
           /\ new \in [Branches -> EntryType]
           /\ \A other \in Branches \ {b} : new[other] = entries[other]
           /\ new[b].required = FALSE
           /\ new[b].names = entries[b].names
           /\ new[b].known = entries[b].known
           /\ new[b].loading = entries[b].loading
           /\ new[b].error = entries[b].error
  <1> DEFINE old == entries[b]
             released == [old EXCEPT !.required = FALSE]
             new == [entries EXCEPT ![b] = released]
  <1>1. /\ released \in EntryType /\ released.required = FALSE
        /\ released.names = old.names /\ released.known = old.known
        /\ released.loading = old.loading /\ released.error = old.error
    <2>1. old \in EntryType
      OBVIOUS
    <2> QED BY <2>1 DEF EntryType
  <1> HIDE DEF released
  <1>2. /\ new \in [Branches -> EntryType] /\ new[b] = released
        /\ \A other \in Branches \ {b} : new[other] = entries[other]
    BY <1>1
  <1>3. new = Released(entries, b)
    BY DEF released, Released
  <1> QED BY <1>1, <1>2, <1>3

\* The database of the opened query is one of those the page lists for the branch.
LEMMA OpenInEditorGood ==
    ASSUME NEW u, Good(u), NEW t, TaskShape(t), u.selected = t.opened.branch,
           t.opened.db \in u.entries[t.opened.branch].names
    PROVE  Advances(u, OpenInEditor(u, t))
  <1> DEFINE b == u.selected
             db == t.opened.db
             v == IF SelectedDB(u) # db THEN InvalidateSchema(u) ELSE u
             a == [v EXCEPT !.chosen[b] = db, !.entries[b].required = FALSE]
             c == ClearSQLWriteMode(a)
             w == RenderSQLEditor(c)
             x == [w EXCEPT !.text = t.opened.text, !.active = t.opened.id, !.page = "sql"]
  <1>1. OpenInEditor(u, t) = StartLibrary(x, t)
    BY DEF OpenInEditor
  <1>2. /\ PageSound(u) /\ b \in Branches /\ db \in Databases /\ db # NoDB
        /\ u.entries[b].names # {} /\ db \in u.entries[b].names
    BY MarkerAssumption, ZenonT(60) DEF Good, PageSound, EntryType
  <1>3. Follows(u, v) /\ PageSound(v) /\ v.connection = u.connection
    BY <1>2, InvalidateSchemaFollows, FollowsItself DEF Follows
  <1>4. v.entries = u.entries /\ v.chosen = u.chosen
    BY <1>2 DEF PageSound, PageFields, InvalidateSchema, Bump
  <1>5. v.catalog \cup v.detail \subseteq {<<b, db>>}
    <2>1. CASE SelectedDB(u) # db
      BY <1>2, <2>1, InvalidateSchemaFollows
    <2>2. CASE SelectedDB(u) = db
      <3>1. Wanted(u) = <<b, db>>
        BY <1>2, <2>2 DEF SelectedDB, Wanted
      <3> QED BY <2>2, <3>1 DEF Good, TablesWell
    <2> QED BY <2>1, <2>2
  <1> HIDE DEF v, db, b
  <1>6. /\ a = [f \in PageFields |-> a[f]]
        /\ a.branches = v.branches /\ a.selected = v.selected /\ a.connection = v.connection
        /\ a.entries = Released(v.entries, b)
        /\ a.chosen = [v.chosen EXCEPT ![b] = db] /\ a.writes = v.writes
        /\ a.catalog = v.catalog /\ a.detail = v.detail /\ a.tasks = v.tasks
        /\ a.confirm = v.confirm
    BY <1>3 DEF PageSound, PageFields, Released
  <1> HIDE DEF a
  <1>7. PageSound(a)
    <2>1. v.entries \in [Branches -> EntryType] /\ v.chosen \in [Branches -> Databases \cup {NoDB}]
      BY <1>3 DEF PageSound
    <2>2. /\ a.entries \in [Branches -> EntryType]
          /\ \A other \in Branches \ {b} : a.entries[other] = v.entries[other]
          /\ a.entries[b].required = FALSE
          /\ a.entries[b].names = v.entries[b].names
          /\ a.entries[b].known = v.entries[b].known
          /\ a.entries[b].loading = v.entries[b].loading
          /\ a.entries[b].error = v.entries[b].error
      <3>1. a.entries = Released(v.entries, b)
        BY <1>6
      <3> DEFINE entries == v.entries
      <3>2. entries \in [Branches -> EntryType] /\ b \in Branches
        BY <1>2, <2>1
      <3> HIDE DEF entries
      <3>3. /\ Released(entries, b) \in [Branches -> EntryType]
            /\ \A other \in Branches \ {b} : Released(entries, b)[other] = entries[other]
            /\ Released(entries, b)[b].required = FALSE
            /\ Released(entries, b)[b].names = entries[b].names
            /\ Released(entries, b)[b].known = entries[b].known
            /\ Released(entries, b)[b].loading = entries[b].loading
            /\ Released(entries, b)[b].error = entries[b].error
        BY <3>2, EntryReleased, Zenon
      <3> QED BY <3>1, <3>3 DEF entries
    <2>3. /\ a.chosen \in [Branches -> Databases \cup {NoDB}]
          /\ a.chosen[b] = db
          /\ \A other \in Branches \ {b} : a.chosen[other] = v.chosen[other]
      BY <1>2, <1>6, <2>1
    <2>4. EntrySound(a.entries[b], a.chosen[b])
      <3>1. EntrySound(v.entries[b], v.chosen[b])
        BY <1>2, <1>3 DEF PageSound
      <3> QED BY <1>2, <1>4, <2>2, <2>3, <3>1 DEF EntrySound
    <2> QED BY <1>3, <1>6, <2>2, <2>3, <2>4 DEF PageSound
  <1>8. TablesWell(a) /\ ConnectionWell(a) /\ SendsNothing(u, a)
    <2>1. Wanted(a) = <<b, db>>
      BY <1>2, <1>3, <1>6, b = u.selected DEF Wanted, Follows, PageSound, b
    <2> QED BY <1>3, <1>5, <1>6, <2>1 DEF TablesWell, ConnectionWell, Good, Follows, SendsNothing
  <1>9. Follows(a, c) /\ ~c.writes /\ ~c.confirm
    BY <1>7, ClearFollows
  <1> HIDE DEF c
  <1>10. Good(c)
    BY <1>8, <1>9 DEF Good, ArmedWell, TablesWell, ConnectionWell, Follows
  <1>11. Follows(c, w) /\ PageSound(w)
    BY <1>10, EditorFollows DEF Good, Follows
  <1> HIDE DEF w
  <1>12. Follows(w, x) /\ PageSound(x)
    BY <1>11 DEF Follows, PageSound, PageFields, Wanted, SendsNothing
  <1> HIDE DEF x
  <1>13. Follows(x, StartLibrary(x, t))
    BY <1>12, StartLibraryFollows
  <1>14. Advances(c, StartLibrary(x, t))
    BY <1>10, <1>11, <1>12, <1>13, FollowsOn, FollowsAdvances
  <1>15. SendsNothing(u, c)
    BY <1>8, <1>9 DEF Follows, SendsNothing
  <1> QED BY <1>1, <1>14, <1>15, AdvancesOn

LEMMA AfterDatabasesGood ==
    ASSUME NEW u, Good(u), NEW t, TaskShape(t)
    PROVE  Advances(u, AfterDatabases(u, t))
  <1>1. Advances(u, StartCatalog(u, t)) /\ Advances(u, StartLibrary(u, t)) /\ Advances(u, u)
    BY StartCatalogGood, StartLibraryFollows, FollowsItself, FollowsAdvances DEF Good
  <1>2. CASE t.flow = "loadAll"
    BY <1>1, <1>2 DEF AfterDatabases
  <1>3. CASE t.flow = "sql"
    BY <1>1, <1>3 DEF AfterDatabases
  <1>4. CASE t.flow = "tables"
    BY <1>1, <1>4 DEF AfterDatabases
  <1>5. CASE t.flow \notin {"loadAll", "sql", "tables"}
    <2>1. CASE StillOpening(u, t) /\ t.opened.db \in u.entries[t.opened.branch].names
      BY <1>5, <2>1, OpenInEditorGood DEF AfterDatabases, StillOpening
    <2>2. CASE ~(StillOpening(u, t) /\ t.opened.db \in u.entries[t.opened.branch].names)
      BY <1>1, <1>5, <2>2 DEF AfterDatabases
    <2> QED BY <2>1, <2>2
  <1> QED BY <1>2, <1>3, <1>4, <1>5

\* Another entry for a branch, whose database stays what it stands for.
LEMMA EntryFollows ==
    ASSUME NEW u, PageSound(u), NEW b \in Branches,
           NEW entry \in EntryType, NEW chosen \in Databases \cup {NoDB},
           EntrySound(entry, chosen),
           chosen = u.chosen[b] \/ (u.chosen[b] = NoDB /\ chosen = Default),
           NEW v, v = [f \in PageFields |-> v[f]],
           v.entries = [u.entries EXCEPT ![b] = entry],
           v.chosen = [u.chosen EXCEPT ![b] = chosen],
           \A f \in PageFields \ {"entries", "chosen"} : v[f] = u[f]
    PROVE  Follows(u, v) /\ v.connection = u.connection
  <1>1. /\ v.branches = u.branches /\ v.selected = u.selected /\ v.connection = u.connection
        /\ v.writes = u.writes /\ v.confirm = u.confirm
        /\ v.armed = u.armed /\ v.confirmed = u.confirmed
        /\ v.catalog = u.catalog /\ v.detail = u.detail /\ v.tasks = u.tasks
    BY DEF PageFields
  <1>2. u.entries \in [Branches -> EntryType] /\ u.chosen \in [Branches -> Databases \cup {NoDB}]
    BY DEF PageSound
  <1>3. /\ v.entries \in [Branches -> EntryType]
        /\ v.chosen \in [Branches -> Databases \cup {NoDB}]
        /\ v.entries[b] = entry /\ v.chosen[b] = chosen
        /\ \A other \in Branches \ {b} : v.entries[other] = u.entries[other] /\ v.chosen[other] = u.chosen[other]
    BY <1>2
  <1>4. PageSound(v)
    BY <1>1, <1>3 DEF PageSound
  <1>5. Wanted(v) = Wanted(u)
    <2>1. CASE u.selected = b
      <3>1. v.selected = b /\ v.chosen[b] \in {u.chosen[b], Default}
        BY <1>1, <1>3, <2>1
      <3>2. v.chosen[b] # u.chosen[b] => u.chosen[b] = NoDB /\ v.chosen[b] = Default
        BY <1>3
      <3> QED BY <2>1, <3>1, <3>2 DEF Wanted
    <2>2. CASE u.selected # b
      <3>1. v.chosen[u.selected] = u.chosen[u.selected]
        BY <1>3, <2>2 DEF PageSound
      <3> QED BY <1>1, <3>1 DEF Wanted
    <2> QED BY <2>1, <2>2
  <1> QED BY <1>1, <1>4, <1>5 DEF Follows, SendsNothing

LEMMA StartDatabasesGood ==
    ASSUME NEW u, Good(u), NEW t, TaskShape(t)
    PROVE  Advances(u, StartDatabases(u, t))
  <1> DEFINE b == u.selected
             entry == u.entries[b]
             loading == [entry EXCEPT !.known = TRUE, !.loading = TRUE, !.error = FALSE]
             v == [u EXCEPT !.entries[b] = loading]
             w == RenderSQLEditor(v)
             s == [Reads(t, "object") EXCEPT !.previous = entry]
             x == RenderDatabaseSelector(u)
  <1>1. b \in Branches /\ entry \in EntryType /\ u.chosen[b] \in Databases \cup {NoDB} /\ PageSound(u)
    BY DEF Good, PageSound
  <1>2. CASE ~Usable(u)
    <2>1. StartDatabases(u, t) = AfterDatabases(x, t)
      BY <1>2 DEF StartDatabases
    <2>2. Follows(u, x)
      BY <1>1, SelectorFollows
    <2> HIDE DEF x
    <2> QED BY <2>1, <2>2, GoodFollows, AfterDatabasesGood, AdvancesOn DEF Follows
  <1>3. CASE Usable(u)
    <2>1. StartDatabases(u, t) = Await(w, s, "databases")
      BY <1>3 DEF StartDatabases
    <2>2. TaskShape(s)
      <3>1. TaskShape(Reads(t, "object"))
        BY ReadsShape
      <3> HIDE DEF entry
      <3> QED BY <1>1, <3>1 DEF TaskShape, TaskFields
    <2>3. Follows(u, v)
      <3>1. /\ v = [f \in PageFields |-> v[f]]
            /\ v.entries = [u.entries EXCEPT ![b] = loading]
            /\ \A f \in PageFields \ {"entries", "chosen"} : v[f] = u[f]
            /\ v.chosen = u.chosen
        BY <1>1 DEF PageSound, PageFields
      <3>2. u.chosen = [u.chosen EXCEPT ![b] = u.chosen[b]]
        BY <1>1 DEF PageSound
      <3>3. loading \in EntryType /\ EntrySound(loading, u.chosen[b])
        <4>1. EntrySound(entry, u.chosen[b])
          BY <1>1 DEF PageSound
        <4> HIDE DEF entry
        <4>2. /\ loading \in EntryType /\ loading.known = TRUE /\ loading.loading = TRUE
              /\ loading.names = entry.names
          BY <1>1 DEF EntryType
        <4> HIDE DEF loading
        <4> QED BY <4>1, <4>2 DEF EntrySound
      <3> HIDE DEF v, loading, b
      <3> QED BY <1>1, <3>1, <3>2, <3>3, EntryFollows
    <2> HIDE DEF v, s
    <2>4. Follows(v, w) /\ PageSound(w)
      BY <2>3, EditorFollows DEF Follows
    <2> HIDE DEF w
    <2> QED BY <2>1, <2>2, <2>3, <2>4, AwaitFollows, FollowsOn, FollowsAdvances
  <1> QED BY <1>2, <1>3

LEMMA AfterConnectionGood ==
    ASSUME NEW u, Good(u), NEW t, TaskShape(t)
    PROVE  Advances(u, AfterConnection(u, t))
  <1> DEFINE s == [t EXCEPT !.page = u.page]
  <1>1. TaskShape(s)
    BY DEF TaskShape, TaskFields
  <1> HIDE DEF s
  <1>2. /\ Advances(u, u) /\ Advances(u, StartDatabases(u, s)) /\ Advances(u, StartDatabases(u, t))
        /\ Advances(u, FinishLoadAll(u, t))
    BY <1>1, FollowsItself, FollowsAdvances, StartDatabasesGood, FinishLoadAllGood DEF Good
  <1> QED BY <1>2 DEF AfterConnection, s

LEMMA StartLoadAllGood ==
    ASSUME NEW u, PageSound(u), TablesWell(u), ConnectionWell(u), NEW t, TaskShape(t)
    PROVE  Advances(u, StartLoadAll(u, t))
  <1> DEFINE a == Bump(u, {"refresh", "connection"})
             v == [a EXCEPT !.refreshing = TRUE, !.connBusy = FALSE, !.writes = FALSE, !.confirm = FALSE]
             c == Off(v, {"run", "writes", "confirm", "db"})
             w == ApplySQLMode(c)
             s == Reads(t, "refresh")
  <1>1. StartLoadAll(u, t) = Await(w, s, "lists")
    BY DEF StartLoadAll
  <1>2. Follows(u, a) /\ PageSound(a) /\ TaskShape(s)
    BY BumpFollows, ReadsShape DEF Follows
  <1> HIDE DEF a, s
  <1>3. Follows(a, v) /\ PageSound(v) /\ v.writes = FALSE /\ v.confirm = FALSE
    BY <1>2 DEF Follows, PageSound, PageFields, Wanted, SendsNothing
  <1> HIDE DEF v
  <1>4. Follows(v, c) /\ PageSound(c)
    BY <1>3, OffFollows
  <1> HIDE DEF c
  <1>5. Follows(c, w)
    BY <1>4, ModeFollows
  <1> HIDE DEF w
  <1>6. Follows(u, w) /\ ~w.writes /\ ~w.confirm
    BY <1>2, <1>3, <1>4, <1>5, FollowsOn DEF Follows
  <1>7. Good(w)
    BY <1>6 DEF Good, ArmedWell, TablesWell, ConnectionWell, Follows
  <1>8. Advances(w, Await(w, s, "lists"))
    BY <1>2, <1>7, AwaitFollows, FollowsAdvances DEF Good
  <1> QED BY <1>1, <1>6, <1>8, AdvancesOn DEF Follows

-----------------------------------------------------------------------------
(* The controller *)

Texts == STRING \cup {"typed", "inspection", "other", "none"}

Rows == [branch : Branches, db : Databases, text : Texts, live : BOOLEAN]

Lists == {branches \in SUBSET Branches : Main \in branches}

\* The branch main is in every list, and what was a saved query is still a row.
ControllerSound ==
    /\ exists \in Lists
    /\ queries \in Seq(Rows)
    /\ versions \in Seq([branches : Lists, queries : SUBSET DOMAIN queries])

LEMMA ToldSound ==
    ASSUME ControllerSound, NEW t, NEW told \in Told(t)
    PROVE  told.branches \in Lists /\ told.queries \subseteq DOMAIN queries
  <1> DEFINE V == [branches : Lists, queries : SUBSET DOMAIN queries]
  <1>1. PICK i \in DOMAIN versions : told = versions[i]
    BY DEF Told
  <1>2. versions \in Seq(V)
    BY DEF ControllerSound
  <1> HIDE DEF V
  <1>3. told \in V
    BY <1>1, <1>2
  <1> QED BY <1>3 DEF V

LEMMA ChangedSound ==
    ASSUME ControllerSound, exists' \in Lists, queries' \in Seq(Rows),
           DOMAIN queries \subseteq DOMAIN queries', Changed
    PROVE  ControllerSound'
  <1> DEFINE V == [branches : Lists, queries : SUBSET DOMAIN queries]
             W == [branches : Lists, queries : SUBSET DOMAIN queries']
  <1>1. V \subseteq W
    OBVIOUS
  <1>2. Now' \in W
    BY DEF Now
  <1>3. versions \in Seq(V) /\ (versions' = versions \/ versions' = Append(versions, Now'))
    BY DEF ControllerSound, Changed
  <1> DEFINE now == Now'
  <1>4. now \in W /\ (versions' = versions \/ versions' = Append(versions, now))
    BY <1>2, <1>3
  <1> HIDE DEF V, W, now
  <1>5. versions \in Seq(W)
    BY <1>1, <1>3
  <1>6. versions' \in Seq(W)
    BY <1>4, <1>5
  <1> QED BY <1>6 DEF ControllerSound, W, Lists, Rows, Texts

-----------------------------------------------------------------------------
(* Answers *)

LEMMA NewTaskShape == ASSUME NEW flow PROVE TaskShape(NewTask(flow)) /\ NewTask(flow).fresh = {}
  BY DEF TaskShape, TaskFields, NewTask, NoEntry, EntryType

LEMMA WithoutGood ==
    ASSUME Good(ui), NEW t \in ui.tasks
    PROVE  /\ Good(Without(t)) /\ Follows(ui, Without(t)) /\ SendsNothing(ui, Without(t))
           /\ Without(t).selected = ui.selected
           /\ TaskSound(t) /\ TaskShape(t)
  <1> DEFINE u == Without(t)
  <1>1. Follows(ui, u) /\ u.selected = ui.selected
    BY DEF Without, Good, Follows, PageSound, PageFields, Wanted, SendsNothing
  <1>2. TaskSound(t)
    BY DEF Good, PageSound
  <1> QED BY <1>1, <1>2, GoodFollows DEF TaskSound, Follows

LEMMA BranchesKnown ==
    ASSUME NEW u, PageSound(u), TablesWell(u), NEW branches \in SUBSET Branches
    PROVE  LET v == Normalize([u EXCEPT !.branches = branches]) IN
           PageSound(v) /\ TablesWell(v) /\ SendsNothing(u, v)
  <1> DEFINE a == [u EXCEPT !.branches = branches]
  <1>1. /\ PageSound(a) /\ a.tasks = u.tasks /\ a.chosen = u.chosen
        /\ a.selected = u.selected /\ a.catalog = u.catalog /\ a.detail = u.detail
    BY DEF PageSound, PageFields
  <1> HIDE DEF a
  <1>2. TablesWell(a)
    BY <1>1 DEF TablesWell, Wanted
  <1>3. LET v == Normalize(a) IN PageSound(v) /\ TablesWell(v) /\ SendsNothing(a, v)
    BY <1>1, <1>2, NormalizeGood
  <1> QED BY <1>1, <1>3 DEF SendsNothing, a

LEMMA AnswerListsGood ==
    ASSUME Good(ui), ControllerSound, NEW t \in ui.tasks, AnswerLists(t)
    PROVE  Advances(ui, ui')
  <1>0. PICK branches \in Lists :
          LET u == Without(t) IN
          ui' \in {EndLoadAll(u, t), StartConnection(Normalize([u EXCEPT !.branches = branches]), t),
                   EndLoadAll(RenderSQLEditor([u EXCEPT !.refreshing = FALSE, !.connBusy = FALSE]), t)}
    <2>1. PICK told \in Told(t) :
            LET u == Without(t) IN
            ui' \in {EndLoadAll(u, t), StartConnection(Normalize([u EXCEPT !.branches = told.branches]), t),
                     EndLoadAll(RenderSQLEditor([u EXCEPT !.refreshing = FALSE, !.connBusy = FALSE]), t)}
      BY DEF AnswerLists
    <2> QED BY <2>1, ToldSound
  <1> DEFINE u == Without(t)
             n == Normalize([u EXCEPT !.branches = branches])
             a == [u EXCEPT !.refreshing = FALSE, !.connBusy = FALSE]
             e == RenderSQLEditor(a)
  <1>1. Good(u) /\ SendsNothing(ui, u) /\ TaskShape(t)
    BY WithoutGood
  <1>2. ui' \in {EndLoadAll(u, t), StartConnection(n, t), EndLoadAll(e, t)}
    BY <1>0
  <1> HIDE DEF u
  <1>3. PageSound(n) /\ TablesWell(n) /\ SendsNothing(u, n)
    BY <1>1, BranchesKnown DEF Good, Lists
  <1>4. Follows(u, a) /\ PageSound(a)
    BY <1>1 DEF Good, Follows, PageSound, PageFields, Wanted, SendsNothing
  <1> HIDE DEF n, a
  <1>5. Follows(u, e)
    BY <1>4, EditorFollows, FollowsOn
  <1> HIDE DEF e
  <1>6. Good(e) /\ SendsNothing(u, e)
    BY <1>1, <1>5, GoodFollows DEF Follows
  <1>7. /\ Advances(u, EndLoadAll(u, t)) /\ Advances(u, EndLoadAll(e, t))
        /\ Advances(u, StartConnection(n, t))
    BY <1>1, <1>3, <1>6, EndLoadAllGood, StartConnectionGood, AdvancesOn
  <1> QED BY <1>1, <1>2, <1>7, AdvancesOn

LEMMA AnswerConnectionGood ==
    ASSUME Good(ui), NEW t \in ui.tasks, AnswerConnection(t)
    PROVE  Advances(ui, ui')
  <1> DEFINE u == Without(t)
  <1>1. Good(u) /\ SendsNothing(ui, u) /\ TaskShape(t) /\ PageSound(u)
    BY WithoutGood DEF Good
  <1>2. PICK ok \in BOOLEAN, published \in BOOLEAN :
          LET connection == IF ok THEN [branch |-> t.branch, published |-> published] ELSE NoConnection
              v == SetConnection(IF ok THEN ClearSQLWriteMode(u) ELSE u, connection)
          IN  ui' = AfterConnection(IF Current(u, t) THEN RenderContext([v EXCEPT !.connBusy = FALSE]) ELSE u, t)
    BY DEF AnswerConnection
  <1> DEFINE connection == IF ok THEN [branch |-> t.branch, published |-> published] ELSE NoConnection
             a == IF ok THEN ClearSQLWriteMode(u) ELSE u
             v == SetConnection(a, connection)
             w == [v EXCEPT !.connBusy = FALSE]
             x == RenderContext(w)
             y == IF Current(u, t) THEN x ELSE u
  <1>3. ui' = AfterConnection(y, t)
    BY <1>2
  <1> HIDE DEF u
  <1>4. Follows(u, a) /\ Good(a)
    BY <1>1, ClearFollows, FollowsItself, GoodFollows
  <1> HIDE DEF a
  <1>5. Good(y) /\ SendsNothing(u, y)
    <2>1. CASE Current(u, t)
      <3>1. connection # NoConnection => connection.branch = a.selected
        BY <1>4, <2>1 DEF Current, Follows, NoConnection
      <3> HIDE DEF connection
      <3>2. Good(v) /\ SendsNothing(a, v)
        BY <1>4, <3>1, ConnectionSet DEF Good, ArmedWell, TablesWell, ConnectionWell
      <3> HIDE DEF v
      <3>3. Follows(v, w) /\ PageSound(w)
        BY <3>2 DEF Good, Follows, PageSound, PageFields, Wanted, SendsNothing
      <3> HIDE DEF w
      <3>4. Follows(v, x)
        BY <3>3, ContextFollows, FollowsOn
      <3> HIDE DEF x
      <3>5. Good(x) /\ SendsNothing(u, x)
        BY <1>4, <3>2, <3>4, GoodFollows DEF Follows, SendsNothing
      <3> QED BY <2>1, <3>5
    <2>2. CASE ~Current(u, t)
      BY <1>1, <2>2 DEF SendsNothing
    <2> QED BY <2>1, <2>2
  <1> HIDE DEF y
  <1>6. Advances(u, AfterConnection(y, t))
    BY <1>1, <1>5, AfterConnectionGood, AdvancesOn
  <1> QED BY <1>1, <1>3, <1>6, AdvancesOn

\* What the page makes of the answer has an entry and a database for the branch.
LEMMA DatabasesAnswered ==
    ASSUME PageSound(ui), NEW t \in ui.tasks, AnswerDatabases(t)
    PROVE  \E v :
              /\ ui' = AfterDatabases(IF Without(t).selected = t.branch /\ "object" \in t.fresh
                                      THEN RenderSQLEditor(v) ELSE Without(t), t)
              /\ Without(t).selected = t.branch =>
                    /\ Follows(Without(t), v)
                    /\ \A f \in PageFields \ {"entries", "chosen"} : v[f] = Without(t)[f]
  <1> DEFINE u == Without(t)
             b == t.branch
             remembered == u.chosen[b]
             shown == t.previous.names \cup (IF remembered # NoDB THEN {remembered} ELSE {})
             listed(names) == [NoEntry EXCEPT !.known = TRUE, !.names = names,
                                              !.required = remembered \notin names \cup {NoDB}]
             unlisted == [NoEntry EXCEPT !.known = TRUE, !.error = TRUE,
                                         !.names = IF shown = {} THEN {Default} ELSE shown,
                                         !.required = t.previous.required]
             entry(ok, names) == IF ok THEN listed(names) ELSE unlisted
             chosen(ok) == IF ok /\ remembered = NoDB THEN Default ELSE remembered
             page(ok, names) == [u EXCEPT !.entries[b] = entry(ok, names),
                                          !.chosen[b] = IF ok /\ remembered = NoDB THEN Default ELSE @]
  <1>1. PageSound(u) /\ TaskShape(t)
    BY SMTT(30) DEF Without, PageSound, PageFields, TaskSound
  <1>2. PICK names \in {n \in SUBSET Databases : Default \in n}, ok \in BOOLEAN :
          ui' = AfterDatabases(IF u.selected = b /\ "object" \in t.fresh
                               THEN RenderSQLEditor(page(ok, names)) ELSE u, t)
    BY DEF AnswerDatabases
  <1> DEFINE v == page(ok, names)
  <1>3. ASSUME u.selected = b
        PROVE  Follows(u, v) /\ \A f \in PageFields \ {"entries", "chosen"} : v[f] = u[f]
    <2>1. b \in Branches /\ remembered \in Databases \cup {NoDB} /\ EntrySound(u.entries[b], remembered)
      BY <1>1, <1>3 DEF PageSound
    <2>2. t.previous \in EntryType
      BY <1>1 DEF TaskShape
    <2>3. chosen(ok) \in Databases \cup {NoDB}
      BY <2>1, DefaultAssumption
    <2>4. entry(ok, names) \in EntryType /\ EntrySound(entry(ok, names), chosen(ok))
      <3>1. CASE ok
        <4>1. /\ listed(names) \in EntryType
              /\ listed(names).known = TRUE /\ listed(names).names = names
              /\ listed(names).loading = FALSE /\ listed(names).error = FALSE
          BY DEF NoEntry, EntryType
        <4> HIDE DEF listed, remembered
        <4> QED BY <3>1, <4>1 DEF EntrySound
      <3>2. CASE ~ok
        <4>1. shown \subseteq Databases
          BY <2>1, <2>2 DEF EntryType
        <4>2. remembered # NoDB => remembered \in shown
          OBVIOUS
        <4> HIDE DEF shown, remembered
        <4>3. /\ unlisted \in EntryType
              /\ unlisted.known = TRUE /\ unlisted.error = TRUE
              /\ unlisted.names = IF shown = {} THEN {Default} ELSE shown
          BY <2>2, <4>1, DefaultAssumption DEF NoEntry, EntryType
        <4> HIDE DEF unlisted
        <4> QED BY <2>1, <3>2, <4>2, <4>3 DEF EntrySound
      <3> QED BY <3>1, <3>2
    <2>5. /\ v = [f \in PageFields |-> v[f]]
          /\ v.entries = [u.entries EXCEPT ![b] = entry(ok, names)]
          /\ v.chosen = [u.chosen EXCEPT ![b] = chosen(ok)]
          /\ \A f \in PageFields \ {"entries", "chosen"} : v[f] = u[f]
      <3> HIDE DEF entry, u
      <3> QED BY <1>1 DEF PageSound, PageFields
    <2>6. chosen(ok) = u.chosen[b] \/ (u.chosen[b] = NoDB /\ chosen(ok) = Default)
      OBVIOUS
    <2> HIDE DEF v, entry, chosen, b, remembered
    <2> QED BY <1>1, <2>1, <2>3, <2>4, <2>5, <2>6, EntryFollows DEF remembered
  <1>4. ui' = AfterDatabases(IF u.selected = b /\ "object" \in t.fresh THEN RenderSQLEditor(v) ELSE u, t)
    BY <1>2
  <1> HIDE DEF v
  <1> QED BY <1>3, <1>4

LEMMA AnswerDatabasesGood ==
    ASSUME Good(ui), NEW t \in ui.tasks, AnswerDatabases(t)
    PROVE  Advances(ui, ui')
  <1> DEFINE u == Without(t)
             fits == u.selected = t.branch /\ "object" \in t.fresh
  <1>1. Good(u) /\ SendsNothing(ui, u) /\ TaskShape(t) /\ PageSound(u)
    BY WithoutGood DEF Good
  <1>2. PICK v : /\ ui' = AfterDatabases(IF fits THEN RenderSQLEditor(v) ELSE u, t)
                 /\ u.selected = t.branch => Follows(u, v)
    BY DatabasesAnswered DEF Good
  <1> DEFINE y == IF fits THEN RenderSQLEditor(v) ELSE u
  <1>3. ui' = AfterDatabases(y, t)
    BY <1>2
  <1> HIDE DEF u
  <1>4. Follows(u, y)
    <2>1. CASE fits
      BY <1>2, <2>1, EditorFollows, FollowsOn DEF Follows
    <2>2. CASE ~fits
      BY <1>1, <2>2, FollowsItself
    <2> QED BY <2>1, <2>2
  <1> HIDE DEF y
  <1>5. Good(y) /\ SendsNothing(u, y)
    BY <1>1, <1>4, GoodFollows DEF Follows
  <1>6. Advances(u, AfterDatabases(y, t))
    BY <1>1, <1>5, AfterDatabasesGood, AdvancesOn
  <1> QED BY <1>1, <1>3, <1>6, AdvancesOn

LEMMA AnswerLibraryGood ==
    ASSUME Good(ui), NEW t \in ui.tasks, AnswerLibrary(t)
    PROVE  Advances(ui, ui')
  <1> DEFINE u == Without(t)
  <1>1. Good(u) /\ SendsNothing(ui, u) /\ TaskShape(t) /\ PageSound(u)
    BY WithoutGood DEF Good
  <1>2. PICK listed :
          LET v == IF "library" \in t.fresh THEN [u EXCEPT !.listed = listed] ELSE u
          IN  ui' \in {FinishLoadAll(v, t), [v EXCEPT !.saving = FALSE], RenderSQLEditor(v), v}
    BY DEF AnswerLibrary
  <1> DEFINE v == IF "library" \in t.fresh THEN [u EXCEPT !.listed = listed] ELSE u
             w == [v EXCEPT !.saving = FALSE]
  <1>3. ui' \in {FinishLoadAll(v, t), w, RenderSQLEditor(v), v}
    BY <1>2
  <1> HIDE DEF u
  <1>4. Follows(u, v)
    BY <1>1 DEF Follows, PageSound, PageFields, Wanted, SendsNothing
  <1> HIDE DEF v
  <1>5. Follows(v, w) /\ Good(v) /\ SendsNothing(u, v)
    BY <1>1, <1>4, GoodFollows DEF Follows, PageSound, PageFields, Wanted, SendsNothing
  <1> HIDE DEF w
  <1>6. Advances(v, FinishLoadAll(v, t)) /\ Advances(v, w) /\ Advances(v, RenderSQLEditor(v)) /\ Advances(v, v)
    BY <1>1, <1>5, FinishLoadAllGood, EditorFollows, FollowsItself, FollowsAdvances DEF Good
  <1> QED BY <1>1, <1>3, <1>5, <1>6, AdvancesOn

\* The tables and the detail of the selected context, or fewer than before.
LEMMA TablesShown ==
    ASSUME NEW u, Good(u), NEW catalog, NEW detail,
           catalog \cup detail \subseteq {Wanted(u)}
    PROVE  Advances(u, [u EXCEPT !.catalog = catalog, !.detail = detail])
  <1> DEFINE v == [u EXCEPT !.catalog = catalog, !.detail = detail]
  <1>1. /\ PageSound(v) /\ v.selected = u.selected /\ v.chosen = u.chosen
        /\ v.connection = u.connection /\ v.catalog = catalog /\ v.detail = detail
        /\ v.writes = u.writes /\ v.armed = u.armed
        /\ v.confirm = u.confirm /\ v.confirmed = u.confirmed /\ v.tasks = u.tasks
    BY DEF Good, PageSound, PageFields
  <1> HIDE DEF v
  <1>2. Wanted(v) = Wanted(u)
    BY <1>1 DEF Wanted
  <1>3. Good(v) /\ SendsNothing(u, v)
    BY <1>1, <1>2 DEF Good, ArmedWell, TablesWell, ConnectionWell, SendsNothing
  <1> QED BY <1>3 DEF Advances, v

LEMMA ContextWanted ==
    ASSUME NEW u, SelectedDB(u) # NoDB
    PROVE  Context(u) = Wanted(u)
  BY DEF SelectedDB, Context, Wanted

LEMMA AnswerCatalogGood ==
    ASSUME Good(ui), NEW t \in ui.tasks, AnswerCatalog(t)
    PROVE  Advances(ui, ui')
  <1> DEFINE u == Without(t)
             current == "catalog" \in t.fresh /\ SameContext(u, t)
  <1>1. Good(u) /\ SendsNothing(ui, u) /\ TaskShape(t) /\ PageSound(u) /\ TaskSound(t)
    BY WithoutGood DEF Good
  <1>2. t.at = "catalog"
    BY DEF AnswerCatalog
  <1>3. current => Wanted(u) = <<t.branch, t.db>>
    BY <1>1, <1>2, ContextWanted DEF SameContext, Context, TaskSound
  <1>4. PICK catalog, detail :
          /\ catalog \cup detail \subseteq {Wanted(u)}
          /\ LET v == [u EXCEPT !.catalog = catalog, !.detail = detail]
             IN  ui' \in {StartDetail(v, t), FinishLoadAll(v, t), v, StartDetail(u, t), FinishLoadAll(u, t), u}
    <2>1. PICK ok \in BOOLEAN, empty \in BOOLEAN :
            LET reset == t.flow # "more"
                tables == (IF reset THEN {} ELSE u.catalog) \cup (IF empty THEN {} ELSE {<<t.branch, t.db>>})
                v == CASE ~current \/ (~ok /\ ~reset) -> u
                       [] current /\ ok -> [u EXCEPT !.catalog = tables, !.detail = IF reset THEN {} ELSE @]
                       [] OTHER -> [u EXCEPT !.catalog = {}, !.detail = {}]
            IN  ui' = CASE current /\ ok /\ reset /\ ~empty -> StartDetail(v, t)
                        [] t.flow = "loadAll" /\ ~(current /\ ok /\ ~empty) -> FinishLoadAll(v, t)
                        [] OTHER -> v
      BY DEF AnswerCatalog
    <2> DEFINE reset == t.flow # "more"
               tables == (IF reset THEN {} ELSE u.catalog) \cup (IF empty THEN {} ELSE {<<t.branch, t.db>>})
               detail == IF reset THEN {} ELSE u.detail
               v == CASE ~current \/ (~ok /\ ~reset) -> u
                      [] current /\ ok -> [u EXCEPT !.catalog = tables, !.detail = detail]
                      [] OTHER -> [u EXCEPT !.catalog = {}, !.detail = {}]
    <2>2. ui' \in {StartDetail(v, t), FinishLoadAll(v, t), v}
      BY <2>1
    <2>3. u.catalog \cup u.detail \subseteq {Wanted(u)}
      BY <1>1 DEF Good, TablesWell
    <2> HIDE DEF u
    <2>4. current => tables \cup detail \subseteq {Wanted(u)}
      BY <1>3, <2>3
    <2>5. CASE ~current \/ (~ok /\ ~reset)
      <3>1. v = u
        BY <2>5
      <3> QED BY <2>2, <3>1
    <2>6. CASE current /\ ok
      <3>1. v = [u EXCEPT !.catalog = tables, !.detail = detail]
        BY <2>6
      <3> HIDE DEF v, tables, detail
      <3> QED BY <2>2, <2>4, <2>6, <3>1
    <2>7. CASE current /\ ~ok /\ reset
      <3>1. v = [u EXCEPT !.catalog = {}, !.detail = {}]
        BY <2>7
      <3> HIDE DEF v
      <3> QED BY <2>2, <3>1
    <2> QED BY <2>5, <2>6, <2>7
  <1> DEFINE v == [u EXCEPT !.catalog = catalog, !.detail = detail]
  <1>5. ui' \in {StartDetail(v, t), FinishLoadAll(v, t), v, StartDetail(u, t), FinishLoadAll(u, t), u}
    BY <1>4
  <1> HIDE DEF u
  <1>6. Advances(u, v)
    BY <1>1, <1>4, TablesShown
  <1> HIDE DEF v
  <1>7. \A x \in {u, v} : Good(x) /\ PageSound(x) /\ SendsNothing(u, x)
    BY <1>1, <1>6 DEF Advances, Good, SendsNothing
  <1>8. \A x \in {u, v} : Advances(x, StartDetail(x, t)) /\ Advances(x, FinishLoadAll(x, t)) /\ Advances(x, x)
    BY <1>1, <1>7, StartDetailFollows, FinishLoadAllGood, FollowsItself, FollowsAdvances
  <1>9. Advances(u, ui')
    BY <1>5, <1>7, <1>8, AdvancesOn
  <1> QED BY <1>1, <1>9, AdvancesOn

LEMMA AnswerDetailGood ==
    ASSUME Good(ui), NEW t \in ui.tasks, AnswerDetail(t)
    PROVE  Advances(ui, ui')
  <1> DEFINE u == Without(t)
  <1>1. Good(u) /\ SendsNothing(ui, u) /\ TaskShape(t) /\ PageSound(u)
    BY WithoutGood DEF Good
  <1>2. PICK ok \in BOOLEAN :
          /\ ok => t.db # NoDB
          /\ LET v == IF "detail" \in t.fresh /\ SameContext(u, t)
                      THEN [u EXCEPT !.detail = IF ok THEN {<<t.branch, t.db>>} ELSE {}] ELSE u
             IN  ui' = IF t.flow = "loadAll" THEN FinishLoadAll(v, t) ELSE v
    BY DEF AnswerDetail
  <1> DEFINE detail == IF ok THEN {<<t.branch, t.db>>} ELSE {}
             w == [u EXCEPT !.detail = detail]
             v == IF "detail" \in t.fresh /\ SameContext(u, t) THEN w ELSE u
  <1>3. ui' \in {FinishLoadAll(v, t), v}
    BY <1>2
  <1> HIDE DEF u
  <1>4. Good(v) /\ SendsNothing(u, v)
    <2>1. CASE "detail" \in t.fresh /\ SameContext(u, t)
      <3>1. detail \subseteq {Wanted(u)}
        BY <1>2, <2>1, ContextWanted DEF SameContext, Context
      <3> HIDE DEF detail
      <3>2. /\ PageSound(w) /\ w.selected = u.selected /\ w.chosen = u.chosen
            /\ w.connection = u.connection /\ w.catalog = u.catalog /\ w.detail = detail
            /\ w.writes = u.writes /\ w.armed = u.armed
            /\ w.confirm = u.confirm /\ w.confirmed = u.confirmed /\ w.tasks = u.tasks
        BY <1>1 DEF PageSound, PageFields
      <3> HIDE DEF w
      <3>3. Wanted(w) = Wanted(u)
        BY <3>2 DEF Wanted
      <3> QED BY <1>1, <2>1, <3>1, <3>2, <3>3 DEF Good, ArmedWell, TablesWell, ConnectionWell, SendsNothing
    <2>2. CASE ~("detail" \in t.fresh /\ SameContext(u, t))
      BY <1>1, <2>2 DEF SendsNothing
    <2> QED BY <2>1, <2>2
  <1> HIDE DEF v
  <1>5. Advances(v, FinishLoadAll(v, t)) /\ Advances(v, v)
    BY <1>1, <1>4, FinishLoadAllGood, FollowsItself, FollowsAdvances DEF Good
  <1> QED BY <1>1, <1>3, <1>4, <1>5, AdvancesOn

LEMMA ServedGood ==
    ASSUME Good(ui), NEW t \in ui.tasks, NEW at, NEW query, at \notin {"run", "catalog"},
           Served(t, at, query)
    PROVE  Advances(ui, ui')
  <1> DEFINE u == Without(t)
             s == [t EXCEPT !.at = at, !.query = query]
             v == [u EXCEPT !.tasks = @ \cup {s}]
  <1>1. Good(u) /\ SendsNothing(ui, u) /\ TaskShape(t) /\ PageSound(u)
    BY WithoutGood DEF Good
  <1>2. TaskSound(s) /\ s.at # "run"
    BY <1>1 DEF TaskSound, TaskShape, TaskFields
  <1>3. ui' = v
    BY DEF Served
  <1> HIDE DEF u, s
  <1>4. Advances(u, v)
    BY <1>1, <1>2, TaskAdded, FollowsAdvances
  <1> QED BY <1>1, <1>3, <1>4, AdvancesOn

LEMMA ServeGood ==
    ASSUME Good(ui), NEW t \in ui.tasks, ServeSave(t) \/ ServeDelete(t) \/ ServeBranch(t)
    PROVE  Advances(ui, ui')
  <1>1. CASE ServeSave(t)
    BY <1>1, ServedGood DEF ServeSave
  <1>2. CASE ServeDelete(t)
    <2>1. PICK at \in {"deleted", "failed"} : Served(t, at, t.query)
      BY <1>2 DEF ServeDelete
    <2> QED BY <2>1, ServedGood
  <1>3. CASE ServeBranch(t)
    BY <1>3, ServedGood DEF ServeBranch
  <1> QED BY <1>1, <1>2, <1>3

LEMMA AnswerServedGood ==
    ASSUME Good(ui), NEW t \in ui.tasks, AnswerServed(t)
    PROVE  Advances(ui, ui')
  <1> DEFINE u == Without(t)
             s == [t EXCEPT !.flow = "loadAll"]
  <1>1. Good(u) /\ SendsNothing(ui, u) /\ TaskShape(t) /\ PageSound(u)
    BY WithoutGood DEF Good
  <1>2. PICK active, saving :
          LET v == [u EXCEPT !.active = active]
              w == [u EXCEPT !.saving = saving]
          IN  ui' \in {StartLibrary(v, t), StartLoadAll(u, s), StartLibrary(u, t), w, u}
    <2>1. PICK ok \in BOOLEAN :
           ui' = CASE ok /\ t.at = "saved" /\ StillSaving(u, t) -> StartLibrary([u EXCEPT !.active = t.query], t)
                   [] ok /\ t.at = "deleted" ->
                        StartLibrary([u EXCEPT !.active = IF @ = t.query THEN NoQuery ELSE @], t)
                   [] ok /\ t.at = "changed" -> StartLoadAll(u, [t EXCEPT !.flow = "loadAll"])
                   [] t.at = "run" -> StartLibrary(u, t)
                   [] OTHER -> IF t.flow = "save" THEN [u EXCEPT !.saving = FALSE] ELSE u
      BY DEF AnswerServed
    <2> HIDE DEF u
    <2>2. CASE ok /\ t.at = "saved" /\ StillSaving(u, t)
      BY <2>1, <2>2
    <2>3. CASE ok /\ t.at = "deleted"
      <3>1. ui' = StartLibrary([u EXCEPT !.active = IF u.active = t.query THEN NoQuery ELSE u.active], t)
        BY <2>1, <2>3
      <3> QED BY <3>1
    <2>4. CASE ok /\ t.at = "changed"
      BY <2>1, <2>4
    <2>5. CASE t.at = "run"
      BY <2>1, <2>5
    <2>6. CASE ~(ok /\ t.at \in {"deleted", "changed"}) /\ ~(ok /\ t.at = "saved" /\ StillSaving(u, t)) /\ t.at # "run"
      <3>1. ui' = IF t.flow = "save" THEN [u EXCEPT !.saving = FALSE] ELSE u
        BY <2>1, <2>6
      <3> QED BY <3>1
    <2> QED BY <2>2, <2>3, <2>4, <2>5, <2>6
  <1> DEFINE v == [u EXCEPT !.active = active]
             w == [u EXCEPT !.saving = saving]
  <1>3. ui' \in {StartLibrary(v, t), StartLoadAll(u, s), StartLibrary(u, t), w, u}
    BY <1>2
  <1>4. TaskShape(s)
    BY <1>1 DEF TaskShape, TaskFields
  <1> HIDE DEF u, s
  <1>5. Follows(u, v) /\ Follows(u, w) /\ PageSound(v)
    BY <1>1 DEF Follows, PageSound, PageFields, Wanted, SendsNothing
  <1> HIDE DEF v, w
  <1>6. Follows(u, StartLibrary(v, t)) /\ Follows(u, StartLibrary(u, t)) /\ Follows(u, u)
    BY <1>1, <1>5, StartLibraryFollows, FollowsOn, FollowsItself
  <1>7. Advances(u, StartLoadAll(u, s))
    BY <1>1, <1>4, StartLoadAllGood DEF Good
  <1>8. Advances(u, ui')
    BY <1>1, <1>3, <1>5, <1>6, <1>7, FollowsAdvances
  <1> QED BY <1>1, <1>8, AdvancesOn

-----------------------------------------------------------------------------
(* The user *)

LEMMA OpenGood ==
    ASSUME Good(ui), NEW entry, Open(entry)
    PROVE  Advances(ui, ui')
  <1> DEFINE t == [NewTask("open") EXCEPT !.opened = entry, !.fresh = {"editor"}]
             u == InvalidateSavedQuery(ui)
             a == [u EXCEPT !.selected = entry.branch]
             c == InvalidateSchema(a)
             d == ClearSQLWriteMode(c)
  <1>1. ui' = CASE entry.branch \notin u.branches -> u
                [] entry.branch \in u.branches /\ entry.branch = u.selected -> StartDatabases(u, t)
                [] OTHER -> StartConnection(d, t)
    BY DEF Open
  <1>2. Follows(ui, u) /\ PageSound(u)
    BY InvalidateQueryFollows DEF Follows, Good
  <1>3. TaskShape(t)
    <2>1. TaskShape(NewTask("open"))
      BY NewTaskShape
    <2> QED BY <2>1 DEF TaskShape, TaskFields
  <1> HIDE DEF u, t
  <1>4. Good(u) /\ SendsNothing(ui, u)
    BY <1>2, GoodFollows DEF Follows
  <1>5. CASE entry.branch \notin u.branches
    BY <1>1, <1>4, <1>5 DEF Advances
  <1>6. CASE entry.branch \in u.branches /\ entry.branch = u.selected
    BY <1>1, <1>3, <1>4, <1>6, StartDatabasesGood, AdvancesOn
  <1>7. CASE entry.branch \in u.branches /\ entry.branch # u.selected
    <2>1. ui' = StartConnection(d, t)
      BY <1>1, <1>7
    <2>2. PageSound(a) /\ a.tasks = u.tasks
      BY <1>2, <1>7 DEF PageSound, PageFields
    <2> HIDE DEF a
    <2>3. Follows(a, c) /\ PageSound(c) /\ c.catalog = {} /\ c.detail = {}
      BY <2>2, InvalidateSchemaFollows DEF Follows
    <2> HIDE DEF c
    <2>4. Follows(c, d) /\ PageSound(d)
      BY <2>3, ClearFollows DEF Follows
    <2> HIDE DEF d
    <2>5. TablesWell(d) /\ SendsNothing(ui, d)
      BY <1>4, <2>2, <2>3, <2>4 DEF Follows, TablesWell, SendsNothing
    <2> QED BY <1>3, <2>1, <2>4, <2>5, StartConnectionGood, AdvancesOn
  <1> QED BY <1>5, <1>6, <1>7

LEMMA PageTurned ==
    ASSUME NEW u, Good(u), NEW page
    PROVE  LET v == [u EXCEPT !.page = page] IN
           Follows(u, v) /\ Good(v) /\ SendsNothing(u, v) /\ PageSound(v)
  <1> DEFINE v == [u EXCEPT !.page = page]
  <1>1. Follows(u, v)
    BY DEF Good, Follows, PageSound, PageFields, Wanted, SendsNothing
  <1> QED BY <1>1, GoodFollows DEF Follows

LEMMA NavigationGood ==
    ASSUME Good(ui),
           \/ RefreshAll \/ ChangeBranches \/ Leave
           \/ \E page \in {"sql", "tables"} : Navigate(page)
           \/ \E b \in Branches : SelectInSidebar(b) \/ OpenBranch(b)
    PROVE  Advances(ui, ui')
  <1> USE DEF Good
  <1>1. CASE RefreshAll
    BY <1>1, StartLoadAllGood, NewTaskShape DEF RefreshAll
  <1>2. CASE ChangeBranches
    BY <1>2, AwaitFollows, FollowsAdvances, NewTaskShape DEF ChangeBranches
  <1>3. CASE Leave
    BY <1>3, PageTurned DEF Leave, Advances
  <1>4. ASSUME NEW page, Navigate(page) PROVE Advances(ui, ui')
    <2> DEFINE v == [ui EXCEPT !.page = page]
    <2>1. Good(v) /\ SendsNothing(ui, v)
      BY PageTurned
    <2>2. ui' = StartDatabases(v, NewTask(page))
      BY <1>4 DEF Navigate
    <2> HIDE DEF v
    <2> QED BY <2>1, <2>2, StartDatabasesGood, NewTaskShape, AdvancesOn
  <1>5. ASSUME NEW b \in Branches, SelectInSidebar(b) PROVE Advances(ui, ui')
    <2> DEFINE u == Bump(ui, {"library"})
               v == [u EXCEPT !.page = "other"]
    <2>1. Good(u) /\ SendsNothing(ui, u)
      BY BumpFollows, GoodFollows DEF Follows
    <2>2. Good(v) /\ SendsNothing(u, v)
      BY <2>1, PageTurned
    <2>3. ui' = SelectBranch(v, b, NewTask("select"))
      BY <1>5 DEF SelectInSidebar
    <2> HIDE DEF u, v
    <2> QED BY <2>1, <2>2, <2>3, SelectBranchGood, NewTaskShape, AdvancesOn
  <1>6. ASSUME NEW b \in Branches, OpenBranch(b) PROVE Advances(ui, ui')
    <2> DEFINE t == [NewTask("loadAll") EXCEPT !.opened = Entry(b, NoDB, "none", NoQuery)]
               s == [t EXCEPT !.flow = "select"]
    <2>1. TaskShape(t) /\ TaskShape(s)
      <3>1. TaskShape(NewTask("loadAll"))
        BY NewTaskShape
      <3> QED BY <3>1 DEF TaskShape, TaskFields
    <2>2. ui' = StartLoadAll(ui, t) \/ ui' = SelectBranch(ui, b, s)
      BY <1>6 DEF OpenBranch
    <2> HIDE DEF t, s
    <2> QED BY <2>1, <2>2, SelectBranchGood, StartLoadAllGood
  <1> QED BY <1>1, <1>2, <1>3, <1>4, <1>5, <1>6

LEMMA LibraryGood ==
    ASSUME Good(ui),
           \/ \E i \in DOMAIN queries : OpenSaved(i) \/ Delete(i)
           \/ OpenInspection
           \/ \E asNew \in BOOLEAN : Save(asNew)
    PROVE  Advances(ui, ui')
  <1>1. ASSUME NEW i, OpenSaved(i) PROVE Advances(ui, ui')
    BY <1>1, OpenGood DEF OpenSaved
  <1>2. CASE OpenInspection
    BY <1>2, OpenGood DEF OpenInspection
  <1>3. ASSUME NEW i, Delete(i) PROVE Advances(ui, ui')
    <2> DEFINE t == [NewTask("delete") EXCEPT !.query = i]
    <2>1. TaskShape(t)
      <3>1. TaskShape(NewTask("delete"))
        BY NewTaskShape
      <3> QED BY <3>1 DEF TaskShape, TaskFields
    <2>2. ui' = Await(ui, t, "delete")
      BY <1>3 DEF Delete
    <2> HIDE DEF t
    <2> QED BY <2>1, <2>2, AwaitFollows, FollowsAdvances DEF Good
  <1>4. ASSUME NEW asNew, Save(asNew) PROVE Advances(ui, ui')
    <2> DEFINE u == Bump(ui, {"editor"})
               t == [NewTask("save") EXCEPT !.fresh = {"editor"}, !.text = u.text,
                                            !.query = IF asNew THEN NoQuery ELSE u.active]
               v == [u EXCEPT !.saving = TRUE]
    <2>1. ui' \in {Await(v, t, "save"), u}
      BY <1>4 DEF Save
    <2>2. TaskShape(t)
      <3>1. TaskShape(NewTask("save"))
        BY NewTaskShape
      <3> QED BY <3>1 DEF TaskShape, TaskFields
    <2>3. Follows(ui, u) /\ PageSound(u)
      BY BumpFollows DEF Good, Follows
    <2> HIDE DEF u, t
    <2>4. Follows(u, v) /\ PageSound(v)
      BY <2>3 DEF Follows, PageSound, PageFields, Wanted, SendsNothing
    <2> HIDE DEF v
    <2>5. Follows(v, Await(v, t, "save"))
      BY <2>2, <2>4, AwaitFollows
    <2> QED BY <2>1, <2>3, <2>4, <2>5, FollowsOn, FollowsAdvances
  <1> QED BY <1>1, <1>2, <1>3, <1>4

LEMMA DatabaseChosen ==
    ASSUME Good(ui), NEW db, db \in ui.entries[ui.selected].names
    PROVE  LET v == ChosenDatabase(ui, db) IN Good(v) /\ SendsNothing(ui, v)
  <1> DEFINE b == ui.selected
             a == [ui EXCEPT !.chosen[b] = db, !.entries[b].required = FALSE]
             c == InvalidateSavedQuery(a)
             d == InvalidateSchema(c)
             e == ClearSQLWriteMode(d)
  <1>1. /\ PageSound(ui) /\ b \in Branches /\ db \in Databases
        /\ ui.entries[b].names # {} /\ db \in ui.entries[b].names
    BY DEF Good, PageSound, EntryType
  <1>2. ChosenDatabase(ui, db) = e
    BY DEF ChosenDatabase
  <1>3. /\ a = [f \in PageFields |-> a[f]]
        /\ a.branches = ui.branches /\ a.selected = ui.selected /\ a.connection = ui.connection
        /\ a.entries = Released(ui.entries, b)
        /\ a.chosen = [ui.chosen EXCEPT ![b] = db] /\ a.writes = ui.writes
        /\ a.tasks = ui.tasks /\ a.confirm = ui.confirm
    BY <1>1 DEF PageSound, PageFields, Released
  <1> HIDE DEF a, b
  <1>4. PageSound(a)
    <2> DEFINE entries == ui.entries
    <2>1. entries \in [Branches -> EntryType] /\ ui.chosen \in [Branches -> Databases \cup {NoDB}]
      BY <1>1 DEF PageSound
    <2> HIDE DEF entries
    <2>2. /\ Released(entries, b) \in [Branches -> EntryType]
          /\ \A other \in Branches \ {b} : Released(entries, b)[other] = entries[other]
          /\ Released(entries, b)[b].required = FALSE
          /\ Released(entries, b)[b].names = entries[b].names
          /\ Released(entries, b)[b].known = entries[b].known
          /\ Released(entries, b)[b].loading = entries[b].loading
          /\ Released(entries, b)[b].error = entries[b].error
      BY <1>1, <2>1, EntryReleased, Zenon
    <2>3. /\ a.chosen \in [Branches -> Databases \cup {NoDB}]
          /\ a.chosen[b] = db
          /\ \A other \in Branches \ {b} : a.chosen[other] = ui.chosen[other]
      BY <1>1, <1>3, <2>1
    <2>4. EntrySound(a.entries[b], a.chosen[b])
      <3>1. EntrySound(ui.entries[b], ui.chosen[b])
        BY <1>1 DEF PageSound
      <3> QED BY <1>1, <1>3, <2>2, <2>3, <3>1 DEF EntrySound, entries
    <2> QED BY <1>1, <1>3, <2>2, <2>3, <2>4 DEF PageSound, entries
  <1>5. Follows(a, c) /\ PageSound(c)
    BY <1>4, InvalidateQueryFollows DEF Follows
  <1> HIDE DEF c
  <1>6. Follows(c, d) /\ PageSound(d) /\ d.catalog = {} /\ d.detail = {}
    BY <1>5, InvalidateSchemaFollows DEF Follows
  <1> HIDE DEF d
  <1>7. Follows(d, e) /\ ~e.writes /\ ~e.confirm
    BY <1>6, ClearFollows
  <1> HIDE DEF e
  <1>8. ConnectionWell(e) /\ TablesWell(e) /\ ArmedWell(e) /\ SendsNothing(ui, e) /\ PageSound(e)
    BY <1>3, <1>5, <1>6, <1>7
       DEF Follows, Good, ConnectionWell, TablesWell, ArmedWell, SendsNothing
  <1> QED BY <1>2, <1>8 DEF Good

LEMMA SchemaGood ==
    ASSUME Good(ui),
           \/ \E db \in Databases : ChooseDatabase(db)
           \/ \E flow \in {"tables", "more"} : LoadCatalog(flow)
           \/ SelectTable
    PROVE  Advances(ui, ui')
  <1>1. ASSUME NEW db, ChooseDatabase(db) PROVE Advances(ui, ui')
    <2> DEFINE v == ChosenDatabase(ui, db)
               u == RenderContext(v)
    <2>1. Good(v) /\ SendsNothing(ui, v)
      BY <1>1, DatabaseChosen DEF ChooseDatabase
    <2>2. ui' \in {StartLibrary(u, NewTask("sql")), StartCatalog(u, NewTask("tables"))}
      BY <1>1 DEF ChooseDatabase
    <2> HIDE DEF v
    <2>3. Good(u) /\ SendsNothing(v, u)
      BY <2>1, ContextFollows, GoodFollows DEF Good, Follows
    <2> HIDE DEF u
    <2>4. Advances(u, ui')
      BY <2>2, <2>3, StartLibraryFollows, StartCatalogGood, FollowsAdvances, NewTaskShape DEF Good
    <2> QED BY <2>1, <2>3, <2>4, AdvancesOn
  <1>2. ASSUME NEW flow, LoadCatalog(flow) PROVE Advances(ui, ui')
    BY <1>2, StartCatalogGood, NewTaskShape DEF LoadCatalog
  <1>3. CASE SelectTable
    BY <1>3, StartDetailFollows, FollowsAdvances, NewTaskShape DEF SelectTable, Good
  <1> QED BY <1>1, <1>2, <1>3

\* Ticking arms the context that the page shows.
LEMMA TickGood ==
    ASSUME Good(ui), TickWrites \/ TickConfirm
    PROVE  Advances(ui, ui')
  <1>1. PICK writes, confirm, armed, confirmed :
          /\ writes \in BOOLEAN /\ confirm \in BOOLEAN
          /\ ui' = RenderSQLEditor([ui EXCEPT !.writes = writes, !.confirm = confirm,
                                              !.armed = armed, !.confirmed = confirmed])
          /\ writes => armed \in {ui.armed, Context(ui)} /\ (armed # Context(ui) => ui.writes)
          /\ confirm => confirmed = Context(ui)
    <2>1. CASE TickWrites
      <3>1. [ui EXCEPT !.writes = ~ui.writes, !.confirm = FALSE, !.armed = Context(ui)]
              = [ui EXCEPT !.writes = ~ui.writes, !.confirm = FALSE, !.armed = Context(ui),
                           !.confirmed = ui.confirmed]
        BY DEF Good, PageSound, PageFields
      <3>2. ui' = RenderSQLEditor([ui EXCEPT !.writes = ~ui.writes, !.confirm = FALSE,
                                             !.armed = Context(ui)])
        BY <2>1 DEF TickWrites
      <3>3. ui.writes \in BOOLEAN
        BY DEF Good, PageSound
      <3> QED BY <3>1, <3>2, <3>3
    <2>2. CASE TickConfirm
      <3>1. [ui EXCEPT !.confirm = ~ui.confirm, !.confirmed = Context(ui)]
              = [ui EXCEPT !.writes = ui.writes, !.confirm = ~ui.confirm, !.armed = ui.armed,
                           !.confirmed = Context(ui)]
        BY DEF Good, PageSound, PageFields
      <3>2. ui' = RenderSQLEditor([ui EXCEPT !.confirm = ~ui.confirm, !.confirmed = Context(ui)])
        BY <2>2 DEF TickConfirm
      <3>3. ui.writes \in BOOLEAN /\ ui.confirm \in BOOLEAN
        BY DEF Good, PageSound
      <3> QED BY <3>1, <3>2, <3>3
    <2> QED BY <2>1, <2>2
  <1> DEFINE v == [ui EXCEPT !.writes = writes, !.confirm = confirm, !.armed = armed,
                             !.confirmed = confirmed]
             w == RenderSQLEditor(v)
  <1>2. /\ PageSound(v) /\ v.selected = ui.selected /\ v.chosen = ui.chosen
        /\ v.entries = ui.entries /\ v.connection = ui.connection
        /\ v.catalog = ui.catalog /\ v.detail = ui.detail /\ v.tasks = ui.tasks
        /\ v.writes = writes /\ v.confirm = confirm /\ v.armed = armed /\ v.confirmed = confirmed
    BY <1>1 DEF Good, PageSound, PageFields
  <1>3. ui' = w
    BY <1>1
  <1> HIDE DEF v
  <1>4. Wanted(v) = Wanted(ui) /\ Context(v) = Context(ui)
    BY <1>2 DEF Wanted, Context, SelectedDB
  <1>5. Follows(v, w) /\ (w.writes \/ w.confirm => Context(v) = Wanted(v))
    BY <1>2, EditorFollows
  <1> HIDE DEF w
  <1>6. ArmedWell(w)
    <2>1. CASE w.writes \/ w.confirm
      BY <1>1, <1>2, <1>4, <1>5, <2>1 DEF ArmedWell, Follows, Good
    <2>2. CASE ~(w.writes \/ w.confirm)
      BY <2>2 DEF ArmedWell
    <2> QED BY <2>1, <2>2
  <1>7. TablesWell(w) /\ ConnectionWell(w) /\ PageSound(w) /\ SendsNothing(ui, w)
    BY <1>2, <1>4, <1>5 DEF Good, TablesWell, ConnectionWell, Follows, SendsNothing
  <1> QED BY <1>3, <1>6, <1>7 DEF Advances, Good

\* A query that may write goes where writing was enabled and confirmed.
LEMMA RunGood ==
    ASSUME Good(ui), Run
    PROVE  /\ Good(ui')
           /\ \A t \in ui'.tasks \ ui.tasks : t.at = "run" /\ t.writes =>
                 /\ ui.armed = <<t.branch, t.db>>
                 /\ t.branch \in Protected => ui.confirm /\ ui.confirmed = <<t.branch, t.db>>
  <1> DEFINE u == Off(ui, {"run", "writes", "db"})
             s == [NewTask("run") EXCEPT !.writes = ui.writes]
             t == [s EXCEPT !.at = "run", !.branch = u.selected, !.db = SelectedDB(u),
                            !.since = Len(versions)]
             v == [u EXCEPT !.tasks = @ \cup {t}]
  <1>1. ui' = v /\ SelectedDB(ui) # NoDB /\ Confirmed(ui)
    BY DEF Run, Await
  <1>2. /\ Follows(ui, u) /\ Good(u) /\ u.selected = ui.selected /\ u.tasks = ui.tasks
        /\ SelectedDB(u) = SelectedDB(ui)
    <2>1. /\ u.selected = ui.selected /\ u.tasks = ui.tasks /\ u.chosen = ui.chosen
          /\ u.entries = ui.entries /\ u.connection = ui.connection
      BY DEF Good, PageSound, PageFields, Off
    <2>2. Follows(ui, u)
      BY OffFollows DEF Good
    <2> HIDE DEF u
    <2>3. SelectedDB(u) = SelectedDB(ui)
      BY <2>1 DEF SelectedDB
    <2> QED BY <2>1, <2>2, <2>3, GoodFollows
  <1>3. /\ TaskSound(t) /\ t.at = "run" /\ t.writes = ui.writes
        /\ t.branch = u.selected /\ t.db = SelectedDB(u)
    <2>1. TaskShape(s) /\ s.fresh = {} /\ s.writes = ui.writes
      <3>1. TaskShape(NewTask("run")) /\ NewTask("run").fresh = {}
        BY NewTaskShape
      <3> QED BY <3>1 DEF TaskShape, TaskFields
    <2> HIDE DEF s, u
    <2> QED BY <2>1 DEF TaskSound, TaskShape, TaskFields
  <1> HIDE DEF u, t
  <1>4. /\ v = [f \in PageFields |-> v[f]]
        /\ v.branches = u.branches /\ v.selected = u.selected /\ v.connection = u.connection
        /\ v.entries = u.entries /\ v.chosen = u.chosen /\ v.writes = u.writes
        /\ v.catalog = u.catalog /\ v.detail = u.detail /\ v.tasks = u.tasks \cup {t}
        /\ v.confirm = u.confirm /\ v.armed = u.armed /\ v.confirmed = u.confirmed
    BY <1>2 DEF Good, PageSound, PageFields
  <1> HIDE DEF v
  <1>5. Good(v)
    <2>1. PageSound(v)
      BY <1>2, <1>3, <1>4 DEF Good, PageSound
    <2>2. Wanted(v) = Wanted(u)
      BY <1>4 DEF Wanted
    <2> QED BY <1>2, <1>4, <2>1, <2>2 DEF Good, ArmedWell, TablesWell, ConnectionWell
  <1>6. <<t.branch, t.db>> = Wanted(ui)
    BY <1>1, <1>2, <1>3, ContextWanted DEF Context
  <1> QED BY <1>1, <1>2, <1>3, <1>4, <1>5, <1>6 DEF Good, ArmedWell, Confirmed

-----------------------------------------------------------------------------
(* The page alone *)

\* The page before the script's last statement.
Blank ==
    [branches |-> {}, page |-> "other", selected |-> Main, connection |-> NoConnection,
     entries |-> [b \in Branches |-> NoEntry], chosen |-> [b \in Branches |-> NoDB],
     refreshing |-> FALSE, connBusy |-> FALSE, saving |-> FALSE,
     writes |-> FALSE, confirm |-> FALSE, off |-> {"db", "tables"},
     text |-> "typed", active |-> NoQuery, listed |-> {}, catalog |-> {}, detail |-> {},
     armed |-> NoContext, confirmed |-> NoContext, tasks |-> {}]

LEMMA BlankGood == PageSound(Blank) /\ TablesWell(Blank) /\ ConnectionWell(Blank)
  <1>1. NoEntry \in EntryType /\ NoEntry.names = {} /\ ~NoEntry.required
    BY DEF NoEntry, EntryType
  <1>2. \A b \in Branches : EntrySound(NoEntry, NoDB)
    BY <1>1 DEF EntrySound
  <1>3. PageSound(Blank)
    BY <1>1, <1>2, MainAssumption DEF PageSound, PageFields, Blank
  <1> QED BY <1>3 DEF TablesWell, ConnectionWell, Blank

LEMMA InitGood == Init => Good(ui)
  <1> SUFFICES ASSUME Init PROVE Good(ui)
    OBVIOUS
  <1>1. ui = StartLoadAll(Blank, NewTask("loadAll"))
    BY DEF Init, Blank
  <1>2. Advances(Blank, ui)
    BY <1>1, BlankGood, StartLoadAllGood, NewTaskShape
  <1> QED BY <1>2 DEF Advances

LEMMA NextGood ==
    ASSUME Good(ui), ControllerSound, Next
    PROVE  Good(ui') /\ (Run \/ SendsNothing(ui, ui'))
  <1>1. ASSUME NEW t \in ui.tasks, Answer(t) PROVE Advances(ui, ui')
    BY <1>1, AnswerListsGood, AnswerConnectionGood, AnswerDatabasesGood, AnswerLibraryGood,
       AnswerCatalogGood, AnswerDetailGood, AnswerServedGood, ServeGood DEF Answer
  <1>2. CASE Elsewhere
    BY <1>2 DEF Elsewhere, SendsNothing
  <1>3. CASE Run
    BY <1>3, RunGood
  <1>4. CASE TickWrites \/ TickConfirm
    BY <1>4, TickGood DEF Advances
  <1>5. CASE \/ RefreshAll \/ ChangeBranches \/ Leave
             \/ \E page \in {"sql", "tables"} : Navigate(page)
             \/ \E b \in Branches : SelectInSidebar(b) \/ OpenBranch(b)
    BY <1>5, NavigationGood DEF Advances
  <1>6. CASE \/ \E i \in DOMAIN queries : OpenSaved(i) \/ Delete(i)
             \/ OpenInspection
             \/ \E asNew \in BOOLEAN : Save(asNew)
    BY <1>6, LibraryGood DEF Advances
  <1>7. CASE \/ \E db \in Databases : ChooseDatabase(db)
             \/ \E flow \in {"tables", "more"} : LoadCatalog(flow)
             \/ SelectTable
    BY <1>7, SchemaGood DEF Advances
  <1> QED BY <1>1, <1>2, <1>3, <1>4, <1>5, <1>6, <1>7 DEF Next, Advances

-----------------------------------------------------------------------------
(* What the page and its requests know of each other *)

Controls == {"run", "writes", "confirm", "db", "tables"}

Listed(entry) == IF entry.names = {} THEN {Default} ELSE entry.names

\* A query can be run only where a database can be chosen.
Runnable(u) ==
    "run" \notin u.off =>
        ~u.refreshing /\ Usable(u) /\ SelectedDB(u) # NoDB /\ "db" \notin u.off

\* And chosen only from a list that is there, and that the remembered one is in.
Choosable(u) ==
    LET entry == u.entries[u.selected] IN
    "db" \notin u.off =>
        /\ ~entry.loading
        /\ DatabaseRequired(entry, u.chosen[u.selected], Listed(entry)) => entry.required

Honest(u) ==
    /\ u.off \subseteq Controls
    /\ Runnable(u)
    /\ Choosable(u)

\* What a request goes on with, wherever it waits.
TaskTied(t, q) ==
    /\ "refresh" \in t.fresh => t.flow = "loadAll"
    /\ "editor" \in t.fresh => t.flow \in {"open", "save"}
    /\ t.flow = "open" =>
        /\ t.opened.text \in Texts
        /\ t.opened.id # NoQuery =>
            /\ t.opened.id \in DOMAIN q
            /\ q[t.opened.id].branch = t.opened.branch
            /\ q[t.opened.id].db = t.opened.db
            /\ q[t.opened.id].text = t.opened.text

\* Where it waits, and which row a change of a saved query is about.
TaskPlaced(t, q) ==
    /\ t.flow = "save" => t.at \in {"save", "saved", "failed", "library"}
    /\ t.flow = "loadAll" => t.at \in {"lists", "connection", "databases", "library", "catalog", "detail"}
    /\ t.at \in {"branch", "changed"} => t.flow = "branch"
    /\ t.at \in {"save", "saved"} =>
          t.branch \in Branches /\ t.db \in Databases /\ t.text \in Texts
    /\ t.at = "saved" \/ (t.at = "save" /\ t.query # NoQuery) =>
          /\ t.query \in DOMAIN q
          /\ q[t.query].branch = t.branch
          /\ q[t.query].db = t.db
          /\ q[t.query].text = t.text
    /\ t.at = "delete" => t.query \in DOMAIN q

\* A change that the editor waits for is of the text it shows.
TaskBound(u, t) ==
    t.at \in {"save", "saved"} /\ "editor" \in t.fresh => t.text = u.text

Reader(u, epoch) == \E s \in u.tasks : epoch \in s.fresh

OneReader(u, epoch) == \A r, s \in u.tasks : epoch \in r.fresh \cap s.fresh => r = s

\* The page u and its requests while t, which is none of them, goes on between two awaits.
Kept(u, t, q) ==
    /\ \A s \in u.tasks : TaskTied(s, q) /\ TaskPlaced(s, q) /\ TaskBound(u, s)
    /\ OneReader(u, "refresh") /\ OneReader(u, "editor")
    /\ "refresh" \in t.fresh => ~Reader(u, "refresh")
    /\ "editor" \in t.fresh => ~Reader(u, "editor")
    /\ u.refreshing <=> Reader(u, "refresh") \/ "refresh" \in t.fresh
    /\ u.saving => t.flow = "save" \/ \E s \in u.tasks : s.flow = "save"
    /\ u.listed \subseteq DOMAIN q
    /\ u.text \in Texts

\* The branch main is listed, and so is the selected branch.
OnList(u) == u.branches # {} => {Main, u.selected} \subseteq u.branches

Linked(u, t, q) == Kept(u, t, q) /\ OnList(u)

\* The page waits for its latest connection request, which is about the selected branch.
Connecting(u) ==
    /\ \A s \in u.tasks : s.at = "connection" /\ "connection" \in s.fresh => s.branch = u.selected
    /\ u.connBusy => \E s \in u.tasks : s.at = "connection" /\ "connection" \in s.fresh

\* The editor's query is the row it says, and of the context the page stands for.
QueryShown(u, q) ==
    u.active # NoQuery =>
        /\ u.active \in DOMAIN q
        /\ q[u.active].text = u.text
        /\ <<q[u.active].branch, q[u.active].db>> = Wanted(u)

Tied(u, t, q) == Linked(u, t, q) /\ Connecting(u) /\ QueryShown(u, q)

\* No request goes on.
Idle == [flow |-> "none", fresh |-> {}]

\* t goes on from an await; and a page that only waits.
Partway(u, t, q) ==
    PageSound(u) /\ Honest(u) /\ Tied(u, t, q) /\ TaskShape(t) /\ TaskTied(t, q)

Arrived(u, q) == PageSound(u) /\ Honest(u) /\ Tied(u, Idle, q)

-----------------------------------------------------------------------------
(* Synchronous functions *)

\* Only controls have changed, and what is remembered of the database to choose.
Renders(u, v) ==
    /\ PageSound(v)
    /\ Wanted(v) = Wanted(u)
    /\ v.branches = u.branches /\ v.selected = u.selected /\ v.connection = u.connection
    /\ v.refreshing = u.refreshing /\ v.connBusy = u.connBusy /\ v.saving = u.saving
    /\ v.text = u.text /\ v.active = u.active /\ v.listed = u.listed /\ v.tasks = u.tasks

LEMMA RendersOn ==
    ASSUME NEW u, NEW v, NEW w, Renders(u, v), Renders(v, w)
    PROVE  Renders(u, w)
  BY DEF Renders

LEMMA RendersTied ==
    ASSUME NEW u, NEW v, NEW t, NEW q, Renders(u, v)
    PROVE  /\ Kept(u, t, q) => Kept(v, t, q)
           /\ Linked(u, t, q) => Linked(v, t, q)
           /\ Connecting(u) => Connecting(v)
           /\ QueryShown(u, q) => QueryShown(v, q)
           /\ Tied(u, t, q) => Tied(v, t, q)
  BY DEF Renders, Tied, Linked, Kept, OnList, Connecting, QueryShown, TaskBound, Reader, OneReader

LEMMA OffRenders ==
    ASSUME NEW u, PageSound(u), NEW controls \in SUBSET Controls
    PROVE  LET v == Off(u, controls) IN
           /\ Renders(u, v) /\ PageSound(v)
           /\ v.entries = u.entries /\ v.chosen = u.chosen
           /\ v.off = u.off \cup controls
           /\ v.writes = u.writes
  BY OffFollows DEF Renders, Follows, PageSound, PageFields, Off

LEMMA OnRenders ==
    ASSUME NEW u, PageSound(u), NEW controls \in SUBSET Controls
    PROVE  LET v == On(u, controls) IN
           /\ Renders(u, v) /\ PageSound(v)
           /\ v.entries = u.entries /\ v.chosen = u.chosen
           /\ v.off = u.off \ controls
  BY OnFollows DEF Renders, Follows, PageSound, PageFields, On

\* What makes a query run, whatever the page was before.
LEMMA ModeRenders ==
    ASSUME NEW u, PageSound(u)
    PROVE  LET v == ApplySQLMode(u) IN
           /\ Renders(u, v) /\ PageSound(v)
           /\ v.entries = u.entries /\ v.chosen = u.chosen
           /\ u.off \subseteq Controls => v.off \subseteq Controls
           /\ "db" \in v.off <=> "db" \in u.off
           /\ Runnable(v)
  <1> DEFINE listed == u.selected \in u.branches
             writing == u.writes /\ "writes" \notin u.off
             confirmation == writing /\ listed /\ u.selected \in Protected
             confirm == u.confirm /\ confirmation
             ready ==
                 /\ listed /\ Usable(u) /\ SelectedDB(u) # NoDB
                 /\ ~u.connBusy /\ ~u.refreshing
                 /\ u.off \cap {"writes", "db"} = {}
                 /\ confirmation => confirm
             armed == IF u.writes THEN u.armed ELSE NoContext
             confirmed == IF confirm THEN u.confirmed ELSE NoContext
             off == (u.off \ {"confirm", "run"}) \cup (IF confirmation THEN {} ELSE {"confirm"})
                                                 \cup (IF ready THEN {} ELSE {"run"})
             v == ApplySQLMode(u)
  <1>1. ApplySQLMode(u) = [u EXCEPT !.confirm = confirm, !.armed = armed,
                                    !.confirmed = confirmed, !.off = off]
    BY DEF ApplySQLMode
  <1>2. /\ u.off \subseteq Controls => off \subseteq Controls
        /\ "db" \in off <=> "db" \in u.off
        /\ "run" \notin off => ready
    BY DEF Controls
  <1>3. ready => ~u.refreshing /\ Usable(u) /\ SelectedDB(u) # NoDB /\ "db" \notin u.off
    OBVIOUS
  <1> HIDE DEF confirm, armed, confirmed, off, ready
  <1>4. /\ v = [f \in PageFields |-> v[f]] /\ v.off = off
        /\ v.branches = u.branches /\ v.selected = u.selected /\ v.connection = u.connection
        /\ v.entries = u.entries /\ v.chosen = u.chosen
        /\ v.refreshing = u.refreshing /\ v.connBusy = u.connBusy /\ v.saving = u.saving
        /\ v.text = u.text /\ v.active = u.active /\ v.listed = u.listed /\ v.tasks = u.tasks
    BY <1>1, ZenonT(60) DEF PageSound, PageFields
  <1>5. PageSound(v) /\ Wanted(v) = Wanted(u)
    BY ModeFollows DEF Follows
  <1> HIDE DEF v
  <1>6. Usable(v) = Usable(u) /\ SelectedDB(v) = SelectedDB(u)
    BY <1>4 DEF Usable, SelectedDB
  <1>7. Runnable(v)
    BY <1>2, <1>3, <1>4, <1>6 DEF Runnable
  <1> QED BY <1>2, <1>4, <1>5, <1>7 DEF Renders, v

LEMMA ClearRenders ==
    ASSUME NEW u, PageSound(u)
    PROVE  LET v == ClearSQLWriteMode(u) IN
           /\ Renders(u, v) /\ PageSound(v)
           /\ u.off \subseteq Controls => v.off \subseteq Controls
           /\ Runnable(v)
           /\ Choosable(u) => Choosable(v)
           /\ "db" \in v.off <=> "db" \in u.off
  <1> DEFINE w == [u EXCEPT !.writes = FALSE, !.confirm = FALSE]
             v == ApplySQLMode(w)
  <1>1. Renders(u, w) /\ w.off = u.off /\ w.entries = u.entries /\ w.chosen = u.chosen
    BY DEF Renders, PageSound, PageFields, Wanted
  <1>2. PageSound(w) /\ w.selected = u.selected
    BY <1>1 DEF Renders
  <1> HIDE DEF w
  <1>3. /\ Renders(w, v) /\ PageSound(v) /\ v.entries = w.entries /\ v.chosen = w.chosen
        /\ w.off \subseteq Controls => v.off \subseteq Controls
        /\ "db" \in v.off <=> "db" \in w.off
        /\ Runnable(v)
    BY <1>2, ModeRenders
  <1>4. ClearSQLWriteMode(u) = v
    BY DEF ClearSQLWriteMode, w
  <1> HIDE DEF v
  <1>5. Choosable(u) => Choosable(v)
    BY <1>1, <1>2, <1>3 DEF Choosable, Renders
  <1> QED BY <1>1, <1>3, <1>4, <1>5, RendersOn

\* A select that is enabled has a list, and a page that can run a query still can.
LEMMA SelectorRenders ==
    ASSUME NEW u, PageSound(u)
    PROVE  LET v == RenderDatabaseSelector(u) IN
           /\ Renders(u, v) /\ PageSound(v)
           /\ u.off \subseteq Controls => v.off \subseteq Controls
           /\ Choosable(v)
           /\ Honest(u) => Honest(v)
  <1> DEFINE b == u.selected
             entry == u.entries[b]
             names == IF entry.names = {} THEN {Default} ELSE entry.names
             required == DatabaseRequired(entry, u.chosen[b], names)
             a == [u EXCEPT !.entries[b].required = required]
             wanted == IF SelectedDB(a) = NoDB THEN Default ELSE SelectedDB(a)
             value == IF wanted \in names THEN wanted ELSE CHOOSE name \in names : TRUE
             chosen == IF required \/ entry.error THEN u.chosen[b] ELSE value
             w == [a EXCEPT !.chosen[b] = IF required \/ entry.error THEN @ ELSE value]
             v == RenderDatabaseSelector(u)
  <1>1. b \in Branches /\ entry \in EntryType /\ EntrySound(entry, u.chosen[b])
        /\ u.chosen[b] \in Databases \cup {NoDB} /\ names \subseteq Databases /\ names # {}
        /\ required \in BOOLEAN /\ names = Listed(entry)
    BY DefaultAssumption DEF PageSound, EntryType, DatabaseRequired, Listed
  <1>2. PageSound(v) /\ Wanted(v) = Wanted(u)
    BY SelectorFollows DEF Follows
  <1>3. CASE ~Usable(u) \/ entry.loading
    <2>1. v = Off(u, {"db", "tables"})
      BY <1>3 DEF RenderDatabaseSelector
    <2>2. /\ Renders(u, v) /\ v.off = u.off \cup {"db", "tables"}
          /\ v.entries = u.entries /\ v.chosen = u.chosen
      BY <2>1, OffRenders DEF Controls
    <2> HIDE DEF v
    <2>3. Choosable(v) /\ (u.off \subseteq Controls => v.off \subseteq Controls)
      BY <2>2 DEF Choosable, Controls
    <2>4. ASSUME Honest(u) PROVE Honest(v)
      <3>1. "run" \in u.off
        BY <1>3, <2>4 DEF Honest, Runnable, Choosable
      <3> QED BY <2>2, <2>3, <2>4, <3>1 DEF Honest, Runnable
    <2> QED BY <1>2, <2>2, <2>3, <2>4 DEF v
  <1>4. CASE Usable(u) /\ ~entry.loading
    <2>1. v = On(w, {"db", "tables"})
      BY <1>4 DEF RenderDatabaseSelector
    <2>2. /\ a = [f \in PageFields |-> a[f]]
          /\ a.entries = [u.entries EXCEPT ![b] = [entry EXCEPT !.required = required]]
          /\ \A f \in PageFields \ {"entries"} : a[f] = u[f]
      BY <1>1 DEF PageSound, PageFields
    <2>3. /\ v = [f \in PageFields |-> v[f]]
          /\ v.entries = [u.entries EXCEPT ![b] = [entry EXCEPT !.required = required]]
          /\ v.chosen = [u.chosen EXCEPT ![b] = chosen]
          /\ v.off = u.off \ {"db", "tables"}
          /\ v.branches = u.branches /\ v.selected = u.selected /\ v.connection = u.connection
          /\ v.refreshing = u.refreshing /\ v.connBusy = u.connBusy /\ v.saving = u.saving
          /\ v.text = u.text /\ v.active = u.active /\ v.listed = u.listed /\ v.tasks = u.tasks
      <3>1. /\ w = [f \in PageFields |-> w[f]]
            /\ w.entries = a.entries
            /\ w.chosen = [u.chosen EXCEPT ![b] = chosen]
            /\ \A f \in PageFields \ {"entries", "chosen"} : w[f] = u[f]
        <4>1. w = [a EXCEPT !.chosen = [a.chosen EXCEPT ![b] = chosen]]
          <5>1. a.chosen = u.chosen
            BY <2>2 DEF PageFields
          <5> HIDE DEF a, required, entry, b, value
          <5> QED BY <5>1
        <4> HIDE DEF a, required, entry, b, value, chosen, w
        <4> QED BY <4>1, <2>2, SMTT(30) DEF PageFields
      <3>2. /\ v = [w EXCEPT !.off = w.off \ {"db", "tables"}]
        BY <2>1 DEF On
      <3> HIDE DEF w, v, a, required, entry, b, value, chosen
      <3> QED BY <2>2, <3>1, <3>2 DEF PageFields
    <2>4. Renders(u, v)
      BY <1>2, <2>3 DEF Renders
    <2>5. value \in names
      BY <1>1
    <2>6. required <=> entry.known /\ (entry.required \/ (u.chosen[b] # NoDB /\ u.chosen[b] \notin names))
      BY DEF DatabaseRequired
    <2>7. chosen = IF required \/ entry.error THEN u.chosen[b] ELSE value
      OBVIOUS
    <2>8. b = u.selected /\ entry = u.entries[b]
      OBVIOUS
    <2> HIDE DEF v, a, required, value, chosen, w
    <2>9. v.entries[b] = [entry EXCEPT !.required = required] /\ v.chosen[b] = chosen
      BY <1>1, <2>3 DEF PageSound
    <2> HIDE DEF entry, b, names
    <2>10. /\ v.entries[b].names = entry.names /\ v.entries[b].known = entry.known
           /\ v.entries[b].loading = entry.loading /\ v.entries[b].required = required
           /\ Listed(v.entries[b]) = names
      BY <1>1, <2>9 DEF EntryType, Listed
    <2>11. Choosable(v)
      <3>1. DatabaseRequired(v.entries[b], v.chosen[b], names) => required
        BY <2>5, <2>6, <2>7, <2>9, <2>10 DEF DatabaseRequired
      <3> QED BY <1>4, <2>3, <2>8, <2>10, <3>1 DEF Choosable
    <2>12. u.off \subseteq Controls => v.off \subseteq Controls
      BY <2>3
    <2>13. ASSUME Honest(u), "run" \notin v.off PROVE ~v.refreshing /\ Usable(v) /\ SelectedDB(v) # NoDB /\ "db" \notin v.off
      <3>1. ~u.refreshing /\ SelectedDB(u) # NoDB /\ "db" \notin u.off
        BY <2>3, <2>13 DEF Honest, Runnable
      <3>2. ~entry.required
        BY <2>8, <3>1, <1>1 DEF SelectedDB, EntryType
      <3>3. ~required
        BY <1>1, <2>6, <2>8, <2>13, <3>1, <3>2 DEF Honest, Choosable, DatabaseRequired
      <3>4. Usable(v) /\ v.connection # NoConnection
        <4>1. v.connection = u.connection /\ v.selected = u.selected /\ Usable(u)
          BY <1>4, <2>3
        <4> QED BY <4>1 DEF Usable, NoConnection
      <3>5. Default # NoDB
        BY MarkerAssumption, DefaultAssumption
      <3>6. SelectedDB(v) # NoDB
        BY <2>3, <2>8, <2>10, <3>3, <3>4, <3>5 DEF SelectedDB
      <3> QED BY <2>3, <3>1, <3>4, <3>6
    <2>14. Honest(u) => Honest(v)
      BY <2>11, <2>12, <2>13 DEF Honest, Runnable
    <2> QED BY <1>2, <2>4, <2>11, <2>12, <2>14 DEF v
  <1> QED BY <1>3, <1>4

\* After a render the controls are right, whatever they were before.
LEMMA EditorRenders ==
    ASSUME NEW u, PageSound(u), u.off \subseteq Controls
    PROVE  LET v == RenderSQLEditor(u) IN
           Renders(u, v) /\ PageSound(v) /\ Honest(v)
  <1> DEFINE v == RenderSQLEditor(u)
  <1>1. CASE u.selected \in u.branches /\ (u.refreshing \/ u.connBusy)
    <2> DEFINE w == Off(u, {"run", "writes", "confirm", "db"})
    <2>1. v = ClearSQLWriteMode(w)
      BY <1>1 DEF RenderSQLEditor
    <2>2. Renders(u, w) /\ PageSound(w) /\ w.off \subseteq Controls /\ "db" \in w.off
      BY OffRenders DEF Controls
    <2> HIDE DEF w
    <2>3. Choosable(w)
      BY <2>2 DEF Choosable
    <2> QED BY <2>1, <2>2, <2>3, ClearRenders, RendersOn DEF Honest
  <1>2. CASE /\ ~(u.selected \in u.branches /\ (u.refreshing \/ u.connBusy))
             /\ u.selected \notin u.branches \/ ~Usable(u)
    <2> DEFINE a == [u EXCEPT !.writes = FALSE]
               w == Off(a, {"run", "writes"})
               x == RenderDatabaseSelector(w)
    <2>1. v = ApplySQLMode(x)
      BY <1>2 DEF RenderSQLEditor
    <2>2. Renders(u, a) /\ PageSound(a) /\ a.off = u.off
      BY DEF Renders, PageSound, PageFields, Wanted
    <2> HIDE DEF a
    <2>3. Renders(a, w) /\ PageSound(w) /\ w.off \subseteq Controls
      BY <2>2, OffRenders DEF Controls
    <2> HIDE DEF w
    <2>4. Renders(w, x) /\ PageSound(x) /\ x.off \subseteq Controls /\ Choosable(x)
      BY <2>3, SelectorRenders
    <2> HIDE DEF x
    <2>5. /\ Renders(x, v) /\ PageSound(v) /\ v.off \subseteq Controls
          /\ v.entries = x.entries /\ v.chosen = x.chosen
          /\ "db" \in v.off <=> "db" \in x.off
          /\ Runnable(v)
      BY <2>1, <2>4, ModeRenders
    <2>6. Choosable(v)
      BY <2>4, <2>5 DEF Choosable, Renders
    <2> QED BY <2>2, <2>3, <2>4, <2>5, <2>6, RendersOn DEF Honest
  <1>3. CASE /\ ~(u.selected \in u.branches /\ (u.refreshing \/ u.connBusy))
             /\ ~(u.selected \notin u.branches \/ ~Usable(u))
    <2> DEFINE x == RenderDatabaseSelector(u)
               held == x.entries[x.selected].loading \/ x.entries[x.selected].required
               a == Off(x, {"run", "writes"})
               c == On(x, {"run", "writes"})
    <2>1. v = IF held THEN ClearSQLWriteMode(a) ELSE ApplySQLMode(c)
      BY <1>3 DEF RenderSQLEditor
    <2>2. Renders(u, x) /\ PageSound(x) /\ x.off \subseteq Controls /\ Choosable(x)
      BY SelectorRenders
    <2> HIDE DEF x, held
    <2>3. /\ Renders(x, a) /\ PageSound(a) /\ a.off = x.off \cup {"run", "writes"}
          /\ a.entries = x.entries /\ a.chosen = x.chosen
      BY <2>2, OffRenders DEF Controls
    <2>4. /\ Renders(x, c) /\ PageSound(c) /\ c.off = x.off \ {"run", "writes"}
          /\ c.entries = x.entries /\ c.chosen = x.chosen
      BY <2>2, OnRenders DEF Controls
    <2> HIDE DEF a, c
    <2>5. a.off \subseteq Controls /\ c.off \subseteq Controls /\ Choosable(a) /\ Choosable(c)
      BY <2>2, <2>3, <2>4 DEF Choosable, Controls, Renders
    <2>6. CASE held
      BY <2>1, <2>2, <2>3, <2>5, <2>6, ClearRenders, RendersOn DEF Honest
    <2>7. CASE ~held
      <3>1. /\ Renders(c, v) /\ PageSound(v) /\ v.off \subseteq Controls
            /\ v.entries = c.entries /\ v.chosen = c.chosen
            /\ "db" \in v.off <=> "db" \in c.off
            /\ Runnable(v)
        BY <2>1, <2>4, <2>5, <2>7, ModeRenders
      <3>2. Choosable(v)
        BY <2>5, <3>1 DEF Choosable, Renders
      <3> QED BY <2>2, <2>4, <3>1, <3>2, RendersOn DEF Honest
    <2> QED BY <2>6, <2>7
  <1> QED BY <1>1, <1>2, <1>3

LEMMA ContextRenders ==
    ASSUME NEW u, PageSound(u), u.off \subseteq Controls
    PROVE  LET v == RenderContext(u) IN
           Renders(u, v) /\ PageSound(v) /\ Honest(v)
  <1> DEFINE w == RenderSQLEditor(u)
  <1>1. Renders(u, w) /\ PageSound(w) /\ Honest(w)
    BY EditorRenders
  <1> HIDE DEF w
  <1>2. LET v == RenderDatabaseSelector(w) IN Renders(w, v) /\ PageSound(v) /\ Honest(v)
    BY <1>1, SelectorRenders
  <1>3. RenderContext(u) = RenderDatabaseSelector(w)
    BY DEF RenderContext, w
  <1> QED BY <1>1, <1>2, <1>3, RendersOn

-----------------------------------------------------------------------------
(* Requests *)

LEMMA BumpRequests ==
    ASSUME NEW u, PageSound(u), NEW epochs
    PROVE  LET v == Bump(u, epochs) IN
           /\ PageSound(v) /\ Wanted(v) = Wanted(u)
           /\ \A f \in PageFields \ {"tasks"} : v[f] = u[f]
           /\ \A s \in v.tasks : \E r \in u.tasks : s = [r EXCEPT !.fresh = @ \ epochs]
           /\ \A r \in u.tasks : [r EXCEPT !.fresh = @ \ epochs] \in v.tasks
  <1> DEFINE T(t) == [t EXCEPT !.fresh = @ \ epochs]
             v == [u EXCEPT !.tasks = {T(t) : t \in u.tasks}]
  <1>1. v.tasks = {T(t) : t \in u.tasks} /\ \A f \in PageFields \ {"tasks"} : v[f] = u[f]
    BY DEF PageSound, PageFields
  <1>2. Bump(u, epochs) = v
    BY DEF Bump
  <1> HIDE DEF v
  <1>3. PageSound(v) /\ Wanted(v) = Wanted(u)
    BY <1>2, BumpFollows DEF Follows
  <1> QED BY <1>1, <1>2, <1>3

\* A task that has become stale is otherwise what it was.
LEMMA StaleTask ==
    ASSUME NEW r, TaskSound(r), NEW epochs
    PROVE  LET s == [r EXCEPT !.fresh = @ \ epochs] IN
           /\ s.fresh = r.fresh \ epochs
           /\ \A f \in TaskFields \ {"fresh"} : s[f] = r[f]
           /\ \A q : TaskTied(r, q) => TaskTied(s, q)
           /\ \A q : TaskPlaced(r, q) => TaskPlaced(s, q)
           /\ \A u : TaskBound(u, r) => TaskBound(u, s)
  <1> DEFINE s == [r EXCEPT !.fresh = @ \ epochs]
  <1>1. s.fresh = r.fresh \ epochs /\ \A f \in TaskFields \ {"fresh"} : s[f] = r[f]
    BY DEF TaskSound, TaskShape, TaskFields
  <1>2. /\ s.at = r.at /\ s.flow = r.flow /\ s.opened = r.opened /\ s.text = r.text
        /\ s.query = r.query /\ s.branch = r.branch /\ s.db = r.db
    BY <1>1 DEF TaskFields
  <1> HIDE DEF s
  <1>3. \A q : TaskTied(r, q) => TaskTied(s, q)
    BY <1>1, <1>2 DEF TaskTied
  <1>4. \A q : TaskPlaced(r, q) => TaskPlaced(s, q)
    BY <1>1, <1>2 DEF TaskPlaced
  <1>5. \A u : TaskBound(u, r) => TaskBound(u, s)
    BY <1>1, <1>2 DEF TaskBound
  <1> QED BY <1>1, <1>3, <1>4, <1>5 DEF s

\* An epoch that moves on leaves nobody who has read it.
LEMMA BumpReaders ==
    ASSUME NEW u, PageSound(u), NEW epochs
    PROVE  LET v == Bump(u, epochs) IN
           /\ \A e : Reader(v, e) <=> Reader(u, e) /\ e \notin epochs
           /\ \A e : OneReader(u, e) => OneReader(v, e)
           /\ \A x : (\E s \in v.tasks : s.flow = x) <=> (\E s \in u.tasks : s.flow = x)
           /\ "connection" \notin epochs /\ Connecting(u) => Connecting(v)
           /\ "connection" \in epochs =>
                 \A s \in v.tasks : ~(s.at = "connection" /\ "connection" \in s.fresh)
  <1> DEFINE v == Bump(u, epochs)
             T(t) == [t EXCEPT !.fresh = @ \ epochs]
  <1>1. /\ v.selected = u.selected /\ v.connBusy = u.connBusy
        /\ \A s \in v.tasks : \E r \in u.tasks : s = T(r)
        /\ \A r \in u.tasks : T(r) \in v.tasks
    BY BumpRequests DEF PageFields
  <1>2. ASSUME NEW r \in u.tasks
        PROVE  /\ T(r).fresh = r.fresh \ epochs /\ T(r).flow = r.flow
               /\ T(r).at = r.at /\ T(r).branch = r.branch
    BY <1>2, StaleTask DEF PageSound, TaskFields
  <1> HIDE DEF v, T
  <1>3. \A e : Reader(v, e) <=> Reader(u, e) /\ e \notin epochs
    BY <1>1, <1>2 DEF Reader
  <1>4. \A e : OneReader(u, e) => OneReader(v, e)
    BY <1>1, <1>2 DEF OneReader
  <1>5. \A x : (\E s \in v.tasks : s.flow = x) <=> (\E s \in u.tasks : s.flow = x)
    BY <1>1, <1>2
  <1>6. "connection" \notin epochs /\ Connecting(u) => Connecting(v)
    BY <1>1, <1>2 DEF Connecting
  <1>7. "connection" \in epochs => \A s \in v.tasks : ~(s.at = "connection" /\ "connection" \in s.fresh)
    BY <1>1, <1>2
  <1> QED BY <1>3, <1>4, <1>5, <1>6, <1>7 DEF v

LEMMA BumpKept ==
    ASSUME NEW u, PageSound(u), NEW epochs, NEW t, NEW q, Kept(u, t, q)
    PROVE  LET v == Bump(u, epochs) IN
           /\ "refresh" \notin epochs => Kept(v, t, q)
           /\ QueryShown(u, q) => QueryShown(v, q)
           /\ "connection" \notin epochs /\ Connecting(u) => Connecting(v)
           /\ Honest(u) => Honest(v)
           /\ v.off = u.off /\ v.branches = u.branches /\ v.selected = u.selected /\ PageSound(v)
  <1> DEFINE v == Bump(u, epochs)
             T(r) == [r EXCEPT !.fresh = @ \ epochs]
  <1>1. /\ PageSound(v) /\ Wanted(v) = Wanted(u)
        /\ \A f \in PageFields \ {"tasks"} : v[f] = u[f]
        /\ \A s \in v.tasks : \E r \in u.tasks : s = T(r)
    BY BumpRequests
  <1>2. /\ \A e : Reader(v, e) <=> Reader(u, e) /\ e \notin epochs
        /\ \A e : OneReader(u, e) => OneReader(v, e)
        /\ \A x : (\E s \in v.tasks : s.flow = x) <=> (\E s \in u.tasks : s.flow = x)
        /\ "connection" \notin epochs /\ Connecting(u) => Connecting(v)
    BY BumpReaders
  <1>3. ASSUME NEW r \in u.tasks PROVE TaskTied(T(r), q) /\ TaskPlaced(T(r), q) /\ TaskBound(u, T(r))
    BY StaleTask DEF Kept, PageSound
  <1> HIDE DEF T, v
  <1>4. /\ v.branches = u.branches /\ v.selected = u.selected /\ v.connection = u.connection
        /\ v.refreshing = u.refreshing /\ v.connBusy = u.connBusy /\ v.saving = u.saving
        /\ v.text = u.text /\ v.active = u.active /\ v.listed = u.listed
        /\ v.off = u.off /\ v.entries = u.entries /\ v.chosen = u.chosen
    BY <1>1 DEF PageFields
  <1>5. \A s \in v.tasks : TaskTied(s, q) /\ TaskPlaced(s, q) /\ TaskBound(v, s)
    BY <1>1, <1>3, <1>4 DEF TaskBound
  <1>6. "refresh" \notin epochs => Kept(v, t, q)
    BY <1>2, <1>4, <1>5 DEF Kept
  <1>7. QueryShown(u, q) => QueryShown(v, q)
    BY <1>1, <1>4 DEF QueryShown
  <1>8. Honest(u) => Honest(v)
    BY <1>4 DEF Honest, Runnable, Choosable, Usable, SelectedDB
  <1> QED BY <1>1, <1>2, <1>4, <1>6, <1>7, <1>8 DEF v

LEMMA BumpTied ==
    ASSUME NEW u, PageSound(u), NEW epochs, NEW t, NEW q, Linked(u, t, q)
    PROVE  LET v == Bump(u, epochs) IN
           /\ "refresh" \notin epochs => Linked(v, t, q)
           /\ QueryShown(u, q) => QueryShown(v, q)
           /\ "connection" \notin epochs /\ Connecting(u) => Connecting(v)
           /\ Honest(u) => Honest(v)
           /\ v.off = u.off /\ PageSound(v)
  BY BumpKept DEF Linked, OnList

\* What the page keeps of the request that goes on is what that has read, and its flow.
LEMMA AnotherTied ==
    ASSUME NEW u, NEW t, NEW s, NEW q, Linked(u, t, q),
           \A e \in {"refresh", "editor"} : e \in s.fresh <=> e \in t.fresh,
           t.flow = "save" => s.flow = "save"
    PROVE  Linked(u, s, q)
  BY DEF Linked, Kept, OnList

LEMMA ReadsTied ==
    ASSUME NEW t, TaskShape(t), NEW epoch, NEW q, TaskTied(t, q), epoch \notin {"refresh", "editor"}
    PROVE  LET s == Reads(t, epoch) IN
           /\ TaskShape(s) /\ TaskTied(s, q) /\ epoch \in s.fresh
           /\ \A e \in {"refresh", "editor"} : e \in s.fresh <=> e \in t.fresh
           /\ s.flow = t.flow /\ s.opened = t.opened
           /\ \A u : Linked(u, t, q) => Linked(u, s, q)
  <1> DEFINE s == Reads(t, epoch)
  <1>1. TaskShape(s)
    BY ReadsShape
  <1>2. s.fresh = t.fresh \cup {epoch} /\ s.flow = t.flow /\ s.opened = t.opened
    BY DEF TaskShape, TaskFields, Reads
  <1> HIDE DEF s
  <1>3. \A e \in {"refresh", "editor"} : e \in s.fresh <=> e \in t.fresh
    BY <1>2
  <1>4. TaskTied(s, q)
    BY <1>2, <1>3 DEF TaskTied
  <1>5. \A u : Linked(u, t, q) => Linked(u, s, q)
    BY <1>2, <1>3, AnotherTied
  <1> QED BY <1>1, <1>2, <1>3, <1>4, <1>5 DEF s

\* The request waits.
LEMMA TaskPut ==
    ASSUME NEW u, PageSound(u), NEW t, NEW q, Linked(u, t, q), QueryShown(u, q),
           NEW s, TaskSound(s), s.at # "run", TaskTied(s, q), TaskPlaced(s, q), TaskBound(u, s),
           \A e \in {"refresh", "editor"} : e \in s.fresh <=> e \in t.fresh,
           t.flow = "save" => s.flow = "save",
           \A r \in u.tasks : r.at = "connection" /\ "connection" \in r.fresh => r.branch = u.selected,
           s.at = "connection" /\ "connection" \in s.fresh => s.branch = u.selected,
           Connecting(u) \/ (s.at = "connection" /\ "connection" \in s.fresh)
    PROVE  LET v == [u EXCEPT !.tasks = @ \cup {s}] IN
           PageSound(v) /\ Tied(v, Idle, q) /\ (Honest(u) => Honest(v))
  <1> DEFINE v == [u EXCEPT !.tasks = @ \cup {s}]
  <1>1. PageSound(v) /\ Wanted(v) = Wanted(u)
    BY TaskAdded DEF Follows
  <1>2. /\ v.tasks = u.tasks \cup {s}
        /\ v.branches = u.branches /\ v.selected = u.selected /\ v.connection = u.connection
        /\ v.refreshing = u.refreshing /\ v.connBusy = u.connBusy /\ v.saving = u.saving
        /\ v.text = u.text /\ v.active = u.active /\ v.listed = u.listed
        /\ v.off = u.off /\ v.entries = u.entries /\ v.chosen = u.chosen
    BY DEF PageSound, PageFields
  <1> HIDE DEF v
  <1>3. Idle.fresh = {} /\ Idle.flow = "none"
    BY DEF Idle
  <1>4. \A r \in v.tasks : TaskTied(r, q) /\ TaskPlaced(r, q) /\ TaskBound(v, r)
    BY <1>2 DEF Linked, Kept, OnList, TaskBound
  <1>5. ASSUME NEW e \in {"refresh", "editor"}
        PROVE  OneReader(v, e) /\ (Reader(v, e) <=> Reader(u, e) \/ e \in t.fresh)
    BY <1>2 DEF Linked, Kept, OnList, OneReader, Reader
  <1>6. Linked(v, Idle, q)
    BY <1>2, <1>3, <1>4, <1>5 DEF Linked, Kept, OnList
  <1>7. Connecting(v)
    BY <1>2 DEF Connecting
  <1>8. QueryShown(v, q)
    BY <1>1, <1>2 DEF QueryShown
  <1>9. Honest(u) => Honest(v)
    BY <1>2 DEF Honest, Runnable, Choosable, Usable, SelectedDB
  <1> QED BY <1>1, <1>6, <1>7, <1>8, <1>9 DEF Tied, v

\* Where nothing depends on it, the request just ends.
LEMMA TaskDropped ==
    ASSUME NEW u, NEW t, NEW q, Linked(u, t, q), "refresh" \notin t.fresh, t.flow # "save"
    PROVE  Linked(u, Idle, q)
  BY DEF Linked, Kept, OnList, Idle

\* The task that Await adds.
Waits(u, t, at) ==
    [t EXCEPT !.at = at, !.branch = u.selected, !.db = SelectedDB(u), !.since = Len(versions)]

LEMMA WaitsFacts ==
    ASSUME NEW u, NEW t, TaskShape(t), NEW at
    PROVE  /\ Waits(u, t, at).at = at
           /\ Waits(u, t, at).branch = u.selected
           /\ Waits(u, t, at).db = SelectedDB(u)
           /\ Waits(u, t, at).fresh = t.fresh
           /\ Waits(u, t, at).flow = t.flow
           /\ Waits(u, t, at).opened = t.opened
           /\ Waits(u, t, at).query = t.query
           /\ Waits(u, t, at).text = t.text
           /\ at \notin {"run", "catalog"} => TaskSound(Waits(u, t, at))
  BY DEF Waits, TaskSound, TaskShape, TaskFields

LEMMA WaitsTied ==
    ASSUME NEW u, NEW t, TaskShape(t), NEW at, NEW q, TaskTied(t, q)
    PROVE  TaskTied(Waits(u, t, at), q)
  <1> DEFINE s == Waits(u, t, at)
  <1>1. s.fresh = t.fresh /\ s.flow = t.flow /\ s.opened = t.opened
    BY DEF Waits, TaskShape, TaskFields
  <1> HIDE DEF s
  <1>2. TaskTied(s, q)
    BY <1>1 DEF TaskTied
  <1> QED BY <1>2 DEF s

LEMMA WaitsAdded ==
    ASSUME NEW u, NEW t, NEW at
    PROVE  Await(u, t, at) = [u EXCEPT !.tasks = @ \cup {Waits(u, t, at)}]
  BY DEF Await, Waits

LEMMA AwaitTied ==
    ASSUME NEW u, PageSound(u), NEW t, NEW q, Linked(u, t, q), QueryShown(u, q),
           TaskShape(t), TaskTied(t, q),
           NEW at \in {"lists", "connection", "databases", "library", "detail"},
           t.flow = "save" => at = "library",
           \A r \in u.tasks : r.at = "connection" /\ "connection" \in r.fresh => r.branch = u.selected,
           Connecting(u) \/ (at = "connection" /\ "connection" \in t.fresh)
    PROVE  LET v == Await(u, t, at) IN
           PageSound(v) /\ Tied(v, Idle, q) /\ (Honest(u) => Honest(v))
  <1> DEFINE s == Waits(u, t, at)
  <1>1. /\ s.at = at /\ s.branch = u.selected
        /\ s.fresh = t.fresh /\ s.flow = t.flow
        /\ TaskSound(s) /\ TaskTied(s, q)
        /\ Await(u, t, at) = [u EXCEPT !.tasks = @ \cup {s}]
    BY WaitsFacts, WaitsTied, WaitsAdded
  <1> HIDE DEF s
  <1>2. TaskPlaced(s, q) /\ TaskBound(u, s)
    BY <1>1 DEF TaskPlaced, TaskBound
  <1> QED BY <1>1, <1>2, TaskPut

LEMMA StartLibraryArrived ==
    ASSUME NEW u, NEW t, NEW q, Partway(u, t, q)
    PROVE  Arrived(StartLibrary(u, t), q)
  <1> DEFINE v == Bump(u, {"library"})
             s == Reads(t, "library")
  <1>1. /\ PageSound(v) /\ Linked(v, t, q) /\ QueryShown(v, q) /\ Connecting(v) /\ Honest(v)
    BY BumpTied DEF Partway, Tied
  <1>2. TaskShape(s) /\ TaskTied(s, q) /\ Linked(v, s, q)
    BY <1>1, ReadsTied DEF Partway
  <1> HIDE DEF v, s
  <1>3. LET w == Await(v, s, "library") IN
        PageSound(w) /\ Tied(w, Idle, q) /\ (Honest(v) => Honest(w))
    BY <1>1, <1>2, AwaitTied DEF Connecting
  <1> QED BY <1>1, <1>3 DEF StartLibrary, Arrived, v, s

LEMMA StartDetailArrived ==
    ASSUME NEW u, NEW t, NEW q, Partway(u, t, q), t.flow # "save"
    PROVE  Arrived(StartDetail(u, t), q)
  <1> DEFINE v == Bump(u, {"detail"})
             s == Reads(t, "detail")
  <1>1. /\ PageSound(v) /\ Linked(v, t, q) /\ QueryShown(v, q) /\ Connecting(v) /\ Honest(v)
    BY BumpTied DEF Partway, Tied
  <1>2. TaskShape(s) /\ TaskTied(s, q) /\ Linked(v, s, q) /\ s.flow = t.flow
    BY <1>1, ReadsTied DEF Partway
  <1> HIDE DEF v, s
  <1>3. LET w == Await(v, s, "detail") IN
        PageSound(w) /\ Tied(w, Idle, q) /\ (Honest(v) => Honest(w))
    BY <1>1, <1>2, AwaitTied DEF Connecting
  <1> QED BY <1>1, <1>3 DEF StartDetail, Arrived, v, s

\* A new connection request is the one the page waits for, whatever it showed before.
LEMMA StartConnectionArrived ==
    ASSUME NEW u, PageSound(u), u.off \subseteq Controls, NEW t, NEW q,
           Linked(u, t, q), QueryShown(u, q), TaskShape(t), TaskTied(t, q), t.flow # "save"
    PROVE  Arrived(StartConnection(u, t), q)
  <1> DEFINE a == Bump(u, {"connection"})
             c == [a EXCEPT !.connBusy = TRUE, !.writes = FALSE, !.confirm = FALSE]
             d == Off(c, {"run", "writes", "confirm", "db", "tables"})
             v == ApplySQLMode(d)
             x == SetConnection(v, NoConnection)
             y == ClearSQLWriteMode(x)
             w == IF v.connection # NoConnection /\ v.connection.branch # v.selected
                  THEN RenderContext(y) ELSE v
             s == Reads(t, "connection")
  <1>1. StartConnection(u, t) = Await(w, s, "connection")
    BY DEF StartConnection
  <1>2. /\ PageSound(a) /\ Linked(a, t, q) /\ QueryShown(a, q) /\ a.off = u.off
        /\ \A r \in a.tasks : ~(r.at = "connection" /\ "connection" \in r.fresh)
    BY BumpTied, BumpReaders
  <1>3. /\ TaskShape(s) /\ TaskTied(s, q) /\ "connection" \in s.fresh /\ s.flow = t.flow
        /\ \A z : Linked(z, t, q) => Linked(z, s, q)
    BY ReadsTied
  <1> HIDE DEF a, s
  <1>4. /\ PageSound(c) /\ Wanted(c) = Wanted(a) /\ c.off = a.off
        /\ c.branches = a.branches /\ c.selected = a.selected
        /\ c.refreshing = a.refreshing /\ c.saving = a.saving
        /\ c.text = a.text /\ c.active = a.active /\ c.listed = a.listed /\ c.tasks = a.tasks
    BY <1>2 DEF PageSound, PageFields, Wanted
  <1> HIDE DEF c
  <1>5. Linked(c, t, q) /\ QueryShown(c, q)
    BY <1>2, <1>4 DEF Linked, Kept, OnList, QueryShown, TaskBound, Reader, OneReader
  <1>6. /\ Renders(c, d) /\ PageSound(d) /\ d.off \subseteq Controls /\ "db" \in d.off
    BY <1>2, <1>4, OffRenders DEF Controls
  <1> HIDE DEF d
  <1>7. /\ Renders(d, v) /\ PageSound(v) /\ v.off \subseteq Controls /\ "db" \in v.off
        /\ Runnable(v)
    BY <1>6, ModeRenders
  <1> HIDE DEF v
  <1>8. Honest(v) /\ Renders(c, v)
    BY <1>6, <1>7, RendersOn DEF Honest, Choosable
  <1>9. Linked(v, t, q) /\ QueryShown(v, q) /\ v.tasks = a.tasks
    BY <1>4, <1>5, <1>8, RendersTied DEF Renders
  <1>10. /\ PageSound(w) /\ Honest(w) /\ Linked(w, t, q) /\ QueryShown(w, q)
         /\ \A r \in w.tasks : ~(r.at = "connection" /\ "connection" \in r.fresh)
    <2>1. CASE v.connection # NoConnection /\ v.connection.branch # v.selected
      <3> DEFINE n == [v EXCEPT !.connection = NoConnection]
      <3>1. /\ PageSound(n) /\ Wanted(n) = Wanted(v) /\ n.off = v.off
            /\ n.branches = v.branches /\ n.selected = v.selected
            /\ n.refreshing = v.refreshing /\ n.saving = v.saving
            /\ n.text = v.text /\ n.active = v.active /\ n.listed = v.listed /\ n.tasks = v.tasks
        BY <1>7 DEF PageSound, PageFields, Wanted
      <3>2. x = Bump(n, {"object"})
        BY DEF SetConnection
      <3> HIDE DEF n, x
      <3>3. Linked(n, t, q) /\ QueryShown(n, q)
        BY <1>9, <3>1 DEF Linked, Kept, OnList, QueryShown, TaskBound, Reader, OneReader
      <3>4. PageSound(x) /\ Linked(x, t, q) /\ QueryShown(x, q) /\ x.off = n.off
        BY <3>1, <3>2, <3>3, BumpTied
      <3>5. \A r \in x.tasks : ~(r.at = "connection" /\ "connection" \in r.fresh)
        <4>1. ASSUME NEW r \in n.tasks
              PROVE  LET z == [r EXCEPT !.fresh = @ \ {"object"}] IN
                     ~(z.at = "connection" /\ "connection" \in z.fresh)
          <5>1. TaskSound(r) /\ ~(r.at = "connection" /\ "connection" \in r.fresh)
            BY <1>2, <1>9, <3>1, <4>1 DEF PageSound
          <5>2. LET z == [r EXCEPT !.fresh = @ \ {"object"}] IN
                z.fresh = r.fresh \ {"object"} /\ z.at = r.at
            BY <5>1, StaleTask DEF TaskFields
          <5> QED BY <5>1, <5>2
        <4>2. \A z \in x.tasks : \E r \in n.tasks : z = [r EXCEPT !.fresh = @ \ {"object"}]
          BY <3>1, <3>2, BumpRequests
        <4> QED BY <4>1, <4>2
      <3>6. Renders(x, y) /\ PageSound(y) /\ y.off \subseteq Controls
        BY <1>7, <3>1, <3>4, ClearRenders
      <3> HIDE DEF y
      <3>7. Renders(y, w) /\ PageSound(w) /\ Honest(w)
        BY <2>1, <3>6, ContextRenders
      <3> HIDE DEF w
      <3>8. Renders(x, w)
        BY <3>6, <3>7, RendersOn
      <3> QED BY <3>4, <3>5, <3>7, <3>8, RendersTied DEF Renders
    <2>2. CASE ~(v.connection # NoConnection /\ v.connection.branch # v.selected)
      BY <1>2, <1>7, <1>8, <1>9, <2>2
    <2> QED BY <2>1, <2>2
  <1> HIDE DEF w
  <1>11. LET z == Await(w, s, "connection") IN
         PageSound(z) /\ Tied(z, Idle, q) /\ (Honest(w) => Honest(z))
    BY <1>3, <1>10, AwaitTied
  <1> QED BY <1>1, <1>10, <1>11 DEF Arrived

\* Another branch, and no saved query: no request depends on either.
LEMMA Reselected ==
    ASSUME NEW u, PageSound(u), NEW b \in Branches, NEW t, NEW q, Kept(u, t, q)
    PROVE  LET v == [u EXCEPT !.selected = b] IN
           /\ PageSound(v) /\ v.off = u.off /\ v.active = u.active
           /\ v.branches = u.branches /\ v.selected = b
           /\ Kept(v, t, q)
  <1> DEFINE v == [u EXCEPT !.selected = b]
  <1>1. /\ PageSound(v) /\ v.off = u.off /\ v.active = u.active
        /\ v.branches = u.branches /\ v.selected = b
        /\ v.refreshing = u.refreshing /\ v.saving = u.saving
        /\ v.text = u.text /\ v.listed = u.listed /\ v.tasks = u.tasks
    BY DEF PageSound, PageFields
  <1> HIDE DEF v
  <1>2. Kept(v, t, q)
    BY <1>1 DEF Kept, TaskBound, Reader, OneReader
  <1> QED BY <1>1, <1>2 DEF v

LEMMA QueryKept ==
    ASSUME NEW u, PageSound(u), NEW t, NEW q, Kept(u, t, q)
    PROVE  LET v == InvalidateSavedQuery(u) IN
           /\ PageSound(v) /\ v.off = u.off
           /\ v.active = NoQuery
           /\ v.branches = u.branches /\ v.selected = u.selected
           /\ ~Reader(v, "editor")
           /\ Kept(v, t, q)
           /\ Connecting(u) => Connecting(v)
           /\ Honest(u) => Honest(v)
  <1> DEFINE a == [u EXCEPT !.active = NoQuery]
             v == InvalidateSavedQuery(u)
  <1>1. /\ PageSound(a) /\ a.off = u.off /\ a.active = NoQuery
        /\ a.branches = u.branches /\ a.selected = u.selected /\ a.connection = u.connection
        /\ a.refreshing = u.refreshing /\ a.connBusy = u.connBusy /\ a.saving = u.saving
        /\ a.text = u.text /\ a.listed = u.listed /\ a.tasks = u.tasks
        /\ a.entries = u.entries /\ a.chosen = u.chosen
    BY DEF PageSound, PageFields
  <1> HIDE DEF a
  <1>2. /\ Kept(a, t, q) /\ (Connecting(u) => Connecting(a))
        /\ Honest(u) => Honest(a)
    BY <1>1 DEF Kept, TaskBound, Reader, OneReader, Connecting, Honest, Runnable,
                Choosable, Usable, SelectedDB
  <1>3. v = Bump(a, {"editor"})
    BY DEF InvalidateSavedQuery, a
  <1> HIDE DEF v
  <1>4. /\ \A f \in PageFields \ {"tasks"} : v[f] = a[f]
        /\ ~Reader(v, "editor")
    BY <1>1, <1>3, BumpRequests, BumpReaders
  <1>5. /\ PageSound(v) /\ v.off = a.off /\ Kept(v, t, q) /\ (Connecting(a) => Connecting(v))
        /\ Honest(a) => Honest(v)
    BY <1>1, <1>2, <1>3, BumpKept
  <1>6. v.active = NoQuery /\ v.branches = u.branches /\ v.selected = u.selected
    BY <1>1, <1>4 DEF PageFields
  <1> QED BY <1>1, <1>2, <1>4, <1>5, <1>6 DEF v

LEMMA QueryInvalidated ==
    ASSUME NEW u, PageSound(u), NEW t, NEW q, Linked(u, t, q)
    PROVE  LET v == InvalidateSavedQuery(u) IN
           /\ PageSound(v) /\ v.off = u.off
           /\ v.active = NoQuery /\ QueryShown(v, q)
           /\ v.branches = u.branches /\ v.selected = u.selected
           /\ ~Reader(v, "editor")
           /\ Linked(v, t, q)
           /\ Connecting(u) => Connecting(v)
           /\ Honest(u) => Honest(v)
  BY QueryKept DEF Linked, OnList, QueryShown

LEMMA SchemaKept ==
    ASSUME NEW u, PageSound(u), NEW t, NEW q, Kept(u, t, q)
    PROVE  LET v == InvalidateSchema(u) IN
           /\ PageSound(v) /\ v.off = u.off
           /\ v.active = u.active /\ v.branches = u.branches /\ v.selected = u.selected
           /\ v.entries = u.entries /\ v.chosen = u.chosen
           /\ Kept(v, t, q)
           /\ Connecting(u) => Connecting(v)
           /\ QueryShown(u, q) => QueryShown(v, q)
           /\ Honest(u) => Honest(v)
  <1> DEFINE a == [u EXCEPT !.catalog = {}, !.detail = {}]
             v == InvalidateSchema(u)
  <1>1. Renders(u, a) /\ PageSound(a) /\ a.off = u.off /\ a.entries = u.entries /\ a.chosen = u.chosen
    BY DEF Renders, PageSound, PageFields, Wanted
  <1> HIDE DEF a
  <1>2. /\ Kept(a, t, q) /\ (Connecting(u) => Connecting(a)) /\ (QueryShown(u, q) => QueryShown(a, q))
    BY <1>1, RendersTied
  <1>3. Honest(u) => Honest(a)
    BY <1>1 DEF Renders, Honest, Runnable, Choosable, Usable, SelectedDB
  <1>4. v = Bump(a, {"catalog", "detail"})
    BY DEF InvalidateSchema, a
  <1> HIDE DEF v
  <1>5. \A f \in PageFields \ {"tasks"} : v[f] = a[f]
    BY <1>1, <1>4, BumpRequests
  <1>6. /\ PageSound(v) /\ v.off = a.off /\ Kept(v, t, q) /\ (Connecting(a) => Connecting(v))
        /\ (QueryShown(a, q) => QueryShown(v, q)) /\ (Honest(a) => Honest(v))
    BY <1>1, <1>2, <1>4, BumpKept
  <1>7. /\ v.active = u.active /\ v.branches = u.branches /\ v.selected = u.selected
        /\ v.entries = u.entries /\ v.chosen = u.chosen
    BY <1>1, <1>5 DEF PageFields, Renders
  <1> QED BY <1>1, <1>2, <1>3, <1>6, <1>7 DEF v

LEMMA SchemaInvalidated ==
    ASSUME NEW u, PageSound(u), NEW t, NEW q, Linked(u, t, q)
    PROVE  LET v == InvalidateSchema(u) IN
           /\ PageSound(v) /\ v.off = u.off
           /\ v.active = u.active /\ v.branches = u.branches /\ v.selected = u.selected
           /\ v.entries = u.entries /\ v.chosen = u.chosen
           /\ Linked(v, t, q)
           /\ Connecting(u) => Connecting(v)
           /\ QueryShown(u, q) => QueryShown(v, q)
           /\ Honest(u) => Honest(v)
  BY SchemaKept DEF Linked, OnList

\* Whatever was selected, a listed branch is, and no query unless it was selected before.
LEMMA NormalizeKept ==
    ASSUME NEW u, PageSound(u), u.off \subseteq Controls, NEW t, NEW q,
           Kept(u, t, q), QueryShown(u, q), Main \in u.branches
    PROVE  LET v == Normalize(u) IN
           PageSound(v) /\ v.off \subseteq Controls /\ Linked(v, t, q) /\ QueryShown(v, q)
  <1> DEFINE c == [u EXCEPT !.selected = Main]
             d == InvalidateSavedQuery(c)
             e == InvalidateSchema(d)
  <1>1. PageSound(c) /\ Kept(c, t, q) /\ c.off = u.off /\ c.branches = u.branches /\ c.selected = Main
    BY MainAssumption, Reselected
  <1> HIDE DEF c
  <1>2. Linked(c, t, q)
    BY <1>1 DEF Linked, OnList
  <1>3. PageSound(d) /\ Linked(d, t, q) /\ QueryShown(d, q) /\ d.off = c.off
    BY <1>1, <1>2, QueryInvalidated
  <1>4. Normalize(u) = IF u.selected \in u.branches THEN u ELSE e
    BY DEF Normalize, c
  <1> HIDE DEF d
  <1>5. PageSound(e) /\ Linked(e, t, q) /\ QueryShown(e, q) /\ e.off = d.off
    BY <1>3, SchemaInvalidated
  <1> HIDE DEF e
  <1>6. u.selected \in u.branches => Linked(u, t, q)
    BY DEF Linked, OnList
  <1> QED BY <1>1, <1>3, <1>4, <1>5, <1>6

LEMMA SelectBranchArrived ==
    ASSUME NEW u, PageSound(u), u.off \subseteq Controls, u.branches # {},
           NEW b \in Branches, NEW t, NEW q,
           Linked(u, t, q), TaskShape(t), TaskTied(t, q), t.flow # "save"
    PROVE  Arrived(SelectBranch(u, b, t), q)
  <1> DEFINE a == [u EXCEPT !.selected = b]
             c == InvalidateSavedQuery(a)
             d == InvalidateSchema(c)
             e == ClearSQLWriteMode(d)
             n == Normalize(e)
  <1>1. SelectBranch(u, b, t) = StartConnection(n, t)
    BY DEF SelectBranch
  <1>2. PageSound(a) /\ Kept(a, t, q) /\ a.off = u.off /\ Main \in a.branches
    BY Reselected DEF Linked, OnList
  <1> HIDE DEF a
  <1>3. PageSound(c) /\ Kept(c, t, q) /\ c.active = NoQuery /\ c.off = a.off /\ Main \in c.branches
    BY <1>2, QueryKept
  <1> HIDE DEF c
  <1>4. PageSound(d) /\ Kept(d, t, q) /\ d.active = NoQuery /\ d.off = c.off /\ Main \in d.branches
    BY <1>3, SchemaKept
  <1> HIDE DEF d
  <1>5. Renders(d, e) /\ PageSound(e) /\ e.off \subseteq Controls
    BY <1>2, <1>3, <1>4, ClearRenders
  <1> HIDE DEF e
  <1>6. Kept(e, t, q) /\ QueryShown(e, q) /\ Main \in e.branches
    BY <1>4, <1>5, RendersTied DEF Renders, QueryShown
  <1>7. PageSound(n) /\ n.off \subseteq Controls /\ Linked(n, t, q) /\ QueryShown(n, q)
    BY <1>5, <1>6, NormalizeKept
  <1> HIDE DEF n
  <1> QED BY <1>1, <1>7, StartConnectionArrived

\* t ends, or goes on to another branch and leaves what it has read.
LEMMA EndLoadAllArrived ==
    ASSUME NEW u, NEW q, Arrived(u, q), NEW t, TaskShape(t), t.flow # "save"
    PROVE  Arrived(EndLoadAll(u, t), q)
  <1> DEFINE b == t.opened.branch
             a == [u EXCEPT !.page = "other"]
             s == [t EXCEPT !.flow = "select", !.fresh = {}]
  <1>1. CASE b \in u.branches
    <2>1. EndLoadAll(u, t) = SelectBranch(a, b, s)
      BY <1>1 DEF EndLoadAll
    <2>2. Renders(u, a) /\ PageSound(a) /\ a.off = u.off /\ a.branches # {} /\ b \in Branches
      BY <1>1 DEF Arrived, Renders, PageSound, PageFields, Wanted
    <2>3. TaskShape(s) /\ s.flow = "select" /\ s.fresh = {}
      BY DEF TaskShape, TaskFields
    <2> HIDE DEF a, b, s
    <2>4. TaskTied(s, q)
      BY <2>3 DEF TaskTied
    <2>5. Linked(a, s, q)
      <3>1. Linked(a, Idle, q)
        BY <2>2, RendersTied DEF Arrived, Tied
      <3> QED BY <2>3, <3>1, AnotherTied DEF Idle
    <2> QED BY <1>1, <2>1, <2>2, <2>3, <2>4, <2>5, SelectBranchArrived DEF Arrived, Honest, Renders
  <1>2. CASE b \notin u.branches
    BY <1>2 DEF EndLoadAll
  <1> QED BY <1>1, <1>2

LEMMA FinishLoadAllArrived ==
    ASSUME NEW u, NEW t, NEW q, Partway(u, t, q), t.flow # "save"
    PROVE  Arrived(FinishLoadAll(u, t), q)
  <1> DEFINE a == [u EXCEPT !.refreshing = FALSE]
             c == RenderSQLEditor(a)
             v == IF "refresh" \in t.fresh THEN c ELSE u
  <1>1. FinishLoadAll(u, t) = EndLoadAll(v, t)
    BY DEF FinishLoadAll
  <1>2. ASSUME "refresh" \in t.fresh PROVE Arrived(c, q)
    <2>1. /\ PageSound(a) /\ Wanted(a) = Wanted(u) /\ a.off = u.off /\ a.refreshing = FALSE
          /\ a.branches = u.branches /\ a.selected = u.selected
          /\ a.connBusy = u.connBusy /\ a.saving = u.saving /\ a.text = u.text
          /\ a.active = u.active /\ a.listed = u.listed /\ a.tasks = u.tasks
      BY DEF Partway, PageSound, PageFields, Wanted
    <2> HIDE DEF a
    <2>2. Tied(a, Idle, q)
      BY <1>2, <2>1
         DEF Partway, Tied, Linked, Kept, OnList, Connecting, QueryShown, TaskBound, Reader, OneReader, Idle
    <2>3. Renders(a, c) /\ PageSound(c) /\ Honest(c)
      BY <2>1, EditorRenders DEF Partway, Honest
    <2> QED BY <2>2, <2>3, RendersTied DEF Arrived
  <1>3. ASSUME "refresh" \notin t.fresh PROVE Arrived(u, q)
    BY <1>3, TaskDropped DEF Partway, Arrived, Tied
  <1> HIDE DEF c
  <1>4. Arrived(v, q)
    BY <1>2, <1>3
  <1> HIDE DEF v
  <1> QED BY <1>1, <1>4, EndLoadAllArrived DEF Partway

\* What the page shows of tables, and how it was armed, is of no request's concern.
LEMMA ElseRenders ==
    ASSUME NEW u, PageSound(u), NEW v, v = [f \in PageFields |-> v[f]],
           v.writes \in BOOLEAN, v.confirm \in BOOLEAN,
           \A f \in PageFields \ {"page", "catalog", "detail", "writes", "confirm", "armed", "confirmed"} :
               v[f] = u[f]
    PROVE  /\ Renders(u, v) /\ PageSound(v) /\ v.off = u.off
           /\ Honest(u) => Honest(v)
  <1>1. /\ v.branches = u.branches /\ v.selected = u.selected /\ v.connection = u.connection
        /\ v.refreshing = u.refreshing /\ v.connBusy = u.connBusy /\ v.saving = u.saving
        /\ v.text = u.text /\ v.active = u.active /\ v.listed = u.listed /\ v.tasks = u.tasks
        /\ v.off = u.off /\ v.entries = u.entries /\ v.chosen = u.chosen
    BY DEF PageFields
  <1>2. PageSound(v)
    BY <1>1 DEF PageSound
  <1>3. Wanted(v) = Wanted(u)
    BY <1>1 DEF Wanted
  <1>4. Honest(u) => Honest(v)
    BY <1>1 DEF Honest, Runnable, Choosable, Usable, SelectedDB
  <1> QED BY <1>1, <1>2, <1>3, <1>4 DEF Renders

\* Between two awaits, up to what renders.
LEMMA RendersPartway ==
    ASSUME NEW u, NEW v, NEW t, NEW q, Partway(u, t, q), Renders(u, v), Honest(v)
    PROVE  Partway(v, t, q)
  BY RendersTied DEF Partway, Renders

LEMMA BumpPartway ==
    ASSUME NEW u, NEW t, NEW q, Partway(u, t, q), NEW epochs,
           "refresh" \notin epochs, "connection" \notin epochs
    PROVE  Partway(Bump(u, epochs), t, q)
  BY BumpTied DEF Partway, Tied

LEMMA Ended ==
    ASSUME NEW u, NEW t, NEW q, Partway(u, t, q), "refresh" \notin t.fresh, t.flow # "save"
    PROVE  Arrived(u, q)
  BY TaskDropped DEF Partway, Arrived, Tied

LEMMA StartCatalogArrived ==
    ASSUME NEW u, NEW t, NEW q, Partway(u, t, q), t.flow # "save"
    PROVE  Arrived(StartCatalog(u, t), q)
  <1> DEFINE v == Bump(u, {"catalog"})
             a == [v EXCEPT !.detail = {}]
             w == IF t.flow = "more" THEN v ELSE Bump(a, {"detail"})
             x == RenderDatabaseSelector(w)
             y == [x EXCEPT !.catalog = {}, !.detail = {}]
             s == [Reads(t, "catalog") EXCEPT !.at = "catalog", !.branch = w.selected,
                                              !.db = SelectedDB(w), !.since = Len(versions)]
             z == [x EXCEPT !.tasks = @ \cup {s}]
             none == w.selected \notin w.branches \/ SelectedDB(w) = NoDB
  <1>1. StartCatalog(u, t) =
            IF none THEN IF t.flow = "loadAll" THEN FinishLoadAll(y, t) ELSE y ELSE z
    BY DEF StartCatalog
  <1>2. Partway(v, t, q) /\ PageSound(v)
    BY BumpPartway DEF Partway
  <1> HIDE DEF v
  <1>3. Partway(a, t, q)
    <2>1. /\ a = [f \in PageFields |-> a[f]] /\ a.writes \in BOOLEAN /\ a.confirm \in BOOLEAN
          /\ \A f \in PageFields \ {"detail"} : a[f] = v[f]
      BY <1>2 DEF PageSound, PageFields
    <2> HIDE DEF a
    <2>2. Renders(v, a) /\ (Honest(v) => Honest(a))
      BY <1>2, <2>1, ElseRenders
    <2> QED BY <1>2, <2>2, RendersPartway DEF Partway
  <1> HIDE DEF a
  <1>4. Partway(w, t, q) /\ PageSound(w) /\ Honest(w)
    BY <1>2, <1>3, BumpPartway DEF Partway
  <1>5. /\ TaskShape(s) /\ s.at = "catalog" /\ s.db = SelectedDB(w)
        /\ TaskTied(s, q) /\ s.flow = t.flow
        /\ \A e \in {"refresh", "editor"} : e \in s.fresh <=> e \in t.fresh
    <2> DEFINE r == Reads(t, "catalog")
    <2>1. /\ TaskShape(r) /\ TaskTied(r, q) /\ r.flow = t.flow
          /\ \A e \in {"refresh", "editor"} : e \in r.fresh <=> e \in t.fresh
      BY ReadsTied DEF Partway
    <2> HIDE DEF w, r
    <2>2. /\ TaskShape(s) /\ s.at = "catalog" /\ s.db = SelectedDB(w)
          /\ s.flow = r.flow /\ s.fresh = r.fresh /\ s.opened = r.opened
      BY <2>1 DEF TaskShape, TaskFields, r
    <2> HIDE DEF s
    <2> QED BY <2>1, <2>2 DEF TaskTied
  <1> HIDE DEF w, s
  <1>6. Partway(x, t, q) /\ PageSound(x)
    BY <1>4, SelectorRenders, RendersPartway DEF Partway
  <1> HIDE DEF x
  <1>7. CASE none
    <2>1. Partway(y, t, q)
      <3>1. /\ y = [f \in PageFields |-> y[f]] /\ y.writes \in BOOLEAN /\ y.confirm \in BOOLEAN
            /\ \A f \in PageFields \ {"catalog", "detail"} : y[f] = x[f]
        BY <1>6 DEF PageSound, PageFields
      <3> HIDE DEF y
      <3>2. Renders(x, y) /\ (Honest(x) => Honest(y))
        BY <1>6, <3>1, ElseRenders
      <3> QED BY <1>6, <3>2, RendersPartway DEF Partway
    <2> HIDE DEF y, none, z
    <2>2. CASE t.flow = "loadAll"
      BY <1>1, <1>7, <2>1, <2>2, FinishLoadAllArrived
    <2>3. CASE t.flow # "loadAll"
      <3>1. "refresh" \notin t.fresh
        BY <2>3 DEF Partway, TaskTied
      <3>2. Arrived(y, q)
        BY <2>1, <3>1, Ended
      <3> QED BY <1>1, <1>7, <2>3, <3>2
    <2> QED BY <2>2, <2>3
  <1>8. CASE ~none
    <2>1. TaskSound(s) /\ s.at # "run"
      BY <1>5, <1>8 DEF TaskSound
    <2>2. TaskPlaced(s, q) /\ TaskBound(x, s)
      BY <1>5 DEF TaskPlaced, TaskBound
    <2>3. /\ Linked(x, t, q) /\ QueryShown(x, q) /\ Connecting(x) /\ Honest(x)
      BY <1>6 DEF Partway, Tied
    <2>4. \A r \in x.tasks : r.at = "connection" /\ "connection" \in r.fresh => r.branch = x.selected
      BY <2>3 DEF Connecting
    <2>5. PageSound(z) /\ Tied(z, Idle, q) /\ Honest(z)
      BY <1>5, <1>6, <2>1, <2>2, <2>3, <2>4, TaskPut
    <2> HIDE DEF z, none
    <2> QED BY <1>1, <1>8, <2>5 DEF Arrived
  <1> QED BY <1>7, <1>8

\* A database of the list is remembered, and need not be chosen again.
Remembering(u, b, db) == [u EXCEPT !.chosen[b] = db, !.entries[b].required = FALSE]

LEMMA DatabaseSet ==
    ASSUME NEW u, PageSound(u), NEW b \in Branches, NEW db, db \in u.entries[b].names
    PROVE  LET v == Remembering(u, b, db) IN
           /\ PageSound(v) /\ v.chosen[b] = db
           /\ db \in Databases
           /\ \A f \in PageFields \ {"entries", "chosen"} : v[f] = u[f]
  <1> DEFINE v == Remembering(u, b, db)
             entries == u.entries
  <1>1. /\ entries \in [Branches -> EntryType] /\ u.chosen \in [Branches -> Databases \cup {NoDB}]
        /\ EntrySound(entries[b], u.chosen[b])
    BY DEF PageSound
  <1>2. db \in Databases /\ entries[b].names # {} /\ db \in entries[b].names
    BY <1>1 DEF EntryType
  <1>3. /\ v = [f \in PageFields |-> v[f]]
        /\ v.entries = Released(entries, b)
        /\ v.chosen = [u.chosen EXCEPT ![b] = db]
        /\ \A f \in PageFields \ {"entries", "chosen"} : v[f] = u[f]
    BY DEF PageSound, PageFields, Released, Remembering
  <1> HIDE DEF v, entries
  <1>4. /\ Released(entries, b) \in [Branches -> EntryType]
        /\ \A other \in Branches \ {b} : Released(entries, b)[other] = entries[other]
        /\ Released(entries, b)[b].required = FALSE
        /\ Released(entries, b)[b].names = entries[b].names
        /\ Released(entries, b)[b].known = entries[b].known
        /\ Released(entries, b)[b].loading = entries[b].loading
        /\ Released(entries, b)[b].error = entries[b].error
    BY <1>1, EntryReleased, Zenon
  <1>5. /\ v.chosen \in [Branches -> Databases \cup {NoDB}]
        /\ v.chosen[b] = db
        /\ \A other \in Branches \ {b} : v.chosen[other] = u.chosen[other]
    BY <1>1, <1>2, <1>3
  <1>6. EntrySound(v.entries[b], v.chosen[b])
    BY <1>1, <1>2, <1>3, <1>4, <1>5 DEF EntrySound
  <1>7. /\ v.branches = u.branches /\ v.selected = u.selected /\ v.tasks = u.tasks
        /\ v.writes = u.writes /\ v.confirm = u.confirm
    BY <1>3 DEF PageFields
  <1>8. PageSound(v)
    BY <1>3, <1>4, <1>5, <1>6, <1>7 DEF PageSound, entries
  <1> QED BY <1>2, <1>3, <1>5, <1>8 DEF v

LEMMA OpenInEditorArrived ==
    ASSUME NEW u, NEW t, NEW q, Partway(u, t, q), t.flow # "save", StillOpening(u, t),
           t.opened.db \in u.entries[t.opened.branch].names
    PROVE  Arrived(OpenInEditor(u, t), q)
  <1> DEFINE b == u.selected
             db == t.opened.db
             v == IF SelectedDB(u) # db THEN InvalidateSchema(u) ELSE u
             a == Remembering(v, b, db)
             c == ClearSQLWriteMode(a)
             w == RenderSQLEditor(c)
             x == [w EXCEPT !.text = t.opened.text, !.active = t.opened.id, !.page = "sql"]
  <1>1. OpenInEditor(u, t) = StartLibrary(x, t)
    BY DEF OpenInEditor, StillOpening, Remembering
  <1>2. /\ PageSound(u) /\ u.off \subseteq Controls /\ Linked(u, t, q) /\ Connecting(u)
        /\ TaskShape(t) /\ TaskTied(t, q) /\ b \in Branches
    BY DEF Partway, Tied, Honest, PageSound
  <1>3. "editor" \in t.fresh /\ t.opened.branch = b /\ t.flow = "open"
    BY <1>2 DEF StillOpening, TaskTied
  <1>4. /\ PageSound(v) /\ v.off = u.off /\ v.selected = b /\ v.entries = u.entries
        /\ Linked(v, t, q) /\ Connecting(v)
    BY <1>2, SchemaInvalidated
  <1>5. db \in v.entries[b].names
    BY <1>3, <1>4
  <1> HIDE DEF v, db, b
  <1>6. /\ PageSound(a) /\ a.chosen[b] = db /\ db \in Databases
        /\ \A f \in PageFields \ {"entries", "chosen"} : a[f] = v[f]
    BY <1>2, <1>4, <1>5, DatabaseSet
  <1> HIDE DEF a
  <1>7. /\ a.branches = v.branches /\ a.selected = b /\ a.off = v.off
        /\ a.refreshing = v.refreshing /\ a.connBusy = v.connBusy /\ a.saving = v.saving
        /\ a.text = v.text /\ a.listed = v.listed /\ a.tasks = v.tasks
    BY <1>4, <1>6 DEF PageFields
  <1>8. Linked(a, t, q) /\ Connecting(a) /\ a.off \subseteq Controls
    BY <1>2, <1>4, <1>7 DEF Linked, Kept, OnList, Connecting, TaskBound, Reader, OneReader
  <1>9. Wanted(a) = <<b, db>>
    BY <1>6, <1>7, MarkerAssumption DEF Wanted
  <1>10. Renders(a, c) /\ PageSound(c) /\ c.off \subseteq Controls
    BY <1>6, <1>8, ClearRenders
  <1> HIDE DEF c
  <1>11. Renders(c, w) /\ PageSound(w) /\ Honest(w)
    BY <1>10, EditorRenders
  <1> HIDE DEF w
  <1>12. Linked(w, t, q) /\ Connecting(w) /\ Wanted(w) = <<b, db>>
    BY <1>8, <1>9, <1>10, <1>11, RendersTied DEF Renders
  <1>13. /\ x = [f \in PageFields |-> x[f]]
         /\ x.text = t.opened.text /\ x.active = t.opened.id
         /\ x.branches = w.branches /\ x.selected = w.selected /\ x.connection = w.connection
         /\ x.refreshing = w.refreshing /\ x.connBusy = w.connBusy /\ x.saving = w.saving
         /\ x.listed = w.listed /\ x.tasks = w.tasks
         /\ x.off = w.off /\ x.entries = w.entries /\ x.chosen = w.chosen
         /\ x.writes = w.writes /\ x.confirm = w.confirm
    BY <1>11 DEF PageSound, PageFields
  <1> HIDE DEF x
  <1>14. PageSound(x) /\ Honest(x)
    BY <1>11, <1>13 DEF PageSound, Honest, Runnable, Choosable, Usable, SelectedDB
  <1>15. Wanted(x) = <<b, db>>
    BY <1>12, <1>13 DEF Wanted
  <1>16. \A r \in x.tasks : TaskTied(r, q) /\ TaskPlaced(r, q) /\ TaskBound(x, r)
    BY <1>3, <1>12, <1>13 DEF Linked, Kept, OnList, TaskBound, Reader
  <1>17. Linked(x, t, q)
    <2>1. x.text \in Texts
      BY <1>2, <1>3, <1>13 DEF TaskTied
    <2> QED BY <1>12, <1>13, <1>16, <2>1 DEF Linked, Kept, OnList, Reader, OneReader
  <1>18. Connecting(x)
    BY <1>12, <1>13 DEF Connecting
  <1>19. QueryShown(x, q)
    BY <1>2, <1>3, <1>13, <1>15 DEF QueryShown, TaskTied, db
  <1>20. Partway(x, t, q)
    BY <1>2, <1>14, <1>17, <1>18, <1>19 DEF Partway, Tied
  <1> QED BY <1>1, <1>20, StartLibraryArrived

LEMMA AfterDatabasesArrived ==
    ASSUME NEW u, NEW t, NEW q, Partway(u, t, q), t.flow # "save",
           t.flow \notin {"loadAll", "sql", "tables"} => "refresh" \notin t.fresh
    PROVE  Arrived(AfterDatabases(u, t), q)
  <1>1. Arrived(StartCatalog(u, t), q) /\ Arrived(StartLibrary(u, t), q)
    BY StartCatalogArrived, StartLibraryArrived
  <1>2. CASE t.flow = "loadAll"
    BY <1>1, <1>2 DEF AfterDatabases
  <1>3. CASE t.flow = "sql"
    BY <1>1, <1>3 DEF AfterDatabases
  <1>4. CASE t.flow = "tables"
    BY <1>1, <1>4 DEF AfterDatabases
  <1>5. CASE t.flow \notin {"loadAll", "sql", "tables"}
    <2>1. CASE StillOpening(u, t) /\ t.opened.db \in u.entries[t.opened.branch].names
      BY <1>5, <2>1, OpenInEditorArrived DEF AfterDatabases
    <2>2. CASE ~(StillOpening(u, t) /\ t.opened.db \in u.entries[t.opened.branch].names)
      BY <1>5, <2>2, Ended DEF AfterDatabases
    <2> QED BY <2>1, <2>2
  <1> QED BY <1>2, <1>3, <1>4, <1>5

LEMMA StartDatabasesArrived ==
    ASSUME NEW u, NEW t, NEW q, Partway(u, t, q), t.flow # "save"
    PROVE  Arrived(StartDatabases(u, t), q)
  <1> DEFINE b == u.selected
             entry == u.entries[b]
             loading == [entry EXCEPT !.known = TRUE, !.loading = TRUE, !.error = FALSE]
             v == [u EXCEPT !.entries[b] = loading]
             w == RenderSQLEditor(v)
             r == Reads(t, "object")
             s == [r EXCEPT !.previous = entry]
             x == RenderDatabaseSelector(u)
  <1>1. /\ b \in Branches /\ entry \in EntryType /\ u.chosen[b] \in Databases \cup {NoDB}
        /\ PageSound(u) /\ Honest(u) /\ Tied(u, t, q) /\ TaskShape(t) /\ TaskTied(t, q)
    BY DEF Partway, PageSound
  <1>2. CASE ~Usable(u)
    <2>1. StartDatabases(u, t) = AfterDatabases(x, t)
      BY <1>2 DEF StartDatabases
    <2>2. Partway(x, t, q)
      BY <1>1, SelectorRenders, RendersPartway
    <2> HIDE DEF x
    <2>3. t.flow # "loadAll" => "refresh" \notin t.fresh
      BY <1>1 DEF TaskTied
    <2> QED BY <2>1, <2>2, <2>3, AfterDatabasesArrived
  <1>3. CASE Usable(u)
    <2>1. StartDatabases(u, t) = Await(w, s, "databases")
      BY <1>3 DEF StartDatabases
    <2>2. /\ TaskShape(r) /\ TaskTied(r, q) /\ r.flow = t.flow
          /\ \A e \in {"refresh", "editor"} : e \in r.fresh <=> e \in t.fresh
      BY <1>1, ReadsTied
    <2>3. /\ TaskShape(s) /\ s.flow = r.flow /\ s.fresh = r.fresh /\ s.opened = r.opened
      <3> HIDE DEF entry, r
      <3> QED BY <1>1, <2>2 DEF TaskShape, TaskFields
    <2> HIDE DEF s, r
    <2>4. TaskTied(s, q)
      BY <2>2, <2>3 DEF TaskTied
    <2>5. /\ v = [f \in PageFields |-> v[f]]
          /\ v.entries = [u.entries EXCEPT ![b] = loading]
          /\ \A f \in PageFields \ {"entries", "chosen"} : v[f] = u[f]
          /\ v.chosen = u.chosen
      BY <1>1 DEF PageSound, PageFields
    <2>6. PageSound(v) /\ Wanted(v) = Wanted(u)
      <3>1. u.chosen = [u.chosen EXCEPT ![b] = u.chosen[b]]
        BY <1>1 DEF PageSound
      <3>2. loading \in EntryType /\ EntrySound(loading, u.chosen[b])
        <4>1. EntrySound(entry, u.chosen[b])
          BY <1>1 DEF PageSound
        <4> HIDE DEF entry
        <4>2. /\ loading \in EntryType /\ loading.known = TRUE /\ loading.loading = TRUE
              /\ loading.names = entry.names
          BY <1>1 DEF EntryType
        <4> HIDE DEF loading
        <4> QED BY <4>1, <4>2 DEF EntrySound
      <3> HIDE DEF v, loading, b
      <3>3. Follows(u, v)
        BY <1>1, <2>5, <3>1, <3>2, EntryFollows
      <3> QED BY <3>3 DEF Follows
    <2> HIDE DEF v
    <2>7. Renders(u, v) /\ v.off = u.off
      BY <2>5, <2>6 DEF Renders, PageFields
    <2>8. Renders(v, w) /\ PageSound(w) /\ Honest(w)
      BY <1>1, <2>6, <2>7, EditorRenders DEF Honest
    <2> HIDE DEF w
    <2>9. Tied(w, t, q)
      BY <1>1, <2>7, <2>8, RendersTied
    <2>10. Linked(w, s, q)
      BY <2>2, <2>3, <2>9, AnotherTied DEF Tied
    <2>11. LET z == Await(w, s, "databases") IN
           PageSound(z) /\ Tied(z, Idle, q) /\ (Honest(w) => Honest(z))
      BY <2>2, <2>3, <2>4, <2>8, <2>9, <2>10, AwaitTied DEF Tied, Connecting
    <2> QED BY <2>1, <2>8, <2>11 DEF Arrived
  <1> QED BY <1>2, <1>3

LEMMA AfterConnectionArrived ==
    ASSUME NEW u, NEW t, NEW q, Partway(u, t, q), t.flow # "save"
    PROVE  Arrived(AfterConnection(u, t), q)
  <1> DEFINE s == [t EXCEPT !.page = u.page]
  <1>1. TaskShape(s) /\ s.flow = t.flow /\ s.fresh = t.fresh /\ s.opened = t.opened
    BY DEF Partway, TaskShape, TaskFields
  <1> HIDE DEF s
  <1>2. TaskTied(s, q) /\ Linked(u, s, q)
    <2>1. TaskTied(s, q)
      BY <1>1 DEF Partway, TaskTied
    <2>2. Linked(u, t, q)
      BY DEF Partway, Tied
    <2> QED BY <1>1, <2>1, <2>2, AnotherTied
  <1>3. Partway(u, s, q)
    BY <1>1, <1>2 DEF Partway, Tied
  <1>4. /\ Arrived(StartDatabases(u, s), q) /\ Arrived(StartDatabases(u, t), q)
        /\ Arrived(FinishLoadAll(u, t), q)
    BY <1>1, <1>3, StartDatabasesArrived, FinishLoadAllArrived
  <1>5. CASE t.flow = "loadAll"
    BY <1>4, <1>5 DEF AfterConnection, s
  <1>6. CASE t.flow # "loadAll"
    <2>1. "refresh" \notin t.fresh
      BY <1>6 DEF Partway, TaskTied
    <2>2. Arrived(u, q)
      BY <2>1, Ended
    <2> QED BY <1>4, <1>6, <2>2 DEF AfterConnection
  <1> QED BY <1>5, <1>6

\* The new load is the only one that the page waits for.
LEMMA StartLoadAllArrived ==
    ASSUME NEW u, PageSound(u), u.off \subseteq Controls, NEW t, NEW q,
           Linked(u, t, q), QueryShown(u, q), TaskShape(t), TaskTied(t, q),
           t.flow = "loadAll", "refresh" \notin t.fresh
    PROVE  Arrived(StartLoadAll(u, t), q)
  <1> DEFINE a == Bump(u, {"refresh", "connection"})
             v == [a EXCEPT !.refreshing = TRUE, !.connBusy = FALSE, !.writes = FALSE, !.confirm = FALSE]
             c == Off(v, {"run", "writes", "confirm", "db"})
             w == ApplySQLMode(c)
             s == Reads(t, "refresh")
             T(r) == [r EXCEPT !.fresh = @ \ {"refresh", "connection"}]
  <1>1. StartLoadAll(u, t) = Await(w, s, "lists")
    BY DEF StartLoadAll
  <1>2. /\ TaskShape(s) /\ s.fresh = t.fresh \cup {"refresh"}
        /\ s.flow = "loadAll" /\ s.opened = t.opened
    BY ReadsShape DEF TaskShape, TaskFields, Reads
  <1> HIDE DEF s
  <1>3. TaskTied(s, q)
    BY <1>2 DEF TaskTied
  <1>4. /\ PageSound(a) /\ Wanted(a) = Wanted(u)
        /\ \A f \in PageFields \ {"tasks"} : a[f] = u[f]
        /\ \A z \in a.tasks : \E r \in u.tasks : z = T(r)
    BY BumpRequests
  <1>5. /\ ~Reader(a, "refresh")
        /\ \A e : Reader(a, e) => Reader(u, e)
        /\ \A e : OneReader(u, e) => OneReader(a, e)
        /\ \A x : (\E z \in a.tasks : z.flow = x) <=> (\E z \in u.tasks : z.flow = x)
        /\ \A z \in a.tasks : ~(z.at = "connection" /\ "connection" \in z.fresh)
    BY BumpReaders
  <1>6. ASSUME NEW r \in u.tasks PROVE TaskTied(T(r), q) /\ TaskPlaced(T(r), q) /\ TaskBound(u, T(r))
    BY StaleTask DEF Linked, Kept, OnList, PageSound
  <1> HIDE DEF a, T
  <1>7. /\ PageSound(v) /\ Wanted(v) = Wanted(a)
        /\ v.refreshing = TRUE /\ v.connBusy = FALSE
        /\ v.branches = a.branches /\ v.selected = a.selected /\ v.saving = a.saving
        /\ v.text = a.text /\ v.active = a.active /\ v.listed = a.listed
        /\ v.tasks = a.tasks /\ v.off = a.off
    BY <1>4 DEF PageSound, PageFields, Wanted
  <1> HIDE DEF v
  <1>8. /\ v.branches = u.branches /\ v.selected = u.selected /\ v.saving = u.saving
        /\ v.text = u.text /\ v.active = u.active /\ v.listed = u.listed /\ v.off = u.off
    BY <1>4, <1>7 DEF PageFields
  <1>9. \A z \in v.tasks : TaskTied(z, q) /\ TaskPlaced(z, q) /\ TaskBound(v, z)
    BY <1>4, <1>6, <1>7, <1>8 DEF TaskBound
  <1>10. Linked(v, s, q)
    <2>1. /\ OneReader(v, "refresh") /\ OneReader(v, "editor") /\ ~Reader(v, "refresh")
          /\ "editor" \in s.fresh => ~Reader(v, "editor")
      BY <1>2, <1>5, <1>7 DEF Linked, Kept, OnList, Reader, OneReader
    <2>2. v.saving => \E z \in v.tasks : z.flow = "save"
      BY <1>5, <1>7, <1>8 DEF Linked, Kept, OnList
    <2> QED BY <1>2, <1>7, <1>8, <1>9, <2>1, <2>2 DEF Linked, Kept, OnList
  <1>11. Connecting(v) /\ QueryShown(v, q)
    BY <1>4, <1>5, <1>7, <1>8 DEF Connecting, QueryShown
  <1>12. Renders(v, c) /\ PageSound(c) /\ c.off \subseteq Controls /\ "db" \in c.off
    BY <1>7, <1>8, OffRenders DEF Controls
  <1> HIDE DEF c
  <1>13. /\ Renders(c, w) /\ PageSound(w) /\ w.off \subseteq Controls /\ "db" \in w.off
         /\ Runnable(w)
    BY <1>12, ModeRenders
  <1> HIDE DEF w
  <1>14. Honest(w) /\ Renders(v, w)
    BY <1>12, <1>13, RendersOn DEF Honest, Choosable
  <1>15. Linked(w, s, q) /\ Connecting(w) /\ QueryShown(w, q)
    BY <1>10, <1>11, <1>14, RendersTied
  <1>16. LET z == Await(w, s, "lists") IN
         PageSound(z) /\ Tied(z, Idle, q) /\ (Honest(w) => Honest(z))
    BY <1>2, <1>3, <1>13, <1>15, AwaitTied DEF Connecting
  <1> QED BY <1>1, <1>14, <1>16 DEF Arrived

\* Another connection, and no request that remembers the one before.
LEMMA ConnectionTied ==
    ASSUME NEW u, PageSound(u), NEW t, NEW q, Linked(u, t, q), NEW connection
    PROVE  LET v == SetConnection(u, connection) IN
           /\ PageSound(v) /\ v.off = u.off /\ v.selected = u.selected
           /\ Linked(v, t, q)
           /\ QueryShown(u, q) => QueryShown(v, q)
           /\ \A s \in v.tasks : \E r \in u.tasks : s = [r EXCEPT !.fresh = @ \ {"object"}]
  <1> DEFINE n == [u EXCEPT !.connection = connection]
             v == SetConnection(u, connection)
  <1>1. /\ PageSound(n) /\ Wanted(n) = Wanted(u) /\ n.off = u.off
        /\ n.branches = u.branches /\ n.selected = u.selected
        /\ n.refreshing = u.refreshing /\ n.saving = u.saving
        /\ n.text = u.text /\ n.active = u.active /\ n.listed = u.listed /\ n.tasks = u.tasks
    BY DEF PageSound, PageFields, Wanted
  <1>2. v = Bump(n, {"object"})
    BY DEF SetConnection
  <1> HIDE DEF n, v
  <1>3. Linked(n, t, q) /\ (QueryShown(u, q) => QueryShown(n, q))
    BY <1>1 DEF Linked, Kept, OnList, QueryShown, TaskBound, Reader, OneReader
  <1>4. /\ PageSound(v) /\ Linked(v, t, q) /\ (QueryShown(n, q) => QueryShown(v, q)) /\ v.off = n.off
    BY <1>1, <1>2, <1>3, BumpTied
  <1>5. /\ v.selected = n.selected
        /\ \A s \in v.tasks : \E r \in n.tasks : s = [r EXCEPT !.fresh = @ \ {"object"}]
    BY <1>1, <1>2, BumpRequests DEF PageFields
  <1> QED BY <1>1, <1>3, <1>4, <1>5 DEF v

-----------------------------------------------------------------------------
(* Rows *)

\* Rows come, and keep what they say; only which are live changes.
Grows(q, r) ==
    /\ DOMAIN q \subseteq DOMAIN r
    /\ \A i \in DOMAIN q : r[i].branch = q[i].branch /\ r[i].db = q[i].db /\ r[i].text = q[i].text

LEMMA GrowsTied ==
    ASSUME NEW q, NEW r, Grows(q, r)
    PROVE  /\ \A t : TaskTied(t, q) => TaskTied(t, r)
           /\ \A t : TaskPlaced(t, q) => TaskPlaced(t, r)
           /\ \A u : QueryShown(u, q) => QueryShown(u, r)
           /\ \A u, t : Linked(u, t, q) => Linked(u, t, r)
           /\ \A u : Arrived(u, q) => Arrived(u, r)
  <1>1. ASSUME NEW t, TaskTied(t, q) PROVE TaskTied(t, r)
    BY <1>1 DEF TaskTied, Grows
  <1>2. ASSUME NEW t, TaskPlaced(t, q) PROVE TaskPlaced(t, r)
    BY <1>2 DEF TaskPlaced, Grows
  <1>3. ASSUME NEW u, QueryShown(u, q) PROVE QueryShown(u, r)
    BY <1>3 DEF QueryShown, Grows
  <1>4. ASSUME NEW u, NEW t, Linked(u, t, q) PROVE Linked(u, t, r)
    BY <1>1, <1>2, <1>4 DEF Linked, Kept, OnList, Grows
  <1> QED BY <1>1, <1>2, <1>3, <1>4 DEF Arrived, Tied

-----------------------------------------------------------------------------
(* Answers *)

LEMMA WithoutTied ==
    ASSUME Arrived(ui, queries), NEW t \in ui.tasks
    PROVE  LET u == Without(t) IN
           /\ PageSound(u) /\ Honest(u) /\ Linked(u, t, queries) /\ QueryShown(u, queries)
           /\ TaskSound(t) /\ TaskShape(t) /\ TaskTied(t, queries) /\ TaskPlaced(t, queries)
           /\ TaskBound(u, t)
           /\ \A r \in u.tasks \cup {t} :
                 r.at = "connection" /\ "connection" \in r.fresh => r.branch = u.selected
           /\ ~(t.at = "connection" /\ "connection" \in t.fresh) => Connecting(u)
  <1> DEFINE u == Without(t)
  <1>1. /\ u = [f \in PageFields |-> u[f]] /\ u.tasks = ui.tasks \ {t}
        /\ u.branches = ui.branches /\ u.selected = ui.selected /\ u.connection = ui.connection
        /\ u.refreshing = ui.refreshing /\ u.connBusy = ui.connBusy /\ u.saving = ui.saving
        /\ u.text = ui.text /\ u.active = ui.active /\ u.listed = ui.listed
        /\ u.off = ui.off /\ u.entries = ui.entries /\ u.chosen = ui.chosen
        /\ u.writes = ui.writes /\ u.confirm = ui.confirm
    BY DEF Arrived, PageSound, PageFields, Without
  <1> HIDE DEF u
  <1>2. PageSound(u) /\ Honest(u) /\ TaskSound(t) /\ TaskShape(t) /\ Wanted(u) = Wanted(ui)
    BY <1>1 DEF Arrived, PageSound, TaskSound, Honest, Runnable, Choosable, Usable, SelectedDB, Wanted
  <1>3. \A s \in ui.tasks : TaskTied(s, queries) /\ TaskPlaced(s, queries) /\ TaskBound(u, s)
    BY <1>1 DEF Arrived, Tied, Linked, Kept, OnList, TaskBound
  <1>4. ASSUME NEW e \in {"refresh", "editor"}
        PROVE  /\ OneReader(u, e)
               /\ e \in t.fresh => ~Reader(u, e)
               /\ Reader(ui, e) <=> Reader(u, e) \/ e \in t.fresh
    <2>1. OneReader(ui, e)
      BY DEF Arrived, Tied, Linked, Kept, OnList
    <2>2. u.tasks = ui.tasks \ {t}
      BY <1>1
    <2> QED BY <2>1, <2>2 DEF OneReader, Reader
  <1>5. Linked(u, t, queries)
    BY <1>1, <1>3, <1>4 DEF Arrived, Tied, Linked, Kept, OnList, Idle
  <1>6. QueryShown(u, queries)
    BY <1>1, <1>2 DEF Arrived, Tied, QueryShown
  <1>7. /\ \A r \in u.tasks \cup {t} :
              r.at = "connection" /\ "connection" \in r.fresh => r.branch = u.selected
        /\ ~(t.at = "connection" /\ "connection" \in t.fresh) => Connecting(u)
    BY <1>1 DEF Arrived, Tied, Connecting
  <1> QED BY <1>2, <1>3, <1>5, <1>6, <1>7 DEF u

\* Of all answers but that of the latest connection request.
LEMMA WithoutPartway ==
    ASSUME Arrived(ui, queries), NEW t \in ui.tasks,
           ~(t.at = "connection" /\ "connection" \in t.fresh)
    PROVE  /\ Partway(Without(t), t, queries)
           /\ t.at \notin {"save", "saved", "failed", "library"} => t.flow # "save"
  <1>1. t.at \notin {"save", "saved", "failed", "library"} => t.flow # "save"
    BY WithoutTied DEF TaskPlaced
  <1> QED BY <1>1, WithoutTied DEF Partway, Tied

\* A selected branch that is gone gives way to main, with no query and no tables.
LEMMA NormalizeTied ==
    ASSUME NEW u, PageSound(u), u.off \subseteq Controls, NEW t, NEW q,
           Linked(u, t, q), QueryShown(u, q), NEW branches \in Lists
    PROVE  LET v == Normalize([u EXCEPT !.branches = branches]) IN
           PageSound(v) /\ v.off \subseteq Controls /\ Linked(v, t, q) /\ QueryShown(v, q)
  <1> DEFINE a == [u EXCEPT !.branches = branches]
  <1>1. /\ PageSound(a) /\ Wanted(a) = Wanted(u) /\ a.off = u.off
        /\ a.branches = branches /\ a.selected = u.selected
        /\ a.refreshing = u.refreshing /\ a.saving = u.saving
        /\ a.text = u.text /\ a.active = u.active /\ a.listed = u.listed /\ a.tasks = u.tasks
    BY DEF PageSound, PageFields, Wanted, Lists
  <1> HIDE DEF a
  <1>2. Kept(a, t, q) /\ QueryShown(a, q)
    BY <1>1 DEF Linked, Kept, QueryShown, TaskBound, Reader, OneReader
  <1>3. LET v == Normalize(a) IN
        PageSound(v) /\ v.off \subseteq Controls /\ Linked(v, t, q) /\ QueryShown(v, q)
    BY <1>1, <1>2, NormalizeKept DEF Lists
  <1> QED BY <1>3 DEF a

LEMMA AnswerListsArrived ==
    ASSUME Arrived(ui, queries), ControllerSound, NEW t \in ui.tasks, AnswerLists(t)
    PROVE  Arrived(ui', queries)
  <1>0. PICK branches \in Lists :
          LET u == Without(t) IN
          \/ ui' = EndLoadAll(u, t) /\ "refresh" \notin t.fresh
          \/ ui' = StartConnection(Normalize([u EXCEPT !.branches = branches]), t)
          \/ /\ ui' = EndLoadAll(RenderSQLEditor([u EXCEPT !.refreshing = FALSE, !.connBusy = FALSE]), t)
             /\ "refresh" \in t.fresh
    <2>1. PICK told \in Told(t) :
            LET u == Without(t) IN
            \/ ui' = EndLoadAll(u, t) /\ "refresh" \notin t.fresh
            \/ ui' = StartConnection(Normalize([u EXCEPT !.branches = told.branches]), t)
            \/ /\ ui' = EndLoadAll(RenderSQLEditor([u EXCEPT !.refreshing = FALSE, !.connBusy = FALSE]), t)
               /\ "refresh" \in t.fresh
      BY DEF AnswerLists
    <2> QED BY <2>1, ToldSound
  <1> DEFINE u == Without(t)
             q == queries
             n == Normalize([u EXCEPT !.branches = branches])
             a == [u EXCEPT !.refreshing = FALSE, !.connBusy = FALSE]
             e == RenderSQLEditor(a)
  <1>1. t.at = "lists"
    BY DEF AnswerLists
  <1>2. Partway(u, t, q) /\ t.flow # "save"
    BY <1>1, WithoutPartway
  <1>3. \/ ui' = EndLoadAll(u, t) /\ "refresh" \notin t.fresh
        \/ ui' = StartConnection(n, t)
        \/ ui' = EndLoadAll(e, t) /\ "refresh" \in t.fresh
    BY <1>0
  <1> HIDE DEF u, q
  <1>4. CASE ui' = EndLoadAll(u, t) /\ "refresh" \notin t.fresh
    BY <1>2, <1>4, Ended, EndLoadAllArrived DEF Partway, q
  <1>5. CASE ui' = StartConnection(n, t)
    <2>1. PageSound(n) /\ n.off \subseteq Controls /\ Linked(n, t, q) /\ QueryShown(n, q)
      BY <1>2, NormalizeTied DEF Partway, Tied, Honest
    <2> HIDE DEF n
    <2> QED BY <1>2, <1>5, <2>1, StartConnectionArrived DEF Partway, q
  <1>6. CASE ui' = EndLoadAll(e, t) /\ "refresh" \in t.fresh
    <2>1. /\ PageSound(a) /\ Wanted(a) = Wanted(u) /\ a.off = u.off
          /\ a.refreshing = FALSE /\ a.connBusy = FALSE
          /\ a.branches = u.branches /\ a.selected = u.selected
          /\ a.saving = u.saving /\ a.text = u.text
          /\ a.active = u.active /\ a.listed = u.listed /\ a.tasks = u.tasks
      BY <1>2 DEF Partway, PageSound, PageFields, Wanted
    <2> HIDE DEF a
    <2>2. Tied(a, Idle, q)
      BY <1>2, <1>6, <2>1
         DEF Partway, Tied, Linked, Kept, OnList, Connecting, QueryShown, TaskBound, Reader, OneReader, Idle
    <2>3. Renders(a, e) /\ PageSound(e) /\ Honest(e)
      BY <1>2, <2>1, EditorRenders DEF Partway, Honest
    <2> HIDE DEF e
    <2>4. Arrived(e, q)
      BY <2>2, <2>3, RendersTied DEF Arrived
    <2> QED BY <1>2, <1>6, <2>4, EndLoadAllArrived DEF Partway, q
  <1> QED BY <1>3, <1>4, <1>5, <1>6

LEMMA AnswerConnectionArrived ==
    ASSUME Arrived(ui, queries), NEW t \in ui.tasks, AnswerConnection(t)
    PROVE  Arrived(ui', queries)
  <1> DEFINE u == Without(t)
             q == queries
  <1>1. /\ PageSound(u) /\ Honest(u) /\ Linked(u, t, q) /\ QueryShown(u, q)
        /\ TaskShape(t) /\ TaskTied(t, q) /\ TaskPlaced(t, q)
        /\ \A r \in u.tasks \cup {t} :
              r.at = "connection" /\ "connection" \in r.fresh => r.branch = u.selected
        /\ ~(t.at = "connection" /\ "connection" \in t.fresh) => Connecting(u)
    BY WithoutTied
  <1>2. PICK ok \in BOOLEAN, published \in BOOLEAN :
          LET connection == IF ok THEN [branch |-> t.branch, published |-> published] ELSE NoConnection
              v == SetConnection(IF ok THEN ClearSQLWriteMode(u) ELSE u, connection)
          IN  ui' = AfterConnection(IF Current(u, t) THEN RenderContext([v EXCEPT !.connBusy = FALSE]) ELSE u, t)
    BY DEF AnswerConnection
  <1> DEFINE connection == IF ok THEN [branch |-> t.branch, published |-> published] ELSE NoConnection
             a == IF ok THEN ClearSQLWriteMode(u) ELSE u
             v == SetConnection(a, connection)
             w == [v EXCEPT !.connBusy = FALSE]
             x == RenderContext(w)
             y == IF Current(u, t) THEN x ELSE u
  <1>3. ui' = AfterConnection(y, t)
    BY <1>2
  <1>4. t.at = "connection" /\ t.flow # "save"
    BY <1>1 DEF AnswerConnection, TaskPlaced
  <1> HIDE DEF u, q
  <1>5. /\ PageSound(a) /\ a.off \subseteq Controls /\ Linked(a, t, q) /\ QueryShown(a, q)
        /\ a.selected = u.selected /\ a.tasks = u.tasks
    <2> DEFINE c == ClearSQLWriteMode(u)
    <2>1. Renders(u, c) /\ PageSound(c) /\ c.off \subseteq Controls
      BY <1>1, ClearRenders DEF Honest
    <2> HIDE DEF c
    <2>2. Linked(c, t, q) /\ QueryShown(c, q) /\ c.selected = u.selected /\ c.tasks = u.tasks
      BY <1>1, <2>1, RendersTied DEF Renders
    <2> QED BY <1>1, <2>1, <2>2 DEF Honest, c
  <1> HIDE DEF a, connection
  <1>6. /\ PageSound(v) /\ v.off = a.off /\ v.selected = a.selected
        /\ Linked(v, t, q) /\ QueryShown(v, q)
        /\ \A s \in v.tasks : \E r \in a.tasks : s = [r EXCEPT !.fresh = @ \ {"object"}]
    BY <1>5, ConnectionTied
  <1> HIDE DEF v
  <1>7. \A s \in v.tasks : s.at = "connection" /\ "connection" \in s.fresh => s.branch = v.selected
    <2>1. ASSUME NEW r \in a.tasks
          PROVE  LET s == [r EXCEPT !.fresh = @ \ {"object"}] IN
                 s.at = "connection" /\ "connection" \in s.fresh => s.branch = v.selected
      <3>1. /\ TaskSound(r)
            /\ r.at = "connection" /\ "connection" \in r.fresh => r.branch = v.selected
        BY <1>1, <1>5, <1>6 DEF PageSound
      <3>2. LET s == [r EXCEPT !.fresh = @ \ {"object"}] IN
            s.fresh = r.fresh \ {"object"} /\ s.at = r.at /\ s.branch = r.branch
        BY <3>1, StaleTask DEF TaskFields
      <3> QED BY <3>1, <3>2
    <2> QED BY <1>6, <2>1
  <1>8. /\ PageSound(w) /\ Wanted(w) = Wanted(v) /\ w.connBusy = FALSE
        /\ w.branches = v.branches /\ w.selected = v.selected
        /\ w.refreshing = v.refreshing /\ w.saving = v.saving
        /\ w.text = v.text /\ w.active = v.active /\ w.listed = v.listed
        /\ w.tasks = v.tasks /\ w.off = v.off
    BY <1>6 DEF PageSound, PageFields, Wanted
  <1> HIDE DEF w
  <1>9. Tied(w, t, q)
    BY <1>6, <1>7, <1>8 DEF Tied, Linked, Kept, OnList, Connecting, QueryShown, TaskBound, Reader, OneReader
  <1>10. Renders(w, x) /\ PageSound(x) /\ Honest(x)
    BY <1>5, <1>6, <1>8, ContextRenders
  <1> HIDE DEF x
  <1>11. Current(u, t) => Partway(x, t, q)
    BY <1>1, <1>9, <1>10, RendersTied DEF Partway
  <1>12. ~Current(u, t) => Partway(u, t, q)
    BY <1>1, <1>4 DEF Partway, Tied, Current
  <1>13. Partway(y, t, q)
    BY <1>11, <1>12
  <1> HIDE DEF y
  <1> QED BY <1>3, <1>4, <1>13, AfterConnectionArrived DEF q

LEMMA AnswerDatabasesArrived ==
    ASSUME Arrived(ui, queries), NEW t \in ui.tasks, AnswerDatabases(t)
    PROVE  Arrived(ui', queries)
  <1> DEFINE u == Without(t)
             q == queries
  <1>1. Partway(u, t, q) /\ t.flow # "save" /\ t.at = "databases"
    BY WithoutPartway DEF AnswerDatabases
  <1>2. PICK v :
          /\ ui' = AfterDatabases(IF u.selected = t.branch /\ "object" \in t.fresh
                                  THEN RenderSQLEditor(v) ELSE u, t)
          /\ u.selected = t.branch =>
                Follows(u, v) /\ \A f \in PageFields \ {"entries", "chosen"} : v[f] = u[f]
    BY DatabasesAnswered DEF Arrived
  <1> DEFINE w == RenderSQLEditor(v)
             y == IF u.selected = t.branch /\ "object" \in t.fresh THEN w ELSE u
  <1> HIDE DEF u, q
  <1>3. CASE u.selected = t.branch
    <2>1. Renders(u, v) /\ PageSound(v) /\ v.off = u.off
      BY <1>2, <1>3 DEF Follows, Renders, PageFields
    <2>2. Renders(v, w) /\ Honest(w)
      BY <1>1, <2>1, EditorRenders DEF Partway, Honest
    <2> HIDE DEF w
    <2>3. Partway(w, t, q)
      BY <1>1, <2>1, <2>2, RendersOn, RendersPartway
    <2>4. Partway(y, t, q)
      BY <1>1, <2>3
    <2> HIDE DEF y
    <2>5. ui' = AfterDatabases(y, t)
      BY <1>2 DEF y, w
    <2>6. t.flow # "loadAll" => "refresh" \notin t.fresh
      BY <1>1 DEF Partway, TaskTied
    <2> QED BY <1>1, <2>4, <2>5, <2>6, AfterDatabasesArrived DEF q
  <1>4. CASE u.selected # t.branch
    <2>1. t.flow # "loadAll" => "refresh" \notin t.fresh
      BY <1>1 DEF Partway, TaskTied
    <2> QED BY <1>1, <1>2, <1>4, <2>1, AfterDatabasesArrived DEF q
  <1> QED BY <1>3, <1>4

\* The page stops saying that it saves, with the request whose answer ends that.
LEMMA SavingEnded ==
    ASSUME NEW u, NEW t, NEW q, Partway(u, t, q), t.flow = "save"
    PROVE  Arrived([u EXCEPT !.saving = FALSE], q)
  <1> DEFINE v == [u EXCEPT !.saving = FALSE]
  <1>1. /\ v = [f \in PageFields |-> v[f]] /\ v.tasks = u.tasks /\ v.saving = FALSE
        /\ v.branches = u.branches /\ v.selected = u.selected /\ v.connection = u.connection
        /\ v.refreshing = u.refreshing /\ v.connBusy = u.connBusy
        /\ v.text = u.text /\ v.active = u.active /\ v.listed = u.listed
        /\ v.off = u.off /\ v.entries = u.entries /\ v.chosen = u.chosen
        /\ v.writes = u.writes /\ v.confirm = u.confirm
    BY DEF Partway, PageSound, PageFields
  <1> HIDE DEF v
  <1>2. PageSound(v) /\ Honest(v) /\ Wanted(v) = Wanted(u)
    BY <1>1 DEF Partway, PageSound, Honest, Runnable, Choosable, Usable, SelectedDB, Wanted
  <1>3. "refresh" \notin t.fresh
    BY DEF Partway, TaskTied
  <1>4. Linked(v, Idle, q)
    BY <1>1, <1>3 DEF Partway, Tied, Linked, Kept, OnList, TaskBound, Reader, OneReader, Idle
  <1>5. Connecting(v) /\ QueryShown(v, q)
    BY <1>1, <1>2 DEF Partway, Tied, Connecting, QueryShown
  <1> QED BY <1>2, <1>4, <1>5 DEF Arrived, Tied, v

LEMMA AnswerLibraryArrived ==
    ASSUME Arrived(ui, queries), ControllerSound, NEW t \in ui.tasks, AnswerLibrary(t)
    PROVE  Arrived(ui', queries)
  <1> DEFINE u == Without(t)
             q == queries
  <1>1. Partway(u, t, q)
    BY WithoutPartway DEF AnswerLibrary
  <1>2. PICK listed \in SUBSET DOMAIN queries :
          LET v == IF "library" \in t.fresh THEN [u EXCEPT !.listed = listed] ELSE u
          IN  ui' = CASE t.flow = "loadAll" -> FinishLoadAll(v, t)
                      [] t.flow = "save" -> [v EXCEPT !.saving = FALSE]
                      [] t.flow = "run" -> RenderSQLEditor(v)
                      [] OTHER -> v
    <2>1. PICK ok \in BOOLEAN, told \in Told(t) :
            LET v == IF "library" \in t.fresh
                     THEN [u EXCEPT !.listed = IF ok THEN told.queries ELSE {}] ELSE u
            IN  ui' = CASE t.flow = "loadAll" -> FinishLoadAll(v, t)
                        [] t.flow = "save" -> [v EXCEPT !.saving = FALSE]
                        [] t.flow = "run" -> RenderSQLEditor(v)
                        [] OTHER -> v
      BY DEF AnswerLibrary
    <2>2. (IF ok THEN told.queries ELSE {}) \in SUBSET DOMAIN queries
      BY ToldSound
    <2> QED BY <2>1, <2>2
  <1> DEFINE x == [u EXCEPT !.listed = listed]
             v == IF "library" \in t.fresh THEN x ELSE u
  <1>3. ui' = CASE t.flow = "loadAll" -> FinishLoadAll(v, t)
                [] t.flow = "save" -> [v EXCEPT !.saving = FALSE]
                [] t.flow = "run" -> RenderSQLEditor(v)
                [] OTHER -> v
    BY <1>2
  <1> HIDE DEF u
  <1>4. Partway(x, t, q)
    <2>1. /\ x = [f \in PageFields |-> x[f]] /\ x.tasks = u.tasks /\ x.listed = listed
          /\ x.branches = u.branches /\ x.selected = u.selected /\ x.connection = u.connection
          /\ x.refreshing = u.refreshing /\ x.connBusy = u.connBusy /\ x.saving = u.saving
          /\ x.text = u.text /\ x.active = u.active
          /\ x.off = u.off /\ x.entries = u.entries /\ x.chosen = u.chosen
          /\ x.writes = u.writes /\ x.confirm = u.confirm
      BY <1>1 DEF Partway, PageSound, PageFields
    <2> HIDE DEF x
    <2>2. PageSound(x) /\ Honest(x) /\ Wanted(x) = Wanted(u)
      BY <1>1, <2>1 DEF Partway, PageSound, Honest, Runnable, Choosable, Usable, SelectedDB, Wanted
    <2>3. Linked(x, t, q)
      BY <1>1, <2>1 DEF Partway, Tied, Linked, Kept, OnList, TaskBound, Reader, OneReader
    <2>4. Connecting(x) /\ QueryShown(x, q)
      BY <1>1, <2>1, <2>2 DEF Partway, Tied, Connecting, QueryShown
    <2> QED BY <1>1, <2>2, <2>3, <2>4 DEF Partway, Tied
  <1> HIDE DEF x
  <1>5. Partway(v, t, q)
    BY <1>1, <1>4
  <1> HIDE DEF v, q
  <1>6. t.flow # "loadAll" => "refresh" \notin t.fresh
    BY <1>1 DEF Partway, TaskTied
  <1>7. CASE t.flow = "loadAll"
    <2>1. ui' = FinishLoadAll(v, t)
      BY <1>3, <1>7
    <2> QED BY <1>5, <1>7, <2>1, FinishLoadAllArrived DEF q
  <1>8. CASE t.flow = "save"
    <2>1. ui' = [v EXCEPT !.saving = FALSE]
      BY <1>3, <1>8
    <2> QED BY <1>5, <1>8, <2>1, SavingEnded DEF q
  <1>9. CASE t.flow \notin {"loadAll", "save"}
    <2>1. Arrived(v, q)
      BY <1>5, <1>6, <1>9, Ended
    <2> DEFINE w == RenderSQLEditor(v)
    <2>2. Renders(v, w) /\ PageSound(w) /\ Honest(w)
      BY <2>1, EditorRenders DEF Arrived, Honest
    <2>3. Arrived(w, q)
      BY <2>1, <2>2, RendersTied DEF Arrived
    <2>4. ui' \in {v, w}
      BY <1>3, <1>9
    <2> QED BY <2>1, <2>3, <2>4 DEF q
  <1> QED BY <1>7, <1>8, <1>9

LEMMA TablesPartway ==
    ASSUME NEW u, NEW t, NEW q, Partway(u, t, q), NEW catalog, NEW detail
    PROVE  Partway([u EXCEPT !.catalog = catalog, !.detail = detail], t, q)
  <1> DEFINE v == [u EXCEPT !.catalog = catalog, !.detail = detail]
  <1>1. /\ v = [f \in PageFields |-> v[f]] /\ v.writes \in BOOLEAN /\ v.confirm \in BOOLEAN
        /\ \A f \in PageFields \ {"catalog", "detail"} : v[f] = u[f]
    BY DEF Partway, PageSound, PageFields
  <1> HIDE DEF v
  <1>2. Renders(u, v) /\ (Honest(u) => Honest(v))
    BY <1>1, ElseRenders DEF Partway
  <1>3. Partway(v, t, q)
    BY <1>2, RendersPartway DEF Partway
  <1> QED BY <1>3 DEF v

LEMMA AnswerCatalogArrived ==
    ASSUME Arrived(ui, queries), NEW t \in ui.tasks, AnswerCatalog(t)
    PROVE  Arrived(ui', queries)
  <1> DEFINE u == Without(t)
             q == queries
  <1>1. Partway(u, t, q) /\ t.flow # "save"
    BY WithoutPartway DEF AnswerCatalog
  <1>2. PICK v : /\ Partway(v, t, q)
                 /\ \/ ui' = StartDetail(v, t)
                    \/ ui' = FinishLoadAll(v, t)
                    \/ ui' = v /\ t.flow # "loadAll"
    <2>1. PICK ok \in BOOLEAN, empty \in BOOLEAN :
            LET reset == t.flow # "more"
                current == "catalog" \in t.fresh /\ SameContext(u, t)
                tables == (IF reset THEN {} ELSE u.catalog) \cup (IF empty THEN {} ELSE {<<t.branch, t.db>>})
                v == CASE ~current \/ (~ok /\ ~reset) -> u
                       [] current /\ ok -> [u EXCEPT !.catalog = tables, !.detail = IF reset THEN {} ELSE @]
                       [] OTHER -> [u EXCEPT !.catalog = {}, !.detail = {}]
            IN  ui' = CASE current /\ ok /\ reset /\ ~empty -> StartDetail(v, t)
                        [] t.flow = "loadAll" /\ ~(current /\ ok /\ ~empty) -> FinishLoadAll(v, t)
                        [] OTHER -> v
      BY DEF AnswerCatalog
    <2> DEFINE reset == t.flow # "more"
               current == "catalog" \in t.fresh /\ SameContext(u, t)
               tables == (IF reset THEN {} ELSE u.catalog) \cup (IF empty THEN {} ELSE {<<t.branch, t.db>>})
               detail == IF reset THEN {} ELSE u.detail
               v == CASE ~current \/ (~ok /\ ~reset) -> u
                      [] current /\ ok -> [u EXCEPT !.catalog = tables, !.detail = detail]
                      [] OTHER -> [u EXCEPT !.catalog = {}, !.detail = {}]
    <2>2. \/ ui' = StartDetail(v, t)
          \/ ui' = FinishLoadAll(v, t)
          \/ ui' = v /\ t.flow # "loadAll"
      BY <2>1
    <2> HIDE DEF u, q, current, tables, detail
    <2>3. /\ Partway([u EXCEPT !.catalog = tables, !.detail = detail], t, q)
          /\ Partway([u EXCEPT !.catalog = {}, !.detail = {}], t, q)
      BY <1>1, TablesPartway
    <2>4. Partway(v, t, q)
      BY <1>1, <2>3
    <2> HIDE DEF v
    <2> QED BY <2>2, <2>4
  <1>3. t.flow # "loadAll" => "refresh" \notin t.fresh
    BY <1>1 DEF Partway, TaskTied
  <1> QED BY <1>1, <1>2, <1>3, StartDetailArrived, FinishLoadAllArrived, Ended

LEMMA AnswerDetailArrived ==
    ASSUME Arrived(ui, queries), NEW t \in ui.tasks, AnswerDetail(t)
    PROVE  Arrived(ui', queries)
  <1> DEFINE u == Without(t)
             q == queries
  <1>1. Partway(u, t, q) /\ t.flow # "save"
    BY WithoutPartway DEF AnswerDetail
  <1>2. PICK detail :
          LET v == IF "detail" \in t.fresh /\ SameContext(u, t) THEN [u EXCEPT !.detail = detail] ELSE u
          IN  ui' = IF t.flow = "loadAll" THEN FinishLoadAll(v, t) ELSE v
    BY DEF AnswerDetail
  <1> DEFINE w == [u EXCEPT !.detail = detail]
             v == IF "detail" \in t.fresh /\ SameContext(u, t) THEN w ELSE u
  <1>3. ui' = IF t.flow = "loadAll" THEN FinishLoadAll(v, t) ELSE v
    BY <1>2
  <1> HIDE DEF u, q
  <1>4. Partway(w, t, q)
    <2>1. w = [u EXCEPT !.catalog = u.catalog, !.detail = detail]
      BY <1>1 DEF Partway, PageSound, PageFields
    <2> HIDE DEF w
    <2> QED BY <1>1, <2>1, TablesPartway
  <1> HIDE DEF w
  <1>5. Partway(v, t, q)
    BY <1>1, <1>4
  <1> HIDE DEF v
  <1>6. t.flow # "loadAll" => "refresh" \notin t.fresh
    BY <1>1 DEF Partway, TaskTied
  <1> QED BY <1>1, <1>3, <1>5, <1>6, FinishLoadAllArrived, Ended DEF q

\* The request once the controller has answered it.
Answered(t, at, query) == [t EXCEPT !.at = at, !.query = query]

LEMMA ServedArrived ==
    ASSUME Arrived(ui, queries), NEW t \in ui.tasks, NEW rows, Grows(queries, rows),
           NEW at \in {"saved", "deleted", "failed", "changed"}, NEW query,
           t.at \in {"save", "delete", "branch"}, at = "saved" => t.at = "save",
           TaskPlaced(Answered(t, at, query), rows),
           Served(t, at, query)
    PROVE  Arrived(ui', rows)
  <1> DEFINE u == Without(t)
             s == Answered(t, at, query)
             v == [u EXCEPT !.tasks = @ \cup {s}]
  <1>1. /\ Partway(u, t, queries) /\ TaskBound(u, t)
    BY WithoutPartway, WithoutTied
  <1>2. ui' = v
    BY DEF Served, Answered
  <1>3. /\ TaskSound(s) /\ s.at = at /\ s.fresh = t.fresh /\ s.flow = t.flow
        /\ s.opened = t.opened /\ s.text = t.text
    BY <1>1 DEF Partway, TaskSound, TaskShape, TaskFields, Answered
  <1> HIDE DEF u, s
  <1>4. /\ TaskTied(t, rows) /\ Linked(u, t, rows) /\ QueryShown(u, rows) /\ Connecting(u)
    BY <1>1, GrowsTied DEF Partway, Tied
  <1>5. TaskTied(s, rows) /\ TaskPlaced(s, rows) /\ TaskBound(u, s)
    BY <1>1, <1>3, <1>4 DEF TaskTied, TaskBound, s
  <1>6. PageSound(v) /\ Tied(v, Idle, rows) /\ (Honest(u) => Honest(v))
    <2>1. \A r \in u.tasks : r.at = "connection" /\ "connection" \in r.fresh => r.branch = u.selected
      BY <1>4 DEF Connecting
    <2>2. PageSound(u) /\ s.at # "run" /\ s.at # "connection"
      BY <1>1, <1>3 DEF Partway
    <2> QED BY <1>3, <1>4, <1>5, <2>1, <2>2, TaskPut
  <1> HIDE DEF v
  <1> QED BY <1>1, <1>2, <1>6 DEF Partway, Arrived

\* Saving adds a row, or writes again what the row says.
LEMMA ServeSaveArrived ==
    ASSUME Arrived(ui, queries), queries \in Seq(Rows), NEW t \in ui.tasks, ServeSave(t)
    PROVE  Arrived(ui', queries') /\ queries' \in Seq(Rows) /\ Grows(queries, queries')
  <1> DEFINE q == queries
             row == [branch |-> t.branch, db |-> t.db, text |-> t.text, live |-> TRUE]
             s(at, query) == Answered(t, at, query)
  <1>1. /\ t.at = "save" /\ TaskShape(t) /\ TaskTied(t, q) /\ TaskPlaced(t, q)
    BY WithoutTied DEF ServeSave
  <1>2. q \in Seq(Rows) /\ Len(q) \in Nat /\ DOMAIN q = 1..Len(q)
    OBVIOUS
  <1>3. ASSUME NEW at, NEW query
        PROVE  /\ s(at, query).at = at /\ s(at, query).query = query
               /\ s(at, query).flow = t.flow /\ s(at, query).branch = t.branch
               /\ s(at, query).db = t.db /\ s(at, query).text = t.text
    BY <1>1 DEF TaskShape, TaskFields, Answered
  <1> HIDE DEF q, s
  <1>4. CASE /\ t.query = NoQuery
             /\ queries' = Append(queries, row)
             /\ Served(t, "saved", Len(queries) + 1)
    <2> DEFINE r == Append(q, row)
               i == Len(q) + 1
    <2>1. row \in Rows
      BY <1>1 DEF TaskPlaced, Rows
    <2> HIDE DEF row
    <2>2. r \in Seq(Rows) /\ DOMAIN r = 1..i /\ r[i] = row /\ \A k \in DOMAIN q : r[k] = q[k]
      BY <1>2, <2>1
    <2>3. Grows(q, r) /\ i \in DOMAIN r
      BY <1>2, <2>2 DEF Grows
    <2> HIDE DEF r, i
    <2>4. TaskPlaced(s("saved", i), r)
      <3>1. r[i].branch = t.branch /\ r[i].db = t.db /\ r[i].text = t.text
        BY <2>2 DEF row
      <3>2. t.flow # "loadAll" /\ t.branch \in Branches /\ t.db \in Databases /\ t.text \in Texts
        BY <1>1 DEF TaskPlaced
      <3> QED BY <1>3, <2>3, <3>1, <3>2 DEF TaskPlaced
    <2>5. Arrived(ui', r)
      BY <1>1, <1>4, <2>3, <2>4, ServedArrived DEF q, s, i
    <2> QED BY <1>4, <2>2, <2>3, <2>5 DEF q, r, row
  <1>5. CASE /\ t.query # NoQuery
             /\ queries' = [queries EXCEPT ![t.query].text = t.text]
             /\ Served(t, "saved", t.query)
    <2> DEFINE i == t.query
               old == q[i]
               new == [old EXCEPT !.text = t.text]
               r == [q EXCEPT ![i] = new]
    <2>1. /\ i \in DOMAIN q /\ old.branch = t.branch /\ old.db = t.db /\ old.text = t.text
          /\ t.flow # "loadAll" /\ t.branch \in Branches /\ t.db \in Databases /\ t.text \in Texts
      BY <1>1, <1>5 DEF TaskPlaced
    <2>2. old \in Rows
      BY <1>2, <2>1
    <2>3. new \in Rows /\ new.branch = old.branch /\ new.db = old.db /\ new.text = old.text
      <3> HIDE DEF old
      <3> QED BY <2>1, <2>2 DEF Rows
    <2> HIDE DEF new
    <2>4. /\ r \in Seq(Rows) /\ DOMAIN r = DOMAIN q /\ r[i] = new
          /\ \A k \in DOMAIN q \ {i} : r[k] = q[k]
      BY <1>2, <2>1, <2>3
    <2>5. queries' = r
      BY <1>5 DEF new, q
    <2> HIDE DEF r, i
    <2>6. Grows(q, r)
      BY <2>3, <2>4 DEF Grows
    <2>7. TaskPlaced(s("saved", i), r)
      BY <1>3, <2>1, <2>3, <2>4 DEF TaskPlaced
    <2>8. Arrived(ui', r)
      BY <1>1, <1>5, <2>6, <2>7, ServedArrived DEF q, s, i
    <2> QED BY <2>4, <2>5, <2>6, <2>8 DEF q
  <1>6. CASE Served(t, "failed", t.query) /\ UNCHANGED queries
    <2>1. Grows(q, q)
      BY DEF Grows
    <2>2. TaskPlaced(s("failed", t.query), q)
      BY <1>1, <1>3 DEF TaskPlaced
    <2>3. Arrived(ui', q)
      BY <1>1, <1>6, <2>1, <2>2, ServedArrived DEF q, s
    <2> QED BY <1>2, <1>6, <2>1, <2>3 DEF q
  <1> QED BY <1>4, <1>5, <1>6 DEF ServeSave

\* A row that is no longer live says what it said.
LEMMA RowDropped ==
    ASSUME NEW q \in Seq(Rows), NEW i \in DOMAIN q
    PROVE  LET r == [q EXCEPT ![i].live = FALSE] IN r \in Seq(Rows) /\ Grows(q, r)
  <1> DEFINE old == q[i]
             new == [old EXCEPT !.live = FALSE]
             r == [q EXCEPT ![i] = new]
  <1>1. Len(q) \in Nat /\ DOMAIN q = 1..Len(q) /\ old \in Rows
    OBVIOUS
  <1>2. new \in Rows /\ new.branch = old.branch /\ new.db = old.db /\ new.text = old.text
    <2> HIDE DEF old
    <2> QED BY <1>1 DEF Rows
  <1> HIDE DEF new
  <1>3. /\ r \in Seq(Rows) /\ DOMAIN r = DOMAIN q /\ r[i] = new
        /\ \A k \in DOMAIN q \ {i} : r[k] = q[k]
    BY <1>1, <1>2
  <1> HIDE DEF r
  <1>4. Grows(q, r)
    BY <1>2, <1>3 DEF Grows
  <1> QED BY <1>3, <1>4 DEF r, new

LEMMA ServeDeleteArrived ==
    ASSUME Arrived(ui, queries), queries \in Seq(Rows), NEW t \in ui.tasks, ServeDelete(t)
    PROVE  Arrived(ui', queries') /\ queries' \in Seq(Rows) /\ Grows(queries, queries')
  <1> DEFINE r == [queries EXCEPT ![t.query].live = FALSE]
             s(at) == Answered(t, at, t.query)
  <1>1. /\ t.at = "delete" /\ TaskShape(t) /\ TaskPlaced(t, queries)
    BY WithoutTied DEF ServeDelete
  <1>2. PICK at \in {"deleted", "failed"} : Served(t, at, t.query)
    BY DEF ServeDelete
  <1>3. queries' = r
    BY DEF ServeDelete
  <1>4. r \in Seq(Rows) /\ Grows(queries, r)
    BY <1>1, RowDropped DEF TaskPlaced
  <1>5. s(at).at = at /\ s(at).flow = t.flow
    BY <1>1 DEF TaskShape, TaskFields, Answered
  <1> HIDE DEF r, s
  <1>6. TaskPlaced(s(at), r)
    BY <1>1, <1>2, <1>5 DEF TaskPlaced
  <1>7. Arrived(ui', r)
    BY <1>1, <1>2, <1>4, <1>6, ServedArrived DEF s
  <1> QED BY <1>3, <1>4, <1>7

LEMMA ServeBranchArrived ==
    ASSUME Arrived(ui, queries), NEW t \in ui.tasks, ServeBranch(t)
    PROVE  Arrived(ui', queries)
  <1> DEFINE s == Answered(t, "changed", NoQuery)
  <1>1. /\ t.at = "branch" /\ TaskShape(t) /\ TaskPlaced(t, queries)
    BY WithoutTied DEF ServeBranch
  <1>2. s.at = "changed" /\ s.flow = t.flow
    BY <1>1 DEF TaskShape, TaskFields, Answered
  <1> HIDE DEF s
  <1>3. TaskPlaced(s, queries)
    BY <1>1, <1>2 DEF TaskPlaced
  <1>4. Grows(queries, queries)
    BY DEF Grows
  <1>5. Served(t, "changed", NoQuery)
    BY DEF ServeBranch
  <1> QED BY <1>1, <1>3, <1>4, <1>5, ServedArrived DEF s

\* The editor has another query: one that says its text and its context, or none.
LEMMA QuerySet ==
    ASSUME NEW u, NEW t, NEW q, Partway(u, t, q), NEW active,
           active # NoQuery =>
               /\ active \in DOMAIN q
               /\ q[active].text = u.text
               /\ <<q[active].branch, q[active].db>> = Wanted(u)
    PROVE  Partway([u EXCEPT !.active = active], t, q)
  <1> DEFINE v == [u EXCEPT !.active = active]
  <1>1. /\ v = [f \in PageFields |-> v[f]] /\ v.tasks = u.tasks /\ v.active = active
        /\ v.branches = u.branches /\ v.selected = u.selected /\ v.connection = u.connection
        /\ v.refreshing = u.refreshing /\ v.connBusy = u.connBusy /\ v.saving = u.saving
        /\ v.text = u.text /\ v.listed = u.listed
        /\ v.off = u.off /\ v.entries = u.entries /\ v.chosen = u.chosen
        /\ v.writes = u.writes /\ v.confirm = u.confirm
    BY SMTT(30) DEF Partway, PageSound, PageFields
  <1> HIDE DEF v
  <1>2. PageSound(v) /\ Honest(v) /\ Wanted(v) = Wanted(u)
    BY <1>1 DEF Partway, PageSound, Honest, Runnable, Choosable, Usable, SelectedDB, Wanted
  <1>3. Linked(v, t, q)
    BY <1>1 DEF Partway, Tied, Linked, Kept, OnList, TaskBound, Reader, OneReader
  <1>4. Connecting(v)
    BY <1>1 DEF Partway, Tied, Connecting
  <1>5. QueryShown(v, q)
    BY <1>1, <1>2 DEF QueryShown
  <1> QED BY <1>2, <1>3, <1>4, <1>5 DEF Partway, Tied, v

LEMMA AnswerServedArrived ==
    ASSUME Arrived(ui, queries), NEW t \in ui.tasks, AnswerServed(t)
    PROVE  Arrived(ui', queries)
  <1> DEFINE u == Without(t)
             q == queries
             s == [t EXCEPT !.flow = "loadAll"]
             left == IF u.active = t.query THEN NoQuery ELSE u.active
             saved == [u EXCEPT !.active = t.query]
             deleted == [u EXCEPT !.active = left]
  <1>1. /\ t.at \in {"saved", "deleted", "changed", "failed", "run"}
        /\ Partway(u, t, q) /\ TaskSound(t) /\ TaskPlaced(t, q) /\ TaskBound(u, t)
    BY WithoutPartway, WithoutTied DEF AnswerServed
  <1>2. PICK ok \in BOOLEAN :
           ui' = CASE ok /\ t.at = "saved" /\ StillSaving(u, t) -> StartLibrary(saved, t)
                   [] ok /\ t.at = "deleted" -> StartLibrary(deleted, t)
                   [] ok /\ t.at = "changed" -> StartLoadAll(u, s)
                   [] t.at = "run" -> StartLibrary(u, t)
                   [] OTHER -> IF t.flow = "save" THEN [u EXCEPT !.saving = FALSE] ELSE u
    BY DEF AnswerServed
  <1>3. t.flow # "loadAll" /\ "refresh" \notin t.fresh
    BY <1>1 DEF TaskPlaced, Partway, TaskTied
  <1> HIDE DEF u, q
  <1>4. CASE ok /\ t.at = "saved" /\ StillSaving(u, t)
    <2>1. ui' = StartLibrary(saved, t)
      BY <1>2, <1>4
    <2>2. /\ t.query \in DOMAIN q /\ q[t.query].text = t.text
          /\ q[t.query].branch = t.branch /\ q[t.query].db = t.db /\ t.db \in Databases
          /\ t.text = u.text
      BY <1>1, <1>4 DEF TaskPlaced, TaskBound, StillSaving
    <2>3. Wanted(u) = <<t.branch, t.db>>
      BY <1>4, <2>2, ContextWanted, MarkerAssumption DEF StillSaving, SameContext, Context
    <2>4. Partway(saved, t, q)
      BY <1>1, <2>2, <2>3, QuerySet
    <2> HIDE DEF saved
    <2> QED BY <2>1, <2>4, StartLibraryArrived DEF q
  <1>5. CASE ok /\ t.at = "deleted"
    <2>1. ui' = StartLibrary(deleted, t)
      BY <1>2, <1>5
    <2>2. left # NoQuery => left = u.active
      OBVIOUS
    <2> HIDE DEF left
    <2>3. Partway(deleted, t, q)
      BY <1>1, <2>2, QuerySet DEF Partway, Tied, QueryShown
    <2> HIDE DEF deleted
    <2> QED BY <2>1, <2>3, StartLibraryArrived DEF q
  <1>6. CASE ok /\ t.at = "changed"
    <2>1. ui' = StartLoadAll(u, s)
      BY <1>2, <1>6
    <2>2. t.flow = "branch"
      BY <1>1, <1>6 DEF TaskPlaced
    <2>3. TaskShape(s) /\ s.flow = "loadAll" /\ s.fresh = t.fresh
      BY <1>1 DEF TaskSound, TaskShape, TaskFields
    <2> HIDE DEF s
    <2>4. "editor" \notin t.fresh
      BY <1>1, <2>2 DEF Partway, TaskTied
    <2>5. TaskTied(s, q)
      BY <2>3, <2>4 DEF TaskTied
    <2>6. Linked(u, s, q) /\ QueryShown(u, q)
      BY <1>1, <2>2, <2>3, AnotherTied DEF Partway, Tied
    <2>7. PageSound(u) /\ u.off \subseteq Controls
      BY <1>1 DEF Partway, Honest
    <2>8. Arrived(StartLoadAll(u, s), q)
      BY <1>3, <2>3, <2>5, <2>6, <2>7, StartLoadAllArrived
    <2> QED BY <2>1, <2>8 DEF q
  <1>7. CASE t.at = "run"
    <2>1. ui' = StartLibrary(u, t)
      BY <1>2, <1>7
    <2> QED BY <1>1, <2>1, StartLibraryArrived DEF q
  <1>8. CASE ~(ok /\ t.at \in {"deleted", "changed"}) /\ ~(ok /\ t.at = "saved" /\ StillSaving(u, t)) /\ t.at # "run"
    <2>1. ui' = IF t.flow = "save" THEN [u EXCEPT !.saving = FALSE] ELSE u
      BY <1>2, <1>8
    <2> QED BY <1>1, <1>3, <2>1, SavingEnded, Ended DEF q
  <1> QED BY <1>4, <1>5, <1>6, <1>7, <1>8

-----------------------------------------------------------------------------
(* The user *)

LEMMA NewTaskTied ==
    ASSUME NEW flow, flow # "open", NEW q
    PROVE  /\ TaskTied(NewTask(flow), q)
           /\ NewTask(flow).flow = flow /\ NewTask(flow).fresh = {}
           /\ \A u : Linked(u, Idle, q) => Linked(u, NewTask(flow), q)
  <1>1. NewTask(flow).flow = flow /\ NewTask(flow).fresh = {}
    BY DEF NewTask
  <1>2. TaskTied(NewTask(flow), q)
    BY <1>1 DEF TaskTied
  <1>3. \A u : Linked(u, Idle, q) => Linked(u, NewTask(flow), q)
    BY <1>1 DEF Linked, Kept, OnList, Idle
  <1> QED BY <1>1, <1>2, <1>3

LEMMA NewTaskPartway ==
    ASSUME NEW u, NEW q, Arrived(u, q), NEW flow, flow # "open"
    PROVE  Partway(u, NewTask(flow), q)
  BY NewTaskTied, NewTaskShape DEF Arrived, Partway, Tied

LEMMA PlacedArrived ==
    ASSUME NEW u, NEW t, NEW q, Partway(u, t, q),
           NEW at \in {"branch", "save", "delete"},
           TaskPlaced(Waits(u, t, at), q), at = "save" => TaskBound(u, Waits(u, t, at))
    PROVE  Arrived(Await(u, t, at), q)
  <1> DEFINE s == Waits(u, t, at)
             v == [u EXCEPT !.tasks = @ \cup {s}]
  <1>1. TaskShape(t) /\ TaskTied(t, q)
    BY DEF Partway
  <1>2. s.at = at /\ s.fresh = t.fresh /\ s.flow = t.flow /\ TaskSound(s)
    BY <1>1, WaitsFacts
  <1>3. TaskTied(s, q)
    BY <1>1, WaitsTied
  <1>4. Await(u, t, at) = v
    BY WaitsAdded
  <1> HIDE DEF s
  <1>5. TaskPlaced(s, q) /\ TaskBound(u, s)
    BY <1>2 DEF TaskBound, s
  <1>6. PageSound(v) /\ Tied(v, Idle, q) /\ (Honest(u) => Honest(v))
    BY <1>2, <1>3, <1>5, TaskPut DEF Partway, Tied, Connecting
  <1> HIDE DEF v
  <1> QED BY <1>4, <1>6 DEF Partway, Arrived

LEMMA ChangeArrived ==
    ASSUME NEW u, NEW t, NEW q, Partway(u, t, q), t.flow = "branch"
    PROVE  Arrived(Await(u, t, "branch"), q)
  <1> DEFINE s == Waits(u, t, "branch")
  <1>1. s.at = "branch" /\ s.flow = "branch"
    BY DEF Partway, Waits, TaskShape, TaskFields
  <1> HIDE DEF s
  <1>2. TaskPlaced(s, q)
    BY <1>1 DEF TaskPlaced
  <1> QED BY <1>2, PlacedArrived DEF s

LEMMA DeleteArrived ==
    ASSUME NEW u, NEW t, NEW q, Partway(u, t, q), t.flow = "delete", t.query \in DOMAIN q
    PROVE  Arrived(Await(u, t, "delete"), q)
  <1> DEFINE s == Waits(u, t, "delete")
  <1>1. s.at = "delete" /\ s.flow = "delete" /\ s.query = t.query
    BY DEF Partway, Waits, TaskShape, TaskFields
  <1> HIDE DEF s
  <1>2. TaskPlaced(s, q)
    BY <1>1 DEF TaskPlaced
  <1> QED BY <1>2, PlacedArrived DEF s

\* The change of a saved query is of the text, the branch and the database it has.
LEMMA SaveArrived ==
    ASSUME NEW u, NEW t, NEW q, Partway(u, t, q), t.flow = "save", t.text = u.text,
           SelectedDB(u) # NoDB, t.query \in {NoQuery, u.active}
    PROVE  Arrived(Await(u, t, "save"), q)
  <1> DEFINE s == Waits(u, t, "save")
  <1>1. /\ s.at = "save" /\ s.flow = "save" /\ s.text = u.text /\ s.query = t.query
        /\ s.branch = u.selected /\ s.db = SelectedDB(u)
    BY WaitsFacts DEF Partway
  <1> HIDE DEF s
  <1>2. Wanted(u) = <<s.branch, s.db>>
    BY <1>1, ContextWanted, SMTT(30) DEF Context
  <1>3. s.branch \in Branches /\ s.db \in Databases /\ s.text \in Texts
    <2>1. PageSound(u) /\ u.text \in Texts
      BY DEF Partway, Tied, Linked, Kept, OnList
    <2> QED BY <1>1, <2>1, DefaultAssumption DEF PageSound, SelectedDB
  <1>4. s.query # NoQuery =>
            s.query \in DOMAIN q /\ q[s.query].text = s.text /\ <<q[s.query].branch, q[s.query].db>> = Wanted(u)
    BY <1>1 DEF Partway, Tied, QueryShown
  <1>5. TaskPlaced(s, q) /\ TaskBound(u, s)
    BY <1>1, <1>2, <1>3, <1>4 DEF TaskPlaced, TaskBound
  <1> QED BY <1>5, PlacedArrived DEF s

LEMMA RendersArrived ==
    ASSUME NEW u, NEW v, NEW q, Arrived(u, q), Renders(u, v), Honest(v)
    PROVE  Arrived(v, q)
  BY RendersTied DEF Arrived, Renders

\* A page on which only the shown tab is another.
LEMMA PageArrived ==
    ASSUME NEW u, NEW q, Arrived(u, q), NEW page
    PROVE  Arrived([u EXCEPT !.page = page], q)
  <1> DEFINE v == [u EXCEPT !.page = page]
  <1>1. /\ v = [f \in PageFields |-> v[f]] /\ v.writes \in BOOLEAN /\ v.confirm \in BOOLEAN
        /\ \A f \in PageFields \ {"page"} : v[f] = u[f]
    BY DEF Arrived, PageSound, PageFields
  <1> HIDE DEF v
  <1>2. Renders(u, v) /\ (Honest(u) => Honest(v))
    BY <1>1, ElseRenders DEF Arrived
  <1>3. Arrived(v, q)
    BY <1>2, RendersArrived DEF Arrived
  <1> QED BY <1>3 DEF v

LEMMA SelectArrived ==
    ASSUME NEW u, NEW q, Arrived(u, q), u.branches # {}, NEW b \in Branches, NEW t,
           TaskShape(t), t.flow = "select", t.fresh = {}
    PROVE  Arrived(SelectBranch(u, b, t), q)
  <1>1. TaskTied(t, q)
    BY DEF TaskTied
  <1>2. Linked(u, t, q)
    BY AnotherTied DEF Arrived, Tied, Idle
  <1> QED BY <1>1, <1>2, SelectBranchArrived DEF Arrived, Honest

LEMMA LoadArrived ==
    ASSUME NEW u, NEW q, Arrived(u, q), NEW t, TaskShape(t), t.flow = "loadAll", t.fresh = {}
    PROVE  Arrived(StartLoadAll(u, t), q)
  <1>1. TaskTied(t, q)
    BY DEF TaskTied
  <1>2. Linked(u, t, q)
    BY AnotherTied DEF Arrived, Tied, Idle
  <1> QED BY <1>1, <1>2, StartLoadAllArrived DEF Arrived, Tied, Honest

LEMMA NavigationArrived ==
    ASSUME Arrived(ui, queries),
           \/ RefreshAll \/ ChangeBranches \/ Leave
           \/ \E page \in {"sql", "tables"} : Navigate(page)
           \/ \E b \in Branches : SelectInSidebar(b) \/ OpenBranch(b)
    PROVE  Arrived(ui', queries)
  <1> DEFINE q == queries
  <1>1. CASE RefreshAll
    BY <1>1, LoadArrived, NewTaskShape, NewTaskTied DEF RefreshAll
  <1>2. CASE ChangeBranches
    <2> DEFINE t == NewTask("branch")
    <2>1. Partway(ui, t, q) /\ t.flow = "branch" /\ t.fresh = {} /\ TaskShape(t)
      BY NewTaskPartway, NewTaskTied, NewTaskShape
    <2>2. ui' = Await(ui, t, "branch")
      BY <1>2 DEF ChangeBranches
    <2> HIDE DEF t
    <2> QED BY <2>1, <2>2, ChangeArrived
  <1>3. CASE Leave
    BY <1>3, PageArrived DEF Leave
  <1>4. ASSUME NEW page \in {"sql", "tables"}, Navigate(page) PROVE Arrived(ui', q)
    <2> DEFINE v == [ui EXCEPT !.page = page]
    <2>1. Arrived(v, q)
      BY PageArrived
    <2>2. ui' = StartDatabases(v, NewTask(page))
      BY <1>4 DEF Navigate
    <2> HIDE DEF v
    <2>3. Partway(v, NewTask(page), q) /\ NewTask(page).flow = page
      BY <2>1, NewTaskPartway, NewTaskTied
    <2> QED BY <2>2, <2>3, StartDatabasesArrived
  <1>5. ASSUME NEW b \in Branches, SelectInSidebar(b) PROVE Arrived(ui', q)
    <2> DEFINE u == Bump(ui, {"library"})
               v == [u EXCEPT !.page = "other"]
    <2>1. Arrived(u, q) /\ u.branches = ui.branches
      BY BumpTied, BumpRequests DEF Arrived, Tied, PageFields
    <2>2. ui' = SelectBranch(v, b, NewTask("select")) /\ b \in ui.branches
      BY <1>5 DEF SelectInSidebar
    <2> HIDE DEF u
    <2>3. Arrived(v, q) /\ v.branches = u.branches
      BY <2>1, PageArrived DEF Arrived, PageSound, PageFields
    <2> HIDE DEF v
    <2> QED BY <2>1, <2>2, <2>3, SelectArrived, NewTaskShape, NewTaskTied
  <1>6. ASSUME NEW b \in Branches, OpenBranch(b) PROVE Arrived(ui', q)
    <2> DEFINE t == [NewTask("loadAll") EXCEPT !.opened = Entry(b, NoDB, "none", NoQuery)]
               s == [t EXCEPT !.flow = "select"]
    <2>1. /\ TaskShape(t) /\ t.flow = "loadAll" /\ t.fresh = {}
          /\ TaskShape(s) /\ s.flow = "select" /\ s.fresh = {}
      <3>1. TaskShape(NewTask("loadAll")) /\ NewTask("loadAll").flow = "loadAll" /\ NewTask("loadAll").fresh = {}
        BY NewTaskShape, NewTaskTied
      <3> QED BY <3>1 DEF TaskShape, TaskFields
    <2>2. ui' = StartLoadAll(ui, t) \/ (ui.branches # {} /\ ui' = SelectBranch(ui, b, s))
      BY <1>6 DEF OpenBranch
    <2> HIDE DEF t, s
    <2> QED BY <2>1, <2>2, SelectArrived, LoadArrived
  <1> QED BY <1>1, <1>2, <1>3, <1>4, <1>5, <1>6

\* What a page opens a query with: what the row says, or a text that no row has.
LEMMA OpenArrived ==
    ASSUME Arrived(ui, queries), NEW entry, Open(entry), entry.text \in Texts,
           entry.id # NoQuery =>
               /\ entry.id \in DOMAIN queries
               /\ queries[entry.id].branch = entry.branch
               /\ queries[entry.id].db = entry.db
               /\ queries[entry.id].text = entry.text
    PROVE  Arrived(ui', queries)
  <1> DEFINE t == [NewTask("open") EXCEPT !.opened = entry, !.fresh = {"editor"}]
             q == queries
             u == InvalidateSavedQuery(ui)
             a == [u EXCEPT !.selected = entry.branch]
             c == InvalidateSchema(a)
             d == ClearSQLWriteMode(c)
  <1>1. ui' = CASE entry.branch \notin u.branches -> u
                [] entry.branch \in u.branches /\ entry.branch = u.selected -> StartDatabases(u, t)
                [] OTHER -> StartConnection(d, t)
    BY DEF Open
  <1>2. TaskShape(t) /\ t.flow = "open" /\ t.fresh = {"editor"} /\ t.opened = entry
    <2>1. TaskShape(NewTask("open")) /\ NewTask("open").flow = "open"
      BY NewTaskShape DEF NewTask
    <2> QED BY <2>1 DEF TaskShape, TaskFields
  <1>3. /\ PageSound(u) /\ Honest(u) /\ u.active = NoQuery /\ ~Reader(u, "editor")
        /\ Linked(u, Idle, q) /\ Connecting(u) /\ QueryShown(u, q)
    <2>1. Linked(ui, Idle, q)
      BY DEF Arrived, Tied
    <2> HIDE DEF q
    <2> QED BY <2>1, QueryInvalidated DEF Arrived, Tied
  <1> HIDE DEF u, t
  <1>4. TaskTied(t, q)
    BY <1>2 DEF TaskTied
  <1>5. Linked(u, t, q)
    BY <1>2, <1>3 DEF Linked, Kept, OnList, Idle
  <1>6. CASE entry.branch \notin u.branches
    BY <1>1, <1>3, <1>6 DEF Arrived, Tied
  <1>7. CASE entry.branch \in u.branches /\ entry.branch = u.selected
    <2>1. Partway(u, t, q)
      BY <1>2, <1>3, <1>4, <1>5 DEF Partway, Tied
    <2>2. ui' = StartDatabases(u, t)
      BY <1>1, <1>7
    <2> QED BY <1>2, <2>1, <2>2, StartDatabasesArrived DEF q
  <1>8. CASE entry.branch \in u.branches /\ entry.branch # u.selected
    <2>1. ui' = StartConnection(d, t)
      BY <1>1, <1>8
    <2>2. PageSound(a) /\ Linked(a, t, q) /\ a.off = u.off /\ a.active = NoQuery
      <3>1. entry.branch \in Branches
        BY <1>3, <1>8 DEF PageSound
      <3> HIDE DEF t, q
      <3> QED BY <1>3, <1>5, <1>8, <3>1, Reselected DEF Linked, OnList
    <2> HIDE DEF a
    <2>3. QueryShown(a, q)
      BY <2>2 DEF QueryShown
    <2>4. PageSound(c) /\ Linked(c, t, q) /\ QueryShown(c, q) /\ c.off = a.off
      BY <2>2, <2>3, SchemaInvalidated
    <2> HIDE DEF c
    <2>5. Renders(c, d) /\ PageSound(d) /\ d.off \subseteq Controls
      BY <1>3, <2>2, <2>4, ClearRenders DEF Honest
    <2>6. Linked(d, t, q) /\ QueryShown(d, q)
      BY <2>4, <2>5, RendersTied
    <2> HIDE DEF d
    <2> QED BY <1>2, <1>4, <2>1, <2>5, <2>6, StartConnectionArrived DEF q
  <1> QED BY <1>6, <1>7, <1>8

LEMMA LibraryArrived ==
    ASSUME Arrived(ui, queries), queries \in Seq(Rows),
           \/ \E i \in DOMAIN queries : OpenSaved(i) \/ Delete(i)
           \/ OpenInspection
           \/ \E asNew \in BOOLEAN : Save(asNew)
    PROVE  Arrived(ui', queries)
  <1> DEFINE q == queries
  <1>1. ASSUME NEW i \in DOMAIN queries, OpenSaved(i) PROVE Arrived(ui', q)
    <2> DEFINE row == queries[i]
               entry == Entry(row.branch, row.db, row.text, i)
    <2>1. row.text \in Texts
      <3>1. row \in Rows
        OBVIOUS
      <3> HIDE DEF row
      <3> QED BY <3>1 DEF Rows
    <2>2. Open(entry)
      BY <1>1 DEF OpenSaved
    <2>3. entry.branch = row.branch /\ entry.db = row.db /\ entry.text = row.text /\ entry.id = i
      BY DEF Entry
    <2> HIDE DEF entry
    <2> QED BY <2>1, <2>2, <2>3, OpenArrived
  <1>2. CASE OpenInspection
    <2>1. PICK context : Open(Entry(context[1], context[2], "inspection", NoQuery))
      BY <1>2 DEF OpenInspection
    <2> DEFINE entry == Entry(context[1], context[2], "inspection", NoQuery)
    <2>2. entry.text \in Texts /\ entry.id = NoQuery
      BY DEF Entry, Texts
    <2>3. Open(entry)
      BY <2>1
    <2> HIDE DEF entry
    <2> QED BY <2>2, <2>3, OpenArrived
  <1>3. ASSUME NEW i \in DOMAIN queries, Delete(i) PROVE Arrived(ui', q)
    <2> DEFINE t == [NewTask("delete") EXCEPT !.query = i]
    <2>1. TaskShape(t) /\ t.flow = "delete" /\ t.fresh = {} /\ t.query = i
      <3>1. TaskShape(NewTask("delete")) /\ NewTask("delete").flow = "delete" /\ NewTask("delete").fresh = {}
        BY NewTaskShape, NewTaskTied
      <3> QED BY <3>1 DEF TaskShape, TaskFields
    <2>2. ui' = Await(ui, t, "delete")
      BY <1>3 DEF Delete
    <2> HIDE DEF t
    <2>3. TaskTied(t, q)
      BY <2>1 DEF TaskTied
    <2>4. Linked(ui, t, q)
      BY <2>1 DEF Arrived, Tied, Linked, Kept, OnList, Idle
    <2>5. Partway(ui, t, q)
      BY <2>1, <2>3, <2>4 DEF Arrived, Tied, Partway
    <2> QED BY <2>1, <2>2, <2>5, DeleteArrived DEF q
  <1>4. ASSUME NEW asNew \in BOOLEAN, Save(asNew) PROVE Arrived(ui', q)
    <2> DEFINE u == Bump(ui, {"editor"})
               t == [NewTask("save") EXCEPT !.fresh = {"editor"}, !.text = u.text,
                                            !.query = IF asNew THEN NoQuery ELSE u.active]
               v == [u EXCEPT !.saving = TRUE]
    <2>1. \/ ui' = Await(v, t, "save") /\ SelectedDB(u) # NoDB
          \/ ui' = u
      BY <1>4 DEF Save
    <2>2. /\ TaskShape(t) /\ t.flow = "save" /\ t.fresh = {"editor"} /\ t.text = u.text
          /\ t.query \in {NoQuery, u.active}
      <3>1. TaskShape(NewTask("save")) /\ NewTask("save").flow = "save"
        BY NewTaskShape, NewTaskTied
      <3> HIDE DEF u
      <3> QED BY <3>1 DEF TaskShape, TaskFields
    <2>3. Arrived(u, q) /\ ~Reader(u, "editor")
      BY BumpTied, BumpReaders DEF Arrived, Tied
    <2> HIDE DEF u, t
    <2>4. /\ v = [f \in PageFields |-> v[f]] /\ v.tasks = u.tasks
          /\ v.branches = u.branches /\ v.selected = u.selected /\ v.connection = u.connection
          /\ v.refreshing = u.refreshing /\ v.connBusy = u.connBusy
          /\ v.text = u.text /\ v.active = u.active /\ v.listed = u.listed
          /\ v.off = u.off /\ v.entries = u.entries /\ v.chosen = u.chosen
          /\ v.writes = u.writes /\ v.confirm = u.confirm
      BY <2>3 DEF Arrived, PageSound, PageFields
    <2> HIDE DEF v
    <2>5. /\ PageSound(v) /\ Honest(v) /\ Wanted(v) = Wanted(u) /\ SelectedDB(v) = SelectedDB(u)
      BY <2>3, <2>4 DEF Arrived, PageSound, Honest, Runnable, Choosable, Usable, SelectedDB, Wanted
    <2>6. Linked(v, t, q)
      BY <2>2, <2>3, <2>4 DEF Arrived, Tied, Linked, Kept, OnList, TaskBound, Reader, OneReader, Idle
    <2>7. Connecting(v) /\ QueryShown(v, q) /\ TaskTied(t, q)
      BY <2>2, <2>3, <2>4, <2>5 DEF Arrived, Tied, Connecting, QueryShown, TaskTied
    <2>8. Partway(v, t, q)
      BY <2>2, <2>5, <2>6, <2>7 DEF Partway, Tied
    <2>9. SelectedDB(u) # NoDB => Arrived(Await(v, t, "save"), q)
      BY <2>2, <2>4, <2>5, <2>8, SaveArrived
    <2> QED BY <2>1, <2>3, <2>9
  <1> QED BY <1>1, <1>2, <1>3, <1>4

LEMMA DatabaseChosenArrived ==
    ASSUME Arrived(ui, queries), NEW db, db \in ui.entries[ui.selected].names
    PROVE  Arrived(RenderContext(ChosenDatabase(ui, db)), queries)
  <1> DEFINE b == ui.selected
             q == queries
             a == Remembering(ui, b, db)
             c == InvalidateSavedQuery(a)
             d == InvalidateSchema(c)
             e == ClearSQLWriteMode(d)
             v == RenderContext(e)
  <1>1. ChosenDatabase(ui, db) = e
    BY DEF ChosenDatabase, Remembering
  <1>2. /\ PageSound(a)
        /\ \A f \in PageFields \ {"entries", "chosen"} : a[f] = ui[f]
    <2>1. PageSound(ui) /\ b \in Branches
      BY DEF Arrived, PageSound
    <2> QED BY <2>1, DatabaseSet
  <1> HIDE DEF a, b, q
  <1>3. /\ a.branches = ui.branches /\ a.selected = ui.selected /\ a.off = ui.off
        /\ a.refreshing = ui.refreshing /\ a.connBusy = ui.connBusy /\ a.saving = ui.saving
        /\ a.text = ui.text /\ a.listed = ui.listed /\ a.tasks = ui.tasks
    BY <1>2 DEF PageFields
  <1>4. Linked(a, Idle, q) /\ Connecting(a) /\ a.off \subseteq Controls
    BY <1>3 DEF Arrived, Tied, Honest, Linked, Kept, OnList, Connecting, TaskBound, Reader, OneReader, q
  <1>5. /\ PageSound(c) /\ Linked(c, Idle, q) /\ QueryShown(c, q) /\ Connecting(c) /\ c.off = a.off
    BY <1>2, <1>4, QueryInvalidated
  <1> HIDE DEF c
  <1>6. /\ PageSound(d) /\ Linked(d, Idle, q) /\ QueryShown(d, q) /\ Connecting(d) /\ d.off = c.off
    BY <1>5, SchemaInvalidated
  <1> HIDE DEF d
  <1>7. Renders(d, e) /\ PageSound(e) /\ e.off \subseteq Controls
    BY <1>4, <1>5, <1>6, ClearRenders
  <1> HIDE DEF e
  <1>8. Renders(e, v) /\ PageSound(v) /\ Honest(v)
    BY <1>7, ContextRenders
  <1> HIDE DEF v
  <1>9. Tied(v, Idle, q)
    BY <1>6, <1>7, <1>8, RendersTied DEF Tied
  <1> QED BY <1>1, <1>8, <1>9 DEF Arrived, v, q

LEMMA SchemaArrived ==
    ASSUME Arrived(ui, queries),
           \/ \E db \in Databases : ChooseDatabase(db)
           \/ \E flow \in {"tables", "more"} : LoadCatalog(flow)
           \/ SelectTable
    PROVE  Arrived(ui', queries)
  <1>1. ASSUME NEW db, ChooseDatabase(db) PROVE Arrived(ui', queries)
    <2> DEFINE u == RenderContext(ChosenDatabase(ui, db))
    <2>1. Arrived(u, queries)
      BY <1>1, DatabaseChosenArrived DEF ChooseDatabase
    <2>2. ui' \in {StartLibrary(u, NewTask("sql")), StartCatalog(u, NewTask("tables"))}
      BY <1>1 DEF ChooseDatabase
    <2> HIDE DEF u
    <2>3. /\ Partway(u, NewTask("sql"), queries) /\ Partway(u, NewTask("tables"), queries)
          /\ NewTask("tables").flow = "tables"
      BY <2>1, NewTaskPartway, NewTaskTied
    <2> QED BY <2>2, <2>3, StartLibraryArrived, StartCatalogArrived
  <1>2. ASSUME NEW flow \in {"tables", "more"}, LoadCatalog(flow) PROVE Arrived(ui', queries)
    <2>1. Partway(ui, NewTask(flow), queries) /\ NewTask(flow).flow = flow
      BY NewTaskPartway, NewTaskTied
    <2> QED BY <1>2, <2>1, StartCatalogArrived DEF LoadCatalog
  <1>3. CASE SelectTable
    <2>1. Partway(ui, NewTask("detail"), queries) /\ NewTask("detail").flow = "detail"
      BY NewTaskPartway, NewTaskTied
    <2> QED BY <1>3, <2>1, StartDetailArrived DEF SelectTable
  <1> QED BY <1>1, <1>2, <1>3

LEMMA TickArrived ==
    ASSUME Arrived(ui, queries), TickWrites \/ TickConfirm
    PROVE  Arrived(ui', queries)
  <1>1. ui = [f \in PageFields |-> ui[f]] /\ ui.writes \in BOOLEAN /\ ui.confirm \in BOOLEAN
    BY DEF Arrived, PageSound
  <1>2. PICK v :
          /\ ui' = RenderSQLEditor(v)
          /\ v = [f \in PageFields |-> v[f]] /\ v.writes \in BOOLEAN /\ v.confirm \in BOOLEAN
          /\ \A f \in PageFields \ {"writes", "confirm", "armed", "confirmed"} : v[f] = ui[f]
    <2>1. CASE TickWrites
      <3> DEFINE v == [ui EXCEPT !.writes = ~ui.writes, !.confirm = FALSE, !.armed = Context(ui)]
      <3>1. ui' = RenderSQLEditor(v)
        BY <2>1 DEF TickWrites
      <3>2. /\ v = [f \in PageFields |-> v[f]] /\ v.writes \in BOOLEAN /\ v.confirm \in BOOLEAN
            /\ \A f \in PageFields \ {"writes", "confirm", "armed", "confirmed"} : v[f] = ui[f]
        BY <1>1 DEF PageFields
      <3> HIDE DEF v
      <3> QED BY <3>1, <3>2
    <2>2. CASE TickConfirm
      <3> DEFINE v == [ui EXCEPT !.confirm = ~ui.confirm, !.confirmed = Context(ui)]
      <3>1. ui' = RenderSQLEditor(v)
        BY <2>2 DEF TickConfirm
      <3>2. /\ v = [f \in PageFields |-> v[f]] /\ v.writes \in BOOLEAN /\ v.confirm \in BOOLEAN
            /\ \A f \in PageFields \ {"writes", "confirm", "armed", "confirmed"} : v[f] = ui[f]
        BY <1>1 DEF PageFields
      <3> HIDE DEF v
      <3> QED BY <3>1, <3>2
    <2> QED BY <2>1, <2>2
  <1>3. Renders(ui, v) /\ PageSound(v) /\ v.off = ui.off
    BY <1>2, ElseRenders DEF Arrived
  <1> DEFINE w == RenderSQLEditor(v)
  <1>4. Renders(v, w) /\ Honest(w)
    BY <1>3, EditorRenders DEF Arrived, Honest
  <1> HIDE DEF w
  <1>5. Renders(ui, w)
    BY <1>3, <1>4, RendersOn
  <1> QED BY <1>2, <1>4, <1>5, RendersArrived DEF w

\* While a query runs no other can.
LEMMA RunArrived ==
    ASSUME Arrived(ui, queries), Good(ui'), Run
    PROVE  Arrived(ui', queries)
  <1> DEFINE u == Off(ui, {"run", "writes", "db"})
             s == [NewTask("run") EXCEPT !.writes = ui.writes]
             t == [s EXCEPT !.at = "run", !.branch = u.selected, !.db = SelectedDB(u),
                            !.since = Len(versions)]
             v == [u EXCEPT !.tasks = @ \cup {t}]
             q == queries
  <1>1. ui' = v
    BY DEF Run, Await
  <1>2. t.flow = "run" /\ t.fresh = {} /\ t.at = "run"
    <2>1. TaskShape(NewTask("run")) /\ NewTask("run").flow = "run" /\ NewTask("run").fresh = {}
      BY NewTaskShape, NewTaskTied
    <2>2. TaskShape(s) /\ s.flow = "run" /\ s.fresh = {}
      BY <2>1 DEF TaskShape, TaskFields
    <2> HIDE DEF s, u
    <2> QED BY <2>2 DEF TaskShape, TaskFields
  <1>3. /\ PageSound(u) /\ Renders(ui, u) /\ u.off = ui.off \cup {"run", "writes", "db"}
        /\ u.entries = ui.entries /\ u.chosen = ui.chosen
    BY OffRenders DEF Arrived, Controls
  <1> HIDE DEF u, t
  <1>4. /\ v.tasks = u.tasks \cup {t} /\ v.off = u.off
        /\ v.branches = u.branches /\ v.selected = u.selected /\ v.connection = u.connection
        /\ v.refreshing = u.refreshing /\ v.connBusy = u.connBusy /\ v.saving = u.saving
        /\ v.text = u.text /\ v.active = u.active /\ v.listed = u.listed
        /\ v.entries = u.entries /\ v.chosen = u.chosen
    BY <1>3 DEF PageSound, PageFields
  <1>5. PageSound(v)
    BY <1>1 DEF Good
  <1> HIDE DEF v
  <1>6. Linked(u, Idle, q) /\ Connecting(u) /\ QueryShown(u, q)
    BY <1>3, RendersTied DEF Arrived, Tied
  <1>7. TaskTied(t, q) /\ TaskPlaced(t, q) /\ TaskBound(v, t)
    BY <1>2 DEF TaskTied, TaskPlaced, TaskBound
  <1>8. Linked(v, Idle, q)
    BY <1>2, <1>4, <1>6, <1>7 DEF Linked, Kept, OnList, TaskBound, Reader, OneReader
  <1>9. Connecting(v) /\ QueryShown(v, q)
    BY <1>2, <1>4, <1>6 DEF Connecting, QueryShown, Wanted
  <1>10. Honest(v)
    BY <1>3, <1>4 DEF Arrived, Honest, Runnable, Choosable, Controls
  <1> QED BY <1>1, <1>5, <1>8, <1>9, <1>10 DEF Arrived, Tied

\* Another client creates or deletes a branch, or a row of the library.
LEMMA ElsewhereArrived ==
    ASSUME Arrived(ui, queries), exists \in Lists, queries \in Seq(Rows), Elsewhere
    PROVE  Arrived(ui', queries') /\ queries' \in Seq(Rows) /\ Grows(queries, queries')
  <1>1. ui' = ui
    BY DEF Elsewhere
  <1>2. PICK r \in Seq(Rows) : Grows(queries, r) /\ queries' = r
    <2>1. CASE UNCHANGED queries
      BY <2>1 DEF Grows
    <2>2. ASSUME NEW b \in exists, NEW db \in Databases,
                 queries' = Append(queries, [branch |-> b, db |-> db, text |-> "other", live |-> TRUE])
          PROVE  queries' \in Seq(Rows) /\ Grows(queries, queries')
      <3> DEFINE row == [branch |-> b, db |-> db, text |-> "other", live |-> TRUE]
      <3>1. row \in Rows
        BY DEF Rows, Texts, Lists
      <3>2. queries' = Append(queries, row)
        BY <2>2
      <3> HIDE DEF row
      <3>3. /\ Append(queries, row) \in Seq(Rows) /\ Len(queries) \in Nat
            /\ DOMAIN queries = 1..Len(queries) /\ DOMAIN Append(queries, row) = 1..(Len(queries) + 1)
            /\ \A k \in DOMAIN queries : Append(queries, row)[k] = queries[k]
        BY <3>1
      <3> QED BY <3>2, <3>3 DEF Grows
    <2>3. ASSUME NEW i \in DOMAIN queries, queries' = [queries EXCEPT ![i].live = FALSE]
          PROVE  queries' \in Seq(Rows) /\ Grows(queries, queries')
      BY <2>3, RowDropped
    <2> QED BY <2>1, <2>2, <2>3 DEF Elsewhere
  <1>3. Arrived(ui, r)
    BY <1>2, GrowsTied
  <1> QED BY <1>1, <1>2, <1>3

-----------------------------------------------------------------------------
(* Theorems *)

\* The steps of the controller; every other step leaves it as it is.
Serves == \/ Elsewhere
          \/ \E t \in ui.tasks : ServeSave(t) \/ ServeDelete(t) \/ ServeBranch(t)

LEMMA ServerStays == ASSUME Next, ~Serves PROVE UNCHANGED server
  <1>1. ASSUME NEW t \in ui.tasks, Answer(t) PROVE UNCHANGED server
    BY <1>1 DEF Answer, Serves, AnswerLists, AnswerConnection, AnswerDatabases, AnswerLibrary,
                AnswerCatalog, AnswerDetail, AnswerServed
  <1>2. CASE Request
    BY <1>2 DEF Request
  <1> QED BY <1>1, <1>2
          DEF Next, Serves, RefreshAll, ChangeBranches, Leave, Navigate, SelectInSidebar, OpenBranch, OpenSaved,
              Delete, OpenInspection, SelectTable, Run, TickWrites, TickConfirm, Save, ChooseDatabase,
              LoadCatalog

Consistent == Good(ui) /\ Arrived(ui, queries) /\ ControllerSound

LEMMA ServesConsistent ==
    ASSUME Consistent, Serves
    PROVE  Arrived(ui', queries') /\ ControllerSound'
  <1>1. exists \in Lists /\ queries \in Seq(Rows) /\ Changed
    BY DEF Consistent, ControllerSound, Serves, Elsewhere, ServeSave, ServeDelete, ServeBranch
  <1>2. exists' \in Lists
    <2>1. ASSUME NEW t \in ui.tasks, ServeSave(t) \/ ServeDelete(t) PROVE exists' = exists
      BY <2>1 DEF ServeSave, ServeDelete
    <2>2. ASSUME NEW t \in ui.tasks, ServeBranch(t) PROVE exists' \in Lists
      BY <1>1, <2>2 DEF ServeBranch, Lists
    <2>3. CASE Elsewhere
      BY <1>1, <2>3 DEF Elsewhere, Lists
    <2> QED BY <1>1, <2>1, <2>2, <2>3 DEF Serves
  <1>3. Arrived(ui', queries') /\ queries' \in Seq(Rows) /\ Grows(queries, queries')
    <2>1. ASSUME NEW t \in ui.tasks, ServeBranch(t)
          PROVE  Arrived(ui', queries') /\ queries' \in Seq(Rows) /\ Grows(queries, queries')
      <3>1. queries' = queries
        BY <2>1 DEF ServeBranch
      <3>2. Grows(queries, queries)
        BY DEF Grows
      <3> QED BY <1>1, <2>1, <3>1, <3>2, ServeBranchArrived DEF Consistent
    <2> QED BY <1>1, <2>1, ServeSaveArrived, ServeDeleteArrived, ElsewhereArrived DEF Consistent, Serves
  <1>4. DOMAIN queries \subseteq DOMAIN queries'
    BY <1>3 DEF Grows
  <1> QED BY <1>1, <1>2, <1>3, <1>4, ChangedSound DEF Consistent

LEMMA LibraryTyped == Library \in Seq(Rows)
  <1> DEFINE L == [branch : Branches, db : Databases, text : STRING, live : BOOLEAN]
  <1>1. L \subseteq Rows
    BY DEF Rows, Texts
  <1>2. Library \in Seq(L)
    BY LibraryAssumption
  <1> HIDE DEF L
  <1> QED BY <1>1, <1>2

LEMMA InitConsistent == Init => Consistent
  <1> SUFFICES ASSUME Init PROVE Consistent
    OBVIOUS
  <1>1. ui = StartLoadAll(Blank, NewTask("loadAll")) /\ exists = Branches /\ queries = Library
    BY DEF Init, Blank
  <1>2. PageSound(Blank)
    BY BlankGood
  <1> DEFINE t == NewTask("loadAll")
             q == queries
  <1>3. Blank.off \subseteq Controls /\ QueryShown(Blank, q) /\ Linked(Blank, Idle, q)
    <2>1. /\ Blank.off = {"db", "tables"} /\ Blank.active = NoQuery /\ Blank.tasks = {}
          /\ Blank.refreshing = FALSE /\ Blank.saving = FALSE /\ Blank.listed = {}
          /\ Blank.text = "typed" /\ Blank.branches = {}
      BY DEF Blank
    <2>2. Blank.text \in Texts
      BY <2>1 DEF Texts
    <2> QED BY <2>1, <2>2 DEF Controls, QueryShown, Linked, Kept, OnList, OneReader, Reader, Idle
  <1>4. TaskShape(t) /\ TaskTied(t, q) /\ t.flow = "loadAll" /\ t.fresh = {} /\ Linked(Blank, t, q)
    BY <1>3, NewTaskShape, NewTaskTied
  <1> HIDE DEF t, q
  <1>5. Arrived(StartLoadAll(Blank, t), q)
    BY <1>2, <1>3, <1>4, StartLoadAllArrived
  <1>6. ControllerSound
    <2>1. exists \in Lists /\ queries \in Seq(Rows)
      BY <1>1, LibraryTyped, MainAssumption DEF Lists
    <2> DEFINE V == [branches : Lists, queries : SUBSET DOMAIN queries]
               now == Now
    <2>2. now \in V
      BY <2>1 DEF Now
    <2>3. versions = <<now>>
      BY DEF Init
    <2> HIDE DEF V, now
    <2>4. versions \in Seq(V)
      BY <2>2, <2>3
    <2> QED BY <2>1, <2>4 DEF ControllerSound, V
  <1> QED BY <1>1, <1>5, <1>6, InitGood DEF Consistent, t, q

LEMMA NextConsistent == ASSUME Consistent, Next PROVE Consistent'
  <1>1. Good(ui')
    BY NextGood DEF Consistent
  <1>2. CASE Serves
    BY <1>1, <1>2, ServesConsistent DEF Consistent
  <1>3. CASE ~Serves
    <2>1. UNCHANGED server
      BY <1>3, ServerStays
    <2>2. ControllerSound' /\ queries' = queries
      BY <2>1 DEF Consistent, ControllerSound, server
    <2>3. Arrived(ui', queries)
      <3>1. ASSUME NEW t \in ui.tasks, Answer(t) PROVE Arrived(ui', queries)
        BY <1>3, <3>1, AnswerListsArrived, AnswerConnectionArrived, AnswerDatabasesArrived,
           AnswerLibraryArrived, AnswerCatalogArrived, AnswerDetailArrived, AnswerServedArrived
           DEF Consistent, Answer, Serves
      <3>2. CASE Run
        BY <1>1, <3>2, RunArrived DEF Consistent
      <3>3. CASE TickWrites \/ TickConfirm
        BY <3>3, TickArrived DEF Consistent
      <3>4. CASE \/ RefreshAll \/ ChangeBranches \/ Leave
                 \/ \E page \in {"sql", "tables"} : Navigate(page)
                 \/ \E b \in Branches : SelectInSidebar(b) \/ OpenBranch(b)
        BY <3>4, NavigationArrived DEF Consistent
      <3>5. CASE \/ \E i \in DOMAIN queries : OpenSaved(i) \/ Delete(i)
                 \/ OpenInspection
                 \/ \E asNew \in BOOLEAN : Save(asNew)
        BY <3>5, LibraryArrived DEF Consistent, ControllerSound
      <3>6. CASE \/ \E db \in Databases : ChooseDatabase(db)
                 \/ \E flow \in {"tables", "more"} : LoadCatalog(flow)
                 \/ SelectTable
        BY <3>6, SchemaArrived DEF Consistent
      <3> QED BY <1>3, <3>1, <3>2, <3>3, <3>4, <3>5, <3>6 DEF Next, Serves
    <2> QED BY <1>1, <2>2, <2>3 DEF Consistent
  <1> QED BY <1>2, <1>3

\* The page and its requests agree, however requests and answers are interleaved: one request
\* at most ends the refresh, and one goes on for the editor; a query can be run only where its
\* database can be chosen; and a saved query's row keeps the context it was saved with.
THEOREM PageAndRequestsAgree == Spec => []Consistent
  <1>1. Consistent /\ [Next]_vars => Consistent'
    <2> SUFFICES ASSUME Consistent, [Next]_vars PROVE Consistent'
      OBVIOUS
    <2>1. CASE Next
      BY <2>1, NextConsistent
    <2>2. CASE UNCHANGED vars
      BY <2>2 DEF vars, server, Consistent, ControllerSound
    <2> QED BY <2>1, <2>2
  <1> QED BY InitConsistent, <1>1, PTL DEF Spec

\* The console never shows a connection of another branch, nor tables of another branch or
\* database, than the ones it names.
THEOREM ContextShown == Spec => []ShownInContext
  <1>1. Consistent => ShownInContext
    BY ContextWanted DEF Consistent, Good, TablesWell, ConnectionWell, ShownInContext
  <1> QED BY <1>1, PageAndRequestsAgree, PTL

\* The console never sends a query that may write to another branch or database than the
\* ones it showed when writing was enabled and, on a protected branch, confirmed.
THEOREM WritesConfined == Spec => WritesInContext
  <1> DEFINE Confined ==
          \A t \in ui'.tasks \ ui.tasks :
              t.at = "run" /\ t.writes =>
                  /\ ui.armed = <<t.branch, t.db>>
                  /\ t.branch \in Protected => ui.confirm /\ ui.confirmed = <<t.branch, t.db>>
  <1>1. Consistent /\ [Next]_vars => [Confined]_vars
    <2> SUFFICES ASSUME Consistent, Next PROVE Confined
      OBVIOUS
    <2>1. CASE Run
      BY <2>1, RunGood DEF Consistent
    <2>2. CASE SendsNothing(ui, ui')
      BY <2>2 DEF SendsNothing
    <2> QED BY <2>1, <2>2, NextGood DEF Consistent
  <1>2. Spec => [][Confined]_vars
    BY <1>1, PageAndRequestsAgree, PTL DEF Spec
  <1> QED BY <1>2 DEF WritesInContext

\* The selected branch stays one of the listed branches, the remembered databases are ones
\* the controller named, and the library and the editor name rows that are there.
THEOREM TypeCorrect == Spec => []TypeOK
  <1>1. Consistent => TypeOK
    <2> SUFFICES ASSUME Consistent PROVE TypeOK
      OBVIOUS
    <2>1. PageSound(ui) /\ ui.off \subseteq Controls /\ Linked(ui, Idle, queries) /\ QueryShown(ui, queries)
      BY DEF Consistent, Arrived, Honest, Tied
    <2>2. ui.active \in 0..Len(queries)
      <3>1. Len(queries) \in Nat /\ DOMAIN queries = 1..Len(queries)
        BY DEF Consistent, ControllerSound
      <3>2. ui.active = 0 \/ ui.active \in 1..Len(queries)
        BY <2>1, <3>1 DEF QueryShown, NoQuery
      <3> QED BY <3>1, <3>2
    <2>3. ASSUME NEW b \in Branches
          PROVE  ui.chosen[b] \in Databases \cup {NoDB} /\ ui.entries[b].names \subseteq Databases
      <3>1. ui.chosen \in [Branches -> Databases \cup {NoDB}] /\ ui.entries[b] \in EntryType
        BY <2>1 DEF PageSound
      <3> QED BY <3>1 DEF EntryType
    <2> QED BY <2>1, <2>2, <2>3 DEF TypeOK, PageSound, Linked, Kept, OnList, Controls
  <1> QED BY <1>1, PageAndRequestsAgree, PTL

\* The saved query that Save would change is the one the editor's text comes from, and only
\* while its branch and database are selected.
THEOREM SavedFaithfully == Spec => []SavedInContext
  <1>1. Consistent => SavedInContext
    BY ContextWanted DEF Consistent, Arrived, Tied, QueryShown, SavedInContext
  <1> QED BY <1>1, PageAndRequestsAgree, PTL

\* The page never waits for nothing, and lets a query be run only when no reload is under way
\* and the connection and a database of the selected branch are there.
THEOREM BusyIsHonest == Spec => []BusyHonest
  <1>1. Consistent => BusyHonest
    <2> SUFFICES ASSUME Consistent PROVE BusyHonest
      OBVIOUS
    <2>1. /\ ui.refreshing <=> Reader(ui, "refresh")
          /\ ui.saving => \E t \in ui.tasks : t.flow = "save"
      BY DEF Consistent, Arrived, Tied, Linked, Kept, OnList, Idle
    <2>2. ui.connBusy => \E t \in ui.tasks : t.at = "connection" /\ "connection" \in t.fresh
      BY DEF Consistent, Arrived, Tied, Connecting
    <2>3. "run" \notin ui.off =>
             /\ ~ui.refreshing /\ Usable(ui) /\ SelectedDB(ui) # NoDB
             /\ ~ui.entries[ui.selected].loading
      BY DEF Consistent, Arrived, Honest, Runnable, Choosable
    <2> QED BY <2>1, <2>2, <2>3 DEF BusyHonest, Reader
  <1> QED BY <1>1, PageAndRequestsAgree, PTL

=============================================================================
