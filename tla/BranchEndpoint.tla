----------------------------- MODULE BranchEndpoint -----------------------------
(***************************************************************************)
(* The endpoint of one branch (internal/server/branch_endpoints.go): its   *)
(* listener, the client connections it proxies, the compute container it   *)
(* starts for them and stops when they are gone, and the operations that   *)
(* publish, unpublish and reset the branch or make it the primary          *)
(* (server.go).                                                            *)
(*                                                                         *)
(* A connection passes through many steps: accept, count, read the branch, *)
(* lock, acquire a route, write the selection, four Docker calls, dial.    *)
(* Operations exclude one another but not connections, and timer callbacks *)
(* exclude nobody.                                                         *)
(*                                                                         *)
(* Of the primary endpoint this module keeps what PrimaryEndpoint shows:   *)
(* a route is granted when nothing is in transition or reserved, then the  *)
(* primary serves the timeline it says, and reservations and transitions   *)
(* wait for the routes that are held. Timelines are numbers; a branch gets *)
(* a new one when it is reset or deleted and created again. Timeline 0 is  *)
(* another branch's. Passwords and ports are left out.                     *)
(***************************************************************************)
EXTENDS Naturals, FiniteSets

CONSTANTS
    Conns,         \* client connections at a time
    Timers,        \* idle timers and callbacks of expired ones at a time
    MaxActive,     \* maxActiveConnections
    MaxTimeline,   \* bound on the branch's timelines
    MaxBox,        \* bound on the containers created
    MaxFaults,     \* bound on failing calls, compute exits and controller crashes
    None

ASSUME NoneAssumption == None \notin Timers /\ None \notin Conns /\ None \notin Nat
ASSUME ConnsAssumption == IsFiniteSet(Conns)
ASSUME ActiveAssumption == MaxActive \in Nat \ {0}
ASSUME BoundAssumption ==
    MaxTimeline \in Nat \ {0} /\ MaxBox \in Nat /\ MaxFaults \in Nat

VARIABLES
    branch,    \* the branch's row: is its endpoint published, its timeline
    last,      \* the last timeline the branch was given
    file,      \* the timeline in its endpoint selection file
    box,       \* its container: state, id, the timeline it serves, is its image old
    ctl,       \* the controller's maps: listener, active count, idle timer, start lock
    timer,     \* each timer: armed, or where its callback is
    conn,      \* each connection: where its handler is, the timeline and id it has read
    op,        \* the operation under way
    primary,   \* the primary endpoint
    faults     \* number of faults so far

vars == <<branch, last, file, box, ctl, timer, conn, op, primary, faults>>

Tls == 0..MaxTimeline

NoBox == [state |-> "absent", id |-> 0, tl |-> 0, old |-> FALSE]
Running == box.state \in {"booting", "up"}
Halted == [box EXCEPT !.state = "stopped", !.tl = 0]

Fault ==
    /\ faults < MaxFaults
    /\ faults' = faults + 1

\* A call that fails or succeeds, as ok says.
Outcome(ok) == IF ok THEN UNCHANGED faults ELSE Fault

(***************************************************************************)
(* Operators named X_Y are faulty variants of X, the plausible mistakes    *)
(* the properties are tested against; nothing uses them.                   *)
(***************************************************************************)

-----------------------------------------------------------------------------
(* The container and the start script in it. Docker does not restart it.      *)

\* compute.sh reads the selection and takes the lease; Postgres accepts.
BoxUp ==
    /\ box.state = "booting"
    /\ box' = [box EXCEPT !.state = "up", !.tl = file]
    /\ UNCHANGED <<branch, last, file, ctl, timer, conn, op, primary, faults>>

BoxExits ==
    /\ Running
    /\ Fault
    /\ box' = Halted
    /\ UNCHANGED <<branch, last, file, ctl, timer, conn, op, primary>>

\* The Docker calls, for the container a caller knows by its id. Another one, or none,
\* makes them fail.
Stopped(id) == IF box.id = id /\ box.state # "absent" THEN Halted ELSE box
Removed(id) == IF box.id = id /\ box.state # "absent" THEN [NoBox EXCEPT !.id = id] ELSE box
Started(id) == IF box.id = id /\ box.state = "stopped" THEN [box EXCEPT !.state = "booting"] ELSE box

-----------------------------------------------------------------------------
(* Counting connections, idle timers *)

NoTimer == [pc |-> "free", id |-> 0]
Unarmed(t) == [timer EXCEPT ![t] = IF @.pc = "armed" THEN NoTimer ELSE @]

\* Stopping the timer in idleTimers: too late for one whose callback runs.
CancelTimer == IF ctl.timer = None THEN timer ELSE Unarmed(ctl.timer)

\* A count that is not given back.
CountedDown_Never == ctl.active

\* A connection that outlives its listener counts below zero.
CountedDown_BelowZero == ctl.active - 1

\* decrementActive's count.
CountedDown == IF ctl.active > 1 THEN ctl.active - 1 ELSE 0

\* decrementActive, with scheduleIdleStopLocked when it was the last one. unlock says
\* whether the start lock is given back on the way.
Decrement(unlock) ==
    LET lock == IF unlock THEN None ELSE ctl.lock IN
    IF ctl.active > 1
    THEN /\ ctl' = [ctl EXCEPT !.active = CountedDown, !.lock = lock]
         /\ UNCHANGED timer
    ELSE \E t \in Timers :
            /\ CancelTimer[t] = NoTimer
            /\ timer' = [CancelTimer EXCEPT ![t] = [NoTimer EXCEPT !.pc = "armed"]]
            /\ ctl' = [ctl EXCEPT !.active = CountedDown, !.lock = lock, !.timer = t]

TimerStep(t, state) ==
    /\ timer' = [timer EXCEPT ![t] = state]
    /\ UNCHANGED <<branch, last, file, conn, op, primary>>

Fires(t) ==
    /\ timer[t].pc = "armed"
    /\ TimerStep(t, [timer[t] EXCEPT !.pc = "fired"])
    /\ UNCHANGED <<box, ctl, faults>>

\* stopBranchComputeForIdle looks at the count and forgets the branch's timer, be it
\* another one by now.
IdleLook(t) ==
    /\ timer[t].pc = "fired"
    /\ ctl' = [ctl EXCEPT !.timer = None]
    /\ TimerStep(t, IF ctl.active > 0 THEN NoTimer ELSE [timer[t] EXCEPT !.pc = "looked"])
    /\ UNCHANGED <<box, faults>>

\* The branch is read and the container inspected (in one step: both only look).
IdleInspect(t) ==
    /\ timer[t].pc = "looked"
    /\ \E ok \in BOOLEAN :
          /\ Outcome(ok)
          /\ TimerStep(t, IF ok /\ branch.published /\ Running
                          THEN [pc |-> "inspected", id |-> box.id] ELSE NoTimer)
    /\ UNCHANGED <<box, ctl>>

\* The container is stopped, if it is still the one that was inspected.
IdleStop(t) ==
    /\ timer[t].pc = "inspected"
    /\ \E ok \in BOOLEAN :
          /\ Outcome(ok)
          /\ box' = IF ok THEN Stopped(timer[t].id) ELSE box
    /\ TimerStep(t, NoTimer)
    /\ UNCHANGED ctl

-----------------------------------------------------------------------------
(* Connections *)

NoConn == [pc |-> "none", tl |-> 0, id |-> 0]

\* A route that is held as long as the connection to the primary lasts.
Routed_WhileProxied(c) == conn[c].pc \in {"write", "inspect", "replace", "create", "start",
                                          "wait", "dialPrimary", "proxyPrimary"}

\* Where a connection holds a route; where it holds the branch's start lock.
Routed(c) == conn[c].pc \in {"write", "inspect", "replace", "create", "start", "wait",
                             "dialPrimary"}
Starting(c) == conn[c].pc \in {"locked", "write", "inspect", "replace", "create", "start", "wait"}

ConnStep(c, state) ==
    /\ conn' = [conn EXCEPT ![c] = state]
    /\ UNCHANGED <<branch, last, op, primary>>
ConnGoto(c, pc) == ConnStep(c, [conn[c] EXCEPT !.pc = pc])

\* Error paths that forget the start lock.
Unlocks_Never(c) == FALSE

\* Every error path between lock and dial gives the start lock back.
Unlocks(c) == Starting(c)

\* The handler returns: its route and its locks are given back, the count goes down.
End(c) == ConnStep(c, NoConn) /\ Decrement(Unlocks(c))

Accept(c) ==
    /\ ctl.listening
    /\ conn[c].pc = "none"
    /\ ConnGoto(c, "accepted")
    /\ UNCHANGED <<file, box, ctl, timer, faults>>

\* tryIncrementActive; at the limit the connection is closed.
Count(c) ==
    /\ conn[c].pc = "accepted"
    /\ timer' = CancelTimer
    /\ IF ctl.active < MaxActive
       THEN /\ ctl' = [ctl EXCEPT !.active = @ + 1, !.timer = None]
            /\ ConnGoto(c, "counted")
       ELSE /\ ctl' = [ctl EXCEPT !.timer = None]
            /\ ConnStep(c, NoConn)
    /\ UNCHANGED <<file, box, faults>>

ReadBranch(c) ==
    /\ conn[c].pc = "counted"
    /\ branch.published
    /\ ConnStep(c, [conn[c] EXCEPT !.pc = "read", !.tl = branch.tl])
    /\ UNCHANGED <<file, box, ctl, timer, faults>>

ReadFails(c) ==
    /\ conn[c].pc = "counted"
    /\ ~branch.published
    /\ End(c)
    /\ UNCHANGED <<file, box, faults>>

Lock(c) ==
    /\ conn[c].pc = "read"
    /\ ctl.lock = None
    /\ ctl' = [ctl EXCEPT !.lock = c]
    /\ ConnGoto(c, "locked")
    /\ UNCHANGED <<file, box, timer, faults>>

\* A route that is granted to a reserved branch.
Refused_DespiteReservation(c) == primary.shut \/ (primary.tl # conn[c].tl /\ primary.here)

\* acquirePrimaryBranchRoute: nothing in transition or blocked, the branch not
\* reserved, and a selected branch has the primary's timeline.
Refused(c) ==
    \/ primary.shut \/ primary.reserved
    \/ (primary.tl # conn[c].tl /\ primary.here)

RouteRefused(c) ==
    /\ conn[c].pc = "locked"
    /\ Refused(c) \/ (primary.tl = conn[c].tl /\ primary.serving # conn[c].tl)
    /\ End(c)
    /\ UNCHANGED <<file, box, faults>>

RoutePrimary(c) ==
    /\ conn[c].pc = "locked"
    /\ ~Refused(c) /\ primary.tl = conn[c].tl /\ primary.serving = conn[c].tl
    /\ ctl' = [ctl EXCEPT !.lock = None]
    /\ ConnStep(c, [NoConn EXCEPT !.pc = "dialPrimary"])
    /\ UNCHANGED <<file, box, timer, faults>>

RouteBranch(c) ==
    /\ conn[c].pc = "locked"
    /\ ~Refused(c) /\ primary.tl # conn[c].tl
    /\ ConnGoto(c, "write")
    /\ UNCHANGED <<file, box, ctl, timer, faults>>

\* ensureComputeRunningLocked writes the selection first.
WriteFile(c) ==
    /\ conn[c].pc = "write"
    /\ file' = conn[c].tl
    /\ ConnGoto(c, "inspect")
    /\ UNCHANGED <<box, ctl, timer, faults>>

\* InspectContainerByName and reconcileComputeImage's decision.
Inspect(c) ==
    /\ conn[c].pc = "inspect"
    /\ ~(Running /\ box.old)
    /\ ConnStep(c, [conn[c] EXCEPT !.id = box.id, !.pc =
          CASE box.state = "absent" -> "create"
            [] Running -> "wait"
            [] box.state = "stopped" -> IF box.old THEN "replace" ELSE "start"])
    /\ UNCHANGED <<file, box, ctl, timer, faults>>

\* A running container of an earlier image has to be drained first.
InspectRefuses(c) ==
    /\ conn[c].pc = "inspect"
    /\ Running /\ box.old
    /\ End(c)
    /\ UNCHANGED <<file, box, faults>>

\* A stopped one is removed.
Replace(c) ==
    /\ conn[c].pc = "replace"
    /\ box' = Removed(conn[c].id)
    /\ ConnGoto(c, "create")
    /\ UNCHANGED <<file, ctl, timer, faults>>

Create(c) ==
    /\ conn[c].pc = "create"
    /\ box.state = "absent" /\ box.id < MaxBox
    /\ box' = [NoBox EXCEPT !.state = "stopped", !.id = box.id + 1]
    /\ ConnStep(c, [conn[c] EXCEPT !.pc = "start", !.id = box.id + 1])
    /\ UNCHANGED <<file, ctl, timer, faults>>

Start(c) ==
    /\ conn[c].pc = "start"
    /\ box.id = conn[c].id /\ box.state # "absent"
    /\ box' = Started(conn[c].id)
    /\ ConnGoto(c, "wait")
    /\ UNCHANGED <<file, ctl, timer, faults>>

StartGone(c) ==
    /\ conn[c].pc = "start"
    /\ box.id # conn[c].id \/ box.state = "absent"
    /\ End(c)
    /\ UNCHANGED <<file, box, faults>>

\* waitForBackend. Then the route and the start lock are released.
WaitUp(c) ==
    /\ conn[c].pc = "wait"
    /\ box.state = "up"
    /\ ctl' = [ctl EXCEPT !.lock = None]
    /\ ConnStep(c, [NoConn EXCEPT !.pc = "dial"])
    /\ UNCHANGED <<file, box, timer, faults>>

WaitFails(c) ==
    /\ conn[c].pc = "wait"
    /\ End(c)
    /\ UNCHANGED <<file, box, faults>>

\* Writing the selection or a Docker call fails, creating more than MaxBox containers too.
ConnFails(c) ==
    /\ conn[c].pc \in {"write", "inspect", "replace", "create", "start"}
    /\ IF conn[c].pc = "create" /\ box.id = MaxBox THEN UNCHANGED faults ELSE Fault
    /\ End(c)
    /\ UNCHANGED <<file, box>>

Dial(c) ==
    /\ \/ conn[c].pc = "dial" /\ box.state = "up"
       \/ conn[c].pc = "dialPrimary"
    /\ ConnGoto(c, IF conn[c].pc = "dial" THEN "proxy" ELSE "proxyPrimary")
    /\ UNCHANGED <<file, box, ctl, timer, faults>>

\* The backend is gone or does not answer in time.
DialFails(c) ==
    /\ conn[c].pc \in {"dial", "dialPrimary"}
    /\ End(c)
    /\ UNCHANGED <<file, box, faults>>

\* A peer ends the connection.
Disconnect(c) ==
    /\ conn[c].pc \in {"proxy", "proxyPrimary"}
    /\ End(c)
    /\ UNCHANGED <<file, box, faults>>

-----------------------------------------------------------------------------
(* Operations. The operation manager admits one at a time.                    *)

\* new: Publish started the listener; back: a reset is taken back; prev: its timeline;
\* here: the branch was the primary; id: the container an operation knows of.
NoOp == [pc |-> "idle", kind |-> "publish", new |-> FALSE, back |-> FALSE, prev |-> 0,
         here |-> FALSE, id |-> 0]

At(pc) == op.pc = pc
Done == op' = NoOp
Goto(pc) == IF pc = "idle" THEN Done ELSE op' = [op EXCEPT !.pc = pc]
Quiet == UNCHANGED <<last, timer, conn>>

\* stopListener forgets the connections that are still there.
ListenerStopped == [ctl EXCEPT !.listening = FALSE, !.active = 0, !.timer = None]

StopListener ==
    /\ ctl' = ListenerStopped
    /\ timer' = CancelTimer

Request(kind) ==
    /\ At("idle")
    /\ kind = "delete" => last < MaxTimeline
    /\ op' = [NoOp EXCEPT !.kind = kind, !.prev = branch.tl, !.here = primary.here,
                !.pc = CASE kind = "publish" -> "listen"
                         [] kind \in {"unpublish", "delete"} -> "unlisten"
                         [] kind = "switch" -> "reserve"
                         [] kind = "leave" -> "begin"
                         [] kind = "reset" -> IF primary.here THEN "reserve" ELSE "attach"]
    /\ UNCHANGED <<branch, file, box, ctl, primary, faults>> /\ Quiet

\* Where an error leads to. A reset is taken back, and that as far as it goes.
Failed ==
    CASE op.kind \in {"publish", "unpublish", "delete"} -> "idle"
      [] op.kind \in {"switch", "leave"} -> "release"
      [] op.kind = "reset" /\ ~op.back -> "takeBack"
      [] op.kind = "reset" /\ op.back ->
            IF ~op.here THEN "idle" ELSE IF op.pc = "change" THEN "release" ELSE "begin"

(* Publish *)

\* The listener is there already, is bound, or cannot be bound.
Listen ==
    /\ At("listen")
    /\ op' = [op EXCEPT !.pc = "select", !.new = ~branch.published]
    /\ ctl' = [ctl EXCEPT !.listening = TRUE]
    /\ UNCHANGED <<branch, file, box, primary, faults>> /\ Quiet

ListenFails ==
    /\ At("listen") /\ ~ctl.listening
    /\ Fault
    /\ Done
    /\ UNCHANGED <<branch, file, box, ctl, primary>> /\ Quiet

Select ==
    /\ At("select")
    /\ file' = branch.tl
    /\ Goto("publish")
    /\ UNCHANGED <<branch, box, ctl, primary, faults>> /\ Quiet

\* SetEndpoint, for a branch that was not published.
Publish ==
    /\ At("publish")
    /\ branch' = [branch EXCEPT !.published = TRUE]
    /\ Done
    /\ UNCHANGED <<file, box, ctl, primary, faults>> /\ Quiet

\* Leaving the listener that was started for the publication.
TakesBack_Never == FALSE

\* A listener that was started for the publication is stopped when it fails.
TakesBack == op.new

\* Writing the selection or the row fails.
PublishFails ==
    /\ At("select") \/ (At("publish") /\ op.new)
    /\ Fault
    /\ IF TakesBack THEN StopListener ELSE UNCHANGED <<ctl, timer>>
    /\ Done
    /\ UNCHANGED <<branch, last, file, box, conn, primary>>

(* Unpublish, also on the way to a deletion *)

Unpublishing == op.kind \in {"unpublish", "delete"}

Unlisten ==
    /\ At("unlisten")
    /\ branch.published
    /\ StopListener
    /\ Goto("inspectBox")
    /\ UNCHANGED <<branch, last, file, box, conn, primary, faults>>

\* Inspecting the container; an id is known from here on.
InspectBox ==
    /\ At("inspectBox")
    /\ IF box.state = "absent"
       THEN Goto(IF Unpublishing THEN "store" ELSE "begin")
       ELSE op' = [op EXCEPT !.id = box.id, !.pc =
                       IF Running \/ Unpublishing THEN "stopBox" ELSE "removeBox"]
    /\ UNCHANGED <<branch, file, box, ctl, primary, faults>> /\ Quiet

\* Stopping it: an unpublication ignores a failure.
StopBox ==
    /\ At("stopBox")
    /\ \E ok \in BOOLEAN :
          /\ Outcome(ok)
          /\ box' = IF ok THEN Stopped(op.id) ELSE box
          /\ Goto(IF ok \/ Unpublishing THEN "removeBox" ELSE Failed)
    /\ UNCHANGED <<branch, file, ctl, primary>> /\ Quiet

\* Removing it, by force.
RemoveBox ==
    /\ At("removeBox")
    /\ box' = Removed(op.id)
    /\ op' = [op EXCEPT !.id = 0, !.pc = IF Unpublishing THEN "store" ELSE "begin"]
    /\ UNCHANGED <<branch, file, ctl, primary, faults>> /\ Quiet

\* SetEndpoint. A deleted branch may be created again, on a timeline of its own.
Unpublish ==
    /\ At("store") \/ (At("unlisten") /\ ~branch.published)
    /\ \/ /\ op.kind = "unpublish"
          /\ branch' = [branch EXCEPT !.published = FALSE]
          /\ UNCHANGED last
       \/ /\ op.kind = "delete" /\ last < MaxTimeline
          /\ last' = last + 1
          /\ branch' = [published |-> FALSE, tl |-> last + 1]
    /\ Done
    /\ UNCHANGED <<file, box, ctl, primary, faults, timer, conn>>

\* Inspecting, removing or storing fails: the listener is gone all the same.
OpFails ==
    /\ op.pc \in {"inspectBox", "removeBox", "store"}
    /\ Fault
    /\ Goto(Failed)
    /\ UNCHANGED <<branch, file, box, ctl, primary>> /\ Quiet

(* Reset *)

\* The new timeline is stored.
Attach ==
    /\ At("attach")
    /\ last < MaxTimeline
    /\ last' = last + 1
    /\ branch' = [branch EXCEPT !.tl = last + 1]
    /\ Goto("refresh")
    /\ UNCHANGED <<file, box, ctl, primary, faults, timer, conn>>

\* The pageserver or the store fails.
AttachFails ==
    /\ At("attach")
    /\ Goto(IF op.here THEN "release" ELSE "idle")
    /\ UNCHANGED <<branch, file, box, ctl, primary, faults>> /\ Quiet

\* Where Refresh leads to: the primary is started again, too.
Refreshed ==
    CASE ~op.here -> "idle"
      [] op.here /\ ~op.back -> "drain"
      [] op.here /\ op.back -> "begin"

\* Refresh: nothing to do for a branch that is not published.
RefreshNothing ==
    /\ At("refresh") /\ ~branch.published
    /\ Goto(Refreshed)
    /\ UNCHANGED <<branch, file, box, ctl, primary, faults>> /\ Quiet

RefreshWrite ==
    /\ At("refresh") /\ branch.published
    /\ file' = branch.tl
    /\ Goto("refreshInspect")
    /\ UNCHANGED <<branch, box, ctl, primary, faults>> /\ Quiet

RefreshInspect ==
    /\ At("refreshInspect")
    /\ op' = [op EXCEPT !.id = box.id, !.pc = IF Running THEN "refreshStop" ELSE Refreshed]
    /\ UNCHANGED <<branch, file, box, ctl, primary, faults>> /\ Quiet

RefreshStop ==
    /\ At("refreshStop")
    /\ box' = Stopped(op.id)
    /\ Goto("refreshStart")
    /\ UNCHANGED <<branch, file, ctl, primary, faults>> /\ Quiet

RefreshStart ==
    /\ At("refreshStart")
    /\ box' = Started(op.id)
    /\ Goto("refreshWait")
    /\ UNCHANGED <<branch, file, ctl, primary, faults>> /\ Quiet

RefreshWait ==
    /\ At("refreshWait")
    /\ box.state = "up"
    /\ Goto(Refreshed)
    /\ UNCHANGED <<branch, file, box, ctl, primary, faults>> /\ Quiet

\* A call fails or the compute does not come up in time.
RefreshFails ==
    /\ \/ op.pc \in {"refresh", "refreshInspect", "refreshStop", "refreshStart"} /\ Fault
       \/ At("refreshWait") /\ UNCHANGED faults
    /\ Goto(Failed)
    /\ UNCHANGED <<branch, file, box, ctl, primary>> /\ Quiet

\* rollbackReset: the previous timeline is stored, then the endpoint refreshed.
TakeBack ==
    /\ At("takeBack")
    /\ branch' = [branch EXCEPT !.tl = op.prev]
    /\ op' = [op EXCEPT !.pc = "refresh", !.back = TRUE]
    /\ UNCHANGED <<file, box, ctl, primary, faults>> /\ Quiet

TakeBackFails ==
    /\ At("takeBack")
    /\ Fault
    /\ Goto(IF op.here THEN "release" ELSE "idle")
    /\ UNCHANGED <<branch, file, box, ctl, primary>> /\ Quiet

(* The primary endpoint's part: reservation, PreparePrimarySwitch, transition *)

\* Reserving without waiting for routes.
MayReserve_WithoutRouteLock == TRUE

\* Reservations and transitions wait for the routes that are held.
MayReserve == \A c \in Conns : ~Routed(c)

Reserve ==
    /\ At("reserve") /\ MayReserve
    /\ primary' = [primary EXCEPT !.reserved = TRUE]
    /\ Goto(IF op.kind = "reset" THEN "attach" ELSE "drain")
    /\ UNCHANGED <<branch, file, box, ctl, faults>> /\ Quiet

\* PreparePrimarySwitch: no connection is left; the idle timer is cancelled.
Drained ==
    /\ At("drain")
    /\ ctl.active = 0
    /\ timer' = CancelTimer
    /\ ctl' = [ctl EXCEPT !.timer = None]
    /\ Goto("inspectBox")
    /\ UNCHANGED <<branch, last, file, box, conn, primary, faults>>

\* The drain timeout.
DrainFails ==
    /\ At("drain")
    /\ ctl.active > 0
    /\ Goto(Failed)
    /\ UNCHANGED <<branch, file, box, ctl, primary, faults>> /\ Quiet

\* The primary compute stops serving its timeline.
Begin ==
    /\ At("begin") /\ MayReserve
    /\ primary' = [primary EXCEPT !.shut = TRUE, !.serving = None]
    /\ Goto("change")
    /\ UNCHANGED <<branch, file, box, ctl, faults>> /\ Quiet

\* The primary on the timeline selected.
Changed ==
    IF op.kind = "leave"
    THEN [primary EXCEPT !.serving = 0, !.tl = 0, !.here = FALSE]
    ELSE [primary EXCEPT !.serving = branch.tl, !.tl = branch.tl, !.here = TRUE]

\* It is started.
Change ==
    /\ At("change")
    /\ primary' = Changed
    /\ Goto("finish")
    /\ UNCHANGED <<branch, file, box, ctl, faults>> /\ Quiet

\* It is not: the primary goes back to its earlier timeline, or is left stopped and
\* closed to routes until a later operation.
ChangeFails ==
    /\ At("change")
    /\ Fault
    /\ \/ primary' = [primary EXCEPT !.serving = primary.tl, !.shut = FALSE]
       \/ UNCHANGED primary
    /\ Goto(Failed)
    /\ UNCHANGED <<branch, file, box, ctl>> /\ Quiet

Finish ==
    /\ At("finish") /\ MayReserve
    /\ primary' = [primary EXCEPT !.shut = FALSE]
    /\ Goto("release")
    /\ UNCHANGED <<branch, file, box, ctl, faults>> /\ Quiet

Release ==
    /\ At("release") /\ MayReserve
    /\ primary' = [primary EXCEPT !.reserved = FALSE]
    /\ Done
    /\ UNCHANGED <<branch, file, box, ctl, faults>> /\ Quiet

-----------------------------------------------------------------------------
(* The controller's restart and the whole *)

NewController(listening) ==
    [listening |-> listening, active |-> 0, timer |-> None, lock |-> None]

\* The controller goes down at any step and comes up again: published listeners are
\* restored if they can be bound, the container runs on, perhaps with an image that is
\* old by now. A primary in transition may have got to its new timeline.
Restart ==
    /\ Fault
    /\ \E bound \in BOOLEAN : ctl' = NewController(branch.published /\ bound)
    /\ timer' = [t \in Timers |-> NoTimer]
    /\ conn' = [c \in Conns |-> NoConn]
    /\ op' = NoOp
    /\ \E old \in {box.old, box.state # "absent"} : box' = [box EXCEPT !.old = old]
    /\ \E p \in {primary} \cup (IF At("change") THEN {Changed} ELSE {}), shut \in BOOLEAN :
          /\ shut => primary.shut
          /\ primary' = [p EXCEPT !.reserved = FALSE, !.shut = shut]
    /\ UNCHANGED <<branch, last, file>>

\* A branch with a timeline of its own; the primary is on it or elsewhere.
Init ==
    /\ branch = [published |-> FALSE, tl |-> 1]
    /\ last = 1
    /\ file = 0
    /\ box = NoBox
    /\ ctl = NewController(FALSE)
    /\ timer = [t \in Timers |-> NoTimer]
    /\ conn = [c \in Conns |-> NoConn]
    /\ op = NoOp
    /\ \E here \in BOOLEAN :
          LET tl == IF here THEN 1 ELSE 0 IN
          primary = [here |-> here, tl |-> tl, serving |-> tl, shut |-> FALSE, reserved |-> FALSE]
    /\ faults = 0

ConnNext(c) ==
    \/ Count(c) \/ ReadBranch(c) \/ ReadFails(c)
    \/ RouteRefused(c) \/ RoutePrimary(c) \/ RouteBranch(c)
    \/ WriteFile(c) \/ Inspect(c) \/ InspectRefuses(c) \/ Replace(c) \/ Create(c)
    \/ Start(c) \/ StartGone(c) \/ WaitUp(c) \/ WaitFails(c) \/ ConnFails(c)
    \/ Dial(c) \/ DialFails(c)

TimerNext(t) == Fires(t) \/ IdleLook(t) \/ IdleInspect(t) \/ IdleStop(t)

OpNext ==
    \/ Listen \/ ListenFails \/ Select \/ Publish \/ PublishFails
    \/ Unlisten \/ InspectBox \/ StopBox \/ RemoveBox \/ Unpublish \/ OpFails
    \/ Attach \/ AttachFails \/ RefreshNothing \/ RefreshWrite \/ RefreshInspect
    \/ RefreshStop \/ RefreshStart \/ RefreshWait \/ RefreshFails \/ TakeBack \/ TakeBackFails
    \/ Drained \/ DrainFails \/ Change \/ ChangeFails

WaitForRoutes == Reserve \/ Begin \/ Finish \/ Release

Kinds == {"publish", "unpublish", "delete", "reset", "switch", "leave"}

Next ==
    \/ BoxUp \/ BoxExits
    \/ \E c \in Conns : Accept(c) \/ Lock(c) \/ ConnNext(c) \/ Disconnect(c)
    \/ \E t \in Timers : TimerNext(t)
    \/ \E kind \in Kinds : Request(kind)
    \/ OpNext \/ WaitForRoutes
    \/ Restart

Spec == Init /\ [][Next]_vars

\* A sync.RWMutex admits no reader past a waiting writer.
WritersFirst ==
    op.pc \in {"reserve", "begin", "finish", "release"} =>
        \A c \in Conns : Routed(c)' => Routed(c)

\* Handlers and callbacks go on, waits have their timeouts, and the start lock is fair
\* (a sync.Mutex hands over to a waiter that starves). A handler that ends waits here,
\* and only here, for one of Timers to be free. Operations that wait for routes are
\* taken to have called Lock at once.
FairSpec ==
    /\ Init /\ [][Next /\ WritersFirst]_vars
    /\ \A c \in Conns : SF_vars(Lock(c) \/ ConnNext(c))
    /\ \A t \in Timers : WF_vars(TimerNext(t))
    /\ WF_vars(OpNext) /\ WF_vars(WaitForRoutes)

-----------------------------------------------------------------------------
(* Properties *)

ConnStates == {"none", "accepted", "counted", "read", "locked", "write", "inspect", "replace",
               "create", "start", "wait", "dial", "dialPrimary", "proxy", "proxyPrimary"}
OpStates == {"idle", "listen", "select", "publish", "unlisten", "inspectBox", "stopBox",
             "removeBox", "store", "attach", "refresh", "refreshInspect", "refreshStop",
             "refreshStart", "refreshWait", "takeBack", "reserve", "drain", "begin", "change",
             "finish", "release"}

\* Who is between Lock and Unlock of the branch's start lock holds it, and nobody holds it
\* who has left.
StartLockHeld == \A c \in Conns : Starting(c) <=> ctl.lock = c

\* Types of the rows, the files, the controller's maps and the goroutines' locals; the
\* count respects the limit, and under the start lock is its holder, nobody else.
TypeOK ==
    /\ StartLockHeld
    /\ branch \in [published : BOOLEAN, tl : Tls]
    /\ last \in Tls /\ file \in Tls
    /\ box \in [state : {"absent", "stopped", "booting", "up"}, id : 0..MaxBox, tl : Tls,
                old : BOOLEAN]
    /\ ctl \in [listening : BOOLEAN, active : 0..MaxActive, timer : Timers \cup {None},
                lock : Conns \cup {None}]
    /\ timer \in [Timers -> [pc : {"free", "armed", "fired", "looked", "inspected"},
                             id : 0..MaxBox]]
    /\ conn \in [Conns -> [pc : ConnStates, tl : Tls, id : 0..MaxBox]]
    /\ op \in [pc : OpStates, kind : Kinds, new : BOOLEAN, back : BOOLEAN, prev : Tls,
               here : BOOLEAN, id : 0..MaxBox]
    /\ primary \in [here : BOOLEAN, tl : Tls, serving : Tls \cup {None}, shut : BOOLEAN,
                    reserved : BOOLEAN]
    /\ faults \in 0..MaxFaults

\* Never are two computes on one timeline: the branch's container does not serve what
\* the primary serves, however reservation, draining, transition, resets, restarts and
\* late connections interleave. (The start script's writer lease would make the second
\* one fail; the controller does not let it come to that.)
SingleWriter == box.state = "up" => box.tl # primary.serving

\* Nobody can connect to a branch whose endpoint the store does not list: a listener
\* without a published row belongs to a publication under way.
ListenerListed ==
    ctl.listening => branch.published \/ (op.pc \in {"select", "publish"} /\ op.new)

Counted == {c \in Conns : conn[c].pc \notin {"none", "accepted"}}

\* No slot leaks: the count never exceeds the connections there are, so that the limit
\* is not used up and draining can end when the last one goes.
NoLeakedSlots == ctl.active <= Cardinality(Counted)

\* Every connection gets to its backend or is turned away; none waits for a lock or a
\* compute for ever.
ConnectionSettles ==
    \A c \in Conns :
        conn[c].pc # "none" ~> conn[c].pc \in {"none", "proxy", "proxyPrimary"}

\* Operations return, also those that wait for routes and for connections to drain.
OperationReturns == op.pc # "idle" ~> op.pc = "idle"

\* Once a branch was reset, and no connection is on its way, its compute serves the new
\* timeline.
ResetTakesEffect ==
    /\ op.pc = "idle" /\ branch.published /\ box.state = "up"
    /\ \A c \in Conns : conn[c].pc \in {"none", "proxy"}
    => box.tl = branch.tl

=============================================================================
