---------------------------- MODULE PrimaryEndpoint ----------------------------
(***************************************************************************)
(* The primary endpoint: the controller's manager                          *)
(* (internal/server/primary_endpoint.go), the compute container it drives  *)
(* through Docker (primary_endpoint_docker.go) and the container's start   *)
(* script (configs/neon/compute_wrapper/shell/compute.sh).                 *)
(*                                                                         *)
(* The two sides share two files. The manager writes the selection, the    *)
(* branch and timeline the compute is to serve; the script reads it when   *)
(* the container starts and writes the applied marker, what the compute    *)
(* does serve. Docker restarts a compute that exits, so the script may run *)
(* at any time. Branch connections ask the manager for a route: it is      *)
(* granted when the marker agrees with the manager, and held under a read  *)
(* lock that the start and the end of every transition must wait for.      *)
(*                                                                         *)
(* An attachment, a tenant and a timeline in the code, is one timeline     *)
(* here. Passwords are left out.                                           *)
(***************************************************************************)
EXTENDS Naturals

CONSTANTS
    Branches,    \* branch names
    Main,        \* the branch "main"
    Timelines,   \* attachments
    None,        \* no attachment; no branch
    Readers,     \* goroutines that ask for a route or for the connection
    MaxGen,      \* bound on the selection generations (random numbers in the code)
    MaxFaults,   \* bound on failing calls, compute crashes and controller restarts
    Unadopted    \* BOOLEAN: the manager may come up without an attachment, as it does
                 \* on a new installation or when it cannot read the selection

ASSUME MainAssumption == Main \in Branches
ASSUME NoneAssumption == None \notin Branches /\ None \notin Timelines
ASSUME BoundAssumption == MaxGen \in Nat /\ MaxFaults \in Nat
ASSUME UnadoptedAssumption == Unadopted \in BOOLEAN

VARIABLES
    selection,   \* the endpoint selection file
    marker,      \* the applied marker file
    compute,     \* the container: its state and what its script read
    m,           \* primaryEndpointManager
    op,          \* the primary operation under way (operations.Run admits one)
    reader,      \* the readers
    lastGen,     \* the last generation handed out
    faults       \* number of faults so far

vars == <<selection, marker, compute, m, op, reader, lastGen, faults>>

Gens == 0..MaxGen                     \* 0: no generation
Selections == [gen : Gens, branch : Branches, tl : Timelines \cup {None}]
NoFile == [gen |-> 0, branch |-> None, tl |-> None]

Selection(gen, branch, tl) == [gen |-> gen, branch |-> branch, tl |-> tl]

\* endpointSelectionsMatch.
Matches(applied, expected) ==
    /\ expected.gen \in {0, applied.gen}
    /\ applied.branch = expected.branch
    /\ applied.tl = expected.tl

Desired == Selection(m.gen, m.branch, m.att)

Fault ==
    /\ faults < MaxFaults
    /\ faults' = faults + 1

(***************************************************************************)
(* Operators named X_Y are faulty variants of X, the plausible mistakes    *)
(* the properties are tested against; nothing uses them.                   *)
(***************************************************************************)

-----------------------------------------------------------------------------
(* The compute container. Docker's health check passes when it is "serving".  *)

ComputeStates == {"exited", "restarting", "booting", "clean", "generation", "branch",
                  "chosen", "marked", "serving"}
Ready == compute.state = "serving"

\* primaryRuntimeWasActive of the container's status.
Active == compute.state # "exited"

ComputeStep(from, to) ==
    /\ compute.state = from
    /\ compute' = [compute EXCEPT !.state = to]
    /\ UNCHANGED <<selection, m, op, reader, lastGen, faults>>

\* Docker's restart policy.
ComputeRestarts == ComputeStep("restarting", "booting") /\ UNCHANGED marker

RemoveMarker ==
    /\ ComputeStep("booting", "clean")
    /\ marker' = NoFile

ReadStep(from, to, read) ==
    /\ compute.state = from
    /\ compute' = [state |-> to, sel |-> read]
    /\ UNCHANGED <<selection, marker, m, op, reader, lastGen, faults>>

\* The fields of the selection are read by one jq each: the file may be replaced
\* in between.
ReadGeneration ==
    ReadStep("clean", "generation", Selection(selection.gen, None, None))

ReadBranch ==
    ReadStep("generation", "branch",
             [compute.sel EXCEPT !.branch = IF selection = NoFile THEN Main ELSE selection.branch])

\* Without an attachment the script takes the first timeline the pageserver lists.
ReadAttachment ==
    \E tl \in Timelines :
        /\ selection.tl \in {None, tl}
        /\ ReadStep("branch", "chosen", [compute.sel EXCEPT !.tl = tl])

\* The selection file once more.
Applied_Reread == selection

\* What the script has chosen.
Applied == compute.sel

\* The writer lease is taken and the marker is renamed into place.
WriteMarker ==
    /\ ComputeStep("chosen", "marked")
    /\ marker' = Applied

\* compute_ctl runs and the health check succeeds.
BecomeReady == ComputeStep("marked", "serving") /\ UNCHANGED marker

\* The script or Postgres exits, also because another compute holds the lease.
ComputeExits ==
    /\ Active
    /\ compute.state # "restarting"
    /\ Fault
    /\ compute' = [state |-> "restarting", sel |-> NoFile]
    /\ UNCHANGED <<selection, marker, m, op, reader, lastGen>>

\* dockerPrimaryEndpointRuntime.Stop: a container told to stop is not restarted.
Stopped == [state |-> "exited", sel |-> NoFile]

\* dockerPrimaryEndpointRuntime.Start.
Started(c) == IF c.state \in {"exited", "restarting"} THEN [c EXCEPT !.state = "booting"] ELSE c

-----------------------------------------------------------------------------
(* Routes and connections *)

\* A route holds routeMu's read lock from its first step until it is released.
RouteLocked == \E r \in Readers : reader[r].pc # "idle" /\ reader[r].kind = "route"

Idle == [pc |-> "idle", kind |-> "poll", branch |-> None, tl |-> None,
         seen |-> NoFile, open |-> FALSE, ready |-> FALSE, applied |-> NoFile]

ReaderStep(r, state) ==
    /\ reader' = [reader EXCEPT ![r] = state]
    /\ UNCHANGED <<compute, op, lastGen>>

Quietly == UNCHANGED <<selection, marker, m, faults>>

\* What a reader remembers of the manager's state, copied under its mutex.
Asking(kind, branch, tl, open) ==
    [pc |-> "status", kind |-> kind, branch |-> branch, tl |-> tl,
     seen |-> Desired, open |-> open, ready |-> FALSE, applied |-> NoFile]

\* AcquirePrimaryRouteState for a connection to a branch with attachment tl. open says
\* whether the transition flag, the block and the reservations let the branch have a
\* route.
Route(r, branch, tl) ==
    /\ reader[r].pc = "idle"
    /\ ReaderStep(r, Asking("route", branch, tl,
                            ~m.transitioning /\ ~m.blocked /\ m.reserved # branch))
    /\ Quietly

\* Connection does more than report only when it may adopt.
Poll(r) ==
    /\ reader[r].pc = "idle"
    /\ ~m.transitioning /\ ~m.blocked /\ m.att = None
    /\ ReaderStep(r, Asking("poll", None, None, TRUE))
    /\ Quietly

Status(r) ==
    /\ reader[r].pc = "status"
    /\ ReaderStep(r, [reader[r] EXCEPT !.pc = "load", !.ready = Ready])
    /\ Quietly

\* acquirePrimaryBranchRoute: a route to the primary, or to the branch's own
\* compute, given what was applied and what the manager has.
Primary(s) == s.applied.tl = s.tl
Granted(s) ==
    /\ s.kind = "route" /\ s.open
    /\ s.applied # NoFile /\ Matches(s.applied, s.seen)
    /\ IF Primary(s) THEN s.ready ELSE s.applied.branch # s.branch

Decided(s) ==
    IF Granted(s)
    THEN [Idle EXCEPT !.pc = "held", !.kind = "route", !.branch = s.branch, !.tl = s.tl,
                      !.applied = s.applied]
    ELSE Idle

\* Whether what the compute applied may be adopted.
Adoptable(s) == s.applied # NoFile /\ s.ready /\ s.seen.tl = None

\* The marker is loaded.
Load(r) ==
    /\ reader[r].pc = "load"
    /\ LET s == [reader[r] EXCEPT !.applied = marker] IN
       ReaderStep(r, IF Adoptable(s) THEN [s EXCEPT !.pc = "adopt"] ELSE Decided(s))
    /\ Quietly

\* adoptAppliedSelection, first locked region: somebody else was faster.
AdoptLate(r) ==
    /\ reader[r].pc = "adopt"
    /\ m.att # None
    /\ ReaderStep(r, Decided(reader[r]))
    /\ Quietly

\* The mutex is released before the selection is written.
AdoptProceeds(r) ==
    /\ reader[r].pc = "adopt"
    /\ m.att = None
    /\ ReaderStep(r, [reader[r] EXCEPT !.pc = "adoptWrite"])
    /\ Quietly

AdoptWrite(r) ==
    /\ reader[r].pc = "adoptWrite"
    /\ selection' = reader[r].applied
    /\ ReaderStep(r, [reader[r] EXCEPT !.pc = "adoptSet"])
    /\ UNCHANGED <<marker, m, faults>>

\* Second locked region: the manager is looked at again, what was written is not.
AdoptSet(r) ==
    /\ reader[r].pc = "adoptSet"
    /\ LET s == reader[r] IN
       IF m.att = None
       THEN /\ m' = [m EXCEPT !.branch = s.applied.branch, !.att = s.applied.tl,
                              !.atts[s.applied.branch] = s.applied.tl, !.gen = s.applied.gen]
            /\ ReaderStep(r, Decided([s EXCEPT !.seen = s.applied]))
       ELSE /\ UNCHANGED m
            /\ ReaderStep(r, Decided(s))
    /\ UNCHANGED <<selection, marker, faults>>

\* Returning an error with the read lock held.
AfterError_KeepsLock(s) == [s EXCEPT !.pc = "stuck"]

\* An error gives the read lock back.
AfterError(s) == Idle

\* Querying Docker, loading the marker or writing the selection fails.
ReaderFails(r) ==
    /\ reader[r].pc \in {"status", "load", "adoptWrite"}
    /\ Fault
    /\ ReaderStep(r, AfterError(reader[r]))
    /\ UNCHANGED <<selection, marker, m>>

\* The connection is made, or the branch's own compute is up: the lock is released.
Release(r) ==
    /\ reader[r].pc = "held"
    /\ ReaderStep(r, Idle)
    /\ Quietly

-----------------------------------------------------------------------------
(* Primary operations: the handlers of server.go with Start, Stop and         *)
(* SwitchToBranch. One step per lock region, Docker call and file write.      *)

NoOp == [pc |-> "idle", kind |-> "stop", branch |-> None, next |-> NoFile,
         prev |-> NoFile, active |-> FALSE, stable |-> FALSE]

At(pc) == op.pc = pc
Goto(pc) == op' = [op EXCEPT !.pc = pc]
\* The outcome finishRouteTransition is given.
Finish(stable) ==
    op' = [NoOp EXCEPT !.pc = "finish", !.kind = op.kind, !.branch = op.branch, !.stable = stable]

OnlyOp == UNCHANGED <<selection, marker, compute, m, reader, lastGen, faults>>
OnlyManager == UNCHANGED <<selection, marker, compute, reader, lastGen, faults>>

\* The start handler asks for the connection first, which adopts what it can.
MayStart == m.transitioning \/ m.blocked \/ ~Adoptable([applied |-> marker, ready |-> Ready, seen |-> Desired])

RequestStart ==
    /\ At("idle") /\ MayStart
    /\ op' = [NoOp EXCEPT !.pc = "reserve", !.kind = "start", !.branch = m.branch]
    /\ OnlyOp

RequestStop ==
    /\ At("idle")
    /\ op' = [NoOp EXCEPT !.pc = "begin"]
    /\ OnlyOp

RequestSwitch(b) ==
    /\ At("idle")
    /\ op' = [NoOp EXCEPT !.pc = "reserve", !.kind = "switch", !.branch = b]
    /\ OnlyOp

\* Taking mu only.
MayReserve_WithoutRouteLock == TRUE

\* Reserving waits for the routes that are held.
MayReserve == ~RouteLocked

\* ReservePrimaryRoute.
Reserve ==
    /\ At("reserve") /\ MayReserve
    /\ m' = [m EXCEPT !.reserved = op.branch]
    /\ Goto("resolve")
    /\ OnlyManager

\* The branch's attachment is resolved and given to the manager (SetBranchAttachment).
Resolve(tl) ==
    /\ At("resolve")
    /\ m' = [m EXCEPT !.atts[op.branch] = tl]
    /\ Goto("prepare")
    /\ OnlyManager

\* PreparePrimarySwitch removes the branch's own compute.
Prepare ==
    /\ At("prepare")
    /\ Goto("begin")
    /\ OnlyOp

\* The attachment or the branch's compute is not to be had.
HandlerFails ==
    /\ op.pc \in {"resolve", "prepare"}
    /\ Goto("release")
    /\ OnlyOp

\* Taking mu only.
MayBegin_WithoutRouteLock == TRUE

\* Transitions wait for the routes that are held.
MayBegin == ~RouteLocked

\* beginRouteTransition.
Begin ==
    /\ At("begin") /\ MayBegin
    /\ m' = [m EXCEPT !.transitioning = TRUE]
    /\ Goto(IF op.kind = "stop" THEN "stop" ELSE "snapshot")
    /\ OnlyManager

\* Start: the attachment resolved for the selected branch, else the current one.
StartNext ==
    Selection(lastGen + 1, m.branch, IF m.atts[m.branch] # None THEN m.atts[m.branch] ELSE m.att)

\* The next selection, with a new generation, and the one to go back to.
Snapshot ==
    /\ At("snapshot")
    /\ lastGen < MaxGen
    /\ lastGen' = lastGen + 1
    /\ op' = [op EXCEPT !.pc = "status", !.prev = Desired,
                        !.next = IF op.kind = "start" THEN StartNext
                                 ELSE Selection(lastGen + 1, op.branch, m.atts[op.branch])]
    /\ UNCHANGED <<selection, marker, compute, m, reader, faults>>

\* No generation can be made.
SnapshotFails ==
    /\ At("snapshot")
    /\ Finish(FALSE)
    /\ OnlyOp

\* The container's status tells whether it has to be stopped or to be brought back.
QueryRuntime ==
    /\ At("status")
    /\ op' = [op EXCEPT !.pc = IF op.kind = "start" THEN "write" ELSE "stop", !.active = Active]
    /\ OnlyOp

QueryRuntimeFails ==
    /\ At("status")
    /\ Fault
    /\ Finish(FALSE)
    /\ UNCHANGED <<selection, marker, compute, m, reader, lastGen>>

\* writeEndpointSelection: a temporary file is renamed.
WriteSelection ==
    /\ At("write")
    /\ selection' = op.next
    /\ Goto(IF op.kind = "start" /\ op.active THEN "stop" ELSE "start")
    /\ UNCHANGED <<marker, compute, m, reader, lastGen, faults>>

\* Restarting the previous primary, if it was up, when a switch does not go through.
Revive == IF op.active THEN Goto("restart") ELSE Finish(TRUE)

WriteSelectionFails ==
    /\ At("write")
    /\ Fault
    /\ IF op.kind = "start" THEN Finish(FALSE) ELSE Revive
    /\ UNCHANGED <<selection, marker, compute, m, reader, lastGen>>

\* runtime.Stop before the new selection is started.
StopCompute ==
    /\ At("stop")
    /\ compute' = Stopped
    /\ CASE op.kind = "start" -> Goto("start")
         [] op.kind = "switch" -> Goto("write")
         [] op.kind = "stop" -> Finish(TRUE)
    /\ UNCHANGED <<selection, marker, m, reader, lastGen, faults>>

\* Docker's answer is an error; it may have done what it was asked.
Failing(after) ==
    /\ Fault
    /\ compute' \in {compute, after}
    /\ UNCHANGED <<selection, marker, m, reader, lastGen>>

StopComputeFails ==
    /\ At("stop")
    /\ Failing(Stopped)
    /\ Finish(FALSE)

StartCompute ==
    /\ At("start")
    /\ compute' = Started(compute)
    /\ Goto("waitReady")
    /\ UNCHANGED <<selection, marker, m, reader, lastGen, faults>>

StartComputeFails ==
    /\ At("start")
    /\ Failing(Started(compute))
    /\ Goto("abort")

\* waitForAppliedPrimary: ready first, then the marker.
WaitReady ==
    /\ op.pc \in {"waitReady", "verifyReady"} /\ Ready
    /\ Goto(IF At("waitReady") THEN "waitApplied" ELSE "verifyApplied")
    /\ OnlyOp

WaitAgain ==
    /\ \/ At("waitApplied") /\ ~Matches(marker, op.next) /\ Goto("waitReady")
       \/ At("verifyApplied") /\ ~Matches(marker, op.prev) /\ Goto("verifyReady")
    /\ OnlyOp

\* The compute has applied what was selected.
WaitApplied ==
    /\ At("waitApplied") /\ Matches(marker, op.next)
    /\ Goto("commit")
    /\ OnlyOp

\* The compute is unhealthy, a query fails or the time is over.
WaitFails ==
    /\ op.pc \in {"waitReady", "waitApplied"}
    /\ Goto("abort")
    /\ OnlyOp

\* The failed compute is stopped; a switch then goes back.
Abort ==
    /\ At("abort")
    /\ compute' = Stopped
    /\ IF op.kind = "start" THEN Finish(FALSE) ELSE op' = [op EXCEPT !.pc = "rewrite", !.stable = TRUE, !.next = NoFile]
    /\ UNCHANGED <<selection, marker, m, reader, lastGen, faults>>

\* A switch writes the previous selection even so.
AbortFails ==
    /\ At("abort")
    /\ Failing(Stopped)
    /\ IF op.kind = "start" THEN Finish(FALSE) ELSE op' = [op EXCEPT !.pc = "rewrite", !.next = NoFile]

\* Here stable is TRUE when the failed compute was stopped.
RewriteSelection ==
    /\ At("rewrite")
    /\ selection' = op.prev
    /\ IF op.stable THEN Revive ELSE Finish(FALSE)
    /\ UNCHANGED <<marker, compute, m, reader, lastGen, faults>>

RewriteSelectionFails ==
    /\ At("rewrite")
    /\ Fault
    /\ Finish(FALSE)
    /\ UNCHANGED <<selection, marker, compute, m, reader, lastGen>>

RestartCompute ==
    /\ At("restart")
    /\ compute' = Started(compute)
    /\ Goto("verifyReady")
    /\ UNCHANGED <<selection, marker, m, reader, lastGen, faults>>

RestartComputeFails ==
    /\ At("restart")
    /\ Failing(Started(compute))
    /\ Finish(FALSE)

VerifyApplied ==
    /\ At("verifyApplied") /\ Matches(marker, op.prev)
    /\ Finish(TRUE)
    /\ OnlyOp

VerifyFails ==
    /\ op.pc \in {"verifyReady", "verifyApplied"}
    /\ Finish(FALSE)
    /\ OnlyOp

\* The manager takes over the new primary.
Commit ==
    /\ At("commit")
    /\ m' = IF op.kind = "start"
            THEN [m EXCEPT !.att = op.next.tl, !.atts[m.branch] = op.next.tl, !.gen = op.next.gen]
            ELSE [m EXCEPT !.branch = op.branch, !.att = op.next.tl, !.gen = op.next.gen]
    /\ Finish(TRUE)
    /\ OnlyManager

\* Unblocking whatever the outcome.
Blocks_Never == FALSE

\* routeBlocked = !stable
Blocks == ~op.stable

\* finishRouteTransition.
FinishTransition ==
    /\ At("finish") /\ MayBegin
    /\ m' = [m EXCEPT !.transitioning = FALSE, !.blocked = Blocks]
    /\ Goto(IF op.kind = "stop" THEN "idle" ELSE "release")
    /\ OnlyManager

\* ReleasePrimaryRoute; the operation returns.
ReleaseReservation ==
    /\ At("release") /\ MayReserve
    /\ m' = [m EXCEPT !.reserved = None]
    /\ op' = NoOp
    /\ OnlyManager

-----------------------------------------------------------------------------
(* The controller's restart and the whole *)

NoAttachments == [b \in Branches |-> None]
Fresh == [branch |-> Main, att |-> None, atts |-> NoAttachments, gen |-> 0,
          transitioning |-> FALSE, blocked |-> FALSE, reserved |-> None]

\* newPrimaryEndpointManager with the selection file, and without one.
Loaded(s) ==
    IF s = NoFile THEN Fresh
    ELSE [Fresh EXCEPT !.branch = s.branch, !.att = s.tl, !.atts[s.branch] = s.tl, !.gen = s.gen]

\* The controller goes down, at any time, and comes up again. An error that reading
\* the selection meets is ignored.
Restart ==
    /\ Fault
    /\ m' \in {Loaded(selection)} \cup (IF Unadopted THEN {Fresh} ELSE {})
    /\ op' = NoOp
    /\ reader' = [r \in Readers |-> Idle]
    /\ UNCHANGED <<selection, marker, compute, lastGen>>

\* A new installation, or one whose selection was written before selections had
\* generations; the compute is being brought up.
Init ==
    /\ selection \in {Selection(0, b, tl) : b \in Branches, tl \in Timelines}
                     \cup (IF Unadopted THEN {NoFile} ELSE {})
    /\ marker = NoFile
    /\ compute = [state |-> "booting", sel |-> NoFile]
    /\ m = Loaded(selection)
    /\ op = NoOp
    /\ reader = [r \in Readers |-> Idle]
    /\ lastGen = 0 /\ faults = 0

ComputeNext ==
    \/ ComputeRestarts \/ RemoveMarker \/ ReadGeneration \/ ReadBranch \/ ReadAttachment
    \/ WriteMarker \/ BecomeReady

ReaderNext(r) ==
    \/ Status(r) \/ Load(r) \/ AdoptLate(r) \/ AdoptProceeds(r) \/ AdoptWrite(r)
    \/ AdoptSet(r) \/ Release(r)

OpNext ==
    \/ Reserve \/ (\E tl \in Timelines : Resolve(tl)) \/ Prepare \/ HandlerFails
    \/ Begin \/ Snapshot \/ SnapshotFails \/ QueryRuntime \/ WriteSelection
    \/ StopCompute \/ StartCompute \/ WaitReady \/ WaitAgain \/ WaitApplied \/ WaitFails
    \/ Abort \/ RewriteSelection \/ RestartCompute \/ VerifyApplied \/ VerifyFails
    \/ Commit \/ FinishTransition \/ ReleaseReservation

OpFaults ==
    \/ QueryRuntimeFails \/ WriteSelectionFails \/ StopComputeFails \/ StartComputeFails
    \/ AbortFails \/ RewriteSelectionFails \/ RestartComputeFails

Next ==
    \/ ComputeNext \/ ComputeExits
    \/ \E r \in Readers :
          \/ \E b \in Branches, tl \in Timelines : Route(r, b, tl)
          \/ Poll(r) \/ ReaderNext(r) \/ ReaderFails(r)
    \/ RequestStart \/ RequestStop \/ \E b \in Branches : RequestSwitch(b)
    \/ OpNext \/ OpFaults
    \/ Restart

Spec == Init /\ [][Next]_vars

\* The container and the goroutines go on. A waiting writer of routeMu gets its turn
\* (sync.RWMutex admits no reader after it). Waiting for the compute has a deadline.
FairSpec ==
    /\ Spec
    /\ WF_vars(ComputeNext) /\ WF_vars(OpNext)
    /\ \A r \in Readers : WF_vars(ReaderNext(r))
    /\ SF_vars(Reserve \/ Begin \/ FinishTransition \/ ReleaseReservation)
    /\ WF_vars(WaitFails \/ VerifyFails)

-----------------------------------------------------------------------------
(* Properties *)

\* Types of the files, the container, the manager and the goroutines' locals.
TypeOK ==
    /\ selection \in Selections \cup {NoFile}
    /\ marker \in Selections \cup {NoFile}
    /\ compute \in [state : ComputeStates,
                    sel : [gen : Gens, branch : Branches \cup {None}, tl : Timelines \cup {None}]]
    /\ m \in [branch : Branches, att : Timelines \cup {None},
              atts : [Branches -> Timelines \cup {None}], gen : Gens,
              transitioning : BOOLEAN, blocked : BOOLEAN, reserved : Branches \cup {None}]
    /\ op \in [pc : {"idle", "reserve", "resolve", "prepare", "begin", "snapshot", "status",
                     "write", "stop", "start", "waitReady", "waitApplied", "abort", "rewrite",
                     "restart", "verifyReady", "verifyApplied", "commit", "finish", "release"},
               kind : {"start", "stop", "switch"}, branch : Branches \cup {None},
               next : Selections \cup {NoFile}, prev : Selections \cup {NoFile},
               active : BOOLEAN, stable : BOOLEAN]
    /\ reader \in [Readers ->
              [pc : {"idle", "status", "load", "adopt", "adoptWrite", "adoptSet", "held"},
               kind : {"poll", "route"}, branch : Branches \cup {None},
               tl : Timelines \cup {None}, seen : Selections \cup {NoFile}, open : BOOLEAN,
               ready : BOOLEAN, applied : Selections \cup {NoFile}]]
    /\ lastGen \in Gens
    /\ faults \in 0..MaxFaults

Holds(r) == reader[r].pc = "held"

\* A connection that holds a route to the primary finds the timeline of its branch
\* there, or no compute that is ready: transitions wait for it, and a compute that
\* restarts by itself meanwhile reads the same selection again.
RouteServes ==
    \A r \in Readers : Holds(r) /\ Primary(reader[r]) /\ Ready => compute.sel.tl = reader[r].tl

\* From the reservation of a branch to its release nobody holds a route for it: the
\* connections PreparePrimarySwitch does not see cannot have got past the manager.
ReservedUnrouted ==
    \A r \in Readers : Holds(r) => reader[r].branch # m.reserved

\* A route that is held stays right for as long as it is held, whatever operation is
\* under way: it leads to its branch's timeline, and never to a branch being taken.
HeldRoutesRight == RouteServes /\ ReservedUnrouted

\* The selection file is the manager's primary, if it knows one, whenever routes are
\* not suspended and the container is not stopped: a compute that restarts, and a controller that
\* restarts, come back to the primary that was last started.
RestartKeepsPrimary ==
    m.att # None /\ ~m.transitioning /\ ~m.blocked /\ Active => Matches(selection, Desired)

\* docs/architecture.md:125: "Endpoint start/switch resolve branch tenant/timeline
\* attachment via pageserver APIs, persist endpoint selection in compute data dir, and
\* restart compute against that selection." The branch and the timeline on disk are those
\* of the primary; the generations may differ.
SelectionPersisted ==
    m.att # None /\ ~m.transitioning /\ ~m.blocked /\ Active =>
        selection.branch = m.branch /\ selection.tl = m.att

GrantStep ==
    \A r \in Readers :
        reader[r].pc = "load" /\ Holds(r)' /\ Primary(reader'[r]) /\ Ready =>
            compute.sel.tl = reader[r].tl

\* A route to a primary the manager knows is granted only to a compute that serves the
\* branch's timeline, whatever the files say of an earlier or a coming start. (A route
\* granted after an adoption may find that the compute has chosen anew meanwhile.)
GrantsServe == [][GrantStep]_vars

\* An operation on the primary ends: neither the routes it waits for nor a compute that
\* never becomes ready keeps it, and with it the operation lock, for ever.
OperationEnds == op.pc # "idle" ~> op.pc = "idle"

=============================================================================
