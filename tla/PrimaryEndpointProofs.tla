------------------------ MODULE PrimaryEndpointProofs ------------------------
(***************************************************************************)
(* The safety properties of PrimaryEndpoint, for any branches, timelines,  *)
(* readers, generations and faults: the types and what an adoption may do  *)
(* in every installation, the routes and the selection where a selection   *)
(* is on disk.                                                             *)
(***************************************************************************)
EXTENDS PrimaryEndpoint, TLAPS

Files == Selections \cup {NoFile}
Choices == [gen : Gens, branch : Branches \cup {None}, tl : Timelines \cup {None}]
Computes == [state : ComputeStates, sel : Choices]
Managers ==
    [branch : Branches, att : Timelines \cup {None},
     atts : [Branches -> Timelines \cup {None}], gen : Gens,
     transitioning : BOOLEAN, blocked : BOOLEAN, reserved : Branches \cup {None}]
OpPCs == {"idle", "reserve", "resolve", "prepare", "begin", "snapshot", "status",
          "write", "stop", "start", "waitReady", "waitApplied", "abort", "rewrite",
          "restart", "verifyReady", "verifyApplied", "commit", "finish", "release"}
Operations ==
    [pc : OpPCs, kind : {"start", "stop", "switch"}, branch : Branches \cup {None},
     next : Files, prev : Files, active : BOOLEAN, stable : BOOLEAN]
ReaderPCs == {"idle", "status", "load", "adopt", "adoptWrite", "adoptSet", "held"}
ReaderStates ==
    [pc : ReaderPCs, kind : {"poll", "route"}, branch : Branches \cup {None},
     tl : Timelines \cup {None}, seen : Files, open : BOOLEAN, ready : BOOLEAN, applied : Files]

Typed ==
    /\ selection \in Files /\ marker \in Files
    /\ compute \in Computes
    /\ m \in Managers
    /\ op \in Operations
    /\ reader \in [Readers -> ReaderStates]
    /\ lastGen \in Gens /\ faults \in 0..MaxFaults

\* What the script has read, as far as it has come, and what it has told.
ComputeSound ==
    /\ compute.state \in {"branch", "chosen", "marked", "serving"} => compute.sel.branch \in Branches
    /\ compute.state \in {"chosen", "marked", "serving"} => compute.sel.tl \in Timelines
    /\ compute.state \in {"clean", "generation", "branch", "chosen"} => marker = NoFile
    /\ compute.state \in {"marked", "serving"} => marker = compute.sel

\* A start and a switch have a branch.
OpSound ==
    /\ op.kind # "stop" => op.branch \in Branches
    /\ op.pc \notin {"idle", "begin", "stop", "finish"} => op.kind # "stop"

\* What is adopted has been applied.
AdoptSound ==
    \A r \in Readers :
        reader[r].pc \in {"adopt", "adoptWrite", "adoptSet"} => reader[r].applied \in Selections

TInv == Typed /\ ComputeSound /\ OpSound /\ AdoptSound

-----------------------------------------------------------------------------
(* Types *)

LEMMA TypedOK == TypeOK <=> Typed
  BY DEF TypeOK, Typed, Files, Computes, Choices, Managers, Operations, OpPCs, ReaderStates,
         ReaderPCs

\* What is fixed about the constants.
LEMMA Facts ==
    /\ Main \in Branches /\ None \notin Branches /\ None \notin Timelines
    /\ MaxGen \in Nat /\ MaxFaults \in Nat /\ 0 \in Gens
    /\ NoFile \in Files /\ NoFile \in Choices /\ NoFile \notin Selections
    /\ Selections \subseteq Files /\ Selections \subseteq Choices
  BY MainAssumption, NoneAssumption, BoundAssumption
  DEF Gens, NoFile, Files, Choices, Selections

LEMMA FaultTyped ==
    ASSUME faults \in 0..MaxFaults, Fault
    PROVE  faults' \in 0..MaxFaults
  BY BoundAssumption DEF Fault

\* The controller's state after a start, without and with a selection.
LEMMA LoadedTyped ==
    /\ Fresh \in Managers
    /\ \A s \in Files : Loaded(s) \in Managers
  <1>1. NoAttachments \in [Branches -> Timelines \cup {None}]
    BY DEF NoAttachments
  <1>2. Fresh \in Managers
    BY <1>1, Facts DEF Fresh, Managers
  <1>3. ASSUME NEW s \in Selections PROVE Loaded(s) \in Managers
    <2>1. /\ s.branch \in Branches /\ s.tl \in Timelines \cup {None} /\ s.gen \in Gens
      BY DEF Selections
    <2>2. [NoAttachments EXCEPT ![s.branch] = s.tl] \in [Branches -> Timelines \cup {None}]
      BY <1>1, <2>1
    <2>3. s # NoFile
      BY Facts
    <2>4. Loaded(s) = [branch |-> s.branch, att |-> s.tl,
                       atts |-> [NoAttachments EXCEPT ![s.branch] = s.tl], gen |-> s.gen,
                       transitioning |-> FALSE, blocked |-> FALSE, reserved |-> None]
      BY <2>3 DEF Loaded, Fresh
    <2> QED
      BY <2>1, <2>2, <2>4 DEF Managers
  <1>4. Loaded(NoFile) \in Managers
    BY <1>2 DEF Loaded
  <1> QED
    BY <1>2, <1>3, <1>4 DEF Files

\* What the manager wants is a selection.
LEMMA DesiredTyped == m \in Managers => Desired \in Selections
  BY DEF Managers, Desired, Selection, Selections

LEMMA NoOpTyped == NoOp \in Operations
  BY Facts DEF NoOp, Operations, OpPCs

LEMMA IdleTyped == Idle \in ReaderStates
  BY Facts DEF Idle, ReaderStates, ReaderPCs

\* The operation goes on to another place.
LEMMA GotoTyped ==
    ASSUME op \in Operations, OpSound, NEW pc \in OpPCs, Goto(pc),
           pc \notin {"idle", "begin", "stop", "finish"} => op.kind # "stop"
    PROVE  op' \in Operations /\ OpSound'
  BY DEF Goto, Operations, OpSound

LEMMA FinishTyped ==
    ASSUME op \in Operations, OpSound, NEW stable \in BOOLEAN, Finish(stable)
    PROVE  op' \in Operations /\ OpSound'
  <1>1. op' = [pc |-> "finish", kind |-> op.kind, branch |-> op.branch, next |-> NoFile,
               prev |-> NoFile, active |-> FALSE, stable |-> stable]
    BY DEF Finish, NoOp
  <1> QED
    BY <1>1, Facts DEF Operations, OpPCs, OpSound

LEMMA ReviveTyped ==
    ASSUME op \in Operations, OpSound, op.kind # "stop", Revive
    PROVE  op' \in Operations /\ OpSound'
  <1>1. "restart" \in OpPCs /\ TRUE \in BOOLEAN
    BY DEF OpPCs
  <1> QED
    BY <1>1, GotoTyped, FinishTyped DEF Revive

\* What a route decides.
LEMMA DecidedTyped ==
    ASSUME NEW s \in ReaderStates
    PROVE  Decided(s) \in ReaderStates /\ Decided(s).pc \in {"idle", "held"}
  <1>1. CASE Granted(s)
    <2>1. Decided(s) = [pc |-> "held", kind |-> "route", branch |-> s.branch, tl |-> s.tl,
                        seen |-> NoFile, open |-> FALSE, ready |-> FALSE, applied |-> s.applied]
      BY <1>1 DEF Decided, Idle
    <2> QED
      BY <2>1, Facts DEF ReaderStates, ReaderPCs
  <1>2. CASE ~Granted(s)
    BY <1>2, IdleTyped DEF Decided, Idle
  <1> QED
    BY <1>1, <1>2

\* The compute's start and stop.
LEMMA DockerTyped ==
    ASSUME compute \in Computes, ComputeSound
    PROVE  /\ Stopped \in Computes
           /\ Started(compute) \in Computes
           /\ compute' \in {compute, Stopped, Started(compute)} /\ marker' = marker => ComputeSound'
  <1>1. Stopped \in Computes
    BY Facts DEF Stopped, Computes, ComputeStates
  <1>2. Started(compute) \in Computes
    BY DEF Started, Computes, ComputeStates
  <1>3. ASSUME compute' \in {compute, Stopped, Started(compute)}, marker' = marker
        PROVE  ComputeSound'
    <2>1. CASE compute' = compute
      BY <1>3, <2>1 DEF ComputeSound
    <2>2. CASE compute'.state \in {"exited", "booting"}
      BY <2>2 DEF ComputeSound
    <2>3. Stopped.state = "exited"
      BY DEF Stopped
    <2>4. Started(compute) = compute \/ Started(compute).state = "booting"
      BY DEF Started, Computes
    <2> QED
      BY <1>3, <2>1, <2>2, <2>3, <2>4
  <1> QED
    BY <1>1, <1>2, <1>3

\* The compute's own steps.
LEMMA ComputeTStep ==
    ASSUME TInv, ComputeNext \/ ComputeExits
    PROVE  TInv'
  <1> USE DEF Typed
  <1>1. /\ compute \in Computes /\ marker \in Files /\ selection \in Files /\ ComputeSound
        /\ faults \in 0..MaxFaults
    BY DEF TInv
  <1>2. UNCHANGED <<selection, m, op, reader, lastGen>>
    BY DEF ComputeNext, ComputeExits, ComputeRestarts, RemoveMarker, ReadGeneration, ReadBranch,
           ReadAttachment, WriteMarker, BecomeReady, ComputeStep, ReadStep
  <1>3. ASSUME NEW to \in ComputeStates, compute' = [compute EXCEPT !.state = to]
        PROVE  compute' \in Computes /\ compute'.state = to /\ compute'.sel = compute.sel
    BY <1>1, <1>3 DEF Computes
  <1>4. ASSUME NEW to \in ComputeStates, NEW sel \in Choices, compute' = [state |-> to, sel |-> sel]
        PROVE  compute' \in Computes /\ compute'.state = to /\ compute'.sel = sel
    BY <1>4 DEF Computes
  <1>5. /\ marker' \in Files /\ compute' \in Computes /\ ComputeSound' /\ faults' \in 0..MaxFaults
    <2>1. CASE ComputeRestarts
      <3>1. "booting" \in ComputeStates
        BY DEF ComputeStates
      <3> QED
        BY <1>1, <1>3, <2>1, <3>1 DEF ComputeRestarts, ComputeStep, ComputeSound
    <2>2. CASE RemoveMarker
      <3>1. "clean" \in ComputeStates
        BY DEF ComputeStates
      <3> QED
        BY <1>1, <1>3, <2>2, <3>1, Facts DEF RemoveMarker, ComputeStep, ComputeSound
    <2>3. CASE ReadGeneration
      <3>1. "generation" \in ComputeStates
        BY DEF ComputeStates
      <3>2. Selection(selection.gen, None, None) \in Choices
        BY <1>1, Facts DEF Files, Selections, NoFile, Selection, Choices
      <3> QED
        BY <1>1, <1>4, <2>3, <3>1, <3>2 DEF ReadGeneration, ReadStep, ComputeSound
    <2>4. CASE ReadBranch
      <3>1. "branch" \in ComputeStates
        BY DEF ComputeStates
      <3> DEFINE b == IF selection = NoFile THEN Main ELSE selection.branch
      <3>2. b \in Branches
        BY <1>1, Facts DEF Files, Selections
      <3>3. [compute.sel EXCEPT !.branch = b] \in Choices /\ [compute.sel EXCEPT !.branch = b].branch = b
        BY <1>1, <3>2 DEF Computes, Choices
      <3>4. compute' = [state |-> "branch", sel |-> [compute.sel EXCEPT !.branch = b]]
        BY <2>4 DEF ReadBranch, ReadStep
      <3>5. compute' \in Computes /\ compute'.state = "branch" /\ compute'.sel.branch = b
        BY <3>1, <3>3, <3>4 DEF Computes
      <3> HIDE DEF b
      <3> QED
        BY <1>1, <2>4, <3>2, <3>5 DEF ReadBranch, ReadStep, ComputeSound
    <2>5. CASE ReadAttachment
      <3>1. "chosen" \in ComputeStates
        BY DEF ComputeStates
      <3>2. PICK tl \in Timelines : ReadStep("branch", "chosen", [compute.sel EXCEPT !.tl = tl])
        BY <2>5 DEF ReadAttachment
      <3> DEFINE s == [compute.sel EXCEPT !.tl = tl]
      <3>3. s \in Choices /\ s.tl = tl /\ s.branch = compute.sel.branch
        BY <1>1, <3>2 DEF Computes, Choices
      <3>4. compute' = [state |-> "chosen", sel |-> s]
        BY <3>2 DEF ReadStep
      <3> HIDE DEF s
      <3>5. compute' \in Computes /\ compute'.state = "chosen" /\ compute'.sel = s
        BY <3>1, <3>3, <3>4 DEF Computes
      <3> QED
        BY <1>1, <3>2, <3>3, <3>5 DEF ReadStep, ComputeSound
    <2>6. CASE WriteMarker
      <3>1. "marked" \in ComputeStates
        BY DEF ComputeStates
      <3>2. compute.sel \in Selections
        BY <1>1, <2>6 DEF WriteMarker, ComputeStep, ComputeSound, Computes, Choices, Selections
      <3> QED
        BY <1>1, <1>3, <2>6, <3>1, <3>2, Facts DEF WriteMarker, Applied, ComputeStep, ComputeSound
    <2>7. CASE BecomeReady
      <3>1. "serving" \in ComputeStates
        BY DEF ComputeStates
      <3> QED
        BY <1>1, <1>3, <2>7, <3>1 DEF BecomeReady, ComputeStep, ComputeSound
    <2>8. CASE ComputeExits
      <3>1. "restarting" \in ComputeStates
        BY DEF ComputeStates
      <3>2. compute' \in Computes /\ compute'.state = "restarting"
        BY <1>4, <2>8, <3>1, Facts DEF ComputeExits
      <3> QED
        BY <1>1, <2>8, <3>2, FaultTyped DEF ComputeExits, ComputeSound
    <2> QED
      BY <2>1, <2>2, <2>3, <2>4, <2>5, <2>6, <2>7, <2>8 DEF ComputeNext
  <1>6. OpSound' /\ AdoptSound'
    BY <1>2 DEF TInv, OpSound, AdoptSound
  <1> QED
    BY <1>2, <1>5, <1>6 DEF TInv

\* A step of one reader leaves it in a state of its type.
LEMMA ReaderTyped ==
    ASSUME TInv, NEW r \in Readers, NEW s \in ReaderStates, ReaderStep(r, s),
           s.pc \in {"adopt", "adoptWrite", "adoptSet"} => s.applied \in Selections,
           marker' = marker, selection' \in Files, m' \in Managers, faults' \in 0..MaxFaults
    PROVE  TInv'
  <1>1. /\ reader' = [reader EXCEPT ![r] = s]
        /\ UNCHANGED <<compute, op, lastGen>>
    BY DEF ReaderStep
  <1>2. reader' \in [Readers -> ReaderStates]
    BY <1>1 DEF TInv, Typed
  <1>3. ComputeSound' /\ OpSound'
    BY <1>1 DEF TInv, ComputeSound, OpSound
  <1>4. AdoptSound'
    BY <1>1 DEF TInv, Typed, AdoptSound
  <1> QED
    BY <1>1, <1>2, <1>3, <1>4 DEF TInv, Typed

LEMMA ReaderTStep ==
    ASSUME TInv, NEW r \in Readers,
           \/ \E b \in Branches, tl \in Timelines : Route(r, b, tl)
           \/ Poll(r) \/ ReaderNext(r) \/ ReaderFails(r)
    PROVE  TInv'
  <1> DEFINE s == reader[r]
  <1>1. /\ s \in ReaderStates /\ selection \in Files /\ marker \in Files /\ m \in Managers
        /\ faults \in 0..MaxFaults
        /\ s.pc \in {"adopt", "adoptWrite", "adoptSet"} => s.applied \in Selections
    BY DEF TInv, Typed, AdoptSound
  <1>2. Desired \in Files
    BY <1>1, DesiredTyped, Facts
  <1>3. \A pc \in ReaderPCs :
           /\ [s EXCEPT !.pc = pc] \in ReaderStates
           /\ [s EXCEPT !.pc = pc].pc = pc /\ [s EXCEPT !.pc = pc].applied = s.applied
    BY <1>1 DEF ReaderStates
  <1>4. Ready \in BOOLEAN
    BY DEF Ready
  <1>5. Idle \in ReaderStates /\ Idle.pc = "idle"
    BY IdleTyped DEF Idle
  <1> HIDE DEF s
  <1>6. ASSUME NEW b \in Branches, NEW tl \in Timelines, Route(r, b, tl) PROVE TInv'
    <2> DEFINE o == ~m.transitioning /\ ~m.blocked /\ m.reserved # b
               n == Asking("route", b, tl, o)
    <2>1. o \in BOOLEAN
      OBVIOUS
    <2>2. ReaderStep(r, n) /\ Quietly
      BY <1>6 DEF Route
    <2> HIDE DEF o
    <2>3. n \in ReaderStates /\ n.pc = "status"
      BY <1>2, <2>1, Facts DEF Asking, ReaderStates, ReaderPCs
    <2> HIDE DEF n
    <2> QED
      BY <1>1, <2>2, <2>3, ReaderTyped DEF Quietly
  <1>7. CASE Poll(r)
    <2> DEFINE n == Asking("poll", None, None, TRUE)
    <2>1. ReaderStep(r, n) /\ Quietly
      BY <1>7 DEF Poll
    <2>2. TRUE \in BOOLEAN
      OBVIOUS
    <2>3. n \in ReaderStates /\ n.pc = "status"
      BY <1>2, <2>2, Facts DEF Asking, ReaderStates, ReaderPCs
    <2> HIDE DEF n
    <2> QED
      BY <1>1, <2>1, <2>3, ReaderTyped DEF Quietly
  <1>8. CASE Status(r)
    <2> DEFINE n == [s EXCEPT !.pc = "load", !.ready = Ready]
    <2>1. ReaderStep(r, n) /\ Quietly
      BY <1>8 DEF Status, s
    <2>2. n \in ReaderStates /\ n.pc = "load"
      BY <1>1, <1>4 DEF ReaderStates, ReaderPCs
    <2> HIDE DEF n
    <2> QED
      BY <1>1, <2>1, <2>2, ReaderTyped DEF Quietly
  <1>9. CASE Load(r)
    <2> DEFINE n == [s EXCEPT !.applied = marker]
               a == [n EXCEPT !.pc = "adopt"]
    <2>1. ReaderStep(r, IF Adoptable(n) THEN a ELSE Decided(n)) /\ Quietly
      BY <1>9 DEF Load, s
    <2>2. n \in ReaderStates /\ n.applied = marker
      BY <1>1 DEF ReaderStates
    <2>3. a \in ReaderStates /\ a.applied = marker
      BY <2>2 DEF ReaderStates, ReaderPCs
    <2> HIDE DEF n, a
    <2>4. CASE Adoptable(n)
      <3>1. marker \in Selections
        BY <1>1, <2>2, <2>4 DEF Adoptable, Files
      <3> QED
        BY <1>1, <2>1, <2>3, <2>4, <3>1, ReaderTyped DEF Quietly
    <2>5. CASE ~Adoptable(n)
      BY <1>1, <2>1, <2>2, <2>5, DecidedTyped, ReaderTyped DEF Quietly
    <2> QED
      BY <2>4, <2>5
  <1>10. CASE AdoptLate(r)
    BY <1>1, <1>10, DecidedTyped, ReaderTyped DEF AdoptLate, Quietly, s
  <1>11. CASE AdoptProceeds(r)
    <2> DEFINE n == [s EXCEPT !.pc = "adoptWrite"]
    <2>1. ReaderStep(r, n) /\ Quietly /\ s.pc = "adopt"
      BY <1>11 DEF AdoptProceeds, s
    <2>2. n \in ReaderStates /\ n.applied = s.applied
      BY <1>3 DEF ReaderPCs
    <2> HIDE DEF n
    <2> QED
      BY <1>1, <2>1, <2>2, ReaderTyped DEF Quietly
  <1>12. CASE AdoptWrite(r)
    <2> DEFINE n == [s EXCEPT !.pc = "adoptSet"]
    <2>1. ReaderStep(r, n) /\ s.pc = "adoptWrite" /\ selection' = s.applied
          /\ UNCHANGED <<marker, m, faults>>
      BY <1>12 DEF AdoptWrite, s
    <2>2. n \in ReaderStates /\ n.applied = s.applied
      BY <1>3 DEF ReaderPCs
    <2> HIDE DEF n
    <2> QED
      BY <1>1, <2>1, <2>2, ReaderTyped, Facts
  <1>13. CASE AdoptSet(r)
    <2> DEFINE a == s.applied
               n == [s EXCEPT !.seen = a]
    <2>1. a \in Selections /\ s.pc = "adoptSet"
      BY <1>1, <1>13 DEF AdoptSet, s
    <2>2. a.branch \in Branches /\ a.tl \in Timelines \cup {None} /\ a.gen \in Gens
      BY <2>1 DEF Selections
    <2>3. n \in ReaderStates
      BY <1>1, <2>1, Facts DEF ReaderStates
    <2>4. UNCHANGED <<selection, marker, faults>>
      BY <1>13 DEF AdoptSet
    <2>5. \/ /\ m' = [m EXCEPT !.branch = a.branch, !.att = a.tl, !.atts[a.branch] = a.tl,
                               !.gen = a.gen]
             /\ ReaderStep(r, Decided(n))
          \/ m' = m /\ ReaderStep(r, Decided(s))
      BY <1>13 DEF AdoptSet, s
    <2> HIDE DEF a, n
    <2>6. m' \in Managers
      <3> DEFINE k == [m EXCEPT !.branch = a.branch, !.att = a.tl]
                 t == [k.atts EXCEPT ![a.branch] = a.tl]
      <3>1. k \in Managers
        BY <1>1, <2>2 DEF Managers
      <3>2. t \in [Branches -> Timelines \cup {None}]
        BY <2>2, <3>1 DEF Managers
      <3>3. m' = m \/ m' = [k EXCEPT !.atts = t, !.gen = a.gen]
        BY <2>5
      <3> HIDE DEF k, t
      <3> QED
        BY <1>1, <2>2, <3>1, <3>2, <3>3 DEF Managers
    <2> QED
      BY <1>1, <2>3, <2>4, <2>5, <2>6, DecidedTyped, ReaderTyped
  <1>14. CASE ReaderFails(r)
    BY <1>1, <1>5, <1>14, FaultTyped, ReaderTyped DEF ReaderFails, AfterError
  <1>15. CASE Release(r)
    BY <1>1, <1>5, <1>15, ReaderTyped DEF Release, Quietly
  <1> QED
    BY <1>6, <1>7, <1>8, <1>9, <1>10, <1>11, <1>12, <1>13, <1>14, <1>15 DEF ReaderNext

\* A step of the operation that leaves every part in its type.
LEMMA OpTyped ==
    ASSUME TInv, op' \in Operations, OpSound', reader' = reader, marker' = marker,
           selection' \in Files, compute' \in {compute, Stopped, Started(compute)},
           m' \in Managers, lastGen' \in Gens, faults' \in 0..MaxFaults
    PROVE  TInv'
  <1>1. ComputeSound' /\ compute' \in Computes
    BY DockerTyped DEF TInv, Typed
  <1>2. AdoptSound'
    BY DEF TInv, AdoptSound
  <1> QED
    BY <1>1, <1>2 DEF TInv, Typed

\* The requests.
LEMMA RequestTStep ==
    ASSUME TInv, RequestStart \/ RequestStop \/ \E b \in Branches : RequestSwitch(b)
    PROVE  TInv'
  <1>1. OnlyOp
    BY DEF RequestStart, RequestStop, RequestSwitch
  <1>2. m.branch \in Branches
    BY DEF TInv, Typed, Managers
  <1>3. /\ selection \in Files /\ m \in Managers /\ lastGen \in Gens /\ faults \in 0..MaxFaults
    BY DEF TInv, Typed
  <1>4. op' \in Operations /\ OpSound'
    <2>1. ASSUME NEW k \in {"start", "switch"}, NEW b \in Branches,
                 op' = [NoOp EXCEPT !.pc = "reserve", !.kind = k, !.branch = b]
          PROVE  op' \in Operations /\ OpSound'
      <3>1. op' = [pc |-> "reserve", kind |-> k, branch |-> b, next |-> NoFile, prev |-> NoFile,
                   active |-> FALSE, stable |-> FALSE]
        BY <2>1 DEF NoOp
      <3> QED
        BY <3>1, Facts DEF Operations, OpPCs, OpSound
    <2>2. CASE RequestStop
      <3>1. op' = [pc |-> "begin", kind |-> "stop", branch |-> None, next |-> NoFile,
                   prev |-> NoFile, active |-> FALSE, stable |-> FALSE]
        BY <2>2 DEF NoOp, RequestStop
      <3> QED
        BY <3>1, Facts DEF Operations, OpPCs, OpSound
    <2> QED
      BY <1>2, <2>1, <2>2 DEF RequestStart, RequestSwitch
  <1> QED
    BY <1>1, <1>3, <1>4, OpTyped DEF OnlyOp

\* The steps of the operation and the faults it meets.
LEMMA OpTStep ==
    ASSUME TInv, OpNext \/ OpFaults
    PROVE  TInv'
  <1>1. /\ op \in Operations /\ OpSound /\ selection \in Files /\ marker \in Files /\ m \in Managers
        /\ lastGen \in Gens /\ faults \in 0..MaxFaults
    BY DEF TInv, Typed
  <1>2. \A pc \in OpPCs \ {"idle", "begin", "stop", "finish"} :
           op.kind # "stop" /\ Goto(pc) => op' \in Operations /\ OpSound'
    BY <1>1, GotoTyped
  <1>3. \A pc \in {"idle", "begin", "stop"} : Goto(pc) => op' \in Operations /\ OpSound'
    BY <1>1, GotoTyped DEF OpPCs
  <1>4. (Finish(TRUE) \/ Finish(FALSE)) => op' \in Operations /\ OpSound'
    <2>1. TRUE \in BOOLEAN /\ FALSE \in BOOLEAN
      OBVIOUS
    <2> QED
      BY <1>1, <2>1, FinishTyped
  <1>5. op.kind # "stop" => op.branch \in Branches
    BY <1>1 DEF OpSound
  <1>6. op.pc \in {"reserve", "resolve", "prepare", "snapshot", "status", "write", "start",
                   "waitReady", "waitApplied", "abort", "rewrite", "restart", "verifyReady",
                   "verifyApplied", "commit", "release"} => op.kind # "stop"
    BY <1>1 DEF OpSound
  <1>7. op.next \in Files /\ op.prev \in Files
    BY <1>1 DEF Operations
  <1>8. CASE Reserve
    <2>1. At("reserve") /\ Goto("resolve") /\ OnlyManager
          /\ m' = [m EXCEPT !.reserved = op.branch]
      BY <1>8 DEF Reserve
    <2>2. m' \in Managers
      BY <1>1, <1>5, <1>6, <2>1 DEF Managers, At
    <2> QED
      BY <1>1, <1>2, <1>6, <2>1, <2>2, OpTyped DEF OnlyManager, At, OpPCs
  <1>9. ASSUME NEW tl \in Timelines, Resolve(tl) PROVE TInv'
    <2>1. At("resolve") /\ Goto("prepare") /\ OnlyManager
          /\ m' = [m EXCEPT !.atts[op.branch] = tl]
      BY <1>9 DEF Resolve
    <2>2. m' \in Managers
      BY <1>1, <1>5, <1>6, <2>1 DEF Managers, At
    <2> QED
      BY <1>1, <1>2, <1>6, <2>1, <2>2, OpTyped DEF OnlyManager, At, OpPCs
  <1>10. CASE Prepare
    BY <1>1, <1>3, <1>10, OpTyped DEF Prepare, OnlyOp
  <1>11. CASE HandlerFails
    BY <1>1, <1>2, <1>6, <1>11, OpTyped DEF HandlerFails, OnlyOp, OpPCs
  <1>12. CASE Begin
    <2>1. At("begin") /\ OnlyManager /\ m' = [m EXCEPT !.transitioning = TRUE]
      BY <1>12 DEF Begin
    <2>2. m' \in Managers
      BY <1>1, <2>1 DEF Managers
    <2>3. op' \in Operations /\ OpSound'
      BY <1>2, <1>3, <1>12 DEF Begin, OpPCs
    <2> QED
      BY <1>1, <2>1, <2>2, <2>3, OpTyped DEF OnlyManager
  <1>13. CASE Snapshot
    <2> DEFINE n == IF op.kind = "start" THEN StartNext
                    ELSE Selection(lastGen + 1, op.branch, m.atts[op.branch])
    <2>1. /\ op' = [op EXCEPT !.pc = "status", !.prev = Desired, !.next = n]
          /\ op.kind # "stop" /\ lastGen' = lastGen + 1 /\ lastGen < MaxGen
          /\ UNCHANGED <<selection, marker, compute, m, reader, faults>>
      BY <1>6, <1>13 DEF Snapshot, At
    <2>2. lastGen' \in Gens /\ lastGen + 1 \in Gens
      BY <1>1, <2>1, BoundAssumption DEF Gens
    <2>3. /\ m.branch \in Branches /\ m.att \in Timelines \cup {None}
          /\ \A b \in Branches : m.atts[b] \in Timelines \cup {None}
      BY <1>1 DEF Managers
    <2>4. n \in Files
      BY <1>5, <2>1, <2>2, <2>3 DEF StartNext, Selection, Selections, Files
    <2>5. Desired \in Files
      BY <1>1, DesiredTyped, Facts
    <2> HIDE DEF n
    <2>6. op' \in Operations /\ OpSound'
      BY <1>1, <2>1, <2>4, <2>5 DEF Operations, OpPCs, OpSound
    <2> QED
      BY <1>1, <2>1, <2>2, <2>6, OpTyped
  <1>14. CASE SnapshotFails
    BY <1>1, <1>4, <1>14, OpTyped DEF SnapshotFails, OnlyOp
  <1>15. CASE QueryRuntime
    <2> DEFINE pc == IF op.kind = "start" THEN "write" ELSE "stop"
    <2>1. op' = [op EXCEPT !.pc = pc, !.active = Active] /\ OnlyOp /\ op.kind # "stop"
      BY <1>6, <1>15 DEF QueryRuntime, At
    <2>2. Active \in BOOLEAN
      BY DEF Active
    <2>3. pc \in OpPCs
      BY DEF OpPCs
    <2> HIDE DEF pc
    <2>4. op' \in Operations /\ OpSound'
      BY <1>1, <2>1, <2>2, <2>3 DEF Operations, OpSound
    <2> QED
      BY <1>1, <2>1, <2>4, OpTyped DEF OnlyOp
  <1>16. CASE QueryRuntimeFails
    BY <1>1, <1>4, <1>16, FaultTyped, OpTyped DEF QueryRuntimeFails
  <1>17. CASE WriteSelection
    <2>1. op' \in Operations /\ OpSound'
      BY <1>2, <1>3, <1>6, <1>17 DEF WriteSelection, At, OpPCs
    <2> QED
      BY <1>1, <1>7, <1>17, <2>1, OpTyped DEF WriteSelection
  <1>18. Revive /\ op.kind # "stop" => op' \in Operations /\ OpSound'
    BY <1>1, ReviveTyped
  <1>19. CASE WriteSelectionFails
    <2>1. op' \in Operations /\ OpSound'
      BY <1>4, <1>6, <1>18, <1>19 DEF WriteSelectionFails, At
    <2> QED
      BY <1>1, <1>19, <2>1, FaultTyped, OpTyped DEF WriteSelectionFails
  <1>20. CASE StopCompute
    <2>1. op' \in Operations /\ OpSound'
      <3>1. op.kind \in {"start", "switch", "stop"}
        BY <1>1 DEF Operations
      <3>2. \/ op.kind = "start" /\ Goto("start")
            \/ op.kind = "switch" /\ Goto("write")
            \/ Finish(TRUE)
        BY <1>20, <3>1 DEF StopCompute
      <3> QED
        BY <1>2, <1>4, <3>2 DEF OpPCs
    <2> QED
      BY <1>1, <1>20, <2>1, OpTyped DEF StopCompute
  <1>21. CASE StopComputeFails
    BY <1>1, <1>4, <1>21, FaultTyped, OpTyped DEF StopComputeFails, Failing
  <1>22. CASE StartCompute
    BY <1>1, <1>2, <1>6, <1>22, OpTyped DEF StartCompute, At, OpPCs
  <1>23. CASE StartComputeFails
    BY <1>1, <1>2, <1>6, <1>23, FaultTyped, OpTyped DEF StartComputeFails, Failing, At, OpPCs
  <1>24. CASE WaitReady
    BY <1>1, <1>2, <1>6, <1>24, OpTyped DEF WaitReady, OnlyOp, OpPCs
  <1>25. CASE WaitAgain
    BY <1>1, <1>2, <1>6, <1>25, OpTyped DEF WaitAgain, OnlyOp, At, OpPCs
  <1>26. CASE WaitApplied
    BY <1>1, <1>2, <1>6, <1>26, OpTyped DEF WaitApplied, OnlyOp, At, OpPCs
  <1>27. CASE WaitFails
    BY <1>1, <1>2, <1>6, <1>27, OpTyped DEF WaitFails, OnlyOp, OpPCs
  <1>28. ASSUME NEW n \in {NoFile}, NEW st \in BOOLEAN, op.kind # "stop",
                op' = [op EXCEPT !.pc = "rewrite", !.stable = st, !.next = n]
         PROVE  op' \in Operations /\ OpSound'
    BY <1>1, <1>28, Facts DEF Operations, OpPCs, OpSound
  <1>29. CASE Abort
    <2>1. TRUE \in BOOLEAN
      OBVIOUS
    <2>2. op' \in Operations /\ OpSound'
      BY <1>4, <1>6, <1>28, <1>29, <2>1 DEF Abort, At
    <2> QED
      BY <1>1, <1>29, <2>2, OpTyped DEF Abort
  <1>30. CASE AbortFails
    <2>1. ASSUME op' = [op EXCEPT !.pc = "rewrite", !.next = NoFile], op.kind # "stop"
          PROVE  op' \in Operations /\ OpSound'
      BY <1>1, <2>1, Facts DEF Operations, OpPCs, OpSound
    <2>2. op' \in Operations /\ OpSound'
      BY <1>4, <1>6, <1>30, <2>1 DEF AbortFails, At
    <2> QED
      BY <1>1, <1>30, <2>2, FaultTyped, OpTyped DEF AbortFails, Failing
  <1>31. CASE RewriteSelection
    <2>1. op' \in Operations /\ OpSound'
      BY <1>4, <1>6, <1>18, <1>31 DEF RewriteSelection, At
    <2> QED
      BY <1>1, <1>7, <1>31, <2>1, OpTyped DEF RewriteSelection
  <1>32. CASE RewriteSelectionFails
    BY <1>1, <1>4, <1>32, FaultTyped, OpTyped DEF RewriteSelectionFails
  <1>33. CASE RestartCompute
    BY <1>1, <1>2, <1>6, <1>33, OpTyped DEF RestartCompute, At, OpPCs
  <1>34. CASE RestartComputeFails
    BY <1>1, <1>4, <1>34, FaultTyped, OpTyped DEF RestartComputeFails, Failing
  <1>35. CASE VerifyApplied
    BY <1>1, <1>4, <1>35, OpTyped DEF VerifyApplied, OnlyOp
  <1>36. CASE VerifyFails
    BY <1>1, <1>4, <1>36, OpTyped DEF VerifyFails, OnlyOp
  <1>37. CASE Commit
    <2> DEFINE n == op.next
               t == [m.atts EXCEPT ![m.branch] = n.tl]
               k == [m EXCEPT !.att = n.tl, !.atts = t]
    <2>1. n.tl \in Timelines \cup {None} /\ n.gen \in Gens
      BY <1>7, Facts DEF Files, Selections, NoFile
    <2>2. m.branch \in Branches /\ op.branch \in Branches
      BY <1>1, <1>5, <1>6, <1>37 DEF Managers, Commit, At
    <2>3. \/ m' = [k EXCEPT !.gen = n.gen]
          \/ m' = [m EXCEPT !.branch = op.branch, !.att = n.tl, !.gen = n.gen]
      BY <1>37 DEF Commit
    <2> HIDE DEF n
    <2>4. t \in [Branches -> Timelines \cup {None}]
      BY <1>1, <2>1, <2>2 DEF Managers
    <2> HIDE DEF t
    <2>5. k \in Managers
      BY <1>1, <2>1, <2>4 DEF Managers
    <2> HIDE DEF k
    <2>6. m' \in Managers
      BY <1>1, <2>1, <2>2, <2>3, <2>5 DEF Managers
    <2> QED
      BY <1>1, <1>4, <1>37, <2>6, OpTyped DEF Commit, OnlyManager
  <1>38. CASE FinishTransition
    <2>1. Blocks \in BOOLEAN
      BY DEF Blocks
    <2>2. m' = [m EXCEPT !.transitioning = FALSE, !.blocked = Blocks] /\ OnlyManager
      BY <1>38 DEF FinishTransition
    <2>3. m' \in Managers
      BY <1>1, <2>1, <2>2 DEF Managers
    <2>4. op' \in Operations /\ OpSound'
      BY <1>2, <1>3, <1>38 DEF FinishTransition, OpPCs
    <2> QED
      BY <1>1, <2>2, <2>3, <2>4, OpTyped DEF OnlyManager
  <1>39. CASE ReleaseReservation
    <2>1. m' \in Managers
      BY <1>1, <1>39 DEF Managers, ReleaseReservation
    <2>2. op' \in Operations /\ OpSound'
      BY <1>39, NoOpTyped DEF ReleaseReservation, OpSound, NoOp
    <2> QED
      BY <1>1, <1>39, <2>1, <2>2, OpTyped DEF ReleaseReservation, OnlyManager
  <1> QED
    BY <1>8, <1>9, <1>10, <1>11, <1>12, <1>13, <1>14, <1>15, <1>16, <1>17, <1>19, <1>20, <1>21,
       <1>22, <1>23, <1>24, <1>25, <1>26, <1>27, <1>29, <1>30, <1>31, <1>32, <1>33, <1>34, <1>35,
       <1>36, <1>37, <1>38, <1>39 DEF OpNext, OpFaults

LEMMA TypedInit == Init => TInv
  <1> SUFFICES ASSUME Init PROVE TInv
    OBVIOUS
  <1>1. selection \in Files
    <2>1. \A b \in Branches, tl \in Timelines : Selection(0, b, tl) \in Selections
      BY Facts DEF Selection, Selections
    <2> QED
      BY <2>1, Facts DEF Init, Files
  <1>2. compute \in Computes /\ ComputeSound
    BY Facts DEF Init, Computes, ComputeStates, ComputeSound
  <1>3. m \in Managers
    BY <1>1, LoadedTyped DEF Init
  <1>4. op \in Operations /\ OpSound
    BY NoOpTyped DEF Init, OpSound, NoOp
  <1>5. reader \in [Readers -> ReaderStates] /\ AdoptSound
    BY IdleTyped DEF Init, AdoptSound, Idle
  <1>6. marker \in Files /\ lastGen \in Gens /\ faults \in 0..MaxFaults
    BY Facts DEF Init
  <1> QED
    BY <1>1, <1>2, <1>3, <1>4, <1>5, <1>6 DEF TInv, Typed

LEMMA TypedStep == TInv /\ [Next]_vars => TInv'
  <1> SUFFICES ASSUME TInv, [Next]_vars PROVE TInv'
    OBVIOUS
  <1>1. CASE Restart
    <2>1. UNCHANGED <<selection, marker, compute, lastGen>> /\ Fault /\ op' = NoOp
          /\ reader' = [r \in Readers |-> Idle]
      BY <1>1 DEF Restart
    <2>2. m' \in Managers
      <3>1. m' \in {Loaded(selection), Fresh}
        BY <1>1 DEF Restart
      <3> QED
        BY <3>1, LoadedTyped DEF TInv, Typed
    <2>3. op' \in Operations /\ OpSound'
      BY <2>1, NoOpTyped DEF OpSound, NoOp
    <2>4. reader' \in [Readers -> ReaderStates] /\ AdoptSound'
      BY <2>1, IdleTyped DEF AdoptSound, Idle
    <2>5. ComputeSound' /\ faults' \in 0..MaxFaults
      BY <2>1, FaultTyped DEF TInv, Typed, ComputeSound
    <2> QED
      BY <2>1, <2>2, <2>3, <2>4, <2>5 DEF TInv, Typed
  <1>2. CASE UNCHANGED vars
    BY <1>2 DEF vars, TInv, Typed, ComputeSound, OpSound, AdoptSound
  <1> QED
    BY <1>1, <1>2, ComputeTStep, ReaderTStep, RequestTStep, OpTStep DEF Next

LEMMA TypeInvariant == Spec => []TInv
  BY TypedInit, TypedStep, PTL DEF Spec

\* The files, the container, the manager and the locals of every goroutine keep their
\* types in every installation, also while somebody adopts and after any restart.
THEOREM TypeCorrect == Spec => []TypeOK
  <1>1. TInv => TypeOK
    BY TypedOK DEF TInv
  <1> QED
    BY <1>1, TypeInvariant, PTL

-----------------------------------------------------------------------------
(* Where every primary is known: a selection was on disk at the first start. *)

\* Nobody has anything to adopt: an attachment is known wherever one is needed.
AllKnown ==
    /\ m.att \in Timelines /\ selection.tl \in Timelines
    /\ op.kind = "switch" /\ op.pc \in {"prepare", "begin", "snapshot"} =>
          m.atts[op.branch] \in Timelines
    /\ \A r \in Readers :
          /\ reader[r].pc \in {"idle", "status", "load", "held"}
          /\ reader[r].pc # "idle" => reader[r].kind = "route"
          /\ reader[r].pc \in {"status", "load"} => reader[r].seen.tl # None

Deciding == {"status", "write", "stop", "start", "waitReady", "waitApplied", "abort", "commit"}
Undoing == {"rewrite", "restart", "verifyReady", "verifyApplied"}
InTransition == {"snapshot", "finish"} \cup Deciding \cup Undoing

\* The transition flag is up exactly during the transition; until its outcome is
\* known the manager keeps the previous primary, and the operation remembers it.
TransitionSound ==
    /\ m.transitioning <=> op.pc \in InTransition
    /\ op.kind # "stop" /\ op.pc \in Deciding \cup Undoing => op.prev = Desired
    /\ op.kind # "stop" /\ op.pc \in Deciding =>
          /\ op.next.tl \in Timelines
          /\ op.next.branch = IF op.kind = "start" THEN m.branch ELSE op.branch
    /\ op.pc \in {"reserve", "resolve", "prepare", "begin", "snapshot"} \cup Deciding => ~op.stable

\* What the compute has read since it booted is what the selection says.
ReadsAgree ==
    /\ compute.state \in {"generation", "branch", "chosen", "marked", "serving"} =>
          compute.sel.gen = selection.gen
    /\ compute.state \in {"branch", "chosen", "marked", "serving"} =>
          compute.sel.branch = selection.branch
    /\ compute.state \in {"chosen", "marked", "serving"} => compute.sel.tl = selection.tl

\* How the selection and the container follow the operation's way.
SelectionSound ==
    /\ op.pc \in {"start", "waitReady", "waitApplied", "commit"} => selection = op.next
    /\ op.pc = "stop" /\ op.kind = "start" => selection = op.next
    /\ op.pc = "restart" => ~Active
    /\ op.pc = "rewrite" /\ op.stable => ~Active
    /\ op.pc = "write" /\ op.kind = "switch" => ~Active
    /\ op.pc \in {"verifyReady", "verifyApplied"} => ReadsAgree
    /\ op.pc = "verifyApplied" => marker \in {NoFile, selection}
    /\ op.pc = "finish" /\ op.stable /\ Active => Matches(selection, Desired)
    /\ ~m.transitioning /\ ~m.blocked /\ Active => Matches(selection, Desired)

\* While a route may still be granted or is held, nothing it was judged by changes.
RouteSound(s) ==
    s.pc = "held" \/ (s.pc \in {"status", "load"} /\ s.open) =>
        /\ ~m.transitioning /\ ~m.blocked /\ s.branch # m.reserved
        /\ s.pc # "held" => s.seen = Desired
        /\ s.pc = "load" /\ s.ready => Active
        /\ s.pc = "held" /\ Primary(s) =>
              /\ Active /\ m.att = s.tl
              /\ compute.state \in {"chosen", "marked", "serving"} => compute.sel.tl = s.tl
RoutesSound == \A r \in Readers : RouteSound(reader[r])

IInv == TInv /\ ~Unadopted /\ AllKnown /\ TransitionSound /\ SelectionSound /\ RoutesSound

\* What the operation's two ways of going on leave in its fields.
LEMMA GotoFields ==
    ASSUME op \in Operations, NEW pc, Goto(pc)
    PROVE  /\ op'.pc = pc
           /\ op'.kind = op.kind /\ op'.branch = op.branch /\ op'.next = op.next
           /\ op'.prev = op.prev /\ op'.active = op.active /\ op'.stable = op.stable
  BY DEF Goto, Operations

LEMMA FinishFields ==
    ASSUME NEW stable, Finish(stable)
    PROVE  op'.pc = "finish" /\ op'.kind = op.kind /\ op'.branch = op.branch /\ op'.stable = stable
  BY DEF Finish, NoOp

\* Nothing can be adopted, so no reader has anything but a route.
LEMMA NoAdoption ==
    ASSUME IInv
    PROVE  /\ m.att \in Timelines /\ m.att # None /\ selection \in Selections
           /\ \A r \in Readers : reader[r].pc = "idle" \/ reader[r].kind = "route"
           /\ MayBegin \/ MayReserve => \A r \in Readers : reader[r].pc = "idle"
  BY Facts DEF IInv, AllKnown, TInv, Typed, Files, NoFile, MayBegin, MayReserve, RouteLocked

\* Routes and transitions exclude each other.
LEMMA RoutesInTransition ==
    ASSUME RoutesSound, m.transitioning, m'.transitioning, reader' = reader
    PROVE  RoutesSound'
  BY DEF RoutesSound, RouteSound

LEMMA RoutesIdle ==
    ASSUME \A r \in Readers : reader[r].pc = "idle", reader' = reader
    PROVE  RoutesSound'
  BY DEF RoutesSound, RouteSound

\* A selection that matches has the manager's timeline.
LEMMA StableTimeline ==
    ASSUME SelectionSound, ~m.transitioning, ~m.blocked, Active
    PROVE  selection.tl = m.att
  BY DEF SelectionSound, Matches, Desired, Selection

\* The compute's steps: it reads the selection, and what it tells is what it has read.
LEMMA ComputeKeeps ==
    ASSUME IInv, ComputeNext \/ ComputeExits
    PROVE  AllKnown' /\ TransitionSound' /\ SelectionSound' /\ RoutesSound'
  <1>1. UNCHANGED <<selection, m, op, reader, lastGen>>
    BY DEF ComputeNext, ComputeExits, ComputeRestarts, RemoveMarker, ReadGeneration, ReadBranch,
           ReadAttachment, WriteMarker, BecomeReady, ComputeStep, ReadStep
  <1>2. AllKnown' /\ TransitionSound'
    BY <1>1 DEF IInv, AllKnown, TransitionSound, Desired
  <1>3. /\ compute \in Computes /\ ComputeSound /\ SelectionSound /\ RoutesSound
    BY DEF IInv, TInv, Typed
  <1>4. selection \in Selections /\ selection # NoFile /\ selection.tl \in Timelines
    BY NoAdoption, Facts DEF IInv, AllKnown
  <1>5. None \notin Timelines
    BY Facts
  \* One case for each thing a step may do to the choice and to the marker.
  <1>6. Active /\ Active'
    BY <1>3 DEF ComputeNext, ComputeExits, ComputeRestarts, RemoveMarker, ReadGeneration,
       ReadBranch, ReadAttachment, WriteMarker, BecomeReady, ComputeStep, ReadStep, Active, Computes
  <1>7. ReadsAgree => ReadsAgree'
    <2> SUFFICES ASSUME ReadsAgree PROVE ReadsAgree'
      OBVIOUS
    <2>1. CASE ComputeRestarts
      BY <1>1, <1>3, <2>1 DEF ComputeRestarts, ComputeStep, ReadsAgree, Computes
    <2>2. CASE RemoveMarker
      BY <1>1, <1>3, <2>2 DEF RemoveMarker, ComputeStep, ReadsAgree, Computes
    <2>3. CASE ReadGeneration
      BY <1>1, <1>3, <2>3 DEF ReadGeneration, ReadStep, ReadsAgree, Selection
    <2>4. CASE ReadBranch
      BY <1>1, <1>3, <1>4, <2>4 DEF ReadBranch, ReadStep, ReadsAgree, Computes, Choices
    <2>5. CASE ReadAttachment
      BY <1>1, <1>3, <1>4, <1>5, <2>5 DEF ReadAttachment, ReadStep, ReadsAgree, Computes, Choices
    <2>6. CASE WriteMarker
      BY <1>1, <1>3, <2>6 DEF WriteMarker, ComputeStep, ReadsAgree, Computes
    <2>7. CASE BecomeReady
      BY <1>1, <1>3, <2>7 DEF BecomeReady, ComputeStep, ReadsAgree, Computes
    <2>8. CASE ComputeExits
      BY <1>1, <1>3, <2>8 DEF ComputeExits, ReadsAgree
    <2> QED
      BY <2>1, <2>2, <2>3, <2>4, <2>5, <2>6, <2>7, <2>8 DEF ComputeNext
  <1>8. ReadsAgree /\ marker \in {NoFile, selection} => marker' \in {NoFile, selection}
    <2> SUFFICES ASSUME ReadsAgree, marker \in {NoFile, selection}
                 PROVE  marker' \in {NoFile, selection}
      OBVIOUS
    <2>1. CASE WriteMarker
      <3>1. compute.sel \in Choices /\ marker' = compute.sel /\ compute.state = "chosen"
        BY <1>3, <2>1 DEF WriteMarker, Applied, ComputeStep, Computes
      <3>2. compute.sel = selection
        BY <1>4, <3>1 DEF ReadsAgree, Choices, Selections
      <3> QED
        BY <3>1, <3>2
    <2>2. CASE RemoveMarker
      BY <2>2 DEF RemoveMarker
    <2>3. CASE ~WriteMarker /\ ~RemoveMarker
      BY <2>3 DEF ComputeNext, ComputeExits, ComputeRestarts, ReadGeneration, ReadBranch,
                  ReadAttachment, BecomeReady, ReadStep
    <2> QED
      BY <2>1, <2>2, <2>3
  <1>9. SelectionSound'
    <2>1. Desired' = Desired
      BY <1>1 DEF Desired
    <2> QED
      BY <1>1, <1>3, <1>6, <1>7, <1>8, <2>1 DEF SelectionSound
  <1>10. RoutesSound'
    <2> SUFFICES ASSUME NEW r \in Readers PROVE RouteSound(reader[r])'
      BY <1>1 DEF RoutesSound
    <2> DEFINE s == reader[r]
    <2>1. RouteSound(s) /\ reader'[r] = s
      BY <1>1, <1>3 DEF RoutesSound
    <2>2. s.pc = "held" /\ Primary(s) =>
             (compute'.state \in {"chosen", "marked", "serving"} => compute'.sel.tl = s.tl)
      <3> SUFFICES ASSUME s.pc = "held", Primary(s),
                          compute'.state \in {"chosen", "marked", "serving"}
                   PROVE  compute'.sel.tl = s.tl
        OBVIOUS
      <3>1. selection.tl = s.tl
        BY <1>3, <2>1, StableTimeline DEF RouteSound
      <3>2. CASE ReadAttachment
        BY <1>3, <1>4, <1>5, <3>1, <3>2 DEF ReadAttachment, ReadStep, Computes, Choices
      <3>3. CASE WriteMarker \/ BecomeReady
        <4>1. compute'.sel = compute.sel /\ compute.state \in {"chosen", "marked"}
          BY <1>3, <3>3 DEF WriteMarker, BecomeReady, ComputeStep, Computes
        <4> QED
          BY <2>1, <4>1 DEF RouteSound
      <3>4. CASE ComputeRestarts \/ RemoveMarker \/ ReadGeneration \/ ReadBranch \/ ComputeExits
        BY <1>3, <3>4 DEF ComputeRestarts, RemoveMarker, ReadGeneration, ReadBranch, ComputeExits,
           ComputeStep, ReadStep, Computes
      <3> QED
        BY <3>2, <3>3, <3>4 DEF ComputeNext
    <2>3. Desired' = Desired
      BY <1>1 DEF Desired
    <2> HIDE DEF s
    <2>4. RouteSound(s)'
      BY <1>1, <1>6, <2>1, <2>2, <2>3 DEF RouteSound, Primary, s
    <2> QED
      BY <2>4 DEF s
  <1> QED
    BY <1>2, <1>9, <1>10

\* A step of one reader that adopts nothing and leaves it in a sound state.
LEMMA ReaderKeepsIf ==
    ASSUME IInv, NEW r \in Readers, NEW s, ReaderStep(r, s), Quietly \/ UNCHANGED <<selection, marker, m>>,
           s.pc \in {"idle", "status", "load", "held"}, s.pc # "idle" => s.kind = "route",
           s.pc \in {"status", "load"} => s.seen.tl # None, RouteSound(s)
    PROVE  AllKnown' /\ TransitionSound' /\ SelectionSound' /\ RoutesSound'
  <1>1. UNCHANGED <<selection, marker, compute, m, op>> /\ reader' = [reader EXCEPT ![r] = s]
    BY DEF ReaderStep, Quietly
  <1>2. \A q \in Readers : reader'[q] = IF q = r THEN s ELSE reader[q]
    BY <1>1 DEF IInv, TInv, Typed
  <1>3. AllKnown'
    BY <1>1, <1>2 DEF IInv, AllKnown
  <1>4. Desired' = Desired /\ Active' = Active /\ ReadsAgree' = ReadsAgree
    BY <1>1 DEF Desired, Active, ReadsAgree
  <1>5. TransitionSound' /\ SelectionSound'
    BY <1>1, <1>4 DEF IInv, TransitionSound, SelectionSound
  <1>6. RoutesSound'
    <2> SUFFICES ASSUME NEW q \in Readers PROVE RouteSound(reader[q])'
      BY DEF RoutesSound
    <2>1. CASE q = r
      <3>1. reader'[q] = s
        BY <1>2, <2>1
      <3> QED
        BY <1>1, <1>4, <3>1 DEF RouteSound, Primary
    <2>2. CASE q # r
      <3>1. reader'[q] = reader[q] /\ RouteSound(reader[q])
        BY <1>2, <2>2 DEF IInv, RoutesSound
      <3> QED
        BY <1>1, <1>4, <3>1 DEF RouteSound, Primary
    <2> QED
      BY <2>1, <2>2
  <1> QED
    BY <1>3, <1>5, <1>6

\* The readers: a route is copied, judged and granted while routeMu keeps the
\* transitions out.
LEMMA ReaderKeeps ==
    ASSUME IInv, NEW r \in Readers,
           \/ \E b \in Branches, tl \in Timelines : Route(r, b, tl)
           \/ Poll(r) \/ ReaderNext(r) \/ ReaderFails(r)
    PROVE  AllKnown' /\ TransitionSound' /\ SelectionSound' /\ RoutesSound'
  <1> DEFINE s == reader[r]
  <1>1. /\ s \in ReaderStates /\ RouteSound(s) /\ m \in Managers /\ marker \in Files
        /\ compute \in Computes /\ ComputeSound /\ SelectionSound
        /\ s.pc \in {"idle", "status", "load", "held"}
        /\ s.pc # "idle" => s.kind = "route"
        /\ s.pc \in {"status", "load"} => s.seen.tl # None
    BY DEF IInv, TInv, Typed, AllKnown, RoutesSound
  <1>2. m.att # None /\ Desired.tl = m.att
    BY NoAdoption DEF Desired, Selection
  <1>3. Idle.pc = "idle" /\ RouteSound(Idle)
    BY DEF Idle, RouteSound
  <1>4. ASSUME NEW b \in Branches, NEW tl \in Timelines, Route(r, b, tl)
        PROVE  AllKnown' /\ TransitionSound' /\ SelectionSound' /\ RoutesSound'
    <2> DEFINE o == ~m.transitioning /\ ~m.blocked /\ m.reserved # b
               n == Asking("route", b, tl, o)
    <2>1. ReaderStep(r, n) /\ Quietly
      BY <1>4 DEF Route
    <2>2. /\ n.pc = "status" /\ n.kind = "route" /\ n.branch = b /\ n.open = o
          /\ n.seen = Desired
      BY DEF Asking
    <2> HIDE DEF n
    <2>3. RouteSound(n)
      BY <2>2 DEF RouteSound
    <2> QED
      BY <1>2, <2>1, <2>2, <2>3, ReaderKeepsIf
  <1>5. ~Poll(r) /\ ~AdoptLate(r) /\ ~AdoptProceeds(r) /\ ~AdoptWrite(r) /\ ~AdoptSet(r)
    BY <1>1, <1>2 DEF Poll, AdoptLate, AdoptProceeds, AdoptWrite, AdoptSet
  <1>6. CASE Status(r)
    <2> DEFINE n == [s EXCEPT !.pc = "load", !.ready = Ready]
    <2>1. ReaderStep(r, n) /\ Quietly /\ s.pc = "status"
      BY <1>6 DEF Status
    <2>2. /\ n.pc = "load" /\ n.kind = s.kind /\ n.branch = s.branch /\ n.tl = s.tl
          /\ n.seen = s.seen /\ n.open = s.open /\ n.ready = Ready
      BY <1>1 DEF ReaderStates
    <2>3. Ready => Active
      BY DEF Ready, Active
    <2> HIDE DEF n
    <2>4. RouteSound(n)
      BY <1>1, <2>1, <2>2, <2>3 DEF RouteSound
    <2> QED
      BY <1>1, <2>1, <2>2, <2>4, ReaderKeepsIf
  <1>7. CASE Load(r)
    <2> DEFINE n == [s EXCEPT !.applied = marker]
               a == [n EXCEPT !.pc = "adopt"]
    <2>1. ReaderStep(r, IF Adoptable(n) THEN a ELSE Decided(n)) /\ Quietly /\ s.pc = "load"
      BY <1>7 DEF Load
    <2>2. /\ n.pc = "load" /\ n.kind = s.kind /\ n.branch = s.branch /\ n.tl = s.tl
          /\ n.seen = s.seen /\ n.open = s.open /\ n.ready = s.ready /\ n.applied = marker
      <3>1. s \in ReaderStates
        BY <1>1
      <3> HIDE DEF s
      <3>2. /\ n.pc = s.pc /\ n.kind = s.kind /\ n.branch = s.branch /\ n.tl = s.tl
            /\ n.seen = s.seen /\ n.open = s.open /\ n.ready = s.ready
        BY <3>1 DEF ReaderStates
      <3>3. n.applied = marker
        BY <3>1 DEF ReaderStates
      <3> QED
        BY <2>1, <3>2, <3>3 DEF s
    <2> HIDE DEF n, a
    <2>3. ~Adoptable(n)
      BY <1>1, <2>1, <2>2 DEF Adoptable
    <2>4. ReaderStep(r, Decided(n)) /\ Quietly
      BY <2>1, <2>3
    <2>5. CASE ~Granted(n)
      <3>1. Decided(n) = Idle
        BY <2>5 DEF Decided
      <3> QED
        BY <1>3, <2>4, <3>1, ReaderKeepsIf
    <2>6. CASE Granted(n)
      <3> DEFINE h == Decided(n)
      <3>1. h = [pc |-> "held", kind |-> "route", branch |-> s.branch, tl |-> s.tl,
                 seen |-> NoFile, open |-> FALSE, ready |-> FALSE, applied |-> marker]
        BY <2>2, <2>6 DEF Decided, Idle
      <3>2. /\ h.pc = "held" /\ h.kind = "route" /\ h.branch = s.branch /\ h.tl = s.tl
            /\ h.applied = marker
        BY <3>1
      <3>3. /\ ~m.transitioning /\ ~m.blocked /\ s.branch # m.reserved /\ s.seen = Desired
            /\ s.ready => Active
            /\ marker.tl = m.att /\ marker # NoFile
            /\ marker.tl = s.tl => s.ready
        BY <1>1, <1>2, <2>1, <2>2, <2>6 DEF RouteSound, Granted, Matches, Primary
      <3>4. compute.state \in {"chosen", "marked", "serving"} => compute.sel = marker
        BY <1>1, <3>3 DEF ComputeSound
      <3> HIDE DEF h
      <3>5. RouteSound(h)
        BY <3>2, <3>3, <3>4 DEF RouteSound, Primary
      <3> QED
        BY <2>4, <3>2, <3>5, ReaderKeepsIf DEF h
    <2> QED
      BY <2>5, <2>6
  <1>8. CASE ReaderFails(r)
    BY <1>3, <1>8, ReaderKeepsIf DEF ReaderFails, AfterError
  <1>9. CASE Release(r)
    BY <1>3, <1>9, ReaderKeepsIf DEF Release
  <1> QED
    BY <1>4, <1>5, <1>6, <1>7, <1>8, <1>9 DEF ReaderNext

\* An operation's step that neither begins nor ends a transition nor commits.
LEMMA MidStep ==
    ASSUME IInv, m' = m, reader' = reader, op.pc \in InTransition,
           op'.pc \in InTransition \ {"snapshot"}, op'.kind = op.kind, op'.branch = op.branch,
           op'.pc \in Deciding \cup Undoing => op.pc \in Deciding \cup Undoing /\ op'.prev = op.prev,
           op'.pc \in Deciding =>
              op.pc \in Deciding /\ op'.next = op.next /\ op'.stable = op.stable,
           selection'.tl \in Timelines, SelectionSound'
    PROVE  AllKnown' /\ TransitionSound' /\ SelectionSound' /\ RoutesSound'
  <1>1. Desired' = Desired
    BY DEF Desired
  <1>2. m.transitioning
    BY DEF IInv, TransitionSound
  <1>3. RoutesSound'
    BY <1>2, RoutesInTransition DEF IInv
  <1>4. AllKnown'
    BY DEF IInv, AllKnown, InTransition, Deciding, Undoing
  <1>5. TransitionSound'
    BY <1>1 DEF IInv, TransitionSound, InTransition, Deciding, Undoing
  <1> QED
    BY <1>3, <1>4, <1>5

\* The steps between the manager's snapshot and the outcome: the selection, the
\* container and the operation go their way together.
LEMMA MidKeeps ==
    ASSUME IInv,
           \/ SnapshotFails \/ QueryRuntime \/ WriteSelection \/ StopCompute \/ StartCompute
           \/ WaitReady \/ WaitAgain \/ WaitApplied \/ WaitFails \/ Abort \/ RewriteSelection
           \/ RestartCompute \/ VerifyApplied \/ VerifyFails \/ OpFaults
    PROVE  AllKnown' /\ TransitionSound' /\ SelectionSound' /\ RoutesSound'
  <1>1. /\ op \in Operations /\ OpSound /\ compute \in Computes /\ ComputeSound
        /\ SelectionSound /\ TransitionSound
    BY DEF IInv, TInv, Typed
  <1>2. /\ op.kind \in {"start", "switch", "stop"} /\ op.pc \in OpPCs
    BY <1>1 DEF Operations
  <1>3. selection.tl \in Timelines /\ selection \in Selections /\ m.att \in Timelines
    BY NoAdoption DEF IInv, AllKnown
  <1>4. op.pc \notin {"idle", "begin", "stop", "finish"} => op.kind # "stop"
    BY <1>1 DEF OpSound
  <1>5. Stopped.state = "exited"
    BY DEF Stopped
  <1>6. \A pc : Goto(pc) =>
           /\ op'.pc = pc
           /\ op'.kind = op.kind /\ op'.branch = op.branch /\ op'.next = op.next
           /\ op'.prev = op.prev /\ op'.active = op.active /\ op'.stable = op.stable
    BY <1>1, GotoFields
  <1>7. \A st : Finish(st) =>
           op'.pc = "finish" /\ op'.kind = op.kind /\ op'.branch = op.branch /\ op'.stable = st
    BY FinishFields
  \* An outcome that is not certain leaves nothing to show.
  <1>8. ASSUME m' = m, reader' = reader, op.pc \in InTransition, Finish(FALSE),
               selection' \in {selection, op.prev}, op.pc # "rewrite" => selection' = selection
        PROVE  AllKnown' /\ TransitionSound' /\ SelectionSound' /\ RoutesSound'
    <2>1. op'.pc = "finish" /\ op'.kind = op.kind /\ op'.branch = op.branch /\ ~op'.stable
      BY <1>7, <1>8
    <2>2. selection'.tl \in Timelines
      <3>1. CASE selection' = selection
        BY <1>3, <3>1
      <3>2. CASE op.pc = "rewrite" /\ selection' = op.prev
        BY <1>1, <1>3, <1>4, <3>2 DEF TransitionSound, Undoing, Desired, Selection
      <3> QED
        BY <1>8, <3>1, <3>2
    <2>3. m'.transitioning
      BY <1>1, <1>8 DEF TransitionSound
    <2>4. SelectionSound'
      BY <2>1, <2>3 DEF SelectionSound
    <2> QED
      BY <1>8, <2>1, <2>2, <2>4, MidStep DEF InTransition, Deciding, Undoing
  \* The compute is down when the outcome is certain.
  <1>9. ASSUME m' = m, reader' = reader, op.pc \in InTransition, Finish(TRUE),
               selection' = selection, ~Active'
        PROVE  AllKnown' /\ TransitionSound' /\ SelectionSound' /\ RoutesSound'
    <2>1. op'.pc = "finish" /\ op'.kind = op.kind /\ op'.branch = op.branch
      BY <1>7, <1>9
    <2>2. m'.transitioning
      BY <1>1, <1>9 DEF TransitionSound
    <2>3. SelectionSound'
      BY <1>9, <2>1, <2>2 DEF SelectionSound
    <2> QED
      BY <1>3, <1>9, <2>1, <2>3, MidStep DEF InTransition, Deciding, Undoing
  <1>10. ASSUME NEW pc \in Deciding \cup Undoing, m' = m, reader' = reader, Goto(pc),
                op.pc \in Deciding \cup Undoing, pc \in Deciding => op.pc \in Deciding,
                selection'.tl \in Timelines, SelectionSound'
         PROVE  AllKnown' /\ TransitionSound' /\ SelectionSound' /\ RoutesSound'
    <2>1. /\ op'.pc = pc /\ op'.kind = op.kind /\ op'.branch = op.branch
          /\ op'.next = op.next /\ op'.prev = op.prev /\ op'.stable = op.stable
      BY <1>6, <1>10
    <2> QED
      BY <1>10, <2>1, MidStep DEF InTransition, Deciding, Undoing
  <1>11. op.pc \in InTransition => m.transitioning
    BY <1>1 DEF TransitionSound
  \* Going on to a place that says nothing of the selection.
  <1>12. ASSUME NEW pc \in {"abort", "waitReady"}, m' = m, reader' = reader, selection' = selection,
                op.pc \in {"start", "waitReady", "waitApplied"}, Goto(pc)
         PROVE  AllKnown' /\ TransitionSound' /\ SelectionSound' /\ RoutesSound'
    <2>1. op'.pc = pc /\ op'.next = op.next
      BY <1>6, <1>12
    <2>2. m'.transitioning
      BY <1>11, <1>12 DEF InTransition, Deciding
    <2>3. SelectionSound'
      BY <1>1, <1>12, <2>1, <2>2 DEF SelectionSound
    <2> QED
      BY <1>3, <1>10, <1>12, <2>3 DEF Deciding, Undoing
  <1>13. CASE SnapshotFails
    BY <1>8, <1>13 DEF SnapshotFails, At, OnlyOp, InTransition
  <1>14. CASE QueryRuntime
    <2> DEFINE pc == IF op.kind = "start" THEN "write" ELSE "stop"
    <2>1. /\ op.pc = "status" /\ op' = [op EXCEPT !.pc = pc, !.active = Active]
          /\ OnlyOp /\ op.kind # "stop"
      BY <1>4, <1>14 DEF QueryRuntime, At
    <2>2. /\ op'.pc = pc /\ op'.kind = op.kind /\ op'.branch = op.branch
          /\ op'.next = op.next /\ op'.prev = op.prev /\ op'.stable = op.stable
      BY <1>1, <2>1 DEF Operations
    <2>3. m'.transitioning /\ m' = m /\ reader' = reader /\ selection' = selection
      BY <1>11, <2>1 DEF OnlyOp, InTransition, Deciding
    <2>4. SelectionSound'
      BY <1>2, <2>1, <2>2, <2>3 DEF SelectionSound
    <2> QED
      BY <1>3, <2>1, <2>2, <2>3, <2>4, MidStep DEF InTransition, Deciding, Undoing
  <1>15. CASE WriteSelection
    <2> DEFINE pc == IF op.kind = "start" /\ op.active THEN "stop" ELSE "start"
    <2>1. /\ op.pc = "write" /\ op.kind # "stop" /\ Goto(pc) /\ selection' = op.next
          /\ UNCHANGED <<marker, compute, m, reader>>
      BY <1>4, <1>15 DEF WriteSelection, At
    <2>2. op'.pc = pc /\ op'.kind = op.kind /\ op'.next = op.next
      BY <1>6, <2>1
    <2>3. m'.transitioning
      BY <1>11, <2>1 DEF InTransition, Deciding
    <2>4. selection'.tl \in Timelines
      BY <1>1, <2>1 DEF TransitionSound, Deciding
    <2>5. SelectionSound'
      BY <2>1, <2>2, <2>3 DEF SelectionSound
    <2> QED
      BY <1>10, <2>1, <2>4, <2>5 DEF Deciding, Undoing
  <1>16. CASE StopCompute
    <2>1. /\ op.pc = "stop" /\ compute' = Stopped
          /\ UNCHANGED <<selection, marker, m, reader>>
      BY <1>16 DEF StopCompute, At
    <2>2. ~Active' /\ m'.transitioning
      BY <1>5, <1>11, <2>1 DEF Active, InTransition, Deciding
    <2>3. CASE op.kind = "start"
      <3>1. Goto("start")
        BY <1>16, <2>3 DEF StopCompute
      <3>2. op'.pc = "start" /\ op'.next = op.next
        BY <1>6, <3>1
      <3>3. SelectionSound'
        BY <1>1, <2>1, <2>2, <2>3, <3>2 DEF SelectionSound
      <3> QED
        BY <1>3, <1>10, <2>1, <3>1, <3>3 DEF Deciding, Undoing
    <2>4. CASE op.kind = "switch"
      <3>1. Goto("write")
        BY <1>16, <2>4 DEF StopCompute
      <3>2. op'.pc = "write"
        BY <1>6, <3>1
      <3>3. SelectionSound'
        BY <2>2, <3>2 DEF SelectionSound
      <3> QED
        BY <1>3, <1>10, <2>1, <3>1, <3>3 DEF Deciding, Undoing
    <2>5. CASE op.kind = "stop"
      <3>1. Finish(TRUE)
        BY <1>16, <2>5 DEF StopCompute
      <3> QED
        BY <1>9, <2>1, <2>2, <3>1 DEF InTransition, Deciding
    <2> QED
      BY <1>2, <2>3, <2>4, <2>5
  <1>17. CASE StartCompute
    BY <1>12, <1>17 DEF StartCompute, At
  <1>18. CASE WaitReady
    <2>1. CASE op.pc = "waitReady"
      <3>1. Goto("waitApplied") /\ OnlyOp
        BY <1>18, <2>1 DEF WaitReady, At
      <3>2. op'.pc = "waitApplied" /\ op'.next = op.next
        BY <1>6, <3>1
      <3>3. m'.transitioning /\ selection' = selection /\ m' = m /\ reader' = reader
        BY <1>11, <2>1, <3>1 DEF InTransition, Deciding, OnlyOp
      <3>4. SelectionSound'
        BY <1>1, <2>1, <3>2, <3>3 DEF SelectionSound
      <3> QED
        BY <1>3, <1>10, <2>1, <3>1, <3>3, <3>4 DEF Deciding, Undoing
    <2>2. CASE op.pc = "verifyReady"
      <3>1. Goto("verifyApplied") /\ OnlyOp /\ compute.state = "serving"
        BY <1>18, <2>2 DEF WaitReady, At, Ready
      <3>2. op'.pc = "verifyApplied"
        BY <1>6, <3>1
      <3>3. /\ m'.transitioning /\ m' = m /\ reader' = reader
            /\ UNCHANGED <<selection, marker, compute>>
        BY <1>11, <2>2, <3>1 DEF InTransition, Undoing, OnlyOp
      <3>4. compute.sel \in Choices /\ marker = compute.sel /\ ReadsAgree
        BY <1>1, <2>2, <3>1 DEF ComputeSound, Computes, SelectionSound
      <3>5. marker = selection
        BY <1>3, <3>1, <3>4 DEF ReadsAgree, Choices, Selections
      <3>6. ReadsAgree'
        BY <3>3, <3>4 DEF ReadsAgree
      <3>7. SelectionSound'
        BY <3>2, <3>3, <3>5, <3>6 DEF SelectionSound
      <3> QED
        BY <1>3, <1>10, <2>2, <3>1, <3>3, <3>7 DEF Deciding, Undoing
    <2> QED
      BY <1>18, <2>1, <2>2 DEF WaitReady
  <1>19. CASE WaitAgain
    <2>1. CASE At("waitApplied")
      BY <1>12, <1>19, <2>1 DEF WaitAgain, At, OnlyOp
    <2>2. CASE At("verifyApplied")
      <3>1. Goto("verifyReady") /\ OnlyOp /\ op.pc = "verifyApplied"
        BY <1>19, <2>2 DEF WaitAgain, At
      <3>2. op'.pc = "verifyReady"
        BY <1>6, <3>1
      <3>3. /\ m'.transitioning /\ m' = m /\ reader' = reader
            /\ UNCHANGED <<selection, marker, compute>>
        BY <1>11, <3>1 DEF InTransition, Undoing, OnlyOp
      <3>4. ReadsAgree'
        BY <1>1, <3>1, <3>3 DEF SelectionSound, ReadsAgree
      <3>5. SelectionSound'
        BY <3>2, <3>3, <3>4 DEF SelectionSound
      <3> QED
        BY <1>3, <1>10, <3>1, <3>3, <3>5 DEF Deciding, Undoing
    <2> QED
      BY <1>19, <2>1, <2>2 DEF WaitAgain
  <1>20. CASE WaitApplied
    <2>1. op.pc = "waitApplied" /\ Goto("commit") /\ OnlyOp
      BY <1>20 DEF WaitApplied, At
    <2>2. op'.pc = "commit" /\ op'.next = op.next
      BY <1>6, <2>1
    <2>3. m'.transitioning /\ selection' = selection /\ m' = m /\ reader' = reader
      BY <1>11, <2>1 DEF InTransition, Deciding, OnlyOp
    <2>4. SelectionSound'
      BY <1>1, <2>1, <2>2, <2>3 DEF SelectionSound
    <2> QED
      BY <1>3, <1>10, <2>1, <2>3, <2>4 DEF Deciding, Undoing
  <1>21. CASE WaitFails
    BY <1>12, <1>21 DEF WaitFails, OnlyOp
  \* Going back: stable tells whether the failed compute is down.
  <1>22. ASSUME NEW st \in BOOLEAN, m' = m, reader' = reader, selection' = selection,
                op.pc = "abort", op'.pc = "rewrite", op'.kind = op.kind, op'.branch = op.branch,
                op'.prev = op.prev, op'.stable = st, st => ~Active'
         PROVE  AllKnown' /\ TransitionSound' /\ SelectionSound' /\ RoutesSound'
    <2>1. m'.transitioning
      BY <1>11, <1>22 DEF InTransition, Deciding
    <2>2. SelectionSound'
      BY <1>22, <2>1 DEF SelectionSound
    <2> QED
      BY <1>3, <1>22, <2>2, MidStep DEF InTransition, Deciding, Undoing
  <1>23. CASE Abort
    <2>1. op.pc = "abort" /\ compute' = Stopped /\ UNCHANGED <<selection, marker, m, reader>>
      BY <1>23 DEF Abort, At
    <2>2. CASE op.kind = "start"
      BY <1>8, <1>23, <2>1, <2>2 DEF Abort, InTransition, Deciding
    <2>3. CASE op.kind # "start"
      <3>1. op' = [op EXCEPT !.pc = "rewrite", !.stable = TRUE, !.next = NoFile]
        BY <1>23, <2>3 DEF Abort
      <3>2. /\ op'.pc = "rewrite" /\ op'.kind = op.kind /\ op'.branch = op.branch
            /\ op'.prev = op.prev /\ op'.stable = TRUE
        BY <1>1, <3>1 DEF Operations
      <3>3. ~Active'
        BY <1>5, <2>1 DEF Active
      <3> QED
        BY <1>22, <2>1, <3>2, <3>3
    <2> QED
      BY <2>2, <2>3
  <1>24. CASE AbortFails
    <2>1. op.pc = "abort" /\ UNCHANGED <<selection, marker, m, reader>>
      BY <1>24 DEF AbortFails, At, Failing
    <2>2. CASE op.kind = "start"
      BY <1>8, <1>24, <2>1, <2>2 DEF AbortFails, InTransition, Deciding
    <2>3. CASE op.kind # "start"
      <3>1. op' = [op EXCEPT !.pc = "rewrite", !.next = NoFile]
        BY <1>24, <2>3 DEF AbortFails
      <3>2. /\ op'.pc = "rewrite" /\ op'.kind = op.kind /\ op'.branch = op.branch
            /\ op'.prev = op.prev /\ op'.stable = op.stable
        BY <1>1, <3>1 DEF Operations
      <3>3. ~op.stable /\ op.stable \in BOOLEAN
        BY <1>1, <2>1 DEF TransitionSound, Deciding, Operations
      <3> QED
        BY <1>22, <2>1, <3>2, <3>3
    <2> QED
      BY <2>2, <2>3
  \* A compute that was up is started again, on what the selection now says.
  <1>25. ASSUME m' = m, reader' = reader, selection'.tl \in Timelines, UNCHANGED <<compute, marker>>,
                op.pc = "rewrite" \/ (op.pc = "write" /\ selection' = selection), ~Active, Revive
         PROVE  AllKnown' /\ TransitionSound' /\ SelectionSound' /\ RoutesSound'
    <2>1. op.pc \in InTransition /\ m'.transitioning /\ ~Active'
      BY <1>11, <1>25 DEF InTransition, Deciding, Undoing, Active
    <2>2. CASE op.active
      <3>1. Goto("restart")
        BY <1>25, <2>2 DEF Revive
      <3>2. op'.pc = "restart"
        BY <1>6, <3>1
      <3>3. SelectionSound'
        BY <2>1, <3>2 DEF SelectionSound
      <3> QED
        BY <1>10, <1>25, <3>1, <3>3 DEF Deciding, Undoing
    <2>3. CASE ~op.active
      <3>1. Finish(TRUE)
        BY <1>25, <2>3 DEF Revive
      <3>2. op'.pc = "finish" /\ op'.kind = op.kind /\ op'.branch = op.branch
        BY <1>7, <3>1
      <3>3. SelectionSound'
        BY <2>1, <3>2 DEF SelectionSound
      <3> QED
        BY <1>25, <2>1, <3>2, <3>3, MidStep DEF InTransition, Deciding, Undoing
    <2> QED
      BY <2>2, <2>3
  <1>26. CASE WriteSelectionFails
    <2>1. op.pc = "write" /\ UNCHANGED <<selection, marker, compute, m, reader>>
      BY <1>26 DEF WriteSelectionFails, At
    <2>2. CASE op.kind = "start"
      BY <1>8, <1>26, <2>1, <2>2 DEF WriteSelectionFails, InTransition, Deciding
    <2>3. CASE op.kind # "start"
      <3>1. op.kind = "switch" /\ Revive /\ ~Active
        BY <1>1, <1>2, <1>4, <1>26, <2>1, <2>3 DEF WriteSelectionFails, SelectionSound
      <3> QED
        BY <1>3, <1>25, <2>1, <3>1
    <2> QED
      BY <2>2, <2>3
  <1>27. CASE RewriteSelection
    <2>1. op.pc = "rewrite" /\ selection' = op.prev /\ UNCHANGED <<marker, compute, m, reader>>
      BY <1>27 DEF RewriteSelection, At
    <2>2. selection'.tl \in Timelines
      BY <1>1, <1>3, <1>4, <2>1 DEF TransitionSound, Undoing, Desired, Selection
    <2>3. CASE op.stable
      <3>1. Revive /\ ~Active
        BY <1>1, <1>27, <2>1, <2>3 DEF RewriteSelection, SelectionSound
      <3> QED
        BY <1>25, <2>1, <2>2, <3>1
    <2>4. CASE ~op.stable
      BY <1>8, <1>27, <2>1, <2>4 DEF RewriteSelection, InTransition, Undoing
    <2> QED
      BY <2>3, <2>4
  <1>28. CASE RestartCompute
    <2>1. /\ op.pc = "restart" /\ Goto("verifyReady") /\ compute' = Started(compute)
          /\ UNCHANGED <<selection, marker, m, reader>>
      BY <1>28 DEF RestartCompute, At
    <2>2. op'.pc = "verifyReady"
      BY <1>6, <2>1
    <2>3. compute.state = "exited"
      BY <1>1, <2>1 DEF SelectionSound, Active
    <2>4. compute'.state = "booting"
      BY <1>1, <2>1, <2>3 DEF Started, Computes
    <2>5. ReadsAgree' /\ m'.transitioning
      BY <1>11, <2>1, <2>4 DEF ReadsAgree, InTransition, Undoing
    <2>6. SelectionSound'
      BY <2>2, <2>5 DEF SelectionSound
    <2> QED
      BY <1>3, <1>10, <2>1, <2>6 DEF Deciding, Undoing
  <1>29. CASE VerifyApplied
    <2>1. /\ op.pc = "verifyApplied" /\ Matches(marker, op.prev) /\ Finish(TRUE)
          /\ UNCHANGED <<selection, marker, compute, m, reader>>
      BY <1>29 DEF VerifyApplied, At, OnlyOp
    <2>2. op.prev = Desired /\ Desired \in Selections
      BY <1>1, <1>4, <2>1, DesiredTyped DEF TransitionSound, Undoing, IInv, TInv, Typed
    <2>3. marker.branch # NoFile.branch
      BY <2>1, <2>2, Facts DEF Matches, Selections, NoFile
    <2>4. marker = selection
      BY <1>1, <2>1, <2>3 DEF SelectionSound
    <2>5. op'.pc = "finish" /\ op'.kind = op.kind /\ op'.branch = op.branch
      BY <1>7, <2>1
    <2>6. Desired' = Desired /\ m'.transitioning
      BY <1>11, <2>1 DEF Desired, InTransition, Undoing
    <2>7. Matches(selection', Desired')
      BY <2>1, <2>2, <2>4, <2>6
    <2>8. SelectionSound'
      BY <2>5, <2>6, <2>7 DEF SelectionSound
    <2> QED
      BY <1>3, <2>1, <2>5, <2>8, MidStep DEF InTransition, Deciding, Undoing
  <1>30. CASE VerifyFails
    BY <1>8, <1>30 DEF VerifyFails, OnlyOp, InTransition, Undoing
  <1>31. CASE StartComputeFails
    BY <1>12, <1>31 DEF StartComputeFails, At, Failing
  <1>32. CASE QueryRuntimeFails \/ StopComputeFails \/ RewriteSelectionFails \/ RestartComputeFails
    BY <1>8, <1>32 DEF QueryRuntimeFails, StopComputeFails, RewriteSelectionFails,
       RestartComputeFails, Failing, At, InTransition, Deciding, Undoing
  <1> QED
    BY <1>13, <1>14, <1>15, <1>16, <1>17, <1>18, <1>19, <1>20, <1>21, <1>23, <1>24, <1>26, <1>27,
       <1>28, <1>29, <1>30, <1>31, <1>32 DEF OpFaults

\* The requests, and the handlers up to the transition.
LEMMA HandlerKeeps ==
    ASSUME IInv,
           \/ RequestStart \/ RequestStop \/ (\E b \in Branches : RequestSwitch(b))
           \/ Reserve \/ (\E tl \in Timelines : Resolve(tl)) \/ Prepare \/ HandlerFails \/ Begin
    PROVE  AllKnown' /\ TransitionSound' /\ SelectionSound' /\ RoutesSound'
  <1>1. /\ op \in Operations /\ OpSound /\ SelectionSound /\ TransitionSound /\ m \in Managers
        /\ RoutesSound /\ AllKnown
    BY DEF IInv, TInv, Typed
  <1>2. \A pc : Goto(pc) =>
           /\ op'.pc = pc
           /\ op'.kind = op.kind /\ op'.branch = op.branch /\ op'.next = op.next
           /\ op'.prev = op.prev /\ op'.active = op.active /\ op'.stable = op.stable
    BY <1>1, GotoFields
  <1>3. None \notin Timelines
    BY Facts
  \* Outside transitions the manager's primary and its flags are let alone.
  <1>4. ASSUME UNCHANGED <<selection, marker, compute, reader>>, Desired' = Desired,
               op'.pc \in {"reserve", "resolve", "prepare", "begin", "release"}, ~m.transitioning,
               m'.transitioning = m.transitioning, m'.blocked = m.blocked, m'.att = m.att,
               op'.pc # "release" => ~op'.stable,
               op'.kind = "switch" /\ op'.pc \in {"prepare", "begin"} =>
                  m'.atts[op'.branch] \in Timelines,
               m'.reserved = m.reserved \/ \A r \in Readers : reader[r].pc = "idle"
        PROVE  AllKnown' /\ TransitionSound' /\ SelectionSound' /\ RoutesSound'
    <2>1. AllKnown'
      BY <1>1, <1>4 DEF AllKnown
    <2>2. TransitionSound'
      BY <1>4 DEF TransitionSound, InTransition, Deciding, Undoing
    <2>3. Active' = Active
      BY <1>4 DEF Active
    <2>4. SelectionSound'
      BY <1>1, <1>4, <2>3 DEF SelectionSound
    <2>5. RoutesSound'
      BY <1>1, <1>4, <2>3 DEF RoutesSound, RouteSound, Primary
    <2> QED
      BY <2>1, <2>2, <2>4, <2>5
  <1>5. op.pc \in {"idle", "reserve", "resolve", "prepare", "begin"} => ~m.transitioning
    BY <1>1 DEF TransitionSound, InTransition, Deciding, Undoing
  <1>6. op.pc \in {"reserve", "resolve", "prepare", "begin"} => ~op.stable
    BY <1>1 DEF TransitionSound
  <1>7. OnlyOp => /\ UNCHANGED <<selection, marker, compute, reader>> /\ m' = m
                  /\ Desired' = Desired
    BY DEF OnlyOp, Desired
  <1>8. CASE RequestStart \/ RequestStop \/ \E b \in Branches : RequestSwitch(b)
    <2>1. /\ op.pc = "idle" /\ OnlyOp /\ ~op'.stable
          /\ \/ op'.pc = "reserve"
             \/ op'.pc = "begin" /\ op'.kind = "stop"
      BY <1>8 DEF RequestStart, RequestStop, RequestSwitch, NoOp, At
    <2> QED
      BY <1>4, <1>5, <1>7, <2>1
  <1>9. CASE Reserve
    <2>1. /\ op.pc = "reserve" /\ MayReserve /\ m' = [m EXCEPT !.reserved = op.branch]
          /\ Goto("resolve") /\ UNCHANGED <<selection, marker, compute, reader>>
      BY <1>9 DEF Reserve, At, OnlyManager
    <2>2. /\ m'.branch = m.branch /\ m'.att = m.att /\ m'.gen = m.gen
          /\ m'.transitioning = m.transitioning /\ m'.blocked = m.blocked
      BY <1>1, <2>1 DEF Managers
    <2>3. Desired' = Desired
      BY <2>2 DEF Desired
    <2>4. op'.pc = "resolve" /\ ~op'.stable
      BY <1>2, <1>6, <2>1
    <2> QED
      BY <1>4, <1>5, <2>1, <2>2, <2>3, <2>4, NoAdoption
  <1>10. ASSUME NEW tl \in Timelines, Resolve(tl)
         PROVE  AllKnown' /\ TransitionSound' /\ SelectionSound' /\ RoutesSound'
    <2>1. /\ op.pc = "resolve" /\ m' = [m EXCEPT !.atts[op.branch] = tl]
          /\ Goto("prepare") /\ UNCHANGED <<selection, marker, compute, reader>>
      BY <1>10 DEF Resolve, At, OnlyManager
    <2>2. /\ m'.branch = m.branch /\ m'.att = m.att /\ m'.gen = m.gen
          /\ m'.transitioning = m.transitioning /\ m'.blocked = m.blocked
          /\ m'.reserved = m.reserved
          /\ m'.atts = [m.atts EXCEPT ![op.branch] = tl]
      BY <1>1, <2>1 DEF Managers
    <2>3. Desired' = Desired
      BY <2>2 DEF Desired
    <2>4. op'.pc = "prepare" /\ ~op'.stable /\ op'.branch = op.branch
      BY <1>2, <1>6, <2>1
    <2>5. op.branch \in Branches /\ m.atts \in [Branches -> Timelines \cup {None}]
      BY <1>1, <2>1 DEF OpSound, Managers
    <2>6. m'.atts[op'.branch] \in Timelines
      BY <2>2, <2>4, <2>5
    <2> QED
      BY <1>4, <1>5, <2>1, <2>2, <2>3, <2>4, <2>6
  <1>11. CASE Prepare
    <2>1. op.pc = "prepare" /\ Goto("begin") /\ OnlyOp
      BY <1>11 DEF Prepare, At
    <2>2. op'.pc = "begin" /\ ~op'.stable /\ op'.kind = op.kind /\ op'.branch = op.branch
      BY <1>2, <1>6, <2>1
    <2>3. op.kind = "switch" => m.atts[op.branch] \in Timelines
      BY <1>1, <2>1 DEF AllKnown
    <2> QED
      BY <1>4, <1>5, <1>7, <2>1, <2>2, <2>3
  <1>12. CASE HandlerFails
    <2>1. op.pc \in {"resolve", "prepare"} /\ Goto("release") /\ OnlyOp
      BY <1>12 DEF HandlerFails
    <2>2. op'.pc = "release"
      BY <1>2, <2>1
    <2> QED
      BY <1>4, <1>5, <1>7, <2>1, <2>2
  <1>13. CASE Begin
    <2> DEFINE pc == IF op.kind = "stop" THEN "stop" ELSE "snapshot"
    <2>1. /\ op.pc = "begin" /\ MayBegin /\ m' = [m EXCEPT !.transitioning = TRUE]
          /\ Goto(pc) /\ UNCHANGED <<selection, marker, compute, reader>>
      BY <1>13 DEF Begin, At, OnlyManager
    <2>2. /\ m'.branch = m.branch /\ m'.att = m.att /\ m'.gen = m.gen
          /\ m'.transitioning /\ m'.atts = m.atts
      BY <1>1, <2>1 DEF Managers
    <2>3. op'.pc = pc /\ ~op'.stable /\ op'.kind = op.kind /\ op'.branch = op.branch
      BY <1>2, <1>6, <2>1
    <2>4. \A r \in Readers : reader[r].pc = "idle"
      BY <2>1, NoAdoption
    <2>5. RoutesSound'
      BY <2>1, <2>4, RoutesIdle
    <2>6. AllKnown'
      BY <1>1, <2>1, <2>2, <2>3 DEF AllKnown
    <2>7. TransitionSound'
      BY <2>2, <2>3 DEF TransitionSound, InTransition, Deciding, Undoing
    <2>8. SelectionSound'
      BY <2>2, <2>3 DEF SelectionSound
    <2> QED
      BY <2>5, <2>6, <2>7, <2>8
  <1> QED
    BY <1>8, <1>9, <1>10, <1>11, <1>12, <1>13

\* The snapshot of the manager, the commit and the end of the transition.
LEMMA ManagerKeeps ==
    ASSUME IInv, Snapshot \/ Commit \/ FinishTransition \/ ReleaseReservation
    PROVE  AllKnown' /\ TransitionSound' /\ SelectionSound' /\ RoutesSound'
  <1>1. /\ op \in Operations /\ OpSound /\ SelectionSound /\ TransitionSound /\ m \in Managers
        /\ RoutesSound /\ AllKnown
    BY DEF IInv, TInv, Typed
  <1>2. m.att \in Timelines /\ m.branch \in Branches
    BY <1>1 DEF AllKnown, Managers
  <1>3. CASE Snapshot
    <2> DEFINE n == IF op.kind = "start" THEN StartNext
                    ELSE Selection(lastGen + 1, op.branch, m.atts[op.branch])
    <2>1. /\ op.pc = "snapshot" /\ op.kind # "stop"
          /\ op' = [op EXCEPT !.pc = "status", !.prev = Desired, !.next = n]
          /\ UNCHANGED <<selection, marker, compute, m, reader>>
      BY <1>1, <1>3 DEF Snapshot, At, OpSound
    <2>2. n.tl \in Timelines
      <3>1. CASE op.kind = "start"
        <4>1. m.atts[m.branch] # None => m.atts[m.branch] \in Timelines
          BY <1>1, <1>2 DEF Managers
        <4> QED
          BY <1>2, <3>1, <4>1 DEF StartNext, Selection
      <3>2. CASE op.kind = "switch"
        <4>1. m.atts[op.branch] \in Timelines
          BY <1>1, <2>1, <3>2 DEF AllKnown
        <4> QED
          BY <3>2, <4>1 DEF Selection
      <3> QED
        BY <1>1, <2>1, <3>1, <3>2 DEF Operations
    <2>3. n.branch = IF op.kind = "start" THEN m.branch ELSE op.branch
      BY DEF StartNext, Selection
    <2> HIDE DEF n
    <2>4. /\ op'.pc = "status" /\ op'.kind = op.kind /\ op'.branch = op.branch
          /\ op'.next = n /\ op'.prev = Desired /\ op'.stable = op.stable
      BY <1>1, <2>1 DEF Operations
    <2>5. m.transitioning /\ Desired' = Desired /\ ~op.stable
      BY <1>1, <2>1 DEF TransitionSound, InTransition, Desired
    <2>6. AllKnown'
      BY <1>1, <2>1, <2>4 DEF AllKnown
    <2>7. TransitionSound'
      BY <2>1, <2>2, <2>3, <2>4, <2>5 DEF TransitionSound, InTransition, Deciding, Undoing
    <2>8. SelectionSound'
      BY <2>1, <2>4, <2>5 DEF SelectionSound
    <2>9. RoutesSound'
      BY <1>1, <2>1, <2>5, RoutesInTransition
    <2> QED
      BY <2>6, <2>7, <2>8, <2>9
  <1>4. CASE Commit
    <2> DEFINE n == op.next
               t == [m.atts EXCEPT ![m.branch] = n.tl]
    <2>1. /\ op.pc = "commit" /\ Finish(TRUE) /\ op.kind # "stop"
          /\ UNCHANGED <<selection, marker, compute, reader>>
      BY <1>1, <1>4 DEF Commit, At, OnlyManager, OpSound
    <2>2. /\ selection = n /\ n.tl \in Timelines
          /\ n.branch = IF op.kind = "start" THEN m.branch ELSE op.branch
          /\ m.transitioning
      BY <1>1, <2>1 DEF SelectionSound, TransitionSound, InTransition, Deciding
    <2>3. op'.pc = "finish"
      BY <2>1, FinishFields
    <2>4. n \in Selections
      BY <2>2, NoAdoption
    <2>5. /\ m'.att = n.tl /\ m'.gen = n.gen /\ m'.transitioning = m.transitioning
          /\ m'.branch = n.branch
      <3>1. CASE op.kind = "start"
        <4>1. m' = [m EXCEPT !.att = n.tl, !.atts = t, !.gen = n.gen]
          BY <1>4, <3>1 DEF Commit
        <4> HIDE DEF n, t
        <4> QED
          BY <1>1, <2>2, <3>1, <4>1 DEF Managers
      <3>2. CASE op.kind # "start"
        <4>1. m' = [m EXCEPT !.branch = op.branch, !.att = n.tl, !.gen = n.gen]
          BY <1>4, <3>2 DEF Commit
        <4> HIDE DEF n
        <4> QED
          BY <1>1, <2>2, <3>2, <4>1 DEF Managers
      <3> QED
        BY <3>1, <3>2
    <2> HIDE DEF n
    <2>6. Desired' = selection /\ selection' = selection
      BY <2>1, <2>2, <2>4, <2>5 DEF Desired, Selection, Selections
    <2>7. Matches(selection', Desired')
      BY <2>6 DEF Matches
    <2>8. AllKnown'
      BY <1>1, <2>1, <2>2, <2>3, <2>5 DEF AllKnown
    <2>9. TransitionSound'
      BY <2>2, <2>3, <2>5 DEF TransitionSound, InTransition, Deciding, Undoing
    <2>10. SelectionSound'
      BY <2>2, <2>3, <2>5, <2>7 DEF SelectionSound
    <2>11. RoutesSound'
      BY <1>1, <2>1, <2>2, <2>5, RoutesInTransition
    <2> QED
      BY <2>8, <2>9, <2>10, <2>11
  <1>5. CASE FinishTransition
    <2> DEFINE pc == IF op.kind = "stop" THEN "idle" ELSE "release"
    <2>1. /\ op.pc = "finish" /\ MayBegin /\ Goto(pc)
          /\ m' = [m EXCEPT !.transitioning = FALSE, !.blocked = ~op.stable]
          /\ UNCHANGED <<selection, marker, compute, reader>>
      BY <1>5 DEF FinishTransition, At, Blocks, OnlyManager
    <2>2. /\ m'.branch = m.branch /\ m'.att = m.att /\ m'.gen = m.gen
          /\ ~m'.transitioning /\ m'.blocked = ~op.stable
      BY <1>1, <2>1 DEF Managers
    <2>3. op'.pc = pc /\ op'.kind = op.kind
      BY <1>1, <2>1, GotoFields
    <2>4. Desired' = Desired /\ Active' = Active
      BY <2>1, <2>2 DEF Desired, Active
    <2>5. SelectionSound'
      BY <1>1, <2>1, <2>2, <2>3, <2>4 DEF SelectionSound, Operations
    <2>6. TransitionSound'
      BY <2>2, <2>3 DEF TransitionSound, InTransition, Deciding, Undoing
    <2>7. AllKnown'
      BY <1>1, <2>1, <2>2, <2>3 DEF AllKnown
    <2>8. RoutesSound'
      BY <2>1, NoAdoption, RoutesIdle
    <2> QED
      BY <2>5, <2>6, <2>7, <2>8
  <1>6. CASE ReleaseReservation
    <2>1. /\ op.pc = "release" /\ MayReserve /\ op' = NoOp
          /\ m' = [m EXCEPT !.reserved = None]
          /\ UNCHANGED <<selection, marker, compute, reader>>
      BY <1>6 DEF ReleaseReservation, At, OnlyManager
    <2>2. /\ m'.branch = m.branch /\ m'.att = m.att /\ m'.gen = m.gen
          /\ m'.transitioning = m.transitioning /\ m'.blocked = m.blocked
      BY <1>1, <2>1 DEF Managers
    <2>3. ~m.transitioning /\ op'.pc = "idle" /\ op'.kind = "stop"
      BY <1>1, <2>1 DEF TransitionSound, InTransition, Deciding, Undoing, NoOp
    <2>4. Desired' = Desired /\ Active' = Active
      BY <2>1, <2>2 DEF Desired, Active
    <2>5. SelectionSound'
      BY <1>1, <2>1, <2>2, <2>3, <2>4 DEF SelectionSound
    <2>6. TransitionSound'
      BY <2>2, <2>3 DEF TransitionSound, InTransition, Deciding, Undoing
    <2>7. AllKnown'
      BY <1>1, <2>1, <2>2, <2>3 DEF AllKnown
    <2>8. RoutesSound'
      BY <2>1, NoAdoption, RoutesIdle
    <2> QED
      BY <2>5, <2>6, <2>7, <2>8
  <1> QED
    BY <1>3, <1>4, <1>5, <1>6

\* What the manager takes from a selection.
LEMMA LoadedDesired ==
    ASSUME NEW s \in Selections, m = Loaded(s)
    PROVE  /\ Desired = s /\ m.att = s.tl
           /\ ~m.transitioning /\ ~m.blocked
  <1>1. s # NoFile /\ s.branch \in Branches
    BY Facts DEF Selections
  <1>2. m = [branch |-> s.branch, att |-> s.tl, atts |-> [NoAttachments EXCEPT ![s.branch] = s.tl],
             gen |-> s.gen, transitioning |-> FALSE, blocked |-> FALSE, reserved |-> None]
    BY <1>1 DEF Loaded, Fresh
  <1>3. Desired = [gen |-> s.gen, branch |-> s.branch, tl |-> s.tl]
    BY <1>2 DEF Desired, Selection
  <1> QED
    BY <1>2, <1>3 DEF Selections

\* A manager that has just come up with the selection, nothing being under way.
LEMMA FreshSound ==
    ASSUME selection \in Selections, selection.tl \in Timelines, m = Loaded(selection), op = NoOp,
           \A r \in Readers : reader[r] = Idle
    PROVE  AllKnown /\ TransitionSound /\ SelectionSound /\ RoutesSound
  <1>1. /\ Desired = selection /\ m.att = selection.tl
        /\ ~m.transitioning /\ ~m.blocked
    BY LoadedDesired
  <1>2. op.pc = "idle" /\ op.kind = "stop"
    BY DEF NoOp
  <1>3. \A r \in Readers : reader[r].pc = "idle"
    BY DEF Idle
  <1>4. AllKnown /\ RoutesSound
    BY <1>1, <1>2, <1>3 DEF AllKnown, RoutesSound, RouteSound
  <1>5. TransitionSound
    BY <1>1, <1>2 DEF TransitionSound, InTransition, Deciding, Undoing
  <1>6. SelectionSound
    BY <1>1, <1>2 DEF SelectionSound, Matches
  <1> QED
    BY <1>4, <1>5, <1>6

LEMMA KnownInit == Init /\ ~Unadopted => IInv
  <1> SUFFICES ASSUME Init, ~Unadopted PROVE IInv
    OBVIOUS
  <1>1. PICK b \in Branches, tl \in Timelines : selection = Selection(0, b, tl)
    BY DEF Init
  <1>2. selection \in Selections /\ selection.tl \in Timelines
    BY <1>1, Facts DEF Selection, Selections
  <1> QED
    BY <1>2, TypedInit, FreshSound DEF Init, IInv

LEMMA KnownStep == IInv /\ [Next]_vars => IInv'
  <1> SUFFICES ASSUME IInv, [Next]_vars PROVE IInv'
    OBVIOUS
  <1>1. TInv'
    BY TypedStep DEF IInv
  <1>2. AllKnown' /\ TransitionSound' /\ SelectionSound' /\ RoutesSound'
    <2>1. CASE Restart
      <3>1. /\ m' = Loaded(selection) /\ op' = NoOp /\ reader' = [r \in Readers |-> Idle]
            /\ selection' = selection
        BY <2>1 DEF Restart, IInv
      <3>2. selection \in Selections /\ selection.tl \in Timelines
        BY NoAdoption DEF IInv, AllKnown
      <3>3. selection' \in Selections /\ selection'.tl \in Timelines /\ m' = Loaded(selection')
        BY <3>1, <3>2
      <3>4. \A r \in Readers : reader'[r] = Idle
        BY <3>1
      <3>5. /\ Desired' = selection' /\ m'.att = selection'.tl
            /\ ~m'.transitioning /\ ~m'.blocked
        <4>1. selection # NoFile
          BY <3>2, Facts
        <4>2. m' = [branch |-> selection.branch, att |-> selection.tl,
                    atts |-> [NoAttachments EXCEPT ![selection.branch] = selection.tl],
                    gen |-> selection.gen, transitioning |-> FALSE, blocked |-> FALSE,
                    reserved |-> None]
          BY <3>1, <4>1 DEF Loaded, Fresh
        <4>3. Desired' = [gen |-> selection.gen, branch |-> selection.branch, tl |-> selection.tl]
          BY <4>2 DEF Desired, Selection
        <4> QED
          BY <3>1, <3>2, <4>2, <4>3 DEF Selections
      <3>6. op'.pc = "idle" /\ op'.kind = "stop"
        BY <3>1 DEF NoOp
      <3>7. \A r \in Readers : reader'[r].pc = "idle"
        BY <3>4 DEF Idle
      <3>8. AllKnown' /\ RoutesSound'
        BY <3>3, <3>5, <3>6, <3>7 DEF AllKnown, RoutesSound, RouteSound
      <3>9. TransitionSound'
        BY <3>5, <3>6 DEF TransitionSound, InTransition, Deciding, Undoing
      <3>10. SelectionSound'
        BY <3>5, <3>6 DEF SelectionSound, Matches
      <3> QED
        BY <3>8, <3>9, <3>10
    <2>2. CASE UNCHANGED vars
      <3>1. /\ Desired' = Desired /\ Active' = Active /\ ReadsAgree' = ReadsAgree
            /\ UNCHANGED <<selection, marker, compute, m, op, reader>>
        BY <2>2 DEF vars, Desired, Active, ReadsAgree
      <3>2. AllKnown' /\ TransitionSound'
        BY <3>1 DEF IInv, AllKnown, TransitionSound
      <3>3. SelectionSound'
        BY <3>1 DEF IInv, SelectionSound
      <3>4. RoutesSound'
        BY <3>1 DEF IInv, RoutesSound, RouteSound, Primary
      <3> QED
        BY <3>2, <3>3, <3>4
    <2> QED
      BY <2>1, <2>2, ComputeKeeps, ReaderKeeps, HandlerKeeps, MidKeeps, ManagerKeeps
      DEF Next, OpNext
  <1> QED
    BY <1>1, <1>2 DEF IInv

LEMMA KnownInvariant == Spec /\ ~Unadopted => []IInv
  BY KnownInit, KnownStep, PTL DEF Spec

\* Where a selection is on disk at the first start, a route that is held leads to its
\* branch's timeline for as long as it is held and never to a branch being taken: the
\* read lock of routeMu keeps the transitions and the reservations out, and a compute
\* that restarts meanwhile reads a selection that no operation has replaced.
THEOREM RoutesStayRight == Spec /\ ~Unadopted => []HeldRoutesRight
  <1>1. IInv => HeldRoutesRight
    <2> SUFFICES ASSUME IInv PROVE HeldRoutesRight
      OBVIOUS
    <2>1. \A r \in Readers : RouteSound(reader[r])
      BY DEF IInv, RoutesSound
    <2>2. RouteServes
      BY <2>1 DEF RouteServes, Holds, RouteSound, Ready
    <2>3. ReservedUnrouted
      BY <2>1 DEF ReservedUnrouted, Holds, RouteSound
    <2> QED
      BY <2>2, <2>3 DEF HeldRoutesRight
  <1> QED
    BY <1>1, KnownInvariant, PTL

\* Where a selection is on disk at the first start, the selection file names the
\* manager's primary whenever routes are not suspended and the container may run: no
\* failing operation, and no crash of the controller at any step, leaves a compute that
\* would come back as something else.
THEOREM SelectionFollowed == Spec /\ ~Unadopted => []RestartKeepsPrimary
  <1>1. IInv => RestartKeepsPrimary
    BY DEF IInv, SelectionSound, RestartKeepsPrimary
  <1> QED
    BY <1>1, KnownInvariant, PTL

-----------------------------------------------------------------------------
(* Adoption, in every installation *)

\* What a reader is granted when it has loaded the marker: a compute that is ready has
\* written that marker itself, and has not chosen anew since.
LEMMA LoadServes ==
    ASSUME TInv, NEW r \in Readers, Load(r), Holds(r)', Primary(reader'[r]), Ready
    PROVE  compute.sel.tl = reader[r].tl
  <1> DEFINE s == [reader[r] EXCEPT !.applied = marker]
             n == IF Adoptable(s) THEN [s EXCEPT !.pc = "adopt"] ELSE Decided(s)
  <1>1. reader[r] \in ReaderStates /\ marker = compute.sel
    BY DEF TInv, Typed, ComputeSound, Ready
  <1>2. s.applied = marker /\ s.tl = reader[r].tl
    BY <1>1 DEF ReaderStates
  <1>3. reader'[r] = n
    BY DEF Load, ReaderStep, TInv, Typed
  <1>4. [s EXCEPT !.pc = "adopt"].pc = "adopt"
    BY <1>1 DEF ReaderStates
  <1> HIDE DEF s
  <1>5. n = Decided(s) /\ Granted(s)
    BY <1>3, <1>4 DEF Holds, Decided, Idle
  <1>6. reader'[r].tl = s.tl /\ reader'[r].applied = s.applied
    BY <1>3, <1>5 DEF Decided, Idle
  <1> QED
    BY <1>1, <1>2, <1>6 DEF Primary

\* Who moves a reader on from "load": the reader itself, or a restart of the controller.
LEMMA OnlyLoadGrants ==
    ASSUME TInv, Next, NEW r \in Readers, reader[r].pc = "load", Holds(r)'
    PROVE  Load(r)
  <1>1. reader[r] \in ReaderStates /\ reader'[r].pc = "held"
    BY DEF TInv, Typed, Holds
  <1>2. reader'[r] # reader[r]
    BY <1>1
  <1>3. ASSUME NEW q \in Readers, NEW s, ReaderStep(q, s) PROVE q = r /\ s = reader'[r]
    <2>1. reader' = [reader EXCEPT ![q] = s]
      BY <1>3 DEF ReaderStep
    <2> QED
      BY <1>2, <2>1 DEF TInv, Typed
  <1>4. ~UNCHANGED reader
    BY <1>2
  <1>5. PICK q \in Readers : \/ \E b \in Branches, tl \in Timelines : Route(q, b, tl)
                             \/ Poll(q) \/ ReaderNext(q) \/ ReaderFails(q)
    <2>1. ~(ComputeNext \/ ComputeExits)
      BY <1>4 DEF ComputeNext, ComputeExits, ComputeRestarts, RemoveMarker, ReadGeneration, ReadBranch,
                  ReadAttachment, WriteMarker, BecomeReady, ComputeStep, ReadStep
    <2>2. ~(RequestStart \/ RequestStop \/ \E b \in Branches : RequestSwitch(b))
      BY <1>4 DEF RequestStart, RequestStop, RequestSwitch, OnlyOp
    <2>3. ~(OpNext \/ OpFaults)
      BY <1>4 DEF OpNext, OpFaults, Reserve, Resolve, Prepare, HandlerFails, Begin, Snapshot,
                  SnapshotFails, QueryRuntime, WriteSelection, StopCompute, StartCompute, WaitReady,
                  WaitAgain, WaitApplied, WaitFails, Abort, RewriteSelection, RestartCompute,
                  VerifyApplied, VerifyFails, Commit, FinishTransition, ReleaseReservation,
                  QueryRuntimeFails, WriteSelectionFails, StopComputeFails, StartComputeFails,
                  AbortFails, RewriteSelectionFails, RestartComputeFails, Failing, OnlyOp, OnlyManager
    <2>4. ~Restart
      <3>1. Restart => reader'[r] = Idle
        BY DEF Restart
      <3> QED
        BY <1>1, <3>1 DEF Idle
    <2> QED
      BY <2>1, <2>2, <2>3, <2>4 DEF Next
  <1>6. q = r
    BY <1>3, <1>5 DEF Route, Poll, ReaderNext, ReaderFails, Status, Load, AdoptLate, AdoptProceeds,
                      AdoptWrite, AdoptSet, Release
  <1>7. ~ReaderFails(r)
    <2>1. ReaderFails(r) => ReaderStep(r, Idle)
      BY DEF ReaderFails, AfterError
    <2>2. Idle.pc = "idle"
      BY DEF Idle
    <2> QED
      BY <1>1, <1>3, <2>1, <2>2
  <1> QED
    BY <1>5, <1>6, <1>7 DEF Route, Poll, ReaderNext, Status, AdoptLate, AdoptProceeds, AdoptWrite,
                            AdoptSet, Release

\* A route to a primary the manager knows is granted only while a compute that is ready
\* serves the branch's timeline, in every installation, also beside an adoption and after a
\* restart that lost the selection: the marker is removed before the script reads anew.
THEOREM RoutesGrantedRight == Spec => GrantsServe
  <1>1. TInv /\ [Next]_vars => [GrantStep]_vars
    <2> SUFFICES ASSUME TInv, Next PROVE GrantStep
      OBVIOUS
    <2> QED
      BY OnlyLoadGrants, LoadServes DEF GrantStep
  <1> QED
    BY <1>1, TypeInvariant, PTL DEF Spec, GrantsServe

=============================================================================
