------------------------- MODULE BranchEndpointProofs -------------------------
(***************************************************************************)
(* The safety properties of BranchEndpoint, for any number of connections, *)
(* timers, timelines, containers and faults: the types, one writer per     *)
(* timeline, no listener the store does not list, and no slot of the       *)
(* connection limit that leaks.                                            *)
(***************************************************************************)
EXTENDS BranchEndpoint, FiniteSetTheorems, TLAPS

Ids == 0..MaxBox
Rows == [published : BOOLEAN, tl : Tls]
Boxes == [state : {"absent", "stopped", "booting", "up"}, id : Ids, tl : Tls, old : BOOLEAN]
Controllers ==
    [listening : BOOLEAN, active : 0..MaxActive, timer : Timers \cup {None},
     lock : Conns \cup {None}]
TimerStates == [pc : {"free", "armed", "fired", "looked", "inspected"}, id : Ids]
ConnRecords == [pc : ConnStates, tl : Tls, id : Ids]
Operations ==
    [pc : OpStates, kind : Kinds, new : BOOLEAN, back : BOOLEAN, prev : Tls, here : BOOLEAN,
     id : Ids]
Primaries ==
    [here : BOOLEAN, tl : Tls, serving : Tls \cup {None}, shut : BOOLEAN, reserved : BOOLEAN]

Typed ==
    /\ branch \in Rows
    /\ last \in Tls /\ file \in Tls
    /\ box \in Boxes
    /\ ctl \in Controllers
    /\ timer \in [Timers -> TimerStates]
    /\ conn \in [Conns -> ConnRecords]
    /\ op \in Operations
    /\ primary \in Primaries
    /\ faults \in 0..MaxFaults

\* Which operations come to which places; those that change the primary's timeline,
\* and a reset of a branch that is the primary.
OpSound ==
    /\ op.pc \in {"listen", "select", "publish"} => op.kind = "publish"
    /\ op.pc \in {"unlisten", "store"} => op.kind \in {"unpublish", "delete"}
    /\ op.pc \in {"inspectBox", "stopBox", "removeBox"} =>
          op.kind \in {"unpublish", "delete", "switch", "reset"}
    /\ op.pc \in {"attach", "takeBack", "refresh", "refreshInspect", "refreshStop",
                  "refreshStart", "refreshWait"} => op.kind = "reset"
    /\ op.pc \in {"reserve", "drain"} => op.kind \in {"switch", "reset"}
    /\ op.pc \in {"begin", "change", "finish", "release"} => op.kind \in {"switch", "leave", "reset"}
    /\ op.kind = "reset" => op.prev >= 1 /\ op.here = primary.here
    /\ op.kind = "reset" /\ op.pc \in {"reserve", "drain", "inspectBox", "stopBox", "removeBox",
                                       "begin", "change", "finish", "release"} => op.here

\* What the operations know of the listener.
ListenSound ==
    /\ ListenerListed
    /\ op.pc \in {"select", "publish"} /\ ~op.new => branch.published
    /\ op.kind \in {"unpublish", "delete"}
          /\ op.pc \in {"inspectBox", "stopBox", "removeBox", "store"} => ~ctl.listening

\* Where a connection knows its branch's timeline, where it holds a route to its own
\* compute, and where it has written the selection.
Knowing == {"read", "locked", "write", "inspect", "replace", "create", "start", "wait"}
Owning == {"write", "inspect", "replace", "create", "start", "wait"}
Writing == {"inspect", "replace", "create", "start", "wait"}
NoRoutes == \A c \in Conns : ~Routed(c)

ConnSound(s) ==
    /\ s.pc \in Knowing => s.tl >= 1
    /\ s.pc \in Owning => ~primary.here
    /\ s.pc \in Writing => file >= 1

\* The branch's compute runs on one of its own timelines, and only while the primary is
\* elsewhere; from the reservation for a switch on nobody starts it.
WriterSound ==
    /\ branch.tl >= 1 /\ last >= 1
    /\ ~primary.here => primary.tl = 0
    /\ primary.serving \in {None, primary.tl}
    /\ primary.here => ~Running
    /\ Running => file >= 1
    /\ box.state = "up" => box.tl >= 1
    /\ op.pc \in {"refreshInspect", "refreshStop", "refreshStart", "refreshWait"} => file >= 1
    /\ op.pc \in {"refreshStop", "refreshStart", "refreshWait"} => ~op.here
    /\ op.pc = "change" => primary.shut /\ NoRoutes
    /\ op.kind = "switch"
          /\ op.pc \in {"drain", "inspectBox", "stopBox", "removeBox", "begin", "change"} =>
       primary.reserved /\ NoRoutes
    /\ op.kind = "switch" /\ op.pc \in {"stopBox", "removeBox"} => op.id = box.id
    /\ op.kind = "switch" /\ op.pc \in {"begin", "change"} => box.state = "absent"
ConnsSound == \A c \in Conns : ConnSound(conn[c])

IInv == Typed /\ OpSound /\ ListenSound /\ WriterSound /\ ConnsSound /\ NoLeakedSlots

-----------------------------------------------------------------------------
(* Types of what the actions are made of *)

LEMMA TypedOK == Typed /\ StartLockHeld => TypeOK
  BY DEF Typed, TypeOK, Rows, Boxes, Controllers, TimerStates, ConnRecords, Operations, Primaries,
         Ids

\* What is fixed about the constants.
LEMMA Facts ==
    /\ None \notin Timers /\ None \notin Conns /\ None \notin Nat /\ IsFiniteSet(Conns)
    /\ MaxActive \in Nat /\ MaxActive >= 1
    /\ MaxTimeline \in Nat /\ MaxTimeline >= 1 /\ MaxBox \in Nat /\ MaxFaults \in Nat
    /\ 0 \in Tls /\ 1 \in Tls /\ 0 \in Ids
  BY NoneAssumption, ConnsAssumption, ActiveAssumption, BoundAssumption DEF Tls, Ids

LEMMA FaultTyped ==
    ASSUME faults \in 0..MaxFaults, Fault \/ UNCHANGED faults
    PROVE  faults' \in 0..MaxFaults
  BY BoundAssumption DEF Fault

LEMMA OutcomeTyped ==
    ASSUME faults \in 0..MaxFaults, NEW ok, Outcome(ok)
    PROVE  faults' \in 0..MaxFaults
  BY FaultTyped DEF Outcome

\* What the Docker calls make of the container.
LEMMA BoxCalls ==
    ASSUME box \in Boxes, NEW id \in Ids
    PROVE  /\ Halted \in Boxes /\ Halted.state = "stopped" /\ Halted.id = box.id
           /\ Stopped(id) \in Boxes
           /\ Stopped(id) = box \/ (Stopped(id).state = "stopped" /\ Stopped(id).id = box.id)
           /\ Removed(id) \in Boxes
           /\ Removed(id) = box \/ (Removed(id).state = "absent" /\ Removed(id).id = box.id)
           /\ id = box.id => Removed(id).state = "absent"
           /\ Started(id) \in Boxes
           /\ Started(id) = box
              \/ (box.state = "stopped" /\ Started(id).state = "booting" /\ Started(id).id = box.id)
  <1>1. Halted \in Boxes /\ Halted.state = "stopped" /\ Halted.id = box.id
    BY Facts DEF Halted, Boxes
  <1>2. NoBox \in Boxes /\ NoBox.state = "absent"
    BY Facts DEF NoBox, Boxes
  <1>3. [NoBox EXCEPT !.id = id] \in Boxes /\ [NoBox EXCEPT !.id = id].state = "absent"
        /\ [NoBox EXCEPT !.id = id].id = id
    BY <1>2 DEF Boxes
  <1>4. [box EXCEPT !.state = "booting"] \in Boxes
        /\ [box EXCEPT !.state = "booting"].state = "booting"
        /\ [box EXCEPT !.state = "booting"].id = box.id
    BY DEF Boxes
  <1>5. /\ Stopped(id) \in Boxes
        /\ Stopped(id) = box \/ (Stopped(id).state = "stopped" /\ Stopped(id).id = box.id)
    BY <1>1 DEF Stopped
  <1>6. /\ Removed(id) \in Boxes
        /\ Removed(id) = box \/ (Removed(id).state = "absent" /\ Removed(id).id = box.id)
        /\ id = box.id => Removed(id).state = "absent"
    BY <1>3 DEF Removed
  <1>7. /\ Started(id) \in Boxes
        /\ Started(id) = box
           \/ (box.state = "stopped" /\ Started(id).state = "booting" /\ Started(id).id = box.id)
    BY <1>4 DEF Started
  <1> QED
    BY <1>1, <1>5, <1>6, <1>7

LEMMA TimerCalls ==
    ASSUME timer \in [Timers -> TimerStates], ctl \in Controllers
    PROVE  /\ NoTimer \in TimerStates
           /\ CancelTimer \in [Timers -> TimerStates]
  <1>1. NoTimer \in TimerStates
    BY Facts DEF NoTimer, TimerStates
  <1>2. ctl.timer \in Timers \cup {None}
    BY DEF Controllers
  <1>3. \A t \in Timers : Unarmed(t) \in [Timers -> TimerStates]
    BY <1>1 DEF Unarmed
  <1> QED
    BY <1>1, <1>2, <1>3 DEF CancelTimer

LEMMA DecrementCalls ==
    ASSUME timer \in [Timers -> TimerStates], ctl \in Controllers, NEW u \in BOOLEAN, Decrement(u)
    PROVE  /\ timer' \in [Timers -> TimerStates] /\ ctl' \in Controllers
           /\ ctl'.active = CountedDown /\ ctl'.listening = ctl.listening
  <1> DEFINE lock == IF u THEN None ELSE ctl.lock
  <1>1. lock \in Conns \cup {None} /\ CountedDown \in 0..MaxActive
    BY Facts DEF Controllers, CountedDown
  <1>2. CancelTimer \in [Timers -> TimerStates]
    BY TimerCalls
  <1>3. CASE ctl.active > 1
    <2>1. ctl' = [ctl EXCEPT !.active = CountedDown, !.lock = lock] /\ timer' = timer
      BY <1>3 DEF Decrement
    <2> HIDE DEF lock
    <2> QED
      BY <1>1, <2>1 DEF Controllers
  <1>4. CASE ~(ctl.active > 1)
    <2>1. PICK t \in Timers :
             /\ timer' = [CancelTimer EXCEPT ![t] = [NoTimer EXCEPT !.pc = "armed"]]
             /\ ctl' = [ctl EXCEPT !.active = CountedDown, !.lock = lock, !.timer = t]
      BY <1>4 DEF Decrement
    <2>2. [NoTimer EXCEPT !.pc = "armed"] \in TimerStates
      BY Facts DEF NoTimer, TimerStates
    <2> HIDE DEF lock
    <2>3. timer' \in [Timers -> TimerStates]
      BY <1>2, <2>1, <2>2
    <2> QED
      BY <1>1, <2>1, <2>3 DEF Controllers
  <1> QED
    BY <1>3, <1>4

LEMMA StopListenerCalls ==
    ASSUME timer \in [Timers -> TimerStates], ctl \in Controllers, StopListener
    PROVE  /\ timer' \in [Timers -> TimerStates] /\ ctl' \in Controllers
           /\ ctl'.active = 0 /\ ~ctl'.listening
  <1>1. ctl' = [ctl EXCEPT !.listening = FALSE, !.active = 0, !.timer = None]
    BY DEF StopListener, ListenerStopped
  <1>2. FALSE \in BOOLEAN /\ 0 \in 0..MaxActive
    BY Facts
  <1>3. /\ ctl'.listening = FALSE /\ ctl'.active = 0 /\ ctl'.timer = None /\ ctl'.lock = ctl.lock
    BY <1>1 DEF Controllers
  <1>4. ctl' \in Controllers
    BY <1>1, <1>2 DEF Controllers
  <1> QED
    BY <1>3, <1>4, TimerCalls DEF StopListener

LEMMA NoOpTyped ==
    /\ NoOp \in Operations
    /\ NoOp.pc = "idle" /\ NoOp.kind = "publish"
  <1>1. FALSE \in BOOLEAN
    OBVIOUS
  <1> QED
    BY <1>1, Facts DEF NoOp, Operations, OpStates, Kinds

\* An operation that is done says nothing any more.
LEMMA DoneSound ==
    ASSUME op' = NoOp
    PROVE  op' \in Operations /\ OpSound' /\ op'.pc = "idle" /\ op'.kind = "publish"
  BY NoOpTyped DEF OpSound

\* The operation goes on to another place.
LEMMA GotoFields ==
    ASSUME op \in Operations, NEW pc \in OpStates, Goto(pc)
    PROVE  /\ op' \in Operations /\ op'.pc = pc
           /\ pc = "idle" => op' = NoOp
           /\ pc # "idle" =>
                 /\ op'.kind = op.kind /\ op'.new = op.new /\ op'.back = op.back
                 /\ op'.prev = op.prev /\ op'.here = op.here /\ op'.id = op.id
  <1>1. CASE pc = "idle"
    BY <1>1, NoOpTyped DEF Goto, Done
  <1>2. CASE pc # "idle"
    <2>1. op' = [op EXCEPT !.pc = pc]
      BY <1>2 DEF Goto
    <2> QED
      BY <1>2, <2>1 DEF Operations
  <1> QED
    BY <1>1, <1>2

LEMMA FailedTyped ==
    ASSUME op \in Operations
    PROVE  /\ op.kind \in {"publish", "unpublish", "delete"} => Failed = "idle"
           /\ op.kind \in {"switch", "leave"} => Failed = "release"
           /\ op.kind = "reset" /\ ~op.back => Failed = "takeBack"
           /\ op.kind = "reset" /\ op.back /\ ~op.here => Failed = "idle"
           /\ op.kind = "reset" /\ op.back /\ op.here /\ op.pc = "change" => Failed = "release"
           /\ op.kind = "reset" /\ op.back /\ op.here /\ op.pc # "change" => Failed = "begin"
           /\ Failed \in OpStates
  <1>1. op.kind \in {"publish", "unpublish", "delete"} => Failed = "idle"
    BY DEF Failed
  <1>2. op.kind \in {"switch", "leave"} => Failed = "release"
    BY DEF Failed
  <1>3. op.kind = "reset" /\ ~op.back => Failed = "takeBack"
    BY DEF Failed
  <1>4. op.kind = "reset" /\ op.back /\ ~op.here => Failed = "idle"
    BY DEF Failed
  <1>5. op.kind = "reset" /\ op.back /\ op.here /\ op.pc = "change" => Failed = "release"
    BY DEF Failed
  <1>6. op.kind = "reset" /\ op.back /\ op.here /\ op.pc # "change" => Failed = "begin"
    BY DEF Failed
  <1>7. op.kind \in {"publish", "unpublish", "delete", "reset", "switch", "leave"}
    BY DEF Operations, Kinds
  <1> QED
    BY <1>1, <1>2, <1>3, <1>4, <1>5, <1>6, <1>7 DEF OpStates

-----------------------------------------------------------------------------
(* Slots *)

LEMMA CountedFinite == IsFiniteSet(Counted) /\ Cardinality(Counted) \in Nat
  <1>1. Counted \subseteq Conns
    BY DEF Counted
  <1>2. IsFiniteSet(Counted)
    BY <1>1, Facts, FS_Subset
  <1> QED
    BY <1>2, FS_CardinalityType

\* The same connections are counted, and no more slots are taken.
LEMMA SlotsStay ==
    ASSUME NoLeakedSlots, ctl.active \in Nat, ctl'.active \in Nat, ctl'.active <= ctl.active,
           \A c \in Conns :
              conn'[c].pc \in {"none", "accepted"} <=> conn[c].pc \in {"none", "accepted"}
    PROVE  NoLeakedSlots'
  <1>1. Counted' = Counted
    BY DEF Counted
  <1> QED
    BY <1>1, CountedFinite DEF NoLeakedSlots

LEMMA SlotTaken ==
    ASSUME NoLeakedSlots, ctl.active \in Nat, ctl'.active = ctl.active + 1, NEW c \in Conns,
           conn[c].pc \in {"none", "accepted"}, conn'[c].pc \notin {"none", "accepted"},
           \A d \in Conns \ {c} : conn'[d] = conn[d]
    PROVE  NoLeakedSlots'
  <1>1. Counted' = Counted \cup {c} /\ c \notin Counted
    BY DEF Counted
  <1>2. Cardinality(Counted') = Cardinality(Counted) + 1
    BY <1>1, CountedFinite, FS_AddElement
  <1> QED
    BY <1>2, CountedFinite DEF NoLeakedSlots

LEMMA SlotGiven ==
    ASSUME NoLeakedSlots, ctl.active \in Nat, ctl'.active = CountedDown, NEW c \in Conns,
           conn[c].pc \notin {"none", "accepted"}, conn'[c].pc \in {"none", "accepted"},
           \A d \in Conns \ {c} : conn'[d] = conn[d]
    PROVE  NoLeakedSlots'
  <1>1. Counted' = Counted \ {c} /\ c \in Counted
    BY DEF Counted
  <1>2. Cardinality(Counted') = Cardinality(Counted) - 1 /\ Cardinality(Counted') \in Nat
    BY <1>1, CountedFinite, FS_RemoveElement, FS_CardinalityType
  <1> QED
    BY <1>2, CountedFinite DEF NoLeakedSlots, CountedDown

-----------------------------------------------------------------------------
(* The container and the timers *)

LEMMA BoxKeeps ==
    ASSUME IInv, BoxUp \/ BoxExits
    PROVE  IInv'
  <1>1. /\ box \in Boxes /\ file \in Tls /\ faults \in 0..MaxFaults /\ WriterSound
    BY DEF IInv, Typed
  <1>2. UNCHANGED <<branch, last, file, ctl, timer, conn, op, primary>> /\ Running
    BY DEF BoxUp, BoxExits, Running
  <1>3. /\ box' \in Boxes /\ box'.id = box.id /\ faults' \in 0..MaxFaults
        /\ \/ box'.state = "up" /\ box'.tl = file
           \/ box'.state = "stopped"
    <2>1. CASE BoxUp
      <3>1. box' = [box EXCEPT !.state = "up", !.tl = file] /\ UNCHANGED faults
        BY <2>1 DEF BoxUp
      <3> QED
        BY <1>1, <3>1 DEF Boxes
    <2>2. CASE BoxExits
      BY <1>1, <2>2, FaultTyped, BoxCalls, Facts DEF BoxExits
    <2> QED
      BY <2>1, <2>2
  <1>4. WriterSound'
    BY <1>1, <1>2, <1>3 DEF WriterSound, Running, NoRoutes, Routed
  <1>5. OpSound' /\ ListenSound' /\ ConnsSound' /\ NoLeakedSlots'
    BY <1>2 DEF IInv, OpSound, ListenSound, ListenerListed, ConnsSound, ConnSound, NoLeakedSlots,
       Counted
  <1> QED
    BY <1>2, <1>3, <1>4, <1>5 DEF IInv, Typed

LEMMA TimerKeeps ==
    ASSUME IInv, NEW t \in Timers, TimerNext(t)
    PROVE  IInv'
  <1>1. /\ box \in Boxes /\ timer \in [Timers -> TimerStates] /\ ctl \in Controllers
        /\ faults \in 0..MaxFaults /\ WriterSound
    BY DEF IInv, Typed
  <1>2. UNCHANGED <<branch, last, file, conn, op, primary>>
    BY DEF TimerNext, Fires, IdleLook, IdleInspect, IdleStop, TimerStep
  <1>3. NoTimer \in TimerStates /\ timer[t] \in TimerStates
    BY <1>1, TimerCalls
  <1>4. \A pc \in {"fired", "looked"} : [timer[t] EXCEPT !.pc = pc] \in TimerStates
    BY <1>3 DEF TimerStates
  <1>5. timer' \in [Timers -> TimerStates]
    <2>1. CASE Fires(t)
      BY <1>1, <1>4, <2>1 DEF Fires, TimerStep
    <2>2. CASE IdleLook(t)
      BY <1>1, <1>3, <1>4, <2>2 DEF IdleLook, TimerStep
    <2>3. CASE IdleInspect(t)
      <3>1. [pc |-> "inspected", id |-> box.id] \in TimerStates
        BY <1>1 DEF TimerStates, Boxes
      <3> QED
        BY <1>1, <1>3, <2>3, <3>1 DEF IdleInspect, TimerStep
    <2>4. CASE IdleStop(t)
      BY <1>1, <1>3, <2>4 DEF IdleStop, TimerStep
    <2> QED
      BY <2>1, <2>2, <2>3, <2>4 DEF TimerNext
  <1>6. /\ ctl' \in Controllers /\ ctl'.active = ctl.active /\ ctl'.listening = ctl.listening
    <2>1. CASE IdleLook(t)
      BY <1>1, <2>1 DEF IdleLook, Controllers
    <2>2. CASE ~IdleLook(t)
      BY <1>1, <2>2 DEF TimerNext, Fires, IdleInspect, IdleStop
    <2> QED
      BY <2>1, <2>2
  <1>7. box' = box \/ (box' \in Boxes /\ box'.state = "stopped" /\ box'.id = box.id)
    <2>1. CASE IdleStop(t)
      <3>1. timer[t].id \in Ids
        BY <1>3 DEF TimerStates
      <3>2. box' = Stopped(timer[t].id) \/ box' = box
        BY <2>1 DEF IdleStop
      <3> QED
        BY <1>1, <3>1, <3>2, BoxCalls
    <2>2. CASE ~IdleStop(t)
      BY <2>2 DEF TimerNext, Fires, IdleLook, IdleInspect
    <2> QED
      BY <2>1, <2>2
  <1>8. box' # box => box.state # "absent"
    BY <1>1, <1>3 DEF TimerNext, Fires, IdleLook, IdleInspect, IdleStop, Stopped
  <1>9. faults' \in 0..MaxFaults
    BY <1>1, OutcomeTyped DEF TimerNext, Fires, IdleLook, IdleInspect, IdleStop
  <1>10. WriterSound'
    BY <1>1, <1>2, <1>7, <1>8 DEF WriterSound, Running, NoRoutes, Routed
  <1>11. OpSound' /\ ListenSound' /\ ConnsSound'
    BY <1>2, <1>6 DEF IInv, OpSound, ListenSound, ListenerListed, ConnsSound, ConnSound
  <1>12. NoLeakedSlots'
    BY <1>2, <1>6 DEF IInv, NoLeakedSlots, Counted
  <1>13. box' \in Boxes
    BY <1>1, <1>7
  <1> QED
    BY <1>2, <1>5, <1>6, <1>9, <1>10, <1>11, <1>12, <1>13 DEF IInv, Typed

-----------------------------------------------------------------------------
(* The connections *)

\* A step of one connection that respects what ConnSound says of its new state. The
\* container is let alone, or touched, but not brought up, by one that owns the route.
LEMMA ConnKeepsIf ==
    ASSUME IInv, NEW c \in Conns, NEW s \in ConnRecords, ConnStep(c, s),
           timer' \in [Timers -> TimerStates], ctl' \in Controllers,
           ctl'.listening = ctl.listening, faults' \in 0..MaxFaults,
           file' = file \/ (file' \in Tls /\ file' >= 1),
           box' = box \/ (box' \in Boxes /\ box'.state # "up" /\ conn[c].pc \in Owning
                          /\ (box'.state = "booting" => file' >= 1)),
           s.pc \in Knowing => s.tl >= 1,
           s.pc \in Owning => ~primary.here,
           s.pc \in Writing => file' >= 1,
           s.pc \in Owning \cup {"dialPrimary"} =>
              conn[c].pc \in Owning \cup {"dialPrimary"} \/ (~primary.shut /\ ~primary.reserved),
           NoLeakedSlots'
    PROVE  IInv'
  <1>1. conn' = [conn EXCEPT ![c] = s] /\ UNCHANGED <<branch, last, op, primary>>
    BY DEF ConnStep
  <1>2. /\ conn \in [Conns -> ConnRecords] /\ box \in Boxes /\ file \in Tls
        /\ WriterSound /\ ConnsSound
    BY DEF IInv, Typed
  <1>3. conn' \in [Conns -> ConnRecords] /\ \A d \in Conns : conn'[d] = IF d = c THEN s ELSE conn[d]
    BY <1>1, <1>2
  <1>4. \A d \in Conns : Routed(d) <=> conn[d].pc \in Owning \cup {"dialPrimary"}
    BY DEF Routed, Owning
  <1>5. \A d \in Conns : Routed(d)' <=> conn'[d].pc \in Owning \cup {"dialPrimary"}
    BY DEF Routed, Owning
  <1>6. NoRoutes /\ (primary.shut \/ primary.reserved) => NoRoutes'
    BY <1>3, <1>4, <1>5 DEF NoRoutes
  <1>7. NoRoutes => box' = box
    BY <1>4 DEF NoRoutes
  <1>8. conn[c].pc \in Owning => ~primary.here
    BY <1>2 DEF ConnsSound, ConnSound
  <1>9. file >= 1 => file' >= 1
    BY <1>2
  <1>10. Running' => box' = box \/ (box'.state = "booting" /\ file' >= 1)
    BY <1>2 DEF Running
  <1>11. /\ primary'.here => ~Running'
         /\ Running' => file' >= 1
         /\ box'.state = "up" => box'.tl >= 1
    BY <1>1, <1>2, <1>8, <1>9, <1>10 DEF WriterSound, Running
  <1>12. WriterSound'
    BY <1>1, <1>2, <1>6, <1>7, <1>9, <1>11 DEF WriterSound
  <1>13. ConnsSound'
    <2> SUFFICES ASSUME NEW d \in Conns PROVE ConnSound(conn[d])'
      BY DEF ConnsSound
    <2>1. CASE d = c
      <3>1. conn'[d] = s
        BY <1>3, <2>1
      <3> QED
        BY <1>1, <3>1 DEF ConnSound
    <2>2. CASE d # c
      <3>1. conn'[d] = conn[d] /\ ConnSound(conn[d])
        BY <1>2, <1>3, <2>2 DEF ConnsSound
      <3> QED
        BY <1>1, <1>9, <3>1 DEF ConnSound
    <2> QED
      BY <2>1, <2>2
  <1>14. OpSound' /\ ListenSound'
    BY <1>1 DEF IInv, OpSound, ListenSound, ListenerListed
  <1>15. file' \in Tls /\ box' \in Boxes
    BY <1>2
  <1> QED
    BY <1>1, <1>3, <1>12, <1>13, <1>14, <1>15 DEF IInv, Typed

\* The handler returns.
LEMMA EndKeeps ==
    ASSUME IInv, NEW c \in Conns, conn[c].pc \notin {"none", "accepted"}, End(c),
           UNCHANGED <<file, box>>, faults' \in 0..MaxFaults
    PROVE  IInv'
  <1>1. /\ timer \in [Timers -> TimerStates] /\ ctl \in Controllers
        /\ conn \in [Conns -> ConnRecords]
    BY DEF IInv, Typed
  <1>2. ConnStep(c, NoConn) /\ Decrement(Unlocks(c)) /\ Unlocks(c) \in BOOLEAN
    BY DEF End, Unlocks, Starting
  <1>3. /\ timer' \in [Timers -> TimerStates] /\ ctl' \in Controllers
        /\ ctl'.active = CountedDown /\ ctl'.listening = ctl.listening
    BY <1>1, <1>2, DecrementCalls
  <1>4. NoConn \in ConnRecords /\ NoConn.pc = "none"
    BY Facts DEF NoConn, ConnRecords, ConnStates, Ids
  <1>5. conn' = [conn EXCEPT ![c] = NoConn]
    BY <1>2 DEF ConnStep
  <1>6. conn'[c].pc = "none" /\ \A d \in Conns \ {c} : conn'[d] = conn[d]
    BY <1>1, <1>4, <1>5
  <1>7. ctl.active \in Nat
    BY <1>1, Facts DEF Controllers
  <1>8. NoLeakedSlots'
    BY <1>3, <1>6, <1>7, SlotGiven DEF IInv
  <1> QED
    BY <1>2, <1>3, <1>4, <1>8, ConnKeepsIf DEF Knowing, Owning, Writing

\* A connection that goes on and keeps its slot, or is not counted before and after.
LEMMA ConnGoesOn ==
    ASSUME IInv, NEW c \in Conns, NEW s \in ConnRecords, ConnStep(c, s), UNCHANGED timer,
           ctl' = ctl \/ (\E l \in Conns \cup {None} : ctl' = [ctl EXCEPT !.lock = l]),
           UNCHANGED faults,
           file' = file \/ (file' \in Tls /\ file' >= 1),
           box' = box \/ (box' \in Boxes /\ box'.state # "up" /\ conn[c].pc \in Owning
                          /\ (box'.state = "booting" => file' >= 1)),
           s.pc \in {"none", "accepted"} <=> conn[c].pc \in {"none", "accepted"},
           s.pc \in Knowing => s.tl >= 1,
           s.pc \in Owning => ~primary.here,
           s.pc \in Writing => file' >= 1,
           s.pc \in Owning \cup {"dialPrimary"} =>
              conn[c].pc \in Owning \cup {"dialPrimary"} \/ (~primary.shut /\ ~primary.reserved)
    PROVE  IInv'
  <1>1. /\ timer \in [Timers -> TimerStates] /\ ctl \in Controllers /\ faults \in 0..MaxFaults
        /\ conn \in [Conns -> ConnRecords]
    BY DEF IInv, Typed
  <1>2. /\ ctl' \in Controllers /\ ctl'.listening = ctl.listening /\ ctl'.active = ctl.active
    BY <1>1 DEF Controllers
  <1>3. conn' = [conn EXCEPT ![c] = s]
    BY DEF ConnStep
  <1>4. \A d \in Conns :
           conn'[d].pc \in {"none", "accepted"} <=> conn[d].pc \in {"none", "accepted"}
    BY <1>1, <1>3
  <1>5. ctl.active \in Nat
    BY <1>1, Facts DEF Controllers
  <1>6. NoLeakedSlots'
    BY <1>2, <1>4, <1>5, SlotsStay DEF IInv
  <1> QED
    BY <1>1, <1>2, <1>6, ConnKeepsIf

LEMMA ConnKeeps ==
    ASSUME IInv, NEW c \in Conns, Accept(c) \/ Lock(c) \/ ConnNext(c) \/ Disconnect(c)
    PROVE  IInv'
  <1> DEFINE s == conn[c]
  <1>1. /\ s \in ConnRecords /\ box \in Boxes /\ file \in Tls /\ ctl \in Controllers
        /\ timer \in [Timers -> TimerStates] /\ faults \in 0..MaxFaults /\ branch \in Rows
        /\ conn \in [Conns -> ConnRecords]
    BY DEF IInv, Typed
  <1>2. ConnSound(s) /\ branch.tl >= 1 /\ WriterSound
    BY DEF IInv, ConnsSound, WriterSound
  <1>3. NoConn \in ConnRecords /\ NoConn.pc = "none"
    BY Facts DEF NoConn, ConnRecords, ConnStates, Ids
  <1>4. s.tl \in Tls /\ s.id \in Ids
    BY <1>1 DEF ConnRecords
  <1>5. None \in Conns \cup {None} /\ c \in Conns \cup {None}
    OBVIOUS
  \* Going on with the timeline and the id that are known.
  <1>6. \A pc \in ConnStates : LET n == [s EXCEPT !.pc = pc] IN
           n \in ConnRecords /\ n.pc = pc /\ n.tl = s.tl /\ n.id = s.id
    BY <1>1 DEF ConnRecords
  <1>7. \A pc \in ConnStates : ConnGoto(c, pc) =>
           \E n \in ConnRecords : ConnStep(c, n) /\ n.pc = pc /\ n.tl = s.tl
    BY <1>6 DEF ConnGoto
  <1>8. \A pc \in {"dial", "dialPrimary"} : LET n == [NoConn EXCEPT !.pc = pc] IN
           n \in ConnRecords /\ n.pc = pc
    BY <1>3 DEF ConnRecords, ConnStates
  <1> HIDE DEF s
  <1>9. ASSUME End(c), s.pc \notin {"none", "accepted"}, UNCHANGED <<file, box>>,
               Fault \/ UNCHANGED faults
        PROVE  IInv'
    BY <1>1, <1>9, FaultTyped, EndKeeps DEF s
  <1>10. CASE Accept(c)
    <2>1. s.pc = "none" /\ UNCHANGED <<file, box, ctl, timer, faults>> /\ ConnGoto(c, "accepted")
      BY <1>10 DEF Accept, s
    <2>2. PICK n \in ConnRecords : ConnStep(c, n) /\ n.pc = "accepted"
      BY <1>7, <2>1 DEF ConnStates
    <2> QED
      BY <2>1, <2>2, ConnGoesOn DEF Knowing, Owning, Writing, s
  <1>11. CASE Count(c)
    <2>1. s.pc = "accepted" /\ timer' = CancelTimer /\ UNCHANGED <<file, box, faults>>
      BY <1>11 DEF Count, s
    <2>2. timer' \in [Timers -> TimerStates]
      BY <1>1, <2>1, TimerCalls
    <2>3. ctl.active \in Nat
      BY <1>1, Facts DEF Controllers
    <2>4. CASE ctl.active < MaxActive
      <3>1. ctl' = [ctl EXCEPT !.active = @ + 1, !.timer = None] /\ ConnGoto(c, "counted")
        BY <1>11, <2>4 DEF Count
      <3>2. PICK n \in ConnRecords : ConnStep(c, n) /\ n.pc = "counted"
        BY <1>7, <3>1 DEF ConnStates
      <3>3. ctl.active + 1 \in 0..MaxActive
        BY <2>3, <2>4, Facts
      <3>4. ctl' \in Controllers /\ ctl'.active = ctl.active + 1 /\ ctl'.listening = ctl.listening
        BY <1>1, <3>1, <3>3 DEF Controllers
      <3>5. conn' = [conn EXCEPT ![c] = n]
        BY <3>2 DEF ConnStep
      <3>6. conn'[c].pc = "counted" /\ \A d \in Conns \ {c} : conn'[d] = conn[d]
        BY <1>1, <3>2, <3>5
      <3>7. NoLeakedSlots'
        BY <2>1, <2>3, <3>4, <3>6, SlotTaken DEF IInv, s
      <3> QED
        BY <1>1, <2>1, <2>2, <3>2, <3>4, <3>7, ConnKeepsIf DEF Knowing, Owning, Writing
    <2>5. CASE ~(ctl.active < MaxActive)
      <3>1. ctl' = [ctl EXCEPT !.timer = None] /\ ConnStep(c, NoConn)
        BY <1>11, <2>5 DEF Count
      <3>2. ctl' \in Controllers /\ ctl'.active = ctl.active /\ ctl'.listening = ctl.listening
        BY <1>1, <3>1 DEF Controllers
      <3>3. conn' = [conn EXCEPT ![c] = NoConn]
        BY <3>1 DEF ConnStep
      <3>4. \A d \in Conns :
               conn'[d].pc \in {"none", "accepted"} <=> conn[d].pc \in {"none", "accepted"}
        BY <1>1, <1>3, <2>1, <3>3 DEF s
      <3>5. NoLeakedSlots'
        BY <2>3, <3>2, <3>4, SlotsStay DEF IInv
      <3> QED
        BY <1>1, <1>3, <2>1, <2>2, <3>1, <3>2, <3>5, ConnKeepsIf DEF Knowing, Owning, Writing
    <2> QED
      BY <2>4, <2>5
  <1>12. CASE ReadBranch(c)
    <2> DEFINE n == [s EXCEPT !.pc = "read", !.tl = branch.tl]
    <2>1. s.pc = "counted" /\ ConnStep(c, n) /\ UNCHANGED <<file, box, ctl, timer, faults>>
      BY <1>12 DEF ReadBranch, s
    <2>2. n \in ConnRecords /\ n.pc = "read" /\ n.tl = branch.tl
      BY <1>1 DEF ConnRecords, ConnStates, Rows
    <2> HIDE DEF n
    <2> QED
      BY <1>2, <2>1, <2>2, ConnGoesOn DEF Owning, Writing, s
  <1>13. CASE ReadFails(c) \/ RouteRefused(c) \/ InspectRefuses(c) \/ StartGone(c) \/ WaitFails(c)
              \/ DialFails(c) \/ Disconnect(c)
    BY <1>9, <1>13 DEF ReadFails, RouteRefused, InspectRefuses, StartGone, WaitFails, DialFails,
       Disconnect, s
  <1>14. CASE ConnFails(c)
    BY <1>9, <1>14 DEF ConnFails, s
  <1>15. CASE Lock(c)
    <2>1. /\ s.pc = "read" /\ ctl' = [ctl EXCEPT !.lock = c] /\ ConnGoto(c, "locked")
          /\ UNCHANGED <<file, box, timer, faults>>
      BY <1>15 DEF Lock, s
    <2>2. PICK n \in ConnRecords : ConnStep(c, n) /\ n.pc = "locked" /\ n.tl = s.tl
      BY <1>7, <2>1 DEF ConnStates
    <2> QED
      BY <1>2, <1>5, <2>1, <2>2, ConnGoesOn DEF ConnSound, Knowing, Owning, Writing, s
  <1>16. CASE RoutePrimary(c)
    <2> DEFINE n == [NoConn EXCEPT !.pc = "dialPrimary"]
    <2>1. /\ s.pc = "locked" /\ ~primary.shut /\ ~primary.reserved
          /\ ctl' = [ctl EXCEPT !.lock = None] /\ ConnStep(c, n)
          /\ UNCHANGED <<file, box, timer, faults>>
      BY <1>16 DEF RoutePrimary, Refused, s
    <2>2. n \in ConnRecords /\ n.pc = "dialPrimary"
      BY <1>8
    <2> HIDE DEF n
    <2> QED
      BY <1>5, <2>1, <2>2, ConnGoesOn DEF Knowing, Owning, Writing, s
  <1>17. CASE RouteBranch(c)
    <2>1. /\ s.pc = "locked" /\ ~primary.shut /\ ~primary.reserved /\ ~primary.here
          /\ ConnGoto(c, "write")
          /\ UNCHANGED <<file, box, ctl, timer, faults>>
      BY <1>17 DEF RouteBranch, Refused, s
    <2>2. PICK n \in ConnRecords : ConnStep(c, n) /\ n.pc = "write" /\ n.tl = s.tl
      BY <1>7, <2>1 DEF ConnStates
    <2> QED
      BY <1>2, <2>1, <2>2, ConnGoesOn DEF ConnSound, Knowing, Owning, Writing, s
  <1>18. CASE WriteFile(c)
    <2>1. /\ s.pc = "write" /\ file' = s.tl /\ ConnGoto(c, "inspect")
          /\ UNCHANGED <<box, ctl, timer, faults>>
      BY <1>18 DEF WriteFile, s
    <2>2. PICK n \in ConnRecords : ConnStep(c, n) /\ n.pc = "inspect" /\ n.tl = s.tl
      BY <1>7, <2>1 DEF ConnStates
    <2> QED
      BY <1>2, <1>4, <2>1, <2>2, ConnGoesOn DEF ConnSound, Knowing, Owning, Writing, s
  <1>19. CASE Inspect(c)
    <2> DEFINE pc == CASE box.state = "absent" -> "create"
                       [] Running -> "wait"
                       [] box.state = "stopped" -> IF box.old THEN "replace" ELSE "start"
               n == [s EXCEPT !.id = box.id, !.pc = pc]
    <2>1. s.pc = "inspect" /\ ConnStep(c, n) /\ UNCHANGED <<file, box, ctl, timer, faults>>
      BY <1>19 DEF Inspect, s
    <2>2. pc \in {"create", "wait", "replace", "start"}
      <3>1. box.state \in {"absent", "stopped", "booting", "up"}
        BY <1>1 DEF Boxes
      <3>2. CASE box.state = "absent"
        BY <3>2 DEF Running
      <3>3. CASE Running
        BY <3>3 DEF Running
      <3>4. CASE box.state = "stopped"
        BY <3>4 DEF Running
      <3> QED
        BY <3>1, <3>2, <3>3, <3>4 DEF Running
    <2> HIDE DEF pc
    <2>3. n \in ConnRecords /\ n.pc = pc /\ n.tl = s.tl
      BY <1>1, <2>2 DEF ConnRecords, ConnStates, Boxes
    <2> HIDE DEF n
    <2> QED
      BY <1>2, <2>1, <2>2, <2>3, ConnGoesOn DEF ConnSound, Knowing, Owning, Writing, s
  <1>20. CASE Replace(c)
    <2>1. /\ s.pc = "replace" /\ box' = Removed(s.id) /\ ConnGoto(c, "create")
          /\ UNCHANGED <<file, ctl, timer, faults>>
      BY <1>20 DEF Replace, s
    <2>2. PICK n \in ConnRecords : ConnStep(c, n) /\ n.pc = "create" /\ n.tl = s.tl
      BY <1>7, <2>1 DEF ConnStates
    <2>3. box' = box \/ (box' \in Boxes /\ box'.state = "absent")
      BY <1>1, <1>4, <2>1, BoxCalls
    <2> QED
      BY <1>2, <2>1, <2>2, <2>3, ConnGoesOn DEF ConnSound, Knowing, Owning, Writing, s
  <1>21. CASE Create(c)
    <2> DEFINE n == [s EXCEPT !.pc = "start", !.id = box.id + 1]
    <2>1. /\ s.pc = "create" /\ box.id < MaxBox /\ ConnStep(c, n)
          /\ box' = [NoBox EXCEPT !.state = "stopped", !.id = box.id + 1]
          /\ UNCHANGED <<file, ctl, timer, faults>>
      BY <1>21 DEF Create, s
    <2>2. box.id + 1 \in Ids
      BY <1>1, <2>1, Facts DEF Boxes, Ids
    <2>3. NoBox \in Boxes
      BY Facts DEF NoBox, Boxes
    <2>4. box' \in Boxes /\ box'.state = "stopped"
      BY <2>1, <2>2, <2>3 DEF Boxes
    <2>5. n \in ConnRecords /\ n.pc = "start" /\ n.tl = s.tl
      BY <1>1, <2>2 DEF ConnRecords, ConnStates
    <2> HIDE DEF n
    <2> QED
      BY <1>2, <2>1, <2>4, <2>5, ConnGoesOn DEF ConnSound, Knowing, Owning, Writing, s
  <1>22. CASE Start(c)
    <2>1. /\ s.pc = "start" /\ box' = Started(s.id) /\ ConnGoto(c, "wait")
          /\ UNCHANGED <<file, ctl, timer, faults>>
      BY <1>22 DEF Start, s
    <2>2. PICK n \in ConnRecords : ConnStep(c, n) /\ n.pc = "wait" /\ n.tl = s.tl
      BY <1>7, <2>1 DEF ConnStates
    <2>3. box' = box \/ (box' \in Boxes /\ box'.state = "booting")
      BY <1>1, <1>4, <2>1, BoxCalls
    <2>4. file >= 1
      BY <1>2, <2>1 DEF ConnSound, Writing
    <2> QED
      BY <1>2, <2>1, <2>2, <2>3, <2>4, ConnGoesOn DEF ConnSound, Knowing, Owning, Writing, s
  <1>23. CASE WaitUp(c)
    <2> DEFINE n == [NoConn EXCEPT !.pc = "dial"]
    <2>1. /\ s.pc = "wait" /\ ctl' = [ctl EXCEPT !.lock = None] /\ ConnStep(c, n)
          /\ UNCHANGED <<file, box, timer, faults>>
      BY <1>23 DEF WaitUp, s
    <2>2. n \in ConnRecords /\ n.pc = "dial"
      BY <1>8
    <2> HIDE DEF n
    <2> QED
      BY <1>5, <2>1, <2>2, ConnGoesOn DEF Knowing, Owning, Writing, s
  <1>24. CASE Dial(c)
    <2>1. /\ s.pc \in {"dial", "dialPrimary"}
          /\ ConnGoto(c, "proxy") \/ ConnGoto(c, "proxyPrimary")
          /\ UNCHANGED <<file, box, ctl, timer, faults>>
      BY <1>24 DEF Dial, s
    <2>2. PICK n \in ConnRecords : ConnStep(c, n) /\ n.pc \in {"proxy", "proxyPrimary"}
      BY <1>7, <2>1 DEF ConnStates
    <2> QED
      BY <2>1, <2>2, ConnGoesOn DEF Knowing, Owning, Writing, s
  <1> QED
    BY <1>10, <1>11, <1>12, <1>13, <1>14, <1>15, <1>16, <1>17, <1>18, <1>19, <1>20, <1>21, <1>22,
       <1>23, <1>24 DEF ConnNext

-----------------------------------------------------------------------------
(* The operations *)

\* A step of an operation that respects what the invariant says of it.
LEMMA OpKeepsIf ==
    ASSUME IInv, UNCHANGED conn, branch' \in Rows, last' \in Tls, box' \in Boxes,
           file' = file \/ (file' \in Tls /\ file' >= 1),
           timer' \in [Timers -> TimerStates], ctl' \in Controllers,
           ctl'.active <= ctl.active,
           op' \in Operations, primary' \in Primaries, faults' \in 0..MaxFaults,
           primary'.here => primary.here \/ NoRoutes,
           OpSound', ListenSound', WriterSound'
    PROVE  IInv'
  <1>1. /\ conn \in [Conns -> ConnRecords] /\ file \in Tls /\ ctl \in Controllers
        /\ ConnsSound /\ NoLeakedSlots
    BY DEF IInv, Typed
  <1>2. Typed'
    BY <1>1 DEF Typed
  <1>3. ConnsSound'
    <2> SUFFICES ASSUME NEW c \in Conns PROVE ConnSound(conn[c])'
      BY DEF ConnsSound
    <2>1. ConnSound(conn[c])
      BY <1>1 DEF ConnsSound
    <2>2. conn[c].pc \in Owning => ~NoRoutes
      BY DEF NoRoutes, Routed, Owning
    <2>3. file >= 1 => file' >= 1
      BY <1>1
    <2> QED
      BY <2>1, <2>2, <2>3 DEF ConnSound
  <1>4. ctl.active \in Nat /\ ctl'.active \in Nat
    BY <1>1, Facts DEF Controllers
  <1>5. NoLeakedSlots'
    BY <1>1, <1>4, SlotsStay
  <1> QED
    BY <1>2, <1>3, <1>5 DEF IInv

\* A step that only moves the operation.
LEMMA OpMoves ==
    ASSUME IInv, UNCHANGED <<branch, last, file, box, ctl, timer, conn, primary>>,
           Fault \/ UNCHANGED faults, op' \in Operations, OpSound',
           op'.pc \in {"select", "publish"} => branch.published,
           op'.kind \in {"unpublish", "delete"}
              /\ op'.pc \in {"inspectBox", "stopBox", "removeBox", "store"} => ~ctl.listening,
           op'.pc \in {"refreshInspect", "refreshStop", "refreshStart", "refreshWait"} => file >= 1,
           op'.pc \in {"refreshStop", "refreshStart", "refreshWait"} => ~op'.here,
           op'.pc = "change" => primary.shut /\ NoRoutes,
           op'.kind = "switch"
              /\ op'.pc \in {"drain", "inspectBox", "stopBox", "removeBox", "begin", "change"} =>
           primary.reserved /\ NoRoutes,
           op'.kind = "switch" /\ op'.pc \in {"stopBox", "removeBox"} => op'.id = box.id,
           op'.kind = "switch" /\ op'.pc \in {"begin", "change"} => box.state = "absent",
           op.pc \in {"select", "publish"} => branch.published \/ ~ctl.listening
    PROVE  IInv'
  <1>1. Typed /\ ListenSound /\ WriterSound
    BY DEF IInv
  <1>2. ListenSound'
    BY <1>1 DEF ListenSound, ListenerListed
  <1>3. NoRoutes' = NoRoutes /\ Running' = Running
    BY DEF NoRoutes, Routed, Running
  <1>4. WriterSound'
    BY <1>1, <1>3 DEF WriterSound
  <1>5. faults' \in 0..MaxFaults
    BY <1>1, FaultTyped DEF Typed
  <1>6. ctl.active \in Nat
    BY <1>1, Facts DEF Typed, Controllers
  <1> QED
    BY <1>1, <1>2, <1>4, <1>5, <1>6, OpKeepsIf DEF Typed

\* What is known before every step of an operation.
LEMMA OpKnown ==
    ASSUME IInv
    PROVE  /\ op \in Operations /\ box \in Boxes /\ branch \in Rows /\ ctl \in Controllers
           /\ timer \in [Timers -> TimerStates] /\ primary \in Primaries /\ faults \in 0..MaxFaults
           /\ last \in Tls /\ file \in Tls /\ OpSound /\ ListenSound /\ WriterSound
           /\ ctl.active \in Nat
  BY Facts DEF IInv, Typed, Controllers

LEMMA RequestKeeps ==
    ASSUME IInv, NEW kind \in Kinds, Request(kind)
    PROVE  IInv'
  <1> DEFINE pc == CASE kind = "publish" -> "listen"
                     [] kind \in {"unpublish", "delete"} -> "unlisten"
                     [] kind = "switch" -> "reserve"
                     [] kind = "leave" -> "begin"
                     [] kind = "reset" -> IF primary.here THEN "reserve" ELSE "attach"
  <1>1. /\ op.pc = "idle"
        /\ op' = [NoOp EXCEPT !.kind = kind, !.prev = branch.tl, !.here = primary.here, !.pc = pc]
        /\ UNCHANGED <<branch, last, file, box, ctl, timer, conn, primary, faults>>
    BY DEF Request, At, Quiet
  <1>2. /\ kind = "publish" => pc = "listen"
        /\ kind \in {"unpublish", "delete"} => pc = "unlisten"
        /\ kind = "switch" => pc = "reserve"
        /\ kind = "leave" => pc = "begin"
        /\ kind = "reset" => pc = IF primary.here THEN "reserve" ELSE "attach"
    OBVIOUS
  <1> HIDE DEF pc
  <1>3. pc \in OpStates
    BY <1>2 DEF Kinds, OpStates
  <1>4. /\ op' \in Operations
        /\ op'.pc = pc /\ op'.kind = kind /\ op'.prev = branch.tl /\ op'.here = primary.here
    BY <1>1, <1>3, NoOpTyped, OpKnown DEF Operations, Rows, Primaries
  <1>5. OpSound'
    BY <1>1, <1>2, <1>4, OpKnown DEF OpSound, WriterSound, Kinds
  <1> QED
    BY <1>1, <1>2, <1>4, <1>5, OpMoves DEF Kinds

LEMMA ListenKeeps ==
    ASSUME IInv, Listen
    PROVE  IInv'
  <1>1. /\ op.pc = "listen"
        /\ op' = [op EXCEPT !.pc = "select", !.new = ~branch.published]
        /\ ctl' = [ctl EXCEPT !.listening = TRUE]
        /\ UNCHANGED <<branch, last, file, box, timer, conn, primary, faults>>
    BY DEF Listen, At, Quiet
  <1>2. (~branch.published) \in BOOLEAN /\ "select" \in OpStates /\ TRUE \in BOOLEAN
    BY DEF OpStates
  <1>3. /\ op' \in Operations /\ op'.pc = "select" /\ op'.new = ~branch.published
        /\ op'.kind = op.kind /\ op'.prev = op.prev /\ op'.here = op.here /\ op'.id = op.id
    BY <1>1, <1>2, OpKnown DEF Operations
  <1>4. ctl' \in Controllers /\ ctl'.active = ctl.active
    BY <1>1, <1>2, OpKnown DEF Controllers
  <1>5. OpSound' /\ ListenSound'
    BY <1>1, <1>3, OpKnown DEF OpSound, ListenSound, ListenerListed
  <1>6. WriterSound'
    BY <1>1, <1>3, OpKnown DEF WriterSound, OpSound, Running, NoRoutes, Routed
  <1> QED
    BY <1>1, <1>3, <1>4, <1>5, <1>6, OpKnown, OpKeepsIf

LEMMA SelectKeeps ==
    ASSUME IInv, Select
    PROVE  IInv'
  <1>1. /\ op.pc = "select" /\ file' = branch.tl /\ Goto("publish")
        /\ UNCHANGED <<branch, last, box, ctl, timer, conn, primary, faults>>
    BY DEF Select, At, Quiet
  <1>2. /\ op' \in Operations /\ op'.pc = "publish" /\ op'.new = op.new
        /\ op'.kind = op.kind /\ op'.prev = op.prev /\ op'.here = op.here
    BY <1>1, OpKnown, GotoFields DEF OpStates
  <1>3. file' \in Tls /\ file' >= 1
    BY <1>1, OpKnown DEF WriterSound, Rows
  <1>4. OpSound' /\ ListenSound'
    BY <1>1, <1>2, OpKnown DEF OpSound, ListenSound, ListenerListed
  <1>5. WriterSound'
    BY <1>1, <1>2, <1>3, OpKnown DEF WriterSound, OpSound, Running, NoRoutes, Routed
  <1> QED
    BY <1>1, <1>2, <1>3, <1>4, <1>5, OpKnown, OpKeepsIf

LEMMA PublishKeeps ==
    ASSUME IInv, Publish
    PROVE  IInv'
  <1>1. /\ op.pc = "publish" /\ branch' = [branch EXCEPT !.published = TRUE] /\ op' = NoOp
        /\ UNCHANGED <<last, file, box, ctl, timer, conn, primary, faults>>
    BY DEF Publish, At, Quiet, Done
  <1>2. TRUE \in BOOLEAN
    OBVIOUS
  <1>3. branch' \in Rows /\ branch'.tl = branch.tl /\ branch'.published
    BY <1>1, <1>2, OpKnown DEF Rows
  <1>4. op' \in Operations /\ OpSound' /\ op'.pc = "idle" /\ op'.kind = "publish"
    BY <1>1, DoneSound
  <1>5. ListenSound'
    BY <1>3, <1>4 DEF ListenSound, ListenerListed
  <1>6. WriterSound'
    BY <1>1, <1>3, <1>4, OpKnown DEF WriterSound, Running
  <1> QED
    BY <1>1, <1>3, <1>4, <1>5, <1>6, OpKnown, OpKeepsIf

LEMMA PublishFailsKeeps ==
    ASSUME IInv, ListenFails \/ PublishFails
    PROVE  IInv'
  <1>1. op' = NoOp /\ UNCHANGED <<branch, last, file, box, conn, primary>> /\ Fault
    BY DEF ListenFails, PublishFails, Done, Quiet
  <1>2. op' \in Operations /\ OpSound' /\ op'.pc = "idle" /\ op'.kind = "publish"
    BY <1>1, DoneSound
  <1>3. \/ StopListener
        \/ UNCHANGED <<ctl, timer>> /\ (op.pc = "listen" \/ ~op.new)
    BY DEF ListenFails, PublishFails, TakesBack, At, Quiet
  <1>4. /\ timer' \in [Timers -> TimerStates] /\ ctl' \in Controllers
        /\ ctl'.active <= ctl.active
        /\ ctl'.listening => branch.published
    <2>1. CASE StopListener
      BY <2>1, OpKnown, StopListenerCalls
    <2>2. CASE UNCHANGED <<ctl, timer>> /\ (op.pc = "listen" \/ ~op.new)
      BY <2>2, OpKnown DEF ListenSound, ListenerListed
    <2> QED
      BY <1>3, <2>1, <2>2
  <1>5. ListenSound'
    BY <1>1, <1>2, <1>4 DEF ListenSound, ListenerListed
  <1>6. WriterSound'
    BY <1>1, <1>2, OpKnown DEF WriterSound, Running
  <1>7. faults' \in 0..MaxFaults
    BY <1>1, OpKnown, FaultTyped
  <1> QED
    BY <1>1, <1>2, <1>4, <1>5, <1>6, <1>7, OpKnown, OpKeepsIf

LEMMA UnlistenKeeps ==
    ASSUME IInv, Unlisten
    PROVE  IInv'
  <1>1. /\ op.pc = "unlisten" /\ StopListener /\ Goto("inspectBox")
        /\ UNCHANGED <<branch, last, file, box, conn, primary, faults>>
    BY DEF Unlisten, At
  <1>2. /\ op' \in Operations /\ op'.pc = "inspectBox"
        /\ op'.kind = op.kind /\ op'.prev = op.prev /\ op'.here = op.here
    BY <1>1, OpKnown, GotoFields DEF OpStates
  <1>3. /\ timer' \in [Timers -> TimerStates] /\ ctl' \in Controllers
        /\ ctl'.active <= ctl.active /\ ~ctl'.listening
    BY <1>1, OpKnown, StopListenerCalls
  <1>4. OpSound' /\ ListenSound'
    BY <1>1, <1>2, <1>3, OpKnown DEF OpSound, ListenSound, ListenerListed
  <1>5. WriterSound'
    BY <1>1, <1>2, OpKnown DEF WriterSound, OpSound, Running
  <1> QED
    BY <1>1, <1>2, <1>3, <1>4, <1>5, OpKnown, OpKeepsIf

LEMMA InspectBoxKeeps ==
    ASSUME IInv, InspectBox
    PROVE  IInv'
  <1>1. /\ op.pc = "inspectBox"
        /\ UNCHANGED <<branch, last, file, box, ctl, timer, conn, primary, faults>>
    BY DEF InspectBox, At, Quiet
  <1>2. op.kind \in {"unpublish", "delete", "switch", "reset"}
    BY <1>1, OpKnown DEF OpSound
  <1>3. CASE box.state = "absent"
    <2>1. PICK pc \in {"store", "begin"} : Goto(pc) /\ (Unpublishing <=> pc = "store")
      BY <1>3 DEF InspectBox
    <2>2. /\ op' \in Operations /\ op'.pc = pc
          /\ op'.kind = op.kind /\ op'.prev = op.prev /\ op'.here = op.here
      BY <2>1, OpKnown, GotoFields DEF OpStates
    <2>3. OpSound'
      BY <1>1, <1>2, <2>1, <2>2, OpKnown DEF OpSound, Unpublishing
    <2> QED
      BY <1>1, <1>3, <2>1, <2>2, <2>3, OpKnown, OpMoves DEF ListenSound, WriterSound, Unpublishing
  <1>4. CASE box.state # "absent"
    <2>1. PICK pc \in {"stopBox", "removeBox"} : op' = [op EXCEPT !.id = box.id, !.pc = pc]
      BY <1>4 DEF InspectBox
    <2>2. /\ op' \in Operations /\ op'.pc = pc /\ op'.id = box.id
          /\ op'.kind = op.kind /\ op'.prev = op.prev /\ op'.here = op.here
      BY <2>1, OpKnown DEF OpStates, Operations, Boxes
    <2>3. OpSound'
      BY <1>1, <2>2, OpKnown DEF OpSound
    <2> QED
      BY <1>1, <2>2, <2>3, OpKnown, OpMoves DEF ListenSound, WriterSound
  <1> QED
    BY <1>3, <1>4

\* Where an operation is after an error.
LEMMA FailedMoves ==
    ASSUME IInv, Goto(Failed), primary'.here = primary.here
    PROVE  /\ op' \in Operations /\ OpSound'
           /\ op'.pc \in {"idle", "release", "takeBack", "begin"}
           /\ op'.pc = "begin" => op'.kind = "reset"
           /\ op'.kind \notin {"unpublish", "delete"}
  <1>1. Failed \in OpStates /\ op.kind \in Kinds
    BY OpKnown, FailedTyped DEF Operations
  <1>2. CASE Failed = "idle"
    <2>1. op' = NoOp
      BY <1>2 DEF Goto, Done
    <2> QED
      BY <2>1, DoneSound
  <1>3. CASE Failed # "idle"
    <2>1. /\ op' \in Operations /\ op'.pc = Failed
          /\ op'.kind = op.kind /\ op'.prev = op.prev /\ op'.here = op.here
      BY <1>1, <1>3, OpKnown, GotoFields
    <2>2. op.kind \in {"switch", "leave", "reset"}
      BY <1>1, <1>3, OpKnown, FailedTyped DEF Kinds
    <2>3. Failed \in {"release", "takeBack", "begin"}
      BY <1>3, <2>2, OpKnown, FailedTyped
    <2>4. /\ Failed = "begin" => op.kind = "reset" /\ op.here
          /\ Failed = "takeBack" => op.kind = "reset"
          /\ Failed = "release" /\ op.kind = "reset" => op.here
      BY <2>2, OpKnown, FailedTyped
    <2>5. op.kind = "reset" => op'.prev >= 1 /\ op'.here = primary.here
      BY <2>1, OpKnown DEF OpSound
    <2> QED
      BY <2>1, <2>2, <2>3, <2>4, <2>5, OpKnown DEF OpSound
  <1> QED
    BY <1>2, <1>3

LEMMA StopBoxKeeps ==
    ASSUME IInv, StopBox
    PROVE  IInv'
  <1>1. /\ op.pc = "stopBox" /\ UNCHANGED <<branch, last, file, ctl, timer, conn, primary>>
    BY DEF StopBox, At, Quiet
  <1>2. PICK ok \in BOOLEAN :
           /\ Outcome(ok)
           /\ box' = IF ok THEN Stopped(op.id) ELSE box
           /\ Goto(IF ok \/ Unpublishing THEN "removeBox" ELSE Failed)
    BY DEF StopBox
  <1>3. faults' \in 0..MaxFaults
    BY <1>2, OpKnown, OutcomeTyped
  <1>4. op.id \in Ids
    BY OpKnown DEF Operations
  <1>5. box' = box \/ (box' \in Boxes /\ box'.state = "stopped" /\ box'.id = box.id)
    BY <1>2, <1>4, OpKnown, BoxCalls
  <1>6. CASE ok \/ Unpublishing
    <2>1. /\ op' \in Operations /\ op'.pc = "removeBox" /\ op'.id = op.id
          /\ op'.kind = op.kind /\ op'.prev = op.prev /\ op'.here = op.here
      BY <1>2, <1>6, OpKnown, GotoFields DEF OpStates
    <2>2. OpSound' /\ ListenSound'
      BY <1>1, <2>1, OpKnown DEF OpSound, ListenSound, ListenerListed
    <2>3. WriterSound'
      BY <1>1, <1>5, <2>1, OpKnown DEF WriterSound, OpSound, Running, NoRoutes, Routed
    <2> QED
      BY <1>1, <1>3, <1>5, <2>1, <2>2, <2>3, OpKnown, OpKeepsIf
  <1>7. CASE ~(ok \/ Unpublishing)
    <2>1. /\ op' \in Operations /\ OpSound'
          /\ op'.pc \in {"idle", "release", "takeBack", "begin"}
          /\ op'.pc = "begin" => op'.kind = "reset"
          /\ op'.kind \notin {"unpublish", "delete"}
      BY <1>1, <1>2, <1>7, FailedMoves
    <2>2. box' = box /\ (Fault \/ UNCHANGED faults)
      BY <1>2, <1>7 DEF Outcome
    <2> QED
      BY <1>1, <2>1, <2>2, OpMoves
  <1> QED
    BY <1>6, <1>7

LEMMA RemoveBoxKeeps ==
    ASSUME IInv, RemoveBox
    PROVE  IInv'
  <1>1. /\ op.pc = "removeBox" /\ box' = Removed(op.id)
        /\ UNCHANGED <<branch, last, file, ctl, timer, conn, primary, faults>>
    BY DEF RemoveBox, At, Quiet
  <1>2. PICK pc \in {"store", "begin"} :
           op' = [op EXCEPT !.id = 0, !.pc = pc] /\ (Unpublishing <=> pc = "store")
    BY DEF RemoveBox
  <1>3. /\ op' \in Operations /\ op'.pc = pc
        /\ op'.kind = op.kind /\ op'.prev = op.prev /\ op'.here = op.here
    BY <1>2, OpKnown, Facts DEF OpStates, Operations
  <1>4. op.id \in Ids
    BY OpKnown DEF Operations
  <1>5. /\ box' = box \/ (box' \in Boxes /\ box'.state = "absent" /\ box'.id = box.id)
        /\ op.id = box.id => box'.state = "absent"
    BY <1>1, <1>4, OpKnown, BoxCalls
  <1>6. OpSound' /\ ListenSound'
    BY <1>1, <1>2, <1>3, OpKnown DEF OpSound, ListenSound, ListenerListed, Unpublishing
  <1>7. WriterSound'
    BY <1>1, <1>3, <1>5, OpKnown DEF WriterSound, OpSound, Running, NoRoutes, Routed
  <1> QED
    BY <1>1, <1>3, <1>5, <1>6, <1>7, OpKnown, OpKeepsIf

LEMMA UnpublishKeeps ==
    ASSUME IInv, Unpublish
    PROVE  IInv'
  <1>1. /\ op.pc = "store" \/ (op.pc = "unlisten" /\ ~branch.published)
        /\ op' = NoOp /\ UNCHANGED <<file, box, ctl, primary, faults, timer, conn>>
    BY DEF Unpublish, At, Done
  <1>2. op' \in Operations /\ OpSound' /\ op'.pc = "idle" /\ op'.kind = "publish"
    BY <1>1, DoneSound
  <1>3. ~ctl.listening
    BY <1>1, OpKnown DEF ListenSound, ListenerListed, OpSound
  <1>4. branch' \in Rows /\ last' \in Tls /\ branch'.tl >= 1 /\ last' >= 1
    <2>1. CASE branch' = [branch EXCEPT !.published = FALSE] /\ UNCHANGED last
      <3>1. FALSE \in BOOLEAN
        OBVIOUS
      <3> QED
        BY <2>1, <3>1, OpKnown DEF Rows, WriterSound
    <2>2. CASE /\ last < MaxTimeline /\ last' = last + 1
               /\ branch' = [published |-> FALSE, tl |-> last + 1]
      <3>1. FALSE \in BOOLEAN /\ last + 1 \in Tls /\ last + 1 >= 1
        BY <2>2, OpKnown, Facts DEF Tls, WriterSound
      <3> QED
        BY <2>2, <3>1 DEF Rows
    <2> QED
      BY <2>1, <2>2 DEF Unpublish
  <1>5. ListenSound'
    BY <1>1, <1>2, <1>3 DEF ListenSound, ListenerListed
  <1>6. WriterSound'
    BY <1>1, <1>2, <1>4, OpKnown DEF WriterSound, Running
  <1> QED
    BY <1>1, <1>2, <1>4, <1>5, <1>6, OpKnown, OpKeepsIf

\* An operation gives up, or goes back.
LEMMA OpFailsKeeps ==
    ASSUME IInv, OpFails \/ RefreshFails \/ DrainFails
    PROVE  IInv'
  <1>1. /\ op.pc \in {"inspectBox", "removeBox", "store", "refresh", "refreshInspect",
                      "refreshStop", "refreshStart", "refreshWait", "drain"}
        /\ Goto(Failed) /\ (Fault \/ UNCHANGED faults)
        /\ UNCHANGED <<branch, last, file, box, ctl, timer, conn, primary>>
    BY DEF OpFails, RefreshFails, DrainFails, At, Quiet
  <1>2. /\ op' \in Operations /\ OpSound'
        /\ op'.pc \in {"idle", "release", "takeBack", "begin"}
        /\ op'.pc = "begin" => op'.kind = "reset"
        /\ op'.kind \notin {"unpublish", "delete"}
    BY <1>1, FailedMoves
  <1> QED
    BY <1>1, <1>2, OpMoves

\* A reset that gives up, or cannot be taken back.
LEMMA AttachFailsKeeps ==
    ASSUME IInv, AttachFails \/ TakeBackFails
    PROVE  IInv'
  <1>1. /\ op.pc \in {"attach", "takeBack"} /\ (Fault \/ UNCHANGED faults)
        /\ Goto(IF op.here THEN "release" ELSE "idle")
        /\ UNCHANGED <<branch, last, file, box, ctl, timer, conn, primary>>
    BY DEF AttachFails, TakeBackFails, At, Quiet
  <1>2. op.kind = "reset"
    BY <1>1, OpKnown DEF OpSound
  <1>3. CASE op.here
    <2>1. /\ op' \in Operations /\ op'.pc = "release"
          /\ op'.kind = op.kind /\ op'.prev = op.prev /\ op'.here = op.here
      BY <1>1, <1>3, OpKnown, GotoFields DEF OpStates
    <2>2. OpSound'
      BY <1>1, <1>2, <1>3, <2>1, OpKnown DEF OpSound
    <2> QED
      BY <1>1, <1>2, <2>1, <2>2, OpMoves
  <1>4. CASE ~op.here
    <2>1. op' = NoOp
      BY <1>1, <1>4 DEF Goto, Done
    <2> QED
      BY <1>1, <2>1, DoneSound, OpMoves
  <1> QED
    BY <1>3, <1>4

LEMMA AttachKeeps ==
    ASSUME IInv, Attach
    PROVE  IInv'
  <1>1. /\ op.pc = "attach" /\ last < MaxTimeline /\ last' = last + 1
        /\ branch' = [branch EXCEPT !.tl = last + 1] /\ Goto("refresh")
        /\ UNCHANGED <<file, box, ctl, primary, faults, timer, conn>>
    BY DEF Attach, At
  <1>2. /\ op' \in Operations /\ op'.pc = "refresh"
        /\ op'.kind = op.kind /\ op'.prev = op.prev /\ op'.here = op.here
    BY <1>1, OpKnown, GotoFields DEF OpStates
  <1>3. last + 1 \in Tls /\ last + 1 >= 1
    BY <1>1, OpKnown, Facts DEF Tls, WriterSound
  <1>4. /\ branch' \in Rows /\ last' \in Tls /\ branch'.tl >= 1 /\ last' >= 1
        /\ branch'.published = branch.published
    BY <1>1, <1>3, OpKnown DEF Rows
  <1>5. OpSound' /\ ListenSound'
    BY <1>1, <1>2, <1>4, OpKnown DEF OpSound, ListenSound, ListenerListed
  <1>6. WriterSound'
    BY <1>1, <1>2, <1>4, OpKnown DEF WriterSound, OpSound, Running
  <1> QED
    BY <1>1, <1>2, <1>4, <1>5, <1>6, OpKnown, OpKeepsIf

LEMMA TakeBackKeeps ==
    ASSUME IInv, TakeBack
    PROVE  IInv'
  <1>1. /\ op.pc = "takeBack" /\ branch' = [branch EXCEPT !.tl = op.prev]
        /\ op' = [op EXCEPT !.pc = "refresh", !.back = TRUE]
        /\ UNCHANGED <<last, file, box, ctl, timer, conn, primary, faults>>
    BY DEF TakeBack, At, Quiet
  <1>2. TRUE \in BOOLEAN /\ op.kind = "reset" /\ op.prev >= 1 /\ op.prev \in Tls
    BY <1>1, OpKnown DEF OpSound, Operations
  <1>3. /\ op' \in Operations /\ op'.pc = "refresh"
        /\ op'.kind = op.kind /\ op'.prev = op.prev /\ op'.here = op.here
    BY <1>1, <1>2, OpKnown DEF Operations, OpStates
  <1>4. branch' \in Rows /\ branch'.tl >= 1 /\ branch'.published = branch.published
    BY <1>1, <1>2, OpKnown DEF Rows
  <1>5. OpSound' /\ ListenSound'
    BY <1>1, <1>2, <1>3, <1>4, OpKnown DEF OpSound, ListenSound, ListenerListed
  <1>6. WriterSound'
    BY <1>1, <1>2, <1>3, <1>4, OpKnown DEF WriterSound, OpSound, Running
  <1> QED
    BY <1>1, <1>3, <1>4, <1>5, <1>6, OpKnown, OpKeepsIf

\* Where a reset is after Refresh.
LEMMA RefreshedTyped ==
    ASSUME IInv
    PROVE  /\ ~op.here => Refreshed = "idle"
           /\ op.here => Refreshed \in {"drain", "begin"}
           /\ Refreshed \in OpStates
  <1>1. op.here \in BOOLEAN /\ op.back \in BOOLEAN
    BY OpKnown DEF Operations
  <1> QED
    BY <1>1 DEF Refreshed, OpStates

LEMMA RefreshedKeeps ==
    ASSUME IInv, RefreshNothing \/ RefreshWait
    PROVE  IInv'
  <1>1. /\ op.pc \in {"refresh", "refreshWait"} /\ Goto(Refreshed)
        /\ UNCHANGED <<branch, last, file, box, ctl, timer, conn, primary, faults>>
    BY DEF RefreshNothing, RefreshWait, At, Quiet
  <1>2. op.kind = "reset"
    BY <1>1, OpKnown DEF OpSound
  <1>3. CASE op.here
    <2>1. PICK pc \in {"drain", "begin"} : Goto(pc)
      BY <1>1, <1>3, RefreshedTyped
    <2>2. /\ op' \in Operations /\ op'.pc = pc
          /\ op'.kind = op.kind /\ op'.prev = op.prev /\ op'.here = op.here
      BY <2>1, OpKnown, GotoFields DEF OpStates
    <2>3. OpSound'
      BY <1>1, <1>2, <1>3, <2>2, OpKnown DEF OpSound
    <2> QED
      BY <1>1, <1>2, <2>2, <2>3, OpMoves
  <1>4. CASE ~op.here
    <2>1. op' = NoOp
      BY <1>1, <1>4, RefreshedTyped DEF Goto, Done
    <2> QED
      BY <1>1, <2>1, DoneSound, OpMoves
  <1> QED
    BY <1>3, <1>4

LEMMA RefreshInspectKeeps ==
    ASSUME IInv, RefreshInspect
    PROVE  IInv'
  <1> DEFINE pc == IF Running THEN "refreshStop" ELSE Refreshed
  <1>1. /\ op.pc = "refreshInspect" /\ op' = [op EXCEPT !.id = box.id, !.pc = pc]
        /\ UNCHANGED <<branch, last, file, box, ctl, timer, conn, primary, faults>>
    BY DEF RefreshInspect, At, Quiet
  <1>2. op.kind = "reset" /\ op.here = primary.here /\ file >= 1
    BY <1>1, OpKnown DEF OpSound, WriterSound
  <1>3. /\ pc \in OpStates /\ pc \in {"refreshStop", "idle", "drain", "begin"}
        /\ pc = "refreshStop" => ~op.here
        /\ pc \in {"drain", "begin"} => op.here
    <2>1. CASE Running
      BY <1>2, <2>1, OpKnown DEF WriterSound, OpStates
    <2>2. CASE ~Running
      BY <2>2, RefreshedTyped
    <2> QED
      BY <2>1, <2>2
  <1> HIDE DEF pc
  <1>4. /\ op' \in Operations /\ op'.pc = pc
        /\ op'.kind = op.kind /\ op'.prev = op.prev /\ op'.here = op.here
    BY <1>1, <1>3, OpKnown DEF Operations, Boxes
  <1>5. OpSound'
    BY <1>1, <1>2, <1>3, <1>4, OpKnown DEF OpSound
  <1> QED
    BY <1>1, <1>2, <1>3, <1>4, <1>5, OpMoves

LEMMA RefreshWriteKeeps ==
    ASSUME IInv, RefreshWrite
    PROVE  IInv'
  <1>1. /\ op.pc = "refresh" /\ file' = branch.tl /\ Goto("refreshInspect")
        /\ UNCHANGED <<branch, last, box, ctl, timer, conn, primary, faults>>
    BY DEF RefreshWrite, At, Quiet
  <1>2. /\ op' \in Operations /\ op'.pc = "refreshInspect"
        /\ op'.kind = op.kind /\ op'.prev = op.prev /\ op'.here = op.here
    BY <1>1, OpKnown, GotoFields DEF OpStates
  <1>3. file' \in Tls /\ file' >= 1
    BY <1>1, OpKnown DEF WriterSound, Rows
  <1>4. OpSound' /\ ListenSound'
    BY <1>1, <1>2, OpKnown DEF OpSound, ListenSound, ListenerListed
  <1>5. WriterSound'
    BY <1>1, <1>2, <1>3, OpKnown DEF WriterSound, OpSound, Running
  <1> QED
    BY <1>1, <1>2, <1>3, <1>4, <1>5, OpKnown, OpKeepsIf

LEMMA RefreshBoxKeeps ==
    ASSUME IInv, RefreshStop \/ RefreshStart
    PROVE  IInv'
  <1>1. PICK pc \in {"refreshStart", "refreshWait"} : Goto(pc)
    BY DEF RefreshStop, RefreshStart
  <1>2. /\ op.pc \in {"refreshStop", "refreshStart"} /\ op.kind = "reset"
        /\ box' \in {Stopped(op.id), Started(op.id)}
        /\ UNCHANGED <<branch, last, file, ctl, timer, conn, primary, faults>>
    BY OpKnown DEF RefreshStop, RefreshStart, At, Quiet, OpSound
  <1>3. op.id \in Ids /\ ~primary.here /\ file >= 1
    BY <1>2, OpKnown DEF Operations, OpSound, WriterSound
  <1>4. box' = box \/ (box' \in Boxes /\ box'.state \in {"stopped", "booting"})
    BY <1>2, <1>3, OpKnown, BoxCalls
  <1>5. /\ op' \in Operations /\ op'.pc = pc
        /\ op'.kind = op.kind /\ op'.prev = op.prev /\ op'.here = op.here
    BY <1>1, OpKnown, GotoFields DEF OpStates
  <1>6. OpSound' /\ ListenSound'
    BY <1>2, <1>5, OpKnown DEF OpSound, ListenSound, ListenerListed
  <1>7. WriterSound'
    BY <1>2, <1>3, <1>4, <1>5, OpKnown DEF WriterSound, OpSound, Running
  <1> QED
    BY <1>2, <1>4, <1>5, <1>6, <1>7, OpKnown, OpKeepsIf

LEMMA DrainedKeeps ==
    ASSUME IInv, Drained
    PROVE  IInv'
  <1>1. /\ op.pc = "drain" /\ timer' = CancelTimer /\ ctl' = [ctl EXCEPT !.timer = None]
        /\ Goto("inspectBox") /\ UNCHANGED <<branch, last, file, box, conn, primary, faults>>
    BY DEF Drained, At
  <1>2. /\ op' \in Operations /\ op'.pc = "inspectBox"
        /\ op'.kind = op.kind /\ op'.prev = op.prev /\ op'.here = op.here
    BY <1>1, OpKnown, GotoFields DEF OpStates
  <1>3. timer' \in [Timers -> TimerStates]
    BY <1>1, OpKnown, TimerCalls
  <1>4. ctl' \in Controllers /\ ctl'.active = ctl.active /\ ctl'.listening = ctl.listening
    BY <1>1, OpKnown DEF Controllers
  <1>5. OpSound' /\ ListenSound'
    BY <1>1, <1>2, <1>4, OpKnown DEF OpSound, ListenSound, ListenerListed
  <1>6. WriterSound'
    BY <1>1, <1>2, OpKnown DEF WriterSound, OpSound, Running, NoRoutes, Routed
  <1> QED
    BY <1>1, <1>2, <1>3, <1>4, <1>5, <1>6, OpKnown, OpKeepsIf

\* What the steps that wait for routes have in common.
LEMMA PrimaryStep ==
    ASSUME IInv, UNCHANGED <<branch, last, file, box, ctl, timer, conn>>,
           op.pc \notin {"select", "publish"},
           Fault \/ UNCHANGED faults, primary' \in Primaries, op' \in Operations, OpSound',
           op'.pc \in {"idle", "attach", "drain", "change", "finish", "release", "takeBack", "begin"},
           primary'.here => primary.here \/ (NoRoutes /\ ~Running),
           ~primary'.here => primary'.tl = 0,
           primary'.serving \in {None, primary'.tl},
           op'.pc = "change" => primary'.shut /\ NoRoutes,
           op'.kind = "switch" /\ op'.pc \in {"drain", "begin", "change"} =>
              primary'.reserved /\ NoRoutes,
           op'.kind = "switch" /\ op'.pc \in {"begin", "change"} => box.state = "absent"
    PROVE  IInv'
  <1>1. ListenSound'
    BY OpKnown DEF ListenSound, ListenerListed
  <1>2. NoRoutes' = NoRoutes /\ Running' = Running
    BY DEF NoRoutes, Routed, Running
  <1>3. WriterSound'
    BY <1>2, OpKnown DEF WriterSound
  <1>4. faults' \in 0..MaxFaults
    BY OpKnown, FaultTyped
  <1> QED
    BY <1>1, <1>3, <1>4, OpKnown, OpKeepsIf

LEMMA WaitForRoutesKeeps ==
    ASSUME IInv, WaitForRoutes
    PROVE  IInv'
  <1>1. /\ UNCHANGED <<branch, last, file, box, ctl, timer, conn, faults>> /\ NoRoutes
        /\ op.pc \in {"reserve", "begin", "finish", "release"}
    BY DEF WaitForRoutes, Reserve, Begin, Finish, Release, At, Quiet, MayReserve, NoRoutes
  <1>2. TRUE \in BOOLEAN /\ FALSE \in BOOLEAN
    OBVIOUS
  <1>3. CASE Reserve
    <2>1. PICK pc \in {"attach", "drain"} : Goto(pc) /\ (pc = "attach" => op.kind = "reset")
      BY <1>3 DEF Reserve
    <2>2. op.pc = "reserve" /\ primary' = [primary EXCEPT !.reserved = TRUE]
      BY <1>3 DEF Reserve, At
    <2>3. /\ primary' \in Primaries /\ primary'.here = primary.here /\ primary'.tl = primary.tl
          /\ primary'.serving = primary.serving /\ primary'.reserved
      BY <1>2, <2>2, OpKnown DEF Primaries
    <2>4. /\ op' \in Operations /\ op'.pc = pc
          /\ op'.kind = op.kind /\ op'.prev = op.prev /\ op'.here = op.here
      BY <2>1, OpKnown, GotoFields DEF OpStates
    <2>5. OpSound'
      BY <2>1, <2>2, <2>3, <2>4, OpKnown DEF OpSound
    <2> QED
      BY <1>1, <2>2, <2>3, <2>4, <2>5, OpKnown, PrimaryStep DEF WriterSound
  <1>4. CASE Begin
    <2>1. /\ op.pc = "begin" /\ primary' = [primary EXCEPT !.shut = TRUE, !.serving = None]
          /\ Goto("change")
      BY <1>4 DEF Begin, At
    <2>2. /\ primary' \in Primaries /\ primary'.here = primary.here /\ primary'.tl = primary.tl
          /\ primary'.serving = None /\ primary'.shut /\ primary'.reserved = primary.reserved
      BY <1>2, <2>1, OpKnown DEF Primaries
    <2>3. /\ op' \in Operations /\ op'.pc = "change"
          /\ op'.kind = op.kind /\ op'.prev = op.prev /\ op'.here = op.here
      BY <2>1, OpKnown, GotoFields DEF OpStates
    <2>4. OpSound'
      BY <2>1, <2>2, <2>3, OpKnown DEF OpSound
    <2> QED
      BY <1>1, <2>1, <2>2, <2>3, <2>4, OpKnown, PrimaryStep DEF WriterSound
  <1>5. CASE Finish
    <2>1. op.pc = "finish" /\ primary' = [primary EXCEPT !.shut = FALSE] /\ Goto("release")
      BY <1>5 DEF Finish, At
    <2>2. /\ primary' \in Primaries /\ primary'.here = primary.here /\ primary'.tl = primary.tl
          /\ primary'.serving = primary.serving
      BY <1>2, <2>1, OpKnown DEF Primaries
    <2>3. /\ op' \in Operations /\ op'.pc = "release"
          /\ op'.kind = op.kind /\ op'.prev = op.prev /\ op'.here = op.here
      BY <2>1, OpKnown, GotoFields DEF OpStates
    <2>4. OpSound'
      BY <2>1, <2>2, <2>3, OpKnown DEF OpSound
    <2> QED
      BY <1>1, <2>1, <2>2, <2>3, <2>4, OpKnown, PrimaryStep DEF WriterSound
  <1>6. CASE Release
    <2>1. op.pc = "release" /\ primary' = [primary EXCEPT !.reserved = FALSE] /\ op' = NoOp
      BY <1>6 DEF Release, At, Done
    <2>2. /\ primary' \in Primaries /\ primary'.here = primary.here /\ primary'.tl = primary.tl
          /\ primary'.serving = primary.serving
      BY <1>2, <2>1, OpKnown DEF Primaries
    <2> QED
      BY <1>1, <2>1, <2>2, DoneSound, OpKnown, PrimaryStep DEF WriterSound
  <1> QED
    BY <1>3, <1>4, <1>5, <1>6 DEF WaitForRoutes

\* The primary on the timeline that is selected.
LEMMA ChangedTyped ==
    ASSUME IInv, op.pc = "change"
    PROVE  /\ Changed \in Primaries /\ Changed.serving = Changed.tl
           /\ Changed.here <=> op.kind # "leave"
           /\ ~Changed.here => Changed.tl = 0
           /\ Changed.here => ~Running
           /\ Changed.shut = primary.shut /\ Changed.reserved = primary.reserved
  <1>1. TRUE \in BOOLEAN /\ FALSE \in BOOLEAN /\ branch.tl \in Tls
    BY OpKnown DEF Rows
  <1>2. CASE op.kind = "leave"
    <2>1. Changed = [primary EXCEPT !.serving = 0, !.tl = 0, !.here = FALSE]
      BY <1>2 DEF Changed
    <2> QED
      BY <1>1, <1>2, <2>1, Facts, OpKnown DEF Primaries
  <1>3. CASE op.kind # "leave"
    <2>1. Changed = [primary EXCEPT !.serving = branch.tl, !.tl = branch.tl, !.here = TRUE]
      BY <1>3 DEF Changed
    <2>2. ~Running
      <3>1. CASE op.kind = "switch"
        BY <3>1, OpKnown DEF WriterSound, Running
      <3>2. CASE op.kind = "reset"
        BY <3>2, OpKnown DEF WriterSound, OpSound
      <3> QED
        BY <1>3, <3>1, <3>2, OpKnown DEF OpSound
    <2> QED
      BY <1>1, <1>3, <2>1, <2>2, OpKnown DEF Primaries
  <1> QED
    BY <1>2, <1>3

LEMMA ChangeKeeps ==
    ASSUME IInv, Change \/ ChangeFails
    PROVE  IInv'
  <1>1. /\ op.pc = "change" /\ (Fault \/ UNCHANGED faults)
        /\ UNCHANGED <<branch, last, file, box, ctl, timer, conn>>
    BY DEF Change, ChangeFails, At, Quiet
  <1>2. NoRoutes /\ op.kind \in {"switch", "leave", "reset"}
    BY <1>1, OpKnown DEF WriterSound, OpSound
  <1>3. CASE Change
    <2>1. primary' = Changed /\ Goto("finish")
      BY <1>3 DEF Change
    <2>2. /\ op' \in Operations /\ op'.pc = "finish"
          /\ op'.kind = op.kind /\ op'.prev = op.prev /\ op'.here = op.here
      BY <2>1, OpKnown, GotoFields DEF OpStates
    <2>3. /\ primary' \in Primaries /\ primary'.serving = primary'.tl
          /\ primary'.here <=> op.kind # "leave"
          /\ ~primary'.here => primary'.tl = 0
          /\ primary'.here => ~Running
      BY <1>1, <2>1, ChangedTyped
    <2>4. OpSound'
      BY <1>1, <1>2, <2>2, <2>3, OpKnown DEF OpSound
    <2> QED
      BY <1>1, <1>2, <2>2, <2>3, <2>4, PrimaryStep
  <1>4. CASE ChangeFails
    <2>1. /\ Goto(Failed)
          /\ \/ primary' = [primary EXCEPT !.serving = primary.tl, !.shut = FALSE]
             \/ UNCHANGED primary
      BY <1>4 DEF ChangeFails
    <2>2. /\ primary' \in Primaries /\ primary'.here = primary.here /\ primary'.tl = primary.tl
          /\ primary'.serving \in {None, primary'.tl}
      <3>1. CASE primary' = [primary EXCEPT !.serving = primary.tl, !.shut = FALSE]
        <4>1. FALSE \in BOOLEAN
          OBVIOUS
        <4> QED
          BY <3>1, <4>1, OpKnown DEF Primaries
      <3>2. CASE UNCHANGED primary
        BY <3>2, OpKnown DEF WriterSound
      <3> QED
        BY <2>1, <3>1, <3>2
    <2>3. /\ op' \in Operations /\ OpSound'
          /\ op'.pc \in {"idle", "release", "takeBack", "begin"}
          /\ op'.pc = "begin" => op'.kind = "reset"
      BY <2>1, <2>2, FailedMoves
    <2> QED
      BY <1>1, <2>2, <2>3, OpKnown, PrimaryStep DEF WriterSound
  <1> QED
    BY <1>3, <1>4

LEMMA OpNextKeeps ==
    ASSUME IInv, OpNext
    PROVE  IInv'
  BY ListenKeeps, SelectKeeps, PublishKeeps, PublishFailsKeeps, UnlistenKeeps, InspectBoxKeeps,
     StopBoxKeeps, RemoveBoxKeeps, UnpublishKeeps, OpFailsKeeps, AttachKeeps, AttachFailsKeeps,
     RefreshedKeeps, RefreshWriteKeeps, RefreshInspectKeeps, RefreshBoxKeeps, TakeBackKeeps,
     DrainedKeeps, ChangeKeeps
  DEF OpNext

-----------------------------------------------------------------------------
(* The restart and the initial states *)

LEMMA NewControllerTyped ==
    ASSUME NEW listening \in BOOLEAN
    PROVE  /\ NewController(listening) \in Controllers
           /\ NewController(listening).active = 0
           /\ NewController(listening).listening = listening
  BY Facts DEF NewController, Controllers

\* Whatever was under way: nobody is connected, and the container and the primary are
\* where they were, or got to where they were going.
LEMMA RestartKeeps ==
    ASSUME IInv, Restart
    PROVE  IInv'
  <1>1. /\ Fault /\ op' = NoOp /\ UNCHANGED <<branch, last, file>>
        /\ timer' = [t \in Timers |-> NoTimer] /\ conn' = [c \in Conns |-> NoConn]
    BY DEF Restart
  <1>2. NoConn \in ConnRecords /\ NoConn.pc = "none" /\ NoTimer \in TimerStates
    BY Facts, OpKnown, TimerCalls DEF NoConn, ConnRecords, ConnStates, Ids
  <1>3. conn' \in [Conns -> ConnRecords] /\ \A c \in Conns : conn'[c].pc = "none"
    BY <1>1, <1>2
  <1>4. timer' \in [Timers -> TimerStates]
    BY <1>1, <1>2
  <1>5. op' \in Operations /\ OpSound' /\ op'.pc = "idle" /\ op'.kind = "publish"
    BY <1>1, DoneSound
  <1>6. faults' \in 0..MaxFaults
    BY <1>1, OpKnown, FaultTyped
  <1>7. ctl' \in Controllers /\ ctl'.active = 0 /\ (ctl'.listening => branch.published)
    <2>1. PICK bound \in BOOLEAN : ctl' = NewController(branch.published /\ bound)
      BY DEF Restart
    <2>2. (branch.published /\ bound) \in BOOLEAN
      OBVIOUS
    <2> QED
      BY <2>1, <2>2, NewControllerTyped
  <1>8. box' \in Boxes /\ box'.state = box.state /\ box'.tl = box.tl
    <2>1. PICK old \in {box.old, box.state # "absent"} : box' = [box EXCEPT !.old = old]
      BY DEF Restart
    <2>2. old \in BOOLEAN
      BY <2>1, OpKnown DEF Boxes
    <2> QED
      BY <2>1, <2>2, OpKnown DEF Boxes
  <1>9. /\ primary' \in Primaries /\ primary'.serving \in {None, primary'.tl}
        /\ ~primary'.here => primary'.tl = 0
        /\ primary'.here => ~Running
    <2>1. PICK p \in {primary} \cup (IF At("change") THEN {Changed} ELSE {}), shut \in BOOLEAN :
             primary' = [p EXCEPT !.reserved = FALSE, !.shut = shut]
      BY DEF Restart
    <2>2. p = primary \/ (op.pc = "change" /\ p = Changed)
      BY <2>1 DEF At
    <2>3. /\ p \in Primaries /\ p.serving \in {None, p.tl}
          /\ ~p.here => p.tl = 0
          /\ p.here => ~Running
      BY <2>2, OpKnown, ChangedTyped DEF WriterSound
    <2>4. FALSE \in BOOLEAN
      OBVIOUS
    <2> QED
      BY <2>1, <2>3, <2>4 DEF Primaries
  <1>10. ListenSound'
    BY <1>1, <1>5, <1>7 DEF ListenSound, ListenerListed
  <1>11. WriterSound'
    BY <1>1, <1>5, <1>8, <1>9, OpKnown DEF WriterSound, Running
  <1>12. ConnsSound'
    BY <1>3 DEF ConnsSound, ConnSound, Knowing, Owning, Writing
  <1>13. NoLeakedSlots'
    <2>1. Counted' = {}
      BY <1>3 DEF Counted
    <2> QED
      BY <1>7, <2>1, FS_EmptySet DEF NoLeakedSlots
  <1>14. Typed'
    BY <1>1, <1>3, <1>4, <1>5, <1>6, <1>7, <1>8, <1>9, OpKnown DEF Typed
  <1> QED
    BY <1>5, <1>10, <1>11, <1>12, <1>13, <1>14 DEF IInv

LEMMA InitSound == Init => IInv
  <1> SUFFICES ASSUME Init PROVE IInv
    OBVIOUS
  <1>1. TRUE \in BOOLEAN /\ FALSE \in BOOLEAN
    OBVIOUS
  <1>2. NoConn \in ConnRecords /\ NoConn.pc = "none" /\ NoTimer \in TimerStates
    BY Facts DEF NoConn, ConnRecords, ConnStates, NoTimer, TimerStates, Ids
  <1>3. /\ conn \in [Conns -> ConnRecords] /\ timer \in [Timers -> TimerStates]
        /\ \A c \in Conns : conn[c].pc = "none"
    BY <1>2 DEF Init
  <1>4. branch \in Rows /\ branch.tl = 1 /\ last = 1 /\ file = 0 /\ faults = 0
    BY <1>1, Facts DEF Init, Rows
  <1>5. box \in Boxes /\ box.state = "absent"
    BY <1>1, Facts DEF Init, NoBox, Boxes
  <1>6. ctl \in Controllers /\ ctl.active = 0 /\ ctl.listening = FALSE
    BY <1>1, NewControllerTyped DEF Init
  <1>7. op \in Operations /\ op.pc = "idle" /\ op.kind = "publish"
    BY NoOpTyped DEF Init
  <1>8. /\ primary \in Primaries /\ primary.serving = primary.tl
        /\ ~primary.here => primary.tl = 0
    <2>1. PICK here \in BOOLEAN :
             LET tl == IF here THEN 1 ELSE 0 IN
             primary = [here |-> here, tl |-> tl, serving |-> tl, shut |-> FALSE,
                        reserved |-> FALSE]
      BY DEF Init
    <2> QED
      BY <1>1, <2>1, Facts DEF Primaries
  <1>9. Typed
    BY <1>3, <1>4, <1>5, <1>6, <1>7, <1>8, Facts DEF Typed
  <1>10. OpSound /\ ListenSound
    BY <1>6, <1>7 DEF OpSound, ListenSound, ListenerListed
  <1>11. WriterSound
    BY <1>4, <1>5, <1>7, <1>8 DEF WriterSound, Running
  <1>12. ConnsSound
    BY <1>3 DEF ConnsSound, ConnSound, Knowing, Owning, Writing
  <1>13. NoLeakedSlots
    <2>1. Counted = {}
      BY <1>3 DEF Counted
    <2> QED
      BY <1>6, <2>1, FS_EmptySet DEF NoLeakedSlots
  <1> QED
    BY <1>9, <1>10, <1>11, <1>12, <1>13 DEF IInv

LEMMA StutterSound == IInv /\ UNCHANGED vars => IInv'
  BY DEF vars, IInv, Typed, OpSound, ListenSound, ListenerListed, WriterSound, Running, NoRoutes,
     Routed, ConnsSound, ConnSound, NoLeakedSlots, Counted

LEMMA StepSound == IInv /\ [Next]_vars => IInv'
  <1> SUFFICES ASSUME IInv, [Next]_vars PROVE IInv'
    OBVIOUS
  <1>1. CASE BoxUp \/ BoxExits
    BY <1>1, BoxKeeps
  <1>2. ASSUME NEW c \in Conns, Accept(c) \/ Lock(c) \/ ConnNext(c) \/ Disconnect(c)
        PROVE  IInv'
    BY <1>2, ConnKeeps
  <1>3. ASSUME NEW t \in Timers, TimerNext(t)
        PROVE  IInv'
    BY <1>3, TimerKeeps
  <1>4. ASSUME NEW kind \in Kinds, Request(kind)
        PROVE  IInv'
    BY <1>4, RequestKeeps
  <1>5. CASE OpNext \/ WaitForRoutes
    BY <1>5, OpNextKeeps, WaitForRoutesKeeps
  <1>6. CASE Restart
    BY <1>6, RestartKeeps
  <1>7. CASE UNCHANGED vars
    BY <1>7, StutterSound
  <1> QED
    BY <1>1, <1>2, <1>3, <1>4, <1>5, <1>6, <1>7 DEF Next

-----------------------------------------------------------------------------
(* The start lock *)

StartPcs == {"locked", "write", "inspect", "replace", "create", "start", "wait"}

\* A connection moves: into the lock if it is free, within it, out of it, or elsewhere.
LEMMA LockMoves ==
    ASSUME IInv, StartLockHeld, NEW c \in Conns, NEW s, conn' = [conn EXCEPT ![c] = s],
           s.pc \in StartPcs => ctl'.lock = c /\ (Starting(c) \/ ctl.lock = None),
           s.pc \notin StartPcs => ctl'.lock = IF Starting(c) THEN None ELSE ctl.lock
    PROVE  StartLockHeld'
  <1> SUFFICES ASSUME NEW d \in Conns PROVE Starting(d)' <=> ctl'.lock = d
    BY DEF StartLockHeld
  <1>1. None \notin Conns /\ \A e \in Conns : Starting(e) <=> ctl.lock = e
    BY Facts DEF StartLockHeld
  <1>2. conn'[c] = s /\ (d # c => conn'[d] = conn[d])
    BY DEF IInv, Typed
  <1>3. CASE d = c
    BY <1>1, <1>2, <1>3 DEF Starting, StartPcs
  <1>4. CASE d # c
    BY <1>1, <1>2, <1>4 DEF Starting, StartPcs
  <1> QED
    BY <1>3, <1>4

\* Where the lock and who is under it do not change.
LEMMA LockRests ==
    ASSUME StartLockHeld, ctl'.lock = ctl.lock, UNCHANGED conn
    PROVE  StartLockHeld'
  BY DEF StartLockHeld, Starting

\* decrementActive gives the lock back if it is told to.
LEMMA DecrementLock ==
    ASSUME IInv, NEW unlock, Decrement(unlock)
    PROVE  ctl'.lock = IF unlock THEN None ELSE ctl.lock
  <1>1. ctl \in Controllers
    BY OpKnown
  <1> QED
    BY <1>1 DEF Decrement, Controllers

\* A connection that ends.
LEMMA LockEnds ==
    ASSUME IInv, StartLockHeld, NEW c \in Conns, End(c)
    PROVE  StartLockHeld'
  <1>1. conn' = [conn EXCEPT ![c] = NoConn] /\ Decrement(Starting(c))
    BY DEF End, ConnStep, Unlocks
  <1>2. NoConn.pc \notin StartPcs
    BY DEF NoConn, StartPcs
  <1>3. ctl'.lock = IF Starting(c) THEN None ELSE ctl.lock
    BY <1>1, DecrementLock
  <1> QED
    BY <1>1, <1>2, <1>3, LockMoves

\* A connection that goes on under the lock, or outside of it.
LEMMA LockGoesOn ==
    ASSUME IInv, StartLockHeld, NEW c \in Conns, NEW s, ConnStep(c, s),
           ctl'.lock = ctl.lock, s.pc \in StartPcs <=> Starting(c)
    PROVE  StartLockHeld'
  <1>1. conn' = [conn EXCEPT ![c] = s]
    BY DEF ConnStep
  <1>2. Starting(c) <=> ctl.lock = c
    BY DEF StartLockHeld
  <1> QED
    BY <1>1, <1>2, LockMoves

LEMMA LockConn ==
    ASSUME IInv, StartLockHeld, NEW c \in Conns,
           Accept(c) \/ Lock(c) \/ ConnNext(c) \/ Disconnect(c)
    PROVE  StartLockHeld'
  <1>0. conn[c] \in ConnRecords /\ ctl \in Controllers
    BY DEF IInv, Typed
  <1>1. ASSUME NEW pc, ConnGoto(c, pc), ctl'.lock = ctl.lock, pc \in StartPcs <=> Starting(c)
        PROVE  StartLockHeld'
    <2>1. [conn[c] EXCEPT !.pc = pc].pc = pc
      BY <1>0 DEF ConnRecords
    <2> QED
      BY <1>1, <2>1, LockGoesOn DEF ConnGoto
  <1>2. CASE Accept(c)
    BY <1>1, <1>2 DEF Accept, Starting, StartPcs
  <1>3. CASE Lock(c)
    <2>1. /\ ctl.lock = None /\ ctl' = [ctl EXCEPT !.lock = c]
          /\ conn' = [conn EXCEPT ![c] = [conn[c] EXCEPT !.pc = "locked"]]
      BY <1>3 DEF Lock, ConnGoto, ConnStep
    <2>2. ctl'.lock = c /\ [conn[c] EXCEPT !.pc = "locked"].pc = "locked"
      BY <1>0, <2>1 DEF Controllers, ConnRecords
    <2> QED
      BY <2>1, <2>2, LockMoves DEF StartPcs
  <1>4. CASE Count(c)
    <2>1. ctl'.lock = ctl.lock /\ ~Starting(c)
      BY <1>0, <1>4 DEF Count, Controllers, Starting
    <2>2. CASE ConnGoto(c, "counted")
      BY <1>1, <2>1, <2>2 DEF StartPcs
    <2>3. CASE ConnStep(c, NoConn)
      BY <2>1, <2>3, LockGoesOn DEF NoConn, StartPcs
    <2> QED
      BY <1>4, <2>2, <2>3 DEF Count
  <1>5. CASE ReadBranch(c)
    <2>1. [conn[c] EXCEPT !.pc = "read", !.tl = branch.tl].pc = "read"
      BY <1>0 DEF ConnRecords
    <2> QED
      BY <1>5, <2>1, LockGoesOn DEF ReadBranch, Starting, StartPcs
  <1>6. CASE RoutePrimary(c) \/ WaitUp(c)
    <2>1. PICK pc \in {"dial", "dialPrimary"} : ConnStep(c, [NoConn EXCEPT !.pc = pc])
      BY <1>6 DEF RoutePrimary, WaitUp
    <2>2. ctl'.lock = None /\ Starting(c)
      BY <1>0, <1>6 DEF RoutePrimary, WaitUp, Controllers, Starting
    <2>3. [NoConn EXCEPT !.pc = pc].pc \notin StartPcs
      BY <2>1 DEF NoConn, StartPcs
    <2> QED
      BY <2>1, <2>2, <2>3, LockMoves DEF ConnStep
  <1>7. CASE RouteBranch(c) \/ WriteFile(c) \/ Replace(c) \/ Start(c) \/ Dial(c)
    BY <1>1, <1>7 DEF RouteBranch, WriteFile, Replace, Start, Dial, Starting, StartPcs
  <1>8. CASE Inspect(c) \/ Create(c)
    <2>1. PICK pc \in {"create", "wait", "replace", "start"}, id \in Ids :
             ConnStep(c, [conn[c] EXCEPT !.id = id, !.pc = pc])
      <3>1. CASE Inspect(c)
        <4>1. /\ box.state \in {"absent", "stopped"} \/ Running
              /\ box.id \in Ids
          BY OpKnown DEF Boxes, Running
        <4>2. \E pc \in {"create", "wait", "replace", "start"} :
                 ConnStep(c, [conn[c] EXCEPT !.id = box.id, !.pc = pc])
          BY <3>1, <4>1 DEF Inspect
        <4> QED
          BY <4>1, <4>2
      <3>2. CASE Create(c)
        <4>1. [conn[c] EXCEPT !.pc = "start", !.id = box.id + 1]
                 = [conn[c] EXCEPT !.id = box.id + 1, !.pc = "start"]
          BY <1>0 DEF ConnRecords
        <4>2. box.id + 1 \in Ids
          BY <3>2, OpKnown, Facts DEF Create, Boxes, Ids
        <4> QED
          BY <3>2, <4>1, <4>2 DEF Create
      <3> QED
        BY <1>8, <3>1, <3>2
    <2>2. ctl'.lock = ctl.lock /\ Starting(c)
      BY <1>8 DEF Inspect, Create, Starting
    <2>3. [conn[c] EXCEPT !.id = id, !.pc = pc].pc \in StartPcs
      BY <1>0, <2>1 DEF ConnRecords, StartPcs
    <2> QED
      BY <2>1, <2>2, <2>3, LockGoesOn
  <1>9. CASE \/ ReadFails(c) \/ RouteRefused(c) \/ InspectRefuses(c) \/ StartGone(c)
             \/ WaitFails(c) \/ ConnFails(c) \/ DialFails(c) \/ Disconnect(c)
    BY <1>9, LockEnds
    DEF ReadFails, RouteRefused, InspectRefuses, StartGone, WaitFails, ConnFails, DialFails,
        Disconnect
  <1> QED
    BY <1>2, <1>3, <1>4, <1>5, <1>6, <1>7, <1>8, <1>9 DEF ConnNext

\* Timers, operations and the container leave the lock alone.
LEMMA LockElsewhere ==
    ASSUME IInv, \/ BoxUp \/ BoxExits \/ (\E t \in Timers : TimerNext(t))
                 \/ (\E kind \in Kinds : Request(kind)) \/ OpNext \/ WaitForRoutes
                 \/ UNCHANGED vars
    PROVE  ctl'.lock = ctl.lock /\ UNCHANGED conn
  <1>1. /\ [ctl EXCEPT !.timer = None].lock = ctl.lock
        /\ [ctl EXCEPT !.listening = TRUE].lock = ctl.lock
        /\ ListenerStopped.lock = ctl.lock
    BY OpKnown DEF Controllers, ListenerStopped
  <1>2. CASE BoxUp \/ BoxExits \/ UNCHANGED vars
    BY <1>2 DEF BoxUp, BoxExits, vars
  <1>3. CASE \E t \in Timers : TimerNext(t)
    BY <1>1, <1>3 DEF TimerNext, Fires, IdleLook, IdleInspect, IdleStop, TimerStep
  <1>4. CASE (\E kind \in Kinds : Request(kind)) \/ WaitForRoutes
    BY <1>4 DEF Request, WaitForRoutes, Reserve, Begin, Finish, Release, Quiet
  <1>5. CASE OpNext
    BY <1>1, <1>5
    DEF OpNext, Listen, ListenFails, Select, Publish, PublishFails, Unlisten, InspectBox, StopBox,
        RemoveBox, Unpublish, OpFails, Attach, AttachFails, RefreshNothing, RefreshWrite,
        RefreshInspect, RefreshStop, RefreshStart, RefreshWait, RefreshFails, TakeBack,
        TakeBackFails, Drained, DrainFails, Change, ChangeFails, StopListener, Quiet
  <1> QED
    BY <1>2, <1>3, <1>4, <1>5

LEMMA LockStep == IInv /\ StartLockHeld /\ [Next]_vars => StartLockHeld'
  <1> SUFFICES ASSUME IInv, StartLockHeld, [Next]_vars PROVE StartLockHeld'
    OBVIOUS
  <1>1. CASE Restart
    <2>1. ctl'.lock = None /\ \A c \in Conns : conn'[c].pc = "none"
      BY <1>1 DEF Restart, NewController, NoConn
    <2> QED
      BY <2>1, Facts DEF StartLockHeld, Starting
  <1>2. CASE ~Restart
    BY <1>2, LockConn, LockElsewhere, LockRests DEF Next
  <1> QED
    BY <1>1, <1>2

LEMMA LockInit == Init => StartLockHeld
  <1> SUFFICES ASSUME Init, NEW c \in Conns PROVE ~Starting(c) /\ ctl.lock # c
    BY DEF StartLockHeld
  <1>1. ctl.lock = None /\ conn[c].pc = "none"
    BY DEF Init, NewController, NoConn
  <1> QED
    BY <1>1, Facts DEF Starting

-----------------------------------------------------------------------------
(* The theorems *)

\* The inductive invariant holds of every reachable state; each safety property of the
\* endpoint follows from it alone.
THEOREM Inductive == Spec => []IInv
  BY InitSound, StepSound, PTL DEF Spec

\* Rows, files, the controller's maps and the goroutines' locals have their types; the
\* count stays within maxActiveConnections; under the start lock is its holder, nobody else.
THEOREM TypeCorrect == Spec => []TypeOK
  <1>1. Spec => []StartLockHeld
    BY LockInit, LockStep, Inductive, PTL DEF Spec
  <1>2. IInv /\ StartLockHeld => TypeOK
    BY TypedOK DEF IInv
  <1> QED
    BY <1>1, <1>2, Inductive, PTL

\* However connections, idle callbacks, operations, failures and restarts interleave,
\* the branch's compute never serves the timeline the primary serves.
THEOREM OneWriter == Spec => []SingleWriter
  <1>1. IInv => SingleWriter
    <2> SUFFICES ASSUME IInv, box.state = "up" PROVE box.tl # primary.serving
      BY DEF SingleWriter
    <2>1. Running /\ box.tl \in Nat /\ box.tl >= 1
      BY OpKnown, Facts DEF Running, WriterSound, Boxes, Tls
    <2>2. primary.serving \in {None, 0}
      BY <2>1, OpKnown DEF WriterSound
    <2> QED
      BY <2>1, <2>2, Facts
  <1> QED
    BY <1>1, Inductive, PTL

\* A listener without a published row belongs to a publication under way.
THEOREM ListenersAreListed == Spec => []ListenerListed
  <1>1. IInv => ListenerListed
    BY DEF IInv, ListenSound
  <1> QED
    BY <1>1, Inductive, PTL

\* The count of active connections never exceeds the connections there are.
THEOREM SlotsGivenBack == Spec => []NoLeakedSlots
  <1>1. IInv => NoLeakedSlots
    BY DEF IInv
  <1> QED
    BY <1>1, Inductive, PTL

=============================================================================
