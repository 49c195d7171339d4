------------------------ MODULE OperationManagerProofs ------------------------
(***************************************************************************)
(* The invariants of OperationManager and its refinement of OperationLog,  *)
(* for any number of request handlers, any retention and any bound on the  *)
(* ids.                                                                    *)
(***************************************************************************)
EXTENDS OperationManager, TLAPS

\* trimEntriesLocked only ever drops entries, and never a running one.
LEMMA TrimKeeps ==
    ASSUME NEW e \in [Ids -> Statuses \cup {"absent"}]
    PROVE  /\ Trim(e) \in [Ids -> Statuses \cup {"absent"}]
           /\ \A i \in Ids : Trim(e)[i] \in {e[i], "absent"}
           /\ \A i \in Ids : e[i] = "running" => Trim(e)[i] = "running"
  BY DEF Trim

\* The controller that was never started satisfies the inductive invariant.
LEMMA InitIInv == Init => IInv
  <1> SUFFICES ASSUME Init PROVE IInv
    OBVIOUS
  <1>1. TypeOK
    <2>1. 0 \in 0..MaxID
      BY IDBoundAssumption
    <2>2. /\ pc \in [Callers -> {"idle", "rejecting", "working"}]
          /\ opID \in [Callers -> 0..MaxID]
      BY <2>1 DEF Init
    <2>3. \A S : NoRows \in [Ids -> S \cup {"absent"}]
      BY DEF NoRows
    <2> QED
      BY <2>1, <2>2, <2>3 DEF Init, TypeOK, Handles
  <1>2. Working = {}
    BY DEF Init, Working
  <1>3. /\ \A i \in Ids : /\ entries[i] = "absent" /\ store[i] = "absent"
                         /\ outcome[i] = "absent" /\ pendingTerminal[i] = "absent"
        /\ alive = FALSE /\ running = FALSE /\ acked = {}
    BY DEF Init, NoRows
  <1>4. NothingWithoutLog
    BY DEF Init, NothingWithoutLog
  <1> QED
    BY <1>1, <1>2, <1>3, <1>4
    DEF IInv, OperationsExclusive, ActiveOwnsRow, PendingSound, FreshIDs,
        ResultsKept, RunningRowsExplained, AckedIsDurable, DivergenceIsReported

\* Flushing a set of pending results gives well-typed rows, changes only rows that
\* said "running" and leaves the other pending results where they are.
LEMMA FlushEffect ==
    ASSUME TypeOK, PendingSound, NEW F \in SUBSET Pending
    PROVE  /\ FlushedRows(F) \in [Ids -> Statuses \cup {"absent"}]
           /\ StillPending(F) \in [Ids -> Terminal \cup {"absent"}]
           /\ \A i \in F : /\ i \in Ids
                           /\ store[i] = "running"
                           /\ pendingTerminal[i] \in Terminal
                           /\ FlushedRows(F)[i] = pendingTerminal[i]
                           /\ StillPending(F)[i] = "absent"
           /\ \A i \in Ids \ F : /\ FlushedRows(F)[i] = store[i]
                                 /\ StillPending(F)[i] = pendingTerminal[i]
  BY DEF FlushedRows, StillPending, Pending, PendingSound, TypeOK, Statuses, Terminal

\* StartBusy only moves the handler to its rejection.
LEMMA StartBusyIInv ==
    ASSUME IInv, NEW c \in Callers, StartBusy(c)
    PROVE  IInv'
  <1>1. Working' = Working
    BY DEF StartBusy, Working, IInv, TypeOK
  <1> QED
    BY <1>1
    DEF StartBusy, volatile, IInv, TypeOK, OperationsExclusive, ActiveOwnsRow, PendingSound,
        FreshIDs, NothingWithoutLog, ResultsKept, RunningRowsExplained, AckedIsDurable,
        DivergenceIsReported, Pending, NoRows, Working

\* A start that gives up may have stored pending results, and always reports the
\* degraded log.
LEMMA StartFlushFailsIInv ==
    ASSUME IInv, NEW c \in Callers, StartFlushFails(c)
    PROVE  IInv'
  <1>1. PICK F \in SUBSET Pending : Flush(F)
    BY DEF StartFlushFails
  <1>2. Working' = Working /\ Working = {}
    BY DEF StartFlushFails, CanStart, Working, IInv, OperationsExclusive
  <1>3. /\ degraded' = TRUE /\ running = FALSE /\ running' = FALSE
        /\ alive = TRUE /\ alive' = TRUE /\ handle' = handle
        /\ nextID \in 0..MaxID /\ nextID' \in 0..MaxID /\ nextID' >= nextID
    BY IDBoundAssumption DEF StartFlushFails, CanStart, IInv, TypeOK
  <1>4. F # {} => handle = "sqlite"
    BY <1>1 DEF Flush, CanPersist
  <1>5. /\ store' \in [Ids -> Statuses \cup {"absent"}]
        /\ pendingTerminal' \in [Ids -> Terminal \cup {"absent"}]
        /\ \A i \in F : /\ i \in Ids
                       /\ store[i] = "running" /\ store'[i] = pendingTerminal[i]
                       /\ pendingTerminal[i] \in Terminal /\ pendingTerminal'[i] = "absent"
        /\ \A i \in Ids \ F : /\ store'[i] = store[i]
                             /\ pendingTerminal'[i] = pendingTerminal[i]
    <2>1. TypeOK /\ PendingSound
      BY DEF IInv
    <2>2. store' = FlushedRows(F) /\ pendingTerminal' = StillPending(F)
      BY <1>1 DEF Flush
    <2> QED
      BY <1>1, <2>1, <2>2, FlushEffect
  <1>6. TypeOK'
    BY <1>3, <1>5 DEF StartFlushFails, IInv, TypeOK
  <1>7. OperationsExclusive' /\ ActiveOwnsRow'
    BY <1>2, <1>3 DEF IInv, OperationsExclusive, ActiveOwnsRow
  <1>8. PendingSound'
    BY <1>3, <1>5 DEF IInv, PendingSound, Ids
  <1>9. FreshIDs'
    <2>1. \A i \in Ids : i > nextID => i \notin F \/ handle # "sqlite"
      BY <1>3, <1>5 DEF IInv, FreshIDs, Ids
    <2> QED
      BY <2>1, <1>3, <1>5 DEF StartFlushFails, IInv, FreshIDs, Ids
  <1>10. NothingWithoutLog'
    <2>1. handle = "unloaded" => pendingTerminal' = pendingTerminal
      BY <1>4, <1>5 DEF IInv, TypeOK
    <2> QED
      BY <2>1, <1>3 DEF IInv, NothingWithoutLog
  <1>11. ResultsKept'
    BY <1>5 DEF StartFlushFails, IInv, TypeOK, ResultsKept, Terminal
  <1>12. RunningRowsExplained'
    BY <1>2, <1>3, <1>5 DEF IInv, RunningRowsExplained, Terminal, Pending
  <1>13. AckedIsDurable'
    BY <1>5 DEF StartFlushFails, IInv, TypeOK, AckedIsDurable
  <1>14. DivergenceIsReported'
    BY <1>3 DEF DivergenceIsReported
  <1> QED
    BY <1>6, <1>7, <1>8, <1>9, <1>10, <1>11, <1>12, <1>13, <1>14 DEF IInv

\* The same holds when start gives up after it took an id.
LEMMA StartPersistFailsIInv ==
    ASSUME IInv, NEW c \in Callers, StartPersistFails(c)
    PROVE  IInv'
  <1>1. PICK F \in SUBSET Pending : Flush(F)
    BY DEF StartPersistFails
  <1>2. Working' = Working /\ Working = {}
    BY DEF StartPersistFails, CanStart, Working, IInv, OperationsExclusive
  <1>3. /\ degraded' = TRUE /\ running = FALSE /\ running' = FALSE
        /\ alive = TRUE /\ alive' = TRUE /\ handle' = handle
        /\ nextID \in 0..MaxID /\ nextID' \in 0..MaxID /\ nextID' >= nextID
    BY IDBoundAssumption DEF StartPersistFails, CanStart, IInv, TypeOK
  <1>4. F # {} => handle = "sqlite"
    BY <1>1 DEF Flush, CanPersist
  <1>5. /\ store' \in [Ids -> Statuses \cup {"absent"}]
        /\ pendingTerminal' \in [Ids -> Terminal \cup {"absent"}]
        /\ \A i \in F : /\ i \in Ids
                       /\ store[i] = "running" /\ store'[i] = pendingTerminal[i]
                       /\ pendingTerminal[i] \in Terminal /\ pendingTerminal'[i] = "absent"
        /\ \A i \in Ids \ F : /\ store'[i] = store[i]
                             /\ pendingTerminal'[i] = pendingTerminal[i]
    <2>1. TypeOK /\ PendingSound
      BY DEF IInv
    <2>2. store' = FlushedRows(F) /\ pendingTerminal' = StillPending(F)
      BY <1>1 DEF Flush
    <2> QED
      BY <1>1, <2>1, <2>2, FlushEffect
  <1>6. TypeOK'
    BY <1>3, <1>5 DEF StartPersistFails, IInv, TypeOK
  <1>7. OperationsExclusive' /\ ActiveOwnsRow'
    BY <1>2, <1>3 DEF IInv, OperationsExclusive, ActiveOwnsRow
  <1>8. PendingSound'
    BY <1>3, <1>5 DEF IInv, PendingSound, Ids
  <1>9. FreshIDs'
    <2>1. \A i \in Ids : i > nextID => i \notin F \/ handle # "sqlite"
      BY <1>3, <1>5 DEF IInv, FreshIDs, Ids
    <2> QED
      BY <2>1, <1>3, <1>5 DEF StartPersistFails, IInv, FreshIDs, Ids
  <1>10. NothingWithoutLog'
    <2>1. handle = "unloaded" => pendingTerminal' = pendingTerminal
      BY <1>4, <1>5 DEF IInv, TypeOK
    <2> QED
      BY <2>1, <1>3 DEF IInv, NothingWithoutLog
  <1>11. ResultsKept'
    BY <1>5 DEF StartPersistFails, IInv, TypeOK, ResultsKept, Terminal
  <1>12. RunningRowsExplained'
    BY <1>2, <1>3, <1>5 DEF IInv, RunningRowsExplained, Terminal, Pending
  <1>13. AckedIsDurable'
    BY <1>5 DEF StartPersistFails, IInv, TypeOK, AckedIsDurable
  <1>14. DivergenceIsReported'
    BY <1>3 DEF DivergenceIsReported
  <1> QED
    BY <1>6, <1>7, <1>8, <1>9, <1>10, <1>11, <1>12, <1>13, <1>14 DEF IInv

\* An admitted operation owns the fresh id nextID + 1 and finds no pending result.
LEMMA StartAdmitsIInv ==
    ASSUME IInv, NEW c \in Callers, StartAdmits(c)
    PROVE  IInv'
  <1>1. PICK F \in SUBSET Pending : F = Pending
    OBVIOUS
  <1>2. PICK id \in Nat : id = nextID + 1
    BY DEF IInv, TypeOK
  <1>3. /\ running = FALSE /\ running' = TRUE /\ alive = TRUE /\ alive' = TRUE
        /\ handle = "sqlite" /\ handle' = "sqlite"
        /\ nextID \in Nat /\ nextID' = id /\ id \in 0..MaxID /\ id \in Ids
    BY <1>2, IDBoundAssumption DEF StartAdmits, CanStart, CanPersist, IInv, TypeOK, Ids
  <1>4. store[id] = "absent" /\ outcome[id] = "absent" /\ id \notin F
    BY <1>1, <1>2, <1>3 DEF IInv, FreshIDs, PendingSound, Pending
  <1>5. /\ store' \in [Ids -> Statuses \cup {"absent"}]
        /\ store'[id] = "running"
        /\ \A i \in F : /\ i \in Ids /\ i # id
                       /\ store[i] = "running" /\ store'[i] = pendingTerminal[i]
                       /\ pendingTerminal[i] \in Terminal
        /\ \A i \in Ids \ F : i # id => store'[i] = store[i]
        /\ pendingTerminal' \in [Ids -> Terminal \cup {"absent"}]
        /\ \A i \in Ids : pendingTerminal'[i] = "absent"
        /\ \A i \in Ids : pendingTerminal[i] # "absent" <=> i \in F
    <2>1. TypeOK /\ PendingSound
      BY DEF IInv
    <2>2. store' = [FlushedRows(F) EXCEPT ![id] = "running"] /\ pendingTerminal' = StillPending(F)
      BY <1>1, <1>2 DEF StartAdmits
    <2>3. \A i \in Ids : pendingTerminal[i] # "absent" <=> i \in F
      BY <1>1 DEF Pending
    <2>4. /\ FlushedRows(F) \in [Ids -> Statuses \cup {"absent"}]
          /\ StillPending(F) \in [Ids -> Terminal \cup {"absent"}]
          /\ \A i \in F : /\ i \in Ids
                         /\ store[i] = "running"
                         /\ pendingTerminal[i] \in Terminal
                         /\ FlushedRows(F)[i] = pendingTerminal[i]
                         /\ StillPending(F)[i] = "absent"
          /\ \A i \in Ids \ F : /\ FlushedRows(F)[i] = store[i]
                               /\ StillPending(F)[i] = pendingTerminal[i]
      BY <2>1, FlushEffect
    <2>5. "running" \in Statuses
      BY DEF Statuses
    <2> QED
      BY <1>3, <1>4, <2>2, <2>3, <2>4, <2>5
  <1>6. /\ entries' \in [Ids -> Statuses \cup {"absent"}]
        /\ entries'[id] = "running"
        /\ \A i \in Ids : i # id => entries'[i] \in {entries[i], "absent"}
    <2> DEFINE e == [entries EXCEPT ![id] = "running"]
    <2>1. e \in [Ids -> Statuses \cup {"absent"}] /\ e[id] = "running"
      BY <1>3 DEF IInv, TypeOK, Statuses
    <2>2. \A i \in Ids : i # id => e[i] = entries[i]
      BY <1>3 DEF IInv, TypeOK
    <2>3. entries' = Trim(e)
      BY <1>2 DEF StartAdmits
    <2> HIDE DEF e
    <2> QED
      BY <1>3, <2>1, <2>2, <2>3, TrimKeeps
  <1>7. Working = {} /\ Working' = {c} /\ opID'[c] = id
    BY <1>2 DEF StartAdmits, CanStart, Working, IInv, OperationsExclusive, TypeOK
  <1>8. TypeOK'
    <2>1. opID' \in [Callers -> 0..MaxID] /\ pc' \in [Callers -> {"idle", "rejecting", "working"}]
      BY <1>2, <1>3 DEF StartAdmits, IInv, TypeOK
    <2>2. degraded' \in BOOLEAN /\ outcome' = outcome /\ acked' = acked
      BY DEF StartAdmits, IInv, TypeOK
    <2> QED
      BY <2>1, <2>2, <1>3, <1>5, <1>6 DEF IInv, TypeOK, Handles
  <1>9. OperationsExclusive'
    BY <1>3, <1>7 DEF OperationsExclusive
  <1>10. ActiveOwnsRow'
    <2>1. outcome' = outcome
      BY DEF StartAdmits
    <2> QED
      BY <2>1, <1>2, <1>3, <1>4, <1>5, <1>6, <1>7 DEF ActiveOwnsRow
  <1>11. PendingSound' /\ NothingWithoutLog'
    BY <1>3, <1>5 DEF PendingSound, NothingWithoutLog
  <1>12. FreshIDs'
    BY <1>2, <1>3, <1>5 DEF IInv, FreshIDs, StartAdmits, Ids
  <1>13. ResultsKept'
    BY <1>4, <1>5 DEF StartAdmits, IInv, TypeOK, ResultsKept, Terminal
  <1>14. RunningRowsExplained'
    <2>1. ASSUME NEW i \in Ids, store'[i] = "running" PROVE i = id
      <3>1. i \notin F
        BY <1>5, <2>1 DEF Terminal
      <3>2. i # id => store[i] = "running"
        BY <1>5, <2>1, <3>1
      <3> QED
        BY <1>1, <1>3, <3>1, <3>2 DEF IInv, RunningRowsExplained
    <2> QED
      BY <2>1, <1>3, <1>7 DEF RunningRowsExplained
  <1>15. AckedIsDurable'
    BY <1>3, <1>4, <1>5 DEF IInv, AckedIsDurable, StartAdmits, TypeOK
  <1>16. DivergenceIsReported'
    <2>1. F # {} => degraded
      BY <1>5 DEF IInv, PendingSound, Terminal
    <2>2. degraded' = degraded
      BY DEF StartAdmits
    <2> QED
      BY <2>1, <2>2, <1>3, <1>5, <1>6 DEF IInv, DivergenceIsReported
  <1> QED
    BY <1>8, <1>9, <1>10, <1>11, <1>12, <1>13, <1>14, <1>15, <1>16 DEF IInv

\* A rejection takes a fresh id and touches no other row; the active operation's
\* entry survives the trimming.
LEMMA RejectIInv ==
    ASSUME IInv, NEW c \in Callers, Reject(c)
    PROVE  IInv'
  <1>1. PICK ok \in BOOLEAN : /\ ok => handle = "sqlite"
                              /\ store' = Upsert(store, nextID + 1, "rejected", ok)
                              /\ degraded' = (degraded \/ ~ok)
    BY DEF Reject, CanPersist, RejectDegrades
  <1>2. PICK id \in Nat : id = nextID + 1
    BY DEF IInv, TypeOK
  <1>3. /\ alive = TRUE /\ alive' = TRUE /\ handle' = handle /\ running' = running
        /\ nextID \in Nat /\ nextID' = id /\ id \in 0..MaxID /\ id \in Ids
    BY <1>2, IDBoundAssumption DEF Reject, IInv, TypeOK, Ids
  <1>4. /\ store' \in [Ids -> Statuses \cup {"absent"}]
        /\ store'[id] = IF ok THEN "rejected" ELSE store[id]
        /\ \A i \in Ids : i # id => store'[i] = store[i]
    BY <1>1, <1>2, <1>3 DEF IInv, TypeOK, Upsert, Statuses
  <1>5. /\ entries' \in [Ids -> Statuses \cup {"absent"}]
        /\ entries'[id] \in {"rejected", "absent"}
        /\ \A i \in Ids : i # id => entries'[i] \in {entries[i], "absent"}
        /\ \A i \in Ids : i # id /\ entries[i] = "running" => entries'[i] = "running"
    <2> DEFINE e == [entries EXCEPT ![id] = "rejected"]
    <2>1. e \in [Ids -> Statuses \cup {"absent"}] /\ e[id] = "rejected"
      BY <1>3 DEF IInv, TypeOK, Statuses
    <2>2. \A i \in Ids : i # id => e[i] = entries[i]
      BY <1>3 DEF IInv, TypeOK
    <2>3. entries' = Trim(e)
      BY <1>2 DEF Reject
    <2> HIDE DEF e
    <2> QED
      BY <1>3, <2>1, <2>2, <2>3, TrimKeeps
  <1>6. Working' = Working
    BY DEF Reject, Working, IInv, TypeOK
  <1>7. /\ pendingTerminal' = pendingTerminal /\ opID' = opID
        /\ outcome' = outcome /\ acked' = acked
    BY DEF Reject
  <1>8. ok => store[id] = "absent"
    BY <1>1, <1>2, <1>3 DEF IInv, FreshIDs
  <1>9. (degraded => degraded') /\ (~ok => degraded')
    BY <1>1
  <1>10. TypeOK'
    <2>1. pc' \in [Callers -> {"idle", "rejecting", "working"}] /\ degraded' \in BOOLEAN
      BY <1>1 DEF Reject, IInv, TypeOK
    <2> QED
      BY <2>1, <1>3, <1>4, <1>5, <1>7 DEF IInv, TypeOK
  <1>11. OperationsExclusive'
    BY <1>3, <1>6 DEF IInv, OperationsExclusive
  <1>12. ActiveOwnsRow'
    BY <1>2, <1>3, <1>4, <1>5, <1>6, <1>7 DEF IInv, ActiveOwnsRow, Ids
  <1>13. PendingSound'
    BY <1>2, <1>3, <1>4, <1>7, <1>8, <1>9 DEF IInv, PendingSound, Ids
  <1>14. FreshIDs'
    BY <1>2, <1>3, <1>4, <1>7 DEF IInv, FreshIDs, Ids
  <1>15. NothingWithoutLog'
    BY <1>3, <1>7 DEF IInv, NothingWithoutLog
  <1>16. ResultsKept'
    BY <1>2, <1>3, <1>4, <1>7 DEF IInv, ResultsKept, FreshIDs, Ids
  <1>17. RunningRowsExplained'
    <2>1. Pending' = Pending
      BY <1>7 DEF Pending
    <2>2. \A i \in Ids : store'[i] = "running" => store[i] = "running"
      BY <1>3, <1>4
    <2> QED
      BY <2>1, <2>2, <1>3, <1>6, <1>7 DEF IInv, RunningRowsExplained
  <1>18. AckedIsDurable'
    BY <1>3, <1>4, <1>7, <1>8 DEF IInv, TypeOK, AckedIsDurable
  <1>19. DivergenceIsReported'
    BY <1>3, <1>4, <1>5, <1>9 DEF IInv, DivergenceIsReported
  <1> QED
    BY <1>10, <1>11, <1>12, <1>13, <1>14, <1>15, <1>16, <1>17, <1>18, <1>19 DEF IInv

\* finish meets its entry, gives the lock back, and the result is stored or parked.
LEMMA FinishIInv ==
    ASSUME IInv, NEW c \in Callers, NEW status \in Terminal, Finish(c, status)
    PROVE  IInv'
  <1>1. PICK id : id = opID[c]
    OBVIOUS
  <1>2. /\ c \in Working /\ Working' = {} /\ Working = {c}
        /\ id \in Ids /\ id <= nextID /\ entries[id] = "running" /\ store[id] = "running"
        /\ outcome[id] = "absent"
    BY <1>1 DEF Finish, Working, IInv, TypeOK, OperationsExclusive, ActiveOwnsRow
  <1>3. PICK ok \in BOOLEAN : /\ ok => handle = "sqlite"
                              /\ store' = Upsert(store, id, status, ok)
                              /\ pendingTerminal' = Parked(id, status, ok)
                              /\ degraded' = (degraded \/ ~ok)
                              /\ running' = FALSE
                              /\ acked' = IF ReturnsNil(status, ok) THEN acked \cup {id} ELSE acked
    BY <1>1 DEF Finish, CanPersist, Unlock
  <1>4. /\ alive = TRUE /\ alive' = TRUE /\ handle' = handle /\ nextID' = nextID /\ opID' = opID
        /\ running = TRUE
    BY <1>2 DEF Finish, IInv, TypeOK, OperationsExclusive
  <1>5. /\ store' \in [Ids -> Statuses \cup {"absent"}]
        /\ store'[id] = IF ok THEN status ELSE "running"
        /\ \A i \in Ids : i # id => store'[i] = store[i]
    BY <1>2, <1>3 DEF IInv, TypeOK, Upsert, Statuses
  <1>6. /\ pendingTerminal' \in [Ids -> Terminal \cup {"absent"}]
        /\ pendingTerminal'[id] = IF ok THEN "absent" ELSE status
        /\ \A i \in Ids : pendingTerminal[i] = "absent"
        /\ \A i \in Ids : i # id => pendingTerminal'[i] = "absent"
    <2>1. \A i \in Ids : pendingTerminal[i] = "absent"
      BY <1>4 DEF IInv, PendingSound
    <2> QED
      BY <2>1, <1>2, <1>3 DEF IInv, TypeOK, Parked
  <1>7. /\ entries' \in [Ids -> Statuses \cup {"absent"}]
        /\ entries'[id] = status
        /\ \A i \in Ids : i # id => entries'[i] = entries[i]
    BY <1>1, <1>2 DEF Finish, IInv, TypeOK, Statuses
  <1>8. /\ outcome' \in [Ids -> Terminal \cup {"absent"}]
        /\ outcome'[id] = status
        /\ \A i \in Ids : i # id => outcome'[i] = outcome[i]
    BY <1>1, <1>2 DEF Finish, IInv, TypeOK
  <1>9. acked' \subseteq acked \cup {id} /\ (id \in acked' => ok /\ status = "succeeded")
    BY <1>2, <1>3 DEF IInv, AckedIsDurable, ReturnsNil
  <1>10. (degraded => degraded') /\ (~ok => degraded')
    BY <1>3
  <1>11. TypeOK'
    <2>1. pc' \in [Callers -> {"idle", "rejecting", "working"}] /\ degraded' \in BOOLEAN
      BY <1>3 DEF Finish, IInv, TypeOK
    <2>2. acked' \in SUBSET Ids
      BY <1>2, <1>9 DEF IInv, TypeOK
    <2> QED
      BY <2>1, <2>2, <1>3, <1>4, <1>5, <1>6, <1>7, <1>8 DEF IInv, TypeOK
  <1>12. OperationsExclusive' /\ ActiveOwnsRow'
    BY <1>2, <1>3 DEF OperationsExclusive, ActiveOwnsRow
  <1>13. PendingSound'
    BY <1>2, <1>3, <1>4, <1>5, <1>6, <1>10 DEF PendingSound
  <1>14. FreshIDs'
    <2>1. nextID \in Nat
      BY DEF IInv, TypeOK
    <2> QED
      BY <2>1, <1>2, <1>4, <1>5, <1>8 DEF IInv, FreshIDs, Ids
  <1>15. NothingWithoutLog'
    BY <1>4 DEF IInv, NothingWithoutLog
  <1>16. ResultsKept'
    BY <1>2, <1>5, <1>6, <1>8 DEF IInv, TypeOK, ResultsKept, Terminal
  <1>17. RunningRowsExplained'
    <2>1. \A i \in Ids : store[i] = "running" => i = id
      BY <1>1, <1>2, <1>4 DEF IInv, RunningRowsExplained, NothingWithoutLog
    <2>2. \A i \in Ids : store'[i] = "running" => i = id /\ ~ok
      BY <2>1, <1>2, <1>5 DEF Terminal
    <2>3. ~ok => id \in Pending'
      BY <1>2, <1>6 DEF Pending, Terminal
    <2> QED
      BY <2>2, <2>3, <1>3 DEF RunningRowsExplained
  <1>18. AckedIsDurable'
    BY <1>2, <1>5, <1>9 DEF IInv, TypeOK, AckedIsDurable
  <1>19. DivergenceIsReported'
    BY <1>4, <1>5, <1>7, <1>10 DEF IInv, DivergenceIsReported
  <1> QED
    BY <1>11, <1>12, <1>13, <1>14, <1>15, <1>16, <1>17, <1>18, <1>19 DEF IInv

\* A failing query sets persistenceDegraded and nothing else.
LEMMA ListQueryFailsIInv == IInv /\ ListQueryFails => IInv'
  <1> SUFFICES ASSUME IInv, ListQueryFails PROVE IInv'
    OBVIOUS
  <1>1. Working' = Working /\ Pending' = Pending
    BY DEF ListQueryFails, Working, Pending
  <1> QED
    BY <1>1
    DEF ListQueryFails, IInv, TypeOK, OperationsExclusive, ActiveOwnsRow, PendingSound, FreshIDs,
        NothingWithoutLog, ResultsKept, RunningRowsExplained, AckedIsDurable,
        DivergenceIsReported

\* Close only takes the store away.
LEMMA CloseIInv == IInv /\ Close => IInv'
  <1> SUFFICES ASSUME IInv, Close PROVE IInv'
    OBVIOUS
  <1>1. Working' = Working /\ Pending' = Pending
    BY DEF Close, volatile, Working, Pending
  <1>2. alive' = alive /\ handle = "sqlite" /\ handle' = "closed"
    BY DEF Close
  <1> QED
    BY <1>1, <1>2
    DEF Close, volatile, Handles, IInv, TypeOK, OperationsExclusive, ActiveOwnsRow, PendingSound,
        FreshIDs, NothingWithoutLog, ResultsKept, RunningRowsExplained, AckedIsDurable,
        DivergenceIsReported

\* The end of the process keeps the table and forgets everything else.
LEMMA ExitIInv == IInv /\ Exit => IInv'
  <1> SUFFICES ASSUME IInv, Exit PROVE IInv'
    OBVIOUS
  <1>1. \A i \in Ids : NoRows[i] = "absent"
    BY DEF NoRows
  <1>2. TypeOK'
    <2>1. 0 \in 0..MaxID
      BY IDBoundAssumption
    <2>2. \A S : NoRows \in [Ids -> S \cup {"absent"}]
      BY DEF NoRows
    <2>3. /\ pc' \in [Callers -> {"idle", "rejecting", "working"}]
          /\ opID' \in [Callers -> 0..MaxID]
      BY <2>1 DEF Exit
    <2> QED
      BY <2>1, <2>2, <2>3 DEF Exit, IInv, TypeOK
  <1>3. Working' = {}
    BY DEF Exit, Working
  <1>4. NothingWithoutLog'
    BY DEF Exit, NothingWithoutLog, NoRows
  <1> QED
    BY <1>1, <1>2, <1>3, <1>4
    DEF Exit, IInv, OperationsExclusive, ActiveOwnsRow, PendingSound, FreshIDs,
        ResultsKept, RunningRowsExplained, AckedIsDurable, DivergenceIsReported

\* Load rewrites only rows that said "running", and leaves none.
LEMMA InterruptedRows ==
    ASSUME TypeOK
    PROVE  /\ Interrupted(store) \in [Ids -> Statuses \cup {"absent"}]
           /\ \A i \in Ids : /\ store[i] # "running" => Interrupted(store)[i] = store[i]
                             /\ store[i] = "running" => Interrupted(store)[i] = "failed"
  BY DEF Interrupted, TypeOK, Statuses, Terminal

\* A log that loads starts without running rows and above every stored id.
LEMMA LoadSucceedsIInv == IInv /\ LoadSucceeds => IInv'
  <1> SUFFICES ASSUME IInv, LoadSucceeds PROVE IInv'
    OBVIOUS
  <1>1. /\ alive = FALSE /\ alive' = TRUE /\ handle' = "sqlite"
        /\ running' = FALSE /\ outcome = NoRows /\ pendingTerminal = NoRows
        /\ outcome' = NoRows /\ pendingTerminal' = NoRows
    BY DEF LoadSucceeds, IInv, TypeOK, NothingWithoutLog
  <1>2. /\ store' \in [Ids -> Statuses \cup {"absent"}]
        /\ \A i \in Ids : /\ store[i] # "running" => store'[i] = store[i]
                          /\ store'[i] # "running"
    BY InterruptedRows DEF LoadSucceeds, IInv, TypeOK
  <1>3. /\ entries' \in [Ids -> Statuses \cup {"absent"}]
        /\ \A i \in Ids : entries'[i] \in {store'[i], "absent"}
    BY <1>2, TrimKeeps DEF LoadSucceeds
  <1>4. nextID' \in 0..MaxID /\ \A i \in Ids : store'[i] # "absent" => i <= nextID'
    BY DEF LoadSucceeds, MaxStoredID
  <1>5. Working' = Working /\ Working = {}
    BY <1>1 DEF LoadSucceeds, Working, IInv, OperationsExclusive, NothingWithoutLog
  <1>6. \A i \in Ids : NoRows[i] = "absent"
    BY DEF NoRows
  <1>7. TypeOK'
    BY <1>1, <1>2, <1>3, <1>4 DEF LoadSucceeds, IInv, TypeOK, Handles
  <1>8. FreshIDs'
    BY <1>1, <1>4, <1>6 DEF FreshIDs, Ids
  <1>9. AckedIsDurable'
    BY <1>2 DEF LoadSucceeds, IInv, TypeOK, AckedIsDurable
  <1> QED
    BY <1>1, <1>2, <1>3, <1>5, <1>6, <1>7, <1>8, <1>9
    DEF IInv, OperationsExclusive, ActiveOwnsRow, PendingSound, NothingWithoutLog,
        ResultsKept, RunningRowsExplained, DivergenceIsReported

\* A log that does not load stays empty; its table may have been swept.
LEMMA LoadFailsIInv == IInv /\ LoadFails => IInv'
  <1> SUFFICES ASSUME IInv, LoadFails PROVE IInv'
    OBVIOUS
  <1>1. /\ alive = FALSE /\ alive' = TRUE /\ handle' = "unloaded"
        /\ running' = FALSE /\ degraded' = TRUE /\ outcome = NoRows
        /\ outcome' = NoRows /\ pendingTerminal' = NoRows
    BY DEF LoadFails, IInv, TypeOK, NothingWithoutLog
  <1>2. /\ store' \in [Ids -> Statuses \cup {"absent"}]
        /\ \A i \in Ids : store[i] # "running" => store'[i] = store[i]
    BY InterruptedRows DEF LoadFails, IInv, TypeOK
  <1>3. Working' = Working /\ Working = {}
    BY <1>1 DEF LoadFails, Working, IInv, OperationsExclusive, NothingWithoutLog
  <1>4. \A i \in Ids : NoRows[i] = "absent"
    BY DEF NoRows
  <1>5. TypeOK'
    BY <1>1, <1>2 DEF LoadFails, IInv, TypeOK, Handles
  <1>6. AckedIsDurable'
    BY <1>2 DEF LoadFails, IInv, TypeOK, AckedIsDurable
  <1> QED
    BY <1>1, <1>3, <1>4, <1>5, <1>6
    DEF IInv, OperationsExclusive, ActiveOwnsRow, PendingSound, FreshIDs, NothingWithoutLog,
        ResultsKept, RunningRowsExplained, DivergenceIsReported

\* Every step preserves the inductive invariant.
LEMMA StepIInv == IInv /\ [Next]_vars => IInv'
  <1> SUFFICES ASSUME IInv, [Next]_vars PROVE IInv'
    OBVIOUS
  <1>1. ASSUME NEW c \in Callers, StartBusy(c) PROVE IInv'
    BY <1>1, StartBusyIInv
  <1>2. ASSUME NEW c \in Callers, StartFlushFails(c) PROVE IInv'
    BY <1>2, StartFlushFailsIInv
  <1>3. ASSUME NEW c \in Callers, StartPersistFails(c) PROVE IInv'
    BY <1>3, StartPersistFailsIInv
  <1>4. ASSUME NEW c \in Callers, StartAdmits(c) PROVE IInv'
    BY <1>4, StartAdmitsIInv
  <1>5. ASSUME NEW c \in Callers, Reject(c) PROVE IInv'
    BY <1>5, RejectIInv
  <1>6. ASSUME NEW c \in Callers, NEW status \in Terminal, Finish(c, status) PROVE IInv'
    BY <1>6, FinishIInv
  <1>7. CASE ListQueryFails
    BY <1>7, ListQueryFailsIInv
  <1>8. CASE Close
    BY <1>8, CloseIInv
  <1>9. CASE Exit
    BY <1>9, ExitIInv
  <1>10. CASE LoadSucceeds
    BY <1>10, LoadSucceedsIInv
  <1>11. CASE LoadFails
    BY <1>11, LoadFailsIInv
  <1>12. CASE UNCHANGED vars
    <2>1. Working' = Working /\ Pending' = Pending
      BY <1>12 DEF vars, Working, Pending
    <2> QED
      BY <1>12, <2>1
      DEF vars, IInv, TypeOK, OperationsExclusive, ActiveOwnsRow, PendingSound, FreshIDs,
          NothingWithoutLog, ResultsKept, RunningRowsExplained, AckedIsDurable,
          DivergenceIsReported
  <1> QED
    BY <1>1, <1>2, <1>3, <1>4, <1>5, <1>6, <1>7, <1>8, <1>9, <1>10, <1>11, <1>12 DEF Next

-----------------------------------------------------------------------------
\* The inductive invariant holds of every reachable state of the operation log.
THEOREM Invariance == Spec => []IInv
  <1>1. Init => IInv
    BY InitIInv
  <1>2. IInv /\ [Next]_vars => IInv'
    BY StepIInv
  <1> QED
    BY <1>1, <1>2, PTL DEF Spec

\* The manager's fields, the rows and the handlers keep their types.
THEOREM TypeCorrect == Spec => []TypeOK
  <1>1. IInv => TypeOK
    BY DEF IInv
  <1> QED
    BY <1>1, Invariance, PTL

\* start and finish make the operation lock exact: m.running holds exactly while
\* one handler, and never two, is between them.
THEOREM Exclusion == Spec => []OperationsExclusive
  <1>1. IInv => OperationsExclusive
    BY DEF IInv
  <1> QED
    BY <1>1, Invariance, PTL

\* No amount of rejected requests evicts the active operation's entry.
THEOREM ActiveNeverTrimmed == Spec => []ActiveFinishable
  <1>1. IInv => ActiveFinishable
    BY DEF IInv, ActiveOwnsRow, ActiveFinishable
  <1> QED
    BY <1>1, Invariance, PTL

\* Together: start admits one operation at a time, which can be finished.
THEOREM AdmissionIsExact == Spec => []AdmissionExact
  BY Exclusion, ActiveNeverTrimmed, PTL DEF AdmissionExact

\* No result is lost while the process lives: it is stored or parked.
THEOREM NoResultLost == Spec => []ResultsKept
  <1>1. IInv => ResultsKept
    BY DEF IInv
  <1> QED
    BY <1>1, Invariance, PTL

\* A stored "running" row is the active operation's or has its result parked.
THEOREM RunningRows == Spec => []RunningRowsExplained
  <1>1. IInv => RunningRowsExplained
    BY DEF IInv
  <1> QED
    BY <1>1, Invariance, PTL

\* What Run reported as a success stays a success in operations.db across any
\* sequence of shutdowns, crashes and loads.
THEOREM AckedStaysStored == Spec => []AckedIsDurable
  <1>1. IInv => AckedIsDurable
    BY DEF IInv
  <1> QED
    BY <1>1, Invariance, PTL

\* Memory and table differ only in a log that reports itself degraded.
THEOREM DivergenceReported == Spec => []DivergenceIsReported
  <1>1. IInv => DivergenceIsReported
    BY DEF IInv
  <1> QED
    BY <1>1, Invariance, PTL

\* Together: the log in memory and on disk tells what happened, or says that it does not.
THEOREM LogIsFaithful == Spec => []LogFaithful
  BY NoResultLost, RunningRows, AckedStaysStored, DivergenceReported, PTL DEF LogFaithful

\* operations.db is append-only but for a running row becoming terminal: no id is
\* ever handed out twice for a row that is stored, whatever was trimmed from
\* memory, burned by a failed start or lost in a crash.
THEOREM RowsAreFinal == Spec => RowsFinal
  <1>1. IInv /\ [Next]_vars => [RowStep]_vars
    <2> SUFFICES ASSUME IInv, Next PROVE RowStep
      OBVIOUS
    <2> USE DEF RowStep
    <2>1. ASSUME NEW F \in SUBSET Pending, store' = FlushedRows(F) PROVE RowStep
      BY <2>1, FlushEffect DEF IInv, TypeOK
    <2>2. ASSUME NEW c \in Callers, StartFlushFails(c) \/ StartPersistFails(c) PROVE RowStep
      <3>1. PICK F \in SUBSET Pending : Flush(F)
        BY <2>2 DEF StartFlushFails, StartPersistFails
      <3> QED
        BY <2>1, <3>1 DEF Flush
    <2>3. ASSUME NEW c \in Callers, StartAdmits(c) PROVE RowStep
      <3>1. nextID + 1 \in Ids /\ store[nextID + 1] = "absent"
        BY <2>3, IDBoundAssumption DEF StartAdmits, CanPersist, IInv, TypeOK, FreshIDs, Ids
      <3>2. /\ FlushedRows(Pending) \in [Ids -> Statuses \cup {"absent"}]
            /\ \A i \in Ids : \/ FlushedRows(Pending)[i] = store[i]
                              \/ store[i] = "running" /\ FlushedRows(Pending)[i] \in Terminal
        BY FlushEffect DEF IInv
      <3>3. store' = [FlushedRows(Pending) EXCEPT ![nextID + 1] = "running"]
        BY <2>3 DEF StartAdmits
      <3> QED
        BY <3>1, <3>2, <3>3
    <2>4. ASSUME NEW c \in Callers, Reject(c) PROVE RowStep
      <3>1. PICK ok \in BOOLEAN : CanPersist(ok) /\ store' = Upsert(store, nextID + 1, "rejected", ok)
        BY <2>4 DEF Reject
      <3>2. ok => nextID + 1 \in Ids /\ store[nextID + 1] = "absent"
        BY <2>4, <3>1, IDBoundAssumption DEF Reject, CanPersist, IInv, TypeOK, FreshIDs, Ids
      <3> QED
        BY <3>1, <3>2 DEF Upsert, IInv, TypeOK
    <2>5. ASSUME NEW c \in Callers, NEW status \in Terminal, Finish(c, status) PROVE RowStep
      <3>1. PICK ok \in BOOLEAN : store' = Upsert(store, opID[c], status, ok)
        BY <2>5 DEF Finish
      <3>2. opID[c] \in Ids /\ store[opID[c]] = "running"
        BY <2>5 DEF Finish, Working, IInv, ActiveOwnsRow
      <3> QED
        BY <3>1, <3>2 DEF Upsert, IInv, TypeOK
    <2>6. CASE LoadSucceeds \/ LoadFails
      BY <2>6, InterruptedRows DEF LoadSucceeds, LoadFails, IInv, Terminal
    <2>7. CASE store' = store
      BY <2>7
    <2> QED
      BY <2>2, <2>3, <2>4, <2>5, <2>6, <2>7
      DEF Next, StartBusy, ListQueryFails, Close, Exit
  <1> QED
    BY <1>1, Invariance, PTL DEF Spec, RowsFinal

-----------------------------------------------------------------------------
(* The abstract log *)

\* At most one result waits, because an admission stores the one before.
OnePending == \A i, j \in Pending : i = j

ActiveIds == {opID[c] : c \in Working}

\* A handler at work is the only one, and its row is the only one that says "running".
LEMMA ActiveAlone ==
    ASSUME IInv, NEW c \in Working
    PROVE  /\ ActiveIds = {opID[c]} /\ Pending = {} /\ running /\ alive
           /\ opID[c] \in Ids /\ store[opID[c]] = "running" /\ entries[opID[c]] = "running"
           /\ \A i \in Ids \ {opID[c]} : store[i] # "running"
  <1>1. running /\ \A d \in Working : d = c
    BY DEF IInv, OperationsExclusive
  <1>2. alive /\ handle # "unloaded"
    BY <1>1 DEF IInv, NothingWithoutLog, TypeOK
  <1>3. ActiveIds = {opID[c]}
    BY <1>1 DEF ActiveIds
  <1>4. \A i \in Ids \ {opID[c]} : store[i] # "running"
    BY <1>1, <1>2 DEF IInv, RunningRowsExplained
  <1>5. Pending = {}
    BY <1>1 DEF IInv, PendingSound, Pending
  <1> QED
    BY <1>1, <1>2, <1>3, <1>4, <1>5 DEF IInv, ActiveOwnsRow

LEMMA NobodyActive ==
    ASSUME IInv, ~running
    PROVE  Working = {} /\ ActiveIds = {}
  BY DEF IInv, OperationsExclusive, ActiveIds

\* Stored or not, a result is told alike.
LEMMA FlushTellsAlike ==
    ASSUME IInv, ~running, NEW F \in SUBSET Pending, Flush(F), Working' = Working
    PROVE  /\ ActiveIds' = ActiveIds /\ ActiveIds = {} /\ Pending' = Pending \ F
           /\ \A i \in Ids : Told(i)' = Told(i)
           /\ \A i \in Ids \ F : store'[i] = store[i]
           /\ \A i \in F : store'[i] \in Terminal
  <1>1. /\ store' = FlushedRows(F) /\ pendingTerminal' = StillPending(F)
        /\ Working = {} /\ ActiveIds = {} /\ ActiveIds' = {}
    BY NobodyActive DEF Flush, ActiveIds
  <1>2. /\ \A i \in F : /\ i \in Ids /\ store[i] = "running" /\ pendingTerminal[i] \in Terminal
                        /\ store'[i] = pendingTerminal[i] /\ pendingTerminal'[i] = "absent"
        /\ \A i \in Ids \ F : store'[i] = store[i] /\ pendingTerminal'[i] = pendingTerminal[i]
    BY <1>1, FlushEffect DEF IInv
  <1>3. Pending' = Pending \ F
    BY <1>2 DEF Pending
  <1>4. ASSUME NEW i \in Ids PROVE Told(i)' = Told(i)
    <2>1. CASE i \in F
      BY <1>1, <1>2, <2>1 DEF Told, Terminal, ActiveIds
    <2>2. CASE i \notin F
      BY <1>1, <1>2, <1>3, <2>2 DEF Told, ActiveIds
    <2> QED
      BY <2>1, <2>2
  <1> QED
    BY <1>1, <1>2, <1>3, <1>4

\* What the readers of the log see does not change.
Unseen ==
    /\ \A i \in Ids : Told(i)' = Told(i)
    /\ ActiveIds' = ActiveIds /\ outcome' = outcome /\ acked' = acked

LEMMA UnseenSettles ==
    ASSUME Unseen, Pending' = Pending \/ Pending' = {}
    PROVE  [Log!Next]_(Log!vars)
  <1>1. [i \in Ids |-> Told(i)]' = [i \in Ids |-> Told(i)]
    BY DEF Unseen
  <1>2. CASE Pending' = {}
    BY <1>1, <1>2 DEF Unseen, ActiveIds, Log!Next, Log!Settle
  <1>3. CASE Pending' = Pending
    BY <1>1, <1>3 DEF Unseen, ActiveIds, Log!vars
  <1> QED
    BY <1>2, <1>3

\* Ids are handed out in order.
LEMMA NextIsNewest ==
    ASSUME IInv, alive, handle = "sqlite", nextID < MaxID
    PROVE  nextID + 1 \in Ids /\ store[nextID + 1] = "absent" /\ Log!Newest(nextID + 1)
  <1>1. nextID \in Nat /\ nextID + 1 \in Ids
    BY IDBoundAssumption DEF IInv, TypeOK, Ids
  <1>2. \A j \in Ids : store[j] # "absent" => j <= nextID
    BY <1>1 DEF IInv, FreshIDs, Ids
  <1>3. \A j \in Ids : Told(j) # "absent" => store[j] # "absent"
    BY DEF Told
  <1>4. \A j \in Ids : Told(j) # "absent" => j < nextID + 1
    BY <1>1, <1>2, <1>3 DEF Ids
  <1>5. store[nextID + 1] = "absent"
    BY <1>1, <1>2
  <1> QED
    BY <1>1, <1>4, <1>5 DEF Log!Newest

LEMMA AdmitRefines ==
    ASSUME IInv, NEW c \in Callers, StartAdmits(c)
    PROVE  \E i \in Ids : Log!Admit(i)
  <1> DEFINE n == nextID + 1
  <1>1. /\ alive /\ handle = "sqlite" /\ nextID < MaxID /\ ~running /\ pc[c] = "idle"
        /\ store' = [FlushedRows(Pending) EXCEPT ![n] = "running"]
        /\ pendingTerminal' = StillPending(Pending)
        /\ pc' = [pc EXCEPT ![c] = "working"] /\ opID' = [opID EXCEPT ![c] = n]
        /\ UNCHANGED <<outcome, acked>>
    BY DEF StartAdmits, CanStart, CanPersist
  <1>2. n \in Ids /\ store[n] = "absent" /\ Log!Newest(n)
    BY <1>1, NextIsNewest
  <1> HIDE DEF n
  <1>3. Working = {} /\ ActiveIds = {}
    BY <1>1, NobodyActive
  <1>4. Working' = {c} /\ ActiveIds' = {n}
    <2>1. Working' = {c}
      BY <1>1, <1>3 DEF Working, IInv, TypeOK
    <2> QED
      BY <1>1, <2>1 DEF ActiveIds, IInv, TypeOK
  <1>5. /\ FlushedRows(Pending) \in [Ids -> Statuses \cup {"absent"}]
        /\ \A i \in Pending : /\ store[i] = "running" /\ FlushedRows(Pending)[i] = pendingTerminal[i]
                              /\ pendingTerminal[i] \in Terminal /\ StillPending(Pending)[i] = "absent"
        /\ \A i \in Ids \ Pending : /\ FlushedRows(Pending)[i] = store[i]
                                    /\ StillPending(Pending)[i] = pendingTerminal[i]
    BY FlushEffect DEF IInv
  <1>6. Pending' = {}
    BY <1>1, <1>5 DEF Pending
  <1>7. ASSUME NEW k \in Ids, k = n PROVE Told(k)' = "running"
    <2>1. store'[k] = "running" /\ k \in ActiveIds'
      BY <1>1, <1>4, <1>5, <1>7
    <2> QED
      BY <2>1 DEF Told, ActiveIds
  <1>8. ASSUME NEW k \in Ids, k # n PROVE Told(k)' = Told(k)
    <2>1. store'[k] = FlushedRows(Pending)[k]
      BY <1>1, <1>5, <1>8
    <2>2. CASE k \in Pending
      BY <1>3, <1>5, <2>1, <2>2 DEF Told, Terminal, ActiveIds
    <2>3. CASE k \notin Pending
      <3>1. store[k] # "running"
        BY <1>1, <2>3 DEF IInv, RunningRowsExplained
      <3> QED
        BY <1>5, <2>1, <2>3, <3>1 DEF Told
    <2> QED
      BY <2>2, <2>3
  <1>9. [i \in Ids |-> Told(i)]' = [[i \in Ids |-> Told(i)] EXCEPT ![n] = "running"]
    <2>1. \A k \in Ids : Told(k)' = IF k = n THEN "running" ELSE Told(k)
      BY <1>7, <1>8
    <2> QED
      BY <2>1
  <1>10. Log!Admit(n)
    BY <1>1, <1>2, <1>3, <1>4, <1>6, <1>9 DEF Log!Admit, ActiveIds
  <1> QED
    BY <1>2, <1>10 DEF Log!Admit

LEMMA RejectRefines ==
    ASSUME IInv, NEW c \in Callers, Reject(c)
    PROVE  [Log!Next]_(Log!vars)
  <1> DEFINE n == nextID + 1
  <1>1. PICK ok \in BOOLEAN : CanPersist(ok) /\ store' = Upsert(store, n, "rejected", ok)
    BY DEF Reject
  <1>2. /\ alive /\ nextID < MaxID /\ pc[c] = "rejecting" /\ pc' = [pc EXCEPT ![c] = "idle"]
        /\ UNCHANGED <<opID, outcome, acked, pendingTerminal>>
    BY DEF Reject
  <1>3. Working' = Working /\ ActiveIds' = ActiveIds /\ Pending' = Pending
    BY <1>2 DEF Working, ActiveIds, Pending, IInv, TypeOK
  <1>4. CASE ok
    <2>1. n \in Ids /\ store[n] = "absent" /\ Log!Newest(n)
      BY <1>1, <1>2, <1>4, NextIsNewest DEF CanPersist
    <2> HIDE DEF n
    <2>2. store' = [store EXCEPT ![n] = "rejected"]
      BY <1>1, <1>4 DEF Upsert
    <2>3. ASSUME NEW k \in Ids
          PROVE  Told(k)' = IF k = n THEN "rejected" ELSE Told(k)
      BY <1>2, <1>3, <2>1, <2>2 DEF Told, ActiveIds, IInv, TypeOK
    <2>4. [i \in Ids |-> Told(i)]' = [[i \in Ids |-> Told(i)] EXCEPT ![n] = "rejected"]
      BY <2>3
    <2>5. Log!Refuse(n)
      BY <1>2, <1>3, <2>1, <2>4 DEF Log!Refuse, ActiveIds
    <2> QED
      BY <2>1, <2>5 DEF Log!Next
  <1>5. CASE ~ok
    <2>1. store' = store
      BY <1>1, <1>5 DEF Upsert
    <2>2. Unseen
      BY <1>2, <1>3, <2>1 DEF Unseen, Told, ActiveIds
    <2> QED
      BY <1>3, <2>2, UnseenSettles
  <1> QED
    BY <1>4, <1>5

LEMMA FinishRefines ==
    ASSUME IInv, NEW c \in Callers, NEW status \in Terminal, Finish(c, status)
    PROVE  \E i \in Ids : Log!End(i, status)
  <1> DEFINE id == opID[c]
  <1>1. /\ c \in Working /\ pc' = [pc EXCEPT ![c] = "idle"]
        /\ outcome' = [outcome EXCEPT ![id] = status] /\ opID' = opID
    BY DEF Finish, Working
  <1>2. /\ ActiveIds = {id} /\ Pending = {} /\ id \in Ids /\ store[id] = "running"
        /\ entries[id] = "running" /\ \A i \in Ids \ {id} : store[i] # "running"
    BY <1>1, ActiveAlone
  <1>3. PICK ok \in BOOLEAN :
           /\ store' = Upsert(store, id, status, ok)
           /\ pendingTerminal' = Parked(id, status, ok)
           /\ acked' = IF ReturnsNil(status, ok) THEN acked \cup {id} ELSE acked
    BY DEF Finish
  <1> HIDE DEF id
  <1>4. Working' = {} /\ ActiveIds' = {}
    <2>1. \A d \in Working : d = c
      BY <1>1 DEF IInv, OperationsExclusive
    <2>2. Working' = {}
      BY <1>1, <2>1 DEF Working, IInv, TypeOK
    <2> QED
      BY <2>2 DEF ActiveIds
  <1>5. /\ pendingTerminal'[id] = IF ok THEN "absent" ELSE status
        /\ \A i \in Ids \ {id} : pendingTerminal'[i] = pendingTerminal[i]
    BY <1>2, <1>3 DEF Parked, IInv, TypeOK
  <1>6. Pending' = IF ok THEN {} ELSE {id}
    BY <1>2, <1>5 DEF Pending, Terminal
  <1>7. \A i \in Ids \ {id} : store'[i] = store[i]
    BY <1>3 DEF Upsert, IInv, TypeOK
  <1>8. ASSUME NEW k \in Ids, k = id PROVE Told(k)' = status
    <2>1. store'[k] = IF ok THEN status ELSE "running"
      BY <1>2, <1>3, <1>8 DEF Upsert, IInv, TypeOK
    <2> QED
      BY <1>4, <1>5, <1>6, <1>8, <2>1 DEF Told, ActiveIds, Terminal
  <1>9. \A i \in Ids \ {id} : Told(i)' = Told(i)
    BY <1>2, <1>7 DEF Told
  <1>10. [i \in Ids |-> Told(i)]' = [[i \in Ids |-> Told(i)] EXCEPT ![id] = status]
    <2>1. \A k \in Ids : Told(k)' = IF k = id THEN status ELSE Told(k)
      BY <1>8, <1>9
    <2> QED
      BY <2>1
  <1>11. \/ Pending' = {} /\ acked' = IF status = "succeeded" THEN acked \cup {id} ELSE acked
         \/ Pending' = {id} /\ acked' = acked
    BY <1>3, <1>6 DEF ReturnsNil
  <1>12. Log!End(id, status)
    BY <1>1, <1>2, <1>4, <1>10, <1>11 DEF Log!End, ActiveIds
  <1> QED
    BY <1>2, <1>12

LEMMA ExitRefines ==
    ASSUME IInv, Exit
    PROVE  Log!Die
  <1>1. /\ store' = store /\ pendingTerminal' = NoRows /\ outcome' = NoRows /\ acked' = acked
        /\ pc' = [c \in Callers |-> "idle"]
    BY DEF Exit
  <1>2. Working' = {} /\ ActiveIds' = {} /\ Pending' = {}
    BY <1>1 DEF Working, ActiveIds, Pending, NoRows
  <1>3. \A i \in ActiveIds : store[i] = "running"
    BY DEF ActiveIds, IInv, ActiveOwnsRow
  <1>4. \A i \in Pending : store[i] = "running"
    BY DEF Pending, IInv, PendingSound
  <1>5. ASSUME NEW i \in Ids
        PROVE  Told(i)' = IF i \in ActiveIds \cup Pending THEN "failed" ELSE Told(i)
    BY <1>1, <1>2, <1>3, <1>4 DEF Told, ActiveIds
  <1>6. [i \in Ids |-> Told(i)]'
            = [i \in Ids |-> IF i \in ActiveIds \cup Pending THEN "failed" ELSE Told(i)]
    BY <1>5
  <1> QED
    BY <1>1, <1>2, <1>6 DEF Log!Die, Log!Nothing, NoRows, ActiveIds

\* A start of the process marks what was interrupted, which the log has told before.
LEMMA LoadUnseen ==
    ASSUME IInv, LoadSucceeds \/ LoadFails
    PROVE  Unseen /\ Pending' = Pending
  <1>1. /\ ~alive /\ store' \in {store, Interrupted(store)}
        /\ UNCHANGED <<pendingTerminal, pc, opID, outcome, acked>>
    BY DEF LoadSucceeds, LoadFails
  <1>2. Pending = {} /\ ~running
    BY <1>1 DEF IInv, NothingWithoutLog, Pending, NoRows
  <1>3. Working' = Working /\ ActiveIds' = ActiveIds /\ Pending' = Pending /\ ActiveIds = {}
    BY <1>1, <1>2, NobodyActive DEF Working, ActiveIds, Pending
  <1>4. \A i \in Ids : Told(i)' = Told(i)
    BY <1>1, <1>2, <1>3 DEF Told, Interrupted, ActiveIds
  <1> QED
    BY <1>1, <1>3, <1>4 DEF Unseen

LEMMA StepRefines ==
    ASSUME IInv, OnePending, [Next]_vars
    PROVE  [Log!Next]_(Log!vars)
  <1>1. ASSUME NEW c \in Callers, StartFlushFails(c) \/ StartPersistFails(c)
        PROVE  [Log!Next]_(Log!vars)
    <2>1. PICK F \in SUBSET Pending : Flush(F)
      BY <1>1 DEF StartFlushFails, StartPersistFails
    <2>2. ~running /\ UNCHANGED <<pc, opID, outcome, acked>>
      BY <1>1 DEF StartFlushFails, StartPersistFails, CanStart
    <2>3. Working' = Working
      BY <2>2 DEF Working
    <2>4. Unseen /\ Pending' = Pending \ F
      BY <2>1, <2>2, <2>3, FlushTellsAlike DEF Unseen
    <2>5. Pending' = Pending \/ Pending' = {}
      BY <2>4 DEF OnePending
    <2> QED
      BY <2>4, <2>5, UnseenSettles
  <1>2. ASSUME \/ \E c \in Callers : StartBusy(c)
               \/ ListQueryFails \/ Close \/ UNCHANGED vars
        PROVE  [Log!Next]_(Log!vars)
    <2>1. UNCHANGED <<store, pendingTerminal, opID, outcome, acked>>
      BY <1>2 DEF StartBusy, ListQueryFails, Close, vars, volatile
    <2>2. Working' = Working
      <3>1. CASE UNCHANGED pc
        BY <3>1 DEF Working
      <3>2. CASE \E c \in Callers : StartBusy(c)
        BY <3>2 DEF StartBusy, Working, IInv, TypeOK
      <3> QED
        BY <1>2, <3>1, <3>2 DEF ListQueryFails, Close, vars
    <2>3. Unseen /\ Pending' = Pending
      BY <2>1, <2>2 DEF Unseen, Told, ActiveIds, Pending
    <2> QED
      BY <2>3, UnseenSettles
  <1>3. CASE LoadSucceeds \/ LoadFails
    BY <1>3, LoadUnseen, UnseenSettles
  <1>4. CASE Exit
    BY <1>4, ExitRefines DEF Log!Next
  <1>5. ASSUME NEW c \in Callers, StartAdmits(c) PROVE [Log!Next]_(Log!vars)
    BY <1>5, AdmitRefines DEF Log!Next
  <1>6. ASSUME NEW c \in Callers, Reject(c) PROVE [Log!Next]_(Log!vars)
    BY <1>6, RejectRefines
  <1>7. ASSUME NEW c \in Callers, NEW status \in Terminal, Finish(c, status)
        PROVE  [Log!Next]_(Log!vars)
    BY <1>7, FinishRefines DEF Log!Next, Terminal
  <1> QED
    BY <1>1, <1>2, <1>3, <1>4, <1>5, <1>6, <1>7 DEF Next

\* A result that could not be stored is the only one: the next operation is not admitted
\* before it is (start, flushPendingTerminalLocked).
THEOREM OneResultWaits == Spec => []OnePending
  <1>1. Init => OnePending
    BY DEF Init, OnePending, Pending, NoRows
  <1>2. IInv /\ OnePending /\ [Next]_vars => OnePending'
    <2> SUFFICES ASSUME IInv, OnePending, [Next]_vars PROVE OnePending'
      OBVIOUS
    <2>1. ASSUME NEW c \in Callers, NEW status \in Terminal, Finish(c, status) PROVE OnePending'
      <3> DEFINE id == opID[c]
      <3>1. c \in Working
        BY <2>1 DEF Finish, Working
      <3>2. Pending = {} /\ id \in Ids
        BY <3>1, ActiveAlone
      <3>3. PICK ok \in BOOLEAN : pendingTerminal' = Parked(id, status, ok)
        BY <2>1 DEF Finish
      <3> HIDE DEF id
      <3>4. \A i \in Ids \ {id} : pendingTerminal'[i] = pendingTerminal[i]
        BY <3>2, <3>3 DEF Parked, IInv, TypeOK
      <3> QED
        BY <3>2, <3>4 DEF OnePending, Pending
    <2>2. ASSUME NEW F \in SUBSET Pending, pendingTerminal' = StillPending(F) PROVE OnePending'
      <3>1. Pending' \subseteq Pending
        BY <2>2, FlushEffect DEF IInv, Pending
      <3> QED
        BY <3>1 DEF OnePending
    <2>3. CASE UNCHANGED pendingTerminal
      BY <2>3 DEF OnePending, Pending
    <2>4. CASE pendingTerminal' = NoRows
      BY <2>4 DEF OnePending, Pending, NoRows
    <2> QED
      BY <2>1, <2>2, <2>3, <2>4
      DEF Next, StartBusy, StartFlushFails, StartPersistFails, StartAdmits, Flush, Reject,
          ListQueryFails, Close, Exit, LoadSucceeds, LoadFails, volatile, vars
  <1> QED
    BY <1>1, <1>2, Invariance, PTL DEF Spec

\* To its callers and readers the manager is the plain log: results that wait outside the
\* table, retries, trimming, failing loads and restarts are steps nobody sees.
THEOREM Refinement == Spec => ImplementsLog
  <1>1. Init => Log!Init
    <2> SUFFICES ASSUME Init PROVE Log!Init
      OBVIOUS
    <2>1. Working = {} /\ Pending = {} /\ acked = {} /\ outcome = NoRows /\ store = NoRows
      BY DEF Init, Working, Pending, NoRows
    <2>2. \A i \in Ids : Told(i) = "absent"
      BY <2>1 DEF Told, NoRows
    <2> QED
      BY <2>1, <2>2 DEF Log!Init, Log!Nothing, NoRows
  <1>2. IInv /\ OnePending /\ [Next]_vars => [Log!Next]_(Log!vars)
    BY StepRefines
  <1> QED
    BY <1>1, <1>2, Invariance, OneResultWaits, PTL DEF Spec, ImplementsLog, Log!Spec

=============================================================================
