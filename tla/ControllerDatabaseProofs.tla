----------------------- MODULE ControllerDatabaseProofs -----------------------
(***************************************************************************)
(* Atomicity of Restore over any number of databases, writes, restores and *)
(* faults: first the inductive invariant and the safety properties, then   *)
(* the refinement, the data directory implements AtomicDirectory. What     *)
(* AcquireLock would make of the directory changes with a write, a commit  *)
(* and a power loss only.                                                  *)
(***************************************************************************)
EXTENDS ControllerDatabase, TLAPS

\* Removing or renaming over one database changes nothing else.
LEMMA SetDBEffect ==
    ASSUME disk \in Directories, NEW d \in DB, NEW c \in Contents
    PROVE  /\ SetDB(d, c) \in Directories
           /\ SetDB(d, c).journal = disk.journal
           /\ SetDB(d, c).rollback = disk.rollback
           /\ SetDB(d, c).db \in Databases
           /\ SetDB(d, c).db[d] = c
           /\ \A e \in DB : e # d => SetDB(d, c).db[e] = disk.db[e]
  BY DEF SetDB, Directories, Databases

\* Removing the journal changes nothing else.
LEMMA WithoutJournalEffect ==
    ASSUME disk \in Directories
    PROVE  /\ WithoutJournal(disk) \in Directories
           /\ WithoutJournal(disk).journal = NoJournal
           /\ WithoutJournal(disk).rollback = disk.rollback
           /\ WithoutJournal(disk).db = disk.db
  BY DEF WithoutJournal, Directories

\* Removing a rollback directory leaves the databases and the journal.
LEMMA WithoutRollbackEffect ==
    ASSUME disk \in Directories, dir \in 0..MaxRestores
    PROVE  /\ WithoutRollback(disk) \in Directories
           /\ WithoutRollback(disk).journal = disk.journal
           /\ WithoutRollback(disk).db = disk.db
           /\ dir \in Dirs => WithoutRollback(disk).rollback[dir] = Nothing
  <1>1. Nothing \in Databases
    BY MaxVersionAssumption DEF Nothing, Databases, Contents, Missing
  <1> QED
    BY <1>1 DEF WithoutRollback, Directories

\* The journal's directory and the original set make AcquireLock's result well typed.
LEMMA RecoveredType ==
    ASSUME NEW s \in Directories
    PROVE  /\ Recovered(s) \in Databases
           /\ s.db \in Databases
           /\ s.rollback \in [Dirs -> Databases]
           /\ s.journal # NoJournal => s.journal.dir \in Dirs /\ s.journal.had \in SUBSET DB
  <1>1. /\ s.db \in Databases
        /\ s.rollback \in [Dirs -> Databases]
        /\ s.journal # NoJournal => s.journal.dir \in Dirs /\ s.journal.had \in SUBSET DB
    BY DEF Directories, Journals
  <1>2. Missing \in Contents
    BY MaxVersionAssumption DEF Contents, Missing
  <1> QED
    BY <1>1, <1>2 DEF Recovered, Databases

-----------------------------------------------------------------------------
(* Types *)

\* The initial directories are well typed.
LEMMA InitTypeOK == Init => TypeOK
  <1> SUFFICES ASSUME Init PROVE TypeOK
    OBVIOUS
  <1>1. 0 \in Contents /\ 1 \in Contents /\ 2 \in Contents
    BY MaxVersionAssumption DEF Contents
  <1>2. Nothing \in Databases /\ [d \in DB |-> 1] \in Databases
    BY <1>1 DEF Nothing, Databases, Missing
  <1>3. [n \in Dirs |-> Nothing] \in [Dirs -> Databases]
    BY <1>2
  <1>4. disk \in Directories
    <2>1. [DB -> {Missing, 2}] \subseteq Databases
      BY <1>1 DEF Databases, Missing
    <2> QED
      BY <1>3, <2>1 DEF Init, Directories
  <1>5. disk.db \in Databases
    BY <1>4, RecoveredType
  <1>6. 1 \in 1..(NumDB + 1) /\ 0 \in 0..MaxRestores /\ 0 \in 0..MaxFaults
    BY NumDBAssumption, MaxRestoresAssumption, MaxFaultsAssumption
  <1> QED
    BY <1>1, <1>2, <1>4, <1>5, <1>6 DEF Init, TypeOK

-----------------------------------------------------------------------------
(* What AcquireLock would make of the directory *)

\* Without a journal the databases are kept as they are.
LEMMA RecoveredWithout ==
    ASSUME NEW s, s.journal = NoJournal
    PROVE  Recovered(s) = s.db
  BY DEF Recovered

\* A valid journal makes the databases themselves irrelevant.
LEMMA RecoveredSame ==
    ASSUME NEW s, NEW t, s.journal # NoJournal, Valid(s),
           t.journal = s.journal, t.rollback = s.rollback
    PROVE  Valid(t) /\ Recovered(t) = Recovered(s)
  BY DEF Recovered, Valid

\* A journal written over untouched databases, with their copies saved, is valid
\* and leads back to them.
LEMMA RecoveredSaved ==
    ASSUME NEW s \in Directories, NEW n \in Dirs,
           s.journal = [dir |-> n, had |-> Present(s.db)], s.rollback[n] = s.db
    PROVE  Valid(s) /\ Recovered(s) = s.db
  <1>1. s.db \in Databases
    BY RecoveredType
  <1>2. /\ s.journal.dir = n
        /\ s.journal.had = Present(s.db)
    OBVIOUS
  <1>3. Valid(s)
    BY <1>2 DEF Valid, Present
  <1>4. s.journal # NoJournal
    BY <1>2 DEF NoJournal, Dirs
  <1>5. Recovered(s) = [d \in DB |-> IF d \in Present(s.db) THEN s.db[d] ELSE Missing]
    BY <1>2, <1>3, <1>4 DEF Recovered
  <1>6. Recovered(s) = [d \in DB |-> s.db[d]]
    BY <1>5 DEF Present
  <1> QED
    BY <1>1, <1>3, <1>6 DEF Databases

\* With the rollback directory of such a journal gone, the databases are kept too.
LEMMA RecoveredUnsaved ==
    ASSUME NEW s \in Directories, NEW n \in Dirs,
           s.journal = [dir |-> n, had |-> Present(s.db)], s.rollback[n] = Nothing
    PROVE  Recovered(s) = s.db
  <1>1. s.db \in Databases
    BY RecoveredType
  <1>2. /\ s.journal.dir = n
        /\ s.journal.had = Present(s.db)
    OBVIOUS
  <1>3. CASE Present(s.db) = {}
    <2>1. \A d \in DB : s.db[d] = Missing
      BY <1>3 DEF Present
    <2>2. s.db = [d \in DB |-> Missing]
      BY <1>1, <2>1 DEF Databases
    <2> QED
      BY <1>2, <1>3, <2>2 DEF Recovered
  <1>4. CASE Present(s.db) # {}
    <2>1. PICK d \in DB : d \in Present(s.db)
      BY <1>4 DEF Present
    <2>2. ~Valid(s)
      BY <1>2, <2>1 DEF Valid, Nothing
    <2> QED
      BY <2>2 DEF Recovered
  <1> QED
    BY <1>3, <1>4

-----------------------------------------------------------------------------
(* The steps by what they do to the directory *)

\* Steps that leave the directory alone.
Quiet ==
    \/ \E u \in {"controller", "backup", "restore"} : Acquire(u)
    \/ RecoverNothing \/ RecoverJournal \/ Validate \/ ValidateRefuses
    \/ Backup \/ BackupFails \/ ControllerStop \/ ReturnsError \/ Crash

\* Steps that only sync it.
Syncing ==
    UndoSync \/ RecoverySync \/ Stage \/ JournalSync \/ ReplaceSync \/ CommitSync

\* Removing and renaming databases under a journal.
Replacing ==
    \/ UndoRemoveNew \/ UndoRemove \/ UndoRename \/ UndoFails
    \/ ReplaceRemove \/ ReplaceRename \/ ReplaceFails

\* Steps that change the journal or the rollback directory.
Journalling ==
    \/ UndoCommit \/ RestoreUndone \/ SaveOriginals \/ WriteJournal \/ Commit
    \/ JournalFails

\* Every step is of one of these kinds, a transaction or a power loss.
LEMMA NextCases ==
    ASSUME Next
    PROVE  \/ Quiet \/ Syncing \/ Replacing \/ Journalling
           \/ (\E d \in DB : ControllerWrite(d)) \/ PowerLoss
  BY DEF Next, Progress, Quiet, Syncing, Replacing, Journalling

\* Steps that leave the directory alone keep the types.
LEMMA TypeQuiet ==
    ASSUME TypeOK, Quiet
    PROVE  TypeOK'
  <1> USE DEF TypeOK
  <1>1. 1 \in 1..(NumDB + 1)
    BY NumDBAssumption
  <1>2. ASSUME NEW u \in {"controller", "backup", "restore"}, Acquire(u) PROVE TypeOK'
    BY <1>2 DEF Acquire, Goto
  <1>3. CASE RecoverNothing
    BY <1>3 DEF RecoverNothing, Goto, Entry
  <1>4. CASE RecoverJournal
    BY <1>4 DEF RecoverJournal, Goto
  <1>5. CASE Validate
    BY <1>1, <1>5 DEF Validate, Goto
  <1>6. CASE ValidateRefuses
    BY <1>6 DEF ValidateRefuses, Return, Goto
  <1>7. CASE Backup
    <2>1. disk.db \in Databases
      BY RecoveredType
    <2> QED
      BY <1>7, <2>1 DEF Backup, Return, Goto
  <1>8. CASE BackupFails
    BY <1>8 DEF BackupFails, Return, Goto
  <1>9. CASE ControllerStop
    BY <1>9 DEF ControllerStop, Return, Goto
  <1>10. ASSUME Fault PROVE faults' \in 0..MaxFaults
    BY <1>10, MaxFaultsAssumption DEF Fault
  <1>11. CASE ReturnsError
    BY <1>10, <1>11 DEF ReturnsError, Return, Goto
  <1>12. CASE Crash
    BY <1>10, <1>12 DEF Crash, Return, Goto
  <1> QED
    BY <1>2, <1>3, <1>4, <1>5, <1>6, <1>7, <1>8, <1>9, <1>11, <1>12 DEF Quiet

\* Steps that sync the directory keep the types.
LEMMA TypeSyncing ==
    ASSUME TypeOK, Syncing
    PROVE  TypeOK'
  <1> USE DEF TypeOK, Synced
  <1>1. 1 \in 1..(NumDB + 1)
    BY NumDBAssumption
  <1>2. CASE UndoSync
    BY <1>2 DEF UndoSync, Return, Goto
  <1>3. CASE RecoverySync
    BY <1>3 DEF RecoverySync, Goto, Entry
  <1>4. CASE Stage
    BY <1>4 DEF Stage, Goto
  <1>5. CASE JournalSync
    BY <1>1, <1>5 DEF JournalSync, Goto
  <1>6. CASE ReplaceSync
    BY <1>6 DEF ReplaceSync, Goto
  <1>7. CASE CommitSync
    BY <1>7 DEF CommitSync, Return, Goto
  <1> QED
    BY <1>2, <1>3, <1>4, <1>5, <1>6, <1>7 DEF Syncing

\* What a step on the databases under a journal does: the loops are in range, one
\* database changes or none, and both journal and rollback directory stay.
LEMMA ReplacingEffect ==
    ASSUME IInv, Replacing
    PROVE  /\ disk' \in Directories /\ durable' \subseteq Directories
           /\ disk' \in durable' /\ durable' \subseteq durable \cup {disk, disk'}
           /\ disk'.journal = disk.journal /\ disk'.rollback = disk.rollback
           /\ \A d \in DB : d # next => disk'.db[d] = disk.db[d]
           /\ UNCHANGED <<user, stage, restoring, dir, backups, version, outcomes>>
           /\ faults' \in 0..MaxFaults
           /\ next' = next \/ (next \in DB /\ next' = next + 1)
           /\ failed' \in BOOLEAN
  <1>1. disk \in Directories /\ durable \subseteq Directories /\ disk \in durable
    BY DEF IInv, TypeOK
  <1>2. ASSUME NEW c \in Contents, next \in DB, disk' = SetDB(next, c)
        PROVE  /\ disk' \in Directories
               /\ disk'.journal = disk.journal /\ disk'.rollback = disk.rollback
               /\ \A d \in DB : d # next => disk'.db[d] = disk.db[d]
    BY <1>1, <1>2, SetDBEffect
  <1>3. Missing \in Contents
    BY MaxVersionAssumption DEF Contents, Missing
  <1>4. next \in DB => disk.db[next] \in Contents
    BY <1>1, RecoveredType DEF Databases
  <1>5. faults \in 0..MaxFaults /\ (Fault => faults' \in 0..MaxFaults) /\ failed \in BOOLEAN
    BY MaxFaultsAssumption DEF IInv, TypeOK, Fault
  <1>6. CASE UndoRemoveNew
    BY <1>1, <1>2, <1>3, <1>5, <1>6 DEF UndoRemoveNew, Change
  <1>7. CASE UndoRemove
    BY <1>1, <1>2, <1>3, <1>5, <1>7 DEF UndoRemove
  <1>8. CASE UndoRename
    <2>1. next \in DB /\ next \in disk.journal.had /\ disk.journal # NoJournal
      BY <1>8 DEF UndoRename, IInv, LoopProgress, JournalPlace
    <2>2. disk.rollback[disk.journal.dir][next] \in Contents
      BY <1>1, <2>1, RecoveredType DEF Databases
    <2> QED
      BY <1>1, <1>2, <1>5, <1>8, <2>1, <2>2 DEF UndoRename, Change
  <1>9. CASE UndoFails
    BY <1>1, <1>2, <1>3, <1>4, <1>5, <1>9 DEF UndoFails, Change
  <1>10. CASE ReplaceRemove
    BY <1>1, <1>2, <1>3, <1>5, <1>10 DEF ReplaceRemove, Change
  <1>11. CASE ReplaceRename
    <2>1. next \in DB
      BY <1>11 DEF ReplaceRename, IInv, LoopProgress
    <2>2. stage[next] \in Contents
      BY <2>1 DEF IInv, TypeOK, Databases
    <2> QED
      BY <1>1, <1>2, <1>5, <1>11, <2>1, <2>2 DEF ReplaceRename, Change, Following
  <1>12. CASE ReplaceFails
    BY <1>1, <1>2, <1>3, <1>4, <1>5, <1>12 DEF ReplaceFails, Change
  <1> QED
    BY <1>6, <1>7, <1>8, <1>9, <1>10, <1>11, <1>12 DEF Replacing

\* Such a step keeps the types.
LEMMA TypeReplacing ==
    ASSUME IInv, Replacing
    PROVE  TypeOK'
  <1>1. TypeOK
    BY DEF IInv
  <1>2. next' \in 1..(NumDB + 1)
    BY <1>1, ReplacingEffect, NumDBAssumption DEF TypeOK, DB
  <1>3. pc' \in {"replaceRename", "replace", "undo", "undoRename", "validate"}
    BY DEF Replacing, UndoRemoveNew, UndoRemove, UndoRename, UndoFails, ReplaceRemove,
           ReplaceRename, ReplaceFails, Goto
  <1> QED
    BY <1>1, <1>2, <1>3, ReplacingEffect DEF TypeOK

\* Steps on the journal and the rollback directory: what they leave alone.
LEMMA JournallingEffect ==
    ASSUME IInv, Journalling
    PROVE  /\ disk' \in Directories /\ durable' \subseteq Directories
           /\ disk' \in durable' /\ durable' \subseteq durable \cup {disk, disk'}
           /\ disk'.db = disk.db
           /\ UNCHANGED <<user, next, failed, stage, backups, version>>
           /\ dir' \in 0..MaxRestores /\ restoring' \in BOOLEAN
           /\ faults' \in 0..MaxFaults
           /\ outcomes' = outcomes \cup {stage} \/ outcomes' = outcomes
  <1>1. /\ disk \in Directories /\ durable \subseteq Directories /\ disk \in durable
        /\ dir \in 0..MaxRestores /\ restoring \in BOOLEAN /\ faults \in 0..MaxFaults
    BY DEF IInv, TypeOK
  <1>2. disk.db \in Databases
    BY <1>1, RecoveredType
  <1>3. CASE UndoCommit
    BY <1>1, <1>3, WithoutJournalEffect DEF UndoCommit, Change
  <1>4. CASE RestoreUndone
    BY <1>1, <1>4, WithoutRollbackEffect DEF RestoreUndone
  <1>5. CASE SaveOriginals
    <2>1. dir + 1 \in Dirs /\ dir + 1 \in 0..MaxRestores
      BY <1>1, <1>5, MaxRestoresAssumption DEF SaveOriginals, Dirs
    <2>2. disk' \in Directories /\ disk'.db = disk.db
      BY <1>1, <1>2, <1>5, <2>1 DEF SaveOriginals, ChangeSynced, Directories
    <2> QED
      BY <1>1, <1>5, <2>1, <2>2 DEF SaveOriginals, ChangeSynced
  <1>6. CASE WriteJournal
    <2>1. dir \in Dirs
      BY <1>6 DEF WriteJournal, IInv, OriginalsSaved
    <2>2. [dir |-> dir, had |-> Present(disk.db)] \in Journals
      BY <2>1 DEF Journals, Present
    <2>3. disk' \in Directories /\ disk'.db = disk.db
      BY <1>1, <1>6, <2>2 DEF WriteJournal, Change, Directories
    <2> QED
      BY <1>1, <1>6, <2>3 DEF WriteJournal, Change
  <1>7. CASE Commit
    BY <1>1, <1>7, WithoutJournalEffect DEF Commit, Change
  <1>8. CASE JournalFails
    <2>1. faults' \in 0..MaxFaults
      BY <1>1, <1>8, MaxFaultsAssumption DEF JournalFails, Fault
    <2> QED
      BY <1>1, <1>8, <2>1, WithoutRollbackEffect DEF JournalFails, Change
  <1> QED
    BY <1>3, <1>4, <1>5, <1>6, <1>7, <1>8 DEF Journalling

\* Such a step keeps the types.
LEMMA TypeJournalling ==
    ASSUME IInv, Journalling
    PROVE  TypeOK'
  <1>1. TypeOK
    BY DEF IInv
  <1>2. outcomes' \subseteq Databases
    BY <1>1, JournallingEffect DEF TypeOK
  <1>3. pc' \in {"undoCommitSync", "idle", "journal", "journalSync", "commitSync"}
    BY DEF Journalling, UndoCommit, RestoreUndone, SaveOriginals, WriteJournal, Commit,
           JournalFails, Return, Goto
  <1> QED
    BY <1>1, <1>2, <1>3, JournallingEffect DEF TypeOK

\* The controller's transactions and power losses keep the types.
LEMMA TypeWritePower ==
    ASSUME TypeOK, (\E d \in DB : ControllerWrite(d)) \/ PowerLoss
    PROVE  TypeOK'
  <1>1. CASE PowerLoss
    <2>1. faults' \in 0..MaxFaults
      BY <1>1, MaxFaultsAssumption DEF PowerLoss, Fault, TypeOK
    <2> QED
      BY <1>1, <2>1 DEF PowerLoss, ChangeSynced, Return, Goto, TypeOK
  <1>2. ASSUME NEW d \in DB, ControllerWrite(d) PROVE TypeOK'
    <2>1. version + 1 \in Contents
      BY <1>2, MaxVersionAssumption DEF ControllerWrite, TypeOK, Contents
    <2>2. /\ SetDB(d, version + 1) \in Directories
          /\ SetDB(d, version + 1).db \in Databases
      BY <2>1, SetDBEffect DEF TypeOK
    <2> QED
      BY <1>2, <2>1, <2>2 DEF ControllerWrite, ChangeSynced, TypeOK
  <1> QED
    BY <1>1, <1>2

-----------------------------------------------------------------------------
(* Where the journal is *)

\* Every step keeps JournalPlace: a holder that relies on the journal, or on its
\* absence, is right about it.
LEMMA PlaceStep ==
    ASSUME IInv, Next
    PROVE  JournalPlace'
  <1> USE DEF JournalPlace
  <1>1. JournalPlace /\ disk \in Directories /\ dir \in 0..MaxRestores
    BY DEF IInv, TypeOK
  <1>2. CASE Quiet
    <2>1. disk' = disk
      BY <1>2 DEF Quiet, Acquire, RecoverNothing, RecoverJournal, Validate, ValidateRefuses,
               Backup, BackupFails, ControllerStop, ReturnsError, Crash
    <2>2. /\ pc' \in {"serving", "copying", "staging"} => disk.journal = NoJournal
          /\ pc' = "validate" => disk.journal # NoJournal
          /\ pc' = "undo" => disk.journal # NoJournal /\ Valid(disk)
          /\ pc' \in {"idle", "recover", "serving", "copying", "staging", "validate", "undo"}
      BY <1>1, <1>2 DEF IInv, TypeOK, Quiet, Acquire, RecoverNothing, RecoverJournal, Validate,
               ValidateRefuses, Backup, BackupFails, ControllerStop, ReturnsError, Crash,
               Return, Goto, Entry
    <2> QED
      BY <2>1, <2>2
  <1>3. CASE Syncing
    BY <1>1, <1>3 DEF IInv, TypeOK, Syncing, UndoSync, RecoverySync, Stage, JournalSync, ReplaceSync,
             CommitSync, Synced, Return, Goto, Entry
  <1>4. CASE Replacing
    <2>1. disk'.journal = disk.journal /\ disk'.rollback = disk.rollback
      BY <1>4, ReplacingEffect
    <2>2. disk.journal # NoJournal /\ Valid(disk)
      BY <1>1, <1>4 DEF Replacing, UndoRemoveNew, UndoRemove, UndoRename, UndoFails,
               ReplaceRemove, ReplaceRename, ReplaceFails
    <2>3. Valid(disk')
      BY <2>1, <2>2, RecoveredSame
    <2>4. pc' \in {"replaceRename", "replace", "undo", "undoRename", "validate"}
      BY <1>4 DEF Replacing, UndoRemoveNew, UndoRemove, UndoRename, UndoFails,
               ReplaceRemove, ReplaceRename, ReplaceFails, Goto
    <2> QED
      BY <2>1, <2>2, <2>3, <2>4
  <1>5. CASE UndoCommit \/ Commit
    BY <1>1, <1>5, WithoutJournalEffect DEF UndoCommit, Commit, Change, Goto
  <1>6. CASE RestoreUndone \/ JournalFails
    BY <1>6 DEF RestoreUndone, JournalFails, Return, Goto
  <1>7. CASE SaveOriginals
    BY <1>1, <1>7 DEF SaveOriginals, ChangeSynced, Goto, Directories
  <1>8. CASE WriteJournal
    <2>1. dir \in Dirs /\ disk.rollback[dir] = disk.db
      BY <1>8 DEF WriteJournal, IInv, OriginalsSaved
    <2>2. /\ disk' \in Directories /\ disk'.db = disk.db
          /\ disk'.rollback = disk.rollback
          /\ disk'.journal = [dir |-> dir, had |-> Present(disk.db)]
      BY <1>1, <1>8, JournallingEffect DEF WriteJournal, Change, Directories, Journalling
    <2>3. Valid(disk')
      BY <2>1, <2>2, RecoveredSaved
    <2>4. disk'.journal # NoJournal
      BY <2>1, <2>2 DEF NoJournal, Dirs
    <2> QED
      BY <1>8, <2>3, <2>4 DEF WriteJournal, Goto
  <1>9. ASSUME NEW d \in DB, ControllerWrite(d) PROVE JournalPlace'
    <2>1. version + 1 \in Contents
      BY <1>9, MaxVersionAssumption DEF ControllerWrite, IInv, TypeOK, Contents
    <2> QED
      BY <1>1, <1>9, <2>1, SetDBEffect DEF ControllerWrite, ChangeSynced
  <1>10. CASE PowerLoss
    BY <1>10 DEF PowerLoss, Return, Goto
  <1> QED
    BY <1>2, <1>3, <1>4, <1>5, <1>6, <1>7, <1>8, <1>9, <1>10, NextCases DEF Journalling

-----------------------------------------------------------------------------
(* The rollback directory and the loops *)

\* Every step keeps OriginalsSaved: until the databases are replaced the rollback
\* directory is a copy of them.
LEMMA SavedStep ==
    ASSUME IInv, Next
    PROVE  OriginalsSaved'
  <1> USE DEF OriginalsSaved
  <1>1. /\ disk \in Directories /\ dir \in 0..MaxRestores /\ OriginalsSaved
        /\ user \in {"controller", "backup", "restore"}
    BY DEF IInv, TypeOK
  <1>2. CASE Quiet
    BY <1>1, <1>2 DEF Quiet, Acquire, RecoverNothing, RecoverJournal, Validate, ValidateRefuses,
             Backup, BackupFails, ControllerStop, ReturnsError, Crash, Return, Goto, Entry
  <1>3. CASE Syncing
    BY <1>1, <1>3 DEF Syncing, UndoSync, RecoverySync, Stage, JournalSync, ReplaceSync,
             CommitSync, Return, Goto, Entry
  <1>4. CASE Replacing
    BY <1>4 DEF Replacing, UndoRemoveNew, UndoRemove, UndoRename, UndoFails,
             ReplaceRemove, ReplaceRename, ReplaceFails, Goto
  <1>5. CASE UndoCommit \/ RestoreUndone \/ Commit \/ JournalFails
    BY <1>5 DEF UndoCommit, RestoreUndone, Commit, JournalFails, Return, Goto
  <1>6. CASE SaveOriginals
    <2>1. dir + 1 \in Dirs
      BY <1>1, <1>6, MaxRestoresAssumption DEF SaveOriginals, Dirs
    <2>2. disk.rollback \in [Dirs -> Databases]
      BY <1>1, RecoveredType
    <2>3. disk'.rollback[dir + 1] = disk.db /\ disk'.db = disk.db
      BY <1>1, <1>6, <2>1, <2>2 DEF SaveOriginals, ChangeSynced, Directories
    <2> QED
      BY <1>6, <2>1, <2>3 DEF SaveOriginals, Goto
  <1>7. CASE WriteJournal
    BY <1>1, <1>7 DEF WriteJournal, Change, Goto, Directories
  <1>8. ASSUME NEW d \in DB, ControllerWrite(d) PROVE OriginalsSaved'
    BY <1>8 DEF ControllerWrite
  <1>9. CASE PowerLoss
    BY <1>9 DEF PowerLoss, Return, Goto
  <1> QED
    BY <1>2, <1>3, <1>4, <1>5, <1>6, <1>7, <1>8, <1>9, NextCases DEF Journalling

\* A complete pass of the rollback's loop has put every database back.
LEMMA UndoneAll ==
    ASSUME IInv, pc = "undo", next = NumDB + 1, ~failed
    PROVE  disk.db = Recovered(disk)
  <1>1. disk.db \in Databases /\ Recovered(disk) \in Databases
    BY RecoveredType DEF IInv, TypeOK
  <1>2. \A d \in DB : disk.db[d] = Recovered(disk)[d]
    BY NumDBAssumption DEF IInv, LoopProgress, DB
  <1> QED
    BY <1>1, <1>2 DEF Databases

\* A complete pass of Restore's loop has put the staged databases in place.
LEMMA ReplacedAll ==
    ASSUME IInv, pc = "replace", next = NumDB + 1
    PROVE  disk.db = stage
  <1>1. disk.db \in Databases /\ stage \in Databases
    BY RecoveredType DEF IInv, TypeOK
  <1>2. \A d \in DB : disk.db[d] = stage[d]
    BY NumDBAssumption DEF IInv, LoopProgress, DB
  <1> QED
    BY <1>1, <1>2 DEF Databases

\* Removing, renaming and failing keep the progress of both loops: a rollback
\* without errors so far has put back the databases before next, Restore has replaced them.
LEMMA ProgressReplacing ==
    ASSUME IInv, Replacing
    PROVE  LoopProgress'
  <1> USE DEF LoopProgress
  <1>1. disk \in Directories /\ LoopProgress /\ next \in 1..(NumDB + 1) /\ stage \in Databases
    BY DEF IInv, TypeOK
  <1>2. disk.journal # NoJournal /\ Valid(disk)
    BY DEF IInv, JournalPlace, Replacing, UndoRemoveNew, UndoRemove, UndoRename, UndoFails,
           ReplaceRemove, ReplaceRename, ReplaceFails
  <1>3. /\ disk'.journal = disk.journal /\ disk'.rollback = disk.rollback
        /\ \A d \in DB : d # next => disk'.db[d] = disk.db[d]
        /\ stage' = stage
    BY ReplacingEffect
  <1>4. Recovered(disk') = Recovered(disk)
    BY <1>2, <1>3, RecoveredSame
  <1>5. \A d \in DB : d < next => disk'.db[d] = disk.db[d]
    BY <1>1, <1>3 DEF DB
  <1>6. \A d \in DB : Recovered(disk)[d] =
                        IF d \in disk.journal.had THEN disk.rollback[disk.journal.dir][d] ELSE Missing
    BY <1>2 DEF Recovered
  <1>7. \A d \in DB : d < next + 1 => d < next \/ d = next
    BY <1>1 DEF DB
  <1>8. Missing \in Contents
    BY MaxVersionAssumption DEF Contents, Missing
  <1>9. CASE UndoRemoveNew
    <2>1. disk'.db[next] = Missing
      BY <1>1, <1>8, <1>9, SetDBEffect DEF UndoRemoveNew, Change
    <2>2. pc' = "undo" /\ next' = next + 1 /\ failed' = failed /\ next \notin disk.journal.had
      BY <1>9 DEF UndoRemoveNew
    <2>3. \A d \in DB : d < next /\ ~failed => disk.db[d] = Recovered(disk)[d]
      BY <1>1, <1>9 DEF UndoRemoveNew
    <2> QED
      BY <1>4, <1>5, <1>6, <1>7, <2>1, <2>2, <2>3
  <1>10. CASE UndoRemove
    <2>1. pc' = "undoRename" /\ next' = next /\ failed' = failed /\ next \in DB
          /\ next \in disk.journal.had
      BY <1>10 DEF UndoRemove, Goto
    <2>2. \A d \in DB : d < next /\ ~failed => disk.db[d] = Recovered(disk)[d]
      BY <1>1, <1>10 DEF UndoRemove
    <2> QED
      BY <1>3, <1>4, <1>5, <2>1, <2>2
  <1>11. CASE UndoRename
    <2>1. next \in DB /\ next \in disk.journal.had
      BY <1>1, <1>11 DEF UndoRename
    <2>2. disk.rollback[disk.journal.dir][next] \in Contents
      BY <1>1, <1>2, <2>1, RecoveredType DEF Databases
    <2>3. disk'.db[next] = disk.rollback[disk.journal.dir][next]
      BY <1>1, <1>11, <2>1, <2>2, SetDBEffect DEF UndoRename, Change
    <2>4. pc' = "undo" /\ next' = next + 1 /\ failed' = failed
      BY <1>11 DEF UndoRename, Goto
    <2>5. \A d \in DB : d < next /\ ~failed => disk.db[d] = Recovered(disk)[d]
      BY <1>1, <1>11 DEF UndoRename
    <2> QED
      BY <1>4, <1>5, <1>6, <1>7, <2>1, <2>3, <2>4, <2>5
  <1>12. CASE UndoFails
    BY <1>12 DEF UndoFails, Goto
  <1>13. CASE ReplaceRemove
    <2>1. pc' = "replaceRename" /\ next' = next /\ next \in DB
      BY <1>13 DEF ReplaceRemove, Goto
    <2>2. \A d \in DB : d < next => disk.db[d] = stage[d]
      BY <1>1, <1>13 DEF ReplaceRemove
    <2> QED
      BY <1>3, <1>5, <2>1, <2>2
  <1>14. CASE ReplaceRename
    <2>1. next \in DB
      BY <1>1, <1>14 DEF ReplaceRename
    <2>2. stage[next] \in Contents
      BY <1>1, <2>1 DEF Databases
    <2>3. disk'.db[next] = stage[next]
      BY <1>1, <1>14, <2>1, <2>2, SetDBEffect DEF ReplaceRename, Change
    <2>4. pc' = "replace" /\ next' = next + 1
      BY <1>14 DEF ReplaceRename, Goto, Following
    <2>5. \A d \in DB : d < next => disk.db[d] = stage[d]
      BY <1>1, <1>14 DEF ReplaceRename
    <2> QED
      BY <1>3, <1>5, <1>7, <2>3, <2>4, <2>5
  <1>15. CASE ReplaceFails
    BY <1>15 DEF ReplaceFails, Goto
  <1> QED
    BY <1>9, <1>10, <1>11, <1>12, <1>13, <1>14, <1>15 DEF Replacing

\* Every step keeps LoopProgress.
LEMMA ProgressStep ==
    ASSUME IInv, Next
    PROVE  LoopProgress'
  <1> USE DEF LoopProgress
  <1>1. LoopProgress /\ disk \in Directories /\ user \in {"controller", "backup", "restore"}
    BY DEF IInv, TypeOK
  <1>2. CASE Quiet
    <2>1. pc' \in {"idle", "recover", "serving", "copying", "staging", "validate", "undo"}
      BY <1>1, <1>2 DEF Quiet, Acquire, RecoverNothing, RecoverJournal, Validate, ValidateRefuses,
               Backup, BackupFails, ControllerStop, ReturnsError, Crash, Return, Goto, Entry
    <2>2. pc' = "undo" => next' = 1
      BY <1>1, <1>2, <2>1 DEF Quiet, Acquire, RecoverNothing, RecoverJournal, Validate,
               ValidateRefuses, Backup, BackupFails, ControllerStop, ReturnsError, Crash,
               Return, Goto, Entry
    <2>3. \A d \in DB : ~(d < 1)
      BY DEF DB
    <2> QED
      BY <2>1, <2>2, <2>3
  <1>3. CASE UndoSync
    BY <1>3, UndoneAll DEF UndoSync, UndoComplete, Synced, Return, Goto
  <1>4. CASE ReplaceSync
    BY <1>4, ReplacedAll DEF ReplaceSync, Synced, Goto
  <1>5. CASE JournalSync
    <2>1. \A d \in DB : ~(d < 1)
      BY DEF DB
    <2> QED
      BY <1>5, <2>1 DEF JournalSync, Goto
  <1>6. CASE RecoverySync \/ Stage \/ CommitSync
    BY <1>1, <1>6 DEF RecoverySync, Stage, CommitSync, Return, Goto, Entry
  <1>7. CASE Replacing
    BY <1>7, ProgressReplacing
  <1>8. CASE Commit
    BY <1>1, <1>8, WithoutJournalEffect DEF Commit, Change, Goto
  <1>9. CASE UndoCommit \/ RestoreUndone \/ SaveOriginals \/ WriteJournal \/ JournalFails
    BY <1>9 DEF UndoCommit, RestoreUndone, SaveOriginals, WriteJournal, JournalFails, Return, Goto
  <1>10. ASSUME NEW d \in DB, ControllerWrite(d) PROVE LoopProgress'
    BY <1>10 DEF ControllerWrite
  <1>11. CASE PowerLoss
    BY <1>11 DEF PowerLoss, Return, Goto
  <1> QED
    BY <1>2, <1>3, <1>4, <1>5, <1>6, <1>7, <1>8, <1>9, <1>10, <1>11, NextCases
       DEF Syncing, Journalling

-----------------------------------------------------------------------------
(* Atomicity *)

\* What is left to show of a step that adds at most one directory state and takes
\* no result back: the new state leads to an allowed database set.
LEMMA KeepsAtomic ==
    ASSUME IInv, disk' \in durable', durable' \subseteq durable \cup {disk, disk'},
           outcomes \subseteq outcomes', Recovered(disk') \in outcomes'
    PROVE  RestoreAtomic' /\ (disk \in durable)'
  BY DEF IInv, RestoreAtomic

\* But for a commit, a write and a power loss, no step changes what AcquireLock would
\* make of the directory, be it in the middle of a restore or of its rollback.
LEMMA RecoveryKept ==
    ASSUME IInv, Quiet \/ Syncing \/ Replacing \/ Journalling, ~Commit
    PROVE  Recovered(disk') = Recovered(disk)
  <1>1. disk \in Directories /\ dir \in 0..MaxRestores
    BY DEF IInv, TypeOK
  <1>2. CASE Quiet \/ Syncing
    BY <1>2 DEF Quiet, Acquire, RecoverNothing, RecoverJournal, Validate, ValidateRefuses,
             Backup, BackupFails, ControllerStop, ReturnsError, Crash, Syncing, UndoSync,
             RecoverySync, Stage, JournalSync, ReplaceSync, CommitSync, Synced
  <1>3. CASE Replacing
    <2>1. disk.journal # NoJournal /\ Valid(disk)
      BY <1>3 DEF IInv, JournalPlace, Replacing, UndoRemoveNew, UndoRemove, UndoRename,
               UndoFails, ReplaceRemove, ReplaceRename, ReplaceFails
    <2> QED
      BY <1>3, <2>1, ReplacingEffect, RecoveredSame
  <1>4. CASE Journalling
    <2>1. disk' \in Directories /\ disk'.db = disk.db
      BY <1>4, JournallingEffect
    <2>2. CASE UndoCommit
      <3>1. disk'.journal = NoJournal
        BY <1>1, <2>2, WithoutJournalEffect DEF UndoCommit, Change
      <3> QED
        BY <2>1, <2>2, <3>1, RecoveredWithout DEF UndoCommit, IInv, LoopProgress
    <2>3. CASE pc \in {"undoCommitSync", "saving", "journal"} /\ disk'.journal = NoJournal
      <3>1. disk.journal = NoJournal
        BY <2>3 DEF IInv, JournalPlace
      <3> QED
        BY <2>1, <2>3, <3>1, RecoveredWithout
    <2>4. CASE RestoreUndone
      <3>1. disk'.journal = disk.journal /\ pc = "undoCommitSync"
        BY <1>1, <2>4, WithoutRollbackEffect DEF RestoreUndone
      <3> QED
        BY <2>3, <3>1 DEF IInv, JournalPlace
    <2>5. CASE SaveOriginals
      <3>1. disk'.journal = disk.journal /\ pc = "saving"
        BY <1>1, <2>5 DEF SaveOriginals, ChangeSynced, Directories
      <3> QED
        BY <2>3, <3>1 DEF IInv, JournalPlace
    <2>6. CASE WriteJournal
      <3>1. dir \in Dirs /\ disk.rollback[dir] = disk.db /\ disk.journal = NoJournal
        BY <2>6 DEF WriteJournal, IInv, OriginalsSaved, JournalPlace
      <3>2. /\ disk'.rollback = disk.rollback
            /\ disk'.journal = [dir |-> dir, had |-> Present(disk.db)]
        BY <1>1, <2>6 DEF WriteJournal, Change, Directories
      <3> QED
        BY <2>1, <3>1, <3>2, RecoveredSaved, RecoveredWithout
    <2>7. CASE JournalFails /\ pc = "journal"
      <3>1. disk'.journal = disk.journal
        BY <1>1, <2>7, WithoutRollbackEffect DEF JournalFails, Change
      <3> QED
        BY <2>3, <2>7, <3>1 DEF IInv, JournalPlace
    <2>8. CASE JournalFails /\ pc = "journalSync"
      <3>1. /\ dir \in Dirs /\ disk.rollback[dir] = disk.db
            /\ disk.journal = [dir |-> dir, had |-> Present(disk.db)]
        BY <2>8 DEF IInv, OriginalsSaved
      <3>2. disk'.journal = disk.journal /\ disk'.rollback[dir] = Nothing
        BY <1>1, <2>8, <3>1, WithoutRollbackEffect DEF JournalFails, Change
      <3> QED
        BY <1>1, <2>1, <3>1, <3>2, RecoveredSaved, RecoveredUnsaved
    <2> QED
      BY <1>4, <2>2, <2>4, <2>5, <2>6, <2>7, <2>8 DEF Journalling, JournalFails
  <1> QED
    BY <1>2, <1>3, <1>4

\* Removing the journal makes the restored databases what AcquireLock finds.
LEMMA CommitEffect ==
    ASSUME IInv, Commit
    PROVE  Recovered(disk') = stage /\ disk' \in durable' /\ stage \in outcomes'
  <1>1. disk'.journal = NoJournal /\ disk'.db = disk.db
    BY WithoutJournalEffect DEF IInv, TypeOK, Commit, Change
  <1> QED
    BY <1>1, RecoveredWithout DEF Commit, Change, IInv, LoopProgress

\* A write changes one database of what AcquireLock finds.
LEMMA WriteEffect ==
    ASSUME IInv, NEW d \in DB, ControllerWrite(d)
    PROVE  /\ version + 1 \in Contents
           /\ durable' = {disk'} /\ outcomes' = {disk'.db}
           /\ Recovered(disk') = disk'.db
           /\ disk'.db = [Recovered(disk) EXCEPT ![d] = version + 1]
  <1>1. version + 1 \in Contents
    BY MaxVersionAssumption DEF ControllerWrite, IInv, TypeOK, Contents
  <1>2. disk.journal = NoJournal /\ disk \in Directories
    BY DEF ControllerWrite, IInv, TypeOK, JournalPlace
  <1>3. disk' = SetDB(d, version + 1) /\ durable' = {disk'} /\ outcomes' = {disk'.db}
    BY DEF ControllerWrite, ChangeSynced
  <1>4. disk'.journal = NoJournal
    BY <1>1, <1>2, <1>3, SetDBEffect
  <1>5. disk'.db = [disk.db EXCEPT ![d] = version + 1]
    BY <1>2, <1>3 DEF SetDB, Directories
  <1> QED
    BY <1>1, <1>2, <1>3, <1>4, <1>5, RecoveredWithout

\* Every step keeps RestoreAtomic, and the directory in sight among those a power
\* loss may leave.
LEMMA AtomicStep ==
    ASSUME IInv, Next
    PROVE  RestoreAtomic' /\ (disk \in durable)'
  <1> DEFINE Goal == RestoreAtomic' /\ (disk \in durable)'
  <1>1. disk \in durable /\ Recovered(disk) \in outcomes
    BY DEF IInv, RestoreAtomic
  <1>2. CASE Quiet
    <2>1. UNCHANGED <<disk, durable, outcomes>>
      BY <1>2 DEF Quiet, Acquire, RecoverNothing, RecoverJournal, Validate, ValidateRefuses,
               Backup, BackupFails, ControllerStop, ReturnsError, Crash
    <2> QED
      BY <1>1, <2>1, KeepsAtomic
  <1>3. CASE CommitSync
    <2>1. Recovered(disk) = stage
      BY <1>3, RecoveredWithout DEF IInv, JournalPlace, LoopProgress, CommitSync
    <2>2. disk' = disk /\ durable' = {disk} /\ outcomes' = {stage}
      BY <1>3 DEF CommitSync, Synced
    <2> QED
      BY <2>1, <2>2 DEF RestoreAtomic
  <1>4. CASE UndoSync \/ RecoverySync \/ Stage \/ JournalSync \/ ReplaceSync
    <2>1. disk' = disk /\ durable' = {disk} /\ outcomes' = outcomes
      BY <1>4 DEF UndoSync, RecoverySync, Stage, JournalSync, ReplaceSync, Synced
    <2> QED
      BY <1>1, <2>1, KeepsAtomic
  <1>5. CASE Replacing
    BY <1>1, <1>5, RecoveryKept, ReplacingEffect, KeepsAtomic DEF Commit, Replacing,
       UndoRemoveNew, UndoRemove, UndoRename, UndoFails, ReplaceRemove, ReplaceRename,
       ReplaceFails
  <1>6. CASE Journalling
    <2>1. /\ disk' \in durable' /\ durable' \subseteq durable \cup {disk, disk'}
          /\ outcomes \subseteq outcomes'
      BY <1>6, JournallingEffect
    <2>2. Recovered(disk') \in outcomes'
      BY <1>1, <1>6, <2>1, RecoveryKept, CommitEffect
    <2> QED
      BY <2>1, <2>2, KeepsAtomic
  <1>7. ASSUME NEW d \in DB, ControllerWrite(d) PROVE Goal
    BY <1>7, WriteEffect DEF RestoreAtomic
  <1>8. CASE PowerLoss
    <2>1. PICK s \in durable : disk' = s /\ durable' = {s}
      BY <1>8 DEF PowerLoss, ChangeSynced
    <2>2. outcomes' = outcomes /\ Recovered(s) \in outcomes
      BY <1>8, <2>1 DEF PowerLoss, IInv, RestoreAtomic
    <2> QED
      BY <2>1, <2>2 DEF RestoreAtomic
  <1> QED
    BY <1>2, <1>3, <1>4, <1>5, <1>6, <1>7, <1>8, NextCases DEF Syncing

-----------------------------------------------------------------------------
(* Theorems *)

\* The invariant holds of a directory found at the start.
LEMMA InitIInv == Init => IInv
  <1> SUFFICES ASSUME Init PROVE IInv
    OBVIOUS
  <1>1. TypeOK
    BY InitTypeOK
  <1>2. pc = "idle" /\ durable = {disk} /\ outcomes = {disk.db} /\ disk.journal = NoJournal
    BY DEF Init
  <1>3. RestoreAtomic
    BY <1>2, RecoveredWithout DEF RestoreAtomic
  <1> QED
    BY <1>1, <1>2, <1>3 DEF IInv, JournalPlace, OriginalsSaved, LoopProgress

\* Every step keeps the invariant.
LEMMA StepIInv == IInv /\ [Next]_vars => IInv'
  <1> SUFFICES ASSUME IInv, [Next]_vars PROVE IInv'
    OBVIOUS
  <1>1. CASE Next
    <2>1. TypeOK'
      BY <1>1, TypeQuiet, TypeSyncing, TypeReplacing, TypeJournalling, TypeWritePower, NextCases
         DEF IInv
    <2> QED
      BY <1>1, <2>1, PlaceStep, SavedStep, ProgressStep, AtomicStep DEF IInv
  <1>2. CASE UNCHANGED vars
    BY <1>2 DEF vars, IInv, TypeOK, JournalPlace, OriginalsSaved, LoopProgress, RestoreAtomic
  <1> QED
    BY <1>1, <1>2

\* The invariant that the atomicity of Restore rests on: where the journal and the
\* originals are at every step of Restore and of the rollback.
THEOREM Invariance == Spec => []IInv
  BY InitIInv, StepIInv, PTL DEF Spec

\* The types, for any number of databases: no step copies from a rollback
\* directory that does not exist or indexes past databaseNames.
THEOREM TypeCorrect == Spec => []TypeOK
  <1>1. IInv => TypeOK
    BY DEF IInv
  <1> QED
    BY <1>1, Invariance, PTL

\* Restore is atomic: whatever calls fail and whenever the process or the machine
\* goes down, AcquireLock's rollback leads to a database set the results allow.
THEOREM RestoreIsAtomic == Spec => []RestoreAtomic
  <1>1. IInv => RestoreAtomic
    BY DEF IInv
  <1> QED
    BY <1>1, Invariance, PTL

\* Past AcquireLock there is no journal, so the databases are an allowed set.
LEMMA CommittedByPlace == IInv => HoldersSeeCommitted
  <1> SUFFICES ASSUME IInv, pc \in {"serving", "copying", "staging", "saving"}
               PROVE  disk.db \in outcomes
    BY DEF HoldersSeeCommitted
  <1>1. disk.journal = NoJournal
    BY DEF IInv, JournalPlace
  <1>2. Recovered(disk) = disk.db
    BY <1>1, RecoveredWithout
  <1> QED
    BY <1>2 DEF IInv, RestoreAtomic

\* The controller, Backup and Restore never work on a half-restored directory.
THEOREM CommittedSeen == Spec => []HoldersSeeCommitted
  BY CommittedByPlace, Invariance, PTL

\* Backup publishes a database set that was committed as a whole.
THEOREM BackupIsCommitted == Spec => BackupsCommitted
  <1>1. IInv /\ [Next]_vars => [BackupStep]_vars
    <2> SUFFICES ASSUME IInv, Next PROVE BackupStep
      OBVIOUS
    <2>1. CASE Backup
      BY <2>1, CommittedByPlace DEF Backup, HoldersSeeCommitted, BackupStep
    <2>2. CASE backups' = backups
      BY <2>2 DEF BackupStep
    <2>3. CASE Quiet
      BY <2>1, <2>2, <2>3 DEF Quiet, Acquire, RecoverNothing, RecoverJournal, Validate,
               ValidateRefuses, BackupFails, ControllerStop, ReturnsError, Crash
    <2>4. CASE Syncing
      BY <2>2, <2>4 DEF Syncing, UndoSync, RecoverySync, Stage, JournalSync, ReplaceSync,
               CommitSync
    <2>5. CASE Replacing
      BY <2>2, <2>5, ReplacingEffect
    <2>6. CASE Journalling
      BY <2>2, <2>6, JournallingEffect
    <2>7. CASE (\E d \in DB : ControllerWrite(d)) \/ PowerLoss
      BY <2>2, <2>7 DEF ControllerWrite, PowerLoss
    <2> QED
      BY <2>3, <2>4, <2>5, <2>6, <2>7, NextCases
  <1> QED
    BY <1>1, Invariance, PTL DEF Spec, BackupsCommitted

-----------------------------------------------------------------------------
(***************************************************************************)
(* The refinement.                                                         *)
(***************************************************************************)

\* A restore stages a backup, and backups are not taken back.
StagedIsBackup == stage \in backups

LEMMA StagedStep == IInv /\ StagedIsBackup /\ [Next]_vars => StagedIsBackup'
  <1> SUFFICES ASSUME IInv, StagedIsBackup, [Next]_vars PROVE StagedIsBackup'
    OBVIOUS
  <1> USE DEF StagedIsBackup
  <1>1. ASSUME NEW u \in {"controller", "backup", "restore"}, Acquire(u) PROVE StagedIsBackup'
    BY <1>1 DEF Acquire
  <1>2. CASE Backup
    BY <1>2 DEF Backup
  <1>3. CASE UNCHANGED <<stage, backups>>
    BY <1>3
  <1>4. CASE Quiet
    BY <1>1, <1>2, <1>3, <1>4 DEF Quiet, RecoverNothing, RecoverJournal, Validate,
       ValidateRefuses, BackupFails, ControllerStop, ReturnsError, Crash
  <1>5. CASE Syncing
    BY <1>3, <1>5 DEF Syncing, UndoSync, RecoverySync, Stage, JournalSync, ReplaceSync,
       CommitSync
  <1>6. CASE Replacing
    BY <1>3, <1>6, ReplacingEffect
  <1>7. CASE Journalling
    BY <1>3, <1>7, JournallingEffect
  <1>8. CASE (\E d \in DB : ControllerWrite(d)) \/ PowerLoss
    BY <1>3, <1>8 DEF ControllerWrite, PowerLoss
  <1>9. CASE UNCHANGED vars
    BY <1>3, <1>9 DEF vars
  <1> QED
    BY <1>4, <1>5, <1>6, <1>7, <1>8, <1>9, NextCases

LEMMA Staged == Spec => []StagedIsBackup
  <1>1. Init => StagedIsBackup
    BY DEF Init, StagedIsBackup
  <1> QED
    BY <1>1, StagedStep, Invariance, PTL DEF Spec

-----------------------------------------------------------------------------
(* The abstract state *)

Now == Recovered(disk)
Kept == {Recovered(s) : s \in durable}

\* What a step that is no power loss may do to the durable states: add the new one to
\* them, or sync, after which the last change alone is in doubt.
LEMMA DurableCases ==
    ASSUME IInv, Quiet \/ Syncing \/ Replacing \/ Journalling
    PROVE  /\ disk' \in durable'
           /\ \/ durable' = durable \cup {disk'}
              \/ durable' \subseteq {disk, disk'} /\ ~Commit
  <1>1. disk \in durable
    BY DEF IInv
  <1>2. CASE Quiet
    BY <1>1, <1>2 DEF Quiet, Acquire, RecoverNothing, RecoverJournal, Validate,
       ValidateRefuses, Backup, BackupFails, ControllerStop, ReturnsError, Crash
  <1>3. CASE Syncing
    BY <1>3 DEF Syncing, UndoSync, RecoverySync, Stage, JournalSync, ReplaceSync, CommitSync,
       Synced, Commit
  <1>4. CASE Replacing
    BY <1>1, <1>4 DEF Replacing, UndoRemoveNew, UndoRemove, UndoRename, UndoFails,
       ReplaceRemove, ReplaceRename, ReplaceFails, Change, Commit
  <1>5. CASE Journalling
    BY <1>1, <1>5 DEF Journalling, UndoCommit, RestoreUndone, SaveOriginals, WriteJournal,
       Commit, JournalFails, Change, ChangeSynced
  <1> QED
    BY <1>2, <1>3, <1>4, <1>5

\* Steps that keep what AcquireLock finds change the durable sets by syncing at most.
LEMMA KeptSteps ==
    ASSUME IInv, Quiet \/ Syncing \/ Replacing \/ Journalling, ~Commit
    PROVE  Now' = Now /\ (Kept' = Kept \/ Kept' = {Now})
  <1>1. disk \in durable /\ Recovered(disk') = Recovered(disk)
    BY RecoveryKept DEF IInv
  <1>2. disk' \in durable'
    BY DurableCases
  <1>3. CASE durable' = durable \cup {disk'}
    BY <1>1, <1>3 DEF Now, Kept
  <1>4. CASE durable' \subseteq {disk, disk'}
    BY <1>1, <1>2, <1>4 DEF Now, Kept
  <1> QED
    BY <1>1, <1>3, <1>4, DurableCases DEF Now

-----------------------------------------------------------------------------
(* The refinement *)

\* A directory found at the start is an abstract one.
LEMMA InitRefines == Init => Atomic!Init
  <1> SUFFICES ASSUME Init PROVE Atomic!Init
    OBVIOUS
  <1>1. TypeOK /\ durable = {disk}
    BY InitTypeOK DEF Init
  <1>2. Now \in Databases
    BY <1>1, RecoveredType DEF TypeOK, Now
  <1>3. Kept = {Now}
    BY <1>1 DEF Kept, Now
  <1> QED
    BY <1>1, <1>2, <1>3 DEF Atomic!Init, Now, Kept, TypeOK, Databases

\* Every step is an abstract one or changes nothing there.
LEMMA StepRefines ==
    IInv /\ StagedIsBackup /\ [Next]_vars => [Atomic!Next]_(Atomic!vars)
  <1> SUFFICES ASSUME IInv, StagedIsBackup, [Next]_vars
               PROVE  Atomic!Next \/ UNCHANGED Atomic!vars
    OBVIOUS
  <1> DEFINE Goal == Atomic!Next \/ UNCHANGED Atomic!vars
  <1>1. CASE Now' = Now /\ Kept' = Kept /\ backups' = backups
    BY <1>1 DEF Atomic!vars, Now, Kept
  <1>2. CASE Now' = Now /\ Kept' = {Now} /\ backups' = backups
    BY <1>2 DEF Atomic!Next, Atomic!Confirm, Now, Kept
  <1>3. CASE Backup
    <2>1. Now' = Now /\ Kept' = Kept /\ backups' = backups \cup {disk.db}
      BY <1>3 DEF Backup, Now, Kept
    <2>2. Now = disk.db
      BY <1>3, RecoveredWithout DEF Backup, IInv, JournalPlace, Now
    <2> QED
      BY <2>1, <2>2 DEF Atomic!Next, Atomic!Backup, Now, Kept
  <1>4. CASE Commit
    <2>1. Now' = stage /\ backups' = backups /\ stage \in backups
      BY <1>4, CommitEffect DEF Commit, Now, StagedIsBackup
    <2>2. durable' = durable \cup {disk'}
      BY <1>4 DEF Commit, Change
    <2>3. Kept' = Kept \cup {stage}
      BY <2>1, <2>2 DEF Kept, Now
    <2> QED
      BY <2>1, <2>3 DEF Atomic!Next, Atomic!Restore, Now, Kept
  <1>5. ASSUME NEW d \in DB, ControllerWrite(d) PROVE Goal
    <2>1. /\ version + 1 \in Contents /\ durable' = {disk'} /\ backups' = backups
          /\ Now' = [Now EXCEPT ![d] = version + 1]
      BY <1>5, WriteEffect DEF ControllerWrite, Now
    <2>2. Kept' = {Now'}
      BY <2>1 DEF Kept, Now
    <2> QED
      BY <2>1, <2>2 DEF Atomic!Next, Atomic!Write, Now, Kept
  <1>6. CASE PowerLoss
    <2>1. PICK s \in durable : disk' = s /\ durable' = {s}
      BY <1>6 DEF PowerLoss, ChangeSynced
    <2>2. Now' \in Kept /\ Kept' = {Now'} /\ backups' = backups
      BY <1>6, <2>1 DEF PowerLoss, Now, Kept
    <2> QED
      BY <2>2 DEF Atomic!Next, Atomic!PowerLoss, Now, Kept
  <1>7. CASE (Quiet \/ Syncing \/ Replacing \/ Journalling) /\ ~Commit /\ ~Backup
    <2>1. backups' = backups
      <3>1. CASE Quiet
        BY <1>7, <3>1 DEF Quiet, Acquire, RecoverNothing, RecoverJournal, Validate,
           ValidateRefuses, BackupFails, ControllerStop, ReturnsError, Crash
      <3>2. CASE Syncing
        BY <3>2 DEF Syncing, UndoSync, RecoverySync, Stage, JournalSync, ReplaceSync,
           CommitSync
      <3> QED
        BY <1>7, <3>1, <3>2, ReplacingEffect, JournallingEffect
    <2> QED
      BY <1>1, <1>2, <1>7, <2>1, KeptSteps
  <1>8. CASE UNCHANGED vars
    BY <1>1, <1>8 DEF vars, Now, Kept
  <1> QED
    BY <1>3, <1>4, <1>5, <1>6, <1>7, <1>8, NextCases

\* The data directory implements AtomicDirectory: locking callers that survive any
\* failures see whole writes and whole restores of published backups, and backups are
\* copies of what they see.
THEOREM Refinement == Spec => ImplementsAtomic
  <1>1. Init => Atomic!Init
    BY InitRefines
  <1>2. IInv /\ StagedIsBackup /\ [Next]_vars => [Atomic!Next]_(Atomic!vars)
    BY StepRefines
  <1> QED
    BY <1>1, <1>2, Invariance, Staged, PTL DEF Spec, ImplementsAtomic, Atomic!Spec

=============================================================================
