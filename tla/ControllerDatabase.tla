-------------------------- MODULE ControllerDatabase --------------------------
(***************************************************************************)
(* The controller's data directory under backup, restore and recovery      *)
(* (internal/controllerdb/database.go).                                    *)
(*                                                                         *)
(* controller.db and operations.db have to be replaced together although a *)
(* file system replaces one name at a time. Restore copies the originals   *)
(* into a rollback directory, writes a journal that names it, replaces the *)
(* databases and removes the journal; AcquireLock, which every user of the *)
(* directory calls first, rolls back when it finds a journal. Each file    *)
(* system call that can fail or be followed by a crash is one action.      *)
(*                                                                         *)
(* The file system: names change atomically, at once for running           *)
(* processes, and reach the disk in order, no later than the next          *)
(* successful fsync (metadata journalling). durable is the set of          *)
(* directory states a power loss may leave: the last synced one and those  *)
(* since. The directory's flock is held by one process at a time and is    *)
(* given back when it ends, so one program counter serves all processes.   *)
(***************************************************************************)
EXTENDS Naturals

CONSTANTS
    NumDB,        \* number of databases: two in databaseNames
    MaxVersion,   \* bound on the controller's writes
    MaxRestores,  \* bound on the restores that get as far as a rollback directory
    MaxFaults     \* bound on failing calls, crashes and power losses

ASSUME NumDBAssumption == NumDB \in Nat \ {0}
ASSUME MaxVersionAssumption == MaxVersion \in Nat \ {0, 1}
ASSUME MaxRestoresAssumption == MaxRestores \in Nat
ASSUME MaxFaultsAssumption == MaxFaults \in Nat

VARIABLES
    disk,      \* the data directory as processes see it
    durable,   \* the directory states a power loss may leave
    pc,        \* where the holder of the lock is; "idle" when there is none
    user,      \* what the holder is: "controller", "backup" or "restore"
    next,      \* index of the loops over databaseNames
    failed,    \* restoreRollback: rollbackErrs is not empty
    stage,     \* Restore: the staged databases
    restoring, \* Restore: the holder has made its rollback directory
    dir,       \* number of the latest rollback directory (a time stamp in the code)
    backups,   \* the published backups
    version,   \* history: the last version the controller wrote
    outcomes,  \* history: the database sets that the callers' results allow
    faults     \* number of faults so far

vars == <<disk, durable, pc, user, next, failed, stage, restoring, dir, backups, version,
          outcomes, faults>>

DB == 1..NumDB
Missing == 0                          \* the file does not exist
Contents == 0..MaxVersion
Databases == [DB -> Contents]
Nothing == [d \in DB |-> Missing]
Dirs == 1..MaxRestores

\* The restore journal: the rollback directory and the databases that had an
\* original. A removed rollback directory is one without files.
Journals == [dir : Dirs, had : SUBSET DB]
NoJournal == [dir |-> 0, had |-> {}]

Directories == [db : Databases,
                journal : Journals \cup {NoJournal},
                rollback : [Dirs -> Databases]]

Present(db) == {d \in DB : db[d] # Missing}

\* restoreRollback's validation of the copies a journal relies on.
Valid(s) == \A d \in s.journal.had : s.rollback[s.journal.dir][d] # Missing

\* What AcquireLock makes of a directory: nothing without a journal, the original
\* databases with a valid one. With an invalid one it fails and changes nothing.
Recovered(s) ==
    IF s.journal = NoJournal \/ ~Valid(s) THEN s.db
    ELSE [d \in DB |-> IF d \in s.journal.had THEN s.rollback[s.journal.dir][d] ELSE Missing]

-----------------------------------------------------------------------------
(* File system steps *)

SetDB(d, content) == [disk EXCEPT !.db = [@ EXCEPT ![d] = content]]

\* A name changes; the change is durable with a later sync at the latest.
Change(new) ==
    /\ disk' = new
    /\ durable' = durable \cup {new}

\* A change followed by an fsync of the same file system.
ChangeSynced(new) ==
    /\ disk' = new
    /\ durable' = {new}

Synced == durable' = {disk} /\ UNCHANGED disk

Fault ==
    /\ faults < MaxFaults
    /\ faults' = faults + 1

Goto(label) == pc' = label

\* The holder returns and closes the lock.
Return == Goto("idle")

-----------------------------------------------------------------------------
(* AcquireLock *)

\* Backup looks for both databases before it locks; that look may be stale once it
\* has the lock, so it is not a guard here. Restore has chosen its backup.
Acquire(u) ==
    /\ pc = "idle"
    /\ Goto("recover")
    /\ user' = u
    /\ IF u = "restore" THEN dir < MaxRestores /\ stage' \in backups ELSE UNCHANGED stage
    /\ restoring' = FALSE
    /\ UNCHANGED <<disk, durable, next, failed, dir, backups, version, outcomes, faults>>

\* Where AcquireLock's caller goes on.
Entry == CASE user = "controller" -> "serving"
           [] user = "backup" -> "copying"
           [] user = "restore" -> "staging"

\* recoverInterruptedRestore that does not look for a journal.
RecoverNothing_Unchecked ==
    /\ pc = "recover"
    /\ Goto(Entry)
    /\ UNCHANGED <<disk, durable, user, next, failed, stage, restoring, dir, backups, version, outcomes, faults>>

\* recoverInterruptedRestore without a journal.
RecoverNothing ==
    /\ pc = "recover"
    /\ disk.journal = NoJournal
    /\ Goto(Entry)
    /\ UNCHANGED <<disk, durable, user, next, failed, stage, restoring, dir, backups, version, outcomes, faults>>

\* recoverInterruptedRestore with one.
RecoverJournal ==
    /\ pc = "recover"
    /\ disk.journal # NoJournal
    /\ Goto("validate")
    /\ UNCHANGED <<disk, durable, user, next, failed, stage, restoring, dir, backups, version, outcomes, faults>>

-----------------------------------------------------------------------------
(* restoreRollback and rollbackInterruptedRestore, called by AcquireLock and, *)
(* when restoring, by a Restore that failed half way.                         *)

Validate ==
    /\ pc = "validate"
    /\ Valid(disk)
    /\ Goto("undo")
    /\ next' = 1
    /\ failed' = FALSE
    /\ UNCHANGED <<disk, durable, user, stage, restoring, dir, backups, version, outcomes, faults>>

\* A rollback database is missing: fail closed.
ValidateRefuses ==
    /\ pc = "validate"
    /\ ~Valid(disk)
    /\ Return
    /\ UNCHANGED <<disk, durable, user, next, failed, stage, restoring, dir, backups, version, outcomes, faults>>

\* The database had no original: its files are removed.
UndoRemoveNew ==
    /\ pc = "undo" /\ next \in DB
    /\ next \notin disk.journal.had
    /\ Change(SetDB(next, Missing))
    /\ next' = next + 1
    /\ UNCHANGED <<pc, user, failed, stage, restoring, dir, backups, version, outcomes, faults>>

\* It had one: the copy is materialized again (and fsynced), the file is removed
\* and then replaced by the copy.
UndoRemove ==
    /\ pc = "undo" /\ next \in DB
    /\ next \in disk.journal.had
    /\ disk' = SetDB(next, Missing)
    /\ durable' = {disk, SetDB(next, Missing)}
    /\ Goto("undoRename")
    /\ UNCHANGED <<user, next, failed, stage, restoring, dir, backups, version, outcomes, faults>>

UndoRename ==
    /\ pc = "undoRename"
    /\ Change(SetDB(next, disk.rollback[disk.journal.dir][next]))
    /\ Goto("undo")
    /\ next' = next + 1
    /\ UNCHANGED <<user, failed, stage, restoring, dir, backups, version, outcomes, faults>>

\* Copying, removing or renaming fails: the error is kept and the loop goes on.
\* The file may be gone: it is removed before its -wal and -shm files.
UndoFails ==
    /\ pc \in {"undo", "undoRename"} /\ next \in DB
    /\ Fault
    /\ \E content \in {disk.db[next], Missing} : Change(SetDB(next, content))
    /\ Goto("undo")
    /\ next' = next + 1
    /\ failed' = TRUE
    /\ UNCHANGED <<user, stage, restoring, dir, backups, version, outcomes>>

\* Going on to remove the journal whatever went wrong.
UndoComplete_Careless == TRUE

\* Only a rollback without errors may remove the journal.
UndoComplete == ~failed

\* The directory is synced after the loop. Errors so far: the journal stays.
UndoSync ==
    /\ pc = "undo" /\ next = NumDB + 1
    /\ Synced
    /\ IF UndoComplete THEN Goto("undoCommit") ELSE Return
    /\ UNCHANGED <<user, next, failed, stage, restoring, dir, backups, version, outcomes, faults>>

\* Taking the journal for removed.
WithoutJournal_Forgotten(s) == s

WithoutJournal(s) == [s EXCEPT !.journal = NoJournal]

\* removeRestoreJournal.
UndoCommit ==
    /\ pc = "undoCommit"
    /\ Change(WithoutJournal(disk))
    /\ Goto("undoCommitSync")
    /\ UNCHANGED <<user, next, failed, stage, restoring, dir, backups, version, outcomes, faults>>

\* The rollback is complete: AcquireLock returns the lock.
RecoverySync ==
    /\ pc = "undoCommitSync" /\ ~restoring
    /\ Synced
    /\ Goto(Entry)
    /\ UNCHANGED <<user, next, failed, stage, restoring, dir, backups, version, outcomes, faults>>

\* RemoveAll of the rollback directory.
WithoutRollback(s) == [s EXCEPT !.rollback = [@ EXCEPT ![dir] = Nothing]]

\* The rollback is complete: Restore's deferred cleanup removes its rollback
\* directory and Restore returns the error that made it roll back.
RestoreUndone ==
    /\ pc = "undoCommitSync" /\ restoring
    /\ disk' = WithoutRollback(disk)
    /\ durable' = {disk, WithoutRollback(disk)}
    /\ Return
    /\ UNCHANGED <<user, next, failed, stage, restoring, dir, backups, version, outcomes, faults>>

-----------------------------------------------------------------------------
(* Restore *)

\* Both backup databases are validated and copied into the staging directory.
Stage ==
    /\ pc = "staging"
    /\ Synced
    /\ Goto("saving")
    /\ UNCHANGED <<user, next, failed, stage, restoring, dir, backups, version, outcomes, faults>>

\* The originals are copied into a new rollback directory, which is synced.
SaveOriginals ==
    /\ pc = "saving"
    /\ dir < MaxRestores
    /\ dir' = dir + 1
    /\ restoring' = TRUE
    /\ ChangeSynced([disk EXCEPT !.rollback = [@ EXCEPT ![dir + 1] = disk.db]])
    /\ Goto("journal")
    /\ UNCHANGED <<user, next, failed, stage, backups, version, outcomes, faults>>

\* writeRestoreJournal: a synced temporary file is renamed to the journal.
WriteJournal ==
    /\ pc = "journal"
    /\ Change([disk EXCEPT !.journal = [dir |-> dir, had |-> Present(disk.db)]])
    /\ Goto("journalSync")
    /\ UNCHANGED <<user, next, failed, stage, restoring, dir, backups, version, outcomes, faults>>

JournalSync ==
    /\ pc = "journalSync"
    /\ Synced
    /\ Goto("replace")
    /\ next' = 1
    /\ UNCHANGED <<user, failed, stage, restoring, dir, backups, version, outcomes, faults>>

ReplaceRemove ==
    /\ pc = "replace" /\ next \in DB
    /\ Change(SetDB(next, Missing))
    /\ Goto("replaceRename")
    /\ UNCHANGED <<user, next, failed, stage, restoring, dir, backups, version, outcomes, faults>>

\* A loop that goes the other way.
Following_Down(i) == i - 1

\* The loop over databaseNames.
Following(i) == i + 1

ReplaceRename ==
    /\ pc = "replaceRename"
    /\ Change(SetDB(next, stage[next]))
    /\ Goto("replace")
    /\ next' = Following(next)
    /\ UNCHANGED <<user, failed, stage, restoring, dir, backups, version, outcomes, faults>>

ReplaceSync ==
    /\ pc = "replace" /\ next = NumDB + 1
    /\ Synced
    /\ Goto("commit")
    /\ UNCHANGED <<user, next, failed, stage, restoring, dir, backups, version, outcomes, faults>>

\* The journal is removed: from here on the restored databases may survive.
Commit ==
    /\ pc = "commit"
    /\ Change(WithoutJournal(disk))
    /\ Goto("commitSync")
    /\ outcomes' = outcomes \cup {stage}
    /\ UNCHANGED <<user, next, failed, stage, restoring, dir, backups, version, faults>>

\* Restore returns nil.
CommitSync ==
    /\ pc = "commitSync"
    /\ Synced
    /\ Return
    /\ outcomes' = {stage}
    /\ UNCHANGED <<user, next, failed, stage, restoring, dir, backups, version, faults>>

-----------------------------------------------------------------------------
(* Backup and the controller *)

\* Backup: both databases are copied into a staging directory that is renamed to
\* the backup directory.
Backup ==
    /\ pc = "copying"
    /\ Present(disk.db) = DB
    /\ backups' = backups \cup {disk.db}
    /\ Return
    /\ UNCHANGED <<disk, durable, user, next, failed, stage, restoring, dir, version, outcomes, faults>>

\* A database is missing or a copy fails; nothing is published.
BackupFails ==
    /\ pc = "copying"
    /\ Return
    /\ UNCHANGED <<disk, durable, user, next, failed, stage, restoring, dir, backups, version, outcomes, faults>>

\* The controller commits a SQLite transaction to one of its databases, creating
\* the file if need be.
ControllerWrite(d) ==
    /\ pc = "serving"
    /\ version < MaxVersion
    /\ version' = version + 1
    /\ ChangeSynced(SetDB(d, version + 1))
    /\ outcomes' = {SetDB(d, version + 1).db}
    /\ UNCHANGED <<pc, user, next, failed, stage, restoring, dir, backups, faults>>

\* The controller shuts down and closes the lock.
ControllerStop ==
    /\ pc = "serving"
    /\ Return
    /\ UNCHANGED <<disk, durable, user, next, failed, stage, restoring, dir, backups, version, outcomes, faults>>

-----------------------------------------------------------------------------
(* Faults *)

\* Calls whose failure makes the holder return without touching the directory:
\* reading or validating a journal, staging, copying the originals (their
\* directory is removed again), syncing or removing the journal at the end.
ReturnsError ==
    /\ \/ pc \in {"recover", "validate", "undoCommit", "undoCommitSync",
                  "staging", "saving", "commit", "commitSync"}
       \/ pc = "undo" /\ next = NumDB + 1
    /\ Fault
    /\ Return
    /\ UNCHANGED <<disk, durable, user, next, failed, stage, restoring, dir, backups, version, outcomes>>

\* writeRestoreJournal fails before or after the rename; as journalWritten is not
\* set yet the deferred cleanup removes the rollback directory either way.
JournalFails ==
    /\ pc \in {"journal", "journalSync"}
    /\ Fault
    /\ Change(WithoutRollback(disk))
    /\ Return
    /\ UNCHANGED <<user, next, failed, stage, restoring, dir, backups, version, outcomes>>

\* Removing, renaming or syncing fails while the databases are replaced: Restore
\* rolls back. As above the file may be gone.
ReplaceFails ==
    /\ pc \in {"replace", "replaceRename"}
    /\ Fault
    /\ \/ next \in DB /\ \E content \in {disk.db[next], Missing} : Change(SetDB(next, content))
       \/ next = NumDB + 1 /\ UNCHANGED <<disk, durable>>
    /\ Goto("validate")
    /\ UNCHANGED <<user, next, failed, stage, restoring, dir, backups, version, outcomes>>

\* The process is killed; the kernel keeps the directory and drops the lock.
Crash ==
    /\ pc # "idle"
    /\ Fault
    /\ Return
    /\ UNCHANGED <<disk, durable, user, next, failed, stage, restoring, dir, backups, version, outcomes>>

\* The machine goes down.
PowerLoss ==
    /\ Fault
    /\ \E s \in durable : ChangeSynced(s)
    /\ Return
    /\ UNCHANGED <<user, next, failed, stage, restoring, dir, backups, version, outcomes>>

-----------------------------------------------------------------------------
\* An existing installation, a new directory or one with a database missing; one
\* backup was taken earlier, as version 1.
Init ==
    /\ disk \in [db : [DB -> {Missing, 2}], journal : {NoJournal},
                 rollback : {[n \in Dirs |-> Nothing]}]
    /\ durable = {disk}
    /\ pc = "idle" /\ user = "controller"
    /\ next = 1 /\ failed = FALSE
    /\ backups = {[d \in DB |-> 1]}
    /\ stage = [d \in DB |-> 1]
    /\ restoring = FALSE /\ dir = 0
    /\ version = 2
    /\ outcomes = {disk.db}
    /\ faults = 0

Progress ==
    \/ RecoverNothing \/ RecoverJournal \/ Validate \/ ValidateRefuses
    \/ UndoRemoveNew \/ UndoRemove \/ UndoRename \/ UndoSync \/ UndoCommit
    \/ RecoverySync \/ RestoreUndone
    \/ Stage \/ SaveOriginals \/ WriteJournal \/ JournalSync
    \/ ReplaceRemove \/ ReplaceRename \/ ReplaceSync \/ Commit \/ CommitSync
    \/ Backup \/ BackupFails

Next ==
    \/ \E u \in {"controller", "backup", "restore"} : Acquire(u)
    \/ Progress
    \/ \E d \in DB : ControllerWrite(d)
    \/ ControllerStop
    \/ UndoFails \/ ReturnsError \/ JournalFails \/ ReplaceFails \/ Crash \/ PowerLoss

Spec == Init /\ [][Next]_vars

\* A process that holds the lock goes on, and the container's restart policy
\* brings the controller back (docker-compose.yml, restart: unless-stopped).
FairSpec == Spec /\ WF_vars(Progress) /\ WF_vars(Acquire("controller"))

-----------------------------------------------------------------------------
(* Properties *)

\* Types of the directory and of the holder's locals.
TypeOK ==
    /\ disk \in Directories
    /\ durable \subseteq Directories
    /\ pc \in {"idle", "recover", "validate", "undo", "undoRename", "undoCommit",
               "undoCommitSync", "staging", "saving", "journal", "journalSync",
               "replace", "replaceRename", "commit", "commitSync", "copying", "serving"}
    /\ user \in {"controller", "backup", "restore"}
    /\ next \in 1..(NumDB + 1)
    /\ failed \in BOOLEAN /\ restoring \in BOOLEAN
    /\ stage \in Databases
    /\ dir \in 0..MaxRestores
    /\ backups \subseteq Databases
    /\ version \in Contents
    /\ outcomes \subseteq Databases
    /\ faults \in 0..MaxFaults

\* Restore is atomic across failures, crashes and power losses: at every moment,
\* what the next AcquireLock would make of the directory, also after a power loss
\* now, is a database set the results so far allow. That is the last one the
\* controller wrote until Restore removes its journal, either one while that
\* removal is unconfirmed, and the restored one from the moment Restore returns
\* nil: never a mixture, and never a set that discards a later write.
RestoreAtomic == \A s \in durable \cup {disk} : Recovered(s) \in outcomes

\* Whoever gets past AcquireLock finds an allowed database set, whatever was
\* interrupted before.
HoldersSeeCommitted ==
    pc \in {"serving", "copying", "staging", "saving"} => disk.db \in outcomes

BackupStep == backups' \subseteq backups \cup outcomes

\* A published backup is a database set that was committed as a whole: it is never
\* taken from the middle of a restore.
BackupsCommitted == [][BackupStep]_vars

Atomic == INSTANCE AtomicDirectory
    WITH now <- Recovered(disk), kept <- {Recovered(s) : s \in durable}

\* The directory with its journal, copies and renames is to its users the one value of
\* AtomicDirectory: through any failure it changes by whole writes and whole restores of
\* published backups, a restore that was undone never comes back, and what is written to
\* and backed up is what recovery would have found.
ImplementsAtomic == Atomic!Spec

\* An interrupted restore does not stay interrupted: once faults stop, a journal
\* whose rollback databases exist is resolved by the controller's next starts.
JournalResolved ==
    (disk.journal # NoJournal /\ Valid(disk)) ~> (disk.journal = NoJournal \/ ~Valid(disk))

\* AcquireLock can recover from every interrupted restore: a journal's rollback
\* databases are there as long as the journal is.
JournalRecoverable == disk.journal # NoJournal => Valid(disk)

(***************************************************************************)
(* What RestoreAtomic needs to be inductive.                               *)
(***************************************************************************)

\* Where the holder is tells whether the journal is there, and relies on its
\* rollback databases being there.
JournalPlace ==
    /\ pc \in {"serving", "copying", "staging", "saving", "journal", "commitSync",
               "undoCommitSync"} => disk.journal = NoJournal
    /\ pc \in {"validate", "undo", "undoRename", "undoCommit", "journalSync", "replace",
               "replaceRename", "commit"} => disk.journal # NoJournal
    /\ pc \in {"undo", "undoRename", "undoCommit", "journalSync", "replace",
               "replaceRename", "commit"} => Valid(disk)

\* Restore's rollback directory holds the originals until it replaces them.
OriginalsSaved ==
    /\ pc \in {"journal", "journalSync"} => dir \in Dirs /\ disk.rollback[dir] = disk.db
    /\ pc = "journalSync" => disk.journal = [dir |-> dir, had |-> Present(disk.db)]

\* How far the loops of Restore and of the rollback have come.
LoopProgress ==
    /\ pc \in {"undoRename", "replaceRename"} => next \in DB
    /\ pc = "undoRename" => next \in disk.journal.had
    /\ pc \in {"undo", "undoRename"} /\ ~failed =>
          \A d \in DB : d < next => disk.db[d] = Recovered(disk)[d]
    /\ pc = "undoCommit" => disk.db = Recovered(disk)
    /\ pc \in {"replace", "replaceRename"} => \A d \in DB : d < next => disk.db[d] = stage[d]
    /\ pc \in {"commit", "commitSync"} => disk.db = stage

IInv ==
    /\ TypeOK
    /\ disk \in durable
    /\ JournalPlace
    /\ OriginalsSaved
    /\ LoopProgress
    /\ RestoreAtomic

=============================================================================
