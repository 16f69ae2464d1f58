-------------------------- MODULE JournalMigration --------------------------
(***************************************************************************)
(* The move of the point of sale's journal to its third schema             *)
(* (pdv/src/main/services/journalMigration.ts), which every start of the   *)
(* application runs before it opens the journal (operationJournal.ts).     *)
(* Several processes may be started; each may be killed at any moment; the *)
(* lock file, the frozen snapshot, the phase and the copied rows survive.  *)
(***************************************************************************)
EXTENDS Integers

CONSTANTS Processes,  \* processes of the application on one machine
          Rows,       \* rows that a legacy journal may have
          MaxCrashes  \* bound on kills in the middle of a migration

\* The phases, by their index in the code's list; 0 before the first.
NoPhase == 0
BackupCreated == 1
SchemaCreated == 2
RowsCopied == 3
Validated == 4
Activated == 5
Phases == NoPhase..Activated

\* A legacy row: a sale or an operation of the cash session, with or without
\* the identity and the sequence that the new schema asks for.  "place" stands
\* for what the target wants unique in an event besides its identifier: the
\* sequence of the device, and the key of the tenant's device.
RowType == [id : Nat, place : Nat, sale : BOOLEAN, identified : BOOLEAN,
            status : {"pending", "syncing", "synced", "conflict", "failed"}]

ASSUME MigrationAssumption ==
    /\ Rows \subseteq RowType
    /\ MaxCrashes \in Nat

VARIABLES journal,   \* rows of the legacy journal of this installation
          early,     \* bookkeeping: the legacy file went before its rows were copied
          files,     \* which of the legacy journal and the lock file are there
          snapshot,  \* frozen copy of the legacy: "none", "partial" or "whole"
          phase,     \* the phase that the target's journal_migrations records
          proj,      \* projection of each row in the target, "none" before its copy
          pc,        \* where each process is
          seen,      \* the phase that the process read last
          crashes

migrationVars == <<journal, early, files, snapshot, phase, proj, pc, seen, crashes>>

RowProjections == {"none", "pending", "synced", "conflict", "review"}

\* Inside the try block, with the lock file created by the process itself.
Migrating == {"read", "freeze", "freezing", "backup", "prepare", "copy",
              "rows", "validate", "activate"}
Leaving == {"shut out", "failing", "done"}
ProcessPlaces == Migrating \cup Leaving \cup {"down", "running", "failed"}

MigrationTypeOK ==
    /\ journal \subseteq Rows
    /\ early \in BOOLEAN
    /\ files \subseteq {"legacy", "lock"}
    /\ snapshot \in {"none", "partial", "whole"}
    /\ phase \in Phases
    /\ proj \in [Rows -> RowProjections]
    /\ pc \in [Processes -> ProcessPlaces]
    /\ seen \in [Processes -> Phases]
    /\ crashes \in 0..MaxCrashes

\* An installation with a legacy journal, or a new one.
MigrationInit ==
    /\ journal \in SUBSET Rows
    /\ early = FALSE
    /\ files = IF journal = {} THEN {} ELSE {"legacy"}
    /\ snapshot = "none"
    /\ phase = NoPhase
    /\ proj = [r \in Rows |-> "none"]
    /\ pc = [p \in Processes |-> "down"]
    /\ seen = [p \in Processes |-> NoPhase]
    /\ crashes = 0

-----------------------------------------------------------------------------
Legacy == "legacy" \in files

Goto(p, place) == pc' = [pc EXCEPT ![p] = place]
See(p, ph) == seen' = [seen EXCEPT ![p] = ph]

\* openSync(lock, 'wx') fails on a lock file that is there, also on one that
\* a killed process left.
Start(p) ==
    /\ pc[p] = "down"
    /\ Goto(p, IF "lock" \in files THEN "shut out" ELSE "read")
    /\ files' = files \cup {"lock"}
    /\ See(p, NoPhase)
    /\ UNCHANGED <<journal, early, snapshot, phase, proj, crashes>>

\* Mutant: a schema that exists is taken for a finished migration.
FinishedOnSchema(ph) == ph >= SchemaCreated

Finished(ph) == ph = Activated

\* Without the legacy file the journal is activated at once, except right
\* after the backup, when the snapshot is used.
Orphan == ~Legacy /\ phase # BackupCreated

\* Where the persisted phase sends the process.
Resume ==
    IF Finished(phase) \/ Orphan THEN "done"
    ELSE IF ~Legacy THEN "prepare"
    ELSE IF phase < BackupCreated THEN "freeze"
    ELSE IF snapshot = "none" THEN "failing" ELSE "prepare"

ReadPhase(p) ==
    /\ pc[p] = "read"
    /\ Goto(p, Resume)
    /\ See(p, phase)
    /\ phase' = IF Orphan THEN Activated ELSE phase
    /\ UNCHANGED <<journal, early, files, snapshot, proj, crashes>>

\* The legacy database is locked exclusively while its files are copied; a
\* second process gives up after waiting for it.
BeginSnapshot(p) ==
    /\ pc[p] = "freeze"
    /\ \A q \in Processes : pc[q] # "freezing"
    /\ snapshot' = "partial"
    /\ Goto(p, "freezing")
    /\ UNCHANGED <<journal, early, files, phase, proj, seen, crashes>>

SnapshotBusy(p) ==
    /\ pc[p] = "freeze"
    /\ \E q \in Processes : pc[q] = "freezing"
    /\ Goto(p, "failing")
    /\ UNCHANGED <<journal, early, files, snapshot, phase, proj, seen, crashes>>

EndSnapshot(p) ==
    /\ pc[p] = "freezing"
    /\ snapshot' = "whole"
    /\ Goto(p, "backup")
    /\ UNCHANGED <<journal, early, files, phase, proj, seen, crashes>>

MarkBackup(p) ==
    /\ pc[p] = "backup"
    /\ phase' = BackupCreated
    /\ See(p, BackupCreated)
    /\ Goto(p, "prepare")
    /\ UNCHANGED <<journal, early, files, snapshot, proj, crashes>>

\* advance(): a phase that was already reached when it was read is not set.
Advance(p, ph) ==
    /\ phase' = IF seen[p] >= ph THEN phase ELSE ph
    /\ See(p, phase')

\* The schema is created and the rows are read from the snapshot, which
\* raises unless it is whole.
Prepare(p) ==
    /\ pc[p] = "prepare"
    /\ IF snapshot = "whole"
       THEN Advance(p, SchemaCreated) /\ Goto(p, "copy")
       ELSE Goto(p, "failing") /\ UNCHANGED <<journal, early, phase, seen>>
    /\ UNCHANGED <<journal, early, files, snapshot, proj, crashes>>

\* Mutant: rows without an identity are copied like the others.
ProjectedBlind(r) ==
    IF r.status = "conflict" THEN "conflict"
    ELSE IF r.status = "synced" THEN "synced" ELSE "pending"

\* The projection of a copied row: what cannot be synchronised is set aside
\* for review, and everything that was not settled becomes pending.
Projected(r) ==
    IF r.status = "conflict" THEN "conflict"
    ELSE IF ~(r.sale /\ r.identified) THEN "review"
    ELSE IF r.status = "synced" THEN "synced" ELSE "pending"

\* Mutant: the rows of an interrupted migration are replaced.
StoreAnew(old) == [r \in Rows |-> IF r \in journal THEN Projected(r) ELSE old[r]]

\* INSERT OR IGNORE: a row that is there stays what it has become.
Store(old) ==
    [r \in Rows |-> IF r \in journal /\ old[r] = "none" THEN Projected(r) ELSE old[r]]

Copied(r) == proj[r] # "none"

\* The event of a new row is ignored for another one in its place; then its
\* projection has no event to refer to, and the transaction fails.
Collides(r) ==
    /\ ~Copied(r)
    /\ \E q \in journal \ {r} : q.place = r.place /\ (q.id < r.id \/ Copied(q))

\* One transaction for all rows; then the phase is read again.
Copy(p) ==
    /\ pc[p] = "copy"
    /\ \A r \in journal : ~Collides(r)
    /\ proj' = Store(proj)
    /\ See(p, phase)
    /\ Goto(p, "rows")
    /\ UNCHANGED <<journal, early, files, snapshot, phase, crashes>>

\* The transaction is rolled back and the start fails, each time again.
CopyFails(p) ==
    /\ pc[p] = "copy"
    /\ \E r \in journal : Collides(r)
    /\ Goto(p, "failing")
    /\ UNCHANGED <<journal, early, files, snapshot, phase, proj, seen, crashes>>

\* The count of the events is compared with that of the snapshot's rows, which
\* are distinct in the legacy journal; a collision has failed before.
MarkRows(p) ==
    /\ pc[p] = "rows"
    /\ Advance(p, RowsCopied)
    /\ Goto(p, IF \A r \in journal : Copied(r) THEN "validate" ELSE "failing")
    /\ UNCHANGED <<journal, early, files, snapshot, proj, crashes>>

MarkValidated(p) ==
    /\ pc[p] = "validate"
    /\ Advance(p, Validated)
    /\ Goto(p, "activate")
    /\ UNCHANGED <<journal, early, files, snapshot, proj, crashes>>

MarkActivated(p) ==
    /\ pc[p] = "activate"
    /\ Advance(p, Activated)
    /\ Goto(p, "done")
    /\ UNCHANGED <<journal, early, files, snapshot, proj, crashes>>

\* Mutant: a process that was shut out leaves the lock alone.
ReleaseOwn(p) ==
    /\ pc[p] \in Leaving
    /\ files' = IF pc[p] = "shut out" THEN files ELSE files \ {"lock"}
    /\ Goto(p, IF pc[p] = "done" THEN "running" ELSE "failed")
    /\ UNCHANGED <<journal, early, snapshot, phase, proj, seen, crashes>>

\* The finally block removes the lock file, whoever created it.
Release(p) ==
    /\ pc[p] \in Leaving
    /\ files' = files \ {"lock"}
    /\ Goto(p, IF pc[p] = "done" THEN "running" ELSE "failed")
    /\ UNCHANGED <<journal, early, snapshot, phase, proj, seen, crashes>>

-----------------------------------------------------------------------------
\* The application synchronises a row that is pending.
Synchronise(p, r) ==
    /\ pc[p] = "running"
    /\ proj[r] = "pending"
    /\ proj' = [proj EXCEPT ![r] = "synced"]
    /\ UNCHANGED <<journal, early, files, snapshot, phase, pc, seen, crashes>>

\* The user closes it: a failed start shows no window, but is a process.
Quit(p) ==
    /\ pc[p] \in {"running", "failed"}
    /\ Goto(p, "down")
    /\ UNCHANGED <<journal, early, files, snapshot, phase, proj, seen, crashes>>

\* It is killed, and leaves the lock file and a partial snapshot behind.
Crash(p) ==
    /\ pc[p] \in Migrating \cup Leaving
    /\ crashes < MaxCrashes
    /\ crashes' = crashes + 1
    /\ Goto(p, "down")
    /\ UNCHANGED <<journal, early, files, snapshot, phase, proj, seen>>

\* The legacy file becomes unavailable, at any phase; bound: not while a
\* process is about to open it or has it locked.
RemoveLegacy ==
    /\ Legacy
    /\ \A p \in Processes : pc[p] \notin {"freeze", "freezing"}
    /\ files' = files \ {"legacy"}
    /\ early' = (early \/ phase < RowsCopied)
    /\ UNCHANGED <<journal, snapshot, phase, proj, pc, seen, crashes>>

Work(p) ==
    \/ ReadPhase(p)
    \/ BeginSnapshot(p)
    \/ SnapshotBusy(p)
    \/ EndSnapshot(p)
    \/ MarkBackup(p)
    \/ Prepare(p)
    \/ Copy(p)
    \/ CopyFails(p)
    \/ MarkRows(p)
    \/ MarkValidated(p)
    \/ MarkActivated(p)
    \/ Release(p)

MigrationNext ==
    \/ \E p \in Processes : Start(p) \/ Work(p) \/ Quit(p) \/ Crash(p)
    \/ \E p \in Processes, r \in Rows : Synchronise(p, r)
    \/ RemoveLegacy

MigrationSpec == MigrationInit /\ [][MigrationNext]_migrationVars

\* A start runs to its end, and the user tries again after a failed one.
FairMigrationSpec ==
    /\ MigrationSpec
    /\ \A p \in Processes :
         WF_migrationVars(Start(p)) /\ WF_migrationVars(Work(p)) /\ WF_migrationVars(pc[p] = "failed" /\ Quit(p))

-----------------------------------------------------------------------------
\* A journal that is activated, or that a process works with, has every row
\* of the legacy journal: no interruption, no second process and no stale
\* phase ever activates an incomplete schema.  The one way to lose rows is a
\* legacy file that goes away before they are copied: see SnapshotServes.
NothingLost ==
    phase = Activated \/ (\E p \in Processes : pc[p] = "running")
    => early \/ \A r \in journal : Copied(r)

\* "replay resumes from the stored snapshot" when the legacy file is gone
\* (journalMigration.test.ts:89): beside a whole snapshot, an active journal
\* has every row.  The code keeps this only for a start that reads the phase
\* backup_created; one phase earlier or later, the next start takes the missing
\* file for a new installation and activates an empty schema.
SnapshotServes ==
    phase = Activated /\ snapshot = "whole" => \A r \in journal : Copied(r)

\* What the legacy journal had settled, or what lacks an identity, is never
\* pending, so that the synchronisation does not send it.
SetAside ==
    \A r \in Rows :
        r.status \in {"synced", "conflict"} \/ ~r.sale \/ ~r.identified => proj[r] # "pending"

\* A migration that runs again, even beside a working application, never puts
\* a row back that was synchronised meanwhile, nor drops one.
SyncedStays ==
    [][\A r \in Rows : /\ proj[r] = "synced" => proj'[r] = "synced"
                       /\ Copied(r) => proj'[r] # "none"]_migrationVars

\* Two rows of the legacy journal claim one place.
Clash == \E q, r \in journal : q # r /\ q.place = r.place

\* A second process took the snapshot again and was killed over it.
SnapshotTorn == phase >= BackupCreated /\ snapshot # "whole"

\* A lock file or a partial snapshot that a killed process left does not shut
\* later starts out for good, whatever processes migrate beside each other: a
\* journal whose rows do not clash is activated, unless the snapshot is torn
\* behind its recorded phase, which nothing repairs.
Recovers == Clash \/ <>(phase = Activated) \/ <>[]SnapshotTorn

\* "Given a crash after %s, when retried, then activates" (journalMigration
\* .test.ts:63), for every legacy journal and every interruption.
AlwaysRecovers == <>(phase = Activated)
=============================================================================
