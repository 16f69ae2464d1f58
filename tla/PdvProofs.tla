----------------------------- MODULE PdvProofs -----------------------------
(***************************************************************************)
(* Theorems about the main process of the point of sale: the offline       *)
(* journal and its synchronisation (PdvSync), for any purchases, attempts, *)
(* batches and restarts; the journal's migration (JournalMigration), for   *)
(* any processes, rows and kills; and the judgement of a sale without a    *)
(* connection (Contingency), for any times, clocks and devices.            *)
(***************************************************************************)
EXTENDS PdvSync, JournalMigration, Contingency, Sums

(***************************************************************************)
(* The offline journal and its synchronisation.                            *)
(***************************************************************************)
USE PdvAssumption

LEMMA KeysType == \A p \in Purchases : Direct(p) \in Keys /\ Queued(p) \in Keys
BY DEF Keys, Direct, Queued

LEMMA ServeType ==
    ASSUME sales \in [Keys -> Nat], NEW k \in Keys, NEW answer \in Answers, Serve(k, answer)
    PROVE  sales' \in [Keys -> Nat]
BY DEF Serve

LEMMA OutcomeType ==
    \A answer \in Answers : answer # "server" => Outcome(answer) \in {"synced", "conflict", "failed", "pending"}
BY DEF Answers, Outcome

\* The handler and the engine have only one entry and one key at hand.
CurrentSyncing ==
    engine \in {"posting", "backoff"} => /\ current \in Purchases
                                         /\ entry[current] = "syncing"
                                         /\ current \notin todo

LEMMA JournalTypeStep ==
    ASSUME TypeOK, CurrentSyncing, [Next]_vars
    PROVE  TypeOK'
<1> USE DEF TypeOK, Stages, Projections, Settled, Places, Mark, Leave
<1>1. CASE EngineStep
  <2>1. CASE FindNothing \/ FallBack \/ AcceptBatch \/ EndRun
      BY <2>1 DEF FindNothing, FallBack, AcceptBatch, EndRun
  <2>2. CASE SendBatch
      BY <2>2 DEF SendBatch, Snapshot, Pending
  <2>3. ASSUME NEW p \in Purchases, Post(p) PROVE TypeOK'
      BY <2>3 DEF Post
  <2>4. ASSUME NEW answer \in Answers, HearSync(answer) PROVE TypeOK'
    <3>1. current \in Purchases
        BY <2>4 DEF HearSync, CurrentSyncing
    <3>2. sales' \in [Keys -> Nat]
        BY <2>4, <3>1, KeysType, ServeType DEF HearSync
    <3>3. entry' \in [Purchases -> Projections]
        BY <2>4, <3>1, OutcomeType DEF HearSync
    <3> QED
        BY <2>4, <3>2, <3>3 DEF HearSync
  <2>5. CASE HearNothing
      BY <2>5, KeysType DEF HearNothing, CurrentSyncing
  <2>6. CASE Retry
      BY <2>6 DEF Retry, Again
  <2>7. CASE Postpone \/ RunOut
      BY <2>7 DEF Postpone, RunOut, CurrentSyncing
  <2> QED
      BY <1>1, <2>1, <2>2, <2>3, <2>4, <2>5, <2>6, <2>7 DEF EngineStep
<1>2. CASE Trigger \/ Reconnect \/ Disconnect
    BY <1>2 DEF Trigger, Reconnect, Disconnect
<1>3. ASSUME NEW p \in Purchases, HandlerStep(p) PROVE TypeOK'
  <2>1. CASE Ask(p) \/ GiveUp(p) \/ Queue(p)
      BY <2>1, KeysType DEF Ask, GiveUp, Queue
  <2>2. ASSUME NEW answer \in Answers, Hear(p, answer) PROVE TypeOK'
      BY <2>2, KeysType, ServeType DEF Hear
  <2> QED
      BY <1>3, <2>1, <2>2 DEF HandlerStep
<1>4. ASSUME NEW k \in Keys, NEW answer \in Answers, ServeLate(k, answer) PROVE TypeOK'
    BY <1>4, ServeType DEF ServeLate
<1>5. CASE Restart
    BY <1>5, KeysType DEF Restart
<1>6. CASE UNCHANGED vars
    BY <1>6 DEF vars
<1> QED
    BY <1>1, <1>2, <1>3, <1>4, <1>5, <1>6 DEF Next, NetworkStep

-----------------------------------------------------------------------------
(***************************************************************************)
(* The journal has an entry exactly for the queued purchases; a run works  *)
(* on unsettled entries only, and the one it waits for is marked syncing.  *)
(***************************************************************************)
QueuedIsJournaled == \A p \in Purchases : entry[p] # "none" => asked[p] = "queued"

TodoUnsettled == \A p \in todo : entry[p] \in {"pending", "syncing"}

JournalInv == TypeOK /\ QueuedIsJournaled /\ TodoUnsettled /\ CurrentSyncing

\* What a step may do to a settled entry and to a purchase that is done.
OutcomeStays ==
    \A p \in Purchases : /\ entry[p] \in Settled => entry'[p] = entry[p]
                         /\ asked[p] \in {"sold", "queued"} => asked'[p] = asked[p]

LEMMA JournalStep ==
    ASSUME JournalInv, [Next]_vars
    PROVE  JournalInv' /\ OutcomeStays
<1> TypeOK'
    BY JournalTypeStep DEF JournalInv
<1> USE DEF JournalInv, TypeOK, QueuedIsJournaled, TodoUnsettled, CurrentSyncing, OutcomeStays,
            Settled, Mark, Leave
<1>1. CASE EngineStep
  <2>1. CASE FindNothing \/ FallBack \/ AcceptBatch \/ EndRun
      BY <2>1 DEF FindNothing, FallBack, AcceptBatch, EndRun
  <2>2. CASE SendBatch
      BY <2>2 DEF SendBatch, Snapshot, Pending
  <2>3. ASSUME NEW p \in Purchases, Post(p) PROVE JournalInv' /\ OutcomeStays
      BY <2>3 DEF Post
  <2>4. ASSUME NEW answer \in Answers, HearSync(answer) PROVE JournalInv' /\ OutcomeStays
      BY <2>4, OutcomeType DEF HearSync
  <2>5. CASE HearNothing \/ Retry \/ Postpone \/ RunOut
      BY <2>5 DEF HearNothing, Retry, Postpone, RunOut
  <2> QED
      BY <1>1, <2>1, <2>2, <2>3, <2>4, <2>5 DEF EngineStep
<1>2. CASE Trigger \/ Reconnect \/ Disconnect
    BY <1>2 DEF Trigger, Reconnect, Disconnect
<1>3. ASSUME NEW p \in Purchases, HandlerStep(p) PROVE JournalInv' /\ OutcomeStays
  <2>1. CASE Ask(p) \/ GiveUp(p)
      BY <2>1 DEF Ask, GiveUp
  <2>2. CASE Queue(p)
      BY <2>2 DEF Queue
  <2>3. ASSUME NEW answer \in Answers, Hear(p, answer) PROVE JournalInv' /\ OutcomeStays
      BY <2>3 DEF Hear
  <2> QED
      BY <1>3, <2>1, <2>2, <2>3 DEF HandlerStep
<1>4. ASSUME NEW k \in Keys, NEW answer \in Answers, ServeLate(k, answer)
      PROVE  JournalInv' /\ OutcomeStays
    BY <1>4 DEF ServeLate
<1>5. CASE Restart
    BY <1>5 DEF Restart
<1>6. CASE UNCHANGED vars
    BY <1>6 DEF vars
<1> QED
    BY <1>1, <1>2, <1>3, <1>4, <1>5, <1>6 DEF Next, NetworkStep

LEMMA Journal == Spec => []JournalInv
<1>1. Init => JournalInv
    BY DEF Init, JournalInv, TypeOK, Stages, Projections, Places, QueuedIsJournaled,
           TodoUnsettled, CurrentSyncing
<1>2. JournalInv /\ [Next]_vars => JournalInv'
    BY JournalStep
<1> QED
    BY <1>1, <1>2, PTL DEF Spec

(***************************************************************************)
(* Type correctness of every reachable state.                              *)
(***************************************************************************)
THEOREM JournalTypeCorrect == Spec => []TypeOK
<1>1. JournalInv => TypeOK
    BY DEF JournalInv
<1> QED
    BY <1>1, Journal, PTL

(***************************************************************************)
(* No run, retry or restart takes back what is settled.                    *)
(***************************************************************************)
THEOREM SettledStays == Spec => SettledForGood
<1>1. JournalInv /\ [Next]_vars => [OutcomeStays]_vars
    BY JournalStep
<1> QED
    BY <1>1, Journal, PTL DEF Spec, SettledForGood, OutcomeStays

-----------------------------------------------------------------------------
(***************************************************************************)
(* The backend.  Whatever reaches it, at whatever time, a key has at most  *)
(* one sale and never loses it.                                            *)
(***************************************************************************)
SalesInv == (\A k \in Keys : sales[k] <= 1) /\ SyncedIsSold

LEMMA ServeOnce ==
    ASSUME TypeOK, \A k \in Keys : sales[k] <= 1,
           NEW k \in Keys, NEW answer \in Answers, Serve(k, answer)
    PROVE  /\ \A j \in Keys : sales'[j] <= 1 /\ sales'[j] >= sales[j]
           /\ answer = "ok" => sales'[k] > 0
BY DEF Serve, TypeOK

LEMMA SalesGrow ==
    ASSUME TypeOK, TypeOK', SalesInv,
           \A j \in Keys : sales'[j] <= 1 /\ sales'[j] >= sales[j],
           \A p \in Purchases :
               entry'[p] = "synced" => entry[p] = "synced" \/ sales'[Queued(p)] > 0
    PROVE  SalesInv'
<1>1. ASSUME NEW p \in Purchases, entry'[p] = "synced" PROVE sales'[Queued(p)] > 0
  <2>1. CASE sales'[Queued(p)] > 0
      BY <2>1
  <2>2. CASE entry[p] = "synced"
    <3>1. Queued(p) \in Keys
        BY KeysType
    <3>2. sales[Queued(p)] > 0
        BY <2>2 DEF SalesInv, SyncedIsSold
    <3>3. sales[Queued(p)] \in Nat /\ sales'[Queued(p)] \in Nat
        BY <3>1 DEF TypeOK
    <3>4. sales'[Queued(p)] >= sales[Queued(p)]
        BY <3>1
    <3> QED
        BY <3>2, <3>3, <3>4
  <2> QED
      BY <1>1, <2>1, <2>2
<1> QED
    BY <1>1 DEF SalesInv, SyncedIsSold

LEMMA SalesStep ==
    ASSUME JournalInv, SalesInv, [Next]_vars
    PROVE  SalesInv'
<1> TypeOK /\ \A k \in Keys : sales[k] <= 1
    BY DEF JournalInv, SalesInv
<1> TypeOK'
    BY JournalTypeStep DEF JournalInv
<1> USE KeysType DEF SalesInv, SyncedIsSold
<1>1. ASSUME UNCHANGED sales,
             \A p \in Purchases : entry'[p] = "synced" => entry[p] = "synced"
      PROVE  SalesInv'
    BY <1>1
<1>2. CASE EngineStep
  <2>1. CASE FindNothing \/ FallBack \/ AcceptBatch \/ EndRun \/ HearNothing \/ Retry \/ RunOut
      BY <2>1, <1>1 DEF FindNothing, FallBack, AcceptBatch, EndRun, HearNothing, Retry, RunOut
  <2>2. CASE SendBatch
      BY <2>2, <1>1 DEF SendBatch, Snapshot, Pending, TypeOK
  <2>3. ASSUME NEW p \in Purchases, Post(p) PROVE SalesInv'
      BY <2>3, <1>1 DEF Post, Mark, TypeOK
  <2>4. CASE Postpone
      BY <2>4, <1>1 DEF Postpone, Mark, TypeOK
  <2>5. ASSUME NEW answer \in Answers, HearSync(answer) PROVE SalesInv'
    <3>1. current \in Purchases
        BY <2>5 DEF HearSync, JournalInv, CurrentSyncing
    <3>2. /\ \A j \in Keys : sales'[j] <= 1 /\ sales'[j] >= sales[j]
          /\ answer = "ok" => sales'[Queued(current)] > 0
        BY <2>5, <3>1, ServeOnce DEF HearSync
    <3>3. answer # "ok" /\ answer # "server" => Outcome(answer) # "synced"
        BY DEF Answers, Outcome
    <3>4. \A p \in Purchases : entry'[p] = "synced" =>
              entry[p] = "synced" \/ (p = current /\ answer = "ok")
        BY <2>5, <3>1, <3>3 DEF HearSync, Mark, TypeOK
    <3>5. \A p \in Purchases :
              entry'[p] = "synced" => entry[p] = "synced" \/ sales'[Queued(p)] > 0
        BY <3>2, <3>4
    <3> QED
        BY <3>2, <3>5, SalesGrow
  <2> QED
      BY <1>2, <2>1, <2>2, <2>3, <2>4, <2>5 DEF EngineStep
<1>3. CASE Trigger \/ Reconnect \/ Disconnect \/ Restart
    BY <1>3, <1>1 DEF Trigger, Reconnect, Disconnect, Restart
<1>4. ASSUME NEW p \in Purchases, HandlerStep(p) PROVE SalesInv'
  <2>1. CASE Ask(p) \/ GiveUp(p)
      BY <2>1, <1>1 DEF Ask, GiveUp
  <2>2. CASE Queue(p)
      BY <2>2, <1>1 DEF Queue, Mark, TypeOK
  <2>3. ASSUME NEW answer \in Answers, Hear(p, answer) PROVE SalesInv'
    <3>1. \A j \in Keys : sales'[j] <= 1 /\ sales'[j] >= sales[j]
        BY <2>3, ServeOnce DEF Hear
    <3>2. entry' = entry
        BY <2>3 DEF Hear
    <3> QED
        BY <3>1, <3>2, SalesGrow
  <2> QED
      BY <1>4, <2>1, <2>2, <2>3 DEF HandlerStep
<1>5. ASSUME NEW k \in Keys, NEW answer \in Answers, ServeLate(k, answer) PROVE SalesInv'
  <2>1. \A j \in Keys : sales'[j] <= 1 /\ sales'[j] >= sales[j]
      BY <1>5, ServeOnce DEF ServeLate
  <2>2. entry' = entry
      BY <1>5 DEF ServeLate
  <2> QED
      BY <2>1, <2>2, SalesGrow
<1>6. CASE UNCHANGED vars
    BY <1>6, <1>1 DEF vars
<1> QED
    BY <1>2, <1>3, <1>4, <1>5, <1>6 DEF Next, NetworkStep

LEMMA SalesInvariant == Spec => []SalesInv
<1>1. Init => SalesInv
    BY DEF Init, SalesInv, SyncedIsSold
<1>2. JournalInv /\ SalesInv /\ [Next]_vars => SalesInv'
    BY SalesStep
<1> QED
    BY <1>1, <1>2, Journal, PTL DEF Spec

(***************************************************************************)
(* A journaled event never has two sales, under any loss, delay, retry and *)
(* restart (the keys of syncEngine's requests).                            *)
(***************************************************************************)
THEOREM EventsSound == Spec => []OneSalePerEvent
<1>1. SalesInv => OneSalePerEvent
    BY KeysType DEF SalesInv, OneSalePerEvent
<1> QED
    BY <1>1, SalesInvariant, PTL

(***************************************************************************)
(* An event that the journal calls synced has its sale: no outcome is      *)
(* recorded before the backend has it, and none is rolled back.            *)
(***************************************************************************)
THEOREM SyncedSound == Spec => []SyncedIsSold
<1>1. SalesInv => SyncedIsSold
    BY DEF SalesInv
<1> QED
    BY <1>1, SalesInvariant, PTL

HIDE PdvAssumption

-----------------------------------------------------------------------------
(***************************************************************************)
(* The journal's migration.                                                *)
(***************************************************************************)
USE MigrationAssumption DEF NoPhase, BackupCreated, SchemaCreated, RowsCopied,
                            Validated, Activated, Phases

LEMMA ProjectedType == \A r \in Rows : Projected(r) \in RowProjections \ {"none"}
BY DEF Projected, RowProjections, RowType

LEMMA StoreType ==
    ASSUME NEW old \in [Rows -> RowProjections]
    PROVE  Store(old) \in [Rows -> RowProjections]
BY ProjectedType DEF Store

LEMMA GotoType ==
    ASSUME MigrationTypeOK, NEW p \in Processes, NEW place \in ProcessPlaces, Goto(p, place)
    PROVE  pc' \in [Processes -> ProcessPlaces]
BY DEF MigrationTypeOK, Goto

LEMMA SeeType ==
    ASSUME MigrationTypeOK, NEW p \in Processes, NEW ph \in Phases, See(p, ph)
    PROVE  seen' \in [Processes -> Phases]
BY DEF MigrationTypeOK, See

LEMMA AdvanceType ==
    ASSUME MigrationTypeOK, NEW p \in Processes, NEW ph \in Phases, Advance(p, ph)
    PROVE  phase' \in Phases /\ seen' \in [Processes -> Phases]
<1>1. phase' \in Phases
    BY DEF MigrationTypeOK, Advance
<1> QED
    BY <1>1, SeeType DEF Advance

\* The control of a process: where it goes and what it has read.
Control ==
    pc \in [Processes -> ProcessPlaces] /\ seen \in [Processes -> Phases] /\ phase \in Phases

LEMMA ControlStep ==
    ASSUME MigrationTypeOK, NEW p \in Processes, Start(p) \/ Work(p) \/ Quit(p) \/ Crash(p)
    PROVE  Control'
<1> USE DEF Control
<1>1. CASE Start(p)
  <2>1. (IF "lock" \in files THEN "shut out" ELSE "read") \in ProcessPlaces
      BY DEF ProcessPlaces, Migrating, Leaving
  <2>2. pc' \in [Processes -> ProcessPlaces]
      BY <1>1, <2>1, GotoType DEF Start
  <2>3. seen' \in [Processes -> Phases]
    <3>1. See(p, NoPhase)
        BY <1>1, Zenon DEF Start
    <3> QED
        BY <3>1 DEF See, MigrationTypeOK
  <2> QED
      BY <1>1, <2>2, <2>3 DEF Start, MigrationTypeOK
<1>2. CASE ReadPhase(p)
  <2>1. Resume \in ProcessPlaces
      BY DEF Resume, ProcessPlaces, Migrating, Leaving
  <2> QED
      BY <1>2, <2>1, GotoType, SeeType DEF ReadPhase, MigrationTypeOK
<1>3. CASE BeginSnapshot(p) \/ SnapshotBusy(p) \/ EndSnapshot(p)
  <2>1. {"freezing", "failing", "backup"} \subseteq ProcessPlaces
      BY DEF ProcessPlaces, Migrating, Leaving
  <2> QED
      BY <1>3, <2>1, GotoType DEF BeginSnapshot, SnapshotBusy, EndSnapshot, MigrationTypeOK
<1>4. CASE MarkBackup(p)
  <2>1. "prepare" \in ProcessPlaces
      BY DEF ProcessPlaces, Migrating
  <2> QED
      BY <1>4, <2>1, GotoType, SeeType DEF MarkBackup, MigrationTypeOK
<1>5. CASE Prepare(p)
  <2>1. {"copy", "failing"} \subseteq ProcessPlaces
      BY DEF ProcessPlaces, Migrating, Leaving
  <2> QED
      BY <1>5, <2>1, GotoType, AdvanceType DEF Prepare, MigrationTypeOK
<1>6. CASE Copy(p)
  <2>1. "rows" \in ProcessPlaces
      BY DEF ProcessPlaces, Migrating
  <2> QED
      BY <1>6, <2>1, GotoType, SeeType DEF Copy, MigrationTypeOK
<1>7. CASE MarkRows(p)
  <2>1. (IF \A r \in journal : Copied(r) THEN "validate" ELSE "failing") \in ProcessPlaces
      BY DEF ProcessPlaces, Migrating, Leaving
  <2> QED
      BY <1>7, <2>1, GotoType, AdvanceType DEF MarkRows
<1>8. CASE MarkValidated(p) \/ MarkActivated(p)
  <2>1. {"activate", "done"} \subseteq ProcessPlaces
      BY DEF ProcessPlaces, Migrating, Leaving
  <2> QED
      BY <1>8, <2>1, GotoType, AdvanceType DEF MarkValidated, MarkActivated
<1>9. CASE Release(p)
  <2>1. (IF pc[p] = "done" THEN "running" ELSE "failed") \in ProcessPlaces
      BY DEF ProcessPlaces
  <2> QED
      BY <1>9, <2>1, GotoType DEF Release, MigrationTypeOK
<1>10. CASE Quit(p) \/ Crash(p)
  <2>1. "down" \in ProcessPlaces
      BY DEF ProcessPlaces
  <2> QED
      BY <1>10, <2>1, GotoType DEF Quit, Crash, MigrationTypeOK
<1>11. CASE CopyFails(p)
  <2>1. "failing" \in ProcessPlaces
      BY DEF ProcessPlaces, Leaving
  <2> QED
      BY <1>11, <2>1, GotoType DEF CopyFails, MigrationTypeOK
<1> QED
    BY <1>1, <1>2, <1>3, <1>4, <1>5, <1>6, <1>7, <1>8, <1>9, <1>10, <1>11 DEF Work

\* Nothing is added to the legacy journal, and its file goes at most once.
LEMMA JournalFixed ==
    ASSUME [MigrationNext]_migrationVars
    PROVE  journal' = journal /\ (early' = early \/ RemoveLegacy)
<1>1. ASSUME NEW p \in Processes, Start(p) \/ Work(p) \/ Quit(p) \/ Crash(p)
      PROVE  journal' = journal /\ early' = early
    BY <1>1 DEF Work, Start, ReadPhase, BeginSnapshot, SnapshotBusy, EndSnapshot, MarkBackup, Prepare,
       Copy, CopyFails, MarkRows, MarkValidated, MarkActivated, Release, Quit, Crash
<1>2. ASSUME NEW p \in Processes, NEW r \in Rows, Synchronise(p, r)
      PROVE  journal' = journal /\ early' = early
    BY <1>2 DEF Synchronise
<1>3. CASE RemoveLegacy
    BY <1>3 DEF RemoveLegacy
<1>4. CASE UNCHANGED migrationVars
    BY <1>4 DEF migrationVars
<1> QED
    BY <1>1, <1>2, <1>3, <1>4 DEF MigrationNext

LEMMA MigrationTypeStep ==
    ASSUME MigrationTypeOK, [MigrationNext]_migrationVars
    PROVE  MigrationTypeOK'
<1>0. journal' \subseteq Rows /\ early' \in BOOLEAN
  <2>1. CASE RemoveLegacy
    <3>1. early' = (early \/ phase < RowsCopied)
        BY <2>1 DEF RemoveLegacy
    <3>2. early' \in BOOLEAN
        BY ONLY <3>1, Zenon
    <3> QED
        BY <3>2, JournalFixed DEF MigrationTypeOK
  <2> QED
      BY <2>1, JournalFixed DEF MigrationTypeOK
<1>1. ASSUME NEW p \in Processes, Start(p) \/ Work(p) \/ Quit(p) \/ Crash(p) PROVE MigrationTypeOK'
  <2>1. Control'
      BY <1>1, ControlStep
  <2>2. files' \subseteq {"legacy", "lock"} /\ snapshot' \in {"none", "partial", "whole"}
      BY <1>1 DEF Work, MigrationTypeOK, Start, ReadPhase, BeginSnapshot, SnapshotBusy, EndSnapshot,
         MarkBackup, Prepare, Copy, CopyFails, MarkRows, MarkValidated, MarkActivated, Release, Quit, Crash
  <2>3. proj' \in [Rows -> RowProjections]
      BY <1>1, StoreType DEF Work, MigrationTypeOK, Start, ReadPhase, BeginSnapshot, SnapshotBusy, EndSnapshot,
         MarkBackup, Prepare, Copy, CopyFails, MarkRows, MarkValidated, MarkActivated, Release, Quit, Crash
  <2>4. crashes' \in 0..MaxCrashes
    <3>1. CASE Crash(p)
        BY <3>1 DEF Crash, MigrationTypeOK
    <3>2. CASE ~Crash(p)
        BY <1>1, <3>2 DEF Work, MigrationTypeOK, Start, ReadPhase, BeginSnapshot, SnapshotBusy, EndSnapshot,
         MarkBackup, Prepare, Copy, CopyFails, MarkRows, MarkValidated, MarkActivated, Release, Quit
    <3> QED
        BY <3>1, <3>2
  <2> QED
      BY <1>0, <2>1, <2>2, <2>3, <2>4 DEF Control, MigrationTypeOK
<1>2. ASSUME NEW p \in Processes, NEW r \in Rows, Synchronise(p, r) PROVE MigrationTypeOK'
    BY <1>0, <1>2 DEF Synchronise, RowProjections, MigrationTypeOK
<1>3. CASE RemoveLegacy
    BY <1>0, <1>3 DEF RemoveLegacy, MigrationTypeOK
<1>4. CASE UNCHANGED migrationVars
    BY <1>4 DEF migrationVars, MigrationTypeOK
<1> QED
    BY <1>1, <1>2, <1>3, <1>4 DEF MigrationNext

\* Every start, kill and second process leaves the migration well typed.
THEOREM MigrationTypeCorrect == MigrationSpec => []MigrationTypeOK
<1>1. ASSUME MigrationInit
      PROVE  MigrationTypeOK
  <2>1. files \subseteq {"legacy", "lock"} /\ journal \subseteq Rows /\ early \in BOOLEAN
      BY <1>1 DEF MigrationInit
  <2>2. pc \in [Processes -> ProcessPlaces] /\ proj \in [Rows -> RowProjections]
      BY <1>1 DEF MigrationInit, RowProjections, ProcessPlaces
  <2> QED
      BY <1>1, <2>1, <2>2 DEF MigrationInit, MigrationTypeOK
<1> QED
    BY <1>1, MigrationTypeStep, PTL DEF MigrationSpec

-----------------------------------------------------------------------------
(***************************************************************************)
(* What happens to one row in one step: it is copied once, and from then   *)
(* on only the synchronisation changes it, from pending to synced.         *)
(***************************************************************************)
RowStep(r) ==
    \/ proj'[r] = proj[r]
    \/ proj[r] = "none" /\ proj'[r] = Projected(r)
    \/ proj[r] = "pending" /\ proj'[r] = "synced"

LEMMA RowSteps ==
    ASSUME MigrationTypeOK, [MigrationNext]_migrationVars, NEW r \in Rows
    PROVE  RowStep(r)
<1> USE DEF MigrationTypeOK, RowStep
<1>1. ASSUME NEW p \in Processes, Work(p) PROVE RowStep(r)
  <2>1. CASE Copy(p)
      BY <2>1 DEF Copy, Store
  <2>2. CASE ~Copy(p)
      BY <1>1, <2>2 DEF Work, ReadPhase, BeginSnapshot, SnapshotBusy, EndSnapshot, MarkBackup,
         Prepare, CopyFails, MarkRows, MarkValidated, MarkActivated, Release
  <2> QED
      BY <2>1, <2>2
<1>2. ASSUME NEW p \in Processes, Start(p) \/ Quit(p) \/ Crash(p) PROVE RowStep(r)
    BY <1>2 DEF Start, Quit, Crash
<1>3. ASSUME NEW p \in Processes, NEW s \in Rows, Synchronise(p, s) PROVE RowStep(r)
    BY <1>3 DEF Synchronise
<1>4. CASE RemoveLegacy \/ UNCHANGED migrationVars
    BY <1>4 DEF RemoveLegacy, migrationVars
<1> QED
    BY <1>1, <1>2, <1>3, <1>4 DEF MigrationNext

\* A migration that runs again never takes back what was synchronised, nor
\* drops a copied row.
THEOREM NothingTakenBack == MigrationSpec => SyncedStays
<1> DEFINE Stays == \A r \in Rows : /\ proj[r] = "synced" => proj'[r] = "synced"
                                    /\ Copied(r) => proj'[r] # "none"
<1>1. MigrationTypeOK /\ [MigrationNext]_migrationVars => Stays
    BY RowSteps, ProjectedType DEF RowStep, Copied
<1> QED
    BY <1>1, MigrationTypeCorrect, PTL DEF MigrationSpec, SyncedStays

\* Rows that the legacy journal had settled, and rows without an identity, are
\* never offered to the synchronisation.
THEOREM SetAsideStays == MigrationSpec => []SetAside
<1>1. MigrationInit => SetAside
    BY DEF MigrationInit, SetAside
<1>2. MigrationTypeOK /\ SetAside /\ [MigrationNext]_migrationVars => SetAside'
  <2> SUFFICES ASSUME MigrationTypeOK, SetAside, [MigrationNext]_migrationVars, NEW r \in Rows,
                      r.status \in {"synced", "conflict"} \/ ~r.sale \/ ~r.identified
               PROVE  proj'[r] # "pending"
      BY DEF SetAside
  <2>1. proj[r] # "pending"
      BY DEF SetAside
  <2>2. Projected(r) # "pending"
      BY DEF Projected
  <2> QED
      BY <2>1, <2>2, RowSteps DEF RowStep
<1> QED
    BY <1>1, <1>2, MigrationTypeCorrect, PTL DEF MigrationSpec

-----------------------------------------------------------------------------
(***************************************************************************)
(* The inductive invariant of completeness.  The phase a process has read  *)
(* may be stale, and the recorded phase may go back; what holds is that    *)
(* nobody records, or is about to record, a phase past the copy unless the *)
(* rows are there, and that a legacy file which is gone before they are    *)
(* was taken away early.                                                   *)
(***************************************************************************)
AllThere == \A r \in journal : Copied(r)

PastCopy(p) == pc[p] \in {"rows", "validate", "activate"}

CompleteInv ==
    /\ phase >= RowsCopied => early \/ AllThere
    /\ \A p \in Processes : PastCopy(p) => AllThere
    /\ \A p \in Processes : pc[p] \in {"done", "running"} => early \/ AllThere
    /\ ~Legacy => early \/ AllThere

LEMMA AllThereStays ==
    ASSUME MigrationTypeOK, [MigrationNext]_migrationVars, AllThere
    PROVE  AllThere'
<1>1. journal' = journal /\ journal \subseteq Rows
    BY JournalFixed DEF MigrationTypeOK
<1>2. \A r \in journal : proj'[r] # "none"
    BY <1>1, RowSteps, ProjectedType DEF RowStep, AllThere, Copied
<1> QED
    BY <1>1, <1>2 DEF AllThere, Copied

LEMMA CompleteStep ==
    ASSUME MigrationTypeOK, CompleteInv, [MigrationNext]_migrationVars
    PROVE  CompleteInv'
<1> USE DEF MigrationTypeOK, CompleteInv, PastCopy, Legacy, Goto, See, Advance
<1>0. AllThere => AllThere'
    BY AllThereStays
<1>1. ASSUME NEW p \in Processes, Work(p) PROVE CompleteInv'
  <2>1. CASE ReadPhase(p)
    <3>1. Resume \in {"done", "prepare", "freeze", "failing"}
        BY DEF Resume
    <3>2. Resume = "done" => early \/ AllThere
        BY DEF Resume, Finished, Orphan
    <3>3. phase' >= RowsCopied => early \/ AllThere
        BY <2>1 DEF ReadPhase, Orphan
    <3> QED
        BY <2>1, <1>0, <3>1, <3>2, <3>3 DEF ReadPhase
  <2>2. CASE BeginSnapshot(p) \/ SnapshotBusy(p) \/ EndSnapshot(p) \/ MarkBackup(p)
      BY <2>2, <1>0 DEF BeginSnapshot, SnapshotBusy, EndSnapshot, MarkBackup
  <2>3. CASE Prepare(p)
      BY <2>3, <1>0 DEF Prepare
  <2>4. CASE Copy(p)
    <3>1. AllThere'
        BY <2>4, ProjectedType DEF Copy, Store, AllThere, Copied
    <3> QED
        BY <2>4, <3>1 DEF Copy
  <2>5. CASE MarkRows(p) \/ MarkValidated(p) \/ MarkActivated(p)
      BY <2>5, <1>0 DEF MarkRows, MarkValidated, MarkActivated
  <2>6. CASE CopyFails(p)
      BY <2>6, <1>0 DEF CopyFails
  <2>7. CASE Release(p)
      BY <2>7, <1>0 DEF Release, Leaving
  <2> QED
      BY <1>1, <2>1, <2>2, <2>3, <2>4, <2>5, <2>6, <2>7 DEF Work
<1>2. ASSUME NEW p \in Processes, Start(p) \/ Quit(p) \/ Crash(p) PROVE CompleteInv'
  <2>1. CASE Start(p)
      BY <2>1, <1>0 DEF Start
  <2>2. CASE Quit(p)
      BY <2>2, <1>0 DEF Quit
  <2>3. CASE Crash(p)
      BY <2>3, <1>0 DEF Crash
  <2> QED
      BY <1>2, <2>1, <2>2, <2>3
<1>3. ASSUME NEW p \in Processes, NEW r \in Rows, Synchronise(p, r) PROVE CompleteInv'
    BY <1>3, <1>0 DEF Synchronise
<1>4. CASE RemoveLegacy
  <2>1. early' = (early \/ phase < RowsCopied)
      BY <1>4 DEF RemoveLegacy
  <2>2. early \/ phase < RowsCopied => early'
      BY <2>1, Zenon
  <2>3. early' \/ AllThere
      BY <2>2
  <2>4. UNCHANGED <<journal, snapshot, phase, proj, pc, seen>>
      BY <1>4 DEF RemoveLegacy
  <2> QED
      BY <1>0, <2>2, <2>3, <2>4
<1>5. CASE UNCHANGED migrationVars
    BY <1>5, <1>0 DEF migrationVars
<1> QED
    BY <1>1, <1>2, <1>3, <1>4, <1>5 DEF MigrationNext

\* An activated journal, and the one an application works with, has every row
\* of the legacy journal, unless the legacy file went before they were copied.
THEOREM CompleteWhenActive == MigrationSpec => []NothingLost
<1>1. MigrationInit => CompleteInv
    BY DEF MigrationInit, CompleteInv, PastCopy, Legacy, AllThere
<1>2. MigrationTypeOK /\ CompleteInv /\ [MigrationNext]_migrationVars => CompleteInv'
    BY CompleteStep
<1>3. MigrationTypeOK /\ CompleteInv => NothingLost
    BY DEF MigrationTypeOK, CompleteInv, NothingLost, AllThere
<1> QED
    BY <1>1, <1>2, <1>3, MigrationTypeCorrect, PTL DEF MigrationSpec

HIDE MigrationAssumption DEF NoPhase, BackupCreated, SchemaCreated, RowsCopied,
                             Validated, Activated, Phases

-----------------------------------------------------------------------------
(***************************************************************************)
(* The judgement of a sale without a connection.                           *)
(***************************************************************************)
USE DEF Times, Never

-----------------------------------------------------------------------------
(* Types.                                                                  *)

LEMMA OfType ==
    ASSUME PolicyTypeOK, NEW a \in answers
    PROVE  Of(a) \in Devices \cup {NoDevice}
BY DEF PolicyTypeOK, Of, AnswerType

LEMMA AnchoredType ==
    ASSUME PolicyTypeOK, NEW a \in answers, NEW d \in Devices
    PROVE  Anchored(a, d) \in AnchorType
BY ContingencyAssumption DEF PolicyTypeOK, Anchored, AnchorType, AnswerType

LEMMA TotalType ==
    ASSUME PolicyTypeOK, NEW d \in Discounts, cached # NoPrice
    PROVE  Total(d) \in Nat
<1>1. cached \in CachedType
    BY DEF PolicyTypeOK
<1>2. cached.price \in PriceType
    BY <1>1, ContingencyAssumption DEF CachedType
<1>3. cached.price.amount \in Nat
    BY <1>2 DEF PriceType
<1> QED
    BY <1>3, ContingencyAssumption DEF Total

\* The monotonic clock never runs ahead of the true time.
Clocks == mono <= now

LEMMA RequestType ==
    ASSUME PolicyTypeOK, Request
    PROVE  answers' \subseteq AnswerType
<1> PICK n \in {login, NoDevice}, o \in Told :
        answers' = answers \cup {[at |-> now, sent |-> mono, named |-> n,
                                  device |-> Standing(login), operator |-> o]}
    BY Zenon DEF Request
<1>1. o \in Standings /\ Standing(login) \in {"active", "revoked"}
    BY DEF Standing, Told, Standings
<1>2. [at |-> now, sent |-> mono, named |-> n, device |-> Standing(login), operator |-> o]
        \in AnswerType
    BY <1>1 DEF PolicyTypeOK, AnswerType, Standings
<1> QED
    BY <1>2 DEF PolicyTypeOK

LEMMA PolicyTypeStep ==
    ASSUME PolicyTypeOK, Clocks, [PolicyNext]_policyVars
    PROVE  PolicyTypeOK' /\ Clocks'
<1> USE ContingencyAssumption DEF Clocks
<1>1. CASE Tick
    BY <1>1 DEF Tick, PolicyTypeOK
<1>2. CASE Sleep
    BY <1>2 DEF Sleep, PolicyTypeOK
<1>3. CASE SetClock
    BY <1>3 DEF SetClock, PolicyTypeOK
<1>4. CASE RestartClient
    BY <1>4 DEF RestartClient, PolicyTypeOK
<1>5. ASSUME NEW s \in Subjects, Revoke(s) PROVE PolicyTypeOK' /\ Clocks'
    BY <1>5 DEF Revoke, PolicyTypeOK
<1>6. ASSUME NEW d \in Devices, Login(d) PROVE PolicyTypeOK' /\ Clocks'
    BY <1>6 DEF Login, PolicyTypeOK
<1>7. CASE Logout
    BY <1>7 DEF Logout, PolicyTypeOK
<1>8. CASE Request
  <2>1. answers' \subseteq AnswerType
      BY <1>8, RequestType
  <2> QED
      BY <1>8, <2>1 DEF Request, PolicyTypeOK
<1>9. CASE Refresh
  <2>1. \A p \in Prices : [fetched |-> now, ahead |-> offset, price |-> p] \in CachedType
      BY DEF PolicyTypeOK, CachedType
  <2>2. cached' \in {NoPrice} \cup
            {[fetched |-> now, ahead |-> offset, price |-> p] : p \in Prices}
      BY <1>9, Zenon DEF Refresh
  <2>3. cached' \in CachedType \cup {NoPrice}
      BY <2>1, <2>2
  <2> QED
      BY <1>9, <2>3 DEF Refresh, PolicyTypeOK
<1>10. ASSUME NEW a \in answers, HearAnswer(a) PROVE PolicyTypeOK' /\ Clocks'
  <2>1. anchor' \in AnchorType \cup {NoAnchor}
      BY <1>10, OfType, AnchoredType DEF HearAnswer, PolicyTypeOK
  <2> QED
      BY <1>10, <2>1 DEF HearAnswer, PolicyTypeOK
<1>11. ASSUME NEW a \in answers, Lose(a) PROVE PolicyTypeOK' /\ Clocks'
    BY <1>11 DEF Lose, PolicyTypeOK
<1>12. ASSUME NEW p \in Payments, NEW d \in Discounts, Sell(p, d) PROVE PolicyTypeOK' /\ Clocks'
  <2>1. cached \in CachedType
      BY <1>12 DEF Sell, Priced, PolicyTypeOK
  <2>2. Total(d) \in Nat
      BY <1>12, TotalType DEF Sell, Priced
  <2>3. sale' \in SaleType
      BY <1>12, <2>1, <2>2 DEF Sell, PolicyTypeOK, SaleType, CachedType
  <2> QED
      BY <1>12, <2>3 DEF Sell, PolicyTypeOK
<1>13. CASE UNCHANGED policyVars
    BY <1>13 DEF policyVars, PolicyTypeOK
<1> QED
    BY <1>1, <1>2, <1>3, <1>4, <1>5, <1>6, <1>7, <1>8, <1>9, <1>10, <1>11, <1>12, <1>13
       DEF PolicyNext

LEMMA PolicyTypeInit == PolicyInit => PolicyTypeOK /\ Clocks
BY ContingencyAssumption DEF PolicyInit, PolicyTypeOK, Clocks, Subjects

(* Under any clock, restart, login, revocation and answer, the state of    *)
(* the contingency policy is well typed (contingencyPolicy.ts).            *)
THEOREM PolicyTypeCorrect == PolicySpec => []PolicyTypeOK
<1>1. PolicyInit => PolicyTypeOK /\ Clocks
    BY PolicyTypeInit
<1>2. PolicyTypeOK /\ Clocks /\ [PolicyNext]_policyVars => PolicyTypeOK' /\ Clocks'
    BY PolicyTypeStep
<1> QED
    BY <1>1, <1>2, PTL DEF PolicySpec

-----------------------------------------------------------------------------
(* The numbers, so that arithmetic needs no types.                         *)

LEMMA Constants ==
    /\ NoDevice \notin Devices
    /\ Window \in Nat /\ MaxDelay \in Nat /\ Horizon \in Nat
BY ContingencyAssumption

LEMMA PolicyConstants == PriceAge \in Nat /\ Zone \in Nat
BY ContingencyAssumption

LEMMA Numbers ==
    ASSUME PolicyTypeOK
    PROVE  /\ now \in Nat /\ mono \in Nat /\ slept \in Nat /\ boot \in Nat
           /\ now <= Horizon
           /\ login \in Devices \cup {NoDevice}
           /\ \A s \in Subjects : revoked[s] \in Nat
BY Constants, ContingencyAssumption DEF PolicyTypeOK

LEMMA AnswerNumbers ==
    ASSUME PolicyTypeOK, NEW a \in answers
    PROVE  /\ a.at \in Nat /\ a.sent \in Nat
           /\ a.named \in Devices \cup {NoDevice}
BY DEF PolicyTypeOK, AnswerType

LEMMA AnchorNumbers ==
    ASSUME PolicyTypeOK, anchor # NoAnchor
    PROVE  /\ anchor.server \in Nat /\ anchor.mono \in Nat /\ anchor.boot \in Nat
           /\ anchor.of \in Devices
<1>1. anchor \in AnchorType
    BY DEF PolicyTypeOK
<1> QED
    BY <1>1, ContingencyAssumption DEF AnchorType

LEMMA SaleNumbers ==
    ASSUME PolicyTypeOK, sale # NoSale
    PROVE  sale.at \in Nat /\ sale.of \in Devices
<1>1. sale \in SaleType
    BY DEF PolicyTypeOK
<1> QED
    BY <1>1 DEF SaleType

-----------------------------------------------------------------------------
(* What answers and anchors are worth.                                     *)

\* An answer on its way is not older than the client's clock says, but for
\* the time the machine slept; a standing it tells was true.
AnswersSound ==
    \A a \in answers :
        /\ a.at <= now /\ a.sent <= mono
        /\ now <= a.at + (mono - a.sent) + slept
        /\ a.device = "active" /\ Of(a) # NoDevice => a.at <= revoked[Of(a)]
        /\ a.operator = "active" => a.at <= revoked["operator"]

\* The anchor of this process tells the time up to the lag.
AnchorTimely ==
    anchor # NoAnchor =>
        /\ anchor.boot <= boot
        /\ anchor.boot = boot =>
              anchor.mono <= mono /\ now <= ProjectedTime + Lag

\* Whom the anchor calls active was not revoked before the server's time.
AnchorTrue ==
    anchor # NoAnchor =>
        /\ anchor.server <= now
        /\ anchor.device = "active" => anchor.server <= revoked[anchor.of]
        /\ anchor.operator = "active" => anchor.server <= revoked["operator"]

\* A queued sale is not in the future.
SalePast == sale # NoSale => sale.at <= now

PolicyInv ==
    /\ PolicyTypeOK /\ Clocks
    /\ AnswersSound /\ AnchorTimely /\ AnchorTrue /\ SalePast
    /\ RevocationBites

LEMMA RequestSound ==
    ASSUME PolicyInv, Request
    PROVE  AnswersSound'
<1> USE Constants, Numbers, AnswerNumbers DEF PolicyInv, AnswersSound, Of, Subjects, Told
<1> PICK n \in {login, NoDevice}, o \in Told :
        answers' = answers \cup {[at |-> now, sent |-> mono, named |-> n,
                                  device |-> Standing(login), operator |-> o]}
    BY Zenon DEF Request
<1> DEFINE b == [at |-> now, sent |-> mono, named |-> n,
                 device |-> Standing(login), operator |-> o]
<1>1. UNCHANGED <<now, mono, slept, login, revoked>> /\ login \in Devices
    BY DEF Request
<1>2. Of(b) = login
    BY <1>1
<1>3. b.device = "active" => revoked[login] = Never
    BY DEF Standing
<1>4. b.operator = "active" => revoked["operator"] = Never
    BY DEF Standing
<1>5. ASSUME NEW a \in answers'
      PROVE  /\ a.at <= now /\ a.sent <= mono
             /\ now <= a.at + (mono - a.sent) + slept
             /\ a.device = "active" /\ Of(a) # NoDevice => a.at <= revoked[Of(a)]
             /\ a.operator = "active" => a.at <= revoked["operator"]
  <2>1. CASE a \in answers
      BY <2>1
  <2>2. CASE a = b
      BY <1>1, <1>2, <1>3, <1>4, <2>2
  <2> QED
      BY <2>1, <2>2
<1> QED
    BY <1>1, <1>5

LEMMA AnswersStep ==
    ASSUME PolicyInv, [PolicyNext]_policyVars
    PROVE  AnswersSound'
<1> USE Constants, Numbers, AnswerNumbers DEF PolicyInv, AnswersSound, Of, Subjects
<1>0. \A a \in answers : a.at \in Nat /\ a.sent \in Nat
    OBVIOUS
<1>1. CASE Tick
  <2>1. /\ now' = now + 1 /\ mono' = mono + 1
        /\ UNCHANGED <<slept, answers, login, revoked>>
      BY <1>1 DEF Tick
  <2>2. ASSUME NEW a \in answers
        PROVE  /\ a.at <= now' /\ a.sent <= mono'
               /\ now' <= a.at + (mono' - a.sent) + slept'
      BY <1>0, <2>1
  <2> QED
      BY <2>1, <2>2
<1>2. CASE Sleep
  <2>1. /\ now' = now + 1 /\ slept' = slept + 1
        /\ UNCHANGED <<mono, answers, login, revoked>>
      BY <1>2 DEF Sleep
  <2>2. ASSUME NEW a \in answers
        PROVE  /\ a.at <= now' /\ a.sent <= mono'
               /\ now' <= a.at + (mono' - a.sent) + slept'
      BY <1>0, <2>1
  <2> QED
      BY <2>1, <2>2
<1>3. CASE SetClock
    BY <1>3 DEF SetClock
<1>4. CASE RestartClient
    BY <1>4 DEF RestartClient
<1>5. ASSUME NEW s \in Subjects, Revoke(s) PROVE AnswersSound'
    BY <1>5 DEF Revoke
<1>6. ASSUME NEW d \in Devices, Login(d) PROVE AnswersSound'
  <2>1. /\ login' = d /\ revoked[d] = Never
        /\ UNCHANGED <<now, mono, slept, answers, revoked>>
      BY <1>6 DEF Login
  <2>2. \A a \in answers : a.named # NoDevice => Of(a)' = Of(a)
      BY <2>1
  <2>3. \A a \in answers : a.named = NoDevice => Of(a)' = d
      BY <2>1
  <2> QED
      BY <1>0, <2>1, <2>2, <2>3
<1>7. CASE Logout
    BY <1>7 DEF Logout
<1>8. CASE Request
    BY <1>8, RequestSound
<1>9. CASE Refresh
    BY <1>9 DEF Refresh
<1>10. ASSUME NEW a \in answers, HearAnswer(a) PROVE AnswersSound'
    BY <1>10 DEF HearAnswer
<1>11. ASSUME NEW a \in answers, Lose(a) PROVE AnswersSound'
    BY <1>11 DEF Lose
<1>12. ASSUME NEW p \in Payments, NEW d \in Discounts, Sell(p, d) PROVE AnswersSound'
    BY <1>12 DEF Sell
<1>13. CASE UNCHANGED policyVars
    BY <1>13 DEF policyVars
<1> QED
    BY <1>1, <1>2, <1>3, <1>4, <1>5, <1>6, <1>7, <1>8, <1>9, <1>10, <1>11, <1>12, <1>13
       DEF PolicyNext

LEMMA HearStep ==
    ASSUME PolicyInv, NEW a \in answers, HearAnswer(a)
    PROVE  AnchorTimely' /\ AnchorTrue'
<1> USE Constants, Numbers, AnswerNumbers DEF PolicyInv
<1>1. UNCHANGED <<now, mono, slept, boot, revoked>>
    BY DEF HearAnswer
<1>2. CASE Of(a) = NoDevice
    BY <1>1, <1>2 DEF HearAnswer, AnchorTimely, AnchorTrue, ProjectedTime, Elapsed, Lag
<1>3. CASE Of(a) # NoDevice
  <2>1. anchor' = Anchored(a, Of(a)) /\ mono - a.sent <= MaxDelay
      BY <1>3 DEF HearAnswer
  <2>2. now <= a.at + Lag
    <3>1. now <= a.at + (mono - a.sent) + slept
        BY DEF AnswersSound
    <3> QED
        BY <2>1, <3>1 DEF Lag
  <2>3. AnchorTimely'
      BY <1>1, <2>1, <2>2 DEF AnchorTimely, Anchored, ProjectedTime, Elapsed, Lag
  <2>4. AnchorTrue'
      BY <1>1, <1>3, <2>1 DEF AnchorTrue, Anchored, AnswersSound
  <2> QED
      BY <2>3, <2>4
<1> QED
    BY <1>2, <1>3

LEMMA AnchorStep ==
    ASSUME PolicyInv, [PolicyNext]_policyVars
    PROVE  AnchorTimely' /\ AnchorTrue' /\ SalePast'
<1> USE Constants, Numbers, AnchorNumbers, SaleNumbers
        DEF PolicyInv, AnchorTimely, AnchorTrue, SalePast, Subjects, ProjectedTime, Elapsed, Lag
<1>1. CASE Tick
  <2>1. /\ now' = now + 1 /\ mono' = mono + 1
        /\ UNCHANGED <<slept, boot, anchor, revoked, sale>>
      BY <1>1 DEF Tick
  <2>2. AnchorTimely' /\ AnchorTrue'
      BY <2>1
  <2>3. SalePast'
      BY <2>1
  <2> QED
      BY <2>2, <2>3
<1>2. CASE Sleep
  <2>1. /\ now' = now + 1 /\ slept' = slept + 1
        /\ UNCHANGED <<mono, boot, anchor, revoked, sale>>
      BY <1>2 DEF Sleep
  <2>2. AnchorTimely' /\ AnchorTrue'
      BY <2>1
  <2>3. SalePast'
      BY <2>1
  <2> QED
      BY <2>2, <2>3
<1>3. CASE SetClock
    BY <1>3 DEF SetClock
<1>4. CASE RestartClient
  <2>1. boot' = boot + 1 /\ UNCHANGED <<now, anchor, revoked, sale>>
      BY <1>4 DEF RestartClient
  <2>2. anchor # NoAnchor => anchor.boot \in Int /\ anchor.boot <= boot
      OBVIOUS
  <2> QED
      BY <2>1, <2>2
<1>5. ASSUME NEW s \in Subjects, Revoke(s) PROVE AnchorTimely' /\ AnchorTrue' /\ SalePast'
  <2>1. anchor # NoAnchor => anchor.server <= now
      OBVIOUS
  <2> QED
      BY <1>5, <2>1 DEF Revoke
<1>6. ASSUME NEW d \in Devices, Login(d) PROVE AnchorTimely' /\ AnchorTrue' /\ SalePast'
    BY <1>6 DEF Login
<1>7. CASE Logout
    BY <1>7 DEF Logout
<1>8. CASE Request
    BY <1>8 DEF Request
<1>9. CASE Refresh
    BY <1>9 DEF Refresh
<1>10. ASSUME NEW a \in answers, HearAnswer(a) PROVE AnchorTimely' /\ AnchorTrue' /\ SalePast'
    BY <1>10, HearStep DEF HearAnswer
<1>11. ASSUME NEW a \in answers, Lose(a) PROVE AnchorTimely' /\ AnchorTrue' /\ SalePast'
    BY <1>11 DEF Lose
<1>12. ASSUME NEW p \in Payments, NEW d \in Discounts, Sell(p, d)
       PROVE  AnchorTimely' /\ AnchorTrue' /\ SalePast'
    BY <1>12 DEF Sell
<1>13. CASE UNCHANGED policyVars
    BY <1>13 DEF policyVars
<1> QED
    BY <1>1, <1>2, <1>3, <1>4, <1>5, <1>6, <1>7, <1>8, <1>9, <1>10, <1>11, <1>12, <1>13
       DEF PolicyNext

(* A sale is judged by an anchor that lags by no more than the time limit  *)
(* of a request and the sleep of the machine.                              *)
LEMMA SellSound ==
    ASSUME PolicyInv, NEW p \in Payments, NEW d \in Discounts, Sell(p, d)
    PROVE  RevocationBites'
<1> USE Constants, Numbers, AnchorNumbers DEF PolicyInv, Subjects
<1>1. anchor # NoAnchor /\ Timely /\ Trusted
    BY DEF Sell
<1>2. now <= anchor.server + Window + Lag
    BY <1>1 DEF Timely, AnchorTimely, ProjectedTime, Elapsed, Lag
<1>3. anchor.server <= revoked[login] /\ anchor.server <= revoked["operator"]
    BY <1>1 DEF Trusted, AnchorTrue
<1>4. \A s \in {login, "operator"} : now <= revoked[s] + Window + Lag
    BY <1>1, <1>2, <1>3 DEF Sell, Lag
<1>5. sale'.at = now /\ sale'.of = login /\ UNCHANGED <<revoked, slept>>
    BY DEF Sell
<1> QED
    BY <1>4, <1>5 DEF RevocationBites, Lag

LEMMA RevocationStep ==
    ASSUME PolicyInv, [PolicyNext]_policyVars
    PROVE  RevocationBites'
<1> USE Constants, Numbers, SaleNumbers DEF PolicyInv, RevocationBites, Lag, Subjects
<1>1. CASE Tick
    BY <1>1 DEF Tick
<1>2. CASE Sleep
    BY <1>2 DEF Sleep
<1>3. CASE SetClock
    BY <1>3 DEF SetClock
<1>4. CASE RestartClient
    BY <1>4 DEF RestartClient
<1>5. ASSUME NEW s \in Subjects, Revoke(s) PROVE RevocationBites'
    BY <1>5 DEF Revoke, SalePast
<1>6. ASSUME NEW d \in Devices, Login(d) PROVE RevocationBites'
    BY <1>6 DEF Login
<1>7. CASE Logout
    BY <1>7 DEF Logout
<1>8. CASE Request
    BY <1>8 DEF Request
<1>9. CASE Refresh
    BY <1>9 DEF Refresh
<1>10. ASSUME NEW a \in answers, HearAnswer(a) PROVE RevocationBites'
    BY <1>10 DEF HearAnswer
<1>11. ASSUME NEW a \in answers, Lose(a) PROVE RevocationBites'
    BY <1>11 DEF Lose
<1>12. ASSUME NEW p \in Payments, NEW d \in Discounts, Sell(p, d) PROVE RevocationBites'
    BY <1>12, SellSound
<1>13. CASE UNCHANGED policyVars
    BY <1>13 DEF policyVars
<1> QED
    BY <1>1, <1>2, <1>3, <1>4, <1>5, <1>6, <1>7, <1>8, <1>9, <1>10, <1>11, <1>12, <1>13
       DEF PolicyNext

LEMMA PolicyInvInit == PolicyInit => PolicyInv
<1>1. PolicyInit => PolicyTypeOK /\ Clocks
    BY PolicyTypeInit
<1> QED
    BY <1>1 DEF PolicyInv, PolicyInit, AnswersSound, AnchorTimely, AnchorTrue, SalePast,
                RevocationBites

LEMMA PolicyInvStep ==
    ASSUME PolicyInv, [PolicyNext]_policyVars
    PROVE  PolicyInv'
<1>1. PolicyTypeOK' /\ Clocks'
    BY PolicyTypeStep DEF PolicyInv
<1> QED
    BY <1>1, AnswersStep, AnchorStep, RevocationStep DEF PolicyInv

(* Whatever the clocks, restarts, logins and answers do, a sale without a  *)
(* connection is not later than the window after the revocation of its     *)
(* device or operator, up to the lag (contingencyPolicy.                   *)
(* evaluateOfflineSale).                                                   *)
THEOREM RevocationSound == PolicySpec => []RevocationBites
<1>1. PolicyInv => RevocationBites
    BY DEF PolicyInv
<1> QED
    BY <1>1, PolicyInvInit, PolicyInvStep, PTL DEF PolicySpec

-----------------------------------------------------------------------------
(* Prices.                                                                 *)

LEMMA CachedNumbers ==
    ASSUME PolicyTypeOK, cached # NoPrice
    PROVE  /\ cached.fetched \in Nat /\ cached.ahead \in Int
           /\ cached.price.until \in Int
<1>1. cached \in CachedType
    BY DEF PolicyTypeOK
<1>2. cached.price \in PriceType
    BY <1>1, ContingencyAssumption DEF CachedType
<1>3. cached.ahead \in Offsets /\ cached.fetched \in Times
    BY <1>1 DEF CachedType
<1>4. cached.price.until \in Int
    BY <1>2 DEF PriceType
<1>5. Offsets \subseteq Int /\ Times \subseteq Nat
    BY ContingencyAssumption DEF Times
<1> QED
    BY <1>3, <1>4, <1>5

LEMMA SalePrices ==
    ASSUME PolicyTypeOK, sale # NoSale
    PROVE  sale.fetched \in Nat /\ sale.ahead \in Int /\ sale.price.until \in Int
<1>1. sale \in SaleType
    BY DEF PolicyTypeOK
<1>2. sale.price \in PriceType
    BY <1>1, ContingencyAssumption DEF SaleType
<1>3. sale.ahead \in Offsets /\ sale.fetched \in Times
    BY <1>1 DEF SaleType
<1>4. sale.price.until \in Int
    BY <1>2 DEF PriceType
<1>5. Offsets \subseteq Int /\ Times \subseteq Nat
    BY ContingencyAssumption DEF Times
<1> QED
    BY <1>3, <1>4, <1>5

LEMMA SellPriced ==
    ASSUME PolicyInv, NEW p \in Payments, NEW d \in Discounts, Sell(p, d)
    PROVE  PriceHolds'
<1> USE Constants, Numbers, AnchorNumbers, CachedNumbers, PolicyConstants DEF PolicyInv
<1>1. anchor # NoAnchor /\ cached # NoPrice /\ Timely /\ Priced
    BY DEF Sell, Priced
<1>2. now <= ProjectedTime + Lag
    BY <1>1 DEF Timely, AnchorTimely
<1>3. ProjectedTime \in Int /\ Lag \in Int
    BY <1>1 DEF ProjectedTime, Elapsed, Lag
<1>4. ProjectedTime <= Stamp + PriceAge /\ ProjectedTime < cached.price.until - Zone
    BY <1>1, <1>3 DEF Priced, Stamp
<1>5. /\ now <= cached.fetched + cached.ahead + PriceAge + Lag
      /\ now < cached.price.until + Lag
    BY <1>1, <1>2, <1>3, <1>4 DEF Stamp
<1>6. /\ sale'.at = now /\ sale'.fetched = cached.fetched
      /\ sale'.ahead = cached.ahead /\ sale'.price = cached.price /\ Lag' = Lag
    BY DEF Sell, Lag
<1> QED
    BY <1>5, <1>6 DEF PriceHolds

LEMMA PriceStep ==
    ASSUME PolicyInv, PriceHolds, [PolicyNext]_policyVars
    PROVE  PriceHolds'
<1>1. ASSUME NEW p \in Payments, NEW d \in Discounts, Sell(p, d) PROVE PriceHolds'
    BY <1>1, SellPriced
<1>2. CASE sale' = sale /\ slept' \in {slept, slept + 1}
    BY <1>2, Constants, Numbers, SaleNumbers, SalePrices, PolicyConstants
       DEF PolicyInv, PriceHolds, Lag
<1> QED
    BY <1>1, <1>2 DEF PolicyNext, Tick, Sleep, SetClock, RestartClient, Revoke, Login, Logout,
                      Request, Refresh, HearAnswer, Lose, policyVars

(* However the clocks run, are set and restart, a sale without a           *)
(* connection has a price that is not over, up to the lag, and that is     *)
(* older than the age limit by at most the lag and what the wall clock was *)
(* ahead at its fetch (contingencyPolicy.calculateSaleTotal).              *)
THEOREM PriceSound == PolicySpec => []PriceHolds
<1>1. PolicyInit => PolicyInv /\ PriceHolds
    BY PolicyInvInit DEF PolicyInit, PriceHolds
<1>2. PolicyInv /\ PriceHolds /\ [PolicyNext]_policyVars => PolicyInv' /\ PriceHolds'
    BY PolicyInvStep, PriceStep DEF PolicyInv
<1> QED
    BY <1>1, <1>2, PTL DEF PolicySpec

-----------------------------------------------------------------------------
(* Payments.                                                               *)

\* What a sequence is over, each of its entries is.
LEMMA EntryType ==
    ASSUME NEW R, NEW p \in Seq(R)
    PROVE  /\ DOMAIN p = 1 .. Len(p) /\ Len(p) \in Nat
           /\ \A i \in DOMAIN p : p[i] \in R
    OBVIOUS

\* Accepted payments are made by two methods, and their sums add up.
LEMMA TwoMethods ==
    ASSUME NEW p \in Payments, NEW total \in Nat, Covers(p, total)
    PROVE  Sum(p, Methods) - total \in 0 .. Sum(p, {"cash"})
<1> DEFINE f == [i \in DOMAIN p |-> p[i].amount]
           By(methods) == {i \in DOMAIN p : p[i].method \in methods}
           Payment == [method : Methods, amount : Int]
<1>1. p \in Seq(Payment)
    BY ContingencyAssumption
<1> HIDE DEF Payment
<1>0. /\ DOMAIN p = 1 .. Len(p) /\ Len(p) \in Nat
      /\ \A i \in DOMAIN p : p[i] \in Payment
    BY <1>1, EntryType
<1>2. /\ IsFiniteSet(DOMAIN p) /\ \A i \in DOMAIN p : f[i] \in Int
      /\ \A i \in DOMAIN p : p[i].method \in {"cash", "external"}
  <2>1. IsFiniteSet(1 .. Len(p))
      BY <1>0, FS_Interval
  <2>2. \A i \in DOMAIN p : p[i].amount \in Int
      BY <1>0 DEF Payment
  <2>3. \A i \in DOMAIN p : p[i].method \in {"cash", "external"}
      BY DEF Covers
  <2> QED
      BY <1>0, <2>1, <2>2, <2>3
<1>3. /\ By(Methods) = By({"cash"}) \cup By({"external"})
      /\ By({"cash"}) \cap By({"external"}) = {}
      /\ By({"cash"}) \subseteq DOMAIN p /\ By({"external"}) \subseteq DOMAIN p
    BY <1>2 DEF Methods
<1>4. \A methods : Sum(p, methods) = SumFunctionOnSet(f, By(methods))
    BY DEF Sum
<1>5. IsFiniteSet(By({"cash"})) /\ IsFiniteSet(By({"external"}))
    BY <1>2, <1>3, FS_Subset
<1> HIDE DEF f, By
<1>6. /\ Sum(p, {"cash"}) \in Int /\ Sum(p, {"external"}) \in Int
      /\ Sum(p, Methods) = Sum(p, {"cash"}) + Sum(p, {"external"})
    BY <1>2, <1>3, <1>4, <1>5, SumType, SumSplits
<1>7. Sum(p, Methods) >= total /\ Sum(p, {"external"}) <= total
    BY DEF Covers
<1> QED
    BY <1>6, <1>7

(* Whatever payments are entered, the change of a sale without a           *)
(* connection is no more than the cash that was paid                       *)
(* (contingencyPolicy.validatePayments).                                   *)
THEOREM ChangeCorrect == PolicySpec => []ChangeIsCash
<1>1. PolicyInit => ChangeIsCash
    BY DEF PolicyInit, ChangeIsCash
<1>2. PolicyTypeOK /\ ChangeIsCash /\ [PolicyNext]_policyVars => ChangeIsCash'
  <2> SUFFICES ASSUME PolicyTypeOK, ChangeIsCash, [PolicyNext]_policyVars
               PROVE  ChangeIsCash'
      OBVIOUS
  <2>1. ASSUME NEW p \in Payments, NEW d \in Discounts, Sell(p, d)
        PROVE  ChangeIsCash'
    <3>1. Total(d) \in Nat
        BY <2>1, TotalType DEF Sell, Priced
    <3>2. sale'.total = Total(d) /\ sale'.paid = p /\ Covers(p, Total(d))
        BY <2>1 DEF Sell
    <3> QED
        BY <3>1, <3>2, TwoMethods DEF ChangeIsCash
  <2>2. CASE sale' = sale
      BY <2>2 DEF ChangeIsCash
  <2> QED
      BY <2>1, <2>2 DEF PolicyNext, Tick, Sleep, SetClock, RestartClient, Revoke, Login, Logout,
                        Request, Refresh, HearAnswer, Lose, policyVars
<1> QED
    BY <1>1, <1>2, PolicyTypeCorrect, PTL DEF PolicySpec
=============================================================================
