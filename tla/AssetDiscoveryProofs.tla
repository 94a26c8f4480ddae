------------------------- MODULE AssetDiscoveryProofs -------------------------
(***************************************************************************)
(* Theorems about AssetDiscovery, for any number of domains, API threads,  *)
(* workers, scans, retries and faults of every kind.                       *)
(***************************************************************************)
EXTENDS AssetDiscovery, TLAPS

USE DEF storeVars, recoveryVars, requestVars, workerVars, faultVars

-----------------------------------------------------------------------------
(* Frames: what each kind of process leaves alone. *)

\* Workers and the broker create no scan, hold no row lock, and touch neither
\* requests nor the recovery.
LEMMA WorkerFrame ==
  ASSUME \/ \E w \in Workers, m \in Messages : TakeJob(w, m)
         \/ \E w \in Workers : TaskStep(w) \/ WorkerFault(w)
         \/ \E m \in Messages : LoseMessage(m)
  PROVE  UNCHANGED <<created, locked, recoveryVars, requestVars>>
<1>1. CASE \E w \in Workers, m \in Messages : TakeJob(w, m)
  BY <1>1 DEF TakeJob
<1>2. ASSUME NEW w \in Workers, TaskStep(w)
      PROVE  UNCHANGED <<created, locked, recoveryVars, requestVars>>
  BY <1>2 DEF TaskStep, LoadScan, CheckRunning, MarkScanRunning, MarkDomainRunning,
              StoreAssets, MarkScanCompleted, MarkDomainCompleted, EnqueueNextPending,
              RetryLater, GiveUp, MarkScanFailed, MarkDomainFailed, RowsGone, Acknowledge
<1>3. ASSUME NEW w \in Workers, WorkerFault(w)
      PROVE  UNCHANGED <<created, locked, recoveryVars, requestVars>>
  BY <1>3 DEF WorkerFault, WorkerCrash, ChildLost, WorkerDbError, RetryPublishFails,
              NextPublishFails
<1>4. CASE \E m \in Messages : LoseMessage(m)
  BY <1>4 DEF LoseMessage
<1> QED
  BY <1>1, <1>2, <1>3, <1>4

\* Requests store no answers and touch neither workers nor the recovery.
LEMMA RequestFrame ==
  ASSUME \/ \E r \in Requests : HandlerStep(r) \/ RequestFault(r)
         \/ \E r \in Requests, d \in Domains : CreateDomain(r, d) \/ LockAndCheck(r, d)
  PROVE  UNCHANGED <<assets, recoveryVars, workerVars>>
<1>1. ASSUME NEW r \in Requests, HandlerStep(r)
      PROVE  UNCHANGED <<assets, recoveryVars, workerVars>>
  BY <1>1 DEF HandlerStep, InsertInitialScan, InitialScanRefused, ReadInitialDomain,
              WriteInitialDomain, InitialDomainGone, InsertManualScan, EnqueueNewScan
<1>2. ASSUME NEW r \in Requests, RequestFault(r)
      PROVE  UNCHANGED <<assets, recoveryVars, workerVars>>
  BY <1>2 DEF RequestFault, RequestDbError, RequestPublishFails
<1>3. ASSUME NEW r \in Requests, NEW d \in Domains, CreateDomain(r, d) \/ LockAndCheck(r, d)
      PROVE  UNCHANGED <<assets, recoveryVars, workerVars>>
  BY <1>3 DEF CreateDomain, LockAndCheck
<1> QED
  BY <1>1, <1>2, <1>3

\* The recovery changes scans.status, publishes, and changes nothing else.
LEMMA RecoveryFrame ==
  ASSUME RecoveryStep
  PROVE  UNCHANGED <<domainStatus, created, assets, locked, requestVars, workerVars, faultVars>>
BY DEF RecoveryStep, SelectRunning, ResetInterrupted, ListRecoverable, RequeueScan, StartServing

-----------------------------------------------------------------------------
(* Type correctness. One lemma for each kind of process. *)

LEMMA InitTypeOK == Init => TypeOK
<1> SUFFICES ASSUME Init  PROVE TypeOK
  OBVIOUS
<1>1. /\ domainStatus \in [Domains -> DomainStatus \cup {"NEW", "DELETED"}]
      /\ scanStatus \in [ScanIds -> ScanStatus \cup {"NONE"}]
      /\ created \in [Domains -> 0..MaxScans]
      /\ assets \in [ScanIds -> Nat]
      /\ locked \subseteq Domains
      /\ queue \in [Messages -> Nat]
  BY BoundsAssumption DEF Init
<1>2. /\ api \in RecoveryPcs
      /\ batch \subseteq ScanIds
      /\ reqPc \in [Requests -> RequestPcs]
      /\ reqScan \in [Requests -> Targets \cup {NoScan}]
      /\ \A r \in Requests : reqPc[r] = "idle"
  BY DEF Init, RecoveryPcs, RequestPcs
<1>3. /\ wPc \in [Workers -> WorkerPcs]
      /\ job \in [Workers -> Messages \cup {NoJob}]
      /\ seen \in [Workers -> ScanStatus \cup {"NONE"}]
      /\ \A w \in Workers : wPc[w] = "idle"
  BY DEF Init, WorkerPcs
<1>4. faults \in 0..MaxFaults
  BY BoundsAssumption DEF Init
<1>5. jobLost \in BOOLEAN
  BY DEF Init
<1> QED
  BY <1>1, <1>2, <1>3, <1>4, <1>5 DEF TypeOK

\* A publish keeps the type of the queue.
LEMMA PublishTypeOK ==
  ASSUME queue \in [Messages -> Nat], NEW m \in Messages, Publish(m)
  PROVE  queue' \in [Messages -> Nat]
BY DEF Publish

LEMMA EnqueueTypeOK ==
  ASSUME queue \in [Messages -> Nat], NEW s \in ScanIds, EnqueueScan(s)
  PROVE  queue' \in [Messages -> Nat]
<1>1. <<s, 0>> \in Messages
  BY BoundsAssumption DEF Messages
<1> QED
  BY <1>1, PublishTypeOK DEF EnqueueScan

LEMMA RequestsPreserveTypeOK ==
  ASSUME TypeOK,
         \/ \E r \in Requests : HandlerStep(r) \/ RequestFault(r)
         \/ \E r \in Requests, d \in Domains : CreateDomain(r, d) \/ LockAndCheck(r, d)
         \/ \E d \in Domains : DeleteDomain(d)
  PROVE  TypeOK'
<1> USE BoundsAssumption, FaultsAssumption
    DEF TypeOK, ScanIds, Messages, Targets, RequestPcs, ScanStatus, DomainStatus,
        Goto, EndRequest, StartRequest, ReqDomain, InsertScan, SetDomainStatus,
        EnqueueScan, Publish, Inject
<1>1. ASSUME NEW r \in Requests, NEW d \in Domains, CreateDomain(r, d)  PROVE TypeOK'
  BY <1>1 DEF CreateDomain
<1>2. ASSUME NEW r \in Requests, NEW d \in Domains, LockAndCheck(r, d)  PROVE TypeOK'
  BY <1>2 DEF LockAndCheck
<1>3. ASSUME NEW d \in Domains, DeleteDomain(d)  PROVE TypeOK'
  BY <1>3 DEF DeleteDomain, DomainOf
<1>4. ASSUME NEW r \in Requests, HandlerStep(r)  PROVE TypeOK'
  <2>1. CASE InsertInitialScan(r)   BY <2>1 DEF InsertInitialScan
  <2>2. CASE InitialScanRefused(r)  BY <2>2 DEF InitialScanRefused
  <2>3. CASE ReadInitialDomain(r)   BY <2>3 DEF ReadInitialDomain
  <2>4. CASE WriteInitialDomain(r)  BY <2>4 DEF WriteInitialDomain
  <2>5. CASE InitialDomainGone(r)   BY <2>5 DEF InitialDomainGone
  <2>6. CASE InsertManualScan(r)
    <3> DEFINE d == ReqDomain(r)
    <3>1. d \in Domains /\ created[d] + 1 \in 1..MaxScans
      BY <2>6 DEF InsertManualScan
    <3>2. <<d, created[d] + 1>> \in ScanIds
      BY <3>1
    <3> QED
      BY <2>6, <3>1, <3>2 DEF InsertManualScan
  <2>7. CASE EnqueueNewScan(r)
    <3>1. queue \in [Messages -> Nat] /\ reqScan[r] \in ScanIds
      BY <2>7 DEF EnqueueNewScan
    <3> HIDE DEF TypeOK, EnqueueScan, ScanIds, Messages
    <3>2. queue' \in [Messages -> Nat]
      BY <2>7, <3>1, EnqueueTypeOK DEF EnqueueNewScan
    <3>3. /\ reqPc' \in [Requests -> RequestPcs]
          /\ reqScan' \in [Requests -> Targets \cup {NoScan}]
          /\ reqPc'[r] = "idle"
      BY <2>7 DEF EnqueueNewScan, TypeOK
    <3> QED
      BY <2>7, <3>2, <3>3 DEF EnqueueNewScan, TypeOK
  <2> QED
    BY <1>4, <2>1, <2>2, <2>3, <2>4, <2>5, <2>6, <2>7 DEF HandlerStep
<1>5. ASSUME NEW r \in Requests, RequestFault(r)  PROVE TypeOK'
  <2>1. CASE RequestDbError(r)       BY <2>1 DEF RequestDbError
  <2>2. CASE RequestPublishFails(r)  BY <2>2 DEF RequestPublishFails
  <2> QED
    BY <1>5, <2>1, <2>2 DEF RequestFault
<1> QED
  BY <1>1, <1>2, <1>3, <1>4, <1>5

LEMMA WorkersPreserveTypeOK ==
  ASSUME TypeOK,
         \/ \E w \in Workers, m \in Messages : TakeJob(w, m)
         \/ \E w \in Workers : TaskStep(w) \/ WorkerFault(w)
         \/ \E m \in Messages : LoseMessage(m)
  PROVE  TypeOK'
<1> USE BoundsAssumption, FaultsAssumption
    DEF TypeOK, ScanIds, Messages, WorkerPcs, ScanStatus, DomainStatus, Active,
        At, Continue, JobScan, JobDomain, DomainOf, Attempt, UpdateScan, SetDomainStatus,
        EnqueueScan, Publish, Inject, Forget
<1>1. ASSUME NEW w \in Workers, NEW m \in Messages, TakeJob(w, m)  PROVE TypeOK'
  BY <1>1 DEF TakeJob
<1>2. ASSUME NEW w \in Workers, TaskStep(w)  PROVE TypeOK'
  <2>1. CASE LoadScan(w)             BY <2>1 DEF LoadScan
  <2>2. CASE CheckRunning(w)         BY <2>2 DEF CheckRunning
  <2>3. CASE MarkScanRunning(w)      BY <2>3 DEF MarkScanRunning
  <2>4. CASE MarkDomainRunning(w)    BY <2>4 DEF MarkDomainRunning
  <2>5. CASE StoreAssets(w)          BY <2>5 DEF StoreAssets
  <2>6. CASE MarkScanCompleted(w)    BY <2>6 DEF MarkScanCompleted
  <2>7. CASE MarkDomainCompleted(w)  BY <2>7 DEF MarkDomainCompleted
  <2>8. CASE EnqueueNextPending(w)
    <3>1. queue \in [Messages -> Nat] /\ JobDomain(w) \in Domains
      BY <2>8 DEF EnqueueNextPending
    <3>2. \A n \in 1..MaxScans : <<JobDomain(w), n>> \in ScanIds
      BY <3>1
    <3> HIDE DEF TypeOK, EnqueueScan, JobDomain, ScanIds, Messages
    <3>3. queue' \in [Messages -> Nat]
      BY <2>8, <3>1, <3>2, EnqueueTypeOK DEF EnqueueNextPending
    <3>4. wPc' \in [Workers -> WorkerPcs] /\ job[w] \in Messages
      BY <2>8 DEF EnqueueNextPending, TypeOK
    <3>5. UNCHANGED <<storeVars, recoveryVars, requestVars, job, seen, faultVars>>
      BY <2>8 DEF EnqueueNextPending
    <3> QED
      BY <2>8, <3>3, <3>4, <3>5 DEF EnqueueNextPending, TypeOK
  <2>9. CASE RetryLater(w)           BY <2>9 DEF RetryLater
  <2>10. CASE GiveUp(w)              BY <2>10 DEF GiveUp
  <2>11. CASE MarkScanFailed(w)      BY <2>11 DEF MarkScanFailed
  <2>12. CASE MarkDomainFailed(w)    BY <2>12 DEF MarkDomainFailed
  <2>13. CASE RowsGone(w)            BY <2>13 DEF RowsGone
  <2>14. CASE Acknowledge(w)         BY <2>14 DEF Acknowledge
  <2> QED
    BY <1>2, <2>1, <2>2, <2>3, <2>4, <2>5, <2>6, <2>7, <2>8, <2>9, <2>10, <2>11, <2>12,
       <2>13, <2>14 DEF TaskStep
<1>3. ASSUME NEW w \in Workers, WorkerFault(w)  PROVE TypeOK'
  <2>1. CASE WorkerCrash(w)        BY <2>1 DEF WorkerCrash
  <2>2. CASE ChildLost(w)          BY <2>2 DEF ChildLost
  <2>3. CASE WorkerDbError(w)      BY <2>3 DEF WorkerDbError
  <2>4. CASE RetryPublishFails(w)  BY <2>4 DEF RetryPublishFails
  <2>5. CASE NextPublishFails(w)   BY <2>5 DEF NextPublishFails
  <2> QED
    BY <1>3, <2>1, <2>2, <2>3, <2>4, <2>5 DEF WorkerFault
<1>4. ASSUME NEW m \in Messages, LoseMessage(m)  PROVE TypeOK'
  BY <1>4 DEF LoseMessage
<1> QED
  BY <1>1, <1>2, <1>3, <1>4

LEMMA RecoveryPreservesTypeOK ==
  ASSUME TypeOK, RecoveryStep \/ ApiCrash \/ RecoveryFails
  PROVE  TypeOK'
<1>1. CASE RecoveryStep
  <2> USE BoundsAssumption
      DEF TypeOK, Messages, RecoveryPcs, ScanStatus, EnqueueScan, Publish
  <2>1. CASE SelectRunning     BY <2>1 DEF SelectRunning
  <2>2. CASE ResetInterrupted  BY <2>2 DEF ResetInterrupted
  <2>3. CASE ListRecoverable   BY <2>3 DEF ListRecoverable
  <2>4. ASSUME NEW s \in ScanIds, RequeueScan(s)  PROVE TypeOK'
    BY <2>4 DEF RequeueScan
  <2>5. CASE StartServing      BY <2>5 DEF StartServing
  <2> QED
    BY <1>1, <2>1, <2>2, <2>3, <2>4, <2>5 DEF RecoveryStep
<1>2. ASSUME Restart, faults' \in 0..MaxFaults  PROVE TypeOK'
  <2>1. /\ reqPc' \in [Requests -> RequestPcs]
        /\ reqScan' \in [Requests -> Targets \cup {NoScan}]
        /\ \A r \in Requests : reqPc'[r] = "idle"
    BY <1>2 DEF Restart, RequestPcs
  <2>2. api' \in RecoveryPcs /\ batch' \subseteq ScanIds /\ locked' \subseteq Domains
    BY <1>2 DEF Restart, RecoveryPcs
  <2> QED
    BY <1>2, <2>1, <2>2 DEF TypeOK, Restart
<1>3. CASE ApiCrash
  BY <1>2, <1>3, BoundsAssumption DEF ApiCrash, Inject, TypeOK
<1>4. CASE RecoveryFails
  BY <1>2, <1>4, BoundsAssumption DEF RecoveryFails, Inject, TypeOK
<1> QED
  BY <1>1, <1>3, <1>4

-----------------------------------------------------------------------------
(* What a step does to the rows *)

\* No row appears and none goes; a NEW domain stays NEW.
RowsKept ==
  /\ \A d \in Domains : DomainExists(d)' = DomainExists(d)
  /\ \A d \in Domains : domainStatus'[d] = "NEW" => domainStatus[d] = "NEW"
  /\ \A s \in ScanIds : ScanExists(s)' = ScanExists(s)

\* A busy worker knows its scan.
LEMMA BusyTask ==
  ASSUME TypeOK, NEW w \in Workers, wPc[w] # "idle"
  PROVE  /\ job[w] \in Messages
         /\ JobScan(w) \in ScanIds
         /\ JobDomain(w) \in Domains
         /\ DomainOf(JobScan(w)) = JobDomain(w)
<1>1. job[w] \in Messages
  BY DEF TypeOK
<1> QED
  BY <1>1 DEF Messages, ScanIds, JobScan, JobDomain, DomainOf

\* A task adds and removes no domain and no scan: it updates rows that are there.
LEMMA TasksKeepRows ==
  ASSUME TypeOK, NEW w \in Workers, TaskStep(w)
  PROVE  RowsKept
<1>2. wPc[w] # "idle" => JobScan(w) \in ScanIds /\ JobDomain(w) \in Domains
  BY BusyTask
<1>3. ASSUME wPc[w] # "idle", DomainExists(JobDomain(w)), scanStatus' = scanStatus,
             NEW status \in DomainStatus, SetDomainStatus(JobDomain(w), status)
      PROVE  RowsKept
  BY <1>2, <1>3 DEF RowsKept, SetDomainStatus, DomainExists, ScanExists, TypeOK, DomainStatus
<1>4. ASSUME wPc[w] # "idle", ScanExists(JobScan(w)), domainStatus' = domainStatus,
             NEW status \in ScanStatus,
             scanStatus' = scanStatus \/ scanStatus' = [scanStatus EXCEPT ![JobScan(w)] = status]
      PROVE  RowsKept
  BY <1>2, <1>4 DEF RowsKept, DomainExists, ScanExists, TypeOK, ScanStatus
<1>5. ASSUME domainStatus' = domainStatus, scanStatus' = scanStatus
      PROVE  RowsKept
  BY <1>5 DEF RowsKept, DomainExists, ScanExists
<1>6. CASE MarkDomainRunning(w)
  BY <1>3, <1>6 DEF MarkDomainRunning, At, DomainStatus
<1>7. CASE MarkDomainCompleted(w)
  BY <1>3, <1>7 DEF MarkDomainCompleted, At, DomainStatus
<1>8. CASE MarkDomainFailed(w)
  BY <1>3, <1>8 DEF MarkDomainFailed, At, DomainStatus
<1>9. CASE MarkScanRunning(w)
  BY <1>4, <1>9 DEF MarkScanRunning, At, UpdateScan, ScanStatus
<1>10. CASE MarkScanCompleted(w)
  BY <1>4, <1>10 DEF MarkScanCompleted, At, ScanStatus
<1>11. CASE MarkScanFailed(w)
  BY <1>4, <1>11 DEF MarkScanFailed, At, UpdateScan, ScanStatus
<1>12. CASE LoadScan(w) \/ CheckRunning(w) \/ StoreAssets(w) \/ EnqueueNextPending(w)
            \/ RetryLater(w) \/ GiveUp(w) \/ RowsGone(w) \/ Acknowledge(w)
  BY <1>5, <1>12 DEF LoadScan, CheckRunning, StoreAssets, EnqueueNextPending, RetryLater,
                     GiveUp, RowsGone, Acknowledge
<1> QED
  BY <1>6, <1>7, <1>8, <1>9, <1>10, <1>11, <1>12 DEF TaskStep

\* Taking a job, and every fault of a worker or of the broker, leaves the rows alone.
LEMMA OtherWorkerStepsKeepRows ==
  ASSUME \/ \E w \in Workers, m \in Messages : TakeJob(w, m)
         \/ \E w \in Workers : WorkerFault(w)
         \/ \E m \in Messages : LoseMessage(m)
  PROVE  UNCHANGED storeVars /\ RowsKept
<1>1. UNCHANGED storeVars
  BY DEF TakeJob, WorkerFault, WorkerCrash, ChildLost, WorkerDbError, RetryPublishFails,
         NextPublishFails, LoseMessage
<1> QED
  BY <1>1 DEF RowsKept, DomainExists, ScanExists

\* The recovery makes PENDING only scans that exist.
LEMMA RecoveryKeepsRows ==
  ASSUME TypeOK, RecoveredRowsExist, RecoveryStep
  PROVE  RowsKept
<1>1. CASE ResetInterrupted
  BY <1>1 DEF ResetInterrupted, RecoveredRowsExist, RowsKept, DomainExists, ScanExists, TypeOK
<1>2. CASE UNCHANGED <<domainStatus, scanStatus>>
  BY <1>2 DEF RowsKept, DomainExists, ScanExists
<1> QED
  BY <1>1, <1>2 DEF RecoveryStep, SelectRunning, ListRecoverable, RequeueScan, StartServing

-----------------------------------------------------------------------------
(* The invariant *)

LEMMA InitRowsInvariant == Init => RowsInvariant
<1> SUFFICES ASSUME Init  PROVE RowsInvariant
  OBVIOUS
<1>1. TypeOK
  BY InitTypeOK
<1>2. LockHeldByOneTrigger /\ LockedDomainExists
  BY DEF Init, LockHeldByOneTrigger, LockedDomainExists
<1>3. RowsMatchHistory /\ NewDomainsAreEmpty /\ NoOrphanRows /\ CompletedHasAssets
  BY DEF Init, RowsMatchHistory, NewDomainsAreEmpty, NoOrphanRows, CompletedHasAssets,
         ScanExists, DomainExists, DomainStatus, DomainOf, ScanIds
<1>4. RecoveredRowsExist /\ JobsNameCreatedScans /\ StoredBeforeCompleted
  BY DEF Init, RecoveredRowsExist, JobsNameCreatedScans, StoredBeforeCompleted
<1> QED
  BY <1>1, <1>2, <1>3, <1>4 DEF RowsInvariant

\* The parts that speak only of rows, locks, requests and the recovery survive
\* every step that keeps the rows and touches nothing else of these.
LEMMA RowsKeptInvariant ==
  ASSUME RowsInvariant, TypeOK', RowsKept, UNCHANGED <<created, locked, requestVars>>
  PROVE  /\ LockHeldByOneTrigger'
         /\ RowsMatchHistory'
         /\ NewDomainsAreEmpty'
         /\ LockedDomainExists'
<1>1. LockHeldByOneTrigger'
  BY DEF RowsInvariant, LockHeldByOneTrigger, ReqDomain
<1>2. RowsMatchHistory'
  BY DEF RowsInvariant, RowsMatchHistory, RowsKept, Created, DomainOf, ScanIds
<1>3. NewDomainsAreEmpty'
  BY DEF RowsInvariant, NewDomainsAreEmpty, RowsKept
<1>4. \A r \in Requests : reqPc[r] = "insert" => ReqDomain(r) \in Domains
  BY DEF RowsInvariant, LockHeldByOneTrigger, TypeOK
<1>5. LockedDomainExists'
  BY <1>4 DEF RowsInvariant, LockedDomainExists, RowsKept, ReqDomain
<1> QED
  BY <1>1, <1>2, <1>3, <1>5

LEMMA TasksPreserveRowsInvariant ==
  ASSUME RowsInvariant, NEW w \in Workers, TaskStep(w)
  PROVE  RowsInvariant'
<1>1. TypeOK /\ TypeOK'
  BY WorkersPreserveTypeOK DEF RowsInvariant
<1>2. UNCHANGED <<created, locked, recoveryVars, requestVars>>
  BY WorkerFrame
<1>3. RowsKept
  BY <1>1, TasksKeepRows
<1>4. LockHeldByOneTrigger' /\ RowsMatchHistory' /\ NewDomainsAreEmpty' /\ LockedDomainExists'
  BY <1>1, <1>2, <1>3, RowsKeptInvariant
<1>5. RecoveredRowsExist'
  BY <1>1, <1>2, <1>3 DEF RowsInvariant, RecoveredRowsExist, RowsKept, TypeOK
<1>6. /\ JobScan(w) \in ScanIds
      /\ JobDomain(w) \in Domains
      /\ DomainOf(JobScan(w)) = JobDomain(w)
      /\ wPc[w] # "idle"
  <2>1. wPc[w] # "idle"
    BY DEF TaskStep, LoadScan, CheckRunning, MarkScanRunning, MarkDomainRunning, StoreAssets,
           MarkScanCompleted, MarkDomainCompleted, EnqueueNextPending, RetryLater, GiveUp,
           MarkScanFailed, MarkDomainFailed, RowsGone, Acknowledge, At
  <2> QED
    BY <1>1, <2>1, BusyTask
\* Only create_assets inserts answers, for a scan that exists.
<1>7. /\ \A s \in ScanIds : assets[s] > 0 => assets'[s] > 0
      /\ \A s \in ScanIds : assets'[s] > 0 => assets[s] > 0 \/ ScanExists(s)
  <2>1. CASE StoreAssets(w)
    BY <1>1, <1>6, <2>1 DEF StoreAssets, TypeOK
  <2>2. CASE UNCHANGED assets
    BY <2>2
  <2> QED
    BY <2>1, <2>2
       DEF TaskStep, LoadScan, CheckRunning, MarkScanRunning, MarkDomainRunning,
           MarkScanCompleted, MarkDomainCompleted, EnqueueNextPending, RetryLater, GiveUp,
           MarkScanFailed, MarkDomainFailed, RowsGone, Acknowledge
<1>8. NoOrphanRows'
  BY <1>3, <1>7 DEF RowsInvariant, NoOrphanRows, RowsKept, ScanIds, DomainOf
<1>9. /\ \A v \in Workers \ {w} : wPc'[v] = wPc[v] /\ job'[v] = job[v]
      /\ wPc'[w] # "idle" => job'[w] = job[w]
  BY <1>1 DEF TaskStep, LoadScan, CheckRunning, MarkScanRunning, MarkDomainRunning, StoreAssets,
              MarkScanCompleted, MarkDomainCompleted, EnqueueNextPending, RetryLater, GiveUp,
              MarkScanFailed, MarkDomainFailed, RowsGone, Acknowledge, Forget, Continue, TypeOK
<1>10. wPc'[w] = "complete" => assets'[JobScan(w)] > 0
  <2>1. CASE StoreAssets(w)
    BY <1>1, <1>6, <2>1 DEF StoreAssets, TypeOK
  <2>2. CASE LoadScan(w) \/ CheckRunning(w) \/ MarkScanRunning(w) \/ MarkDomainRunning(w)
             \/ MarkScanCompleted(w) \/ MarkDomainCompleted(w) \/ EnqueueNextPending(w)
             \/ RetryLater(w) \/ GiveUp(w) \/ MarkScanFailed(w) \/ MarkDomainFailed(w)
             \/ RowsGone(w) \/ Acknowledge(w)
    BY <1>1, <2>2
       DEF LoadScan, CheckRunning, MarkScanRunning, MarkDomainRunning, MarkScanCompleted,
           MarkDomainCompleted, EnqueueNextPending, RetryLater, GiveUp, MarkScanFailed,
           MarkDomainFailed, RowsGone, Acknowledge, Forget, Continue, TypeOK
  <2> QED
    BY <2>1, <2>2 DEF TaskStep
<1>11. StoredBeforeCompleted'
  <2> SUFFICES ASSUME NEW v \in Workers, wPc'[v] = "complete", ScanExists(JobScan(v))'
               PROVE  assets'[JobScan(v)'] > 0
    BY DEF StoredBeforeCompleted
  <2>1. CASE v = w
    BY <1>9, <1>10, <2>1 DEF JobScan
  <2>2. CASE v # w
    <3>1. wPc[v] = "complete" /\ JobScan(v)' = JobScan(v) /\ JobScan(v) \in ScanIds
      BY <1>1, <1>9, <2>2, BusyTask DEF JobScan
    <3>2. assets[JobScan(v)] > 0
      BY <1>3, <3>1 DEF RowsInvariant, StoredBeforeCompleted, RowsKept, ScanExists
    <3> QED
      BY <1>7, <3>1, <3>2
  <2> QED
    BY <2>1, <2>2
<1>12. CompletedHasAssets'
  <2>1. CASE MarkScanCompleted(w)
    <3>1. assets[JobScan(w)] > 0 /\ assets' = assets
      BY <2>1 DEF MarkScanCompleted, At, RowsInvariant, StoredBeforeCompleted
    <3> QED
      BY <1>1, <1>6, <2>1, <3>1
         DEF MarkScanCompleted, RowsInvariant, CompletedHasAssets, TypeOK
  <2>2. CASE MarkScanRunning(w) \/ MarkScanFailed(w)
    BY <1>1, <1>6, <1>7, <2>2
       DEF MarkScanRunning, MarkScanFailed, UpdateScan, RowsInvariant, CompletedHasAssets, TypeOK
  <2>3. CASE UNCHANGED scanStatus
    BY <1>7, <2>3 DEF RowsInvariant, CompletedHasAssets
  <2> QED
    BY <2>1, <2>2, <2>3
       DEF TaskStep, LoadScan, CheckRunning, MarkDomainRunning, StoreAssets,
           MarkDomainCompleted, EnqueueNextPending, RetryLater, GiveUp, MarkDomainFailed,
           RowsGone, Acknowledge
\* What a task publishes is its own scan again, or a PENDING one.
<1>13. \A m \in Messages : queue'[m] > 0 => queue[m] > 0 \/ Created(m[1])
  <2>1. CASE EnqueueNextPending(w)
    <3>1. ASSUME NEW n \in 1..MaxScans, OldestPending(JobDomain(w), n),
                 EnqueueScan(<<JobDomain(w), n>>)
          PROVE  \A m \in Messages : queue'[m] > 0 => queue[m] > 0 \/ Created(m[1])
      <4>1. <<JobDomain(w), n>> \in ScanIds /\ ScanExists(<<JobDomain(w), n>>)
        BY <1>6, <3>1 DEF ScanIds, OldestPending, ScanExists
      <4>2. Created(<<JobDomain(w), n>>)
        BY <4>1 DEF RowsInvariant, RowsMatchHistory
      <4> QED
        BY <1>1, <3>1, <4>2 DEF EnqueueScan, Publish, TypeOK
    <3> QED
      BY <2>1, <3>1 DEF EnqueueNextPending
  <2>2. CASE RetryLater(w)
    <3>1. Created(JobScan(w))
      BY <1>6 DEF RowsInvariant, JobsNameCreatedScans
    <3> QED
      BY <1>1, <2>2, <3>1 DEF RetryLater, Publish, TypeOK
  <2>3. CASE UNCHANGED queue
    BY <2>3
  <2> QED
    BY <2>1, <2>2, <2>3
       DEF TaskStep, LoadScan, CheckRunning, MarkScanRunning, MarkDomainRunning, StoreAssets,
           MarkScanCompleted, MarkDomainCompleted, GiveUp, MarkScanFailed, MarkDomainFailed,
           RowsGone, Acknowledge
<1>14. JobsNameCreatedScans'
  <2>1. \A m \in Messages : queue'[m] > 0 => Created(m[1])'
    BY <1>2, <1>13 DEF RowsInvariant, JobsNameCreatedScans, Created
  <2>2. \A v \in Workers : wPc'[v] # "idle" => Created(JobScan(v))'
    BY <1>2, <1>6, <1>9 DEF RowsInvariant, JobsNameCreatedScans, Created, JobScan
  <2> QED
    BY <2>1, <2>2 DEF JobsNameCreatedScans
<1> QED
  BY <1>1, <1>4, <1>5, <1>8, <1>11, <1>12, <1>14 DEF RowsInvariant

LEMMA OtherWorkerStepsPreserveRowsInvariant ==
  ASSUME RowsInvariant,
         \/ \E w \in Workers, m \in Messages : TakeJob(w, m)
         \/ \E w \in Workers : WorkerFault(w)
         \/ \E m \in Messages : LoseMessage(m)
  PROVE  RowsInvariant'
<1>1. TypeOK /\ TypeOK'
  BY WorkersPreserveTypeOK DEF RowsInvariant
<1>2. UNCHANGED <<storeVars, recoveryVars, requestVars>> /\ RowsKept
  BY WorkerFrame, OtherWorkerStepsKeepRows
<1>3. LockHeldByOneTrigger' /\ RowsMatchHistory' /\ NewDomainsAreEmpty' /\ LockedDomainExists'
  BY <1>1, <1>2, RowsKeptInvariant
<1>4. RecoveredRowsExist' /\ NoOrphanRows' /\ CompletedHasAssets'
  BY <1>2 DEF RowsInvariant, RecoveredRowsExist, NoOrphanRows, CompletedHasAssets,
              ScanExists, DomainExists
<1>5. ASSUME NEW w \in Workers, NEW m \in Messages, TakeJob(w, m)
      PROVE  StoredBeforeCompleted' /\ JobsNameCreatedScans'
  <2>1. /\ \A v \in Workers \ {w} : wPc'[v] = wPc[v] /\ job'[v] = job[v]
        /\ wPc'[w] = "load" /\ job'[w] = m /\ queue[m] > 0
        /\ \A n \in Messages : queue'[n] > 0 => queue[n] > 0
    BY <1>1, <1>5 DEF TakeJob, Continue, TypeOK
  <2>2. StoredBeforeCompleted'
    BY <1>2, <2>1 DEF RowsInvariant, StoredBeforeCompleted, ScanExists, JobScan
  <2>3. JobsNameCreatedScans'
    BY <1>2, <2>1 DEF RowsInvariant, JobsNameCreatedScans, Created, JobScan
  <2> QED
    BY <2>2, <2>3
<1>6. ASSUME NEW w \in Workers, WorkerFault(w)
      PROVE  StoredBeforeCompleted' /\ JobsNameCreatedScans'
  <2>1. wPc[w] # "idle"
    BY <1>6 DEF WorkerFault, WorkerCrash, ChildLost, WorkerDbError, RetryPublishFails,
                NextPublishFails, At
  <2>2. job[w] \in Messages
    BY <1>1, <2>1, BusyTask
  <2>3. /\ \A v \in Workers \ {w} : wPc'[v] = wPc[v] /\ job'[v] = job[v]
        /\ wPc'[w] # "complete"
        /\ wPc'[w] # "idle" => job'[w] = job[w]
    BY <1>1, <1>6 DEF WorkerFault, WorkerCrash, ChildLost, WorkerDbError, RetryPublishFails,
                      NextPublishFails, Forget, Continue, TypeOK
  <2>4. \A n \in Messages : queue'[n] > 0 => queue[n] > 0 \/ n = job[w]
    BY <1>1, <1>6, <2>2 DEF WorkerFault, WorkerCrash, ChildLost, WorkerDbError,
                            RetryPublishFails, NextPublishFails, Publish, TypeOK
  <2>5. StoredBeforeCompleted'
    BY <1>2, <2>3 DEF RowsInvariant, StoredBeforeCompleted, ScanExists, JobScan
  <2>6. JobsNameCreatedScans'
    BY <1>2, <2>1, <2>3, <2>4 DEF RowsInvariant, JobsNameCreatedScans, Created, JobScan
  <2> QED
    BY <2>5, <2>6
<1>7. ASSUME NEW m \in Messages, LoseMessage(m)
      PROVE  StoredBeforeCompleted' /\ JobsNameCreatedScans'
  <2>1. UNCHANGED workerVars /\ \A n \in Messages : queue'[n] > 0 => queue[n] > 0
    BY <1>1, <1>7 DEF LoseMessage, TypeOK
  <2> QED
    BY <1>2, <2>1 DEF RowsInvariant, StoredBeforeCompleted, JobsNameCreatedScans, Created,
                      ScanExists, JobScan
<1> QED
  BY <1>1, <1>3, <1>4, <1>5, <1>6, <1>7 DEF RowsInvariant

LEMMA RecoveryPreservesRowsInvariant ==
  ASSUME RowsInvariant, RecoveryStep
  PROVE  RowsInvariant'
<1>1. TypeOK /\ TypeOK'
  BY RecoveryPreservesTypeOK DEF RowsInvariant
<1>2. UNCHANGED <<domainStatus, created, assets, locked, requestVars, workerVars>>
  BY RecoveryFrame
<1>3. RowsKept
  BY <1>1, RecoveryKeepsRows DEF RowsInvariant
<1>4. LockHeldByOneTrigger' /\ RowsMatchHistory' /\ NewDomainsAreEmpty' /\ LockedDomainExists'
  BY <1>1, <1>2, <1>3, RowsKeptInvariant
<1>5. RecoveredRowsExist'
  BY <1>1, <1>3
     DEF RowsInvariant, RecoveredRowsExist, RowsKept, RecoveryStep, SelectRunning,
         ResetInterrupted, ListRecoverable, RequeueScan, StartServing, ScanExists, Active, TypeOK
<1>6. NoOrphanRows' /\ StoredBeforeCompleted'
  <2>1. NoOrphanRows'
    BY <1>2, <1>3 DEF RowsInvariant, NoOrphanRows, RowsKept, DomainOf, ScanIds
  <2>2. \A v \in Workers : wPc[v] = "complete" => JobScan(v) \in ScanIds
    BY <1>1, BusyTask
  <2>3. StoredBeforeCompleted'
    BY <1>2, <1>3, <2>2 DEF RowsInvariant, StoredBeforeCompleted, RowsKept, JobScan
  <2> QED
    BY <2>1, <2>3
<1>7. CompletedHasAssets'
  BY <1>1, <1>2 DEF RowsInvariant, CompletedHasAssets, RecoveryStep, SelectRunning,
                    ResetInterrupted, ListRecoverable, RequeueScan, StartServing
\* Only scans that exist are published.
<1>8. \A m \in Messages : queue'[m] > 0 => queue[m] > 0 \/ Created(m[1])
  <2>1. ASSUME NEW s \in ScanIds, RequeueScan(s)
        PROVE  \A m \in Messages : queue'[m] > 0 => queue[m] > 0 \/ Created(m[1])
    <3>1. Created(s)
      BY <2>1 DEF RequeueScan, RowsInvariant, RecoveredRowsExist, RowsMatchHistory
    <3> QED
      BY <1>1, <2>1, <3>1 DEF RequeueScan, EnqueueScan, Publish, TypeOK
  <2>2. CASE UNCHANGED queue
    BY <2>2
  <2> QED
    BY <2>1, <2>2 DEF RecoveryStep, SelectRunning, ResetInterrupted, ListRecoverable, StartServing
<1>9. JobsNameCreatedScans'
  BY <1>2, <1>8 DEF RowsInvariant, JobsNameCreatedScans, Created, JobScan
<1> QED
  BY <1>1, <1>4, <1>5, <1>6, <1>7, <1>9 DEF RowsInvariant

\* A restart of the API process keeps every row, and drops requests and locks.
LEMMA RestartPreservesRowsInvariant ==
  ASSUME RowsInvariant, ApiCrash \/ RecoveryFails
  PROVE  RowsInvariant'
<1>1. TypeOK /\ TypeOK'
  BY RecoveryPreservesTypeOK DEF RowsInvariant
<1>2. Restart
  BY DEF ApiCrash, RecoveryFails
<1>3. LockHeldByOneTrigger' /\ LockedDomainExists' /\ RecoveredRowsExist'
  BY <1>2 DEF Restart, LockHeldByOneTrigger, LockedDomainExists, RecoveredRowsExist
<1>4. RowsMatchHistory' /\ NewDomainsAreEmpty' /\ NoOrphanRows' /\ CompletedHasAssets'
  BY <1>2 DEF RowsInvariant, Restart, RowsMatchHistory, NewDomainsAreEmpty, NoOrphanRows,
              CompletedHasAssets, Created, ScanExists, DomainExists
<1>5. JobsNameCreatedScans' /\ StoredBeforeCompleted'
  BY <1>2 DEF RowsInvariant, Restart, JobsNameCreatedScans, StoredBeforeCompleted, Created,
              ScanExists, JobScan
<1> QED
  BY <1>1, <1>3, <1>4, <1>5 DEF RowsInvariant

\* One request moves on; the lock follows it.
LEMMA RequestsPreserveLock ==
  ASSUME RowsInvariant, TypeOK',
         \/ \E r \in Requests : HandlerStep(r) \/ RequestFault(r)
         \/ \E r \in Requests, d \in Domains : CreateDomain(r, d) \/ LockAndCheck(r, d)
  PROVE  LockHeldByOneTrigger'
<1> USE DEF ReqDomain
<1>1. TypeOK /\ LockHeldByOneTrigger
  BY DEF RowsInvariant
<1>2. ASSUME NEW r \in Requests, UNCHANGED locked,
             \A q \in Requests \ {r} : reqPc'[q] = reqPc[q] /\ reqScan'[q] = reqScan[q],
             reqPc[r] # "insert", reqPc'[r] # "insert"
      PROVE  LockHeldByOneTrigger'
  BY <1>1, <1>2 DEF LockHeldByOneTrigger
<1>3. ASSUME NEW r \in Requests, reqPc[r] = "insert", locked' = locked \ {ReqDomain(r)},
             \A q \in Requests \ {r} : reqPc'[q] = reqPc[q] /\ reqScan'[q] = reqScan[q],
             reqPc'[r] # "insert"
      PROVE  LockHeldByOneTrigger'
  BY <1>1, <1>3 DEF LockHeldByOneTrigger
<1>4. ASSUME NEW r \in Requests, NEW d \in Domains, LockAndCheck(r, d)
      PROVE  LockHeldByOneTrigger'
  <2>1. /\ d \notin locked /\ locked' = locked \cup {d}
        /\ reqPc[r] = "idle" /\ reqPc'[r] = "insert" /\ reqScan'[r] = <<d, 0>>
        /\ \A q \in Requests \ {r} : reqPc'[q] = reqPc[q] /\ reqScan'[q] = reqScan[q]
    BY <1>1, <1>4 DEF LockAndCheck, StartRequest, Goto, TypeOK
  <2> QED
    BY <1>1, <2>1 DEF LockHeldByOneTrigger
<1>5. ASSUME NEW r \in Requests, NEW d \in Domains, CreateDomain(r, d)
      PROVE  LockHeldByOneTrigger'
  BY <1>1, <1>2, <1>5 DEF CreateDomain, StartRequest, Goto, TypeOK
<1>6. ASSUME NEW r \in Requests, InsertManualScan(r)
      PROVE  LockHeldByOneTrigger'
  BY <1>1, <1>3, <1>6 DEF InsertManualScan, Goto, TypeOK
<1>7. ASSUME NEW r \in Requests,
             \/ InsertInitialScan(r) \/ InitialScanRefused(r) \/ ReadInitialDomain(r)
             \/ WriteInitialDomain(r) \/ InitialDomainGone(r) \/ EnqueueNewScan(r)
             \/ RequestPublishFails(r)
      PROVE  LockHeldByOneTrigger'
  BY <1>1, <1>2, <1>7
     DEF InsertInitialScan, InitialScanRefused, ReadInitialDomain, WriteInitialDomain,
         InitialDomainGone, EnqueueNewScan, RequestPublishFails, EndRequest, Goto, TypeOK
<1>8. ASSUME NEW r \in Requests, RequestDbError(r)
      PROVE  LockHeldByOneTrigger'
  <2>1. /\ reqPc'[r] = "idle"
        /\ \A q \in Requests \ {r} : reqPc'[q] = reqPc[q] /\ reqScan'[q] = reqScan[q]
    BY <1>1, <1>8 DEF RequestDbError, EndRequest, Goto, TypeOK
  <2>2. CASE reqPc[r] = "insert"
    BY <1>3, <1>8, <2>1, <2>2 DEF RequestDbError
  <2>3. CASE reqPc[r] # "insert"
    BY <1>2, <1>8, <2>1, <2>3 DEF RequestDbError
  <2> QED
    BY <2>2, <2>3
<1> QED
  BY <1>4, <1>5, <1>6, <1>7, <1>8 DEF HandlerStep, RequestFault

\* A new scan is nobody's job yet, so nothing that is said of jobs changes.
LEMMA InsertScanPreserves ==
  ASSUME RowsInvariant, TypeOK', NEW d \in Domains, InsertScan(d), DomainExists(d),
         \A e \in Domains : DomainExists(e)' = DomainExists(e),
         \A e \in Domains : domainStatus'[e] = "NEW" => domainStatus[e] = "NEW",
         UNCHANGED <<assets, queue, recoveryVars, workerVars>>
  PROVE  /\ RowsMatchHistory' /\ NewDomainsAreEmpty' /\ RecoveredRowsExist'
         /\ JobsNameCreatedScans' /\ NoOrphanRows' /\ StoredBeforeCompleted'
         /\ CompletedHasAssets'
<1> DEFINE new == <<d, created[d] + 1>>
<1>1. TypeOK /\ new \in ScanIds /\ new[1] = d /\ new[2] = created[d] + 1 /\ created[d] \in Nat
  BY DEF RowsInvariant, TypeOK, InsertScan, ScanIds
<1>2. \A s \in ScanIds : s[1] \in Domains /\ s[2] \in Nat /\ s = <<s[1], s[2]>>
  BY DEF ScanIds
<1>3. \A s \in ScanIds : s # new => scanStatus'[s] = scanStatus[s]
  BY <1>1 DEF InsertScan, TypeOK
<1>4. scanStatus'[new] = "PENDING"
  BY <1>1 DEF InsertScan, TypeOK
<1>5. \A e \in Domains : created'[e] = IF e = d THEN created[e] + 1 ELSE created[e]
  BY <1>1 DEF InsertScan, TypeOK
<1> HIDE DEF new
<1>6. RowsMatchHistory'
  <2> SUFFICES ASSUME NEW s \in ScanIds
               PROVE  ScanExists(s)' <=> Created(s)' /\ DomainExists(s[1])'
    BY DEF RowsMatchHistory, DomainOf
  <2>1. ScanExists(s) <=> s[2] <= created[s[1]] /\ DomainExists(s[1])
    BY DEF RowsInvariant, RowsMatchHistory, Created, DomainOf
  <2>2. CASE s = new
    BY <1>1, <1>4, <1>5, <2>2 DEF ScanExists, Created
  <2>3. CASE s # new
    <3>1. s[2] <= created'[s[1]] <=> s[2] <= created[s[1]]
      BY <1>1, <1>2, <1>5, <2>3 DEF new, TypeOK
    <3> QED
      BY <1>2, <1>3, <2>1, <2>3, <3>1 DEF ScanExists, Created
  <2> QED
    BY <2>2, <2>3
<1>7. \A s \in ScanIds : Created(s) => Created(s)' /\ s # new
  BY <1>1, <1>2, <1>5 DEF Created, TypeOK
<1>8. NewDomainsAreEmpty'
  BY <1>5 DEF RowsInvariant, NewDomainsAreEmpty, DomainExists, DomainStatus
<1>9. JobsNameCreatedScans'
  <2>1. \A m \in Messages : m[1] \in ScanIds
    BY DEF Messages
  <2>2. \A v \in Workers : wPc[v] # "idle" => JobScan(v) \in ScanIds
    BY <1>1, BusyTask
  <2> QED
    BY <1>7, <2>1, <2>2 DEF RowsInvariant, JobsNameCreatedScans, JobScan
<1>10. RecoveredRowsExist'
  BY <1>1, <1>3, <1>4 DEF RowsInvariant, RecoveredRowsExist, ScanExists, TypeOK
<1>11. NoOrphanRows'
  BY <1>2, <1>3, <1>4 DEF RowsInvariant, NoOrphanRows, ScanExists, DomainOf, new
<1>12. StoredBeforeCompleted'
  <2>1. \A v \in Workers : wPc[v] = "complete" => JobScan(v) \in ScanIds /\ JobScan(v) # new
    BY <1>1, <1>7, BusyTask DEF RowsInvariant, JobsNameCreatedScans
  <2> QED
    BY <1>3, <2>1 DEF RowsInvariant, StoredBeforeCompleted, ScanExists, JobScan
<1>13. CompletedHasAssets'
  BY <1>3, <1>4 DEF RowsInvariant, CompletedHasAssets
<1> QED
  BY <1>6, <1>8, <1>9, <1>10, <1>11, <1>12, <1>13

\* The other steps of a request insert no scan.
LEMMA NoScanInserted ==
  ASSUME RowsInvariant, TypeOK',
         \A d \in Domains :
           DomainExists(d)' <=> DomainExists(d) \/ domainStatus'[d] # domainStatus[d],
         \A d \in Domains : domainStatus'[d] # domainStatus[d] => DomainExists(d) \/ created[d] = 0,
         \A d \in Domains : domainStatus'[d] = "NEW" => domainStatus[d] = "NEW",
         \A m \in Messages : queue'[m] > 0 => queue[m] > 0 \/ Created(m[1]),
         UNCHANGED <<scanStatus, created, assets, recoveryVars, workerVars>>
  PROVE  /\ RowsMatchHistory' /\ NewDomainsAreEmpty' /\ RecoveredRowsExist'
         /\ JobsNameCreatedScans' /\ NoOrphanRows' /\ StoredBeforeCompleted'
         /\ CompletedHasAssets'
<1>1. \A s \in ScanIds : s[1] \in Domains /\ s[2] \in Nat /\ s[2] > 0
  BY DEF ScanIds
<1>2. RowsMatchHistory'
  <2> SUFFICES ASSUME NEW s \in ScanIds
               PROVE  ScanExists(s)' <=> Created(s)' /\ DomainExists(s[1])'
    BY DEF RowsMatchHistory, DomainOf
  <2>1. ScanExists(s) <=> Created(s) /\ DomainExists(s[1])
    BY DEF RowsInvariant, RowsMatchHistory, DomainOf
  <2>2. ScanExists(s)' = ScanExists(s) /\ Created(s)' = Created(s)
    BY DEF ScanExists, Created
  <2>3. CASE domainStatus'[s[1]] # domainStatus[s[1]] /\ ~DomainExists(s[1])
    <3>1. created[s[1]] = 0
      BY <1>1, <2>3
    <3>2. ~Created(s)
      BY <1>1, <3>1 DEF Created
    <3> QED
      BY <2>1, <2>2, <3>2
  <2>4. CASE domainStatus'[s[1]] = domainStatus[s[1]] \/ DomainExists(s[1])
    <3>1. DomainExists(s[1])' <=> DomainExists(s[1])
      BY <1>1, <2>4
    <3> QED
      BY <2>1, <2>2, <3>1
  <2> QED
    BY <2>3, <2>4
<1>3. NoOrphanRows'
  BY <1>1 DEF RowsInvariant, NoOrphanRows, ScanExists, DomainOf
<1>4. NewDomainsAreEmpty' /\ RecoveredRowsExist' /\ CompletedHasAssets' /\ StoredBeforeCompleted'
  BY DEF RowsInvariant, NewDomainsAreEmpty, RecoveredRowsExist, CompletedHasAssets,
         StoredBeforeCompleted, ScanExists, JobScan
<1>5. JobsNameCreatedScans'
  BY DEF RowsInvariant, JobsNameCreatedScans, Created, JobScan
<1> QED
  BY <1>2, <1>3, <1>4, <1>5

LEMMA RequestsPreserveRowsInvariant ==
  ASSUME RowsInvariant,
         \/ \E r \in Requests : HandlerStep(r) \/ RequestFault(r)
         \/ \E r \in Requests, d \in Domains : CreateDomain(r, d) \/ LockAndCheck(r, d)
  PROVE  RowsInvariant'
<1> DEFINE Rest == /\ RowsMatchHistory' /\ NewDomainsAreEmpty' /\ RecoveredRowsExist'
                   /\ JobsNameCreatedScans' /\ NoOrphanRows' /\ StoredBeforeCompleted'
                   /\ CompletedHasAssets'
<1>1. TypeOK /\ TypeOK'
  BY RequestsPreserveTypeOK DEF RowsInvariant
<1>2. LockHeldByOneTrigger'
  BY <1>1, RequestsPreserveLock
<1>3. UNCHANGED <<assets, recoveryVars, workerVars>>
  BY RequestFrame
<1>4. ASSUME NEW r \in Requests, reqPc[r] # "idle"  PROVE ReqDomain(r) \in Domains
  BY <1>1, <1>4 DEF TypeOK, Targets, ReqDomain
<1>5. ASSUME NEW r \in Requests, NEW d \in Domains, CreateDomain(r, d)
      PROVE  Rest /\ LockedDomainExists'
  <2>1. /\ domainStatus[d] = "NEW" /\ domainStatus'[d] = "PENDING" /\ created[d] = 0
        /\ \A e \in Domains \ {d} : domainStatus'[e] = domainStatus[e]
        /\ UNCHANGED <<scanStatus, created, queue>>
    BY <1>1, <1>5 DEF CreateDomain, RowsInvariant, NewDomainsAreEmpty, TypeOK
  <2>2. Rest
    BY <1>1, <1>3, <2>1, NoScanInserted DEF DomainExists, DomainStatus
  <2>3. LockedDomainExists'
    <3>1. \A q \in Requests : reqPc'[q] = "insert" => reqPc[q] = "insert" /\ reqScan'[q] = reqScan[q]
      BY <1>1, <1>5 DEF CreateDomain, StartRequest, Goto, TypeOK
    <3> QED
      BY <1>4, <2>1, <3>1
         DEF RowsInvariant, LockedDomainExists, DomainExists, DomainStatus, ReqDomain
  <2> QED
    BY <2>2, <2>3
<1>6. ASSUME NEW r \in Requests, NEW d \in Domains, LockAndCheck(r, d)
      PROVE  Rest /\ LockedDomainExists'
  <2>1. UNCHANGED <<domainStatus, scanStatus, created, queue>> /\ DomainExists(d)
    BY <1>6 DEF LockAndCheck
  <2>2. Rest
    BY <1>1, <1>3, <2>1, NoScanInserted DEF DomainExists
  <2>3. \A q \in Requests : reqPc'[q] = "insert" =>
           \/ reqPc[q] = "insert" /\ reqScan'[q] = reqScan[q]
           \/ reqScan'[q] = <<d, 0>>
    BY <1>1, <1>6 DEF LockAndCheck, StartRequest, Goto, TypeOK
  <2>4. LockedDomainExists'
    BY <2>1, <2>3 DEF RowsInvariant, LockedDomainExists, DomainExists, ReqDomain
  <2> QED
    BY <2>2, <2>4
\* From here on no request starts to hold a lock.
<1>7. ASSUME \A q \in Requests :
               reqPc'[q] = "insert" => reqPc[q] = "insert" /\ reqScan'[q] = reqScan[q],
             \A e \in Domains : DomainExists(e) => DomainExists(e)'
      PROVE  LockedDomainExists'
  BY <1>4, <1>7 DEF RowsInvariant, LockedDomainExists, ReqDomain
<1>8. ASSUME NEW r \in Requests, HandlerStep(r) \/ RequestFault(r)
      PROVE  \A q \in Requests :
               reqPc'[q] = "insert" => reqPc[q] = "insert" /\ reqScan'[q] = reqScan[q]
  BY <1>1, <1>8
     DEF HandlerStep, InsertInitialScan, InitialScanRefused, ReadInitialDomain,
         WriteInitialDomain, InitialDomainGone, InsertManualScan, EnqueueNewScan,
         RequestFault, RequestDbError, RequestPublishFails, EndRequest, Goto, TypeOK
<1>9. ASSUME NEW r \in Requests, InsertInitialScan(r) \/ InsertManualScan(r)
      PROVE  Rest /\ LockedDomainExists'
  <2>1. ReqDomain(r) \in Domains /\ InsertScan(ReqDomain(r)) /\ DomainExists(ReqDomain(r)) /\ UNCHANGED queue
    BY <1>4, <1>9 DEF InsertInitialScan, InsertManualScan, RowsInvariant, LockedDomainExists
  <2>2. /\ \A e \in Domains : DomainExists(e)' = DomainExists(e)
        /\ \A e \in Domains : domainStatus'[e] = "NEW" => domainStatus[e] = "NEW"
    BY <1>1, <1>9, <2>1 DEF InsertInitialScan, InsertManualScan, DomainExists, DomainStatus, TypeOK
  <2>3. Rest
    BY <1>1, <1>3, <2>1, <2>2, InsertScanPreserves
  <2>4. LockedDomainExists'
    BY <1>7, <1>8, <1>9, <2>2 DEF HandlerStep
  <2> QED
    BY <2>3, <2>4
<1>10. ASSUME NEW r \in Requests, WriteInitialDomain(r)
       PROVE  Rest /\ LockedDomainExists'
  <2>1. ReqDomain(r) \in Domains
    BY <1>4, <1>10 DEF WriteInitialDomain
  <2>2. /\ DomainExists(ReqDomain(r)) /\ domainStatus'[ReqDomain(r)] = "PENDING"
        /\ \A e \in Domains \ {ReqDomain(r)} : domainStatus'[e] = domainStatus[e]
        /\ UNCHANGED <<scanStatus, created, queue>>
    BY <1>1, <1>10, <2>1 DEF WriteInitialDomain, SetDomainStatus, TypeOK
  <2>3. Rest
    BY <1>1, <1>3, <2>1, <2>2, NoScanInserted DEF DomainExists, DomainStatus
  <2>4. LockedDomainExists'
    BY <1>7, <1>8, <1>10, <2>2 DEF HandlerStep, DomainExists, DomainStatus
  <2> QED
    BY <2>3, <2>4
<1>11. ASSUME NEW r \in Requests, EnqueueNewScan(r)
       PROVE  Rest /\ LockedDomainExists'
  <2>1. UNCHANGED <<domainStatus, scanStatus, created>> /\ reqScan[r] \in ScanIds
    BY <1>1, <1>11 DEF EnqueueNewScan, TypeOK
  <2>2. \A m \in Messages : queue'[m] > 0 => queue[m] > 0 \/ Created(m[1])
    BY <1>1, <1>11, <2>1
       DEF EnqueueNewScan, EnqueueScan, Publish, RowsInvariant, RowsMatchHistory, TypeOK
  <2>3. Rest
    BY <1>1, <1>3, <2>1, <2>2, NoScanInserted DEF DomainExists
  <2>4. LockedDomainExists'
    BY <1>7, <1>8, <1>11, <2>1 DEF HandlerStep, DomainExists
  <2> QED
    BY <2>3, <2>4
<1>12. ASSUME NEW r \in Requests,
              \/ InitialScanRefused(r) \/ ReadInitialDomain(r) \/ InitialDomainGone(r)
              \/ RequestDbError(r) \/ RequestPublishFails(r)
       PROVE  Rest /\ LockedDomainExists'
  <2>1. UNCHANGED <<domainStatus, scanStatus, created, queue>>
    BY <1>12 DEF InitialScanRefused, ReadInitialDomain, InitialDomainGone, RequestDbError,
                 RequestPublishFails
  <2>2. Rest
    BY <1>1, <1>3, <2>1, NoScanInserted DEF DomainExists
  <2>3. LockedDomainExists'
    BY <1>7, <1>8, <1>12, <2>1 DEF HandlerStep, RequestFault, DomainExists
  <2> QED
    BY <2>2, <2>3
<1>13. Rest /\ LockedDomainExists'
  BY <1>5, <1>6, <1>9, <1>10, <1>11, <1>12 DEF HandlerStep, RequestFault
<1> QED
  BY <1>1, <1>2, <1>13 DEF RowsInvariant

\* A deletion takes every scan and answer of its domain, and waits for the lock.
LEMMA DeletePreservesRowsInvariant ==
  ASSUME RowsInvariant, NEW d \in Domains, DeleteDomain(d)
  PROVE  RowsInvariant'
<1>1. TypeOK /\ TypeOK'
  BY RequestsPreserveTypeOK DEF RowsInvariant
<1>2. /\ UNCHANGED <<created, locked, queue, recoveryVars, requestVars, workerVars>>
      /\ api = "up" /\ d \notin locked
      /\ domainStatus'[d] = "DELETED"
      /\ \A e \in Domains \ {d} : domainStatus'[e] = domainStatus[e]
  BY <1>1 DEF DeleteDomain, TypeOK
<1>3. \A s \in ScanIds :
        /\ s[1] \in Domains
        /\ s[1] = d => scanStatus'[s] = "NONE" /\ assets'[s] = 0
        /\ s[1] # d => scanStatus'[s] = scanStatus[s] /\ assets'[s] = assets[s]
  BY <1>1 DEF DeleteDomain, DomainOf, ScanIds, TypeOK
<1>4. LockHeldByOneTrigger'
  BY <1>2 DEF RowsInvariant, LockHeldByOneTrigger, ReqDomain
<1>5. RowsMatchHistory'
  <2> SUFFICES ASSUME NEW s \in ScanIds
               PROVE  ScanExists(s)' <=> Created(s)' /\ DomainExists(s[1])'
    BY DEF RowsMatchHistory, DomainOf
  <2>1. ScanExists(s) <=> Created(s) /\ DomainExists(s[1])
    BY DEF RowsInvariant, RowsMatchHistory, DomainOf
  <2>2. CASE s[1] = d
    BY <1>2, <1>3, <2>2 DEF ScanExists, DomainExists, DomainStatus
  <2>3. CASE s[1] # d
    BY <1>2, <1>3, <2>1, <2>3 DEF ScanExists, DomainExists, Created
  <2> QED
    BY <2>2, <2>3
<1>6. NewDomainsAreEmpty' /\ RecoveredRowsExist' /\ JobsNameCreatedScans'
  BY <1>2 DEF RowsInvariant, NewDomainsAreEmpty, RecoveredRowsExist, JobsNameCreatedScans,
              Created, JobScan
<1>7. LockedDomainExists'
  <2>1. \A r \in Requests : reqPc[r] = "insert" => ReqDomain(r) \in locked
    BY DEF RowsInvariant, LockHeldByOneTrigger
  <2>2. \A r \in Requests : reqPc[r] = "insert" => ReqDomain(r) \in Domains \ {d}
    BY <1>1, <1>2, <2>1 DEF TypeOK
  <2> QED
    BY <1>2, <2>2 DEF RowsInvariant, LockedDomainExists, DomainExists, ReqDomain
<1>8. \A s \in ScanIds : ScanExists(s)' =>
        /\ ScanExists(s) /\ s[1] # d
        /\ scanStatus'[s] = scanStatus[s] /\ assets'[s] = assets[s]
  BY <1>3 DEF ScanExists
<1>9. NoOrphanRows'
  <2>1. \A s \in ScanIds : ScanExists(s)' => DomainExists(DomainOf(s))'
    BY <1>2, <1>3, <1>8 DEF RowsInvariant, NoOrphanRows, DomainExists, DomainOf
  <2>2. \A s \in ScanIds : assets'[s] > 0 => ScanExists(s)'
    BY <1>3 DEF RowsInvariant, NoOrphanRows, ScanExists
  <2> QED
    BY <2>1, <2>2 DEF NoOrphanRows
<1>10. CompletedHasAssets'
  BY <1>8 DEF RowsInvariant, CompletedHasAssets, ScanExists
<1>11. StoredBeforeCompleted'
  <2>1. \A v \in Workers : wPc[v] = "complete" => JobScan(v) \in ScanIds
    BY <1>1, BusyTask
  <2> QED
    BY <1>2, <1>8, <2>1 DEF RowsInvariant, StoredBeforeCompleted, JobScan
<1> QED
  BY <1>1, <1>4, <1>5, <1>6, <1>7, <1>9, <1>10, <1>11 DEF RowsInvariant

LEMMA StutterPreservesRowsInvariant ==
  ASSUME RowsInvariant, UNCHANGED vars
  PROVE  RowsInvariant'
BY DEF vars, RowsInvariant, TypeOK, LockHeldByOneTrigger, RowsMatchHistory, NewDomainsAreEmpty,
       LockedDomainExists, RecoveredRowsExist, JobsNameCreatedScans, NoOrphanRows,
       StoredBeforeCompleted, CompletedHasAssets, Created, ScanExists, DomainExists, ReqDomain,
       JobScan

\* RowsInvariant holds in every reachable state, under every fault of the model.
THEOREM RowsInvariantHolds == Spec => []RowsInvariant
<1>1. Init => RowsInvariant
  BY InitRowsInvariant
<1>2. RowsInvariant /\ [Next]_vars => RowsInvariant'
  <2> SUFFICES ASSUME RowsInvariant, [Next]_vars  PROVE RowsInvariant'
    OBVIOUS
  <2>1. CASE Processing
    BY <2>1, RequestsPreserveRowsInvariant, TasksPreserveRowsInvariant,
       OtherWorkerStepsPreserveRowsInvariant, RecoveryPreservesRowsInvariant DEF Processing
  <2>2. CASE Client
    BY <2>2, RequestsPreserveRowsInvariant, DeletePreservesRowsInvariant DEF Client
  <2>3. CASE Fault
    BY <2>3, RequestsPreserveRowsInvariant, OtherWorkerStepsPreserveRowsInvariant,
       RestartPreservesRowsInvariant DEF Fault
  <2>4. CASE Wait \/ UNCHANGED vars
    BY <2>4, StutterPreservesRowsInvariant DEF Wait
  <2> QED
    BY <2>1, <2>2, <2>3, <2>4 DEF Next
<1> QED
  BY <1>1, <1>2, PTL DEF Spec

-----------------------------------------------------------------------------
(* What follows from it *)

\* Every variable keeps its type.
THEOREM TypeCorrect == Spec => []TypeOK
<1>1. RowsInvariant => TypeOK
  BY DEF RowsInvariant
<1> QED
  BY <1>1, RowsInvariantHolds, PTL

\* At most one trigger_manual_scan at a time is between its SELECT FOR UPDATE and
\* its commit for a domain, however many threads serve requests.
THEOREM LockIsExclusive == Spec => []LockHeldByOneTrigger
<1>1. RowsInvariant => LockHeldByOneTrigger
  BY DEF RowsInvariant
<1> QED
  BY <1>1, RowsInvariantHolds, PTL

\* No scan outlives its domain and no answer its scan, though deletions overtake
\* tasks and requests at every step.
THEOREM NoOrphans == Spec => []NoOrphanRows
<1>1. RowsInvariant => NoOrphanRows
  BY DEF RowsInvariant
<1> QED
  BY <1>1, RowsInvariantHolds, PTL

\* A COMPLETED scan has had its answers stored, whichever worker completed it and
\* however often its job was delivered.
THEOREM CompletedMeansStored == Spec => []CompletedHasAssets
<1>1. RowsInvariant => CompletedHasAssets
  BY DEF RowsInvariant
<1> QED
  BY <1>1, RowsInvariantHolds, PTL

\* When a task's scan is gone its whole domain is: no scan of it is left to run.
LEMMA GoneScanGoneDomain ==
  ASSUME RowsInvariant, NEW w \in Workers, wPc[w] # "idle", ~ScanExists(JobScan(w))
  PROVE  /\ ~DomainExists(JobDomain(w))
         /\ \A n \in 1..MaxScans : ~OldestPending(JobDomain(w), n)
<1>1. /\ job[w] \in Messages /\ JobScan(w) \in ScanIds /\ JobDomain(w) \in Domains
      /\ DomainOf(JobScan(w)) = JobDomain(w)
  BY BusyTask DEF RowsInvariant
<1>2. Created(JobScan(w))
  BY DEF RowsInvariant, JobsNameCreatedScans
<1>3. ~DomainExists(JobDomain(w))
  BY <1>1, <1>2 DEF RowsInvariant, RowsMatchHistory
<1>4. ASSUME NEW n \in 1..MaxScans  PROVE ~OldestPending(JobDomain(w), n)
  <2>1. <<JobDomain(w), n>> \in ScanIds /\ DomainOf(<<JobDomain(w), n>>) = JobDomain(w)
    BY <1>1, <1>4 DEF ScanIds, DomainOf
  <2>2. ~ScanExists(<<JobDomain(w), n>>)
    BY <1>3, <2>1 DEF RowsInvariant, NoOrphanRows
  <2> QED
    BY <2>2 DEF OldestPending, ScanExists
<1> QED
  BY <1>3, <1>4

\* A job whose scan was deleted, before the task began or under it, writes nothing
\* and publishes at most another attempt at that scan.
THEOREM GoneJobsDoNothing == Spec => GoneJobsAreNoops
<1> DEFINE Harmless(w) == /\ UNCHANGED storeVars
                          /\ \A m \in Messages : queue'[m] > queue[m] => m[1] = JobScan(w)
<1>1. ASSUME RowsInvariant, [Next]_vars, NEW w \in Workers,
             wPc[w] # "idle", ~ScanExists(JobScan(w)), wPc'[w] # wPc[w]
      PROVE  Harmless(w)
  <2>1. /\ TypeOK /\ job[w] \in Messages /\ ~DomainExists(JobDomain(w))
        /\ \A n \in 1..MaxScans : ~OldestPending(JobDomain(w), n)
    BY <1>1, BusyTask, GoneScanGoneDomain DEF RowsInvariant
  <2>2. \A m \in Messages : queue[m] \in Nat
    BY <2>1 DEF TypeOK
  <2>3. TaskStep(w) \/ WorkerFault(w)
    <3>1. ~UNCHANGED wPc
      BY <1>1
    <3>2. ~Client
      BY <3>1, RequestFrame DEF Client, DeleteDomain
    <3>3. /\ ~Wait /\ ~UNCHANGED vars /\ ~RecoveryStep /\ ~ApiCrash /\ ~RecoveryFails
          /\ ~\E r \in Requests : HandlerStep(r) \/ RequestFault(r)
          /\ ~\E m \in Messages : LoseMessage(m)
      BY <3>1, RecoveryFrame, RequestFrame
         DEF Wait, vars, ApiCrash, RecoveryFails, Restart, LoseMessage
    <3>4. ASSUME NEW v \in Workers, NEW m \in Messages, TakeJob(v, m)  PROVE FALSE
      BY <1>1, <2>1, <3>4 DEF TakeJob, At, Continue, TypeOK
    <3>5. ASSUME NEW v \in Workers, TaskStep(v) \/ WorkerFault(v)  PROVE v = w
      BY <1>1, <2>1, <3>5
         DEF TaskStep, LoadScan, CheckRunning, MarkScanRunning, MarkDomainRunning, StoreAssets,
             MarkScanCompleted, MarkDomainCompleted, EnqueueNextPending, RetryLater, GiveUp,
             MarkScanFailed, MarkDomainFailed, RowsGone, Acknowledge, WorkerFault, WorkerCrash,
             ChildLost, WorkerDbError, RetryPublishFails, NextPublishFails, Forget, Continue, TypeOK
    <3> QED
      BY <1>1, <3>2, <3>3, <3>4, <3>5 DEF Next, Processing, Fault
  <2>4. ASSUME UNCHANGED storeVars, queue' = queue \/ \E m \in Messages : m[1] = JobScan(w) /\ Publish(m)
        PROVE  Harmless(w)
    BY <2>1, <2>2, <2>4 DEF Publish, TypeOK
  <2>5. CASE RetryLater(w)
    <3>1. <<JobScan(w), Attempt(w) + 1>> \in Messages
      BY <2>1, <2>5, BoundsAssumption DEF RetryLater, Messages, JobScan, Attempt
    <3> QED
      BY <2>4, <2>5, <3>1 DEF RetryLater
  <2>6. CASE LoadScan(w) \/ CheckRunning(w) \/ EnqueueNextPending(w) \/ GiveUp(w)
             \/ RowsGone(w) \/ Acknowledge(w)
    BY <2>1, <2>4, <2>6
       DEF LoadScan, CheckRunning, EnqueueNextPending, GiveUp, RowsGone, Acknowledge
  <2>7. CASE \/ MarkScanRunning(w) \/ MarkDomainRunning(w) \/ StoreAssets(w)
             \/ MarkScanCompleted(w) \/ MarkDomainCompleted(w) \/ MarkScanFailed(w)
             \/ MarkDomainFailed(w)
    BY <1>1, <2>1, <2>7
       DEF MarkScanRunning, MarkDomainRunning, StoreAssets, MarkScanCompleted,
           MarkDomainCompleted, MarkScanFailed, MarkDomainFailed
  <2>8. CASE WorkerFault(w)
    BY <2>1, <2>4, <2>8
       DEF WorkerFault, WorkerCrash, ChildLost, WorkerDbError, RetryPublishFails,
           NextPublishFails, JobScan
  <2> QED
    BY <2>3, <2>5, <2>6, <2>7, <2>8 DEF TaskStep
<1>2. RowsInvariant /\ [Next]_vars =>
        [\A w \in Workers :
           (wPc[w] # "idle" /\ ~ScanExists(JobScan(w)) /\ wPc'[w] # wPc[w]) => Harmless(w)]_vars
  BY <1>1
<1> QED
  BY <1>2, RowsInvariantHolds, PTL DEF Spec, GoneJobsAreNoops
=============================================================================
