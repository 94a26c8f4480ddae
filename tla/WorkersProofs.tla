---------------------------- MODULE WorkersProofs ----------------------------
(***************************************************************************)
(* Any number of worker processes, domains, API threads, scans and         *)
(* retries, without faults: scans run one at a time, keep their outcomes   *)
(* and have their answers stored once, the service implements              *)
(* ScanLifecycle, and a domain at rest shows the outcome of its latest     *)
(* scan; every exception is one of the races DiscoveryHistory records.     *)
(***************************************************************************)
EXTENDS SeenToProofs, DiscoveryHistory

USE DEF storeVars, recoveryVars, requestVars, workerVars, faultVars

-----------------------------------------------------------------------------
(* The history *)

\* What has been noted stays noted.
RacesGrow == rivals \subseteq rivals' /\ duplicated \subseteq duplicated' /\ overtaken \subseteq overtaken'

LEMMA WatchNotesRaces ==
  ASSUME Watch
  PROVE  RacesAreNoted' /\ RacesGrow
<1>1. \A s, t \in ScanIds : RivalClaims(s, t)' => <<s, t>> \in rivals'
  <2> SUFFICES ASSUME NEW s \in ScanIds, NEW t \in ScanIds, RivalClaims(s, t)'
               PROVE  <<s, t>> \in rivals'
    OBVIOUS
  <2> DEFINE p == <<s, t>>
  <2>1. p \in ScanIds \X ScanIds /\ p[1] = s /\ p[2] = t
    OBVIOUS
  <2>2. RivalClaims(p[1], p[2])'
    BY DEF RivalClaims
  <2> QED
    BY <2>1, <2>2 DEF Watch
<1>2. \A s \in ScanIds : Duplicated(s)' => s \in duplicated'
  BY DEF Watch
<1>3. \A d \in Domains : Overtaken(d)' => d \in overtaken'
  BY DEF Watch
<1>4. RacesGrow
  BY DEF Watch, RacesGrow
<1> QED
  BY <1>1, <1>2, <1>3, <1>4 DEF RacesAreNoted

\* Two tasks with one scan in hand have been noted.
LEMMA NotedDuplicates ==
  ASSUME RacesAreNoted, NEW v \in Workers, NEW w \in Workers, v # w,
         NEW s \in ScanIds, HasInHand(v, s), HasInHand(w, s)
  PROVE  s \in duplicated
BY DEF RacesAreNoted, Duplicated

-----------------------------------------------------------------------------
(* What a task does to scans.status *)

\* It changes its own scan only: to RUNNING when it claims it as PENDING, to an
\* outcome at its end. A scan that was finished changes only if it is duplicated.
StatusStep(w, own) ==
  \A s \in ScanIds : scanStatus'[s] # scanStatus[s] =>
    /\ s = own
    /\ \/ /\ Claims(w)
          /\ scanStatus[s] = "PENDING" \/ (s \in duplicated /\ scanStatus[s] \in Finished)
          /\ scanStatus'[s] = "RUNNING"
       \/ /\ wPc[w] \in {"complete", "fail"}
          /\ scanStatus[s] = "RUNNING" \/ (s \in duplicated /\ scanStatus[s] \in Finished)
          /\ scanStatus'[s] \in Finished

LEMMA BusyStep ==
  ASSUME NEW w \in Workers, TaskStep(w)
  PROVE  wPc[w] # "idle"
BY DEF TaskStep, LoadScan, CheckRunning, MarkScanRunning, MarkDomainRunning, StoreAssets,
       MarkScanCompleted, MarkDomainCompleted, EnqueueNextPending, RetryLater, GiveUp,
       MarkScanFailed, MarkDomainFailed, RowsGone, Acknowledge, At

\* Another worker's task stays where it is.
LEMMA OtherTasks ==
  ASSUME TypeOK, NEW w \in Workers, TaskStep(w), NEW v \in Workers \ {w}
  PROVE  wPc'[v] = wPc[v] /\ job'[v] = job[v] /\ seen'[v] = seen[v]
BY DEF TypeOK, TaskStep, LoadScan, CheckRunning, MarkScanRunning, MarkDomainRunning, StoreAssets,
       MarkScanCompleted, MarkDomainCompleted, EnqueueNextPending, RetryLater, GiveUp,
       MarkScanFailed, MarkDomainFailed, RowsGone, Acknowledge, Continue, Forget

LEMMA TaskStatusStep ==
  ASSUME RowsInvariant, TaskHasStarted, TaskKnowsItsScan, NEW w \in Workers, TaskStep(w)
  PROVE  \E own \in ScanIds : own = JobScan(w) /\ StatusStep(w, own)
<1>1. PICK own \in ScanIds : own = JobScan(w)
  BY BusyStep, BusyTask DEF RowsInvariant
<1>2. scanStatus \in [ScanIds -> ScanStatus \cup {"NONE"}]
  BY DEF RowsInvariant, TypeOK
<1>3. CASE UNCHANGED scanStatus
  BY <1>1, <1>3 DEF StatusStep
<1>4. CASE MarkScanRunning(w)
  <2>1. /\ wPc[w] = "claim" /\ ScanExists(own)
        /\ scanStatus' = IF seen[w] = "RUNNING" THEN scanStatus
                         ELSE [scanStatus EXCEPT ![own] = "RUNNING"]
    BY <1>1, <1>4 DEF MarkScanRunning, At, UpdateScan
  <2>2. own \notin duplicated => scanStatus[own] = seen[w]
    BY <1>1, <2>1 DEF TaskKnowsItsScan
  <2>3. seen[w] \in Active
    BY <1>1, <2>1 DEF TaskHasStarted
  <2>4. scanStatus[own] \in {"PENDING", "RUNNING", "COMPLETED", "FAILED"}
    BY <1>2, <2>1 DEF ScanExists, ScanStatus
  <2> QED
    BY <1>1, <1>2, <1>3, <2>1, <2>2, <2>3, <2>4 DEF StatusStep, Claims, Active, Finished
<1>5. CASE MarkScanCompleted(w) \/ MarkScanFailed(w)
  <2>1. /\ wPc[w] \in {"complete", "fail"} /\ ScanExists(own)
        /\ \/ UNCHANGED scanStatus
           \/ \E outcome \in Finished : scanStatus' = [scanStatus EXCEPT ![own] = outcome]
    BY <1>1, <1>5 DEF MarkScanCompleted, MarkScanFailed, At, UpdateScan, Finished
  <2>2. own \notin duplicated => scanStatus[own] = "RUNNING"
    BY <1>1, <2>1 DEF TaskKnowsItsScan
  <2>3. scanStatus[own] # "PENDING"
    BY <1>1, <2>1 DEF TaskHasStarted
  <2>4. scanStatus[own] \in {"PENDING", "RUNNING", "COMPLETED", "FAILED"}
    BY <1>2, <2>1 DEF ScanExists, ScanStatus
  <2> QED
    BY <1>1, <1>2, <1>3, <2>1, <2>2, <2>3, <2>4 DEF StatusStep, Finished
<1> QED
  BY <1>3, <1>4, <1>5
     DEF TaskStep, LoadScan, CheckRunning, MarkDomainRunning, StoreAssets, MarkDomainCompleted,
         EnqueueNextPending, RetryLater, GiveUp, MarkDomainFailed, RowsGone, Acknowledge

-----------------------------------------------------------------------------
(* A task preserves the invariant *)

LEMMA TasksPreserveStart ==
  ASSUME RowsInvariant, TaskHasStarted, TaskKnowsItsScan, NEW w \in Workers, TaskStep(w)
  PROVE  TaskHasStarted'
<1>1. PICK own \in ScanIds : own = JobScan(w) /\ StatusStep(w, own)
  BY TaskStatusStep
<1>2. /\ wPc \in [Workers -> WorkerPcs]
      /\ seen \in [Workers -> ScanStatus \cup {"NONE"}]
      /\ scanStatus \in [ScanIds -> ScanStatus \cup {"NONE"}]
  BY DEF RowsInvariant, TypeOK
<1>3. \A s \in ScanIds : ScanExists(s)' <=> ScanExists(s)
  BY TasksKeepRows DEF RowsInvariant, RowsKept
<1>4. \A s \in ScanIds : scanStatus[s] # "PENDING" => scanStatus'[s] # "PENDING"
  BY <1>1 DEF StatusStep, Finished
<1>5. ASSUME NEW v \in Workers \ {w}, wPc'[v] # "idle", ScanExists(JobScan(v))'
      PROVE  /\ wPc'[v] \in {"check", "claim"} => seen'[v] \in Active
             /\ \/ wPc'[v] \in {"domainRunning", "resolve", "complete", "fail"}
                \/ wPc'[v] \in {"check", "claim"} /\ seen'[v] = "RUNNING"
                => scanStatus'[JobScan(v)'] # "PENDING"
  <2>1. wPc'[v] = wPc[v] /\ seen'[v] = seen[v] /\ JobScan(v)' = JobScan(v)
    BY OtherTasks DEF RowsInvariant, JobScan
  <2>2. PICK s \in ScanIds : s = JobScan(v) /\ ScanExists(s)
    BY <1>3, <1>5, <2>1, BusyTask DEF RowsInvariant, ScanExists
  <2> QED
    BY <1>4, <1>5, <2>1, <2>2 DEF TaskHasStarted
<1>6. ASSUME wPc'[w] # "idle", ScanExists(JobScan(w))'
      PROVE  /\ wPc'[w] \in {"check", "claim"} => seen'[w] \in Active
             /\ \/ wPc'[w] \in {"domainRunning", "resolve", "complete", "fail"}
                \/ wPc'[w] \in {"check", "claim"} /\ seen'[w] = "RUNNING"
                => scanStatus'[JobScan(w)'] # "PENDING"
  <2> USE DEF At, Continue, JobScan, ScanExists
  <2>1. CASE LoadScan(w)
    BY <1>2, <1>6, <2>1 DEF LoadScan, Active
  <2>2. CASE CheckRunning(w) \/ StoreAssets(w) \/ GiveUp(w)
    BY <1>2, <1>6, <2>2 DEF CheckRunning, StoreAssets, GiveUp, TaskHasStarted
  <2>3. CASE MarkScanRunning(w)
    <3>1. /\ wPc[w] = "claim" /\ ScanExists(own) /\ wPc'[w] = "domainRunning"
          /\ JobScan(w)' = own
          /\ scanStatus' = IF seen[w] = "RUNNING" THEN scanStatus
                           ELSE [scanStatus EXCEPT ![own] = "RUNNING"]
      BY <1>1, <1>2, <2>3 DEF MarkScanRunning, UpdateScan
    <3>2. seen[w] = "RUNNING" => scanStatus[own] # "PENDING"
      BY <1>1, <3>1 DEF TaskHasStarted
    <3> QED
      BY <1>2, <3>1, <3>2
  <2>4. CASE MarkDomainRunning(w)
    BY <1>2, <1>6, <2>4 DEF MarkDomainRunning, TaskHasStarted
  <2>5. CASE MarkScanCompleted(w) \/ MarkDomainCompleted(w) \/ MarkScanFailed(w)
             \/ MarkDomainFailed(w)
    BY <1>2, <1>6, <2>5 DEF MarkScanCompleted, MarkDomainCompleted, MarkScanFailed,
                            MarkDomainFailed
  <2>6. CASE EnqueueNextPending(w) \/ RetryLater(w) \/ RowsGone(w) \/ Acknowledge(w)
    BY <1>2, <1>6, <2>6 DEF EnqueueNextPending, RetryLater, RowsGone, Acknowledge, Forget
  <2> QED
    BY <2>1, <2>2, <2>3, <2>4, <2>5, <2>6 DEF TaskStep
<1> QED
  BY <1>5, <1>6 DEF TaskHasStarted
LEMMA TasksPreserveKnowledge ==
  ASSUME RowsInvariant, RacesAreNoted, TaskHasStarted, TaskKnowsItsScan, RacesGrow,
         NEW w \in Workers, TaskStep(w)
  PROVE  TaskKnowsItsScan'
<1>1. PICK own \in ScanIds : own = JobScan(w) /\ StatusStep(w, own)
  BY TaskStatusStep
<1>2. /\ wPc \in [Workers -> WorkerPcs]
      /\ seen \in [Workers -> ScanStatus \cup {"NONE"}]
      /\ scanStatus \in [ScanIds -> ScanStatus \cup {"NONE"}]
  BY DEF RowsInvariant, TypeOK
<1>3. \A s \in ScanIds : ScanExists(s)' <=> ScanExists(s)
  BY TasksKeepRows DEF RowsInvariant, RowsKept
<1> DEFINE Knows(v) ==
      /\ wPc[v] \in {"check", "claim"} => scanStatus[JobScan(v)] = seen[v]
      /\ wPc[v] \in {"domainRunning", "resolve", "complete", "fail"} =>
           scanStatus[JobScan(v)] = "RUNNING"
      /\ wPc[v] \in {"resolve", "complete", "fail"} => seen[v] = "RUNNING"
\* What another task has in hand is no scan of this one, or it is noted.
<1>4. ASSUME NEW v \in Workers \ {w}, wPc'[v] # "idle", ScanExists(JobScan(v))',
             JobScan(v)' \notin duplicated'
      PROVE  Knows(v)'
  <2>1. wPc'[v] = wPc[v] /\ seen'[v] = seen[v] /\ JobScan(v)' = JobScan(v)
    BY OtherTasks DEF RowsInvariant, JobScan
  <2>2. PICK s \in ScanIds : s = JobScan(v) /\ ScanExists(s)
    BY <1>3, <1>4, <2>1, BusyTask DEF RowsInvariant, ScanExists
  <2>3. s \notin duplicated
    BY <1>4, <2>1, <2>2 DEF RacesGrow
  <2>4. Knows(v)
    BY <1>4, <2>1, <2>2, <2>3 DEF TaskKnowsItsScan
  <2>5. ASSUME HasInHand(v, s)  PROVE scanStatus'[s] = scanStatus[s]
    <3>1. SUFFICES ASSUME scanStatus'[s] # scanStatus[s]  PROVE FALSE
      OBVIOUS
    <3>2. s = JobScan(w) /\ wPc[w] \in {"claim", "complete", "fail"}
      BY <1>1, <3>1 DEF StatusStep, Claims
    <3> QED
      BY <2>3, <2>5, <3>2, NotedDuplicates DEF HasInHand
  <2>6. wPc[v] \in {"check", "claim", "domainRunning", "resolve", "complete", "fail"}
          => HasInHand(v, s)
    BY <2>2 DEF HasInHand
  <2> QED
    BY <2>1, <2>2, <2>4, <2>5, <2>6
<1>5. ASSUME wPc'[w] # "idle", ScanExists(JobScan(w))', JobScan(w)' \notin duplicated'
      PROVE  Knows(w)'
  <2> USE DEF At, Continue, JobScan, ScanExists
  <2>1. JobScan(w) \notin duplicated
    BY <1>2, <1>5
       DEF RacesGrow, TaskStep, LoadScan, CheckRunning, MarkScanRunning, MarkDomainRunning,
           StoreAssets, MarkScanCompleted, MarkDomainCompleted, EnqueueNextPending, RetryLater,
           GiveUp, MarkScanFailed, MarkDomainFailed, RowsGone, Acknowledge, Forget
  <2>2. CASE LoadScan(w)
    BY <1>2, <1>5, <2>2 DEF LoadScan
  <2>3. CASE CheckRunning(w) \/ StoreAssets(w) \/ GiveUp(w)
    BY <1>2, <1>5, <2>1, <2>3 DEF CheckRunning, StoreAssets, GiveUp, TaskKnowsItsScan
  <2>4. CASE MarkScanRunning(w)
    BY <1>1, <1>2, <1>5, <2>1, <2>4 DEF MarkScanRunning, UpdateScan, TaskKnowsItsScan
  <2>5. CASE MarkDomainRunning(w)
    BY <1>2, <1>5, <2>1, <2>5 DEF MarkDomainRunning, TaskKnowsItsScan
  <2>6. CASE MarkScanCompleted(w) \/ MarkDomainCompleted(w) \/ MarkScanFailed(w)
             \/ MarkDomainFailed(w)
    BY <1>2, <1>5, <2>6 DEF MarkScanCompleted, MarkDomainCompleted, MarkScanFailed,
                            MarkDomainFailed
  <2>7. CASE EnqueueNextPending(w) \/ RetryLater(w) \/ RowsGone(w) \/ Acknowledge(w)
    BY <1>2, <1>5, <2>7 DEF EnqueueNextPending, RetryLater, RowsGone, Acknowledge, Forget
  <2> QED
    BY <2>2, <2>3, <2>4, <2>5, <2>6, <2>7 DEF TaskStep
<1> QED
  BY <1>4, <1>5 DEF TaskKnowsItsScan

\* Where a scan becomes RUNNING every other claim of its domain is a rival one.
LEMMA TasksPreserveClaims ==
  ASSUME RowsInvariant, RacesAreNoted, TaskHasStarted, TaskKnowsItsScan, ClaimIsFree,
         OverlappingScansAreRivals, RacesGrow, NEW w \in Workers, TaskStep(w)
  PROVE  ClaimIsFree' /\ OverlappingScansAreRivals'
<1>1. PICK own \in ScanIds : own = JobScan(w) /\ StatusStep(w, own)
  BY TaskStatusStep
<1>2. wPc \in [Workers -> WorkerPcs] /\ DomainOf(own) = JobDomain(w)
  BY <1>1 DEF RowsInvariant, TypeOK, JobDomain
<1>3. ASSUME NEW s \in ScanIds, scanStatus'[s] = "RUNNING", scanStatus[s] # "RUNNING"
      PROVE  s = own /\ Claims(w)
  BY <1>1, <1>3 DEF StatusStep, Finished
<1>4. ClaimIsFree'
  <2> SUFFICES ASSUME NEW v \in Workers, Claims(v)', NEW s \in ScanIds,
                      s # JobScan(v)', DomainOf(s) = JobDomain(v)', scanStatus'[s] = "RUNNING"
               PROVE  <<JobScan(v)', s>> \in rivals' /\ <<s, JobScan(v)'>> \in rivals'
    BY DEF ClaimIsFree
  <2>1. CASE v = w
    <3>1. CheckRunning(w)
      BY <1>2, <2>1
         DEF TaskStep, LoadScan, MarkScanRunning, MarkDomainRunning, StoreAssets,
             MarkScanCompleted, MarkDomainCompleted, EnqueueNextPending, RetryLater, GiveUp,
             MarkScanFailed, MarkDomainFailed, RowsGone, Acknowledge, Forget, Continue, Claims
    <3>2. ~HasRunningScan(JobDomain(w)) /\ JobDomain(w)' = JobDomain(w) /\ UNCHANGED scanStatus
      BY <1>2, <2>1, <3>1 DEF CheckRunning, Continue, Claims, JobDomain, JobScan
    <3>3. JobDomain(w) \in Domains
      BY <1>2, ScanIdParts
    <3> QED
      BY <2>1, <3>2, <3>3, RunningScanOf
  <2>2. CASE v # w
    <3>1. Claims(v) /\ JobScan(v)' = JobScan(v) /\ JobDomain(v)' = JobDomain(v)
      BY <2>2, OtherTasks DEF RowsInvariant, Claims, JobScan, JobDomain
    <3>2. PICK t \in ScanIds : t = JobScan(v) /\ DomainOf(t) = JobDomain(v)
      BY <3>1, BusyTask DEF RowsInvariant, Claims
    <3>3. <<t, s>> \in rivals /\ <<s, t>> \in rivals
      <4>1. CASE scanStatus[s] = "RUNNING"
        BY <3>1, <3>2, <4>1 DEF ClaimIsFree
      <4>2. CASE scanStatus[s] # "RUNNING"
        <5>1. s = JobScan(w) /\ Claims(w)
          BY <1>1, <1>3, <4>2
        <5>2. RivalClaims(s, t) /\ RivalClaims(t, s)
          BY <3>1, <3>2, <5>1 DEF RivalClaims
        <5> QED
          BY <5>2 DEF RacesAreNoted
      <4> QED
        BY <4>1, <4>2
    <3> QED
      BY <3>1, <3>2, <3>3 DEF RacesGrow
  <2> QED
    BY <2>1, <2>2
<1>5. OverlappingScansAreRivals'
  <2> SUFFICES ASSUME NEW s \in ScanIds, NEW t \in ScanIds, s # t, DomainOf(s) = DomainOf(t),
                      scanStatus'[s] = "RUNNING", scanStatus'[t] = "RUNNING"
               PROVE  <<s, t>> \in rivals
    BY DEF OverlappingScansAreRivals, RacesGrow
  <2>1. CASE scanStatus[s] = "RUNNING" /\ scanStatus[t] = "RUNNING"
    BY <2>1 DEF OverlappingScansAreRivals
  <2>2. CASE scanStatus[s] # "RUNNING" \/ scanStatus[t] # "RUNNING"
    <3>1. /\ Claims(w) /\ (s = own \/ t = own)
          /\ s = own => scanStatus[t] = "RUNNING"
          /\ t = own => scanStatus[s] = "RUNNING"
      BY <1>3, <2>2
    <3> QED
      BY <1>1, <1>2, <3>1 DEF ClaimIsFree
  <2> QED
    BY <2>1, <2>2
<1> QED
  BY <1>4, <1>5

LEMMA TasksPreserveAnswers ==
  ASSUME RowsInvariant, RacesAreNoted, TaskHasStarted, TaskKnowsItsScan, AnswersComeLast,
         AssetsStoredOnce, RacesGrow, NEW w \in Workers, TaskStep(w)
  PROVE  AnswersComeLast' /\ AssetsStoredOnce'
<1>1. /\ wPc \in [Workers -> WorkerPcs]
      /\ scanStatus \in [ScanIds -> ScanStatus \cup {"NONE"}]
      /\ assets \in [ScanIds -> Nat]
      /\ \A s \in ScanIds : assets[s] > 0 => ScanExists(s)
  BY DEF RowsInvariant, TypeOK, NoOrphanRows
<1>2. PICK own \in ScanIds : own = JobScan(w) /\ StatusStep(w, own)
  BY TaskStatusStep
<1>3. \A s \in ScanIds : scanStatus[s] \in Finished /\ s \notin duplicated => scanStatus'[s] \in Finished
  BY <1>2 DEF StatusStep, Finished
<1>4. \A s \in ScanIds : s \notin duplicated' => s \notin duplicated
  BY DEF RacesGrow
<1>5. \A v \in Workers \ {w} : wPc'[v] = wPc[v] /\ JobScan(v)' = JobScan(v)
  BY OtherTasks DEF RowsInvariant, JobScan
\* Its scan is RUNNING, so nothing has been stored for it yet.
<1>6. CASE StoreAssets(w)
  <2>1. /\ wPc[w] = "resolve" /\ wPc'[w] = "complete" /\ JobScan(w)' = own
        /\ ScanExists(own)
        /\ assets' = [assets EXCEPT ![own] = @ + 1]
    BY <1>1, <1>2, <1>6 DEF StoreAssets, At, Continue, JobScan
  <2>2. own \notin duplicated => assets[own] = 0
    <3> SUFFICES ASSUME own \notin duplicated, assets[own] > 0  PROVE FALSE
      BY <1>1
    <3>1. scanStatus[own] = "RUNNING"
      BY <1>2, <2>1 DEF TaskKnowsItsScan
    <3>2. PICK v \in Workers : wPc[v] = "complete" /\ JobScan(v) = own
      BY <3>1 DEF AnswersComeLast, Finished
    <3>3. v # w /\ HasInHand(v, own) /\ HasInHand(w, own)
      BY <1>2, <2>1, <3>2 DEF HasInHand
    <3> QED
      BY <3>3, NotedDuplicates
  <2>3. AnswersComeLast'
    <3> SUFFICES ASSUME NEW s \in ScanIds, assets'[s] > 0, s \notin duplicated', s # own
                 PROVE  \/ scanStatus'[s] \in Finished
                        \/ \E v \in Workers : wPc'[v] = "complete" /\ JobScan(v)' = s
      BY <2>1 DEF AnswersComeLast
    <3>1. assets[s] > 0 /\ s \notin duplicated
      BY <1>1, <1>4, <2>1
    <3>2. CASE scanStatus[s] \in Finished
      BY <1>3, <3>1, <3>2
    <3>3. ASSUME NEW v \in Workers, wPc[v] = "complete", JobScan(v) = s
          PROVE  wPc'[v] = "complete" /\ JobScan(v)' = s
      BY <1>2, <1>5, <2>1, <3>3
    <3> QED
      BY <3>1, <3>2, <3>3 DEF AnswersComeLast
  <2>4. AssetsStoredOnce'
    BY <1>1, <1>4, <2>1, <2>2 DEF AssetsStoredOnce
  <2> QED
    BY <2>3, <2>4
<1>7. CASE UNCHANGED assets
  <2>1. AssetsStoredOnce'
    BY <1>4, <1>7 DEF AssetsStoredOnce
  <2>2. AnswersComeLast'
    <3> SUFFICES ASSUME NEW s \in ScanIds, assets[s] > 0, s \notin duplicated
                 PROVE  \/ scanStatus'[s] \in Finished
                        \/ \E v \in Workers : wPc'[v] = "complete" /\ JobScan(v)' = s
      BY <1>4, <1>7 DEF AnswersComeLast
    <3>1. CASE scanStatus[s] \in Finished
      BY <1>3, <3>1
    <3>2. ASSUME NEW v \in Workers \ {w}, wPc[v] = "complete", JobScan(v) = s
          PROVE  wPc'[v] = "complete" /\ JobScan(v)' = s
      BY <1>5, <3>2
    <3>3. CASE wPc[w] = "complete" /\ JobScan(w) = s
      <4>1. MarkScanCompleted(w) \/ RowsGone(w)
        BY <3>3 DEF TaskStep, LoadScan, CheckRunning, MarkScanRunning, MarkDomainRunning,
                    StoreAssets, MarkDomainCompleted, EnqueueNextPending, RetryLater, GiveUp,
                    MarkScanFailed, MarkDomainFailed, Acknowledge, At
      <4>2. CASE MarkScanCompleted(w)
        BY <1>1, <1>2, <3>3, <4>2 DEF MarkScanCompleted, Finished
      <4>3. CASE RowsGone(w)
        BY <1>1, <1>2, <3>3, <4>3 DEF RowsGone
      <4> QED
        BY <4>1, <4>2, <4>3
    <3> QED
      BY <3>1, <3>2, <3>3 DEF AnswersComeLast
  <2> QED
    BY <2>1, <2>2
<1> QED
  BY <1>6, <1>7
     DEF TaskStep, LoadScan, CheckRunning, MarkScanRunning, MarkDomainRunning,
         MarkScanCompleted, MarkDomainCompleted, EnqueueNextPending, RetryLater, GiveUp,
         MarkScanFailed, MarkDomainFailed, RowsGone, Acknowledge

LEMMA TasksPreserveWorkersInvariant ==
  ASSUME RowsInvariant, WorkersInvariant, RacesGrow, RacesAreNoted',
         NEW w \in Workers, TaskStep(w)
  PROVE  WorkersInvariant'
<1>1. /\ TaskHasStarted' /\ TaskKnowsItsScan' /\ ClaimIsFree' /\ OverlappingScansAreRivals'
      /\ AnswersComeLast' /\ AssetsStoredOnce'
  BY TasksPreserveStart, TasksPreserveKnowledge, TasksPreserveClaims, TasksPreserveAnswers
     DEF WorkersInvariant
<1>2. UNCHANGED <<created, locked, recoveryVars, requestVars>> /\ RowsKept
  BY WorkerFrame, TasksKeepRows DEF RowsInvariant
<1>3. PICK own \in ScanIds : own = JobScan(w) /\ StatusStep(w, own)
  BY TaskStatusStep DEF WorkersInvariant
<1>4. FirstStartFindsNothing'
  BY <1>2 DEF WorkersInvariant, FirstStartFindsNothing, RowsKept
<1>5. CreationsAreSingle'
  <2>1. \A r \in Requests : reqPc[r] = "initialScan" => ReqDomain(r) \in Domains
    BY DEF RowsInvariant, TypeOK, ReqDomain, Targets
  <2> QED
    BY <1>2, <2>1 DEF WorkersInvariant, CreationsAreSingle, RowsKept, ReqDomain
<1>6. TriggerCheckStaysValid'
  <2> SUFFICES ASSUME NEW r \in Requests, reqPc[r] = "insert"
               PROVE  /\ DomainExists(ReqDomain(r))'
                      /\ \A n \in 1..MaxScans :
                           scanStatus'[<<ReqDomain(r), n>>] \in Active
                             => <<ReqDomain(r), n>> \in duplicated'
    BY <1>2 DEF TriggerCheckStaysValid, ReqDomain
  <2>1. PICK d \in Domains :
          /\ d = ReqDomain(r) /\ DomainExists(d)
          /\ \A n \in 1..MaxScans : scanStatus[<<d, n>>] \in Active => <<d, n>> \in duplicated
    BY DEF WorkersInvariant, TriggerCheckStaysValid, RowsInvariant, TypeOK, ReqDomain, Targets
  <2>2. \A n \in 1..MaxScans : <<d, n>> \in ScanIds
    BY DEF ScanIds
  <2>3. \A s \in ScanIds : (scanStatus'[s] \in Active /\ s \notin duplicated) => scanStatus[s] \in Active
    BY <1>3 DEF StatusStep, Active, Finished
  <2> QED
    BY <1>2, <2>1, <2>2, <2>3 DEF RowsKept, ReqDomain, RacesGrow
<1> QED
  BY <1>1, <1>4, <1>5, <1>6 DEF WorkersInvariant

-----------------------------------------------------------------------------
(* The other processes preserve the invariant *)

LEMMA TakeJobPreservesWorkersInvariant ==
  ASSUME RowsInvariant, WorkersInvariant, RacesGrow, RacesAreNoted',
         NEW w \in Workers, NEW m \in Messages, TakeJob(w, m)
  PROVE  WorkersInvariant'
<1>1. /\ wPc[w] = "idle" /\ wPc'[w] = "load"
      /\ UNCHANGED <<storeVars, recoveryVars, requestVars, seen>>
      /\ \A v \in Workers \ {w} : wPc'[v] = wPc[v] /\ job'[v] = job[v]
  BY DEF TakeJob, At, Continue, RowsInvariant, TypeOK
<1>2. \A s \in ScanIds : s \notin duplicated' => s \notin duplicated
  BY DEF RacesGrow
<1>3. FirstStartFindsNothing'
  BY <1>1 DEF WorkersInvariant, FirstStartFindsNothing, ScanExists
<1>4. OverlappingScansAreRivals' /\ AssetsStoredOnce'
  BY <1>1, <1>2 DEF WorkersInvariant, OverlappingScansAreRivals, AssetsStoredOnce, RacesGrow
<1>5. TaskHasStarted'
  BY <1>1 DEF WorkersInvariant, TaskHasStarted, JobScan, ScanExists
<1>6. TaskKnowsItsScan'
  <2> SUFFICES ASSUME NEW v \in Workers \ {w}, wPc[v] # "idle", ScanExists(JobScan(v)),
                      JobScan(v) \notin duplicated
               PROVE  /\ wPc[v] \in {"check", "claim"} => scanStatus[JobScan(v)] = seen[v]
                      /\ wPc[v] \in {"domainRunning", "resolve", "complete", "fail"} =>
                           scanStatus[JobScan(v)] = "RUNNING"
                      /\ wPc[v] \in {"resolve", "complete", "fail"} => seen[v] = "RUNNING"
    BY <1>1 DEF TaskKnowsItsScan, JobScan, ScanExists, RacesGrow
  <2> QED
    BY DEF WorkersInvariant, TaskKnowsItsScan
<1>7. ClaimIsFree'
  <2> SUFFICES ASSUME NEW v \in Workers \ {w}, Claims(v), NEW s \in ScanIds,
                      s # JobScan(v), DomainOf(s) = JobDomain(v), scanStatus[s] = "RUNNING"
               PROVE  <<JobScan(v), s>> \in rivals /\ <<s, JobScan(v)>> \in rivals
    BY <1>1 DEF ClaimIsFree, Claims, JobScan, JobDomain, RacesGrow
  <2> QED
    BY DEF WorkersInvariant, ClaimIsFree
<1>8. AnswersComeLast'
  <2> SUFFICES ASSUME NEW s \in ScanIds, assets[s] > 0, s \notin duplicated
               PROVE  \/ scanStatus[s] \in Finished
                      \/ \E v \in Workers \ {w} : wPc[v] = "complete" /\ JobScan(v) = s
    BY <1>1, <1>2 DEF AnswersComeLast, JobScan
  <2> QED
    BY <1>1 DEF WorkersInvariant, AnswersComeLast
<1>9. CreationsAreSingle'
  BY <1>1 DEF WorkersInvariant, CreationsAreSingle, ReqDomain
<1>10. TriggerCheckStaysValid'
  BY <1>1 DEF WorkersInvariant, TriggerCheckStaysValid, ReqDomain, DomainExists, RacesGrow
<1> QED
  BY <1>3, <1>4, <1>5, <1>6, <1>7, <1>8, <1>9, <1>10 DEF WorkersInvariant

\* A step that inserts scans, deletes them or leaves them alone, and concerns no
\* task's scan but by deleting it.
TasksUndisturbed ==
  /\ UNCHANGED workerVars
  /\ \A s \in ScanIds : scanStatus'[s] \in {scanStatus[s], "NONE", "PENDING"}
  /\ \A s \in ScanIds :
       (scanStatus'[s] = "PENDING" /\ scanStatus[s] # "PENDING") =>
         ~Created(s) /\ assets[s] = 0
  /\ \A s \in ScanIds : assets'[s] = assets[s] \/ assets'[s] = 0
  /\ \A s \in ScanIds : scanStatus'[s] = "NONE" => assets'[s] = 0

\* The scan of a task is as it was, if it is still there.
LEMMA UndisturbedScan ==
  ASSUME RowsInvariant, TasksUndisturbed, NEW w \in Workers, wPc[w] # "idle",
         ScanExists(JobScan(w))'
  PROVE  /\ JobScan(w)' = JobScan(w) /\ ScanExists(JobScan(w))
         /\ scanStatus'[JobScan(w)] = scanStatus[JobScan(w)]
<1>1. PICK own \in ScanIds : own = JobScan(w) /\ Created(own)
  BY BusyTask DEF RowsInvariant, JobsNameCreatedScans
<1>2. JobScan(w)' = own /\ scanStatus'[own] # "NONE"
  BY <1>1 DEF ScanExists, JobScan, TasksUndisturbed
<1> QED
  BY <1>1, <1>2 DEF ScanExists, TasksUndisturbed

LEMMA UndisturbedTasks ==
  ASSUME RowsInvariant, WorkersInvariant, RacesGrow, TasksUndisturbed
  PROVE  /\ TaskHasStarted' /\ TaskKnowsItsScan' /\ ClaimIsFree' /\ OverlappingScansAreRivals'
         /\ AnswersComeLast' /\ AssetsStoredOnce'
<1>1. \A s \in ScanIds : scanStatus'[s] = "RUNNING" => scanStatus[s] = "RUNNING"
  BY DEF TasksUndisturbed
<1>2. UNCHANGED workerVars
  BY DEF TasksUndisturbed
<1>3. TaskHasStarted'
  BY <1>2, UndisturbedScan DEF WorkersInvariant, TaskHasStarted
<1>4. TaskKnowsItsScan'
  <2> SUFFICES ASSUME NEW w \in Workers, wPc[w] # "idle", ScanExists(JobScan(w))',
                      JobScan(w)' \notin duplicated'
               PROVE  /\ JobScan(w)' = JobScan(w) /\ ScanExists(JobScan(w))
                      /\ scanStatus'[JobScan(w)] = scanStatus[JobScan(w)]
                      /\ JobScan(w) \notin duplicated
    BY <1>2 DEF WorkersInvariant, TaskKnowsItsScan
  <2> QED
    BY UndisturbedScan DEF RacesGrow
<1>5. ClaimIsFree'
  <2> SUFFICES ASSUME NEW w \in Workers, Claims(w), NEW s \in ScanIds, s # JobScan(w),
                      DomainOf(s) = JobDomain(w), scanStatus'[s] = "RUNNING"
               PROVE  <<JobScan(w), s>> \in rivals /\ <<s, JobScan(w)>> \in rivals
    BY <1>2 DEF ClaimIsFree, Claims, JobScan, JobDomain, RacesGrow
  <2> QED
    BY <1>1 DEF WorkersInvariant, ClaimIsFree
<1>6. OverlappingScansAreRivals'
  BY <1>1 DEF WorkersInvariant, OverlappingScansAreRivals, RacesGrow
<1>7. \A s \in ScanIds : s \notin duplicated' => s \notin duplicated
  BY DEF RacesGrow
<1>8. AssetsStoredOnce'
  BY <1>7 DEF WorkersInvariant, AssetsStoredOnce, TasksUndisturbed
<1>9. AnswersComeLast'
  <2> SUFFICES ASSUME NEW s \in ScanIds, assets'[s] > 0, s \notin duplicated
               PROVE  \/ scanStatus'[s] \in Finished
                      \/ \E w \in Workers : wPc[w] = "complete" /\ JobScan(w) = s
    BY <1>2, <1>7 DEF AnswersComeLast, JobScan
  <2>1. assets[s] > 0 /\ scanStatus'[s] = scanStatus[s]
    BY DEF TasksUndisturbed
  <2> QED
    BY <2>1 DEF WorkersInvariant, AnswersComeLast
<1> QED
  BY <1>3, <1>4, <1>5, <1>6, <1>8, <1>9

LEMMA DeletePreservesWorkersInvariant ==
  ASSUME RowsInvariant, WorkersInvariant, RacesGrow, RacesAreNoted',
         NEW d \in Domains, DeleteDomain(d)
  PROVE  WorkersInvariant'
<1>1. /\ UNCHANGED <<api, batch, requestVars, workerVars, locked>>
      /\ api = "up" /\ d \notin locked
      /\ \A s \in ScanIds : /\ scanStatus'[s] = IF DomainOf(s) = d THEN "NONE" ELSE scanStatus[s]
                            /\ assets'[s] = IF DomainOf(s) = d THEN 0 ELSE assets[s]
      /\ domainStatus' = [domainStatus EXCEPT ![d] = "DELETED"]
  BY DEF DeleteDomain
<1>2. TasksUndisturbed
  BY <1>1 DEF TasksUndisturbed, RowsInvariant, TypeOK, NoOrphanRows, ScanExists
<1>3. FirstStartFindsNothing'
  BY <1>1 DEF FirstStartFindsNothing
<1>4. \A r \in Requests : reqPc[r] \in {"initialScan", "insert"} => ReqDomain(r) \in Domains
  BY DEF RowsInvariant, TypeOK, ReqDomain, Targets
<1>5. CreationsAreSingle'
  BY <1>1, <1>4 DEF WorkersInvariant, CreationsAreSingle, ReqDomain, RowsInvariant, TypeOK
<1>6. TriggerCheckStaysValid'
  <2> SUFFICES ASSUME NEW r \in Requests, reqPc[r] = "insert"
               PROVE  /\ DomainExists(ReqDomain(r))'
                      /\ \A n \in 1..MaxScans :
                           scanStatus'[<<ReqDomain(r), n>>] \in Active
                             => <<ReqDomain(r), n>> \in duplicated
    BY <1>1 DEF TriggerCheckStaysValid, ReqDomain, RacesGrow
  <2>1. PICK e \in Domains : e = ReqDomain(r)
    BY <1>4
  <2>2. /\ e # d /\ DomainExists(e)
        /\ \A n \in 1..MaxScans : scanStatus[<<e, n>>] \in Active => <<e, n>> \in duplicated
    BY <1>1, <2>1 DEF WorkersInvariant, TriggerCheckStaysValid, RowsInvariant,
                      LockHeldByOneTrigger
  <2>3. \A n \in 1..MaxScans : <<e, n>> \in ScanIds /\ DomainOf(<<e, n>>) = e
    BY DEF ScanIds, DomainOf
  <2>4. DomainExists(e)'
    BY <1>1, <2>2 DEF DomainExists, RowsInvariant, TypeOK
  <2>5. DomainExists(ReqDomain(r))'
    BY <1>1, <2>1, <2>4 DEF ReqDomain
  <2> QED
    BY <1>1, <2>1, <2>2, <2>3, <2>5
<1> QED
  BY <1>2, <1>3, <1>5, <1>6, UndisturbedTasks DEF WorkersInvariant

\* Without faults the recovery runs once, and finds nothing.
LEMMA RecoveryPreservesWorkersInvariant ==
  ASSUME RowsInvariant, WorkersInvariant, RacesGrow, RacesAreNoted', RecoveryStep
  PROVE  WorkersInvariant'
<1>1. UNCHANGED <<domainStatus, created, assets, locked, requestVars, workerVars>>
  BY RecoveryFrame
<1>2. api # "up" /\ api # "reset" /\ batch = {} /\ \A s \in ScanIds : scanStatus[s] = "NONE"
  BY DEF RecoveryStep, SelectRunning, ResetInterrupted, ListRecoverable, RequeueScan,
         StartServing, WorkersInvariant, FirstStartFindsNothing, ScanExists
<1>3. UNCHANGED <<scanStatus, batch>> /\ api' # "reset"
  BY <1>2 DEF RecoveryStep, SelectRunning, ResetInterrupted, ListRecoverable, RequeueScan,
              StartServing, Active
<1>4. TasksUndisturbed
  BY <1>1, <1>2, <1>3 DEF TasksUndisturbed, RowsInvariant, TypeOK, NoOrphanRows, ScanExists
<1>5. FirstStartFindsNothing'
  BY <1>1, <1>2, <1>3 DEF WorkersInvariant, FirstStartFindsNothing, ScanExists
<1>6. CreationsAreSingle' /\ TriggerCheckStaysValid'
  BY <1>1, <1>3 DEF WorkersInvariant, CreationsAreSingle, TriggerCheckStaysValid, ReqDomain,
                    DomainExists, RacesGrow
<1> QED
  BY <1>4, <1>5, <1>6, UndisturbedTasks DEF WorkersInvariant

LEMMA StutterPreservesWorkersInvariant ==
  ASSUME WorkersInvariant, UNCHANGED vars, RacesGrow, RacesAreNoted'
  PROVE  WorkersInvariant'
<1>1. FirstStartFindsNothing' /\ TaskHasStarted' /\ CreationsAreSingle'
  BY DEF vars, WorkersInvariant, FirstStartFindsNothing, TaskHasStarted, CreationsAreSingle,
         ScanExists, JobScan, ReqDomain
<1>2. TaskKnowsItsScan'
  BY DEF vars, WorkersInvariant, TaskKnowsItsScan, ScanExists, JobScan, RacesGrow
<1>3. ClaimIsFree' /\ OverlappingScansAreRivals'
  BY DEF vars, WorkersInvariant, ClaimIsFree, OverlappingScansAreRivals, Claims, JobScan,
         JobDomain, RacesGrow
<1>4. AnswersComeLast' /\ AssetsStoredOnce'
  BY DEF vars, WorkersInvariant, AnswersComeLast, AssetsStoredOnce, JobScan, RacesGrow
<1>5. TriggerCheckStaysValid'
  BY DEF vars, WorkersInvariant, TriggerCheckStaysValid, DomainExists, ReqDomain, RacesGrow
<1> QED
  BY <1>1, <1>2, <1>3, <1>4, <1>5 DEF WorkersInvariant

\* An insertion concerns no task, and no trigger that holds a lock.
LEMMA InsertionPreserves ==
  ASSUME RowsInvariant, NEW d \in Domains, InsertScan(d), UNCHANGED <<assets, workerVars>>
  PROVE  /\ TasksUndisturbed
         /\ \A s \in ScanIds : DomainOf(s) # d => scanStatus'[s] = scanStatus[s]
<1>1. PICK t \in ScanIds :
        /\ t = <<d, created[d] + 1>>
        /\ ~Created(t)
        /\ scanStatus[t] = "NONE" /\ scanStatus'[t] = "PENDING"
        /\ \A s \in ScanIds \ {t} : scanStatus'[s] = scanStatus[s]
  BY InsertedScan
<1>2. \A s \in ScanIds : scanStatus[s] = "NONE" => assets[s] = 0
  BY DEF RowsInvariant, TypeOK, NoOrphanRows, ScanExists
<1>3. TasksUndisturbed
  BY <1>1, <1>2 DEF TasksUndisturbed
<1> QED
  BY <1>1, <1>3 DEF DomainOf

LEMMA RequestsPreserveWorkersInvariant ==
  ASSUME RowsInvariant, WorkersInvariant, RacesGrow, RacesAreNoted', NEW r \in Requests,
         HandlerStep(r) \/ \E d \in Domains : CreateDomain(r, d) \/ LockAndCheck(r, d)
  PROVE  WorkersInvariant'
<1>1. UNCHANGED <<assets, recoveryVars, workerVars>>
  BY RequestFrame
<1>2. /\ reqPc \in [Requests -> RequestPcs]
      /\ reqScan \in [Requests -> Targets \cup {NoScan}]
      /\ \A q \in Requests : reqPc[q] # "idle" => ReqDomain(q) \in Domains
      /\ domainStatus \in [Domains -> DomainStatus \cup {"NEW", "DELETED"}]
  BY DEF RowsInvariant, TypeOK, ReqDomain, Targets
<1>3. api = "up"
  BY DEF HandlerStep, InsertInitialScan, InitialScanRefused, ReadInitialDomain,
         WriteInitialDomain, InitialDomainGone, InsertManualScan, EnqueueNewScan,
         CreateDomain, LockAndCheck, StartRequest, WorkersInvariant, FirstStartFindsNothing
<1>4. FirstStartFindsNothing'
  BY <1>1, <1>3 DEF FirstStartFindsNothing
<1>5. ASSUME UNCHANGED scanStatus  PROVE TasksUndisturbed
  BY <1>1, <1>5 DEF TasksUndisturbed, RowsInvariant, TypeOK, NoOrphanRows, ScanExists
<1>6. \A q \in Requests \ {r} : reqPc'[q] = reqPc[q] /\ reqScan'[q] = reqScan[q]
  BY <1>2 DEF HandlerStep, InsertInitialScan, InitialScanRefused, ReadInitialDomain,
              WriteInitialDomain, InitialDomainGone, InsertManualScan, EnqueueNewScan,
              CreateDomain, LockAndCheck, StartRequest, EndRequest, Goto
\* A request that leaves no creation and no trigger of its own behind.
<1>7. ASSUME reqPc'[r] \notin {"initialScan", "insert"},
             \A e \in Domains : domainStatus'[e] = domainStatus[e]
                                  \/ (DomainExists(e) /\ domainStatus'[e] \in DomainStatus)
      PROVE  CreationsAreSingle'
  <2>1. \A e \in Domains : domainStatus'[e] = "NEW" => domainStatus[e] = "NEW"
    BY <1>7 DEF DomainStatus
  <2> QED
    BY <1>2, <1>6, <1>7, <2>1 DEF WorkersInvariant, CreationsAreSingle, ReqDomain
<1>8. ASSUME reqPc'[r] \notin {"initialScan", "insert"},
             \A e \in Domains : domainStatus'[e] = domainStatus[e]
                                  \/ (DomainExists(e) /\ domainStatus'[e] \in DomainStatus),
             \A q \in Requests \ {r}, n \in 1..MaxScans :
               reqPc[q] = "insert" =>
                 scanStatus'[<<ReqDomain(q), n>>] = scanStatus[<<ReqDomain(q), n>>]
      PROVE  TriggerCheckStaysValid'
  <2> SUFFICES ASSUME NEW q \in Requests \ {r}, reqPc[q] = "insert", reqScan'[q] = reqScan[q]
               PROVE  /\ DomainExists(ReqDomain(q))'
                      /\ \A n \in 1..MaxScans :
                           scanStatus'[<<ReqDomain(q), n>>] \in Active
                             => <<ReqDomain(q), n>> \in duplicated
    BY <1>6, <1>8 DEF TriggerCheckStaysValid, RacesGrow, ReqDomain
  <2>1. PICK e \in Domains : e = ReqDomain(q) /\ DomainExists(e)
    BY <1>2 DEF WorkersInvariant, TriggerCheckStaysValid
  <2>2. DomainExists(e)'
    BY <1>8, <2>1 DEF DomainExists
  <2>3. DomainExists(ReqDomain(q))'
    BY <2>1, <2>2 DEF ReqDomain
  <2> QED
    BY <1>8, <2>3 DEF WorkersInvariant, TriggerCheckStaysValid
<1>9. CASE InsertInitialScan(r) \/ InsertManualScan(r)
  <2>1. PICK d \in Domains : d = ReqDomain(r)
    BY <1>2, <1>9 DEF InsertInitialScan, InsertManualScan
  <2>2. /\ InsertScan(d)
        /\ reqPc'[r] \in {"initialRead", "enqueue"}
        /\ d \notin locked \/ reqPc[r] = "insert"
        /\ DomainExists(d)
        /\ \/ UNCHANGED domainStatus
           \/ domainStatus' = [domainStatus EXCEPT ![d] = IF @ = "RUNNING" THEN @ ELSE "PENDING"]
    BY <1>2, <1>9, <2>1 DEF InsertInitialScan, InsertManualScan, Goto, RowsInvariant,
                            LockedDomainExists
  <2>3. \A e \in Domains : domainStatus'[e] = domainStatus[e]
                             \/ (DomainExists(e) /\ domainStatus'[e] \in DomainStatus)
    BY <1>2, <2>2 DEF DomainStatus
  <2>4. TasksUndisturbed /\ \A s \in ScanIds : DomainOf(s) # d => scanStatus'[s] = scanStatus[s]
    BY <1>1, <2>2, InsertionPreserves
  <2>5. ASSUME NEW q \in Requests \ {r}, NEW n \in 1..MaxScans, reqPc[q] = "insert"
        PROVE  scanStatus'[<<ReqDomain(q), n>>] = scanStatus[<<ReqDomain(q), n>>]
    <3>1. PICK e \in Domains : e = ReqDomain(q) /\ e \in locked
      BY <1>2, <2>5 DEF RowsInvariant, LockHeldByOneTrigger
    <3>2. e # d
      BY <2>1, <2>2, <2>5, <3>1 DEF RowsInvariant, LockHeldByOneTrigger
    <3>3. <<e, n>> \in ScanIds /\ DomainOf(<<e, n>>) = e
      BY DEF ScanIds, DomainOf
    <3> QED
      BY <2>4, <3>1, <3>2, <3>3
  <2> QED
    BY <1>4, <1>7, <1>8, <2>2, <2>3, <2>4, <2>5, UndisturbedTasks DEF WorkersInvariant
<1>10. CASE InitialScanRefused(r) \/ ReadInitialDomain(r) \/ WriteInitialDomain(r)
            \/ InitialDomainGone(r) \/ EnqueueNewScan(r)
  <2>1. UNCHANGED scanStatus /\ reqPc'[r] \in {"idle", "initialWrite", "enqueue"}
    BY <1>2, <1>10 DEF InitialScanRefused, ReadInitialDomain, WriteInitialDomain,
                       InitialDomainGone, EnqueueNewScan, EndRequest, Goto
  <2>2. \A e \in Domains : domainStatus'[e] = domainStatus[e]
                             \/ (DomainExists(e) /\ domainStatus'[e] \in DomainStatus)
    BY <1>2, <1>10 DEF InitialScanRefused, ReadInitialDomain, WriteInitialDomain,
                       InitialDomainGone, EnqueueNewScan, SetDomainStatus, DomainStatus
  <2> QED
    BY <1>4, <1>5, <1>7, <1>8, <2>1, <2>2, UndisturbedTasks DEF WorkersInvariant
<1>11. ASSUME NEW d \in Domains, CreateDomain(r, d)  PROVE WorkersInvariant'
  <2>1. /\ domainStatus[d] = "NEW" /\ domainStatus' = [domainStatus EXCEPT ![d] = "PENDING"]
        /\ reqPc'[r] = "initialScan" /\ reqScan'[r] = <<d, 0>>
        /\ UNCHANGED scanStatus
    BY <1>2, <1>11 DEF CreateDomain, StartRequest, Goto
  <2>2. CreationsAreSingle'
    BY <1>2, <1>6, <2>1 DEF WorkersInvariant, CreationsAreSingle, ReqDomain
  <2>3. TriggerCheckStaysValid'
    BY <1>2, <1>6, <2>1 DEF WorkersInvariant, TriggerCheckStaysValid, ReqDomain, DomainExists,
                            DomainStatus, RacesGrow
  <2> QED
    BY <1>4, <1>5, <2>1, <2>2, <2>3, UndisturbedTasks DEF WorkersInvariant
<1>12. ASSUME NEW d \in Domains, LockAndCheck(r, d)  PROVE WorkersInvariant'
  <2>1. /\ DomainExists(d) /\ ~HasActiveScan(d)
        /\ reqPc'[r] = "insert" /\ reqScan'[r] = <<d, 0>>
        /\ UNCHANGED <<domainStatus, scanStatus>>
    BY <1>2, <1>12 DEF LockAndCheck, StartRequest, Goto
  <2>2. CreationsAreSingle'
    BY <1>6, <2>1 DEF WorkersInvariant, CreationsAreSingle, ReqDomain
  <2>3. TriggerCheckStaysValid'
    BY <1>6, <2>1 DEF WorkersInvariant, TriggerCheckStaysValid, ReqDomain, DomainExists,
                      HasActiveScan, RacesGrow
  <2> QED
    BY <1>4, <1>5, <2>1, <2>2, <2>3, UndisturbedTasks DEF WorkersInvariant
<1> QED
  BY <1>9, <1>10, <1>11, <1>12 DEF HandlerStep

LEMMA InitWorkersInvariant == WatchedInit => WorkersInvariant
<1> SUFFICES ASSUME WatchedInit  PROVE WorkersInvariant
  OBVIOUS
<1>1. Init
  BY DEF WatchedInit
<1>2. FirstStartFindsNothing /\ TaskHasStarted /\ TaskKnowsItsScan /\ ClaimIsFree
  BY <1>1 DEF Init, FirstStartFindsNothing, TaskHasStarted, TaskKnowsItsScan, ClaimIsFree,
              Claims, ScanExists
<1>3. OverlappingScansAreRivals /\ AnswersComeLast /\ AssetsStoredOnce
  BY <1>1 DEF Init, OverlappingScansAreRivals, AnswersComeLast, AssetsStoredOnce
<1>4. CreationsAreSingle /\ TriggerCheckStaysValid
  BY <1>1 DEF Init, CreationsAreSingle, TriggerCheckStaysValid
<1>5. RacesAreNoted
  BY <1>1 DEF Init, RacesAreNoted, RivalClaims, Duplicated, Overtaken, Claims, HasInHand, Carries
<1> QED
  BY <1>2, <1>3, <1>4, <1>5 DEF WorkersInvariant

\* The history variables only watch.
LEMMA WatchedIsSpec == WatchedSpec => Spec
<1>1. WatchedInit => Init
  BY DEF WatchedInit
<1>2. [Next /\ Watch]_<<vars, raceVars>> => [Next]_vars
  OBVIOUS
<1> QED
  BY <1>1, <1>2, PTL DEF WatchedSpec, Spec

\* A step, or none: what has been noted stays noted, and every race is noted.
LEMMA StepsNoteRaces ==
  ASSUME RacesAreNoted, [Next /\ Watch]_<<vars, raceVars>>
  PROVE  RacesGrow /\ RacesAreNoted'
<1>1. CASE Watch
  BY <1>1, WatchNotesRaces
<1>2. CASE UNCHANGED <<vars, raceVars>>
  BY <1>2 DEF vars, raceVars, RacesGrow, RacesAreNoted, RivalClaims, Duplicated, Overtaken, Claims,
              HasInHand, Carries, JobScan, JobDomain, ReqDomain
<1> QED
  BY <1>1, <1>2

\* What a task loaded still holds when it acts on it, unless a second task had the
\* scan in hand, and nothing comes between its check and its claim but a rival: for
\* any number of workers, domains, API threads, scans and retries, without faults.
THEOREM WorkersInvariantHolds ==
  ASSUME Faults = {}
  PROVE  WatchedSpec => []WorkersInvariant
<1>1. WatchedInit => WorkersInvariant
  BY InitWorkersInvariant
<1>2. RowsInvariant /\ WorkersInvariant /\ [Next /\ Watch]_<<vars, raceVars>> => WorkersInvariant'
  <2> SUFFICES ASSUME RowsInvariant, WorkersInvariant, [Next /\ Watch]_<<vars, raceVars>>
               PROVE  WorkersInvariant'
    OBVIOUS
  <2>1. RacesGrow /\ RacesAreNoted'
    BY StepsNoteRaces DEF WorkersInvariant
  <2>2. CASE Processing
    BY <2>1, <2>2, RequestsPreserveWorkersInvariant, TakeJobPreservesWorkersInvariant,
       TasksPreserveWorkersInvariant, RecoveryPreservesWorkersInvariant DEF Processing
  <2>3. CASE Client
    BY <2>1, <2>3, RequestsPreserveWorkersInvariant, DeletePreservesWorkersInvariant DEF Client
  <2>4. CASE UNCHANGED vars
    BY <2>1, <2>4, StutterPreservesWorkersInvariant
  <2> QED
    BY <2>2, <2>3, <2>4, NoFaultWithoutKinds DEF Next, Wait
<1> QED
  BY <1>1, <1>2, RowsInvariantHolds, WatchedIsSpec, PTL DEF WatchedSpec

\* Scans of a domain run one at a time; two that run together were claimed together.
THEOREM ScansRunOneAtATime ==
  ASSUME Faults = {}
  PROVE  WatchedSpec => []OverlappingScansAreRivals
<1>1. WorkersInvariant => OverlappingScansAreRivals
  BY DEF WorkersInvariant
<1> QED
  BY <1>1, WorkersInvariantHolds, PTL

\* The answers of a lookup are stored once, but for a scan two tasks had in hand.
THEOREM AnswersStoredOnce ==
  ASSUME Faults = {}
  PROVE  WatchedSpec => []AssetsStoredOnce
<1>1. WorkersInvariant => AssetsStoredOnce
  BY DEF WorkersInvariant
<1> QED
  BY <1>1, WorkersInvariantHolds, PTL

\* What trigger_manual_scan found under the row lock still holds when it inserts,
\* but for a finished scan that a duplicate has reopened.
THEOREM TriggerChecksHold ==
  ASSUME Faults = {}
  PROVE  WatchedSpec => []TriggerCheckStaysValid
<1>1. WorkersInvariant => TriggerCheckStaysValid
  BY DEF WorkersInvariant
<1> QED
  BY <1>1, WorkersInvariantHolds, PTL

\* A finished scan keeps its outcome until its domain is deleted, but for a scan two
\* tasks had in hand.
THEOREM OutcomesAreFinal ==
  ASSUME Faults = {}
  PROVE  WatchedSpec => FinishedStaysFinished
<1> DEFINE Kept == \A s \in ScanIds : scanStatus[s] \in Finished =>
                     scanStatus'[s] \in {scanStatus[s], "NONE"} \/ s \in duplicated
<1>1. ASSUME RowsInvariant, WorkersInvariant, [Next /\ Watch]_<<vars, raceVars>>
      PROVE  Kept
  <2>1. ASSUME NEW w \in Workers, TaskStep(w)  PROVE Kept
    BY <1>1, <2>1, TaskStatusStep DEF WorkersInvariant, StatusStep, Finished
  <2>2. ASSUME NEW d \in Domains, InsertScan(d)  PROVE Kept
    BY <1>1, <2>2, InsertedScan DEF Finished
  <2>3. ASSUME NEW d \in Domains, DeleteDomain(d)  PROVE Kept
    BY <2>3 DEF DeleteDomain
  <2>4. CASE RecoveryStep
    <3>1. UNCHANGED scanStatus
      BY <1>1, <2>4 DEF RecoveryStep, SelectRunning, ResetInterrupted, ListRecoverable,
                        RequeueScan, StartServing, WorkersInvariant, FirstStartFindsNothing
    <3> QED
      BY <3>1
  <2>5. ASSUME NEW r \in Requests, HandlerStep(r)  PROVE Kept
    <3>1. CASE InsertInitialScan(r) \/ InsertManualScan(r)
      <4>1. ReqDomain(r) \in Domains
        BY <1>1, <3>1 DEF InsertInitialScan, InsertManualScan, RowsInvariant, TypeOK, ReqDomain,
                          Targets
      <4> QED
        BY <2>2, <3>1, <4>1 DEF InsertInitialScan, InsertManualScan
    <3> QED
      BY <2>5, <3>1 DEF HandlerStep, InitialScanRefused, ReadInitialDomain, WriteInitialDomain,
                        InitialDomainGone, EnqueueNewScan
  <2>6. CASE \E r \in Requests, d \in Domains : CreateDomain(r, d) \/ LockAndCheck(r, d)
    BY <2>6 DEF CreateDomain, LockAndCheck
  <2>7. CASE \E w \in Workers, m \in Messages : TakeJob(w, m)
    BY <2>7 DEF TakeJob
  <2>8. CASE UNCHANGED vars
    BY <2>8 DEF vars
  <2> QED
    BY <1>1, <2>1, <2>3, <2>4, <2>5, <2>6, <2>7, <2>8, NoFaultWithoutKinds
       DEF Next, Processing, Client, Wait
<1>2. RowsInvariant /\ WorkersInvariant /\ [Next /\ Watch]_<<vars, raceVars>>
        => [Kept]_<<vars, raceVars>>
  BY <1>1
<1> QED
  BY <1>2, RowsInvariantHolds, WatchedIsSpec, WorkersInvariantHolds, PTL
     DEF WatchedSpec, FinishedStaysFinished

-----------------------------------------------------------------------------
(* The service implements the scan history *)

\* No claim is new, or none is dropped for another: no rivals are met.
LEMMA NoNewRivals ==
  ASSUME RacesAreNoted, Watch,
         \A v \in Workers : Claims(v)' => Claims(v) /\ JobScan(v)' = JobScan(v)
  PROVE  UNCHANGED rivals
<1>1. ASSUME NEW p \in ScanIds \X ScanIds, RivalClaims(p[1], p[2])'  PROVE p \in rivals
  <2>1. p[1] \in ScanIds /\ p[2] \in ScanIds /\ p = <<p[1], p[2]>>
    OBVIOUS
  <2>2. RivalClaims(p[1], p[2])
    BY <1>1 DEF RivalClaims
  <2> QED
    BY <2>1, <2>2 DEF RacesAreNoted
<1> QED
  BY <1>1 DEF Watch

LEMMA NoNewDuplicates ==
  ASSUME RacesAreNoted, Watch,
         \A v \in Workers, s \in ScanIds : HasInHand(v, s)' => HasInHand(v, s)
  PROVE  UNCHANGED duplicated
<1>1. ASSUME NEW s \in ScanIds, Duplicated(s)'  PROVE s \in duplicated
  BY <1>1 DEF Duplicated, RacesAreNoted
<1> QED
  BY <1>1 DEF Watch

\* Without a task that starts there is nothing new to note.
LEMMA NoNewRaces ==
  ASSUME RacesAreNoted, Watch, UNCHANGED workerVars
  PROVE  UNCHANGED <<rivals, duplicated>>
BY NoNewRivals, NoNewDuplicates DEF Claims, HasInHand, JobScan

LEMMA LiveUnchanged ==
  ASSUME \A d \in Domains : /\ domainStatus'[d] = "NEW" <=> domainStatus[d] = "NEW"
                            /\ domainStatus'[d] = "DELETED" <=> domainStatus[d] = "DELETED"
  PROVE  UNCHANGED Live
BY DEF Live

LEMMA OwedUnchanged ==
  ASSUME \A r \in Requests :
           /\ reqPc'[r] = "initialScan" <=> reqPc[r] = "initialScan"
           /\ reqPc[r] = "initialScan" => reqScan'[r] = reqScan[r]
  PROVE  UNCHANGED Owed
BY DEF Owed, ReqDomain

\* An UPDATE of a domain row that is there shows nothing.
ShownDomainsKept ==
  \A d \in Domains : domainStatus'[d] = domainStatus[d]
                       \/ (DomainExists(d) /\ domainStatus'[d] \in DomainStatus)

LEMMA ShownDomainsLive ==
  ASSUME ShownDomainsKept
  PROVE  UNCHANGED Live
BY LiveUnchanged DEF ShownDomainsKept, DomainExists, DomainStatus

\* What a task's step may add to the history: the scan it has just loaded, or the
\* claim it has just made.
LEMMA TaskRaces ==
  ASSUME RowsInvariant, RacesAreNoted, Watch, NEW w \in Workers, TaskStep(w),
         NEW own \in ScanIds, own = JobScan(w)
  PROVE  \/ UNCHANGED <<rivals, duplicated>>
         \/ /\ scanStatus[own] \in Active
            /\ duplicated' = duplicated \cup {own}
            /\ UNCHANGED <<storeVars, rivals>>
         \/ /\ rivals \subseteq rivals'
            /\ rivals' \ rivals \subseteq Lifecycle!Scans(own[1]) \X Lifecycle!Scans(own[1])
            /\ UNCHANGED <<storeVars, duplicated>>
<1>1. /\ wPc \in [Workers -> WorkerPcs]
      /\ job \in [Workers -> Messages \cup {NoJob}]
  BY DEF RowsInvariant, TypeOK
<1>2. \A v \in Workers \ {w} : wPc'[v] = wPc[v] /\ job'[v] = job[v] /\ seen'[v] = seen[v]
  BY OtherTasks DEF RowsInvariant
<1>3. CASE LoadScan(w)
  <2>1. /\ UNCHANGED <<storeVars, job>>
        /\ wPc'[w] = IF scanStatus[own] \in Active THEN "check" ELSE "ack"
    BY <1>1, <1>3 DEF LoadScan, Continue
  <2>2. UNCHANGED rivals
    BY <1>2, <2>1, NoNewRivals DEF Claims, JobScan
  <2>3. CASE scanStatus[own] \in Active
    <3>1. \A s \in ScanIds : Duplicated(s)' => s = own \/ Duplicated(s)
      BY <1>2, <2>1 DEF Duplicated, HasInHand, JobScan
    <3>2. duplicated' \subseteq duplicated \cup {own} /\ duplicated \subseteq duplicated'
      BY <3>1 DEF Watch, RacesAreNoted
    <3> QED
      BY <2>1, <2>2, <2>3, <3>2
  <2>4. CASE scanStatus[own] \notin Active
    BY <1>2, <2>1, <2>2, <2>4, NoNewDuplicates DEF HasInHand, JobScan
  <2> QED
    BY <2>3, <2>4
<1>4. CASE CheckRunning(w)
  <2>1. /\ UNCHANGED <<storeVars, job, seen>>
        /\ wPc[w] = "check" /\ wPc'[w] \in {"claim", "ack"}
    BY <1>1, <1>4 DEF CheckRunning, At, Continue
  <2>2. UNCHANGED duplicated
    BY <1>2, <2>1, NoNewDuplicates DEF HasInHand, JobScan
  <2>3. ASSUME NEW p \in ScanIds \X ScanIds, RivalClaims(p[1], p[2])', p \notin rivals
        PROVE  p \in Lifecycle!Scans(own[1]) \X Lifecycle!Scans(own[1])
    <3>1. p[1] \in ScanIds /\ p[2] \in ScanIds /\ p = <<p[1], p[2]>>
      OBVIOUS
    <3>2. ~RivalClaims(p[1], p[2])
      BY <2>3, <3>1 DEF RacesAreNoted
    <3>3. p[1] = own \/ p[2] = own
      BY <1>2, <2>1, <2>3, <3>2 DEF RivalClaims, Claims, JobScan
    <3>4. DomainOf(p[1]) = own[1] /\ DomainOf(p[2]) = own[1]
      BY <2>3, <3>3 DEF RivalClaims, DomainOf
    <3>5. \A s \in ScanIds : DomainOf(s) = own[1] => s \in Lifecycle!Scans(own[1])
      BY ScanIdParts DEF Lifecycle!Scans
    <3> QED
      BY <3>1, <3>4, <3>5
  <2>4. rivals \subseteq rivals'
        /\ rivals' \ rivals \subseteq Lifecycle!Scans(own[1]) \X Lifecycle!Scans(own[1])
    BY <2>3 DEF Watch
  <2> QED
    BY <2>1, <2>2, <2>4
<1>5. CASE MarkScanRunning(w) \/ MarkDomainRunning(w) \/ StoreAssets(w) \/ MarkScanCompleted(w)
           \/ MarkDomainCompleted(w) \/ EnqueueNextPending(w) \/ RetryLater(w) \/ GiveUp(w)
           \/ MarkScanFailed(w) \/ MarkDomainFailed(w) \/ RowsGone(w) \/ Acknowledge(w)
  <2>1. /\ wPc'[w] \notin {"check", "claim"}
        /\ wPc'[w] \in {"domainRunning", "resolve", "complete", "fail"} =>
             /\ wPc[w] \in {"claim", "domainRunning", "resolve"}
             /\ job'[w] = job[w]
    BY <1>1, <1>5
       DEF MarkScanRunning, MarkDomainRunning, StoreAssets, MarkScanCompleted,
           MarkDomainCompleted, EnqueueNextPending, RetryLater, GiveUp, MarkScanFailed,
           MarkDomainFailed, RowsGone, Acknowledge, Forget, At, Continue
  <2>2. UNCHANGED rivals
    BY <1>2, <2>1, NoNewRivals DEF Claims, JobScan
  <2>3. UNCHANGED duplicated
    <3>1. \A v \in Workers, s \in ScanIds : HasInHand(v, s)' => HasInHand(v, s)
      BY <1>2, <2>1 DEF HasInHand, JobScan
    <3> QED
      BY <3>1, NoNewDuplicates
  <2> QED
    BY <2>2, <2>3
<1> QED
  BY <1>3, <1>4, <1>5 DEF TaskStep

\* A task's step is invisible, or it starts its scan, or it finishes it, or it is
\* the second to have the scan in hand, or another is about to start one as well.
LEMMA TaskImplements ==
  ASSUME RowsInvariant, WorkersInvariant, Watch, NEW w \in Workers, TaskStep(w)
  PROVE  Lifecycle!LifecycleNext \/ UNCHANGED Lifecycle!lifecycleVars
<1>1. PICK own \in ScanIds : own = JobScan(w) /\ StatusStep(w, own)
  BY TaskStatusStep DEF WorkersInvariant
<1>2. UNCHANGED <<created, requestVars>>
  BY WorkerFrame
<1>3. UNCHANGED Owed
  BY <1>2, OwedUnchanged
<1>4. UNCHANGED Live
  <2>1. /\ JobDomain(w) \in Domains
        /\ domainStatus \in [Domains -> DomainStatus \cup {"NEW", "DELETED"}]
    BY BusyStep, BusyTask DEF RowsInvariant, TypeOK
  <2>2. ShownDomainsKept
    BY <2>1 DEF ShownDomainsKept, DomainStatus, SetDomainStatus, TaskStep, LoadScan, CheckRunning,
                MarkScanRunning, MarkDomainRunning, StoreAssets, MarkScanCompleted,
                MarkDomainCompleted, EnqueueNextPending, RetryLater, GiveUp, MarkScanFailed,
                MarkDomainFailed, RowsGone, Acknowledge
  <2> QED
    BY <2>2, ShownDomainsLive
<1>5. /\ scanStatus \in [ScanIds -> ScanStatus \cup {"NONE"}]
      /\ scanStatus' \in [ScanIds -> ScanStatus \cup {"NONE"}]
  BY WorkersPreserveTypeOK DEF RowsInvariant, TypeOK
<1>6. own \in Lifecycle!Rows /\ own[1] \in Domains /\ own[1] = JobDomain(w)
  BY <1>1, ScanIdParts DEF Lifecycle!Rows, ScanIds, JobDomain, DomainOf
<1>7. \/ UNCHANGED <<rivals, duplicated>>
      \/ /\ scanStatus[own] \in Active
         /\ duplicated' = duplicated \cup {own}
         /\ UNCHANGED <<storeVars, rivals>>
      \/ /\ rivals \subseteq rivals'
         /\ rivals' \ rivals \subseteq Lifecycle!Scans(own[1]) \X Lifecycle!Scans(own[1])
         /\ UNCHANGED <<storeVars, duplicated>>
  BY <1>1, TaskRaces DEF WorkersInvariant
<1>8. CASE /\ scanStatus[own] \in Active
           /\ duplicated' = duplicated \cup {own}
           /\ UNCHANGED <<storeVars, rivals>>
  <2>1. Lifecycle!Duplicate(own)
    BY <1>2, <1>3, <1>4, <1>8 DEF Lifecycle!Duplicate, Active
  <2> QED
    BY <1>6, <2>1 DEF Lifecycle!LifecycleNext
<1>9. CASE /\ rivals \subseteq rivals'
           /\ rivals' \ rivals \subseteq Lifecycle!Scans(own[1]) \X Lifecycle!Scans(own[1])
           /\ UNCHANGED <<storeVars, duplicated>>
  <2>1. Lifecycle!Meet(own[1])
    BY <1>2, <1>3, <1>4, <1>9 DEF Lifecycle!Meet
  <2> QED
    BY <1>6, <2>1 DEF Lifecycle!LifecycleNext
<1>10. CASE UNCHANGED <<rivals, duplicated>> /\ scanStatus'[own] = scanStatus[own]
  <2>1. scanStatus' = scanStatus
    BY <1>1, <1>5, <1>10 DEF StatusStep
  <2> QED
    BY <1>2, <1>3, <1>4, <1>10, <2>1 DEF Lifecycle!lifecycleVars
<1>11. CASE UNCHANGED <<rivals, duplicated>> /\ scanStatus'[own] # scanStatus[own]
  <2>1. scanStatus' = [scanStatus EXCEPT ![own] = scanStatus'[own]]
    BY <1>1, <1>5, <1>11 DEF StatusStep
  <2>2. CASE Claims(w)
    <3>1. /\ scanStatus[own] = "PENDING" \/ (own \in duplicated /\ Lifecycle!Ended(own))
          /\ scanStatus'[own] = "RUNNING"
      BY <1>1, <1>11, <2>2 DEF StatusStep, Claims, Lifecycle!Ended, Finished
    <3>2. ASSUME NEW t \in Lifecycle!Scans(own[1]) \ {own}, scanStatus[t] = "RUNNING"
          PROVE  <<own, t>> \in rivals
      <4>1. t \in ScanIds /\ DomainOf(t) = JobDomain(w)
        BY <1>6 DEF Lifecycle!Scans, ScanIds, DomainOf
      <4> QED
        BY <1>1, <2>2, <3>2, <4>1 DEF WorkersInvariant, ClaimIsFree
    <3>3. Lifecycle!Start(own)
      BY <1>2, <1>3, <1>4, <1>11, <2>1, <3>1, <3>2 DEF Lifecycle!Start
    <3> QED
      BY <1>6, <3>3 DEF Lifecycle!LifecycleNext
  <2>3. CASE ~Claims(w)
    <3>1. /\ scanStatus[own] = "RUNNING" \/ (own \in duplicated /\ Lifecycle!Ended(own))
          /\ scanStatus'[own] \in {"COMPLETED", "FAILED"}
      BY <1>1, <1>11, <2>3 DEF StatusStep, Lifecycle!Ended, Finished
    <3>2. Lifecycle!Finish(own)
      BY <1>2, <1>3, <1>4, <1>11, <2>1, <3>1 DEF Lifecycle!Finish
    <3> QED
      BY <1>6, <3>2 DEF Lifecycle!LifecycleNext
  <2> QED
    BY <2>2, <2>3
<1> QED
  BY <1>7, <1>8, <1>9, <1>10, <1>11

\* The insertion of a scan is the abstract one.
LEMMA InsertionImplements ==
  ASSUME NEW d \in Domains, InsertScan(d), DomainExists(d), UNCHANGED <<Live, rivals, duplicated>>
  PROVE  Lifecycle!NewScan(d)
<1>1. Live[d] = "live"
  BY DEF Live, DomainExists, DomainStatus
<1> QED
  BY <1>1 DEF InsertScan, Lifecycle!NewScan

LEMMA HandlerImplements ==
  ASSUME RowsInvariant, WorkersInvariant, Watch, NEW r \in Requests, HandlerStep(r)
  PROVE  Lifecycle!LifecycleNext \/ UNCHANGED Lifecycle!lifecycleVars
<1>1. /\ reqPc \in [Requests -> RequestPcs]
      /\ reqScan \in [Requests -> Targets \cup {NoScan}]
      /\ \A q \in Requests : reqPc[q] # "idle" => ReqDomain(q) \in Domains
      /\ domainStatus \in [Domains -> DomainStatus \cup {"NEW", "DELETED"}]
  BY DEF RowsInvariant, TypeOK, ReqDomain, Targets
<1>2. PICK d \in Domains : d = ReqDomain(r)
  BY <1>1 DEF HandlerStep, InsertInitialScan, InitialScanRefused, ReadInitialDomain,
              WriteInitialDomain, InitialDomainGone, InsertManualScan, EnqueueNewScan
<1>3. \A q \in Requests \ {r} : reqPc'[q] = reqPc[q] /\ reqScan'[q] = reqScan[q]
  BY <1>1 DEF HandlerStep, InsertInitialScan, InitialScanRefused, ReadInitialDomain,
              WriteInitialDomain, InitialDomainGone, InsertManualScan, EnqueueNewScan,
              EndRequest, Goto
<1>4. UNCHANGED <<rivals, duplicated>>
  BY RequestFrame, NoNewRaces DEF WorkersInvariant
\* The end of a creation's debt: no other creation is under way for its domain.
<1>5. ASSUME reqPc[r] = "initialScan", reqPc'[r] # "initialScan"
      PROVE  Owed[d] /\ Owed' = [Owed EXCEPT ![d] = FALSE]
  <2>1. Owed[d]
    BY <1>2, <1>5 DEF Owed
  <2>2. \A q \in Requests \ {r} : reqPc[q] = "initialScan" => ReqDomain(q) # d
    BY <1>2, <1>5 DEF WorkersInvariant, CreationsAreSingle
  <2>3. \A e \in Domains : Owed'[e] = IF e = d THEN FALSE ELSE Owed[e]
    <3>1. \A e \in Domains :
            Owed'[e] <=> \E q \in Requests : reqPc'[q] = "initialScan" /\ reqScan'[q][1] = e
      BY DEF Owed, ReqDomain
    <3>2. \A e \in Domains :
            Owed[e] <=> \E q \in Requests : reqPc[q] = "initialScan" /\ reqScan[q][1] = e
      BY DEF Owed, ReqDomain
    <3>3. \A e \in Domains : Owed[e] \in BOOLEAN /\ Owed'[e] \in BOOLEAN
      BY DEF Owed
    <3>4. ~Owed'[d]
      BY <1>3, <1>5, <2>2, <3>1 DEF ReqDomain
    <3>5. \A e \in Domains \ {d} : Owed'[e] <=> Owed[e]
      BY <1>2, <1>3, <1>5, <3>1, <3>2 DEF ReqDomain
    <3> QED
      BY <3>3, <3>4, <3>5
  <2> QED
    BY <2>1, <2>3 DEF Owed
<1>6. ASSUME reqPc[r] # "initialScan", reqPc'[r] # "initialScan"
      PROVE  UNCHANGED Owed
  BY <1>3, <1>6, OwedUnchanged
<1>7. CASE InsertInitialScan(r)
  <2>1. /\ reqPc[r] = "initialScan" /\ reqPc'[r] = "initialRead"
        /\ DomainExists(d) /\ InsertScan(d) /\ UNCHANGED domainStatus
    BY <1>1, <1>2, <1>7 DEF InsertInitialScan, Goto
  <2>2. UNCHANGED Live
    BY <2>1, LiveUnchanged
  <2>3. Lifecycle!FirstScan(d)
    BY <1>4, <1>5, <2>1, <2>2, InsertionImplements DEF Lifecycle!FirstScan
  <2> QED
    BY <2>3 DEF Lifecycle!LifecycleNext
<1>8. CASE InitialScanRefused(r)
  <2>1. /\ reqPc[r] = "initialScan" /\ reqPc'[r] = "idle"
        /\ ~DomainExists(d) /\ UNCHANGED <<domainStatus, scanStatus, created>>
    BY <1>1, <1>2, <1>8 DEF InitialScanRefused, EndRequest, Goto
  <2>2. domainStatus[d] = "DELETED"
    BY <1>1, <1>2, <2>1 DEF WorkersInvariant, CreationsAreSingle, DomainExists
  <2>3. Live[d] = "deleted" /\ UNCHANGED Live
    BY <2>1, <2>2, LiveUnchanged DEF Live
  <2>4. Lifecycle!Forgive(d)
    BY <1>4, <1>5, <2>1, <2>3 DEF Lifecycle!Forgive
  <2> QED
    BY <2>4 DEF Lifecycle!LifecycleNext
<1>9. CASE InsertManualScan(r)
  <2>1. /\ reqPc[r] = "insert" /\ reqPc'[r] = "enqueue" /\ InsertScan(d)
        /\ domainStatus' = [domainStatus EXCEPT ![d] = IF @ = "RUNNING" THEN @ ELSE "PENDING"]
    BY <1>1, <1>2, <1>9 DEF InsertManualScan, Goto
  <2>2. /\ DomainExists(d)
        /\ \A n \in 1..MaxScans : scanStatus[<<d, n>>] \in Active => <<d, n>> \in duplicated
    BY <1>2, <2>1 DEF WorkersInvariant, TriggerCheckStaysValid
  <2>3. UNCHANGED Live
    BY <1>1, <2>1, <2>2, ShownDomainsLive DEF ShownDomainsKept, DomainStatus
  <2>4. ~Lifecycle!UnderWay(d)
    BY <2>2 DEF Lifecycle!UnderWay, Lifecycle!Scans, Active
  <2>5. Lifecycle!Trigger(d)
    BY <1>4, <1>6, <2>1, <2>2, <2>3, <2>4, InsertionImplements DEF Lifecycle!Trigger
  <2> QED
    BY <2>5 DEF Lifecycle!LifecycleNext
<1>10. CASE ReadInitialDomain(r) \/ WriteInitialDomain(r) \/ InitialDomainGone(r)
            \/ EnqueueNewScan(r)
  <2>1. /\ reqPc[r] # "initialScan" /\ reqPc'[r] # "initialScan"
        /\ UNCHANGED <<scanStatus, created>>
    BY <1>1, <1>10 DEF ReadInitialDomain, WriteInitialDomain, InitialDomainGone, EnqueueNewScan,
                       EndRequest, Goto
  <2>2. ShownDomainsKept
    BY <1>1, <1>10 DEF ReadInitialDomain, WriteInitialDomain, InitialDomainGone, EnqueueNewScan,
                       SetDomainStatus, ShownDomainsKept, DomainStatus
  <2> QED
    BY <1>4, <1>6, <2>1, <2>2, ShownDomainsLive DEF Lifecycle!lifecycleVars
<1> QED
  BY <1>7, <1>8, <1>9, <1>10 DEF HandlerStep

LEMMA ClientImplements ==
  ASSUME RowsInvariant, WorkersInvariant, Watch, Client
  PROVE  Lifecycle!LifecycleNext \/ UNCHANGED Lifecycle!lifecycleVars
<1>1. /\ reqPc \in [Requests -> RequestPcs]
      /\ reqScan \in [Requests -> Targets \cup {NoScan}]
      /\ domainStatus \in [Domains -> DomainStatus \cup {"NEW", "DELETED"}]
  BY DEF RowsInvariant, TypeOK
<1>2. UNCHANGED <<rivals, duplicated>>
  <2>1. UNCHANGED workerVars
    BY RequestFrame DEF Client, DeleteDomain
  <2> QED
    BY <2>1, NoNewRaces DEF WorkersInvariant
<1>3. ASSUME NEW r \in Requests, NEW d \in Domains, CreateDomain(r, d)
      PROVE  Lifecycle!LifecycleNext
  <2>1. /\ domainStatus[d] = "NEW" /\ domainStatus' = [domainStatus EXCEPT ![d] = "PENDING"]
        /\ reqPc[r] = "idle" /\ reqPc'[r] = "initialScan" /\ reqScan'[r] = <<d, 0>>
        /\ \A q \in Requests \ {r} : reqPc'[q] = reqPc[q] /\ reqScan'[q] = reqScan[q]
        /\ UNCHANGED <<scanStatus, created>>
    BY <1>1, <1>3 DEF CreateDomain, StartRequest, Goto
  <2>2. Live[d] = "new" /\ Live' = [Live EXCEPT ![d] = "live"]
    BY <1>1, <2>1 DEF Live
  <2>3. Owed' = [Owed EXCEPT ![d] = TRUE]
    <3>1. \A e \in Domains :
            Owed'[e] <=> \E q \in Requests : reqPc'[q] = "initialScan" /\ reqScan'[q][1] = e
      BY DEF Owed, ReqDomain
    <3>2. \A e \in Domains :
            Owed[e] <=> \E q \in Requests : reqPc[q] = "initialScan" /\ reqScan[q][1] = e
      BY DEF Owed, ReqDomain
    <3>3. \A e \in Domains : Owed[e] \in BOOLEAN /\ Owed'[e] \in BOOLEAN
      BY DEF Owed
    <3>4. Owed'[d]
      BY <2>1, <3>1
    <3>5. \A e \in Domains \ {d} : Owed'[e] <=> Owed[e]
      BY <2>1, <3>1, <3>2
    <3>6. \A e \in Domains : Owed'[e] = IF e = d THEN TRUE ELSE Owed[e]
      BY <3>3, <3>4, <3>5
    <3> QED
      BY <3>6 DEF Owed
  <2>4. Lifecycle!Register(d)
    BY <1>2, <2>1, <2>2, <2>3 DEF Lifecycle!Register
  <2> QED
    BY <2>4 DEF Lifecycle!LifecycleNext
<1>4. ASSUME NEW r \in Requests, NEW d \in Domains, LockAndCheck(r, d)
      PROVE  UNCHANGED Lifecycle!lifecycleVars
  <2>1. /\ reqPc[r] = "idle" /\ reqPc'[r] = "insert"
        /\ \A q \in Requests \ {r} : reqPc'[q] = reqPc[q] /\ reqScan'[q] = reqScan[q]
        /\ UNCHANGED <<domainStatus, scanStatus, created>>
    BY <1>1, <1>4 DEF LockAndCheck, StartRequest, Goto
  <2>2. UNCHANGED Owed
    BY <2>1, OwedUnchanged
  <2> QED
    BY <1>2, <2>1, <2>2, LiveUnchanged DEF Lifecycle!lifecycleVars
<1>5. ASSUME NEW d \in Domains, DeleteDomain(d)
      PROVE  Lifecycle!LifecycleNext
  <2>1. /\ DomainExists(d) /\ domainStatus' = [domainStatus EXCEPT ![d] = "DELETED"]
        /\ scanStatus' = [s \in ScanIds |-> IF DomainOf(s) = d THEN "NONE" ELSE scanStatus[s]]
        /\ UNCHANGED <<created, requestVars>>
    BY <1>5 DEF DeleteDomain
  <2>2. Live[d] = "live" /\ Live' = [Live EXCEPT ![d] = "deleted"]
    BY <1>1, <2>1 DEF Live, DomainExists, DomainStatus
  <2>3. UNCHANGED Owed
    BY <2>1, OwedUnchanged
  <2>4. Lifecycle!Delete(d)
    BY <1>2, <2>1, <2>2, <2>3 DEF Lifecycle!Delete, Lifecycle!Rows, ScanIds, DomainOf
  <2> QED
    BY <2>4 DEF Lifecycle!LifecycleNext
<1> QED
  BY <1>3, <1>4, <1>5 DEF Client

LEMMA RestIsInvisible ==
  ASSUME RowsInvariant, WorkersInvariant, Watch,
         \/ RecoveryStep
         \/ \E w \in Workers, m \in Messages : TakeJob(w, m)
         \/ UNCHANGED vars
  PROVE  UNCHANGED Lifecycle!lifecycleVars
<1>1. UNCHANGED <<domainStatus, scanStatus, created, requestVars>>
  BY DEF RecoveryStep, SelectRunning, ResetInterrupted, ListRecoverable, RequeueScan,
         StartServing, TakeJob, vars, WorkersInvariant, FirstStartFindsNothing
<1>2. UNCHANGED Live /\ UNCHANGED Owed
  BY <1>1, LiveUnchanged, OwedUnchanged
<1>3. UNCHANGED <<rivals, duplicated>>
  <2>1. ASSUME NEW w \in Workers, NEW m \in Messages, TakeJob(w, m)
        PROVE  UNCHANGED <<rivals, duplicated>>
    <3>1. /\ wPc'[w] = "load"
          /\ \A v \in Workers \ {w} : wPc'[v] = wPc[v] /\ job'[v] = job[v]
          /\ UNCHANGED seen
      BY <2>1 DEF TakeJob, Continue, RowsInvariant, TypeOK
    <3>2. UNCHANGED rivals
      BY <3>1, NoNewRivals DEF Claims, JobScan, WorkersInvariant
    <3> QED
      BY <3>1, <3>2, NoNewDuplicates DEF HasInHand, JobScan, WorkersInvariant
  <2>2. CASE RecoveryStep \/ UNCHANGED vars
    <3>1. UNCHANGED workerVars
      BY <2>2, RecoveryFrame DEF vars
    <3> QED
      BY <3>1, NoNewRaces DEF WorkersInvariant
  <2> QED
    BY <2>1, <2>2
<1> QED
  BY <1>1, <1>2, <1>3 DEF Lifecycle!lifecycleVars

LEMMA InitImplements == WatchedInit => Lifecycle!LifecycleInit
<1> SUFFICES ASSUME WatchedInit  PROVE Lifecycle!LifecycleInit
  OBVIOUS
<1>1. Live = [d \in Domains |-> "new"]
  BY DEF WatchedInit, Init, Live
<1>2. Owed = [d \in Domains |-> FALSE]
  BY DEF WatchedInit, Init, Owed
<1> QED
  BY <1>1, <1>2 DEF WatchedInit, Init, Lifecycle!LifecycleInit, Lifecycle!Rows, ScanIds

\* The whole of the API, broker, workers and recovery implements the scan history an
\* observer is promised, however many workers there are.
THEOREM ServiceImplementsLifecycle ==
  ASSUME Faults = {}
  PROVE  WatchedSpec => ImplementsLifecycle
<1>1. RowsInvariant /\ WorkersInvariant /\ [Next /\ Watch]_<<vars, raceVars>>
        => [Lifecycle!LifecycleNext]_(Lifecycle!lifecycleVars)
  <2> SUFFICES ASSUME RowsInvariant, WorkersInvariant, [Next /\ Watch]_<<vars, raceVars>>
               PROVE  Lifecycle!LifecycleNext \/ UNCHANGED Lifecycle!lifecycleVars
    OBVIOUS
  <2>1. CASE Next /\ Watch
    BY <2>1, TaskImplements, HandlerImplements, ClientImplements, RestIsInvisible,
       NoFaultWithoutKinds DEF Next, Processing, Wait
  <2>2. CASE UNCHANGED <<vars, raceVars>>
    <3>1. UNCHANGED <<domainStatus, scanStatus, created, requestVars, rivals, duplicated>>
      BY <2>2 DEF vars, raceVars
    <3> QED
      BY <3>1, LiveUnchanged, OwedUnchanged DEF Lifecycle!lifecycleVars
  <2> QED
    BY <2>1, <2>2
<1> QED
  BY <1>1, InitImplements, RowsInvariantHolds, WatchedIsSpec, WorkersInvariantHolds, PTL
     DEF WatchedSpec, ImplementsLifecycle, Lifecycle!LifecycleSpec

-----------------------------------------------------------------------------
(* A domain shows its latest outcome: what a task does to it *)

\* A scan id is known by its parts.
LEMMA ScanIdOf ==
  ASSUME NEW d \in Domains, NEW n \in 1..MaxScans
  PROVE  <<d, n>> \in ScanIds /\ DomainOf(<<d, n>>) = d /\ <<d, n>>[2] = n
BY DEF ScanIds, DomainOf

\* The latest scan of a domain is as young as any of it that exists.
LEMMA LatestIsYoungest ==
  ASSUME NEW d \in Domains, NEW n \in 1..MaxScans, Latest(d, n),
         NEW s \in ScanIds, DomainOf(s) = d, ScanExists(s)
  PROVE  s = <<d, n>> \/ n > s[2]
<1>1. s = <<d, s[2]>> /\ s[2] \in 1..MaxScans
  BY ScanIdParts
<1> QED
  BY <1>1 DEF Latest

\* What a task needs to know of the domain it writes: its scan is there.
LEMMA DomainKeepsScan ==
  ASSUME RowsInvariant, NEW w \in Workers, wPc[w] # "idle", DomainExists(JobDomain(w))
  PROVE  JobScan(w) \in ScanIds /\ ScanExists(JobScan(w))
<1>1. JobScan(w) \in ScanIds /\ DomainOf(JobScan(w)) = JobDomain(w) /\ Created(JobScan(w))
  BY BusyTask DEF RowsInvariant, JobsNameCreatedScans
<1> QED
  BY <1>1 DEF RowsInvariant, RowsMatchHistory

\* What is in order after a step was in order before.
LEMMA InOrderBefore ==
  ASSUME RacesGrow, NEW d \in Domains, InOrder(d)'
  PROVE  InOrder(d)
BY DEF RacesGrow, InOrder

\* A domain that is in order has no task that carries the outcome of an older scan
\* though a younger one has ended.
LEMMA InOrderCarriesLast ==
  ASSUME RacesAreNoted, NEW d \in Domains, InOrder(d), NEW w \in Workers, Carries(w),
         JobDomain(w) = d, NEW s \in ScanIds, DomainOf(s) = d, s[2] > JobScan(w)[2],
         scanStatus[s] \in Finished
  PROVE  FALSE
<1>1. Overtaken(d)
  BY DEF Overtaken
<1> QED
  BY <1>1 DEF RacesAreNoted, InOrder

\* A task carries the outcome it has just written, and no other task undoes it.
LEMMA TasksCarryOutcome ==
  ASSUME RowsInvariant, WorkersInvariant, OutcomeIsCarried, RacesGrow,
         NEW w \in Workers, TaskStep(w)
  PROVE  OutcomeIsCarried'
<1>1. /\ wPc \in [Workers -> WorkerPcs]
      /\ scanStatus \in [ScanIds -> ScanStatus \cup {"NONE"}]
  BY DEF RowsInvariant, TypeOK
<1>2. PICK own \in ScanIds : own = JobScan(w) /\ StatusStep(w, own)
  BY TaskStatusStep DEF WorkersInvariant
<1>3. \A s \in ScanIds : ScanExists(s)' <=> ScanExists(s)
  BY TasksKeepRows DEF RowsInvariant, RowsKept
<1>4. ASSUME NEW v \in Workers \ {w}, Carries(v)', ScanExists(JobScan(v))',
             JobScan(v)' \notin duplicated'
      PROVE  scanStatus'[JobScan(v)'] =
               IF wPc'[v] = "domainCompleted" THEN "COMPLETED" ELSE "FAILED"
  <2>1. wPc'[v] = wPc[v] /\ JobScan(v)' = JobScan(v) /\ Carries(v)
    BY <1>4, OtherTasks DEF RowsInvariant, JobScan, Carries
  <2>2. PICK s \in ScanIds : s = JobScan(v)
    BY <2>1, BusyTask DEF RowsInvariant, Carries
  <2>3. ScanExists(s) /\ s \notin duplicated
    BY <1>3, <1>4, <2>1, <2>2 DEF RacesGrow, ScanExists
  <2>4. scanStatus[s] = IF wPc[v] = "domainCompleted" THEN "COMPLETED" ELSE "FAILED"
    BY <2>1, <2>2, <2>3 DEF OutcomeIsCarried
  <2>5. scanStatus'[s] = scanStatus[s]
    BY <1>2, <2>3, <2>4 DEF StatusStep
  <2> QED
    BY <2>1, <2>2, <2>4, <2>5
<1>5. ASSUME Carries(w)', ScanExists(JobScan(w))', JobScan(w)' \notin duplicated'
      PROVE  scanStatus'[JobScan(w)'] =
               IF wPc'[w] = "domainCompleted" THEN "COMPLETED" ELSE "FAILED"
  <2>1. MarkScanCompleted(w) \/ MarkScanFailed(w)
    BY <1>1, <1>5
       DEF TaskStep, LoadScan, CheckRunning, MarkScanRunning, MarkDomainRunning, StoreAssets,
           MarkDomainCompleted, EnqueueNextPending, RetryLater, GiveUp, MarkDomainFailed,
           RowsGone, Acknowledge, Forget, Continue, Carries
  <2>2. /\ JobScan(w)' = own /\ ScanExists(own) /\ own \notin duplicated
        /\ wPc[w] \in {"complete", "fail"}
    BY <1>2, <1>5, <2>1 DEF MarkScanCompleted, MarkScanFailed, At, JobScan, RacesGrow
  <2>3. seen[w] = "RUNNING"
    BY <1>2, <2>2 DEF WorkersInvariant, TaskKnowsItsScan
  <2>4. scanStatus'[own] = IF wPc'[w] = "domainCompleted" THEN "COMPLETED" ELSE "FAILED"
    BY <1>1, <1>2, <2>1, <2>3 DEF MarkScanCompleted, MarkScanFailed, UpdateScan, Continue
  <2> QED
    BY <2>2, <2>4
<1> QED
  BY <1>4, <1>5 DEF OutcomeIsCarried

LEMMA TasksKeepMirrored ==
  ASSUME RowsInvariant, WorkersInvariant, MirrorInvariant, RacesGrow, RacesAreNoted',
         NEW w \in Workers, TaskStep(w)
  PROVE  LatestIsMirrored'
<1>1. /\ wPc \in [Workers -> WorkerPcs]
      /\ scanStatus \in [ScanIds -> ScanStatus \cup {"NONE"}]
      /\ domainStatus \in [Domains -> DomainStatus \cup {"NEW", "DELETED"}]
  BY DEF RowsInvariant, TypeOK
<1>2. PICK own \in ScanIds : own = JobScan(w) /\ StatusStep(w, own)
  BY TaskStatusStep DEF WorkersInvariant
<1>3. /\ own = <<DomainOf(own), own[2]>> /\ DomainOf(own) = JobDomain(w)
      /\ own[2] \in 1..MaxScans /\ DomainOf(own) \in Domains
  BY <1>2, ScanIdParts DEF JobDomain
<1>4. \A t \in ScanIds : ScanExists(t)' <=> ScanExists(t)
  BY TasksKeepRows DEF RowsInvariant, RowsKept
<1>5. \A v \in Workers \ {w} : Carries(v)' = Carries(v) /\ JobScan(v)' = JobScan(v)
  BY OtherTasks DEF RowsInvariant, JobScan, Carries
<1>6. SUFFICES ASSUME NEW d \in Domains, NEW n \in 1..MaxScans, Latest(d, n), InOrder(d),
                      InOrder(d)'
               PROVE  \/ HasActiveScan(d)'
                      \/ domainStatus'[d] = scanStatus'[<<d, n>>]
                      \/ \E v \in Workers : Carries(v)' /\ JobScan(v)' = <<d, n>>
  <2>1. \A d \in Domains, n \in 1..MaxScans : Latest(d, n)' => Latest(d, n)
    BY <1>4, ScanIdOf DEF Latest
  <2> QED
    BY <1>6, <2>1, InOrderBefore DEF LatestIsMirrored
<1>7. PICK s \in ScanIds : s = <<d, n>> /\ DomainOf(s) = d /\ s[2] = n /\ ScanExists(s)
  BY <1>6, ScanIdOf DEF Latest
<1>8. /\ n \in Nat /\ own[2] \in Nat
      /\ scanStatus'[s] \in Active => HasActiveScan(d)'
      /\ scanStatus[s] \in Active => HasActiveScan(d)
  BY <1>3, <1>7 DEF HasActiveScan
<1>9. \A t \in ScanIds : DomainOf(t) = d => t \notin duplicated
  BY <1>6, ScanIdParts DEF InOrder
\* The scan under way stays so, or its own outcome is on its way: unless it is the
\* latest one, the latest is still to come.
<1>10. CASE HasActiveScan(d)
  <2>1. PICK m \in 1..MaxScans : scanStatus[<<d, m>>] \in Active
    BY <1>10 DEF HasActiveScan
  <2>2. PICK t \in ScanIds : t = <<d, m>> /\ DomainOf(t) = d /\ scanStatus[t] \in Active
    BY <2>1, ScanIdOf
  <2>3. CASE scanStatus'[t] \in Active
    BY <2>2, <2>3 DEF HasActiveScan
  <2>4. CASE scanStatus'[t] \notin Active
    <3>1. t = own /\ wPc[w] \in {"complete", "fail"} /\ scanStatus'[t] \in Finished
      BY <1>2, <2>2, <2>4 DEF StatusStep, Active, Finished
    <3>2. ScanExists(own)
      BY <2>2, <3>1 DEF Active, ScanExists
    <3>3. MarkScanCompleted(w) \/ MarkScanFailed(w)
      BY <1>1, <1>2, <2>2, <2>4, <3>1, <3>2
         DEF TaskStep, LoadScan, CheckRunning, MarkScanRunning, MarkDomainRunning, StoreAssets,
             MarkDomainCompleted, EnqueueNextPending, RetryLater, GiveUp, MarkDomainFailed,
             RowsGone, Acknowledge, At
    <3>4. Carries(w)' /\ JobScan(w)' = own /\ JobDomain(w)' = d
      BY <1>1, <1>2, <1>3, <2>2, <3>1, <3>3
         DEF MarkScanCompleted, MarkScanFailed, Continue, Carries, JobScan, JobDomain
    <3>5. CASE own = s
      BY <1>7, <3>4, <3>5
    <3>6. CASE own # s
      <4>1. s[2] > own[2]
        BY <1>6, <1>7, <2>2, <3>1, <3>2, <3>6, LatestIsYoungest
      <4>2. scanStatus'[s] = scanStatus[s]
        BY <1>2, <1>7, <3>6 DEF StatusStep
      <4>3. scanStatus[s] \in Finished => Overtaken(d)'
        BY <1>7, <3>4, <4>1, <4>2 DEF Overtaken
      <4>4. scanStatus[s] \notin Finished
        BY <1>6, <4>3 DEF RacesAreNoted, InOrder
      <4>5. scanStatus[s] \in Active
        BY <1>1, <1>7, <4>4 DEF ScanExists, ScanStatus, Active, Finished
      <4> QED
        BY <1>8, <4>2, <4>5
    <3> QED
      BY <3>5, <3>6
  <2> QED
    BY <2>3, <2>4
<1>11. CASE ~HasActiveScan(d)
  <2>1. \A t \in ScanIds : DomainOf(t) = d => scanStatus[t] \notin Active
    BY <1>11, ScanIdParts DEF HasActiveScan
  <2>2. scanStatus'[s] = scanStatus[s]
    BY <1>2, <1>7, <1>9, <2>1 DEF StatusStep, Active
  <2>3. scanStatus[s] \in Finished
    BY <1>1, <1>7, <2>1 DEF ScanExists, ScanStatus, Active, Finished
  <2>4. \/ domainStatus[d] = scanStatus[s]
        \/ \E v \in Workers : Carries(v) /\ JobScan(v) = s
    BY <1>6, <1>7, <1>11 DEF MirrorInvariant, LatestIsMirrored
  \* A write to the domain is that of its latest scan.
  <2>5. ASSUME NEW status \in {"COMPLETED", "FAILED"}, SetDomainStatus(d, status), JobDomain(w) = d,
               DomainExists(d), wPc[w] = IF status = "COMPLETED" THEN "domainCompleted"
                                                                 ELSE "domainFailed"
        PROVE  domainStatus'[d] = scanStatus'[s]
    <3>1. domainStatus'[d] = status
      BY <1>1, <2>5 DEF SetDomainStatus
    <3>2. wPc[w] # "idle" /\ Carries(w)
      BY <2>5 DEF Carries
    <3>3. ScanExists(own)
      BY <1>2, <2>5, <3>2, DomainKeepsScan
    <3>4. scanStatus[own] = status
      BY <1>2, <1>3, <1>9, <2>5, <3>2, <3>3 DEF MirrorInvariant, OutcomeIsCarried
    <3>5. own = s
      <4>1. SUFFICES ASSUME own # s  PROVE FALSE
        OBVIOUS
      <4>2. s[2] > JobScan(w)[2]
        BY <1>2, <1>3, <1>6, <1>7, <2>5, <3>3, <4>1, LatestIsYoungest
      <4> QED
        BY <1>6, <1>7, <2>3, <2>5, <3>2, <4>2, InOrderCarriesLast DEF WorkersInvariant
    <3> QED
      BY <2>2, <3>1, <3>4, <3>5
  <2>6. CASE domainStatus'[d] = domainStatus[d] /\ (RowsGone(w) \/ ~Carries(w) \/ JobDomain(w) # d)
    <3>1. CASE domainStatus[d] = scanStatus[s]
      BY <1>7, <2>2, <2>6, <3>1
    <3>2. ASSUME NEW v \in Workers, Carries(v), JobScan(v) = s
          PROVE  Carries(v)' /\ JobScan(v)' = s
      <4>1. v # w
        BY <1>2, <1>3, <1>7, <2>6, <3>2 DEF RowsGone
      <4> QED
        BY <1>5, <3>2, <4>1
    <3> QED
      BY <1>7, <2>4, <3>1, <3>2
  <2>7. CASE MarkDomainRunning(w)
    <3>1. wPc[w] = "domainRunning" /\ DomainExists(JobDomain(w))
          /\ SetDomainStatus(JobDomain(w), "RUNNING") /\ ~Carries(w)
      BY <2>7 DEF MarkDomainRunning, At, Carries
    <3>2. JobDomain(w) # d
      <4>1. SUFFICES ASSUME JobDomain(w) = d  PROVE FALSE
        OBVIOUS
      <4>2. ScanExists(own)
        BY <1>2, <3>1, DomainKeepsScan
      <4>3. scanStatus[own] = "RUNNING"
        BY <1>2, <1>3, <1>9, <3>1, <4>1, <4>2 DEF WorkersInvariant, TaskKnowsItsScan
      <4> QED
        BY <1>3, <2>1, <4>1, <4>3 DEF Active
    <3>3. domainStatus'[d] = domainStatus[d]
      BY <1>1, <3>1, <3>2 DEF SetDomainStatus
    <3> QED
      BY <2>6, <3>1, <3>3
  <2>8. CASE MarkDomainCompleted(w) \/ MarkDomainFailed(w)
    <3>1. PICK status \in {"COMPLETED", "FAILED"} :
            /\ wPc[w] = IF status = "COMPLETED" THEN "domainCompleted" ELSE "domainFailed"
            /\ DomainExists(JobDomain(w)) /\ SetDomainStatus(JobDomain(w), status)
      BY <2>8 DEF MarkDomainCompleted, MarkDomainFailed, At
    <3>2. CASE JobDomain(w) = d
      BY <1>7, <2>5, <3>1, <3>2
    <3>3. CASE JobDomain(w) # d
      <4>1. domainStatus'[d] = domainStatus[d]
        BY <1>1, <1>3, <3>1, <3>3 DEF SetDomainStatus
      <4> QED
        BY <2>6, <3>3, <4>1
    <3> QED
      BY <3>2, <3>3
  <2>9. CASE LoadScan(w) \/ CheckRunning(w) \/ MarkScanRunning(w) \/ StoreAssets(w)
             \/ MarkScanCompleted(w) \/ EnqueueNextPending(w) \/ RetryLater(w) \/ GiveUp(w)
             \/ MarkScanFailed(w) \/ RowsGone(w) \/ Acknowledge(w)
    <3>1. /\ UNCHANGED domainStatus
          /\ RowsGone(w) \/ ~Carries(w)
      BY <2>9 DEF LoadScan, CheckRunning, MarkScanRunning, StoreAssets, MarkScanCompleted,
                  EnqueueNextPending, RetryLater, GiveUp, MarkScanFailed, RowsGone, Acknowledge,
                  At, Carries
    <3> QED
      BY <2>6, <3>1
  <2> QED
    BY <2>7, <2>8, <2>9 DEF TaskStep
<1> QED
  BY <1>10, <1>11

LEMMA TasksPreserveMirrorInvariant ==
  ASSUME RowsInvariant, WorkersInvariant, MirrorInvariant, RacesGrow, RacesAreNoted',
         NEW w \in Workers, TaskStep(w)
  PROVE  MirrorInvariant'
BY TasksCarryOutcome, TasksKeepMirrored DEF MirrorInvariant

LEMMA TakeJobPreservesMirrorInvariant ==
  ASSUME RowsInvariant, MirrorInvariant, RacesGrow,
         NEW w \in Workers, NEW m \in Messages, TakeJob(w, m)
  PROVE  MirrorInvariant'
<1>1. /\ wPc[w] = "idle" /\ wPc'[w] = "load"
      /\ \A v \in Workers \ {w} : wPc'[v] = wPc[v] /\ JobScan(v)' = JobScan(v)
      /\ UNCHANGED storeVars
  BY DEF TakeJob, At, Continue, RowsInvariant, TypeOK, JobScan
<1>2. /\ ~Carries(w) /\ ~Carries(w)'
      /\ \A v \in Workers \ {w} : Carries(v)' = Carries(v)
  BY <1>1 DEF Carries
<1>3. OutcomeIsCarried'
  <2> SUFFICES ASSUME NEW v \in Workers \ {w}, Carries(v), ScanExists(JobScan(v)),
                      JobScan(v) \notin duplicated
               PROVE  scanStatus[JobScan(v)] =
                        IF wPc[v] = "domainCompleted" THEN "COMPLETED" ELSE "FAILED"
    BY <1>1, <1>2 DEF OutcomeIsCarried, RacesGrow, ScanExists
  <2> QED
    BY DEF MirrorInvariant, OutcomeIsCarried
<1>4. LatestIsMirrored'
  <2> SUFFICES ASSUME NEW d \in Domains, NEW n \in 1..MaxScans, Latest(d, n), InOrder(d)
               PROVE  \/ HasActiveScan(d)
                      \/ domainStatus[d] = scanStatus[<<d, n>>]
                      \/ \E v \in Workers \ {w} : Carries(v) /\ JobScan(v) = <<d, n>>
    BY <1>1, <1>2, InOrderBefore DEF LatestIsMirrored, HasActiveScan, Latest, ScanExists
  <2> QED
    BY <1>2 DEF MirrorInvariant, LatestIsMirrored
<1> QED
  BY <1>3, <1>4 DEF MirrorInvariant

-----------------------------------------------------------------------------
(* A domain shows its latest outcome: what the other processes do to it *)

\* A step that concerns no task carries no outcome away.
LEMMA UndisturbedOutcomes ==
  ASSUME RowsInvariant, MirrorInvariant, RacesGrow, TasksUndisturbed
  PROVE  OutcomeIsCarried'
<1> SUFFICES ASSUME NEW w \in Workers, Carries(w), ScanExists(JobScan(w))',
                    JobScan(w)' \notin duplicated'
             PROVE  scanStatus'[JobScan(w)'] =
                      IF wPc[w] = "domainCompleted" THEN "COMPLETED" ELSE "FAILED"
  BY DEF OutcomeIsCarried, Carries, TasksUndisturbed
<1>1. wPc[w] # "idle"
  BY DEF Carries
<1>2. /\ JobScan(w)' = JobScan(w) /\ ScanExists(JobScan(w))
      /\ scanStatus'[JobScan(w)] = scanStatus[JobScan(w)]
      /\ JobScan(w) \notin duplicated
  BY <1>1, UndisturbedScan DEF RacesGrow
<1> QED
  BY <1>2 DEF MirrorInvariant, OutcomeIsCarried

\* What becomes of the latest scan of a domain in a step that concerns no task: a scan
\* is under way, or it and its domain's status are as they were.
LatestKept ==
  \A d \in Domains, n \in 1..MaxScans : (Latest(d, n)' /\ InOrder(d)') =>
    \/ HasActiveScan(d)'
    \/ /\ Latest(d, n)
       /\ HasActiveScan(d) => HasActiveScan(d)'
       /\ scanStatus'[<<d, n>>] = scanStatus[<<d, n>>]
       /\ domainStatus'[d] = domainStatus[d]

LEMMA LatestKeptIsMirrored ==
  ASSUME LatestIsMirrored, RacesGrow, LatestKept, UNCHANGED workerVars
  PROVE  LatestIsMirrored'
<1> SUFFICES ASSUME NEW d \in Domains, NEW n \in 1..MaxScans, Latest(d, n)', InOrder(d)',
                    ~HasActiveScan(d)'
             PROVE  \/ domainStatus'[d] = scanStatus'[<<d, n>>]
                    \/ \E w \in Workers : Carries(w)' /\ JobScan(w)' = <<d, n>>
  BY DEF LatestIsMirrored
<1>1. /\ Latest(d, n) /\ InOrder(d) /\ ~HasActiveScan(d)
      /\ scanStatus'[<<d, n>>] = scanStatus[<<d, n>>]
      /\ domainStatus'[d] = domainStatus[d]
  BY InOrderBefore DEF LatestKept
<1> QED
  BY <1>1 DEF LatestIsMirrored, Carries, JobScan

\* A domain that is written to, or not, while its scans stay as they are.
LEMMA SameScansLatestKept ==
  ASSUME UNCHANGED scanStatus,
         \A d \in Domains, n \in 1..MaxScans : (Latest(d, n) /\ InOrder(d)') =>
           HasActiveScan(d) \/ domainStatus'[d] = domainStatus[d]
  PROVE  LatestKept
<1>1. \A d \in Domains, n \in 1..MaxScans : Latest(d, n)' <=> Latest(d, n)
  BY DEF Latest, ScanExists
<1>2. \A d \in Domains : HasActiveScan(d)' <=> HasActiveScan(d)
  BY DEF HasActiveScan
<1> QED
  BY <1>1, <1>2 DEF LatestKept

LEMMA DeletePreservesMirrorInvariant ==
  ASSUME RowsInvariant, MirrorInvariant, RacesGrow, NEW d \in Domains, DeleteDomain(d)
  PROVE  MirrorInvariant'
<1>1. /\ UNCHANGED workerVars
      /\ \A s \in ScanIds : /\ scanStatus'[s] = IF DomainOf(s) = d THEN "NONE" ELSE scanStatus[s]
                            /\ assets'[s] = IF DomainOf(s) = d THEN 0 ELSE assets[s]
      /\ domainStatus' = [domainStatus EXCEPT ![d] = "DELETED"]
      /\ domainStatus \in [Domains -> DomainStatus \cup {"NEW", "DELETED"}]
  BY DEF DeleteDomain, RowsInvariant, TypeOK
<1>2. TasksUndisturbed
  BY <1>1 DEF TasksUndisturbed, RowsInvariant, TypeOK, NoOrphanRows, ScanExists
<1>3. LatestKept
  <2> SUFFICES ASSUME NEW e \in Domains, NEW n \in 1..MaxScans, Latest(e, n)'
               PROVE  /\ Latest(e, n)
                      /\ HasActiveScan(e) => HasActiveScan(e)'
                      /\ scanStatus'[<<e, n>>] = scanStatus[<<e, n>>]
                      /\ domainStatus'[e] = domainStatus[e]
    BY DEF LatestKept
  <2>1. e # d
    BY <1>1, ScanIdOf DEF Latest, ScanExists
  <2>2. \A k \in 1..MaxScans : scanStatus'[<<e, k>>] = scanStatus[<<e, k>>]
    BY <1>1, <2>1, ScanIdOf
  <2> QED
    BY <1>1, <2>1, <2>2 DEF Latest, ScanExists, HasActiveScan
<1> QED
  BY <1>1, <1>2, <1>3, UndisturbedOutcomes, LatestKeptIsMirrored DEF MirrorInvariant

\* Without faults the recovery finds no scan.
LEMMA RecoveryPreservesMirrorInvariant ==
  ASSUME RowsInvariant, WorkersInvariant, MirrorInvariant, RacesGrow, RecoveryStep
  PROVE  MirrorInvariant'
<1>1. UNCHANGED <<domainStatus, assets, workerVars>>
  BY RecoveryFrame
<1>2. UNCHANGED scanStatus
  BY DEF RecoveryStep, SelectRunning, ResetInterrupted, ListRecoverable, RequeueScan,
         StartServing, WorkersInvariant, FirstStartFindsNothing
<1>3. TasksUndisturbed
  BY <1>1, <1>2 DEF TasksUndisturbed, RowsInvariant, TypeOK, NoOrphanRows, ScanExists
<1>4. LatestKept
  BY <1>1, <1>2, SameScansLatestKept
<1> QED
  BY <1>1, <1>3, <1>4, UndisturbedOutcomes, LatestKeptIsMirrored DEF MirrorInvariant

LEMMA RequestsPreserveMirrorInvariant ==
  ASSUME RowsInvariant, WorkersInvariant, MirrorInvariant, RacesGrow, NEW r \in Requests,
         HandlerStep(r) \/ \E d \in Domains : CreateDomain(r, d) \/ LockAndCheck(r, d)
  PROVE  MirrorInvariant'
<1>1. UNCHANGED <<assets, workerVars>>
  BY RequestFrame
<1>2. /\ \A q \in Requests : reqPc[q] # "idle" => ReqDomain(q) \in Domains
      /\ \A q \in Requests : reqPc[q] = "initialWrite" => reqScan[q] \in ScanIds
      /\ domainStatus \in [Domains -> DomainStatus \cup {"NEW", "DELETED"}]
  BY DEF RowsInvariant, TypeOK, ReqDomain, Targets
<1>3. ASSUME UNCHANGED scanStatus, LatestKept  PROVE MirrorInvariant'
  <2>1. TasksUndisturbed
    BY <1>1, <1>3 DEF TasksUndisturbed, RowsInvariant, TypeOK, NoOrphanRows, ScanExists
  <2> QED
    BY <1>1, <1>3, <2>1, UndisturbedOutcomes, LatestKeptIsMirrored DEF MirrorInvariant
\* The scan inserted is under way.
<1>4. CASE InsertInitialScan(r) \/ InsertManualScan(r)
  <2>1. PICK d \in Domains : d = ReqDomain(r) /\ InsertScan(d)
    BY <1>2, <1>4 DEF InsertInitialScan, InsertManualScan
  <2>2. \A e \in Domains \ {d} : domainStatus'[e] = domainStatus[e]
    BY <1>2, <1>4, <2>1 DEF InsertInitialScan, InsertManualScan
  <2>3. TasksUndisturbed /\ \A s \in ScanIds : DomainOf(s) # d => scanStatus'[s] = scanStatus[s]
    BY <1>1, <2>1, InsertionPreserves
  <2>4. HasActiveScan(d)'
    <3>1. PICK t \in ScanIds : t = <<d, created[d] + 1>> /\ scanStatus'[t] = "PENDING"
      BY <2>1, InsertedScan
    <3>2. created[d] + 1 \in 1..MaxScans
      BY <3>1 DEF ScanIds
    <3> QED
      BY <3>1, <3>2 DEF HasActiveScan, Active
  <2>5. LatestKept
    <3> SUFFICES ASSUME NEW e \in Domains \ {d}, NEW n \in 1..MaxScans, Latest(e, n)'
                 PROVE  /\ Latest(e, n)
                        /\ HasActiveScan(e) => HasActiveScan(e)'
                        /\ scanStatus'[<<e, n>>] = scanStatus[<<e, n>>]
                        /\ domainStatus'[e] = domainStatus[e]
      BY <2>4 DEF LatestKept
    <3>1. \A k \in 1..MaxScans : scanStatus'[<<e, k>>] = scanStatus[<<e, k>>]
      BY <2>3, ScanIdOf
    <3> QED
      BY <2>2, <3>1 DEF Latest, ScanExists, HasActiveScan
  <2> QED
    BY <1>1, <2>3, <2>5, UndisturbedOutcomes, LatestKeptIsMirrored DEF MirrorInvariant
\* The creation's own scan is still under way, or its commit comes late.
<1>5. CASE WriteInitialDomain(r)
  <2>1. PICK d \in Domains : d = ReqDomain(r) /\ reqPc[r] = "initialWrite"
    BY <1>2, <1>5 DEF WriteInitialDomain
  <2>2. UNCHANGED scanStatus /\ \A e \in Domains \ {d} : domainStatus'[e] = domainStatus[e]
    BY <1>2, <1>5, <2>1 DEF WriteInitialDomain, SetDomainStatus
  <2>3. InOrder(d)' => HasActiveScan(d)
    <3>1. SUFFICES ASSUME InOrder(d)  PROVE HasActiveScan(d)
      BY InOrderBefore
    <3>2. scanStatus[reqScan[r]] \in Active
      BY <2>1, <3>1 DEF WorkersInvariant, RacesAreNoted, Overtaken, InOrder
    <3>3. PICK t \in ScanIds : t = reqScan[r] /\ t[1] = d
      BY <1>2, <2>1 DEF ReqDomain
    <3>4. t = <<d, t[2]>> /\ t[2] \in 1..MaxScans
      BY <3>3, ScanIdParts DEF DomainOf
    <3> QED
      BY <3>2, <3>3, <3>4 DEF HasActiveScan
  <2> QED
    BY <1>3, <2>2, <2>3, SameScansLatestKept
\* A domain that is created has no scan yet.
<1>6. ASSUME NEW d \in Domains, CreateDomain(r, d)  PROVE MirrorInvariant'
  <2>1. /\ domainStatus[d] = "NEW" /\ UNCHANGED scanStatus
        /\ \A e \in Domains \ {d} : domainStatus'[e] = domainStatus[e]
    BY <1>2, <1>6 DEF CreateDomain
  <2>2. \A n \in 1..MaxScans : ~Latest(d, n)
    BY <2>1, ScanIdOf DEF Latest, RowsInvariant, NoOrphanRows, DomainExists, DomainStatus
  <2> QED
    BY <1>3, <2>1, <2>2, SameScansLatestKept
<1>7. CASE \/ InitialScanRefused(r) \/ ReadInitialDomain(r) \/ InitialDomainGone(r)
           \/ EnqueueNewScan(r)
           \/ \E d \in Domains : LockAndCheck(r, d)
  <2>1. UNCHANGED <<scanStatus, domainStatus>>
    BY <1>7 DEF InitialScanRefused, ReadInitialDomain, InitialDomainGone, EnqueueNewScan,
                LockAndCheck
  <2> QED
    BY <1>3, <2>1, SameScansLatestKept
<1> QED
  BY <1>4, <1>5, <1>6, <1>7 DEF HandlerStep

-----------------------------------------------------------------------------
(* A domain shows its latest outcome: the theorems *)

LEMMA InitMirrorInvariant == WatchedInit => MirrorInvariant
<1> SUFFICES ASSUME WatchedInit  PROVE MirrorInvariant
  OBVIOUS
<1>1. \A s \in ScanIds : ~ScanExists(s)
  BY DEF WatchedInit, Init, ScanExists
<1>2. OutcomeIsCarried
  BY DEF WatchedInit, Init, OutcomeIsCarried, Carries
<1>3. LatestIsMirrored
  BY <1>1, ScanIdOf DEF LatestIsMirrored, Latest
<1> QED
  BY <1>2, <1>3 DEF MirrorInvariant

LEMMA StutterPreservesMirrorInvariant ==
  ASSUME MirrorInvariant, UNCHANGED vars, RacesGrow
  PROVE  MirrorInvariant'
<1>1. OutcomeIsCarried'
  BY DEF vars, MirrorInvariant, OutcomeIsCarried, Carries, ScanExists, JobScan, RacesGrow
<1>2. LatestKept /\ UNCHANGED workerVars
  BY SameScansLatestKept DEF vars
<1> QED
  BY <1>1, <1>2, LatestKeptIsMirrored DEF MirrorInvariant

\* In a domain for which no commit came late the outcome of the latest scan is on its
\* domain, or on its way there, or a scan is under way: for any number of workers,
\* domains, API threads, scans and retries, without faults.
THEOREM MirrorInvariantHolds ==
  ASSUME Faults = {}
  PROVE  WatchedSpec => []MirrorInvariant
<1>1. WatchedInit => MirrorInvariant
  BY InitMirrorInvariant
<1>2. RowsInvariant /\ WorkersInvariant /\ MirrorInvariant /\ [Next /\ Watch]_<<vars, raceVars>>
        => MirrorInvariant'
  <2> SUFFICES ASSUME RowsInvariant, WorkersInvariant, MirrorInvariant,
                      [Next /\ Watch]_<<vars, raceVars>>
               PROVE  MirrorInvariant'
    OBVIOUS
  <2>1. RacesGrow /\ RacesAreNoted'
    BY StepsNoteRaces DEF WorkersInvariant
  <2>2. CASE Processing
    BY <2>1, <2>2, RequestsPreserveMirrorInvariant, TakeJobPreservesMirrorInvariant,
       TasksPreserveMirrorInvariant, RecoveryPreservesMirrorInvariant DEF Processing
  <2>3. CASE Client
    BY <2>1, <2>3, RequestsPreserveMirrorInvariant, DeletePreservesMirrorInvariant DEF Client
  <2>4. CASE UNCHANGED vars
    BY <2>1, <2>4, StutterPreservesMirrorInvariant
  <2> QED
    BY <2>2, <2>3, <2>4, NoFaultWithoutKinds DEF Next, Wait
<1> QED
  BY <1>1, <1>2, RowsInvariantHolds, WatchedIsSpec, WorkersInvariantHolds, PTL DEF WatchedSpec

\* At rest nothing is on its way: the outcome of the latest scan is on its domain.
LEMMA RestMirrorsLatestScan ==
  ASSUME MirrorInvariant, NoStrandedScan
  PROVE  DomainMirrorsLatestScan
<1> SUFFICES ASSUME Quiescent, NEW d \in Domains, NEW n \in 1..MaxScans, Latest(d, n), InOrder(d)
             PROVE  domainStatus[d] = scanStatus[<<d, n>>]
  BY DEF DomainMirrorsLatestScan
<1>1. ~HasActiveScan(d)
  BY ScanIdOf DEF NoStrandedScan, HasActiveScan
<1>2. \A w \in Workers : ~Carries(w)
  BY DEF Quiescent, Carries
<1> QED
  BY <1>1, <1>2 DEF MirrorInvariant, LatestIsMirrored

\* What the domain list shows at rest is the outcome of the domain's latest scan,
\* unless a commit for that domain came late or two tasks had one of its scans in hand.
THEOREM DomainsMirrorLatestScans ==
  ASSUME Faults = {}
  PROVE  WatchedSpec => []DomainMirrorsLatestScan
<1>1. MirrorInvariant /\ NoStrandedScan => DomainMirrorsLatestScan
  BY RestMirrorsLatestScan
<1> QED
  BY <1>1, MirrorInvariantHolds, WatchedIsSpec, FaultlessStrandsNoScan, PTL

\* The exceptions are races of two pool processes: with --concurrency=1 there are none.
THEOREM OneProcessHasNoRivals ==
  ASSUME \A v, w \in Workers : v = w
  PROVE  WatchedSpec => [](rivals = {} /\ duplicated = {})
<1>1. WatchedInit => rivals = {} /\ duplicated = {}
  BY DEF WatchedInit
<1>2. rivals = {} /\ duplicated = {} /\ [Next /\ Watch]_<<vars, raceVars>>
        => (rivals = {} /\ duplicated = {})'
  <2> SUFFICES ASSUME rivals = {}, duplicated = {}, [Next /\ Watch]_<<vars, raceVars>>
               PROVE  rivals' = {} /\ duplicated' = {}
    OBVIOUS
  <2>1. ASSUME NEW s, NEW t  PROVE ~RivalClaims(s, t)'
    BY DEF RivalClaims
  <2>2. ASSUME NEW s  PROVE ~Duplicated(s)'
    BY DEF Duplicated
  <2> QED
    BY <2>1, <2>2 DEF Watch, raceVars
<1> QED
  BY <1>1, <1>2, PTL DEF WatchedSpec

=============================================================================
