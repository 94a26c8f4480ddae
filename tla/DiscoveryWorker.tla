--------------------------- MODULE DiscoveryWorker ---------------------------
(***************************************************************************)
(* The Celery task run_discovery_scan, that is _process_scan: one action   *)
(* per committed transaction, per SELECT whose result a later step uses,   *)
(* and per publish.  The task acknowledges its message when it has ended,  *)
(* however it ended (task_acks_late).                                      *)
(*                                                                         *)
(* A row that has been deleted makes the ORM raise (StaleDataError, a      *)
(* foreign key violation, ObjectDeletedError).  After a failed flush the   *)
(* session refuses every further statement until it is rolled back, which  *)
(* no handler does, so the exception handlers raise as well: the task ends *)
(* at once and writes nothing more.                                        *)
(***************************************************************************)
EXTENDS DiscoveryState

JobScan(w) == job[w][1]
Attempt(w) == job[w][2]
JobDomain(w) == DomainOf(JobScan(w))

At(w, pc) == wPc[w] = pc
Continue(w, pc) == wPc' = [wPc EXCEPT ![w] = pc]

\* The UPDATE of a scan's status. The ORM leaves out a column whose new value
\* is the one its session loaded.
UpdateScan(w, status) ==
  scanStatus' = IF seen[w] = status THEN scanStatus
                ELSE [scanStatus EXCEPT ![JobScan(w)] = status]

-----------------------------------------------------------------------------
(* Slips the properties must catch. They are no part of the specification. *)

\* A finished scan is not skipped.
LoadWithoutSkip(w) ==
  /\ At(w, "load")
  /\ seen' = [seen EXCEPT ![w] = scanStatus[JobScan(w)]]
  /\ Continue(w, IF ScanExists(JobScan(w)) THEN "check" ELSE "ack")
  /\ UNCHANGED <<storeVars, queue, recoveryVars, requestVars, job, faultVars>>

\* domain_has_running_scan is not asked.
CheckNothing(w) ==
  /\ At(w, "check")
  /\ Continue(w, "claim")
  /\ UNCHANGED <<storeVars, queue, recoveryVars, requestVars, job, seen, faultVars>>

\* The foreign keys of assets are missing.
StoreUnchecked(w) ==
  /\ At(w, "resolve")
  /\ assets' = [assets EXCEPT ![JobScan(w)] = @ + 1]
  /\ Continue(w, "complete")
  /\ UNCHANGED <<domainStatus, scanStatus, created, locked, queue, recoveryVars, requestVars, job, seen, faultVars>>

\* completed_at is set and status is not.
CompleteWithoutStatus(w) ==
  /\ At(w, "complete")
  /\ ScanExists(JobScan(w))
  /\ Continue(w, "domainCompleted")
  /\ UNCHANGED <<storeVars, queue, recoveryVars, requestVars, job, seen, faultVars>>

\* A retry puts the scan back to PENDING while it waits.
RetryAsPending(w) ==
  /\ At(w, "resolve")
  /\ Attempt(w) < MaxRetries
  /\ ScanExists(JobScan(w))
  /\ scanStatus' = [scanStatus EXCEPT ![JobScan(w)] = "PENDING"]
  /\ Publish(<<JobScan(w), Attempt(w) + 1>>)
  /\ Continue(w, "ack")
  /\ UNCHANGED <<domainStatus, created, assets, locked, recoveryVars, requestVars, job, seen, faultVars>>

\* max_retries is not passed and request.retries is not compared.
RetryForever(w) ==
  /\ At(w, "resolve")
  /\ Publish(job[w])
  /\ Continue(w, "ack")
  /\ UNCHANGED <<storeVars, recoveryVars, requestVars, job, seen, faultVars>>

\* The exception of the lookup is swallowed.
SwallowError(w) ==
  /\ At(w, "resolve")
  /\ Continue(w, "complete")
  /\ UNCHANGED <<storeVars, queue, recoveryVars, requestVars, job, seen, faultVars>>

\* _fail_scan leaves the domain alone.
FailLeavesDomain(w) ==
  /\ At(w, "domainFailed")
  /\ DomainExists(JobDomain(w))
  /\ Continue(w, "nextAfterFail")
  /\ UNCHANGED <<storeVars, queue, recoveryVars, requestVars, job, seen, faultVars>>

\* _fail_scan does not enqueue the next PENDING scan.
FailForgetsNext(w) ==
  /\ At(w, "domainFailed")
  /\ DomainExists(JobDomain(w))
  /\ SetDomainStatus(JobDomain(w), "FAILED")
  /\ Continue(w, "ack")
  /\ UNCHANGED <<scanStatus, created, assets, locked, queue, recoveryVars, requestVars, job, seen, faultVars>>

-----------------------------------------------------------------------------
(* Up to RUNNING *)

\* A message is delivered and stays unacknowledged.
TakeJob(w, m) ==
  /\ At(w, "idle")
  /\ queue[m] > 0
  /\ queue' = [queue EXCEPT ![m] = @ - 1]
  /\ job' = [job EXCEPT ![w] = m]
  /\ Continue(w, "load")
  /\ UNCHANGED <<storeVars, recoveryVars, requestVars, seen, faultVars>>

\* The scan is loaded. A scan that is gone or finished ends the task.
LoadScan(w) ==
  /\ At(w, "load")
  /\ seen' = [seen EXCEPT ![w] = scanStatus[JobScan(w)]]
  /\ Continue(w, IF scanStatus[JobScan(w)] \in Active THEN "check" ELSE "ack")
  /\ UNCHANGED <<storeVars, queue, recoveryVars, requestVars, job, faultVars>>

\* While another scan of the domain is RUNNING this one is left PENDING, and
\* its job is dropped.
CheckRunning(w) ==
  /\ At(w, "check")
  /\ Continue(w, IF HasRunningScan(JobDomain(w)) /\ seen[w] # "RUNNING" THEN "ack" ELSE "claim")
  /\ UNCHANGED <<storeVars, queue, recoveryVars, requestVars, job, seen, faultVars>>

MarkScanRunning(w) ==
  /\ At(w, "claim")
  /\ ScanExists(JobScan(w))
  /\ UpdateScan(w, "RUNNING")
  /\ Continue(w, "domainRunning")
  /\ UNCHANGED <<domainStatus, created, assets, locked, queue, recoveryVars, requestVars, job, seen, faultVars>>

\* The commit expired the scan: it is loaded again before the lookup.
MarkDomainRunning(w) ==
  /\ At(w, "domainRunning")
  /\ DomainExists(JobDomain(w))
  /\ SetDomainStatus(JobDomain(w), "RUNNING")
  /\ seen' = [seen EXCEPT ![w] = scanStatus[JobScan(w)]]
  /\ Continue(w, "resolve")
  /\ UNCHANGED <<scanStatus, created, assets, locked, queue, recoveryVars, requestVars, job, faultVars>>

-----------------------------------------------------------------------------
(* The lookup succeeds *)

\* create_assets: every answer is inserted and committed, possibly none. (An
\* INSERT waits for the domain's row lock, but a name without records has none.)
StoreAssets(w) ==
  /\ At(w, "resolve")
  /\ ScanExists(JobScan(w))
  /\ assets' = [assets EXCEPT ![JobScan(w)] = @ + 1]
  /\ Continue(w, "complete")
  /\ UNCHANGED <<domainStatus, scanStatus, created, locked, queue, recoveryVars, requestVars, job, seen, faultVars>>

\* The scan is expired by the commit before: its status is written whatever it is.
MarkScanCompleted(w) ==
  /\ At(w, "complete")
  /\ ScanExists(JobScan(w))
  /\ scanStatus' = [scanStatus EXCEPT ![JobScan(w)] = "COMPLETED"]
  /\ Continue(w, "domainCompleted")
  /\ UNCHANGED <<domainStatus, created, assets, locked, queue, recoveryVars, requestVars, job, seen, faultVars>>

\* The commit expires the scan, and the log line loads it again.
MarkDomainCompleted(w) ==
  /\ At(w, "domainCompleted")
  /\ DomainExists(JobDomain(w))
  /\ SetDomainStatus(JobDomain(w), "COMPLETED")
  /\ seen' = [seen EXCEPT ![w] = scanStatus[JobScan(w)]]
  /\ Continue(w, "next")
  /\ UNCHANGED <<scanStatus, created, assets, locked, queue, recoveryVars, requestVars, job, faultVars>>

\* _enqueue_next_pending_for_domain
EnqueueNextPending(w) ==
  LET d == JobDomain(w) IN
  /\ wPc[w] \in {"next", "nextAfterFail"}
  /\ \/ \E n \in 1..MaxScans : OldestPending(d, n) /\ EnqueueScan(<<d, n>>)
     \/ (\A n \in 1..MaxScans : ~OldestPending(d, n)) /\ UNCHANGED queue
  /\ Continue(w, "ack")
  /\ UNCHANGED <<storeVars, recoveryVars, requestVars, job, seen, faultVars>>

-----------------------------------------------------------------------------
(* The lookup fails *)

\* A DNS error with retries left: the task is published again with one retry
\* more, and the scan stays RUNNING.
RetryLater(w) ==
  /\ At(w, "resolve")
  /\ Attempt(w) < MaxRetries
  /\ Publish(<<JobScan(w), Attempt(w) + 1>>)
  /\ Continue(w, "ack")
  /\ UNCHANGED <<storeVars, recoveryVars, requestVars, job, seen, faultVars>>

\* A DNS error with no retry left, or any other exception at any attempt.
GiveUp(w) ==
  /\ At(w, "resolve")
  /\ Continue(w, "fail")
  /\ UNCHANGED <<storeVars, queue, recoveryVars, requestVars, job, seen, faultVars>>

\* _fail_scan
MarkScanFailed(w) ==
  /\ At(w, "fail")
  /\ ScanExists(JobScan(w))
  /\ UpdateScan(w, "FAILED")
  /\ Continue(w, "domainFailed")
  /\ UNCHANGED <<domainStatus, created, assets, locked, queue, recoveryVars, requestVars, job, seen, faultVars>>

MarkDomainFailed(w) ==
  /\ At(w, "domainFailed")
  /\ DomainExists(JobDomain(w))
  /\ SetDomainStatus(JobDomain(w), "FAILED")
  /\ Continue(w, "nextAfterFail")
  /\ UNCHANGED <<scanStatus, created, assets, locked, queue, recoveryVars, requestVars, job, seen, faultVars>>

-----------------------------------------------------------------------------
(* The end of a task *)

\* The rows the task works on have been deleted under it.
RowsGone(w) ==
  /\ wPc[w] \in {"claim", "domainRunning", "resolve", "complete", "domainCompleted",
                 "fail", "domainFailed"}
  /\ ~ScanExists(JobScan(w))
  /\ Continue(w, "ack")
  /\ UNCHANGED <<storeVars, queue, recoveryVars, requestVars, job, seen, faultVars>>

Forget(w) ==
  /\ Continue(w, "idle")
  /\ job' = [job EXCEPT ![w] = NoJob]
  /\ seen' = [seen EXCEPT ![w] = "NONE"]

Acknowledge(w) ==
  /\ At(w, "ack")
  /\ Forget(w)
  /\ UNCHANGED <<storeVars, queue, recoveryVars, requestVars, faultVars>>

-----------------------------------------------------------------------------
(* Faults of a worker and of the broker *)

\* The worker dies; its message is restored to the queue.
WorkerCrash(w) ==
  /\ ~At(w, "idle")
  /\ Inject("workerCrash")
  /\ jobLost' = TRUE
  /\ Publish(job[w])
  /\ Forget(w)
  /\ UNCHANGED <<storeVars, recoveryVars, requestVars>>

\* The pool child is killed; the parent acknowledges its message.
ChildLost(w) ==
  /\ ~At(w, "idle")
  /\ Inject("childLost")
  /\ jobLost' = TRUE
  /\ Forget(w)
  /\ UNCHANGED <<storeVars, queue, recoveryVars, requestVars>>

\* A statement or commit fails: the transaction is rolled back, the session is
\* unusable, and the handlers that would fail the scan raise in their turn.
WorkerDbError(w) ==
  /\ wPc[w] \notin {"idle", "ack"}
  /\ Inject("dbError")
  /\ jobLost' = TRUE
  /\ Continue(w, "ack")
  /\ UNCHANGED <<storeVars, queue, recoveryVars, requestVars, job, seen>>

\* task.retry cannot publish: it rejects the message without requeueing it.
RetryPublishFails(w) ==
  /\ At(w, "resolve")
  /\ Attempt(w) < MaxRetries
  /\ Inject("publishFails")
  /\ jobLost' = TRUE
  /\ Continue(w, "ack")
  /\ UNCHANGED <<storeVars, queue, recoveryVars, requestVars, job, seen>>

\* The publish of the next scan raises. Inside the try block that fails the scan
\* just completed; inside _fail_scan it ends the task.
NextPublishFails(w) ==
  /\ wPc[w] \in {"next", "nextAfterFail"}
  /\ \E n \in 1..MaxScans : OldestPending(JobDomain(w), n)
  /\ Inject("publishFails")
  /\ jobLost' = TRUE
  /\ Continue(w, IF At(w, "next") THEN "fail" ELSE "ack")
  /\ UNCHANGED <<storeVars, queue, recoveryVars, requestVars, job, seen>>

\* A message disappears from the broker.
LoseMessage(m) ==
  /\ queue[m] > 0
  /\ Inject("brokerLoss")
  /\ jobLost' = TRUE
  /\ queue' = [queue EXCEPT ![m] = @ - 1]
  /\ UNCHANGED <<storeVars, recoveryVars, requestVars, workerVars>>

TaskStep(w) ==
  \/ LoadScan(w)
  \/ CheckRunning(w)
  \/ MarkScanRunning(w)
  \/ MarkDomainRunning(w)
  \/ StoreAssets(w)
  \/ MarkScanCompleted(w)
  \/ MarkDomainCompleted(w)
  \/ EnqueueNextPending(w)
  \/ RetryLater(w)
  \/ GiveUp(w)
  \/ MarkScanFailed(w)
  \/ MarkDomainFailed(w)
  \/ RowsGone(w)
  \/ Acknowledge(w)

WorkerFault(w) ==
  \/ WorkerCrash(w)
  \/ ChildLost(w)
  \/ WorkerDbError(w)
  \/ RetryPublishFails(w)
  \/ NextPublishFails(w)
=============================================================================
