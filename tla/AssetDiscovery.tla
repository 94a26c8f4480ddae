---------------------------- MODULE AssetDiscovery ----------------------------
(***************************************************************************)
(* The discovery service as a whole: API threads, Celery workers and the   *)
(* recovery at API start, over one database and one broker; and what makes *)
(* it correct.                                                             *)
(***************************************************************************)
EXTENDS ScanApi, DiscoveryWorker, ScanRecovery

Processing ==
  \/ \E r \in Requests : HandlerStep(r)
  \/ \E w \in Workers, m \in Messages : TakeJob(w, m)
  \/ \E w \in Workers : TaskStep(w)
  \/ RecoveryStep

Client ==
  \/ \E r \in Requests, d \in Domains : CreateDomain(r, d) \/ LockAndCheck(r, d)
  \/ \E d \in Domains : DeleteDomain(d)

Fault ==
  \/ \E r \in Requests : RequestFault(r)
  \/ \E w \in Workers : WorkerFault(w)
  \/ \E m \in Messages : LoseMessage(m)
  \/ ApiCrash
  \/ RecoveryFails

\* Nothing is under way: no request, no job, no task, no recovery.
Quiescent ==
  /\ api = "up"
  /\ \A r \in Requests : reqPc[r] = "idle"
  /\ \A m \in Messages : queue[m] = 0
  /\ \A w \in Workers : wPc[w] = "idle"

\* The service waits for its clients.
Wait == Quiescent /\ UNCHANGED vars

Next == Processing \/ Client \/ Fault \/ Wait

Spec == Init /\ [][Next]_vars

\* Threads and processes are scheduled, PostgreSQL hands over a lock once it is
\* free, Redis delivers what it holds, and resolvers answer or time out
\* (resolver.lifetime). Clients owe nothing, and faults need not happen.
Fairness ==
  /\ \A r \in Requests : WF_vars(HandlerStep(r))
  /\ \A m \in Messages : WF_vars(\E w \in Workers : TakeJob(w, m))
  /\ \A w \in Workers : WF_vars(TaskStep(w))
  /\ WF_vars(RecoveryStep)

FairSpec == Spec /\ Fairness

-----------------------------------------------------------------------------
(* No scan is forgotten *)

\* When everything has come to rest no scan is left PENDING or RUNNING: the job
\* _process_scan drops because another scan of the domain is RUNNING is made up
\* for by that scan's _enqueue_next_pending_for_domain, in every interleaving.
NoStrandedScan == Quiescent => \A s \in ScanIds : scanStatus[s] \notin Active

\* recover_pending_jobs makes up for whatever was lost before the API started: a
\* scan can be left behind only by something lost since.
RestartHeals ==
  (Quiescent /\ ~jobLost) => \A s \in ScanIds : scanStatus[s] \notin Active

\* Every scan that is created ends, or goes with its domain.
ScanEventuallyEnds ==
  \A s \in ScanIds : (scanStatus[s] \in Active) ~> (scanStatus[s] \notin Active)

-----------------------------------------------------------------------------
(* One scan at a time *)

\* "Only one RUNNING scan per domain" (the comment of _process_scan on its check).
OneRunningScanPerDomain ==
  \A s, t \in ScanIds :
    (DomainOf(s) = DomainOf(t) /\ scanStatus[s] = "RUNNING" /\ scanStatus[t] = "RUNNING")
      => s = t

\* A row is locked exactly while one trigger_manual_scan is between its SELECT
\* FOR UPDATE and its commit, and no two of them share a row.
LockHeldByOneTrigger ==
  /\ \A r \in Requests : reqPc[r] = "insert" => ReqDomain(r) \in locked
  /\ \A d \in locked : \E r \in Requests : reqPc[r] = "insert" /\ ReqDomain(r) = d
  /\ \A r, q \in Requests :
       (reqPc[r] = "insert" /\ reqPc[q] = "insert" /\ ReqDomain(r) = ReqDomain(q)) => r = q

-----------------------------------------------------------------------------
(* The rows agree with one another *)

\* scans.domain_id and assets.scan_id name rows that exist, whatever worker or
\* request a deletion overtakes.
NoOrphanRows ==
  /\ \A s \in ScanIds : ScanExists(s) => DomainExists(DomainOf(s))
  /\ \A s \in ScanIds : assets[s] > 0 => ScanExists(s)

\* A scan is COMPLETED only once its answers have been stored.
CompletedHasAssets == \A s \in ScanIds : scanStatus[s] = "COMPLETED" => assets[s] > 0

\* A task whose scan has been deleted changes no row, and no job is published on
\* its account but another one for the same scan.
GoneJobsAreNoops ==
  [][\A w \in Workers :
       (wPc[w] # "idle" /\ ~ScanExists(JobScan(w)) /\ wPc'[w] # wPc[w]) =>
         /\ UNCHANGED storeVars
         /\ \A m \in Messages : queue'[m] > queue[m] => m[1] = JobScan(w)]_vars

\* At rest a domain that has scans shows the outcome of one of them.
DomainShowsSomeOutcome ==
  Quiescent => \A d \in Domains :
    (\E n \in 1..MaxScans : ScanExists(<<d, n>>)) =>
      \E n \in 1..MaxScans : domainStatus[d] = scanStatus[<<d, n>>]

-----------------------------------------------------------------------------
(* The invariant the proofs rest on *)

Created(s) == s[2] <= created[s[1]]

\* Rows appear one by one and go only with their domain, so the scans of a domain
\* that exists are all those ever created for it.
RowsMatchHistory ==
  \A s \in ScanIds : ScanExists(s) <=> (Created(s) /\ DomainExists(DomainOf(s)))

NewDomainsAreEmpty == \A d \in Domains : domainStatus[d] = "NEW" => created[d] = 0

\* The row lock keeps the domain of a trigger_manual_scan from being deleted.
LockedDomainExists ==
  \A r \in Requests : reqPc[r] = "insert" => DomainExists(ReqDomain(r))

\* No request is served while the recovery holds the rows it has loaded.
RecoveredRowsExist == api # "up" => \A s \in batch : ScanExists(s)

\* A job or a task names a scan that was created, though it may be gone.
JobsNameCreatedScans ==
  /\ \A m \in Messages : queue[m] > 0 => Created(m[1])
  /\ \A w \in Workers : wPc[w] # "idle" => Created(JobScan(w))

\* A task that goes on to mark_scan_completed has stored its answers.
StoredBeforeCompleted ==
  \A w \in Workers : (wPc[w] = "complete" /\ ScanExists(JobScan(w))) => assets[JobScan(w)] > 0

\* The conjunction every step preserves. It implies NoOrphanRows,
\* CompletedHasAssets and LockHeldByOneTrigger.
RowsInvariant ==
  /\ TypeOK
  /\ LockHeldByOneTrigger
  /\ RowsMatchHistory
  /\ NewDomainsAreEmpty
  /\ LockedDomainExists
  /\ RecoveredRowsExist
  /\ JobsNameCreatedScans
  /\ NoOrphanRows
  /\ StoredBeforeCompleted
  /\ CompletedHasAssets

-----------------------------------------------------------------------------
(* Who sees to a scan that is not finished *)

\* A message names it, or recover_pending_jobs is about to publish one.
HasJob(s) == (\E m \in Messages : m[1] = s /\ queue[m] > 0) \/ s \in batch

\* The task of w will put s to its end, or publish its retry. (MarkScanFailed
\* writes nothing if the session has loaded the scan as FAILED.)
Holds(w, s) ==
  /\ wPc[w] # "idle"
  /\ JobScan(w) = s
  /\ \/ wPc[w] \in {"load", "claim", "domainRunning", "complete"}
     \/ wPc[w] = "check" /\ seen[w] = "RUNNING"
     \/ wPc[w] \in {"resolve", "fail"} /\ seen[w] # "FAILED"

\* The task of w will publish the next PENDING scan of d, whatever becomes of its own.
Ends(w, d) ==
  /\ wPc[w] \in {"complete", "domainCompleted", "next", "fail", "domainFailed", "nextAfterFail"}
  /\ JobDomain(w) = d

\* A request, a job or a task will see to the PENDING scan s, or leave it to
\* another scan that is RUNNING by then.
Attended(s) ==
  \/ HasJob(s)
  \/ \E r \in Requests :
       reqPc[r] \in {"initialRead", "initialWrite", "enqueue"} /\ reqScan[r] = s
  \/ \E w \in Workers :
       wPc[w] \in {"load", "check", "claim", "domainRunning", "resolve"} /\ JobScan(w) = s

RunningIsHeld ==
  \A s \in ScanIds : scanStatus[s] = "RUNNING" => HasJob(s) \/ \E w \in Workers : Holds(w, s)

PendingIsAwaited ==
  \A s \in ScanIds : scanStatus[s] = "PENDING" =>
    \/ HasRunningScan(DomainOf(s))
    \/ \E w \in Workers : Ends(w, DomainOf(s))
    \/ \E t \in ScanIds :
         DomainOf(t) = DomainOf(s) /\ scanStatus[t] = "PENDING" /\ Attended(t)

\* Unless a job has been lost since the API started, somebody sees to every scan
\* that is not finished; until the recovery has listed them, it will.  It is what
\* NoStrandedScan and RestartHeals rest on.
EveryScanIsSeenTo ==
  (~jobLost /\ api \in {"requeue", "up"}) => RunningIsHeld /\ PendingIsAwaited

-----------------------------------------------------------------------------
(* What another comment of the code promises *)

\* "ensure scan never stuck RUNNING" (the last handler of _process_scan).
NoScanStuckRunning == Quiescent => \A s \in ScanIds : scanStatus[s] # "RUNNING"
=============================================================================
