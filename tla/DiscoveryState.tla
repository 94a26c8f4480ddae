---------------------------- MODULE DiscoveryState ----------------------------
(***************************************************************************)
(* The state of the asset discovery service that outlives one step of one  *)
(* process: the PostgreSQL rows (app/models), the jobs on the Celery/Redis *)
(* broker, and the progress of every process that touches them.            *)
(*                                                                         *)
(* The database is READ COMMITTED and every repository function commits    *)
(* before it returns, so one step of the model is one committed            *)
(* transaction, or one SELECT whose result is used by a later transaction. *)
(***************************************************************************)
EXTENDS Naturals, FiniteSets

CONSTANTS
  Domains,     \* ids of the domain rows; an id is used at most once (uuid4)
  Requests,    \* API threads, each serving one request at a time
  Workers,     \* Celery pool processes
  MaxScans,    \* bound: scans created for one domain
  MaxRetries,  \* settings.scan_max_retries
  Faults,      \* the kinds of fault a run injects
  MaxFaults    \* bound: how many faults a run injects

(***************************************************************************)
(* What can go wrong around the code:                                      *)
(*   apiCrash      the API process dies and is started again;              *)
(*   workerCrash   a worker dies and its unacknowledged job is redelivered *)
(*                 (task_acks_late);                                       *)
(*   childLost     a pool child is killed and its job is acknowledged      *)
(*                 (task_reject_on_worker_lost keeps its default, False);  *)
(*   dbError       a statement or a commit of one session fails;           *)
(*   publishFails  the broker refuses a publish;                           *)
(*   brokerLoss    the broker loses a queued job.                          *)
(***************************************************************************)
FaultKinds ==
  {"apiCrash", "workerCrash", "childLost", "dbError", "publishFails", "brokerLoss"}

ASSUME BoundsAssumption ==
  /\ MaxScans \in Nat
  /\ MaxRetries \in Nat
  /\ MaxFaults \in Nat

ASSUME FaultsAssumption == Faults \subseteq FaultKinds

VARIABLES
  (* PostgreSQL *)
  domainStatus,  \* domain id -> domains.status, or "NEW" / "DELETED"
  scanStatus,    \* scan id -> scans.status, or "NONE" while there is no row
  created,       \* domain id -> number of scans ever created for it
  assets,        \* scan id -> how many times its answers (if only none) have been stored
  locked,        \* domains whose row a transaction holds FOR UPDATE
  (* Celery / Redis *)
  queue,         \* message -> number of undelivered copies
  (* API process *)
  api,           \* "up", or the step of recover_pending_jobs it is at
  batch,         \* scan ids that step of the recovery has loaded
  reqPc,         \* request -> where its handler is
  reqScan,       \* request -> the scan (or domain) it works on
  (* worker processes *)
  wPc,           \* worker -> where its task is
  job,           \* worker -> the message it has not acknowledged yet
  seen,          \* worker -> scan.status as its ORM session last loaded it
  (* environment, and a history variable *)
  faults,        \* faults injected so far
  jobLost        \* a job was lost or cut short since the API last started

storeVars == <<domainStatus, scanStatus, created, assets, locked>>
recoveryVars == <<api, batch>>
requestVars == <<reqPc, reqScan>>
workerVars == <<wPc, job, seen>>
faultVars == <<faults, jobLost>>
vars == <<storeVars, queue, recoveryVars, requestVars, workerVars, faultVars>>

-----------------------------------------------------------------------------
(* Rows and messages *)

\* A scan is named <<d, n>>: the n-th scan created for domain d. The second
\* component is the order of scans.created_at.
ScanIds == Domains \X (1..MaxScans)
DomainOf(s) == s[1]

ScanStatus == {"PENDING", "RUNNING", "COMPLETED", "FAILED"}
DomainStatus == {"PENDING", "RUNNING", "COMPLETED", "FAILED"}
Active == {"PENDING", "RUNNING"}
Finished == {"COMPLETED", "FAILED"}

\* A task message: run_discovery_scan(scan_id) with request.retries.
Messages == ScanIds \X (0..MaxRetries)

DomainExists(d) == domainStatus[d] \in DomainStatus
ScanExists(s) == scanStatus[s] # "NONE"

\* domain_has_running_scan and domain_has_active_scan.
HasRunningScan(d) == \E n \in 1..MaxScans : scanStatus[<<d, n>>] = "RUNNING"
HasActiveScan(d) == \E n \in 1..MaxScans : scanStatus[<<d, n>>] \in Active

\* The PENDING scan of d with the least created_at.
OldestPending(d, n) ==
  /\ scanStatus[<<d, n>>] = "PENDING"
  /\ \A m \in 1..MaxScans : m < n => scanStatus[<<d, m>>] # "PENDING"

-----------------------------------------------------------------------------
(* Process states *)

NoScan == <<"none", 0>>
NoJob == <<NoScan, 0>>

\* A request that has not inserted its scan yet works on <<d, 0>>.
Targets == Domains \X (0..MaxScans)

RequestPcs == {"idle", "initialScan", "initialRead", "initialWrite", "insert", "enqueue"}
RecoveryPcs == {"up", "select", "reset", "list", "requeue"}
WorkerPcs ==
  {"idle", "load", "check", "claim", "domainRunning", "resolve", "complete",
   "domainCompleted", "next", "fail", "domainFailed", "nextAfterFail", "ack"}

\* Every variable stays in its range, and a busy process knows what it works on.
TypeOK ==
  /\ domainStatus \in [Domains -> DomainStatus \cup {"NEW", "DELETED"}]
  /\ scanStatus \in [ScanIds -> ScanStatus \cup {"NONE"}]
  /\ created \in [Domains -> 0..MaxScans]
  /\ assets \in [ScanIds -> Nat]
  /\ locked \subseteq Domains
  /\ queue \in [Messages -> Nat]
  /\ api \in RecoveryPcs
  /\ batch \subseteq ScanIds
  /\ reqPc \in [Requests -> RequestPcs]
  /\ reqScan \in [Requests -> Targets \cup {NoScan}]
  /\ wPc \in [Workers -> WorkerPcs]
  /\ job \in [Workers -> Messages \cup {NoJob}]
  /\ seen \in [Workers -> ScanStatus \cup {"NONE"}]
  /\ faults \in 0..MaxFaults
  /\ jobLost \in BOOLEAN
  /\ \A r \in Requests : reqPc[r] # "idle" => reqScan[r] \in Targets
  /\ \A r \in Requests :
       reqPc[r] \in {"initialRead", "initialWrite", "enqueue"} => reqScan[r] \in ScanIds
  /\ \A w \in Workers : wPc[w] # "idle" => job[w] \in Messages

-----------------------------------------------------------------------------
(* Effects shared by the handlers *)

\* set_domain_status: an UPDATE of the domain row, which waits for its lock.
SetDomainStatus(d, status) ==
  /\ d \notin locked
  /\ domainStatus' = [domainStatus EXCEPT ![d] = status]

\* create_scan: the next scan row of d, PENDING.
InsertScan(d) ==
  /\ created[d] < MaxScans
  /\ created' = [created EXCEPT ![d] = @ + 1]
  /\ scanStatus' = [scanStatus EXCEPT ![<<d, created[d] + 1>>] = "PENDING"]

\* enqueue_scan: run_discovery_scan.delay(scan_id), a first attempt.
Publish(m) == queue' = [queue EXCEPT ![m] = @ + 1]
EnqueueScan(s) == Publish(<<s, 0>>)

\* One fault of a kind the run injects, within its bound.
Inject(kind) ==
  /\ kind \in Faults
  /\ faults < MaxFaults
  /\ faults' = faults + 1

Init ==
  /\ domainStatus = [d \in Domains |-> "NEW"]
  /\ scanStatus = [s \in ScanIds |-> "NONE"]
  /\ created = [d \in Domains |-> 0]
  /\ assets = [s \in ScanIds |-> 0]
  /\ locked = {}
  /\ queue = [m \in Messages |-> 0]
  /\ api = "select"
  /\ batch = {}
  /\ reqPc = [r \in Requests |-> "idle"]
  /\ reqScan = [r \in Requests |-> NoScan]
  /\ wPc = [w \in Workers |-> "idle"]
  /\ job = [w \in Workers |-> NoJob]
  /\ seen = [w \in Workers |-> "NONE"]
  /\ faults = 0
  /\ jobLost = FALSE
=============================================================================
