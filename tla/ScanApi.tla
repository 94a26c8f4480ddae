------------------------------- MODULE ScanApi -------------------------------
(***************************************************************************)
(* The API handlers that change discovery state: POST /domains,            *)
(* POST /domains/{id}/scan and DELETE /domains/{id}.  Each handler runs in *)
(* its own thread and database session.                                    *)
(*                                                                         *)
(* A request the code answers with 403, 404 or 409 changes nothing: it is  *)
(* a stuttering step and has no action.                                    *)
(***************************************************************************)
EXTENDS DiscoveryState

ReqDomain(r) == reqScan[r][1]

Goto(r, pc) == reqPc' = [reqPc EXCEPT ![r] = pc]

\* The handler returns, or raises: the thread is free again.
EndRequest(r) ==
  /\ Goto(r, "idle")
  /\ reqScan' = [reqScan EXCEPT ![r] = NoScan]

StartRequest(r, pc, d) ==
  /\ api = "up"
  /\ reqPc[r] = "idle"
  /\ Goto(r, pc)
  /\ reqScan' = [reqScan EXCEPT ![r] = <<d, 0>>]

\* A creation under way will still insert the domain's first scan. (Only the
\* bound on scans asks: a manual scan must leave it room.)
Reserved(d) == IF \E r \in Requests : reqPc[r] = "initialScan" /\ ReqDomain(r) = d
               THEN 1 ELSE 0

-----------------------------------------------------------------------------
(* Slips the properties must catch. They are no part of the specification. *)

\* enqueue_scan(domain.id) for enqueue_scan(scan.id).
InitialScanIdMixedUp(r) ==
  LET d == ReqDomain(r) IN
  /\ reqPc[r] = "initialScan"
  /\ DomainExists(d)
  /\ d \notin locked
  /\ InsertScan(d)
  /\ Goto(r, "initialRead")
  /\ UNCHANGED <<domainStatus, assets, locked, queue, recoveryVars, reqScan, workerVars, faultVars>>

\* get_domain_by_id for get_domain_by_id_for_update.
CheckWithoutLock(r, d) ==
  /\ StartRequest(r, "insert", d)
  /\ DomainExists(d)
  /\ ~HasActiveScan(d)
  /\ created[d] + Reserved(d) < MaxScans
  /\ locked' = locked \cup {d}
  /\ UNCHANGED <<domainStatus, scanStatus, created, assets, queue, recoveryVars, workerVars, faultVars>>

\* domain_has_running_scan for domain_has_active_scan.
CheckOnlyRunning(r, d) ==
  /\ StartRequest(r, "insert", d)
  /\ DomainExists(d)
  /\ d \notin locked
  /\ ~HasRunningScan(d)
  /\ created[d] + Reserved(d) < MaxScans
  /\ locked' = locked \cup {d}
  /\ UNCHANGED <<domainStatus, scanStatus, created, assets, queue, recoveryVars, workerVars, faultVars>>

\* assets.domain_id without ON DELETE CASCADE.
DeleteKeepsAssets(d) ==
  /\ api = "up"
  /\ DomainExists(d)
  /\ d \notin locked
  /\ domainStatus' = [domainStatus EXCEPT ![d] = "DELETED"]
  /\ scanStatus' = [s \in ScanIds |-> IF DomainOf(s) = d THEN "NONE" ELSE scanStatus[s]]
  /\ UNCHANGED <<created, assets, locked, queue, recoveryVars, requestVars, workerVars, faultVars>>

-----------------------------------------------------------------------------
(* POST /domains *)

\* The name is valid and free: the domain row is committed, and visible, before
\* its first scan exists.
CreateDomain(r, d) ==
  /\ domainStatus[d] = "NEW"
  /\ StartRequest(r, "initialScan", d)
  /\ domainStatus' = [domainStatus EXCEPT ![d] = "PENDING"]
  /\ UNCHANGED <<scanStatus, created, assets, locked, queue, recoveryVars, workerVars, faultVars>>

\* enqueue_initial_scan inserts its scan without asking for an active one. The
\* foreign key makes the INSERT wait for the domain's row lock, and fail when
\* the domain is gone.
InsertInitialScan(r) ==
  LET d == ReqDomain(r) IN
  /\ reqPc[r] = "initialScan"
  /\ DomainExists(d)
  /\ d \notin locked
  /\ InsertScan(d)
  /\ Goto(r, "initialRead")
  /\ reqScan' = [reqScan EXCEPT ![r] = <<d, created[d] + 1>>]
  /\ UNCHANGED <<domainStatus, assets, locked, queue, recoveryVars, workerVars, faultVars>>

InitialScanRefused(r) ==
  /\ reqPc[r] = "initialScan"
  /\ ~DomainExists(ReqDomain(r))
  /\ EndRequest(r)
  /\ UNCHANGED <<storeVars, queue, recoveryVars, workerVars, faultVars>>

\* The domain is read back. Its status is to become PENDING unless it is
\* RUNNING; the ORM writes the row only if the status it read was another one.
ReadInitialDomain(r) ==
  /\ reqPc[r] = "initialRead"
  /\ Goto(r, IF domainStatus[ReqDomain(r)] \in Finished THEN "initialWrite" ELSE "enqueue")
  /\ UNCHANGED <<storeVars, queue, recoveryVars, reqScan, workerVars, faultVars>>

WriteInitialDomain(r) ==
  /\ reqPc[r] = "initialWrite"
  /\ DomainExists(ReqDomain(r))
  /\ SetDomainStatus(ReqDomain(r), "PENDING")
  /\ Goto(r, "enqueue")
  /\ UNCHANGED <<scanStatus, created, assets, locked, queue, recoveryVars, reqScan, workerVars, faultVars>>

\* The UPDATE matches no row: StaleDataError, a 500 answer.
InitialDomainGone(r) ==
  /\ reqPc[r] = "initialWrite"
  /\ ~DomainExists(ReqDomain(r))
  /\ EndRequest(r)
  /\ UNCHANGED <<storeVars, queue, recoveryVars, workerVars, faultVars>>

-----------------------------------------------------------------------------
(* POST /domains/{id}/scan *)

\* trigger_manual_scan takes the row lock, then finds no PENDING or RUNNING scan.
LockAndCheck(r, d) ==
  /\ StartRequest(r, "insert", d)
  /\ DomainExists(d)
  /\ d \notin locked
  /\ ~HasActiveScan(d)
  /\ created[d] + Reserved(d) < MaxScans
  /\ locked' = locked \cup {d}
  /\ UNCHANGED <<domainStatus, scanStatus, created, assets, queue, recoveryVars, workerVars, faultVars>>

\* The scan and the domain status are committed together; that frees the lock.
InsertManualScan(r) ==
  LET d == ReqDomain(r) IN
  /\ reqPc[r] = "insert"
  /\ InsertScan(d)
  /\ domainStatus' = [domainStatus EXCEPT ![d] = IF @ = "RUNNING" THEN @ ELSE "PENDING"]
  /\ locked' = locked \ {d}
  /\ Goto(r, "enqueue")
  /\ reqScan' = [reqScan EXCEPT ![r] = <<d, created[d] + 1>>]
  /\ UNCHANGED <<assets, queue, recoveryVars, workerVars, faultVars>>

\* Both kinds of scan are published after their commit, unless reloading the
\* scan to be published finds it deleted.
EnqueueNewScan(r) ==
  /\ reqPc[r] = "enqueue"
  /\ IF ScanExists(reqScan[r]) THEN EnqueueScan(reqScan[r]) ELSE UNCHANGED queue
  /\ EndRequest(r)
  /\ UNCHANGED <<storeVars, recoveryVars, workerVars, faultVars>>

-----------------------------------------------------------------------------
(* DELETE /domains/{id} *)

\* The domain's scans and assets go with it, in one transaction. Jobs and tasks
\* that name those scans stay where they are.
DeleteDomain(d) ==
  /\ api = "up"
  /\ DomainExists(d)
  /\ d \notin locked
  /\ domainStatus' = [domainStatus EXCEPT ![d] = "DELETED"]
  /\ scanStatus' = [s \in ScanIds |-> IF DomainOf(s) = d THEN "NONE" ELSE scanStatus[s]]
  /\ assets' = [s \in ScanIds |-> IF DomainOf(s) = d THEN 0 ELSE assets[s]]
  /\ UNCHANGED <<created, locked, queue, recoveryVars, requestVars, workerVars, faultVars>>

-----------------------------------------------------------------------------
(* Faults of a request *)

\* A transaction fails: it is rolled back, its lock freed, and the answer is 500.
RequestDbError(r) ==
  /\ reqPc[r] \in {"initialScan", "initialRead", "initialWrite", "insert"}
  /\ Inject("dbError")
  /\ jobLost' = TRUE
  /\ locked' = IF reqPc[r] = "insert" THEN locked \ {ReqDomain(r)} ELSE locked
  /\ EndRequest(r)
  /\ UNCHANGED <<domainStatus, scanStatus, created, assets, queue, recoveryVars, workerVars>>

\* delay() raises after the scan was committed: 500, and no job for a PENDING scan.
RequestPublishFails(r) ==
  /\ reqPc[r] = "enqueue"
  /\ ScanExists(reqScan[r])
  /\ Inject("publishFails")
  /\ jobLost' = TRUE
  /\ EndRequest(r)
  /\ UNCHANGED <<storeVars, queue, recoveryVars, workerVars>>

HandlerStep(r) ==
  \/ InsertInitialScan(r)
  \/ InitialScanRefused(r)
  \/ ReadInitialDomain(r)
  \/ WriteInitialDomain(r)
  \/ InitialDomainGone(r)
  \/ InsertManualScan(r)
  \/ EnqueueNewScan(r)

RequestFault(r) ==
  \/ RequestDbError(r)
  \/ RequestPublishFails(r)
=============================================================================
