----------------------------- MODULE ScanRecovery -----------------------------
(***************************************************************************)
(* The start of the API process: recover_pending_jobs runs to its end      *)
(* before the first request is served, while the workers go on working.    *)
(* There is one API process, so no request deletes a row meanwhile.        *)
(***************************************************************************)
EXTENDS DiscoveryState

\* reset_interrupted_scans loads every RUNNING scan ...
SelectRunning ==
  LET running == {s \in ScanIds : scanStatus[s] = "RUNNING"} IN
  /\ api = "select"
  /\ batch' = running
  /\ api' = IF running = {} THEN "list" ELSE "reset"
  /\ UNCHANGED <<storeVars, queue, requestVars, workerVars, faultVars>>

\* ... and then commits them all as PENDING, whatever they have become.
ResetInterrupted ==
  /\ api = "reset"
  /\ scanStatus' = [s \in ScanIds |-> IF s \in batch THEN "PENDING" ELSE scanStatus[s]]
  /\ batch' = {}
  /\ api' = "list"
  /\ UNCHANGED <<domainStatus, created, assets, locked, queue, requestVars, workerVars, faultVars>>

\* A slip the properties must catch, no part of the specification: only the
\* scans that are RUNNING are listed.
ListOnlyRunning ==
  /\ api = "list"
  /\ batch' = {s \in ScanIds : scanStatus[s] = "RUNNING"}
  /\ api' = "requeue"
  /\ UNCHANGED <<storeVars, queue, requestVars, workerVars, faultVars>>

\* list_recoverable_scan_ids
ListRecoverable ==
  /\ api = "list"
  /\ batch' = {s \in ScanIds : scanStatus[s] \in Active}
  /\ api' = "requeue"
  /\ UNCHANGED <<storeVars, queue, requestVars, workerVars, faultVars>>

RequeueScan(s) ==
  /\ api = "requeue"
  /\ s \in batch
  /\ EnqueueScan(s)
  /\ batch' = batch \ {s}
  /\ UNCHANGED <<storeVars, api, requestVars, workerVars, faultVars>>

\* The lifespan hook yields: requests are served from here on.
StartServing ==
  /\ api = "requeue"
  /\ batch = {}
  /\ api' = "up"
  /\ UNCHANGED <<storeVars, queue, batch, requestVars, workerVars, faultVars>>

RecoveryStep ==
  \/ SelectRunning
  \/ ResetInterrupted
  \/ ListRecoverable
  \/ \E s \in ScanIds : RequeueScan(s)
  \/ StartServing

-----------------------------------------------------------------------------
(* Faults of the API process *)

\* The process ends and the container starts it again. Open transactions are
\* rolled back, requests are cut off.
Restart ==
  /\ api' = "select"
  /\ batch' = {}
  /\ reqPc' = [r \in Requests |-> "idle"]
  /\ reqScan' = [r \in Requests |-> NoScan]
  /\ locked' = {}
  /\ jobLost' = FALSE
  /\ UNCHANGED <<domainStatus, scanStatus, created, assets, queue, workerVars>>

ApiCrash ==
  /\ Inject("apiCrash")
  /\ Restart

\* A publish or a statement of the recovery raises: the start fails.
RecoveryFails ==
  /\ \/ api = "requeue" /\ batch # {} /\ Inject("publishFails")
     \/ api \in {"select", "reset", "list"} /\ Inject("dbError")
  /\ Restart
=============================================================================
