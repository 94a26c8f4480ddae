---------------------------- MODULE SeenToProofs ----------------------------
(***************************************************************************)
(* Nothing is forgotten: EveryScanIsSeenTo, and what follows from it once  *)
(* everything has come to rest, for any number of domains, API threads,    *)
(* workers, scans, retries and faults of every kind.                       *)
(***************************************************************************)
EXTENDS AssetDiscoveryProofs, WellFoundedInduction

USE DEF storeVars, recoveryVars, requestVars, workerVars, faultVars

SeenTo == RunningIsHeld /\ PendingIsAwaited

AttendingPcs == {"load", "check", "claim", "domainRunning", "resolve"}

-----------------------------------------------------------------------------
(* Scans of a domain *)

LEMMA ScanIdParts ==
  ASSUME NEW s \in ScanIds
  PROVE  DomainOf(s) \in Domains /\ s = <<DomainOf(s), s[2]>> /\ s[2] \in 1..MaxScans
BY DEF ScanIds, DomainOf

\* A domain has a RUNNING scan exactly if one of its scan ids is RUNNING.
LEMMA RunningScanOf ==
  ASSUME NEW d \in Domains
  PROVE  HasRunningScan(d) <=> \E s \in ScanIds : DomainOf(s) = d /\ scanStatus[s] = "RUNNING"
<1>1. ASSUME NEW n \in 1..MaxScans
      PROVE  <<d, n>> \in ScanIds /\ DomainOf(<<d, n>>) = d
  BY DEF ScanIds, DomainOf
<1>2. ASSUME NEW s \in ScanIds, DomainOf(s) = d
      PROVE  \E n \in 1..MaxScans : s = <<d, n>>
  BY <1>2, ScanIdParts
<1> QED
  BY <1>1, <1>2 DEF HasRunningScan

LEMMA RunningScanOfNext ==
  ASSUME NEW d \in Domains
  PROVE  HasRunningScan(d)' <=> \E s \in ScanIds : DomainOf(s) = d /\ scanStatus'[s] = "RUNNING"
<1>1. ASSUME NEW n \in 1..MaxScans
      PROVE  <<d, n>> \in ScanIds /\ DomainOf(<<d, n>>) = d
  BY DEF ScanIds, DomainOf
<1>2. ASSUME NEW s \in ScanIds, DomainOf(s) = d
      PROVE  \E n \in 1..MaxScans : s = <<d, n>>
  BY <1>2, ScanIdParts
<1> QED
  BY <1>1, <1>2 DEF HasRunningScan

\* A set of natural numbers has a least element.
LEMMA LeastNumber ==
  ASSUME NEW T \in SUBSET Nat, T # {}
  PROVE  \E x \in T : \A y \in T : ~(y < x)
<1> DEFINE R == OpToRel(<, Nat)
<1>1. IsWellFoundedOn(R, Nat)
  BY NatLessThanWellFounded
<1>2. \A x, y \in Nat : y < x => <<y, x>> \in R
  BY DEF OpToRel
<1> HIDE DEF R
<1>3. PICK x \in T : \A y \in T : ~ (<<y, x>> \in R)
  BY <1>1, WFMin
<1> QED
  BY <1>2, <1>3

\* A domain with a PENDING scan has an oldest one.
LEMMA OldestPendingExists ==
  ASSUME NEW s \in ScanIds, scanStatus[s] = "PENDING"
  PROVE  \E n \in 1..MaxScans : OldestPending(DomainOf(s), n)
<1> DEFINE d == DomainOf(s)
           T == {n \in 1..MaxScans : scanStatus[<<d, n>>] = "PENDING"}
<1>1. s[2] \in T
  BY ScanIdParts
<1>2. T \in SUBSET Nat
  BY BoundsAssumption
<1>3. PICK n \in T : \A m \in T : ~(m < n)
  BY <1>1, <1>2, LeastNumber
<1>4. \A m \in 1..MaxScans : m < n => scanStatus[<<d, m>>] # "PENDING"
  BY <1>3
<1> QED
  BY <1>3, <1>4 DEF OldestPending

-----------------------------------------------------------------------------
(* A step of one task *)

\* Only the task of w goes on.
TaskOnly(w) ==
  /\ UNCHANGED requestVars
  /\ \A q \in Workers \ {w} : wPc'[q] = wPc[q] /\ seen'[q] = seen[q] /\ job'[q] = job[q]

\* No job is taken away.
JobsStay == \A s \in ScanIds : HasJob(s) => HasJob(s)'

\* No scan but its own changes.
OwnScanOnly(own) == \A s \in ScanIds \ {own} : scanStatus'[s] = scanStatus[s]

\* Its own scan, if it is RUNNING now, still has somebody.
OwnPassedOn(w, own) ==
  scanStatus'[own] = "RUNNING" =>
    \/ HasJob(own)'
    \/ Holds(w, own)'
    \/ scanStatus[own] = "RUNNING" /\ ~Holds(w, own)

\* So do the PENDING scans of its domain.
OthersPassedOn(w, own, d) ==
  \/ HasRunningScan(d)'
  \/ Ends(w, d)'
  \/ scanStatus'[own] = "PENDING" /\ Attended(own)'
  \/ \E t \in ScanIds : DomainOf(t) = d /\ scanStatus'[t] = "PENDING" /\ HasJob(t)'
  \/ \A t \in ScanIds : DomainOf(t) = d => scanStatus'[t] # "PENDING"
  \/ /\ scanStatus'[own] = scanStatus[own]
     /\ ~Ends(w, d)
     /\ wPc[w] \in AttendingPcs => scanStatus[own] # "PENDING"

LEMMA TaskKeepsSeenTo ==
  ASSUME SeenTo,
         NEW w \in Workers,
         NEW own \in ScanIds, own = JobScan(w),
         NEW d \in Domains, d = DomainOf(own),
         TaskOnly(w), JobsStay, OwnScanOnly(own), OwnPassedOn(w, own), OthersPassedOn(w, own, d)
  PROVE  SeenTo'
<1> USE DEF TaskOnly, JobsStay, OwnScanOnly, OwnPassedOn, OthersPassedOn
<1>1. ASSUME NEW q \in Workers \ {w}, NEW s \in ScanIds, Holds(q, s)
      PROVE  Holds(q, s)'
  BY <1>1 DEF Holds, JobScan
<1>2. \A s \in ScanIds : Holds(w, s) => s = own
  BY DEF Holds
<1>3. RunningIsHeld'
  <2> SUFFICES ASSUME NEW s \in ScanIds, scanStatus'[s] = "RUNNING"
               PROVE  HasJob(s)' \/ \E q \in Workers : Holds(q, s)'
    BY DEF RunningIsHeld
  <2>1. CASE scanStatus[s] = "RUNNING" /\ ~Holds(w, s)
    <3>1. HasJob(s) \/ \E q \in Workers \ {w} : Holds(q, s)
      BY <2>1 DEF SeenTo, RunningIsHeld
    <3> QED
      BY <3>1, <1>1
  <2>2. CASE s = own
    BY <2>1, <2>2
  <2>3. CASE s # own
    BY <2>1, <2>3, <1>2
  <2> QED
    BY <2>2, <2>3
<1>4. PendingIsAwaited'
  <2> SUFFICES ASSUME NEW s \in ScanIds, scanStatus'[s] = "PENDING"
               PROVE  \/ HasRunningScan(DomainOf(s))'
                      \/ \E q \in Workers : Ends(q, DomainOf(s))'
                      \/ \E t \in ScanIds : /\ DomainOf(t) = DomainOf(s)
                                            /\ scanStatus'[t] = "PENDING"
                                            /\ Attended(t)'
    BY DEF PendingIsAwaited
  <2> DEFINE e == DomainOf(s)
  <2>0. e \in Domains
    BY ScanIdParts
  <2>1. ASSUME scanStatus[s] = "PENDING",
               \A t \in ScanIds : DomainOf(t) = e => scanStatus'[t] = scanStatus[t],
               ~Ends(w, e),
               \A t \in ScanIds :
                 (DomainOf(t) = e /\ t = own /\ wPc[w] \in AttendingPcs) => scanStatus[t] # "PENDING"
        PROVE  \/ HasRunningScan(e)'
               \/ \E q \in Workers : Ends(q, e)'
               \/ \E t \in ScanIds : /\ DomainOf(t) = e
                                     /\ scanStatus'[t] = "PENDING"
                                     /\ Attended(t)'
    <3>1. CASE HasRunningScan(e)
      BY <3>1, <2>0, <2>1, RunningScanOf, RunningScanOfNext
    <3>2. CASE \E q \in Workers : Ends(q, e)
      <4>1. PICK q \in Workers \ {w} : Ends(q, e)
        BY <3>2, <2>1
      <4>2. Ends(q, e)'
        BY <4>1 DEF Ends, JobDomain, JobScan
      <4> QED
        BY <4>2
    <3>3. CASE \E t \in ScanIds : DomainOf(t) = e /\ scanStatus[t] = "PENDING" /\ Attended(t)
      <4>1. PICK t \in ScanIds : DomainOf(t) = e /\ scanStatus[t] = "PENDING" /\ Attended(t)
        BY <3>3
      <4>2. Attended(t)'
        <5>1. CASE HasJob(t)
          BY <5>1 DEF Attended
        <5>2. CASE \E r \in Requests :
                     reqPc[r] \in {"initialRead", "initialWrite", "enqueue"} /\ reqScan[r] = t
          BY <5>2 DEF Attended
        <5>3. CASE \E q \in Workers : wPc[q] \in AttendingPcs /\ JobScan(q) = t
          <6>1. PICK q \in Workers \ {w} : wPc[q] \in AttendingPcs /\ JobScan(q) = t
            BY <5>3, <4>1, <2>1
          <6> QED
            BY <6>1 DEF Attended, JobScan, AttendingPcs
        <5> QED
          BY <4>1, <5>1, <5>2, <5>3 DEF Attended, AttendingPcs
      <4> QED
        BY <4>1, <4>2, <2>1
    <3> QED
      BY <2>1, <3>1, <3>2, <3>3 DEF SeenTo, PendingIsAwaited
  <2>2. CASE e # d
    BY <2>1, <2>2 DEF Ends, JobDomain
  <2>3. CASE e = d
    <3>1. ASSUME scanStatus'[own] = scanStatus[own], ~Ends(w, d),
                 wPc[w] \in AttendingPcs => scanStatus[own] # "PENDING"
          PROVE  /\ scanStatus[s] = "PENDING"
                 /\ \A t \in ScanIds : DomainOf(t) = e => scanStatus'[t] = scanStatus[t]
                 /\ ~Ends(w, e)
                 /\ \A t \in ScanIds : (DomainOf(t) = e /\ t = own /\ wPc[w] \in AttendingPcs)
                                         => scanStatus[t] # "PENDING"
      BY <3>1, <2>3
    <3> QED
      BY <3>1, <2>1, <2>3 DEF JobDomain, Attended
  <2> QED
    BY <2>2, <2>3
<1> QED
  BY <1>3, <1>4 DEF SeenTo

LEMMA TasksKeepSeenTo ==
  ASSUME RowsInvariant, SeenTo, NEW w \in Workers, TaskStep(w)
  PROVE  SeenTo'
<1>0. /\ wPc[w] # "idle"
      /\ wPc \in [Workers -> WorkerPcs]
      /\ seen \in [Workers -> ScanStatus \cup {"NONE"}]
      /\ job \in [Workers -> Messages \cup {NoJob}]
      /\ scanStatus \in [ScanIds -> ScanStatus \cup {"NONE"}]
      /\ queue \in [Messages -> Nat]
      /\ TypeOK
  <2>1. wPc[w] # "idle"
    BY DEF TaskStep, LoadScan, CheckRunning, MarkScanRunning, MarkDomainRunning, StoreAssets,
           MarkScanCompleted, MarkDomainCompleted, EnqueueNextPending, RetryLater, GiveUp,
           MarkScanFailed, MarkDomainFailed, RowsGone, Acknowledge, At
  <2> QED
    BY <2>1 DEF RowsInvariant, TypeOK
<1>1. PICK own \in ScanIds, d \in Domains :
        job[w] \in Messages /\ own = JobScan(w) /\ d = JobDomain(w) /\ d = DomainOf(own)
  BY <1>0, BusyTask
<1> USE <1>1
<1>2. SUFFICES TaskOnly(w) /\ JobsStay /\ OwnScanOnly(own) /\ OwnPassedOn(w, own)
               /\ OthersPassedOn(w, own, d)
  BY <1>1, TaskKeepsSeenTo
<1>3. ASSUME UNCHANGED <<queue, batch>>  PROVE JobsStay
  BY <1>3 DEF JobsStay, HasJob
<1>4. ASSUME UNCHANGED scanStatus  PROVE OwnScanOnly(own)
  BY <1>4 DEF OwnScanOnly
<1>5. ASSUME NEW p, Continue(w, p)
      PROVE  wPc'[w] = p /\ \A q \in Workers \ {w} : wPc'[q] = wPc[q]
  BY <1>0, <1>5 DEF Continue
<1>6. ASSUME NEW status, UpdateScan(w, status)
      PROVE  /\ OwnScanOnly(own)
             /\ scanStatus'[own] = IF seen[w] = status THEN scanStatus[own] ELSE status
  BY <1>0, <1>1, <1>6 DEF UpdateScan, OwnScanOnly
<1>7. ASSUME NEW m \in Messages, Publish(m), UNCHANGED batch
      PROVE  JobsStay /\ HasJob(m[1])'
  BY <1>0, <1>7 DEF Publish, JobsStay, HasJob
\* Steps that leave the scans, the jobs and the task's session alone.
<1>8. ASSUME UNCHANGED <<scanStatus, queue, batch, requestVars, job, seen>>,
             NEW p, Continue(w, p)
      PROVE  TaskOnly(w) /\ JobsStay /\ OwnScanOnly(own)
  BY <1>3, <1>4, <1>5, <1>8 DEF TaskOnly
<1>9. CASE LoadScan(w)
  <2>1. TaskOnly(w)
    BY <1>0, <1>5, <1>9 DEF LoadScan, TaskOnly
  <2>2. /\ wPc[w] = "load"
        /\ seen'[w] = scanStatus[own]
        /\ scanStatus[own] \in Active => wPc'[w] = "check"
        /\ UNCHANGED <<scanStatus, job, queue, batch>>
    BY <1>0, <1>5, <1>9 DEF LoadScan, At
  <2>3. OwnPassedOn(w, own)
    BY <2>2 DEF OwnPassedOn, Holds, JobScan, Active
  <2>4. OthersPassedOn(w, own, d)
    BY <2>2 DEF OthersPassedOn, Attended, Ends, JobScan, Active, AttendingPcs
  <2> QED
    BY <2>1, <2>2, <2>3, <2>4, <1>3, <1>4
<1>10. CASE CheckRunning(w)
  <2>1. TaskOnly(w) /\ JobsStay /\ OwnScanOnly(own)
    BY <1>8, <1>10 DEF CheckRunning
  <2>2. /\ wPc[w] = "check"
        /\ \/ wPc'[w] = "claim"
           \/ HasRunningScan(d) /\ seen[w] # "RUNNING"
        /\ UNCHANGED <<scanStatus, job, seen, queue, batch>>
    BY <1>5, <1>10 DEF CheckRunning, At
  <2>3. OwnPassedOn(w, own)
    BY <2>2 DEF OwnPassedOn, Holds, JobScan
  <2>4. OthersPassedOn(w, own, d)
    BY <2>2 DEF OthersPassedOn, Attended, Ends, JobScan, AttendingPcs, HasRunningScan
  <2> QED
    BY <2>1, <2>3, <2>4
\* It makes its scan RUNNING, or has loaded it as RUNNING and writes nothing.
<1>11. CASE MarkScanRunning(w)
  <2>1. TaskOnly(w) /\ JobsStay
    BY <1>0, <1>3, <1>5, <1>11 DEF MarkScanRunning, TaskOnly
  <2>2. /\ wPc[w] = "claim" /\ wPc'[w] = "domainRunning"
        /\ UNCHANGED <<job, seen, queue, batch>>
        /\ UpdateScan(w, "RUNNING")
    BY <1>5, <1>11 DEF MarkScanRunning, At
  <2>3. OwnPassedOn(w, own)
    BY <2>2 DEF OwnPassedOn, Holds, JobScan
  <2>4. OthersPassedOn(w, own, d)
    <3>1. scanStatus'[own] = "RUNNING" \/ scanStatus'[own] = scanStatus[own]
      BY <1>6, <2>2
    <3>2. scanStatus'[own] = "RUNNING" => HasRunningScan(d)'
      BY <1>1, RunningScanOfNext
    <3>3. ~Ends(w, d)
      BY <2>2 DEF Ends
    <3>4. Attended(own)'
      BY <2>2 DEF Attended, JobScan
    <3> QED
      BY <3>1, <3>2, <3>3, <3>4 DEF OthersPassedOn
  <2> QED
    BY <1>6, <2>1, <2>2, <2>3, <2>4
<1>12. CASE MarkDomainRunning(w)
  <2>1. TaskOnly(w) /\ JobsStay /\ OwnScanOnly(own)
    BY <1>0, <1>3, <1>4, <1>5, <1>12 DEF MarkDomainRunning, TaskOnly
  <2>2. /\ wPc[w] = "domainRunning" /\ wPc'[w] = "resolve"
        /\ seen'[w] = scanStatus[own]
        /\ UNCHANGED <<scanStatus, job>>
    BY <1>0, <1>5, <1>12 DEF MarkDomainRunning, At
  <2>3. OwnPassedOn(w, own)
    BY <2>2 DEF OwnPassedOn, Holds, JobScan
  <2>4. OthersPassedOn(w, own, d)
    BY <2>2 DEF OthersPassedOn, Attended, Ends, JobScan, AttendingPcs
  <2> QED
    BY <2>1, <2>3, <2>4
<1>13. CASE StoreAssets(w)
  <2>1. TaskOnly(w) /\ JobsStay /\ OwnScanOnly(own)
    BY <1>8, <1>13 DEF StoreAssets
  <2>2. wPc'[w] = "complete" /\ UNCHANGED job
    BY <1>5, <1>13 DEF StoreAssets
  <2>3. OwnPassedOn(w, own) /\ OthersPassedOn(w, own, d)
    BY <2>2 DEF OwnPassedOn, OthersPassedOn, Holds, Ends, JobDomain, JobScan
  <2> QED
    BY <2>1, <2>3
<1>14. CASE MarkScanCompleted(w)
  <2>1. TaskOnly(w) /\ JobsStay /\ OwnScanOnly(own)
    BY <1>0, <1>1, <1>3, <1>5, <1>14 DEF MarkScanCompleted, TaskOnly, OwnScanOnly
  <2>2. wPc'[w] = "domainCompleted" /\ scanStatus'[own] = "COMPLETED" /\ UNCHANGED job
    BY <1>0, <1>1, <1>5, <1>14 DEF MarkScanCompleted
  <2>3. OwnPassedOn(w, own) /\ OthersPassedOn(w, own, d)
    BY <2>2 DEF OwnPassedOn, OthersPassedOn, Ends, JobDomain, JobScan
  <2> QED
    BY <2>1, <2>3
<1>15. CASE MarkDomainCompleted(w) \/ MarkDomainFailed(w)
  <2>1. TaskOnly(w) /\ JobsStay /\ OwnScanOnly(own)
    BY <1>0, <1>3, <1>4, <1>5, <1>15 DEF MarkDomainCompleted, MarkDomainFailed, TaskOnly
  <2>2. /\ wPc[w] \in {"domainCompleted", "domainFailed"}
        /\ wPc'[w] \in {"next", "nextAfterFail"}
        /\ UNCHANGED <<scanStatus, job>>
    BY <1>5, <1>15 DEF MarkDomainCompleted, MarkDomainFailed, At
  <2>3. OwnPassedOn(w, own) /\ OthersPassedOn(w, own, d)
    BY <2>2 DEF OwnPassedOn, OthersPassedOn, Holds, Ends, JobDomain, JobScan
  <2> QED
    BY <2>1, <2>3
<1>16. CASE EnqueueNextPending(w)
  <2>1. TaskOnly(w) /\ OwnScanOnly(own)
    BY <1>4, <1>5, <1>16 DEF EnqueueNextPending, TaskOnly
  <2>2. wPc[w] \in {"next", "nextAfterFail"} /\ UNCHANGED <<scanStatus, batch>>
    BY <1>16 DEF EnqueueNextPending
  <2>3. OwnPassedOn(w, own)
    BY <2>2 DEF OwnPassedOn, Holds
  <2>4. JobsStay /\ OthersPassedOn(w, own, d)
    <3>1. ASSUME NEW n \in 1..MaxScans, OldestPending(d, n), EnqueueScan(<<d, n>>)
          PROVE  JobsStay /\ OthersPassedOn(w, own, d)
      <4> DEFINE t == <<d, n>>
                 m == <<t, 0>>
      <4>1. t \in ScanIds /\ DomainOf(t) = d /\ m \in Messages /\ m[1] = t
        BY <1>1, BoundsAssumption DEF ScanIds, DomainOf, Messages
      <4>2. scanStatus'[t] = "PENDING"
        BY <2>2, <3>1 DEF OldestPending
      <4>3. Publish(m)
        BY <3>1 DEF EnqueueScan
      <4> HIDE DEF t, m
      <4>4. JobsStay /\ HasJob(t)'
        <5>1. JobsStay /\ HasJob(m[1])'
          BY <1>7, <2>2, <4>1, <4>3
        <5> QED
          BY <4>1, <5>1 DEF HasJob
      <4> QED
        BY <4>1, <4>2, <4>4 DEF OthersPassedOn
    <3>2. ASSUME \A n \in 1..MaxScans : ~OldestPending(d, n), UNCHANGED queue
          PROVE  JobsStay /\ OthersPassedOn(w, own, d)
      <4>1. \A t \in ScanIds : DomainOf(t) = d => scanStatus'[t] # "PENDING"
        BY <2>2, <3>2, OldestPendingExists
      <4> QED
        BY <1>3, <2>2, <3>2, <4>1 DEF OthersPassedOn
    <3> QED
      BY <1>16, <3>1, <3>2 DEF EnqueueNextPending
  <2> QED
    BY <2>1, <2>3, <2>4
<1>17. CASE RetryLater(w)
  <2>1. TaskOnly(w) /\ OwnScanOnly(own)
    BY <1>4, <1>5, <1>17 DEF RetryLater, TaskOnly
  <2>2. wPc[w] = "resolve" /\ UNCHANGED <<scanStatus, batch, job>>
    BY <1>17 DEF RetryLater, At
  <2>3. JobsStay /\ HasJob(own)'
    <3>1. PICK m \in Messages : m[1] = own /\ Publish(m)
      <4>1. Attempt(w) < MaxRetries /\ Publish(<<own, Attempt(w) + 1>>)
        BY <1>17 DEF RetryLater
      <4>2. <<own, Attempt(w) + 1>> \in Messages
        BY <4>1, BoundsAssumption DEF Messages, Attempt
      <4> QED
        BY <4>1, <4>2
    <3>2. JobsStay /\ HasJob(m[1])'
      BY <1>7, <2>2, <3>1
    <3> QED
      BY <3>1, <3>2 DEF HasJob
  <2>4. OwnPassedOn(w, own) /\ OthersPassedOn(w, own, d)
    BY <2>2, <2>3 DEF OwnPassedOn, OthersPassedOn, Attended, Ends
  <2> QED
    BY <2>1, <2>3, <2>4
<1>18. CASE GiveUp(w)
  <2>1. TaskOnly(w) /\ JobsStay /\ OwnScanOnly(own)
    BY <1>8, <1>18 DEF GiveUp
  <2>2. wPc[w] = "resolve" /\ wPc'[w] = "fail" /\ UNCHANGED <<scanStatus, job, seen>>
    BY <1>5, <1>18 DEF GiveUp, At
  <2>3. OwnPassedOn(w, own) /\ OthersPassedOn(w, own, d)
    BY <2>2 DEF OwnPassedOn, OthersPassedOn, Holds, Ends, JobDomain, JobScan
  <2> QED
    BY <2>1, <2>3
\* It makes its scan FAILED, or has loaded it as FAILED and writes nothing.
<1>19. CASE MarkScanFailed(w)
  <2>1. TaskOnly(w) /\ JobsStay
    BY <1>0, <1>3, <1>5, <1>19 DEF MarkScanFailed, TaskOnly
  <2>2. /\ wPc[w] = "fail" /\ wPc'[w] = "domainFailed"
        /\ UNCHANGED job
        /\ UpdateScan(w, "FAILED")
    BY <1>5, <1>19 DEF MarkScanFailed, At
  <2>3. /\ OwnScanOnly(own)
        /\ scanStatus'[own] = IF seen[w] = "FAILED" THEN scanStatus[own] ELSE "FAILED"
    BY <1>6, <2>2
  <2>4. OwnPassedOn(w, own) /\ OthersPassedOn(w, own, d)
    BY <2>2, <2>3 DEF OwnPassedOn, OthersPassedOn, Holds, Ends, JobDomain, JobScan
  <2> QED
    BY <2>1, <2>3, <2>4
\* No scan of a domain that is gone is PENDING.
<1>20. CASE RowsGone(w)
  <2>1. TaskOnly(w) /\ JobsStay /\ OwnScanOnly(own)
    BY <1>8, <1>20 DEF RowsGone
  <2>2. ~ScanExists(own) /\ UNCHANGED scanStatus
    BY <1>20 DEF RowsGone
  <2>3. \A n \in 1..MaxScans : ~OldestPending(d, n)
    BY <1>0, <2>2, GoneScanGoneDomain
  <2>4. \A t \in ScanIds : DomainOf(t) = d => scanStatus'[t] # "PENDING"
    BY <2>2, <2>3, OldestPendingExists
  <2>5. OwnPassedOn(w, own) /\ OthersPassedOn(w, own, d)
    BY <2>2, <2>4 DEF OwnPassedOn, OthersPassedOn, ScanExists
  <2> QED
    BY <2>1, <2>5
<1>21. CASE Acknowledge(w)
  <2>1. TaskOnly(w) /\ JobsStay /\ OwnScanOnly(own)
    BY <1>0, <1>3, <1>4, <1>21 DEF Acknowledge, Forget, Continue, TaskOnly
  <2>2. wPc[w] = "ack" /\ UNCHANGED scanStatus
    BY <1>21 DEF Acknowledge, At
  <2>3. OwnPassedOn(w, own) /\ OthersPassedOn(w, own, d)
    BY <2>2 DEF OwnPassedOn, OthersPassedOn, Holds, Ends, AttendingPcs
  <2> QED
    BY <2>1, <2>3
<1> QED
  BY <1>9, <1>10, <1>11, <1>12, <1>13, <1>14, <1>15, <1>16, <1>17, <1>18, <1>19, <1>20,
     <1>21 DEF TaskStep

-----------------------------------------------------------------------------
(* A step of anybody else *)

\* Scans start PENDING and with somebody to attend to them, and go on only with
\* those who hold, end or attend to them.
NothingLetGo ==
  /\ \A s \in ScanIds : scanStatus'[s] = "RUNNING" => scanStatus[s] = "RUNNING"
  /\ \A s \in ScanIds : HasJob(s) => HasJob(s)' \/ \E w \in Workers : Holds(w, s)'
  /\ \A s \in ScanIds, w \in Workers : Holds(w, s) => Holds(w, s)'
  /\ \A d \in Domains, w \in Workers : Ends(w, d) => Ends(w, d)'
  /\ \A s \in ScanIds :
       scanStatus'[s] = "PENDING" => scanStatus[s] = "PENDING" \/ Attended(s)'
  /\ \A s \in ScanIds : (scanStatus'[s] = "PENDING" /\ Attended(s)) => Attended(s)'
  /\ \A d \in Domains :
       \/ \A s \in ScanIds : DomainOf(s) = d => scanStatus'[s] = "NONE"
       \/ \A s \in ScanIds :
            (DomainOf(s) = d /\ scanStatus[s] \in Active) => scanStatus'[s] = scanStatus[s]

LEMMA NothingLetGoKeepsSeenTo ==
  ASSUME SeenTo, NothingLetGo
  PROVE  SeenTo'
<1> USE DEF NothingLetGo
<1>1. RunningIsHeld'
  BY DEF SeenTo, RunningIsHeld
<1>2. PendingIsAwaited'
  <2> SUFFICES ASSUME NEW s \in ScanIds, scanStatus'[s] = "PENDING"
               PROVE  \/ HasRunningScan(DomainOf(s))'
                      \/ \E q \in Workers : Ends(q, DomainOf(s))'
                      \/ \E t \in ScanIds : /\ DomainOf(t) = DomainOf(s)
                                            /\ scanStatus'[t] = "PENDING"
                                            /\ Attended(t)'
    BY DEF PendingIsAwaited
  <2>0. PICK d \in Domains : d = DomainOf(s)
    BY ScanIdParts
  <2>1. CASE scanStatus[s] = "PENDING"
    <3>1. \A t \in ScanIds :
            (DomainOf(t) = d /\ scanStatus[t] \in Active) => scanStatus'[t] = scanStatus[t]
      BY <2>0
    <3>2. CASE HasRunningScan(d)
      BY <2>0, <3>1, <3>2, RunningScanOf, RunningScanOfNext DEF Active
    <3>3. CASE \E q \in Workers : Ends(q, d)
      BY <2>0, <3>3
    <3>4. CASE \E t \in ScanIds : DomainOf(t) = d /\ scanStatus[t] = "PENDING" /\ Attended(t)
      BY <2>0, <3>1, <3>4 DEF Active
    <3> QED
      BY <2>0, <2>1, <3>2, <3>3, <3>4 DEF SeenTo, PendingIsAwaited
  <2>2. CASE Attended(s)'
    BY <2>2
  <2> QED
    BY <2>1, <2>2
<1> QED
  BY <1>1, <1>2 DEF SeenTo

\* The job a worker takes is in its hands from then on.
LEMMA TakeJobKeepsSeenTo ==
  ASSUME RowsInvariant, SeenTo, NEW w \in Workers, NEW m \in Messages, TakeJob(w, m)
  PROVE  SeenTo'
<1>1. /\ queue \in [Messages -> Nat] /\ job \in [Workers -> Messages \cup {NoJob}]
      /\ wPc \in [Workers -> WorkerPcs]
  BY DEF RowsInvariant, TypeOK
<1>2. /\ wPc[w] = "idle" /\ wPc'[w] = "load" /\ job'[w] = m
      /\ \A q \in Workers \ {w} : wPc'[q] = wPc[q] /\ job'[q] = job[q]
      /\ \A n \in Messages \ {m} : queue'[n] = queue[n]
      /\ UNCHANGED <<scanStatus, batch, requestVars, seen>>
  BY <1>1 DEF TakeJob, At, Continue
<1>3. ASSUME NEW s \in ScanIds, HasJob(s)
      PROVE  HasJob(s)' \/ (s = m[1] /\ Holds(w, s)')
  BY <1>2, <1>3 DEF HasJob, Holds, JobScan
<1>4. \A s \in ScanIds, q \in Workers : Holds(q, s) => Holds(q, s)'
  BY <1>2 DEF Holds, JobScan
<1>5. \A d \in Domains, q \in Workers : Ends(q, d) => Ends(q, d)'
  BY <1>2 DEF Ends, JobDomain, JobScan
<1>6. ASSUME NEW s \in ScanIds, Attended(s)
      PROVE  Attended(s)'
  <2>1. CASE HasJob(s)
    BY <1>2, <1>3, <2>1 DEF Attended, JobScan
  <2>2. CASE ~HasJob(s)
    BY <1>2, <1>6, <2>2 DEF Attended, JobScan
  <2> QED
    BY <2>1, <2>2
<1> QED
  BY <1>2, <1>3, <1>4, <1>5, <1>6, NothingLetGoKeepsSeenTo DEF NothingLetGo

\* A request lets no scan go but one that is gone, and inserts the scans it goes
\* on to attend to.
RequestOnly(r) ==
  /\ UNCHANGED <<batch, workerVars>>
  /\ JobsStay
  /\ \A q \in Requests \ {r} : reqPc'[q] = reqPc[q] /\ reqScan'[q] = reqScan[q]

AttendsTo(r, s) == reqPc[r] \in {"initialRead", "initialWrite", "enqueue"} /\ reqScan[r] = s

LEMMA RequestKeepsSeenTo ==
  ASSUME SeenTo, NEW r \in Requests, RequestOnly(r),
         \A s \in ScanIds : AttendsTo(r, s) /\ scanStatus'[s] = "PENDING" => Attended(s)',
         \A s \in ScanIds :
           scanStatus'[s] = scanStatus[s]
             \/ (scanStatus[s] = "NONE" /\ scanStatus'[s] = "PENDING" /\ Attended(s)')
  PROVE  SeenTo'
<1>1. \A s \in ScanIds, w \in Workers : Holds(w, s) => Holds(w, s)'
  BY DEF RequestOnly, Holds, JobScan
<1>2. \A d \in Domains, w \in Workers : Ends(w, d) => Ends(w, d)'
  BY DEF RequestOnly, Ends, JobDomain, JobScan
<1>3. ASSUME NEW s \in ScanIds, Attended(s), scanStatus'[s] = "PENDING"
      PROVE  Attended(s)'
  <2>1. CASE HasJob(s)
    BY <2>1 DEF RequestOnly, JobsStay, Attended
  <2>2. CASE AttendsTo(r, s)
    BY <1>3, <2>2
  <2>3. CASE ~HasJob(s) /\ ~AttendsTo(r, s)
    BY <1>3, <2>3 DEF RequestOnly, Attended, AttendsTo, JobScan
  <2> QED
    BY <2>1, <2>2, <2>3
<1>4. NothingLetGo
  BY <1>1, <1>2, <1>3 DEF NothingLetGo, RequestOnly, JobsStay, Active
<1> QED
  BY <1>4, NothingLetGoKeepsSeenTo

\* A scan inserted has not been there before.
LEMMA InsertedScan ==
  ASSUME RowsInvariant, NEW d \in Domains, InsertScan(d)
  PROVE  LET t == <<d, created[d] + 1>> IN
           /\ t \in ScanIds /\ ~Created(t)
           /\ scanStatus[t] = "NONE" /\ scanStatus'[t] = "PENDING"
           /\ \A s \in ScanIds \ {t} : scanStatus'[s] = scanStatus[s]
<1> DEFINE t == <<d, created[d] + 1>>
<1>1. /\ created[d] \in 0..MaxScans /\ created[d] < MaxScans
      /\ scanStatus \in [ScanIds -> ScanStatus \cup {"NONE"}]
  BY DEF RowsInvariant, TypeOK, InsertScan
<1>2. t \in ScanIds /\ t[1] = d /\ t[2] = created[d] + 1
  BY <1>1, BoundsAssumption DEF ScanIds
<1>3. ~Created(t)
  BY <1>1, <1>2, BoundsAssumption DEF Created
<1>4. scanStatus[t] = "NONE"
  BY <1>2, <1>3 DEF RowsInvariant, RowsMatchHistory, ScanExists
<1> QED
  BY <1>1, <1>2, <1>3, <1>4 DEF InsertScan

LEMMA RequestsKeepSeenTo ==
  ASSUME RowsInvariant, SeenTo, NEW r \in Requests,
         HandlerStep(r) \/ \E d \in Domains : CreateDomain(r, d) \/ LockAndCheck(r, d)
  PROVE  SeenTo'
<1>1. UNCHANGED <<batch, workerVars>>
  BY RequestFrame
<1>2. /\ reqPc \in [Requests -> RequestPcs]
      /\ reqScan \in [Requests -> Targets \cup {NoScan}]
      /\ reqPc[r] # "idle" => reqScan[r] \in Targets
      /\ reqPc[r] \in {"initialRead", "initialWrite", "enqueue"} => reqScan[r] \in ScanIds
      /\ queue \in [Messages -> Nat]
  BY DEF RowsInvariant, TypeOK
<1>3. ASSUME UNCHANGED queue  PROVE JobsStay
  BY <1>1, <1>3 DEF JobsStay, HasJob
<1>4. \A q \in Requests \ {r} : reqPc'[q] = reqPc[q] /\ reqScan'[q] = reqScan[q]
  BY <1>2 DEF HandlerStep, InsertInitialScan, InitialScanRefused, ReadInitialDomain,
              WriteInitialDomain, InitialDomainGone, InsertManualScan, EnqueueNewScan,
              CreateDomain, LockAndCheck, StartRequest, EndRequest, Goto
\* The requests that attend to no scan yet.
<1>5. CASE InitialScanRefused(r) \/ \E d \in Domains : CreateDomain(r, d) \/ LockAndCheck(r, d)
  <2>1. /\ reqPc[r] \in {"idle", "initialScan"}
        /\ UNCHANGED <<scanStatus, queue>>
    BY <1>5 DEF InitialScanRefused, CreateDomain, LockAndCheck, StartRequest
  <2> QED
    BY <1>1, <1>3, <1>4, <2>1, RequestKeepsSeenTo DEF RequestOnly, AttendsTo
<1>6. CASE InsertInitialScan(r) \/ InsertManualScan(r)
  <2>1. PICK d \in Domains : d = ReqDomain(r)
    BY <1>2, <1>6 DEF InsertInitialScan, InsertManualScan, ReqDomain, Targets
  <2>2. /\ reqPc[r] \in {"initialScan", "insert"}
        /\ InsertScan(d)
        /\ reqPc'[r] \in {"initialRead", "enqueue"}
        /\ reqScan'[r] = <<d, created[d] + 1>>
        /\ UNCHANGED queue
    BY <1>2, <1>6, <2>1 DEF InsertInitialScan, InsertManualScan, Goto
  <2>3. PICK t \in ScanIds :
          /\ t = <<d, created[d] + 1>>
          /\ scanStatus[t] = "NONE" /\ scanStatus'[t] = "PENDING"
          /\ \A s \in ScanIds \ {t} : scanStatus'[s] = scanStatus[s]
    BY <2>2, InsertedScan
  <2>4. Attended(t)'
    BY <2>2, <2>3 DEF Attended
  <2> QED
    BY <1>1, <1>3, <1>4, <2>2, <2>3, <2>4, RequestKeepsSeenTo DEF RequestOnly, AttendsTo
<1>7. CASE ReadInitialDomain(r) \/ WriteInitialDomain(r)
  <2>1. /\ reqPc'[r] \in {"initialWrite", "enqueue"}
        /\ UNCHANGED <<reqScan, scanStatus, queue>>
    BY <1>2, <1>7 DEF ReadInitialDomain, WriteInitialDomain, Goto
  <2>2. \A s \in ScanIds : AttendsTo(r, s) => Attended(s)'
    BY <2>1 DEF AttendsTo, Attended
  <2> QED
    BY <1>1, <1>3, <1>4, <2>1, <2>2, RequestKeepsSeenTo DEF RequestOnly
\* The scan of a domain that is gone is gone as well.
<1>8. CASE InitialDomainGone(r)
  <2>1. /\ ~DomainExists(ReqDomain(r)) /\ reqScan[r] \in ScanIds
        /\ UNCHANGED <<scanStatus, queue>>
    BY <1>2, <1>8 DEF InitialDomainGone
  <2>2. scanStatus'[reqScan[r]] = "NONE"
    BY <2>1 DEF RowsInvariant, NoOrphanRows, ScanExists, ReqDomain, DomainOf
  <2> QED
    BY <1>1, <1>3, <1>4, <2>1, <2>2, RequestKeepsSeenTo DEF RequestOnly, AttendsTo
<1>9. CASE EnqueueNewScan(r)
  <2>1. PICK s \in ScanIds : s = reqScan[r]
    BY <1>2, <1>9 DEF EnqueueNewScan
  <2>2. /\ UNCHANGED scanStatus
        /\ ScanExists(s) => Publish(<<s, 0>>)
        /\ ~ScanExists(s) => UNCHANGED queue
    BY <1>9, <2>1 DEF EnqueueNewScan, EnqueueScan
  <2>3. <<s, 0>> \in Messages
    BY BoundsAssumption DEF Messages
  <2>4. JobsStay
    BY <1>1, <1>2, <2>2, <2>3 DEF JobsStay, HasJob, Publish
  <2>5. scanStatus'[s] = "PENDING" => Attended(s)'
    BY <1>2, <2>2, <2>3 DEF Attended, HasJob, ScanExists, Publish
  <2> QED
    BY <1>1, <1>4, <2>1, <2>2, <2>4, <2>5, RequestKeepsSeenTo DEF RequestOnly, AttendsTo
<1> QED
  BY <1>5, <1>6, <1>7, <1>8, <1>9 DEF HandlerStep

LEMMA DeleteKeepsSeenTo ==
  ASSUME SeenTo, NEW d \in Domains, DeleteDomain(d)
  PROVE  SeenTo'
<1>1. UNCHANGED <<queue, batch, requestVars, workerVars>>
  BY DEF DeleteDomain
<1>2. \A s \in ScanIds :
        scanStatus'[s] = IF DomainOf(s) = d THEN "NONE" ELSE scanStatus[s]
  BY DEF DeleteDomain
<1>3. \A s \in ScanIds : HasJob(s) => HasJob(s)'
  BY <1>1 DEF HasJob
<1>4. \A s \in ScanIds : Attended(s) => Attended(s)'
  BY <1>1, <1>3 DEF Attended, JobScan
<1>5. /\ \A s \in ScanIds, w \in Workers : Holds(w, s) => Holds(w, s)'
      /\ \A e \in Domains, w \in Workers : Ends(w, e) => Ends(w, e)'
  BY <1>1 DEF Holds, Ends, JobDomain, JobScan
<1> QED
  BY <1>2, <1>3, <1>4, <1>5, NothingLetGoKeepsSeenTo DEF NothingLetGo

LEMMA StutterKeepsSeenTo ==
  ASSUME SeenTo, UNCHANGED <<scanStatus, queue, batch, requestVars, workerVars>>
  PROVE  SeenTo'
<1>1. \A s \in ScanIds : HasJob(s) => HasJob(s)'
  BY DEF HasJob
<1>2. \A s \in ScanIds : Attended(s) => Attended(s)'
  BY <1>1 DEF Attended, JobScan
<1>3. /\ \A s \in ScanIds, w \in Workers : Holds(w, s) => Holds(w, s)'
      /\ \A d \in Domains, w \in Workers : Ends(w, d) => Ends(w, d)'
  BY DEF Holds, Ends, JobDomain, JobScan
<1> QED
  BY <1>1, <1>2, <1>3, NothingLetGoKeepsSeenTo DEF NothingLetGo

-----------------------------------------------------------------------------
(* The recovery *)

\* The list it makes holds every scan that is not finished, and what it takes
\* from the list it publishes.
LEMMA RecoveryKeepsSeenTo ==
  ASSUME RowsInvariant, EveryScanIsSeenTo, RecoveryStep
  PROVE  EveryScanIsSeenTo'
<1>1. UNCHANGED <<requestVars, workerVars, faultVars>> /\ queue \in [Messages -> Nat]
  BY RecoveryFrame DEF RowsInvariant, TypeOK
<1>2. CASE SelectRunning \/ ResetInterrupted
  BY <1>2 DEF SelectRunning, ResetInterrupted, EveryScanIsSeenTo
<1>3. CASE ListRecoverable
  <2>1. \A s \in ScanIds : scanStatus'[s] \in Active => HasJob(s)'
    BY <1>3 DEF ListRecoverable, HasJob
  <2>2. RunningIsHeld' /\ PendingIsAwaited'
    BY <2>1 DEF RunningIsHeld, PendingIsAwaited, Attended, Active
  <2> QED
    BY <2>2 DEF EveryScanIsSeenTo
<1>4. CASE \E s \in ScanIds : RequeueScan(s)
  <2>1. PICK s \in ScanIds : RequeueScan(s)
    BY <1>4
  <2>2. /\ api = "requeue" /\ Publish(<<s, 0>>) /\ batch' = batch \ {s}
        /\ UNCHANGED <<scanStatus, api>>
    BY <2>1 DEF RequeueScan, EnqueueScan
  <2>3. <<s, 0>> \in Messages /\ <<s, 0>>[1] = s
    BY BoundsAssumption DEF Messages
  <2>4. \A m \in Messages : queue[m] > 0 => queue'[m] > 0
    BY <1>1, <2>2, <2>3 DEF Publish
  <2>5. queue'[<<s, 0>>] > 0
    BY <1>1, <2>2, <2>3 DEF Publish
  <2>6. \A t \in ScanIds : HasJob(t) => HasJob(t)'
    BY <2>2, <2>3, <2>4, <2>5 DEF HasJob
  <2>7. \A t \in ScanIds : Attended(t) => Attended(t)'
    BY <1>1, <2>6 DEF Attended, JobScan
  <2>8. /\ \A t \in ScanIds, w \in Workers : Holds(w, t) => Holds(w, t)'
        /\ \A d \in Domains, w \in Workers : Ends(w, d) => Ends(w, d)'
    BY <1>1 DEF Holds, Ends, JobDomain, JobScan
  <2>9. SeenTo => SeenTo'
    BY <2>2, <2>6, <2>7, <2>8, NothingLetGoKeepsSeenTo DEF NothingLetGo
  <2> QED
    BY <1>1, <2>2, <2>9 DEF EveryScanIsSeenTo, SeenTo
<1>5. CASE StartServing
  <2>1. api = "requeue" /\ UNCHANGED <<scanStatus, queue, batch>>
    BY <1>5 DEF StartServing
  <2>2. SeenTo => SeenTo'
    BY <1>1, <2>1, StutterKeepsSeenTo
  <2> QED
    BY <1>1, <2>1, <2>2 DEF EveryScanIsSeenTo, SeenTo
<1> QED
  BY <1>2, <1>3, <1>4, <1>5 DEF RecoveryStep

-----------------------------------------------------------------------------
(* The theorems *)

\* Until a job is lost somebody sees to every scan that is not finished, once the
\* recovery has listed what the run before had left: every handler, every step of
\* _process_scan and recover_pending_jobs hands on what it takes over.
THEOREM NothingIsForgotten == Spec => []EveryScanIsSeenTo
<1>1. Init => EveryScanIsSeenTo
  BY DEF Init, EveryScanIsSeenTo
<1>2. RowsInvariant /\ EveryScanIsSeenTo /\ [Next]_vars => EveryScanIsSeenTo'
  <2> SUFFICES ASSUME RowsInvariant, EveryScanIsSeenTo, [Next]_vars
               PROVE  EveryScanIsSeenTo'
    OBVIOUS
  <2>1. ASSUME SeenTo => SeenTo', UNCHANGED <<api, jobLost>>
        PROVE  EveryScanIsSeenTo'
    BY <2>1 DEF EveryScanIsSeenTo, SeenTo
  <2>2. ASSUME NEW r \in Requests,
               HandlerStep(r) \/ \E d \in Domains : CreateDomain(r, d) \/ LockAndCheck(r, d)
        PROVE  EveryScanIsSeenTo'
    <3>1. UNCHANGED <<api, jobLost>>
      BY <2>2 DEF HandlerStep, InsertInitialScan, InitialScanRefused, ReadInitialDomain,
                  WriteInitialDomain, InitialDomainGone, InsertManualScan, EnqueueNewScan,
                  CreateDomain, LockAndCheck
    <3> QED
      BY <2>1, <2>2, <3>1, RequestsKeepSeenTo
  <2>3. ASSUME NEW d \in Domains, DeleteDomain(d)
        PROVE  EveryScanIsSeenTo'
    <3>1. UNCHANGED <<api, jobLost>>
      BY <2>3 DEF DeleteDomain
    <3> QED
      BY <2>1, <2>3, <3>1, DeleteKeepsSeenTo
  <2>4. ASSUME NEW w \in Workers, NEW m \in Messages, TakeJob(w, m)
        PROVE  EveryScanIsSeenTo'
    <3>1. UNCHANGED <<api, jobLost>>
      BY <2>4 DEF TakeJob
    <3> QED
      BY <2>1, <2>4, <3>1, TakeJobKeepsSeenTo
  <2>5. ASSUME NEW w \in Workers, TaskStep(w)
        PROVE  EveryScanIsSeenTo'
    <3>1. UNCHANGED <<api, jobLost>>
      BY <2>5 DEF TaskStep, LoadScan, CheckRunning, MarkScanRunning, MarkDomainRunning,
                  StoreAssets, MarkScanCompleted, MarkDomainCompleted, EnqueueNextPending,
                  RetryLater, GiveUp, MarkScanFailed, MarkDomainFailed, RowsGone, Acknowledge
    <3> QED
      BY <2>1, <2>5, <3>1, TasksKeepSeenTo
  <2>6. CASE RecoveryStep
    BY <2>6, RecoveryKeepsSeenTo
  \* A fault loses a job, or starts the API again.
  <2>7. CASE Fault
    <3>1. jobLost' = TRUE \/ api' = "select"
      BY <2>7 DEF Fault, RequestFault, RequestDbError, RequestPublishFails, WorkerFault,
                  WorkerCrash, ChildLost, WorkerDbError, RetryPublishFails, NextPublishFails,
                  LoseMessage, ApiCrash, RecoveryFails, Restart
    <3> QED
      BY <3>1 DEF EveryScanIsSeenTo
  <2>8. CASE UNCHANGED vars
    BY <2>1, <2>8, StutterKeepsSeenTo DEF vars
  <2> QED
    BY <2>2, <2>3, <2>4, <2>5, <2>6, <2>7, <2>8 DEF Next, Processing, Client, Wait
<1> QED
  BY <1>1, <1>2, RowsInvariantHolds, PTL DEF Spec

\* A recovery that has ended has nothing left to publish.
ServingHoldsNoBatch == api = "up" => batch = {}

LEMMA ServingHoldsNoBatchHolds == Spec => []ServingHoldsNoBatch
<1>1. Init => ServingHoldsNoBatch
  BY DEF Init, ServingHoldsNoBatch
<1>2. ServingHoldsNoBatch /\ [Next]_vars => ServingHoldsNoBatch'
  <2> SUFFICES ASSUME ServingHoldsNoBatch, [Next]_vars  PROVE ServingHoldsNoBatch'
    OBVIOUS
  <2>1. ASSUME UNCHANGED recoveryVars  PROVE ServingHoldsNoBatch'
    BY <2>1 DEF ServingHoldsNoBatch
  <2>2. CASE RecoveryStep
    BY <2>2 DEF RecoveryStep, SelectRunning, ResetInterrupted, ListRecoverable, RequeueScan,
                StartServing, ServingHoldsNoBatch
  <2>3. CASE ApiCrash \/ RecoveryFails
    BY <2>3 DEF ApiCrash, RecoveryFails, Restart, ServingHoldsNoBatch
  <2>4. CASE \E d \in Domains : DeleteDomain(d)
    BY <2>1, <2>4 DEF DeleteDomain
  <2>5. CASE UNCHANGED vars
    BY <2>1, <2>5 DEF vars
  <2> QED
    BY <2>1, <2>2, <2>3, <2>4, <2>5, WorkerFrame, RequestFrame
       DEF Next, Processing, Client, Fault, Wait
<1> QED
  BY <1>1, <1>2, PTL DEF Spec

\* Nobody sees to anything in a service at rest, so no scan is left to see to.
LEMMA RestMeansFinished ==
  ASSUME RowsInvariant, ServingHoldsNoBatch, EveryScanIsSeenTo, Quiescent, ~jobLost
  PROVE  \A s \in ScanIds : scanStatus[s] \notin Active
<1>1. api = "up" /\ batch = {} /\ \A m \in Messages : queue[m] = 0
  BY DEF Quiescent, ServingHoldsNoBatch
<1>2. \A s \in ScanIds : ~HasJob(s)
  BY <1>1 DEF HasJob
<1>3. \A s \in ScanIds : ~Attended(s)
  BY <1>2 DEF Quiescent, Attended
<1>4. \A s \in ScanIds, w \in Workers : ~Holds(w, s)
  BY DEF Quiescent, Holds
<1>5. \A d \in Domains, w \in Workers : ~Ends(w, d)
  BY DEF Quiescent, Ends
<1>6. \A s \in ScanIds : scanStatus[s] # "RUNNING"
  BY <1>1, <1>2, <1>4 DEF EveryScanIsSeenTo, RunningIsHeld
<1>7. \A d \in Domains : ~HasRunningScan(d)
  BY <1>6, RunningScanOf
<1>8. \A s \in ScanIds : scanStatus[s] # "PENDING"
  BY <1>1, <1>3, <1>5, <1>7, ScanIdParts DEF EveryScanIsSeenTo, PendingIsAwaited
<1> QED
  BY <1>6, <1>8 DEF Active

\* Whatever was lost before the API last started, a service that has come to rest
\* with nothing lost since has finished every scan: recover_pending_jobs heals.
THEOREM RecoveryHeals == Spec => []RestartHeals
<1>1. RowsInvariant /\ ServingHoldsNoBatch /\ EveryScanIsSeenTo => RestartHeals
  BY RestMeansFinished DEF RestartHeals
<1> QED
  BY <1>1, RowsInvariantHolds, ServingHoldsNoBatchHolds, NothingIsForgotten, PTL

-----------------------------------------------------------------------------
(* Without faults *)

NothingLost == jobLost = FALSE

LEMMA NoFaultWithoutKinds ==
  ASSUME Faults = {}
  PROVE  ~Fault
BY DEF Fault, RequestFault, RequestDbError, RequestPublishFails, WorkerFault, WorkerCrash,
       ChildLost, WorkerDbError, RetryPublishFails, NextPublishFails, LoseMessage, ApiCrash,
       RecoveryFails, Inject

LEMMA NothingLostHolds ==
  ASSUME Faults = {}
  PROVE  Spec => []NothingLost
<1>1. Init => NothingLost
  BY DEF Init, NothingLost
<1>2. NothingLost /\ [Next]_vars => NothingLost'
  <2> SUFFICES ASSUME NothingLost, [Next]_vars  PROVE NothingLost'
    OBVIOUS
  <2>1. ~Fault
    BY NoFaultWithoutKinds
  <2>2. CASE RecoveryStep
    BY <2>2, RecoveryFrame DEF NothingLost
  <2>3. CASE \E w \in Workers : TaskStep(w) \/ \E m \in Messages : TakeJob(w, m)
    BY <2>3 DEF TakeJob, TaskStep, LoadScan, CheckRunning, MarkScanRunning, MarkDomainRunning,
                StoreAssets, MarkScanCompleted, MarkDomainCompleted, EnqueueNextPending,
                RetryLater, GiveUp, MarkScanFailed, MarkDomainFailed, RowsGone, Acknowledge,
                NothingLost
  <2>4. CASE \E r \in Requests : HandlerStep(r)
    BY <2>4 DEF HandlerStep, InsertInitialScan, InitialScanRefused, ReadInitialDomain,
                WriteInitialDomain, InitialDomainGone, InsertManualScan, EnqueueNewScan,
                NothingLost
  <2>5. CASE Client
    BY <2>5 DEF Client, CreateDomain, LockAndCheck, DeleteDomain, NothingLost
  <2>6. CASE UNCHANGED vars
    BY <2>6 DEF vars, NothingLost
  <2> QED
    BY <2>1, <2>2, <2>3, <2>4, <2>5, <2>6 DEF Next, Processing, Wait
<1> QED
  BY <1>1, <1>2, PTL DEF Spec

\* Where nothing fails, a service at rest has finished every scan, however many
\* clients, threads and workers have interleaved, and whatever was deleted meanwhile.
THEOREM FaultlessStrandsNoScan ==
  ASSUME Faults = {}
  PROVE  Spec => []NoStrandedScan
<1>1. RowsInvariant /\ ServingHoldsNoBatch /\ EveryScanIsSeenTo /\ NothingLost => NoStrandedScan
  BY RestMeansFinished DEF NoStrandedScan, NothingLost
<1> QED
  BY <1>1, RowsInvariantHolds, ServingHoldsNoBatchHolds, NothingIsForgotten, NothingLostHolds, PTL
=============================================================================
