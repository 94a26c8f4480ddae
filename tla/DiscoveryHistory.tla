--------------------------- MODULE DiscoveryHistory ---------------------------
(***************************************************************************)
(* AssetDiscovery with history variables that record the three races the   *)
(* code leaves open, since nothing but the row lock of a manual trigger    *)
(* orders two processes that have read the same rows:                      *)
(*   - two pool processes pass domain_has_running_scan before either has   *)
(*     committed mark_scan_running (README.md, "Stronger scan claiming");  *)
(*   - two pool processes work on one scan, whose job was published twice; *)
(*   - a commit of domains.status comes after the outcome it should have   *)
(*     made room for.                                                      *)
(* The properties say what holds for any number of workers, and that one   *)
(* of these races is behind every exception.                               *)
(***************************************************************************)
EXTENDS AssetDiscovery

VARIABLES
  rivals,      \* pairs of scans that two tasks were about to mark RUNNING at once
  duplicated,  \* scans that two tasks have had in hand at once
  overtaken    \* domains for which an outcome was, or is about to be, overwritten

raceVars == <<rivals, duplicated, overtaken>>

-----------------------------------------------------------------------------
(* The races *)

\* The task of w has passed domain_has_running_scan, and its session holds the
\* scan as PENDING.
Claims(w) == wPc[w] = "claim" /\ seen[w] # "RUNNING"

RivalClaims(s, t) ==
  /\ s # t
  /\ DomainOf(s) = DomainOf(t)
  /\ \E v, w \in Workers : Claims(v) /\ Claims(w) /\ JobScan(v) = s /\ JobScan(w) = t

\* The task of w has loaded its scan as not finished, and has yet to finish it.
HasInHand(w, s) ==
  /\ wPc[w] \in {"check", "claim", "domainRunning", "resolve", "complete", "fail"}
  /\ JobScan(w) = s

Duplicated(s) == \E v, w \in Workers : v # w /\ HasInHand(v, s) /\ HasInHand(w, s)

\* The task of w is about to write the outcome of its scan to the domain.
Carries(w) == wPc[w] \in {"domainCompleted", "domainFailed"}

\* A task carries an outcome though a younger scan has one by now, or a creation
\* is about to write PENDING though its scan has ended.
Overtaken(d) ==
  \/ \E w \in Workers, s \in ScanIds :
       /\ Carries(w) /\ JobDomain(w) = d
       /\ DomainOf(s) = d /\ s[2] > JobScan(w)[2] /\ scanStatus[s] \in Finished
  \/ \E r \in Requests :
       reqPc[r] = "initialWrite" /\ ReqDomain(r) = d /\ scanStatus[reqScan[r]] \notin Active

Watch ==
  /\ rivals' = rivals \cup {p \in ScanIds \X ScanIds : RivalClaims(p[1], p[2])'}
  /\ duplicated' = duplicated \cup {s \in ScanIds : Duplicated(s)'}
  /\ overtaken' = overtaken \cup {d \in Domains : Overtaken(d)'}

WatchedInit == Init /\ rivals = {} /\ duplicated = {} /\ overtaken = {}
WatchedSpec == WatchedInit /\ [][Next /\ Watch]_<<vars, raceVars>>

WatchedFairSpec == WatchedSpec /\ Fairness

-----------------------------------------------------------------------------
(* One scan at a time *)

\* Two scans of a domain are RUNNING together only if their tasks were between
\* domain_has_running_scan and mark_scan_running together: no duplicate, retry,
\* trigger or publish of the next scan brings it about.
OverlappingScansAreRivals ==
  \A s, t \in ScanIds :
    (s # t /\ DomainOf(s) = DomainOf(t) /\ scanStatus[s] = "RUNNING" /\ scanStatus[t] = "RUNNING")
      => <<s, t>> \in rivals

\* What trigger_manual_scan found under the lock is still so when it inserts its
\* scan: the domain is there and no scan of it is active, unless a duplicate has
\* reopened one that was finished.
TriggerCheckStaysValid ==
  \A r \in Requests : reqPc[r] = "insert" =>
    /\ DomainExists(ReqDomain(r))
    /\ \A n \in 1..MaxScans :
         scanStatus[<<ReqDomain(r), n>>] \in Active => <<ReqDomain(r), n>> \in duplicated

\* The answers of a lookup are stored once for a scan, however often its job is
\* published and retried, unless two tasks had it in hand at once.
AssetsStoredOnce == \A s \in ScanIds : assets[s] > 1 => s \in duplicated

\* A finished scan keeps its outcome until its domain is deleted, unless two tasks
\* had it in hand at once.
FinishedStaysFinished ==
  [][\A s \in ScanIds : scanStatus[s] \in Finished =>
       scanStatus'[s] \in {scanStatus[s], "NONE"} \/ s \in duplicated]_<<vars, raceVars>>

-----------------------------------------------------------------------------
(* The domain and its scans *)

Latest(d, n) ==
  /\ ScanExists(<<d, n>>)
  /\ \A m \in 1..MaxScans : ScanExists(<<d, m>>) => m <= n

\* No commit for the domain came late.
InOrder(d) == d \notin overtaken /\ \A n \in 1..MaxScans : <<d, n>> \notin duplicated

\* "Domain status mirrors the active/latest scan outcome" (README.md): at rest a
\* domain shows the outcome of its latest scan, unless a commit came late.
DomainMirrorsLatestScan ==
  Quiescent => \A d \in Domains, n \in 1..MaxScans :
    (Latest(d, n) /\ InOrder(d)) => domainStatus[d] = scanStatus[<<d, n>>]

-----------------------------------------------------------------------------
(* Any number of workers, and no faults: what a task knows *)

\* The recovery of the first start finds no scan, and no request is served before.
FirstStartFindsNothing ==
  api # "up" =>
    /\ api # "reset"
    /\ batch = {}
    /\ \A s \in ScanIds : ~ScanExists(s)
    /\ \A r \in Requests : reqPc[r] = "idle"

RacesAreNoted ==
  /\ \A s, t \in ScanIds : RivalClaims(s, t) => <<s, t>> \in rivals
  /\ \A s \in ScanIds : Duplicated(s) => s \in duplicated
  /\ \A d \in Domains : Overtaken(d) => d \in overtaken

\* A task works on a scan that was PENDING or RUNNING when it was loaded, and no
\* scan is ever PENDING again.
TaskHasStarted ==
  \A w \in Workers : (wPc[w] # "idle" /\ ScanExists(JobScan(w))) =>
    /\ wPc[w] \in {"check", "claim"} => seen[w] \in Active
    /\ \/ wPc[w] \in {"domainRunning", "resolve", "complete", "fail"}
       \/ wPc[w] \in {"check", "claim"} /\ seen[w] = "RUNNING"
       => scanStatus[JobScan(w)] # "PENDING"

\* Nobody but the task changes a scan it alone has in hand, short of deleting it:
\* what the session loaded still holds when the task acts on it.
TaskKnowsItsScan ==
  \A w \in Workers :
    (wPc[w] # "idle" /\ ScanExists(JobScan(w)) /\ JobScan(w) \notin duplicated) =>
      /\ wPc[w] \in {"check", "claim"} => scanStatus[JobScan(w)] = seen[w]
      /\ wPc[w] \in {"domainRunning", "resolve", "complete", "fail"} =>
           scanStatus[JobScan(w)] = "RUNNING"
      /\ wPc[w] \in {"resolve", "complete", "fail"} => seen[w] = "RUNNING"

\* Between domain_has_running_scan and mark_scan_running only a rival comes in.
ClaimIsFree ==
  \A w \in Workers : Claims(w) =>
    \A s \in ScanIds :
      (s # JobScan(w) /\ DomainOf(s) = JobDomain(w) /\ scanStatus[s] = "RUNNING") =>
        <<JobScan(w), s>> \in rivals /\ <<s, JobScan(w)>> \in rivals

\* A scan that is not finished has no answers, unless its task is about to finish it.
AnswersComeLast ==
  \A s \in ScanIds : (assets[s] > 0 /\ s \notin duplicated) =>
    \/ scanStatus[s] \in Finished
    \/ \E w \in Workers : wPc[w] = "complete" /\ JobScan(w) = s

\* One creation at most is under way for a domain, and it has inserted the row.
CreationsAreSingle ==
  /\ \A r \in Requests : reqPc[r] = "initialScan" => domainStatus[ReqDomain(r)] # "NEW"
  /\ \A r, q \in Requests :
       (reqPc[r] = "initialScan" /\ reqPc[q] = "initialScan" /\ ReqDomain(r) = ReqDomain(q))
         => r = q

\* With RowsInvariant, what every step preserves where no fault is injected.
WorkersInvariant ==
  /\ FirstStartFindsNothing
  /\ RacesAreNoted
  /\ TaskHasStarted
  /\ TaskKnowsItsScan
  /\ ClaimIsFree
  /\ OverlappingScansAreRivals
  /\ AnswersComeLast
  /\ AssetsStoredOnce
  /\ CreationsAreSingle
  /\ TriggerCheckStaysValid

-----------------------------------------------------------------------------
(* On its way to the domain *)

\* A task that goes on to its domain carries the outcome of its scan.
OutcomeIsCarried ==
  \A w \in Workers :
    (Carries(w) /\ ScanExists(JobScan(w)) /\ JobScan(w) \notin duplicated) =>
      scanStatus[JobScan(w)] = IF wPc[w] = "domainCompleted" THEN "COMPLETED" ELSE "FAILED"

\* The outcome of the latest scan is on its domain, or on its way there, or a scan
\* is under way that will bring another.
LatestIsMirrored ==
  \A d \in Domains, n \in 1..MaxScans : (Latest(d, n) /\ InOrder(d)) =>
    \/ HasActiveScan(d)
    \/ domainStatus[d] = scanStatus[<<d, n>>]
    \/ \E w \in Workers : Carries(w) /\ JobScan(w) = <<d, n>>

\* With RowsInvariant and WorkersInvariant, what every step preserves.
MirrorInvariant == OutcomeIsCarried /\ LatestIsMirrored

-----------------------------------------------------------------------------
(* The scan history as an observer sees it *)

Live ==
  [d \in Domains |-> CASE domainStatus[d] = "NEW" -> "new"
                       [] domainStatus[d] = "DELETED" -> "deleted"
                       [] OTHER -> "live"]

Owed ==
  [d \in Domains |-> \E r \in Requests : reqPc[r] = "initialScan" /\ ReqDomain(r) = d]

Lifecycle == INSTANCE ScanLifecycle WITH
  live <- Live,
  owed <- Owed,
  history <- created,
  status <- scanStatus

\* The service implements ScanLifecycle, whatever races its processes run.
ImplementsLifecycle == Lifecycle!LifecycleSpec
=============================================================================
