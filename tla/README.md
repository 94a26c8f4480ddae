# Verification of the asset discovery service

TLA+ modules, TLC runs and TLAPS proofs for the service in `src/`: a FastAPI
application over PostgreSQL that registers domains, and Celery workers over a
Redis broker that resolve their DNS records and store the answers as assets.

## 1. Inventory

### Components

| Component | Source | State | Operations |
|---|---|---|---|
| Database and broker | `app/models`, `app/repositories`, `app/workers/queue.py` | rows of `domains`, `scans`, `assets`, the row lock of `SELECT ... FOR UPDATE`; the queued messages | repository functions, one committed transaction each; publish and deliver |
| Scan API | `app/api/domains.py`, `app/services/domain.py`, `app/services/scan.py` | a thread and a session per request | create a domain (and its first scan), trigger a scan, delete a domain |
| Discovery worker | `app/workers/discovery.py`, `tasks.py`, `dns.py`, `celery_app.py` | a pool process and a session per task; the unacknowledged message | `_process_scan`, `_fail_scan`, `_enqueue_next_pending_for_domain`, `task.retry` |
| Recovery | `app/main.py` (lifespan), `recover_pending_jobs`, `reset_interrupted_scans` | the rows it has loaded | reset RUNNING scans, list and publish what is unfinished, before the first request |
| Login rate limit | `app/core/rate_limit.py`, `app/api/auth.py`, `app/services/auth.py` | `_attempts`, process-local, under a lock | enforce, log in, clear |
| Listings | the `list_*` functions of repositories and services | none of their own | count the rows, read a page |
| Accounts | `app/services/auth.py`, `bootstrap.py`, `app/repositories/user.py` | rows of `users`, unique by stored address | register, seed the admin at every start |
| Domain names | `app/services/domain.py`, `app/repositories/domain.py` | `domains.name`, unique | create up to the insert of the row, delete |
| Request serving | `app/core/database.py`, `deps.py`, `app/main.py` | the thread pool, the connection pool, a session per request | authenticate, check the role, run the handler, close the session |
| Health check | `app/api/health.py` | a session of its own | 200 or 503 |
| Authentication and roles | `app/core/deps.py`, `security.py` | none | decode the token, load the user, compare the role |
| Input validation | `app/core/fqdn.py`, `password_policy.py`, `app/schemas` | none | predicates and normalisation of one string |
| Migrations, configuration | `migrations`, `app/core/config.py` | none at run time | |

### How they interact

    client --POST/DELETE--> Scan API --commit--> PostgreSQL <--commit-- workers
                               |                     ^                    |  ^
                               +---publish--> Redis --deliver-------------+--+
                                                ^    |        publish next / retry
    API start --> Recovery --commit, publish----+    (unacknowledged until the end)

The API and the workers share nothing but the rows and the queue. A scan's
progress is spread over both: the row says PENDING or RUNNING, and somewhere a
message or a task is responsible for it. No transaction covers both, and almost
no operation is one transaction: a task commits the scan and the domain
separately, five times from start to end.

Every request passes through the same two pools: FastAPI runs `get_current_user`,
the role check, the handler and the validation of its response as four calls in
anyio's thread pool, over one session, which keeps a connection of SQLAlchemy's pool while the request waits for
its next thread. Registrations and creations look a key up in one transaction and
insert it in another; between them only a unique index stands.

### What is hard

* **Interleavings.** Creations do not take the row lock, triggers do; workers
  read a status in one transaction and write in another; two jobs may name the
  same scan (a first publish and `_enqueue_next_pending_for_domain`).
* **Stale values.** The status a worker loaded decides what the ORM writes;
  `enqueue_initial_scan` writes a status because of one it read earlier; the
  rate limit reads the clock before it takes its lock.
* **Failure between steps.** Scan committed and publish failed; worker killed
  after any commit; API restarted while workers go on; a failed flush that makes
  the session refuse the exception handler's own statements.
* **Check, then insert.** Two requests find one name or address free; one of them,
  or a deletion, comes between. Keys are compared letter by letter, so every path
  must store one spelling.
* **Two pools.** Threads wait for connections and sessions holding connections wait
  for threads.
* **Restarts.** The admin seed runs at every start, with settings that may have
  changed, over whatever users there are.
* **Deletions** that overtake requests, queued jobs and running tasks.
* **Liveness.** A job that finds its domain busy is dropped for good; the task
  that made it busy must publish it again.

### What makes each component correct

* Database: no row without its parent; a COMPLETED scan has stored its answers.
* Scan API: of racing triggers one is admitted, and what it checked under the
  lock still holds when it inserts.
* Worker: one RUNNING scan per domain; a finished scan stays finished; answers
  are stored once; a job whose scan is gone changes nothing; the domain's status
  is the outcome of its latest scan. Compose starts several pool processes: with
  them a job whose scan is gone still changes nothing, and the rest holds but for
  what follows from three races, which are named and recorded (section 3).
* Recovery: whatever was lost before the start is made up for, and only what was.
* Whole service: no scan is forgotten, every scan ends.
* Rate limit: no more than the budget in a window, and nobody else is refused.
* Listings: a walk through the pages shows every row that stays.
* Accounts, domain names: each table is a registry that enters a key at most once,
  at one moment, and refuses only a key it holds; addresses and names have one
  stored spelling; a name is refused as invalid only if it is; the seed never fails.
* Request serving: every request is answered, and turned away for want of a
  connection only while there are more requests than connections.

`PROJECT.json` lists the hazards at their lines, with the property for each.

## 2. Modules

| Module | Models |
|---|---|
| `DiscoveryState` | constants, variables, rows, messages, the effects handlers share |
| `ScanApi` | the three writing handlers, their faults |
| `DiscoveryWorker` | `_process_scan` and the Celery delivery around it, faults of worker and broker |
| `ScanRecovery` | API start and restart |
| `AssetDiscovery` | the composition, fairness, what holds with any number of workers and under faults, the invariants the proofs rest on |
| `DiscoveryHistory` | `AssetDiscovery` with three history variables for the races it leaves open; what holds but for them, the invariants behind it, the refinement mapping |
| `ScanLifecycle` | the abstract specification: what a reader of the scan history is promised |
| `AssetDiscoveryProofs`, `SeenToProofs`, `WorkersProofs` | the theorems: rows; nothing is forgotten; scans of any number of workers, the refinement, and the status a domain shows |
| `MCAssetDiscovery`, `MCDiscoveryHistory` | the sets of faults their configurations use |
| `LoginRateLimit`, `MCLoginRateLimit`, `LoginRateLimitProofs` | the sliding window, its instance, its theorems |
| `Listings`, `ListingsProofs` | one paginated listing under changes; the theorems about a walk through it |
| `Fqdn`, `FqdnProofs` | `normalize_and_validate_fqdn`, and what a DNS name is; that they agree |
| `Accounts` | the users table, the start and stop of the API process with the admin seed, `POST /auth/register` |
| `DomainNames` | `POST /domains` up to the insert of the row, `DELETE /domains/{id}` |
| `Registry` | the abstract specification of both tables |
| `Registrations`, `MCRegistrations`, `RegistrationsProofs` | `Accounts` and `DomainNames` over one process and its threads, their properties, the two refinement mappings; the instance; the theorems |
| `RequestServing`, `RequestServingProofs` | the two pools a request passes through; the theorems |

Operators under the heading "Slips the properties must catch" are deliberately
wrong versions of a definition, one plausible mistake each. No specification uses
them; put in place of the definition they alter, each violates the property
`PROJECT.json` names under "mutants". They show that the property can fail.

### Discovery: granularity

PostgreSQL runs READ COMMITTED. One action is one committed transaction, one
SELECT whose result a later transaction uses, or one publish. Where an action
covers more, or less, than that:

* `LockAndCheck` is the lock, the read of the domain and the check in one: nothing
  else can commit a change to what they read except a creation's insert, which
  the foreign key makes wait for the same lock. The lock lasts until
  `InsertManualScan` (the commit) or a rollback. Refusals (403, 404, 409) change
  nothing: they are stuttering steps.
* The inserts of a scan or an answer, and updates and deletes of the domain wait
  for the lock, because a foreign key check takes FOR KEY SHARE on the domain row.
* The ORM writes only columns whose value differs from the one its session
  loaded. `seen` is that value for the scan of a task; a commit expires it, and
  the log line after `set_domain_status` loads it again. So `MarkScanRunning` and
  `MarkScanFailed` may write nothing, while `MarkScanCompleted` always writes.
  `set_domain_status(COMPLETED)` and `(FAILED)` are a SELECT and an UPDATE; they
  are one unconditional write here, as when the SELECT already shows that value
  the UPDATE would change nothing at that moment. In `enqueue_initial_scan` the
  gap matters, and the SELECT and the UPDATE are two actions.
* A row that is gone makes the ORM raise: `RowsGone`, `InitialScanRefused`,
  `InitialDomainGone`. After a failed flush the session must be rolled back, which
  no handler does, so the handlers raise in their turn and the task ends.
* `created_at` is the number of the scan within its domain, in order of insertion
  (in the code the start of the inserting transaction).
* Names play no part here: a domain is created once, and a name that is registered
  again after a deletion is another domain. The race for a name is in `DomainNames`.
* The four lookups of a scan are one step with three results: answers (perhaps
  none), a DNS error, which is retried while retries are left, or another error.
  `assets` counts how often the answers of a scan were stored, not the records.
* The queue is a bag: nothing in the code relies on the order of messages. A task
  acknowledges at its end, however it ends (`task_acks_late`).
* Environment not in `src/`, marked external in the map: Celery's delivery, its
  behaviour when a pool child is killed (the message is acknowledged, because
  `task_reject_on_worker_lost` is not set) or when a retry cannot be published
  (rejected, not requeued), Redis losing a message, the restart of the container.
* There is one API process, as `docker-compose.yml` and `scripts/entrypoint.py`
  start it, so recovery and requests do not overlap.

`faults` counts injected faults and `jobLost` remembers whether one of them has
lost a job since the API last started; the code has neither.

### Rate limit

The list a client has in `_attempts` is the set of those of its admissions that
are still in it (their order plays no part); `admitted` is the history of
admissions since the last clear, each with the time it recorded and the time at
which it was recorded. `MaxStall` bounds how long a thread waits between reading
the clock and taking the lock: without a bound the budget cannot be promised at
all. A restart of the process is a new initial state.

### Listings

All three listings are the same code over a table: count, then `ORDER BY
created_at DESC OFFSET .. LIMIT ..`. Filters decide which rows there are, so a
domain whose status changes may leave and enter the listing. `created_at` is the
start of the inserting transaction: rows of one transaction share it
(`MaxBatch`), transactions commit in any order, and the order of rows that share
it is chosen anew by every query. The client asks for the next page until one is
short.

### Accounts and domain names

One action is one transaction or one lookup whose result a later transaction uses:
`CheckUser` and `InsertUser`, `CheckName` and `InsertName`, `StartDelete` (which
finds the row) and `DeleteRow`. The insert is where the unique index decides; an
IntegrityError, which nothing handles, is the answer `userClash` or `nameClash`.

* Refusals that touch no row (401, 403, a 404, a password the policy refuses) are
  stuttering steps. The 400 for a domain name has an action, as a property is about it.
* A role that `get_current_user` has loaded stays what it is until the request ends,
  because no code updates or deletes a user. So the check of the role and the first
  step of the handler are one action.
* An address is a mailbox and a spelling, its stored form or another one: that is all
  the unique index, `lower()` and `strip()` can tell apart.
* A domain name is a sequence over six characters: a lower-case letter (for every
  letter and digit), an upper-case one, the hyphen, the dot, the blank (for all
  whitespace), and `*` for everything else. `LabelMax` and `NameMax` are parameters
  (63 and 253 in the code, 3 and 6 in the run).
* `DomainCreateRequest` limits the text as it was sent to 253 characters (422), before
  the code strips anything. So a valid name of 253 characters with a dot or a blank at
  its end is turned away at the door, though `normalize_and_validate_fqdn` would take
  it. `Readings` leaves such texts out: the refusal changes nothing, and it is not the
  400 that `InvalidMeansMalformed` is about.
* Python's `lower()` maps a few letters outside ASCII into ASCII (the Kelvin sign);
  they are not among the characters.
* `meant` is a history variable: the name the client's text stands for, computed by
  `Meaning`, which knows nothing of the code. `actor` is the account that creates.
  Neither is read by a guard.
* `DeleteRow` does not fail if another request has deleted the row before: the ORM
  only warns that no row matched.
* `StopApi` ends the process wherever it is, requests and all; the next start reads
  another ADMIN_EMAIL. There is one API process. Between `CheckAdmin` and
  `InsertAdmin` the process serves nobody.
* `InsertAdmin` is enabled only for an address that is free: in the other case the
  start would end with an error, and so would every later one. `SeedSucceeds` states
  that this case does not arise.
* `MaxDomains` bounds the rows ever inserted. `IdsLeft` reserves an id for every
  creation that is let in, so the bound never makes a creation wait.

### Request serving

A request is where it is in its chain of calls, and whether its session has a
connection. What it does to rows is in the other modules.

* The thread pool (anyio's limiter, 40 tokens) and the connection pool (QueuePool,
  5 and 10 overflow, `pool_timeout` 30 s) are library code, marked external.
* `get_db` opens a session without a connection; the first statement connects, a
  commit or rollback gives the connection back, the next statement connects again.
* `get_db` itself and the role check hold their threads for a moment and wait for
  nothing there: the first is left out, the second needs a thread to be free.
* A handler's return value is validated against its response model on a thread, while
  its session is still open (`responseQueued`, `ValidateResponse`); not after an
  HTTPException or a 204. The health check has closed its own session by then, so that
  its wait holds nothing up, and is left out.
* Sessions are closed outside the limit of the thread pool, as FastAPI does.
* A wait for a row lock is part of the time a handler takes: its holder has a thread
  and a connection until it commits, and so never waits for either pool.

## 3. Runs

`MaxRetries` is 1 in every passing run: a scan is retried and gives up, so that both
branches and a duplicate with another attempt number occur.

| Run | Instance | Shows |
|---|---|---|
| `racing_clients` | 1 domain, 2 threads, 2 workers, 2 scans, fair | `NoStrandedScan`, `WorkersInvariant`, `MirrorInvariant`, `OverlappingScansAreRivals`, `TriggerCheckStaysValid`, `AssetsStoredOnce`, `DomainMirrorsLatestScan`, `FinishedStaysFinished`, `ImplementsLifecycle`, `ScanEventuallyEnds` |
| `single_worker` | 1 domain, 2 threads, 1 worker, 3 scans, fair | `NoStrandedScan`, `LockHeldByOneTrigger`, `ScanEventuallyEnds` |
| `faults` | 1 domain, 1 thread, 2 workers, 2 scans, one fault of any kind | `TypeOK`, `RowsInvariant`, `NoOrphanRows`, `CompletedHasAssets`, `EveryScanIsSeenTo`, `GoneJobsAreNoops` |
| `restart` | 2 domains, 1 thread, 1 worker, 1 scan each, two faults of any kind | `RestartHeals`, `EveryScanIsSeenTo` |
| `login_budget` | 3 threads, limit 2, window 3, stall 1, clock to 7 | `WindowInvariant`, `BudgetPerWindow`, `RefusedOnlyOverBudget` |
| `listing_walk` | pages of 2, 6 creation times, 3 changes during a walk | `TypeOK`, `WalkInvariant`, `MissedAtMostRemoved`, `RepeatedAtMostInserted`, `QuietTotalIsSeen` |
| `registrations` | 2 threads, 2 addresses in 2 spellings, every text of up to 6 characters that is no name and every spelling of 3 names, 2 domain rows, one restart | `RegistrationInvariant`, `SeedSucceeds`, `OneAccountPerMailbox`, `StoredNamesAreFqdns`, `InvalidMeansMalformed`, `AccountsAreARegistry`, `NamesAreARegistry` |
| `serving` | 3 requests, 1 thread, 2 connections, fair | `TypeOK`, `RefusedOnlyOverloaded`, `EveryRequestAnswered` |

Why the bounds are enough to be interesting. One domain suffices where the
property is about one domain: every handler, task and message concerns one, and
domains meet only in the recovery, which `restart` runs with two. Two scans are
the least at which one waits for another, and enough for two workers to claim two
scans at once, to have one scan in hand together, and to let the outcome of one
overtake the other's; the third lets a trigger follow a creation that raced another
trigger (three scans with two workers take TLC longer than a run should). Two threads
and two workers give every pairwise race, among them two triggers, trigger against creation and deletion
against both. One fault reaches every step of every process; two in `restart`
let a fault hit the recovery from an earlier one. In `login_budget` the clock
passes two windows, the limit is reached, and one thread can stall while two
others use the table. In `listing_walk` a walk has up to four pages.
In `registrations` two threads give every race for one address or name, two rows
let a name be deleted and created again beside another, and the restart changes
ADMIN_EMAIL to a registered user's address or away from the admin's. Names of up to
six characters with labels of up to three have one, two or three labels, hyphens at
and between all edges, and labels at and over their limit (a text over the limit of
a name does not pass the request schema); the theorem about them has no limits. In `serving` three requests over one thread and two connections fill
either pool while the third waits for it.
`MaxScans` needs one scan in reserve for a creation under way (`Reserved`), else
a manual trigger could use up the bound and the creation would wait for ever,
which nothing in the code does.

Deadlock is checked in every run. When nothing is under way the service waits for
its clients (`Wait`).

**Several workers.** `docker-compose.yml` starts Celery's default pool, one process
per CPU, and nothing but the row lock of a manual trigger orders two processes that
have read the same rows. The repository names the missing piece itself
(`src/README.md:135`, a DB-level claim). So what one expects of scans is true only
with exceptions, and the work is to say which. `DiscoveryHistory` adds three
variables that no action of the service reads; `Watch` notes in them, after every
step, the races that have come about:

* `rivals`: two tasks are between `domain_has_running_scan` and `mark_scan_running`
  together, with different scans of one domain.
* `duplicated`: two tasks have one scan in hand. Its job can be on the queue twice:
  the first publish, and the one `_enqueue_next_pending_for_domain` makes because it
  finds the scan PENDING.
* `overtaken`: the outcome of a scan is on its way to the domain in the hands of a
  task (`discovery.py:89` and `92` are two commits) while a younger scan has one
  already; or a creation is about to write the PENDING it decided on earlier while
  its scan has ended (`scan.py:47` and `48`).

None of them is "a property failed": each says where two processes are, before
anything has come of it. The specification with them is `WatchedSpec`, and its
steps of the service are those of `Spec`. The properties then say that nothing else has to be feared,
for any number of workers: scans that overlap were rivals
(`OverlappingScansAreRivals`); answers stored twice, an outcome that changes, a scan
reopened under a trigger that holds the row lock, are those of a duplicated scan
(`AssetsStoredOnce`, `FinishedStaysFinished`, `TriggerCheckStaysValid`); a domain whose
commits came in order shows the outcome of its latest scan
(`DomainMirrorsLatestScan`). A duplicate whose twin is over, a retry, a trigger, a
deletion or the publish of the next scan brings none of it about.

With one pool process (`--concurrency=1`) `rivals` and `duplicated` stay empty, which is
the theorem `OneProcessHasNoRivals`, and the properties are what one would naively
state. `racing_clients` has two processes, so that every race occurs;
`overlapping_claims` shows that the first does, against a comment of the code.
Neither has faults: a worker that dies gives its job to another, and a restart of the
API puts scans back to PENDING that live workers are working on, as a RUNNING row does
not say whose it is. What holds with any number of workers and under faults is in
`faults` and `restart`.

**Abstraction.** `ScanLifecycle` knows domains and scans, no workers, jobs,
retries, locks or restarts. Of the races it knows only that scans may meet
(`Meet`, `Duplicate`), after which rivals may run together and a duplicated scan may
run again. `ImplementsLifecycle` maps a scan row to itself, a
domain to whether it exists, and a creation that has not yet inserted its scan to
a scan it still owes. Every step of the service is then one of `Register`,
`FirstScan`, `Trigger`, `Start`, `Finish`, `Delete`, `Forgive`, `Meet`, `Duplicate`, or
changes nothing an observer sees. A retry shows as nothing: the scan stays RUNNING.

`Registry` knows clients, the keys they ask for and the keys it holds; a request is
accepted or refused at one moment. `AccountsAreARegistry` and `NamesAreARegistry`
map a table to the set of its keys, apart from their spelling, and a request to the
key it asks for, by the name its client means. A lookup that finds the key free is
then nothing an observer sees; the insert is where the request takes effect,
whether the index lets it through or not. A failed seed, a name stored as it was
typed, or a check that refuses a name whose row is gone would not be a step of it.

**Fairness** (`FairSpec`, `WatchedFairSpec`), for `ScanEventuallyEnds`: weak fairness of every
request's handler, of every worker's task and of the recovery, since threads and
processes are scheduled, a lock is handed over when it is free, and a resolver
answers or times out (`resolver.lifetime`); and of the delivery of every single
message, since Redis lists are first in, first out. Clients and faults have no
fairness: nobody must ask for anything. Retries end because the attempt number
does.

For `EveryRequestAnswered`: strong fairness of a request's use of a thread, because
anyio's limiter hands its tokens out in the order in which they are asked for, so
that a request for which a thread is free again and again gets one; weak fairness
of the end of a wait for a connection, because `pool_timeout` ends it if nothing
else does; weak fairness of what runs on a thread, and of closing. Arrivals and
database errors have none.

### Findings

Each is a run whose property TLC refutes with a trace of the code's own steps.

| Run | What happens |
|---|---|
| `overlapping_claims` | Two pool processes pass `domain_has_running_scan` before either commits `mark_scan_running`, and two scans of one domain run at once, against "Only one RUNNING scan per domain" (`discovery.py:68`). |
| `stale_creation` | `enqueue_initial_scan` writes PENDING over the outcome of scans that have all ended: the domain stays PENDING until its next scan. |
| `stuck_running` | One database error after the claim ends the task with the scan RUNNING, against "ensure scan never stuck RUNNING" (`discovery.py:112`). A restart of the API repairs it (`RestartHeals`). |
| `asset_pages` | The answers of one scan share their `created_at`; a walk through their pages misses one though nothing changes. |

`DomainMirrorsLatestScan` is what `src/README.md:75` promises, but for domains in
`overtaken` or with a scan in `duplicated`. The finding `stale_creation` is one way into
`overtaken`, the two commits at the end of a task are the other; `stuck_running` is a
fault, and the run has none. Everything else two API threads and two workers can do is
there: a creation that a trigger overtakes without harm, deletions, triggers against
each other, tasks that follow one another.

## 4. Proofs

TLAPS checks these for all values of the constants.

**Discovery** (`AssetDiscoveryProofs`; assumptions `BoundsAssumption`: the bounds
are natural numbers, `FaultsAssumption`: the faults are among the named kinds).
Any number of domains, threads, workers, scans, retries and faults.

| Theorem | States |
|---|---|
| `RowsInvariantHolds` | `[]RowsInvariant`, the inductive invariant |
| `TypeCorrect` | `[]TypeOK` |
| `LockIsExclusive` | `[]LockHeldByOneTrigger` |
| `NoOrphans` | `[]NoOrphanRows` |
| `CompletedMeansStored` | `[]CompletedHasAssets` |
| `GoneJobsDoNothing` | `GoneJobsAreNoops`, an action property |

None of the safety properties is inductive alone. That a COMPLETED scan has
answers needs `StoredBeforeCompleted` about tasks between the two commits. That no
answer outlives its scan needs, for the recovery's unconditional UPDATE,
`RecoveredRowsExist`: a reset must not bring a deleted row back. That a scan has
its domain needs `LockedDomainExists` for the insert of a trigger, which does not
look again, and `RowsMatchHistory` and `NewDomainsAreEmpty` for a creation: a new
domain must have no rows yet. `JobsNameCreatedScans` keeps late jobs away from
scans that are still to be created; it is what makes `GoneJobsAreNoops` a
statement about deleted scans. The proof has a frame lemma per kind of process
(what it leaves alone), then per conjunct the actions that can disturb it.

**Rate limit** (`LoginRateLimitProofs`; `SettingsAssumption`: the settings are
natural numbers). Any threads, clients, limit, window and stall.

| Theorem | States |
|---|---|
| `WindowInvariantHolds` | `[]WindowInvariant`, the inductive invariant |
| `BudgetHolds` | `[]BudgetPerWindow` |
| `RefusalsAreDue` | `RefusedOnlyOverBudget`, an action property |

The argument: an attempt leaves the table only when its window is over
(`DroppedAreOld`), whatever old time the thread that drops it has in hand, since
that time is never ahead of the clock (`TimesAreFresh`). When a thread is
admitted, its table shows fewer than `Limit` recent attempts, so of the last
`Limit` admissions one is at least a window old by its recorded time, which is at
most `MaxStall` before it was recorded (`AdmissionsInOrder`); the admission
`Limit` back is no younger. `AdmissionKeepsBudget` is that step.

**Nothing is forgotten** (`SeenToProofs`; no further assumption).

| Theorem | States |
|---|---|
| `NothingIsForgotten` | `[]EveryScanIsSeenTo`: any faults, any number of workers |
| `RecoveryHeals` | `[]RestartHeals` |
| `FaultlessStrandsNoScan` | `[]NoStrandedScan`, if `Faults = {}` |

A scan's progress is in a row and its job elsewhere, so the invariant says who is
responsible: a RUNNING scan has a job or a task that holds it (`RunningIsHeld`); for
a PENDING scan there is a RUNNING scan of its domain, or a task that ends and will
publish the next one, or some PENDING scan of the domain that has a job or a request
about to publish it (`PendingIsAwaited`). "Some PENDING scan" is needed because
`_enqueue_next_pending_for_domain` publishes the oldest, not every one. That there is
an oldest is a well-foundedness argument (`LeastNumber`, `OldestPendingExists`). A
dropped job is harmless because what dropped it is a RUNNING scan. Each step of a
task either keeps its scan or passes it on (`TaskKeepsSeenTo`), and at rest nobody is
left to be responsible (`RestMeansFinished`).

**Any number of workers** (`WorkersProofs`; assumption `Faults = {}`). Theorems of
`WatchedSpec`, for any number of pool processes, domains, API threads, scans and retries.

| Theorem | States |
|---|---|
| `WorkersInvariantHolds` | `[]WorkersInvariant`, inductive with `RowsInvariant` |
| `ScansRunOneAtATime` | `[]OverlappingScansAreRivals` |
| `AnswersStoredOnce` | `[]AssetsStoredOnce` |
| `TriggerChecksHold` | `[]TriggerCheckStaysValid` |
| `OutcomesAreFinal` | `FinishedStaysFinished`, an action property |
| `ServiceImplementsLifecycle` | `ImplementsLifecycle`, the refinement |
| `MirrorInvariantHolds` | `[]MirrorInvariant`, inductive with the two before |
| `DomainsMirrorLatestScans` | `[]DomainMirrorsLatestScan` |
| `OneProcessHasNoRivals` | with one pool process, and any faults, `[](rivals = {} /\ duplicated = {})` |

What a task loaded still holds when it acts on it, short of a deletion and unless a
second task has had the scan in hand (`TaskKnowsItsScan`): only tasks change a status
once it is PENDING, and only that of their own scan. `TaskHasStarted` is what is left
for a duplicated scan: it never is PENDING again. Between the check and the claim of a
task another scan of the domain can become RUNNING only through a task that was at the
same point (`ClaimIsFree`), because whoever arrives there later finds none RUNNING. A
scan without an outcome has no answers unless its task is about to finish it
(`AnswersComeLast`), so nobody stores them a second time. A trigger holds the row lock
between its check and its insert, and a scan it found finished becomes active again
only as a duplicate. Each step then is a step of `ScanLifecycle` or invisible: a claim is
`Start`, an outcome `Finish`, the insert of a scan `FirstScan` or `Trigger`, an insert the
foreign key refuses `Forgive`; `CreationsAreSingle` makes a domain owe one scan at a time.

That a domain shows its latest outcome is about two rows written in two commits. A task
that goes on to its domain carries the outcome its scan has (`OutcomeIsCarried`). While
no scan of the domain is active, the outcome of the latest one is on the domain or in
the hands of such a task (`LatestIsMirrored`): whatever else is written there comes from
a task that carries an older outcome, or from a creation, and then the domain is in
`overtaken`. At rest there is no such task, and by `FaultlessStrandsNoScan` no unfinished
scan.

**Domain names as texts** (`FqdnProofs`; `LengthsAssumption`: both limits are natural
numbers). `ValidationReadsTheName`: for every text, `Validated` (the code) is
`Meaning` (the name it stands for, or none). `IsFqdn` cuts a text at its dots and
looks at labels, `WellFormed` looks at characters and their neighbours; two lemmas
show each implies the other. `NormalizeProperties` shows that stripping blanks,
lowering and stripping dots, in this order, leaves a window of the text that cannot
be made tighter; `OneWindow` that a text has at most one window that is a name.

**Registrations** (`RegistrationsProofs`; any threads, addresses, texts, rows and
restarts; the assumptions say that threads are finitely many, bounds natural numbers,
and ADMIN_EMAIL an address).

| Theorem | States |
|---|---|
| `RegistrationInvariantHolds` | `[]RegistrationInvariant`, the inductive invariant |
| `SeedNeverFails` | `[]SeedSucceeds` |
| `OneAccountEach` | `[]OneAccountPerMailbox` |
| `NamesAreFqdns` | `[]StoredNamesAreFqdns` |
| `RefusalsAreRight` | `[]InvalidMeansMalformed` |
| `AccountsRefineRegistry` | `AccountsAreARegistry`, a refinement |
| `NamesRefineRegistry` | `NamesAreARegistry`, a refinement |

The seed cannot fail because no account precedes the admin's and the seed asks for an
admin, not for the account of ADMIN_EMAIL (`AdminIsFirst`): where it inserts, the table
is empty. An index that compares letter by letter is enough because every stored
address is its own normal form (`StoredNormally`). A creation waits with the name its
client means, which `ValidationReadsTheName` provides (`CreatorsKnow`); rows have names of their own (`RowsAreKeyed`), so
deleting one removes exactly its name from the registry, and deleting it again none.

**Listings** (`ListingsProofs`; `PagesAssumption` and `OneRowPerTransaction`: no two
rows share a creation time, which holds for domains and scans, whose transactions
insert one row each). Any page size, any number of creation times and of changes.

| Theorem | States |
|---|---|
| `WalkInvariantHolds` | `[]WalkInvariant`, the inductive invariant |
| `TypeCorrect` | `[]TypeOK` |
| `MissedHolds` | `[]MissedAtMostRemoved` |
| `RepeatedHolds` | `[]RepeatedAtMostInserted` |
| `QuietTotalHolds` | `[]QuietTotalIsSeen` |

Without ties a row has one place in the listing, its `Rank`, and a walk has `Passed` the
rows whose rank is within its `Offset`. A page shows exactly the rows that the offset
then passes. A removal lowers the rank of the older rows by one, so it pulls at most one
row that was not shown over the offset (`FewPassedUnseen`); an insertion raises ranks, so
it pushes at most one row that was shown back behind it (`FewSeenAhead`), or is itself a
row that was shown before. `OffsetWithinRows` bounds the number of pages. For answers
(`/assets`) the hypothesis fails, and so does the conclusion: that is `asset_pages`.

**Request serving** (`RequestServingProofs`; `ServingAssumption`: finitely many
requests, natural numbers).

| Theorem | States |
|---|---|
| `TypeCorrect` | `[]TypeOK`: pool limits, and where a session has its connection |
| `OnlyOverloadRefuses` | `RefusedOnlyOverloaded`, an action property |

**Only model-checked:** `ScanEventuallyEnds` and `EveryRequestAnswered`: liveness under
fairness is beyond the prover. Every invariant and action property of a passing run is
stated by a theorem. The theorems of `WorkersProofs` are about runs without faults, those
of `ListingsProofs` about rows that share no creation time; what happens without these
hypotheses is in the findings and in section 3.

## 5. Not modelled

* Tokens and password hashes: library calls on one value. An account acts if it
  exists (`Allowed`), a token that fails to decode is a refusal.
* The password policy: a predicate on one string that only refuses.
* The records a lookup returns, and how the four record types are parsed.
* Several API processes: nothing in the repository starts them, and its recovery,
  its seed and its rate limit are written for one.
* Migrations and configuration: Alembic's work, done before the API starts. The
  schema they create is in the types, keys and indexes of the modules, the settings
  are constants.
* The 422 of the request schemas, the limit on the length of a raw domain name among
  them (a hazard without a property).
* Memory: `_attempts` keeps an entry for every client that never logs in (a hazard
  without a property).

## 6. Plan

1. Done: the discovery core, its abstract specification, its row, responsibility and
   worker invariants and the refinement, all proved for any number of workers; the rate
   limit with its budget theorem; the listings; accounts and domain names as registries,
   proved; the validation of names, proved; the pools of the API process, their safety
   proved. Likewise proved: the status a domain shows where no commit came late, and the
   budget of a walk through a listing.
2. The races of section 3 under faults: a redelivered job and a restart of the API put
   one scan into two hands in further ways, which `DiscoveryHistory` would record.
3. `RequestServing` without deadlock as a state property (who waits for whom), as the
   part of `EveryRequestAnswered` a proof can reach.
4. The password policy as an operator over character classes, if it gains a rule that
   is easy to get wrong.
