# A TLA+ model of VisionForge

VisionForge accepts images, runs detection or classification models on them and
stores the results: an HTTP API (Go) over Postgres, Redis and an object store, a
pool of worker goroutines fed by a queue in Redis, and an ML service (Python) that
fetches model artifacts and runs them. This directory models those parts,
model-checks them with TLC on small instances and proves their main safety
properties for instances of any size with TLAPS.

## 1. The system

| component | state it keeps | operations | talks to |
|---|---|---|---|
| Job queue (`internal/queue/queue.go`) | Redis: list `queued`, sorted set `processing` (score = lease deadline), sorted set `dead`, one payload key per id | Enqueue, Dequeue, Ack, Fail, RequeueExpired, Depth | Redis; called by the API and the workers |
| Inference service (`internal/service/services.go`) | rows of `inference_jobs`, `inference_results` | CreateAsync, CreateSync, Retry; Get, GetResult, List, Stats | Postgres, queue, object storage, ML service |
| Worker (`internal/worker/worker.go`) | the delivery in hand | loop, process, handleFailure, housekeeping ticker | queue, Postgres, ML service |
| Repositories (`internal/repository`) | all tables | single SQL statements; status changes are compare-and-set | Postgres |
| State machine (`packages/types/jobs.go`) | none | ValidTransition, IsTerminal, Retriable | - |
| Sessions (`AuthService`, `handler/auth.go`, `apps/web/src/lib`) | `users`, `refresh_tokens`; tokens a client holds | Register, Login, Refresh, Logout | Postgres |
| Assets (`AssetService`, `internal/storage`) | `assets`, objects of the bucket, presigned URLs | PresignUpload, ConfirmUpload, UploadDirect, Delete, list | Postgres, bucket |
| Projects, model catalogue (`ProjectService`, `ModelService`) | `projects`, `models`, `model_versions` | create, PATCH, delete, list; CreateVersion, SetVersionStatus | Postgres |
| Rate limiter (`middleware/ratelimit.go`, `handler/router.go`) | a counter key per client address and route | Allow, twice per call | Redis |
| ML service (`apps/ml`) | loaded models of each process, the artifacts directory | predict, resolve, load, decode, suppress | bucket |
| Migrator (`cmd/migrate`) | `schema_migrations`; the tables its files create | up, down | Postgres |
| Seed, HTTP binding, metrics, audit, configuration | - | - | - |

They meet in three places. Requests and workers share Postgres and Redis: this is
`JobPipeline`. Projects, assets, versions and jobs share foreign keys and the
bucket: this is `Catalogue`. Processes of the ML service share a directory: this is
`MlService`. Sessions and limiters stand in front of every route and share no state
with what is behind them; the migrator runs before the API of its container serves, and
may meet other migrators, not the API's statements.

### What is hard here

* **Concurrency.** Workers, a housekeeping goroutine and any number of requests
  share two stores. Each SQL statement, Redis transaction or Lua script is atomic;
  what lies between two of them is not, and no database transaction spans two
  statements. Check-then-act pairs are everywhere: Refresh, PATCH, authorize before
  the insert of a job, the idempotency key, the `.part` file of a download, the version
  a migrator reads once.
* **Leases.** A delivery is leased for 2 minutes (`visibilityTimeout`), a job may
  take 5 (`jobCtx`). Leases lapse under a worker that is still computing.
* **Several stores.** Postgres and Redis, Postgres and the bucket, the bucket and a
  directory are changed one after the other, with a possible death in between.
* **Ambiguous errors.** A command that reports an error may have been executed.
* **Ignored errors.** Several `_ =` and log-only branches continue after one.

The full list, each hazard at its line with the properties that speak of it, is
`hazards` in `PROJECT.json`; one without a property has a note saying why.

### What makes each component correct

* Queue: no id multiplies or vanishes; a lease keeps others away until it lapses;
  what was put is settled.
* Store and lifecycle: statuses move along the documented machine; SUCCESS has a
  result; results are not replaced.
* Worker and API together: one executor per job; a QUEUED job is on its way; one
  job per idempotency key; a queued job comes to an end.
* Sessions: a refresh token has one successor; revocation and logout are final.
* Catalogue: a stored asset has its object; a job computes on an asset of its own
  project; a PATCH keeps what it does not mention; a listing is exact.
* Rate limiter: a bound on the calls of a client let through to a route in any window.
* ML service: the right artifact answers, the heuristic only after a failure;
  detections are one per object and inside the image.
* Migrator: what is recorded exists, what exists is recorded, no version is left out.

## 2. The modules

```
JobTypes ── JobStore ─────────┐
   │                          ├── InferenceApi ──┐
   ├────── RedisQueue ────────┤                  ├── JobPipeline ── MCJobPipeline
   │            │             └── JobWorker ─────┘        │
   │            │                                         └── JobPipelineProofs ── JobExecutionProofs
   │            ├── RedisQueueProofs ── (JobPipelineProofs and QueueProofs)
   │            └── QueueProtocol ─┬─ MCQueueProtocol
   │                               └─ QueueProofs
   ├── AtLeastOnce  (INSTANCEd by QueueProtocol)
   └── JobLifecycle (INSTANCEd by JobPipeline)

AuthService ── AuthApi ─┬─ MCAuthApi           Catalogue ── Listing ─┬─ MCCatalogue
                        └─ AuthProofs                                └─ CatalogueProofs

MlProcesses ─┬─ ModelRegistry ─┬─ MlService ─┬─ MCMlService          RateLimiter ── RateLimiterProofs
             └─ Detector ──────┘             └─ MlServiceProofs

Migrator ── MCMigrator
```

| module | models | correspondence |
|---|---|---|
| `JobTypes` | `packages/types/jobs.go`, `classifyErrorCode` | `AllowedNext` is the table of `ValidTransition`; `FaultKind` lists what the environment may do |
| `JobStore` | `repository/job.go`, `result.go`, the two tables | `Transition` is `jobRepo.transition`: one UPDATE with `WHERE status=`. A `Mark*` method that tries several source statuses is several steps, taken by the caller's module |
| `RedisQueue` | `queue.go` | a variable per Redis key; producers' MULTI/EXEC commands are single steps; `Dequeue` and `RequeueExpired` are cut at every command: scan, one step per swept id, pop script, BRPOP, ZADD, GET |
| `QueueProtocol` | the queue used by itself | a worker settles what it dequeued or dies. Each id is put once; that the program pushes an id again (worker.go:262-265, services.go:678) is `JobPipeline`'s subject |
| `AtLeastOnce` | the abstract queue | ids owed, ids in hand, ids settled. A delivery is of an id that is owed or was settled, a death settles nothing; a settled id may be delivered, and be owed, again, which is all that at-least-once promises |
| `InferenceApi` | `CreateAsync`, `CreateSync`, `Retry` | `rpc[r]` is the statement request `r` is at |
| `JobWorker` | `process`, `handleFailure` | `wpc[w]` is the statement worker `w` is at, `dq[w]` where it is in `Dequeue` |
| `JobLifecycle` | the abstract life of a job | documented transitions, result before SUCCESS |
| `JobPipeline` | all of it over one Postgres and one Redis | `Crash` is a process death, the shutdown of `Run`'s context or the expiry of `jobCtx`: in each, nothing the goroutine still had to do takes effect |
| `AuthService` | `AuthService`, its two repositories | `pc[r]` is the statement: insert, find, check, revoke, create |
| `AuthApi` | bearer check, `handler/auth.go`, a script and the web client | a client sends, waits, gives up, gets its answer or an error; a slot in `Request` is one call of a handler |
| `Catalogue` | `ProjectService`, `AssetService`, `ModelService`, `authorize`; the tables, their foreign keys, the bucket | `Script(o)` lists the statements and storage calls of operation `o`; `todo[r]` is what request `r` still has to run |
| `Listing` | `ListByProject` and its cursor, paged by a client | `Fetched` is the query with `limit+1`, `NextCursor` the trimmed page's last row |
| `RateLimiter` | `RateLimiter.Allow` behind `rateLimitGin`, for all routes and for a group | a key is a client's address and a route, as in router.go:95, so every route of a group is counted by itself; `Count` is the MULTI of INCR and EXPIRE; a call passes `global`, then `group`; the history `recent` keeps the two counts of each call let through and its age |
| `MlProcesses`, `ModelRegistry` | `registry.py` in several uvicorn processes | a process is atomic between its file operations: fetch, replace, load |
| `Detector` | `_postprocess`, `_iou`, `_nms` | `Decoded` is a box of the image, `Suppress` one pass of the loop |
| `MlService` | `POST /predict`, `/predict_url` | resolve, predict, suppress, answer; a process dies anywhere |
| `Migrator` | `cmd/migrate/main.go` | read the version, then a transaction per file: script, row, commit; a command fails or dies anywhere |

The `*Proofs` modules hold theorems only (section 4); the `MC*` modules give TLC
symmetry sets and bounds.

### Abstractions

* **Time** in the queue is not a number. A score or a deadline is `live` or `past`;
  `LeaseLapses` and `DeadlineLapses` turn one into the other at any moment. This
  contains every relation between lease, backoff and job duration. The deadline
  of a Dequeue ages only while BRPOP waits: its other steps follow each other in
  milliseconds. The limiter's minute is `Window` ticks; the two counts of a call
  are never a whole window apart.
* **A job** in the pipeline is an id. Asset, model, priority and payload bodies are
  left out, except `Attempt`; all requests are of one project and there is one
  idempotency key. What a job refers to is `Catalogue`'s subject.
* **Errors** of SQL and Redis in the pipeline are switched on by `Faults`. A failing
  command has been executed or not (`DbError`, `RedisError`); the code cannot tell.
  In `AuthApi` and `Catalogue` any request may end at any statement (`Refuse`,
  `Abandon`), which stands for a failed check, an error, a dead process and, just
  after the step, an error of a statement that was executed.
* **ML, storage and asset lookup** in the pipeline are one fault, `ml`.
* **Dead requests.** A client that disconnects cancels the request's context, so
  every later statement fails; `RequestDies` models that and a process death.
* **Tokens** are drawn, never equal; an expired refresh token ends like a failed
  read. Passwords are right or the request ends.
* **Assets**: an id stands for its storage key and its `created_at`, drawn together
  and in any order. A project's editable columns are the set of fields that were
  edited.
* **Storage keys are assumed to be unique**, which the code does not see to: a key is
  user, project, second and 16 bits of the clock (services.go:454-456). Two uploads of
  one user that drew the same key would be told apart by the UNIQUE column only, after
  the second Put has overwritten the object of the first; `StoredKeepsObject` would
  still find an object, the wrong one.
* **Retry** is not an operation of `Catalogue`: it looks at no version and no asset
  again (services.go:660-683). A version's status is looked at once, when a job is
  created, and `Catalogue` promises nothing about a version that is retired
  afterwards.
* **Migrator**: the tables one file creates are one thing, there or not, and no file
  touches another's. Postgres runs at READ COMMITTED: a CREATE waits for whoever
  creates or drops the same table, a DROP waits for one that drops it and does not see
  one that is being created. The history `crossed` tells runs in which a down met
  another command.
* **Traffic** in `Catalogue` and `MlService` is a bound for TLC: a set of
  operations, or of versions, images and outputs, that occur together. The
  theorems hold for every `Traffic`.
* **Detector**: confidences are ranks, coordinates integers; a process predicts one
  image at a time, because nothing of one request's candidates reaches another.
* `RequeueExpired` reads all expired ids in one scan; the batches of 100 and the
  24 h TTL of payloads are left out.

## 3. The runs

| run | asks | bounds | states | expected |
|---|---|---|---|---|
| `queue` | `TypeOK`, `AtMostOneCopy`, `ExclusiveLease`; refinement `DeliversAtLeastOnce`; `EventuallySettled` | 2 workers, housekeeper, 2 ids; workers die anywhere but between BRPOP and ZADD | 338k | holds |
| `queue_lost` | `NoJobLost`: is delivery at least once when they die there too? | 2 workers, 1 id | | violated |
| `pipeline_safety` | `TypeOK`, `SuccessHasResult`, `RunsWithinAttempts`, `OneJobPerKey` | 2 requests with one key, 1 retry request, 1 worker, 2 ids, every fault | 382k | holds |
| `pipeline_single` | `SingleExecutor`, `SuccessHasResult`, `RunsWithinAttempts`; refinement `ImplementsLifecycle` | 1 async, 1 sync, 1 retry request, 2 workers, 1 id; every fault but Redis errors | 41k | holds |
| `pipeline_delivery` | `QueuedIsDeliverable`; `QueuedIsPickedUp`, `AcceptedEnds` | the same requests; ML errors, worker deaths | 40k | holds |
| `doc_double_run` | `SingleExecutor` with two Retry calls | 1 sync, 2 retry requests, ML errors | | violated |
| `doc_retry_stuck` | `StartedJobsEnd` | 1 async request, ML errors | | violated |
| `sessions` | `TypeOK`, `SingleUse`, `RevocationIsFinal`, `LogoutEndsSession` | 1 client (browser or script), 2 requests in the API, 2 accounts, 3 tokens | 1.8M | holds |
| `rate_limit` | `TypeOK`, `RouteAdmitsHalf` | 1 client, 2 routes of a group, 2 calls in flight, limits 4 and 3, a window of 2 ticks | 95k | holds |
| `catalogue` | `TypeOK`, `ListingIsExact`, `StoredKeepsObject`, `JobStaysInProject`, `PatchKeepsEdits` | 2 accounts, 2 projects, 2 assets, 1 job, 1 version, 2 requests, pages of 1, four mixes of operations | 1.2M | holds |
| `ml_service` | `TypeOK`, `HeuristicOnlyAfterFailure`, `ServesOwnArtifact`, `OneDetectionPerObject`, `BoxesInsideImage` | 2 processes, 3 remote versions (two share a file name), 1 local; every output of up to 3 of 8 anchors, all of which suppression sees, on 3 image sizes | 1.5M | holds |
| `migrations` | `TypeOK`, `RecordedIsThere`, `ThereIsRecorded`, `NoGaps`, `UpAppliesAll` | 3 migrators, 3 files of which one has no down script, 5 commands | 927k | holds |

**Why the bounds are enough to be interesting.** Two workers and the housekeeper
give every pair the code can race: two sweeps of one id, a sweep against a pop, a
stale holder against the new one, two executors of one job. Ids meet only in the
FIFO list, so two of them show every order. In the pipeline runs with one id the
asynchronous and the synchronous request compete for it; the two ways to create a
job are then two branches of one run, followed by Retry. `MaxAttempts = 3` makes
the first failure a retry and a failure of a retried job a death. One client that
abandons requests gives two exchanges of one token, a logout beside an exchange and
a late answer; the third token is the successor of a successor. In `Catalogue` the
mixes join every pair of operations that touch a common row: two PATCHes and a
delete; upload, job, asset and project deletes; presigned uploads and
confirmations; a listing and its table. With limits 4 and 3 a call is counted twice
and can be stopped by either limiter. Anchors include pairs below, at and above an
overlap of one half, equal ranks, boxes that leave the input, noise and weak ones;
with three of them suppression makes a pass over what an earlier pass left. Three
migrators are two that race and one that comes after; of three files the first can be
reverted, the second cannot, so that a down of several fails on its way.
The state spaces are finite without a constraint: requests are served once or their
slots reused with everything forgotten, ids are drawn once, and counters have the
bounds the modules name (`Ceiling`, `Window`, `Request`, `Token`, `Asset`, `MaxStarts`).
Symmetry is used only in runs without liveness properties.

**Deadlock** is checked in every run but the migrator's, whose commands are
finitely many: elsewhere idle workers keep polling, ended requests leave their slot,
time passes.

**Fairness** (`FairSpec` of `QueueProtocol` and `JobPipeline`). Weak fairness for a
request being served, for each worker goroutine in Dequeue and in process, and for
the housekeeping ticker: the Go scheduler runs them and their calls return. Weak
fairness for a lease to lapse: the clock advances. A client need not send a request.
Crashes are possible until `CalmDown`, which happens at some time: a worker that
dies for ever finishes nothing. No fairness is assumed for a fault or for a
particular outcome of a step. The other components promise no progress of their
own: a request there ends whenever its statements return.

### What the violated runs show

* **Lost jobs** (`queue_lost`). The fallback path of Dequeue pops with BRPOP and
  records the lease in a second command. A death in between loses the job.
* **Retries never run** (`doc_retry_stuck`). `handleFailure` leaves the row RETRYING
  and re-enqueues; only `MarkQueued` leaves RETRYING and no worker calls it, so
  `MarkRunning` refuses the second delivery, which is then acknowledged. With `Faults`
  = {"worker_crash"} TLC finds the same property violated by a worker that died: the
  redelivery finds RUNNING and is refused likewise.
* **Double runs** (`doc_double_run`). `MarkRetrying` accepts FAILED for Retry and
  RUNNING for the worker. A Retry that read FAILED, but whose UPDATE comes after
  another Retry has the job running, takes the running job back to the queue.

The properties that hold are stated around these. `pipeline_single` has one Retry call
and no Redis errors; `pipeline_delivery` has no database errors and no API deaths (one
between `MarkQueued` and Enqueue strands the row; the document names the missing
reconciliation job). `AcceptedEnds` counts a retry as an end, because nothing comes
after it.

### What the passing runs except

Each exception is a behaviour of the code that the model has; TLC finds the property
violated without it. Where a document says otherwise it is quoted.

* **A lost reply of Redis** (`SingleExecutor`, `ImplementsLifecycle`: no Redis
  errors). An Enqueue that was executed reports an error; the API declares the job
  FAILED (job.go:184), from QUEUED, which `ValidTransition` does not list, although a
  worker has it, and one Retry brings it to a second worker.
* **An error of `MarkRunning`** (`QueuedIsDeliverable`: no database errors) is taken
  for a lost race (worker.go:162): the delivery is acknowledged, the row stays QUEUED.
  ARCHITECTURE.md:89: "Wrapped as retriable by workers."
* **Two exchanges of one refresh token** that both found it valid both get a successor
  (services.go:117, :127): the UPDATE that revokes it does not say whether it did.
  README.md:108 claims "reuse-rejection". `SingleUse` forbids every other reuse, in any
  order with logouts, abandoned requests and late answers.
* **A group of routes** has no counter (`RouteAdmitsHalf` speaks of one route). The
  limiter's key holds the route, so each of the five `/auth` routes has counts of its
  own; and since the global limiter and the group's count under one key, a call counts
  twice. A client gets 5 calls a minute to each route, 25 to `/auth`; API.md:90 and
  SECURITY.md:10 say 10.
* **Shared file names** (`ServesOwnArtifact`: a name of its own). Of two remote
  versions whose URIs end alike, the first that is fetched answers for both. What is
  left is the one `.part` file that two processes write and rename.
* **A down that meets another command** (`ThereIsRecorded`, `NoGaps`, `UpAppliesAll`:
  not `crossed`). It reads the version once; when its DROP IF EXISTS found nothing it
  still deletes the row that an up has committed since, and the tables stay
  unrecorded. `RecordedIsThere` needs no exception.
* **An edit between the read and the write of a PATCH** is lost, because both columns
  are written back as they were read (services.go:224); `PatchKeepsEdits` does not
  speak against it.

### What the code does where no document says otherwise

These behaviours are in the models, and nothing in the repository says that they do
not happen.

* A cursor whose row was deleted makes the comparison NULL: the listing ends there
  and looks complete (`cut` in `ListingIsExact`).
* Deleting a project leaves its objects in the bucket; a presigned PUT outlives the
  asset it was made for. `StoredKeepsObject` promises an object for a row, not a row
  for an object.
* Register and Refresh may fail after their first statement: an account without a
  session, a session that is gone. A logout whose UPDATE failed still answers that it
  happened; `LogoutEndsSession` is about the tokens a logout did revoke.
* The web client reads `refresh_token` from a body that has none and keeps
  "undefined"; its refresh and, after a page load, its logout fail.
* A client that keeps calling keeps its key alive.
* A model whose file was missing once stays on the heuristic until its process
  restarts; `HeuristicOnlyAfterFailure` accepts a failure however long ago it was.
* The decoder divides coordinates by the ratio that shrank the image;
  `BoxesInsideImage` is about the clips that come after.

## 4. The proofs

For every value of the constants, under the named assumptions of the modules, which
TLC evaluates in the runs: `FaultsAssumption`, `NoJobAssumption` (JobTypes),
`HousekeeperAssumption` (RedisQueue), `RequestAssumption` (InferenceApi),
`MaxAttemptsAssumption` (JobWorker), `NoValueAssumption` (AuthService),
`ClientAssumption` (AuthApi), `IdAssumption`, `StatusAssumption` (Catalogue),
`PageAssumption` (Listing), `RegistryAssumption` (ModelRegistry),
`DetectorAssumption` (Detector), `TrafficAssumption` (MlService), `LimitAssumption`
(RateLimiter). They say that null values are no ids, that bounds are natural numbers
and that a group's limit is not above the global one. `MigratorAssumption` (Migrator) is
evaluated too; no theorem rests on it.

| module | theorems | inductive invariant |
|---|---|---|
| `JobPipelineProofs` | `TypeCorrect`; `SuccessIsBacked`; `KeyNamesOneJob` | `TypeOK` itself; `ResultInv`; `KeyInv` |
| `JobExecutionProofs` | `RunsAreCounted`; `OneExecutor`, `FollowsLifecycle`; `QueuedStaysDeliverable` | `RunsInv`; `ExecInv` (with `ResultInv`); `DeliverInv` |
| `QueueProofs` | `QueueTypes`, `OneCopyAtMost`, `LeaseExcludes`, `QueueKeepsPromise`; `NothingIsLost` | `QueueInv`; with `NoJobLost` |
| `AuthProofs` | `AuthTypes`, `ExchangedOnce`, `RevokedIsFinal`, `LogoutIsFinal` | `AuthInv` |
| `CatalogueProofs` | `StoredHasItsObject`, `JobInItsProject`, `PatchTakesNothingBack`; `ListingMissesNothing`, `CatalogueTypes` | `CatInv`; `ListInv` |
| `RateLimiterProofs` | `LimiterTypes`, `RouteHalfIsAdmitted` | `CountInv` |
| `MlServiceProofs` | `MlTypes`, `HeuristicIsAccountedFor`, `OwnArtifact`, `NmsKeepsTheBest`, `BoxesFit` | `MlInv` |

`RedisQueueProofs` holds the lemmas on the types of the queue that
`JobPipelineProofs` and `QueueProofs` share.

* **Pipeline types.** `TypeOK` is inductive because it also says who has a job in
  hand: a request past its insert, a worker past its pop; and that a worker outside
  `process` is at `"mark"`. One lemma per statement and command, one per action,
  then `StepType` by cases over `Next`.
* **Results.** `SuccessHasResult` is not inductive: whoever is about to execute
  MarkSucceeded must have stored the result already, and nobody may replace it.
  `StoredBeforeSuccess` adds that. Every step keeps SUCCESS results and makes a row
  SUCCESS only when its result is there; the step to `"succeed"` is taken only by a
  Results.Create that stored.
* **Idempotency keys.** `OneJobPerKey` speaks of requests that returned. `OneRow`
  says the unique index admits one keyed row, `HoldsKeyed` that every keyed request
  with a job holds that row's.
* **Executions** (`JobExecutionProofs`). The four theorems about who runs a job, how
  often, and what becomes of its row have hypotheses, which the code's own gaps
  dictate (section 3):

  | theorem | retries | faults it excludes |
  |---|---|---|
  | `RunsAreCounted` | `RetriesApart` | none |
  | `OneExecutor`, `FollowsLifecycle` | `RetriesApart` | `redis` |
  | `QueuedStaysDeliverable` | `RetriesApart` | `db`, `redis`, `api_crash`,
  `pop_crash` |

  `RetriesApart` says that no two Retry calls work on one job at one time. Retry reads
  `attempts`, compares and sets the status and writes `attempts + 1` in separate
  statements: two that overlap count one attempt twice, and the second may take back
  to the queue a row that is RUNNING by then (`doc_double_run`). With one Retry
  request, as in the runs of section 3, it is true of every state
  (`LoneRetryIsApart`); any number of them may follow one another, or retry different
  jobs, and worker, queue and creating requests are unrestricted. Without `redis`
  excluded, `MarkFailed` takes a QUEUED row to FAILED although its id is in the list,
  and a Retry puts it there a second time. The faults of the last row are those whose
  effect section 3 describes: an acknowledged delivery that `MarkRunning` never saw, a
  request that dies before Enqueue, an id lost between BRPOP and ZADD. ML failures,
  worker deaths at every other point and lapsing leases are in all four.

  `RunsInv`: a QUEUED row has run less often than `attempts` says, and a request on its
  way to `MarkQueued` carries an attempt above the runs of its row. `ExecInv`: who is
  past MarkRunning, or in CreateSync past the insert, has a RUNNING row of its own
  (`OwnersApart`); hence a redelivery finds RUNNING and goes away, MarkRetrying and
  MarkFailed hit with their first statement (`Reach`) and no row is DEAD.
  `FollowsLifecycle` reads every statement as a transition of `JobLifecycle` from it.
  `DeliverInv`: of a job that is not enqueued yet Redis knows nothing (`Untouched`); a
  QUEUED one has its payload and is in the list, in the sorted set or in hand between
  the two (`Known`), unless a request is about to enqueue it; and who holds a QUEUED
  job is at MarkRunning (`AtMark`), so acknowledgements and failures only remove jobs
  that are not QUEUED. Every step of the queue keeps `Known` (`QueueKeeps`).
* **Queue.** `Placed` is `AtMostOneCopy` taken apart: the list repeats nothing, and
  list, sorted set and the hands between BRPOP and ZADD are disjoint. `OnlyPut`: an id
  nobody put is nowhere. `Leased`: a lease nobody saw run out still stands, unless the
  id was settled meanwhile; with it, whoever takes an id from the list shares it only
  with workers whose lease lapsed. Each step of Dequeue is then shown to move an id
  from one place to another (`SameIds`), or none, and the refinement follows: owed are
  the ids that are somewhere, a fetch delivers, a settlement empties a hand for good,
  a death empties it. What is delivered is owed or settled because nothing is lost: an
  id that was put and not settled is somewhere (`NoJobLost`, theorem `NothingIsLost`).
  Both assume `"pop_crash" \notin Faults`; `queue_lost` shows that they have to.
* **Sessions.** `SingleUse` needs to know who is exchanging a token: two tokens with
  one parent mean that two requests were past the check at a time (`Exchanges`).
  `RevocationIsFinal` needs that a revoked token stays revoked (`Late`). Logout needs
  `Chains`: a chain of successors belongs to one client, which holds at most one
  valid token of it and, once the chain was logged out, none; a token about to be
  handed out belongs to the session its request is for. `InHand` says what a request
  carries at each statement and `Rows` that every token in use has a row.
* **Catalogue.** The invariant says what each request's earlier reads are still worth
  at the statement it is at: the owner of a project is still who it was or the
  project is gone (`OwnerChecked`), an asset about to be deleted has landed and
  will not get a row again (`Landed`), an object without a row belongs to one upload
  (`Uploading`), a PATCH nobody overtook has read every edited field (`Current`).
  `RowsRefer` is the foreign keys plus the fact the code relies on, that an asset's
  uploader owns its project. Scripts are sequences, so `Order` turns "the head of the
  rest of the script" into a finite table once and for all. For the listing,
  `ListInv` says what the pages so far are worth: everything shown lies at or above the
  cursor, and every row that was there at the start and still is, is shown or lies
  below the cursor; a cursor that lost its row makes the next page empty and sets `cut`.
  The pages are sets with an order on ids, so no induction over a sequence is needed:
  `Newest` is characterised by cardinalities of what lies above a row.
* **Rate limiter.** A call let through took two counts of its key, which is one
  client's on one route, the second within `GroupLimit`. `CountInv` says that counts
  of one life of a key are all different and not above its counter, and that a key
  lives as long as a call that it let through is recent. So the calls of a window have
  disjoint pairs of counts in `1..GroupLimit`: at most half as many calls.
* **ML service.** `RightFile`: a file, its `.part` and a loaded model hold the
  artifact of some version with that file name. `KnowsWhy`: a process that is about to
  load a remote version finds the file or has recorded a failure, because a finished
  download leaves the file or its `.part`, whoever renames it, a rename that fails is
  recorded, and no step removes a file. For suppression: the kept ones are better than
  those left and do not overlap them, and whatever is neither was dropped for a kept
  one.

**Only model-checked**: liveness (`EventuallySettled`, `QueuedIsPickedUp`,
`AcceptedEnds`), which is out of the prover's reach, and the migrator. Every safety
invariant, action property and refinement of the other passing runs is a theorem, the
four of `JobExecutionProofs` under the hypotheses above. What a whole suppression
returns is proved of each pass of its loop; a definition of the result by recursion
over the candidates would need induction over data, which is out of reach too.

## 5. What could come next

1. `OneExecutor` with Redis errors for requests that no client retries, and
   `QueuedStaysDeliverable` for the jobs that no fault has touched, instead of
   for runs without such faults.
2. `RecordedIsThere`, `ThereIsRecorded` and `NoGaps` of the migrator as theorems: who
   is about to record a version holds its tables, and what is pending for an up starts
   right above what was recorded.
3. `RetriesApart` weakened to what `RunsAreCounted` needs: no two Retry calls past their
   read of one job.

## 6. Not modelled

* Seed: every API container runs it after the migrator; it looks for a demonstration
  account, project and models and creates those that are missing, relying on UNIQUE
  columns where two run at once (a second demonstration project may appear).
* HTTP routing, binding, error mapping, validation of file names: stateless
  translation.
* Password hashing, JWT signing, presigning: libraries.
* Numerical inference, image decoding, the classifier's softmax, the heuristic's
  random boxes: no state, and nothing in the repository says what they must return.
* Metrics, logs, audit records, configuration: written, or read once at the start.
* The `models` table: it has inserts and reads only. `last_login_at`: nothing reads
  it.
* The pages of the web client: they display what the API answers. Its session is in
  `AuthApi`.
* `Depth`, `Stats`, `CountByStatus` and the other reading operations: they change no
  state. `IncrementAttempts` and `RateLimiter.Middleware` have no caller.

## 7. Running

```
tlc -config Queue.cfg MCQueueProtocol
tlc -config PipelineSafety.cfg MCJobPipeline
tlc -config Sessions.cfg MCAuthApi
tlc -config Catalogue.cfg MCCatalogue
tlc -config MlService.cfg MCMlService
tlc -config RateLimit.cfg RateLimiter
tlc -config Migrations.cfg MCMigrator
tlapm QueueProofs.tla
tlapm JobExecutionProofs.tla
```
