# Verification of flash-connector

flash-connector is a multi-tenant gateway to LLM providers: a FastAPI service
(`api/app`), a Postgres database behind SQLAlchemy, a Redis instance that holds
an RQ queue, a response cache and rate counters, RQ worker processes
(`worker/run_worker.py`) that run `api/app/tasks.py`, and a Python SDK (`sdk/`).
This directory holds TLA+ models of it, TLC configurations and TLAPS proofs.
Paths below are relative to the repository (`src/` in `PROJECT.json`).

## 1. Inventory

| Component | State | Operations | Interacts with | Hard behaviour | Correct when |
|---|---|---|---|---|---|
| Job lifecycle (`tasks.py`, `services/jobs.py`, `routers/public.py`) | `jobs` rows, RQ list, `response_cache`, `training_events` | submit, respond, replay by key, cancel, save, `process_job` | sessions, RQ, cache, providers | stale ORM objects, two executions of one job, failures after a commit, lost entries | terminal states are final, every accepted job settles, one job per key, a completed job has its result |
| Provider batches (`services/provider_batches.py`) | `provider_batch_runs` row, its jobs, poll chains, the provider's batch | create, submit task, poll task, cancel, GET | job rows, RQ scheduler, provider, training events | polls beside polls, cancel against submit, commit in the middle of a loop, counters | the run closes once and with all of its jobs; no answer is lost or invented |
| Provider connections and secrets (`services/providers.py`, `tenant_secrets.py`, settings pages) | `tenant_provider_configs`, secret files, the per-tenant OpenAI key | save, patch, form, delete, resolve, settings | jobs, batches, targets | two commits per save, files beside rows | one default per provider; a row's secret exists; a key is used only for its connection |
| Targets (`services/targets.py`) | `targets` rows | create, update, verify, delete | connections, providers | provider call between read and write | a verified target was probed as configured |
| Endpoints and versions (`services/versioning.py`, admin and web routers) | `endpoints`, `endpoint_versions`, personas, context blocks | create, promote, activate, delete | jobs, batches, targets | `max + 1`, activation after a first commit, use counts before a delete | numbers are dense; a version keeps its parts; a promotion runs what was compared |
| Users, tenants, sessions, portal links (admin, web and auth routers, `tenants.py`, `oidc.py`, `portal.py`) | `users`, `tenants`, `portal_links`, cookies | CRUD, sign-in by password, OIDC and local login, switch, review, revoke | every page | a check when the request arrives and a commit later; cookies overwritten by slow responses | a tenant keeps an owner; a commit is authorised by the tables |
| Public access: rate limits, API keys, SDK (`rate_limit.py`, `api_keys.py`, `sdk/client.py`, `public.py`) | Redis counters, in-process counters, `api_keys`, rows | attempts and retries, `enforce_limits`, keys | jobs, batches | overlapping attempts, lost answers, Redis down, end of a month | limits hold; one row per keyed request |
| LLM adapters (`llm.py`, route loop of `tasks.py`) | the route and the request of a job | routes, connections, removal of parameters | providers, jobs | refusals under other names, blocked answers | the answer kept is the last route's; every drop was refused; the job ends |
| Pricing, training exports, prompts, catalog, audit, page rendering, CLI, migrations | tables, YAML | rendering, sums | all | few | see section 5 and `PROJECT.json` |

Concurrency comes from the threads of the API server and from the worker
processes. Every request and every task has its own session, created with
`autoflush=False, expire_on_commit=False` (`core/db.py:11-13`). An object is
therefore a snapshot until `db.refresh`, a commit writes only the columns that
differ from the snapshot, and aggregates do not see the session's own pending
edits. Most hazards in `PROJECT.json` come from these three facts. RQ entries
are delivered at most once: nothing passes a `Retry`, so an exception, the job
timeout or the death of a worker consumes the entry.

## 2. Modules

| Module | Content |
|---|---|
| `JobContract` | what a polling client is promised about one job |
| `JobLifecycle` | the model of jobs: rows, RQ list, cache, events, processes |
| `JobImplementsContract` | refinement mapping from `JobLifecycle` to `JobContract` |
| `MCJobLifecycle` | TLC instances |
| `JobLifecycleProofs` | inductive invariant and theorems |
| `JobOneChannelProofs` | theorems about jobs that are run through one channel, the contract among them |
| `BatchContract` | what a polling client is promised about a batch |
| `ProviderBatch` | the model of one batch: run row, jobs, RQ entries, provider, processes |
| `BatchImplementsContract` | refinement mapping from `ProviderBatch` to `BatchContract` |
| `MCProviderBatch` | TLC instances |
| `ProviderBatchProofs` | inductive invariants and theorems, for any number of workers and for one |
| `Connections`, `MCConnections` | provider connections, secret files, resolution, the per-tenant key |
| `Deployments`, `MCDeployments` | targets, versions, personas and context blocks, the route a version runs |
| `Accounts`, `MCAccounts` | tenants, users, portal links, browser sessions, every sign-in |
| `PublicAccess`, `MCPublicAccess` | the SDK's attempts, API keys, limits, and the rows requests make |
| `ProviderCall`, `MCProviderCall` | the routes of a job and the requests on each |
| `ProviderCallProofs` | invariants of both loops and of the routes, and theorems |
| `ConnectionsProofs`, `DeploymentsProofs`, `AccountsProofs`, `PublicAccessProofs` | inductive invariants and theorems of each |

`PublicAccess` ends where a row is made; `JobLifecycle` and `ProviderBatch` begin
there. `ProviderCall` opens the calls of `JobLifecycle` (`CallAnswered`, `CallLost`,
`CallFails`, `DropParameter`, `NextRoute`). `Deployments` takes connections from `Connections` as
there or deleted.

### JobLifecycle

`row` is the `jobs` table reduced to `status`, `cancel_requested`, whether
`result_text` is set, and `idempotency_key`. `queue` is the RQ list, `cache` the
single `response_cache` entry the jobs of an instance share, `events` counts
`training_events`, `bought` counts the completions providers charged for, whether or
not their answer arrived, `replies` records which job each client was told. `proc` gives each worker and each API
thread its point of execution and its ORM object (`snap`).

A step is what happens between two interactions with shared state. The API
actions are `StartCreate`, `SubmitReplay`, `RespondReplay`, `RespondQueued`
(the lookup by key), `Insert` and `InsertConflict` (the INSERT and its
`IntegrityError`), `Enqueue`, `StartCancel`/`Dequeue`/`CancelRow`,
`SaveTraining`, and `Recover`/`RecoverRow` (the handler of a failing inline
call). `process_job` is `Load`, `Start`, `Refresh`, `Prepare`, `Lookup`, `Hit`,
`HitRefresh`, `Screen`, `CallAnswered`/`CallLost`/`CallFails`, `Write`, `Written`,
`Publish`, `AutoSave`, `MarkFailed`: one action per commit, refresh, request to the
provider or Redis call. A request is sent in three loops, one inside the other: the
client, built with `max_retries`, sends it again when it gets no answer (`Resend`,
`llm.py:338-339`), the request loop sends it without a refused parameter
(`DropParameter`), and the job tries the next route (`NextRoute`). A request that
times out may have been completed and charged all the same (`CallLost`), and so may one
whose process dies (`Crash`). `Escape` is an exception outside the `try` of lines
266-394, `Caught` one inside it, `Crash` the death of a process.

### ProviderBatch

`batch` is the run row (`status`, `cancel_requested`, whether
`provider_batch_id` is set, the three counters), `jobs` the status of its jobs,
`queue` the RQ entries (delayed ones included: a delay has no other effect),
`provider` the external batch with its output file, `made` the number of batches the
provider has made for the run, those included that nobody here knows of. A process keeps the loaded
and the edited version of the run and of the jobs; `Commit` counts the committed
rows and then flushes the changed columns. `Begin`, `Compose`,
`CreateAtProvider`, `Schedule` are the submit task, in which the client, built with
`max_retries=2`, repeats `batches.create` when it gets no answer (`CreateAgain`, counted
by the worker's `resent`, and `CreateAnswerLost` after the last retry;
`provider_batches.py:656-663`, `719`); `PollTooEarly`,
`PollWithoutId`, `PollTimeout`, `PollProvider`, `CancelAtProvider`, `Retrieve`,
`ApplyLine`, `Finish`, `Schedule` the poll task; `TaskFails` the `except`
handlers of both. A request without an answer, one that raises and one whose worker
dies may each have made a batch (`MayHaveCreated`). `ApplyLine` commits when the item is auto-saved, as
`auto_save_training_event` does. Two branches of the code are not modelled
because no state reaches them: `cancel_requested` on a queued run (a cancel never
leaves a run queued), and a missing endpoint version (the run references it with
`ON DELETE CASCADE`). `job.cancel_requested` is never set on a batch job, which
is never `running`.

### Connections

`row` is `tenant_provider_configs`, `file` the secret files by reference, `llm` the two
tenant columns of the older OpenAI key, `thread` what each request handler is doing with
the object it loaded. A save is `ApiSave`, `ApiPatch` or `WebSave` (the first read),
`Lookup`, `Insert`/`InsertConflict`, `ClearKey`/`PutKey`/`PutFails` (the file),
`CommitRow`, `Refresh` and `ClearOthers`; a deletion `RemoveFile`, `DeleteRow`, `Pick`,
`Promote`; a resolution `ResolveById`, `ResolveBySlug` or `ResolveLegacy`, then `ReadKey`
and `Call`, since the row is read before the file. `disturbed` and `mixed` record which
connections and groups an overlap or a fault touched.

### Deployments

One endpoint, its versions, and the deployments, personas and context blocks they name.
`ApiX` and `WebX` are the two routers' handlers of one operation, with their own checks.
A creation of a version is `ApiCreateVersion`, `ApiPrompt`, `WebCreateVersion` or
`Promote`, then `Number`, `InsertVersion`, `ReadBlocks`, `LinkBlocks`, `AutoActivate`;
a verification is the read, `ResolveTarget` and `Verdict`. `Route(v)` is the connection
and model a run of a version calls, `DraftRoute(f)` those of a draft run of the form.

### Accounts

A request copies the session of its browser when it arrives, is checked against the
tables then, commits in a later step and answers in a third, overwriting the cookie.
Handlers are `ApiX`/`WebX` with the step that commits (`InsertUser`, `SaveUser`,
`DropUser`, `InsertTenant`, `SaveTenant`, `DropTenant`, `InsertLink`, `SaveRevoked`, ...);
sign-ins are `LoginPassword`, `LoginLocal`, and `LoginStart`, `Callback`, `Exchange`,
`SignIn` for OIDC. `news` records the rows others wrote while a request was handled.

### PublicAccess

An attempt of a call goes through `Send` (key resolution), `Enforce`,
`EnforceFallback` or `EnforceUnavailable`, `Find`, `Insert`, `Begin`; the client may stop
waiting (`Raise`, `Unsent`) and send the next while the server goes on. `TimePasses` moves
to the next minute, or to the last second of a month, where the expiry of the quota counter
is zero seconds. `Restart` empties a process's own counters and runs the bootstrap of the
local key. `last_used_at` is left out, as nothing reads it, and so is the 120-second expiry
of a minute's counter, which is longer than the minute it counts.

### ProviderCall

`Start` computes the candidate routes of a version: the places of its two lists that are
taken (`Listed`, `Usable`, `Taken`), in one of the `Orders` the strategy allows, after the
primary route and up to the limit (`Candidates`);
`TryRoute` resolves credentials and builds the request, `Answer`, `Raise` and
`Refuse(name)` are what the provider does with it, `Exhausted` ends the job. Both request
loops, for the Responses and the Chat Completions API, are the same actions with other
parameters (`Sent`, `LeftOut`). The client's own repetitions of one request change
neither the request nor the route, and are in `JobLifecycle`.

## 3. Runs

Passing runs:

| Run | Instance | Shows |
|---|---|---|
| `jobs_all` | 2 jobs, 1 key, 1 worker, 2 handlers, all operations and faults, 3 requests | `TypeOK`, `StoresAgree`, `OneJobPerKey`, `QuietTerminalIsFinal` |
| `jobs_settle` | 1 job, 1 key, overlapping submits, inline runs and cancels, failures after the answer | `Settles` (liveness) |
| `jobs_async` | queue channel with crashes, refused enqueues, escaping exceptions, lost answers, 2 workers, 2 routes of 2 rounds with 2 retries | `BillIsBounded`, `TerminalIsFinal`, safety half of the contract |
| `batch_all` | 2 items, 2 workers, 1 handler, all operations, crashes, refused enqueues | `TypeOK`, `CompletedWasAnswered`, `QuietIsFinal` |
| `batch_single` | 2 items, 1 worker, polling client, a cancel, failing calls, lost answers, items saved halfway | `ClosedRunsEndTheirJobs`, `AnswersAreKept`, `SubmittedByOneTask`, `JobsAreFinal`, `RunEnds` (liveness) |
| `batch_contract` | 2 items, 1 worker, failing calls and downloads | `RunIsFinal`, the batch contract, liveness included |
| `connections` | 2 tenants, 3 connections of 2 providers, 2 handlers, all operations, refused file writes, dying handlers | `TypeOK`, `KeysStayHome`, `DefaultsAreRepaired`, `UndisturbedRowsMatchFiles`, `ReadyMeansResolvable` |
| `deployments` | 2 deployments, 3 versions, 2 connections and models, 2 handlers, 3 databases, dying handlers | `TypeOK`, `VersionsAreWhole`, `VerifiedMeansProbed`, `UnboundOnlyByRace`, `DraftRunsLikeTheVersion`, `PromotedRunsWhatWasCompared` |
| `accounts` | 3 tenants, 3 users, 2 links, 2 browsers, 2 handlers, 5 databases, restarts | `TypeOK`, `OwnersLeaveOnlyByRaceOrSignIn`, `WritesAreAuthorised` |
| `limits` | 2 keys, 2 calls of up to 2 attempts, 2 processes and Redis, faults of network, Redis, database, restarts | `TypeOK`, `LimitsHold`, `OneRowPerRequest` |
| `llm` | every shape of fallback list, limit, strategy and connection; every refusal | `TypeOK`, `FallbacksComeLast`, `ResultIsTheLastRoutes`, `DroppedWereRefused`, `JobEnds` (liveness) |

One run ends in a violation: `batch_counters`, the counters of a closed run are those
before its last commit; `PROJECT.json` quotes the test that expects others.

More configurations are kept beside these for whoever changes the code. Three pass:

- `JobLifecycle_contract.cfg`: unkeyed submits and inline responses without faults
  implement the whole job contract, liveness included.
- `JobLifecycle_bill.cfg`: `BillIsBounded` with cancels and every fault, two workers and
  two handlers on one job and one key.
- `ProviderBatch_submit.cfg`: `SubmittedByOneTask` with two workers, one item, crashes and
  lost answers together, and two retries.

Each of the others states one property the code violates:

| Configuration | Property | Behaviour |
|---|---|---|
| `JobLifecycle_cancel_race.cfg` | `TerminalIsFinal` | a canceled job starts running and completes (`jobs.py:130`, `tasks.py:154-160`); `docs/developer-guide.md:11`: "Poll by `job_id` until terminal" |
| `JobLifecycle_orphan.cfg` | `AnsweredSettles` | a refused enqueue leaves a queued job no retry revives (`public.py:139`); `docs/developer-guide.md:155-157` |
| `JobLifecycle_deferred_cancel.cfg` | `CancelIsHonoured` | a cancel accepted during the provider call is forgotten: `tasks.py:382` tests the object read before the call |
| `JobLifecycle_publish_failure.cfg` | `TerminalIsFinal` | a failing cache write or training event turns a completed job into a failed one (`tasks.py:388-396`) |
| `JobLifecycle_keyed_retry.cfg` | `BillIsBounded` | two inline requests with one key both execute the job and pay the provider (`public.py:186-188`, `214-230`) |
| `JobLifecycle_escape.cfg` | `AnsweredSettles` | an exception outside the `try` of `process_job` leaves a job running |
| `JobLifecycle_save.cfg` | `EventsOfCompleted` | feedback is stored for a job that has not completed (`public.py:397`) |
| `ProviderBatch_early_poll.cfg` | `ClosedRunsEndTheirJobs` | a poll between the commits of the submit task closes the run and abandons its jobs (`provider_batches.py:771`) |
| `ProviderBatch_timeout.cfg` | `ClosedRunsEndTheirJobs` | the commit inside the output loop (`provider_batches.py:569`) publishes the terminal status; an interruption then abandons the other jobs |
| `ProviderBatch_cancel_race.cfg` | `RunIsFinal` | a canceled run is reopened by the submit task |
| `ProviderBatch_cancel_job.cfg` | `JobsAreFinal` | a job canceled on its own is overwritten by the task |
| `ProviderBatch_unsubmitted.cfg` | `RunEnds` | a run whose submit task is missing is polled for ever |
| `Connections_settings.cfg` | `TenantModeHasKey` | the settings handler deletes the key file (`admin.py:552`) before it refuses the request: "Tenant mode requires a tenant OpenAI API key" (`admin.py:568`) |
| `Deployments_verify.cfg` | `VerifiedAsConfigured` | an update during a verification's provider call ends up verified (`targets.py:143`): "Any configuration change invalidates the previous verification state." (`targets.py:96`); so does the deletion of its connection |
| `Accounts_toplevel.cfg` | `OnlyOwnersMakeTopLevel` | an administrator's deletion of a tenant makes its sub-tenants top-level (`admin.py:1112`, `entities.py:71`): "Only owners can create top-level tenants" (`admin.py:251`) |
| `Accounts_logout.cfg` | `SignedOutIsOut` | a response slower than a logout writes the session back into the cookie |
| `PublicAccess_quota.cfg` | `QuotaPerMonth` | in the last second of a month the quota counter expires at once (`rate_limit.py:19`, `58`); `templates/api_keys.html:53`: "/month" |

### Bounds

Two jobs and one key give a new key, a conflict and an unrelated job; two
processes are enough for every overwritten column, since a lost update has one
stale reader and one writer, and two concurrent executions need no third.
`MaxRequests` and `MaxCancels` bound what clients ask; `Routes = 2` gives a first and a
last candidate route, `Rounds = 2` a request with a parameter and one without, and
`MaxRetries` of 1 or 2 (the code's default is 1) a first and a last retry; `jobs_async`
has two of each, since the bill is about their product, and the other runs of this module
one, since their properties do not depend on it. `bought` and `made` are bounded by what
processes may still send. In `ProviderBatch` `MaxRetries` is 1, a first and a last retry,
and 2, as in the code, in `ProviderBatch_submit.cfg`. Two items tell a partial result from a
full one, `MaxAttempts` of 1 or 2 distinguishes first, middle and last poll
(attempts above the limit behave like the limit, so `PollEntry` saturates
there), and `Chains` bounds the polls that clients have started and that have not
ended: the code limits them only through `next_poll_at`.

In the other modules two handlers give every pair of operations, each of which reads in
one step and commits in another, and two requests (`MaxRequests`) overlap in every way;
what a third would prepare is among the states the runs start from.
`Connections` has two connections of one provider, for the default flag, and one above
for inheritance. `Deployments` starts from an empty endpoint, a serving one and one with a
spare deployment, so that few requests reach what otherwise takes six; `Accounts` from
two owners, an administrator beside an owner, a tree of three (with `MaxDepth` 2, one
deeper than a lineage reaches), a sub-tenant without an owner in which two sessions of
the owner above are at work, and a portal review. In `PublicAccess` `MaxRetries` of 1
gives a first and a last attempt, `MaxEvents` of 2 lets two faults, delays or
deactivations meet, `MinutesPerMonth` and `MaxTick` give a minute, a last second and
the next month. In `ProviderCall` lists have up to four different routes, requests up to
four parameters, one of each kind the code treats differently; `max_route_attempts` is
absent or 2. Identifiers are used once, as UUIDs are. Symmetry is used only in runs
without liveness properties.

### Mutants

Every property of a passing run has a mutant, an operator defined before the code's
definition (`... Mutant of Take: ...`) that changes it as a plausible bug would; with
it in place TLC finds the property violated. `PROJECT.json` pairs them.

### Fairness

Workers pop and run what they popped; handlers finish the request they took
(provider calls have timeouts, RQ has a job timeout). The submit entry of a batch
gets strong fairness because the RQ list is first in, first out, while polls of a
queued run put themselves back for ever. `PolledSpec` adds a client that keeps
calling GET, as `wait_for_batch` does. In `ProviderCall` the worker goes on with the route
loop and the provider answers or the client times out (`WF` of the next step); since a
provider may refuse for ever, `JobEnds` rests on the loop, not on the provider. Nothing is
assumed of the provider, of other
client operations or of cache expiry.

## 4. Proofs

`tlapm` checks every proof from nothing; the only assumptions are the named
`ASSUME`s of the models, which TLC evaluates in every run. Theorems hold for every value
of the constants that meets them: any sets of rows, users, workers and handlers, any
subset of the operations and of the faults, any bound. Every property of a passing run is
stated by a theorem, but for the liveness properties; hypotheses beyond the assumptions
are in the statement, and named below. TLC checks the inductive invariants too, all but
`LoopInv` (which quantifies over all sets), on the instances of the runs: with a module
that extends the MC module and the proof module, and the invariant in its configuration.

### JobLifecycleProofs

- `Inductive`: `Spec => []IInv`;
- `TypeCorrect`, `CompletedCarriesResult`, `KeyNamesOneJob`,
  `EntriesAreCommitted`, `CacheNamesAnswers`, and their conjunction with the first,
  `StoresAlwaysAgree`: the invariants of `jobs_all`;
- `SettledJobsStay`: `Spec => QuietTerminalIsFinal`. Nothing takes up a job that is
  terminal and nobody's: RQ has no entry for it and no process has it, and every way to
  it (replay, cancel, late retry) reads the terminal status before it acts;
- `BillStaysBounded`: `Spec => []BillIsBounded`, if inline responses carry no
  idempotency key (`OneExecution`), with cancels and every fault.

None of them is inductive alone, because a commit writes what a session believed
earlier: `CompletedHasResult` fails if an object could claim a result its row never
had. `IInv` adds

- `ProcOK`, for every process: past the lookup it has a committed job; a result
  seen in its object is still in the table; it publishes only an answered job; and
  the key it will answer with is the key of its job;
- `RowsOK`: a result belongs to a committed row, a completed row has its result,
  a key has one row;
- `RedisOK`, `RepliesOK`: RQ entries and replies name committed rows, the cache
  entry names an answered one.

A step either leaves the table alone or commits one object, and the table only
evolves along `RowsKept`: a committed row stays, with its key, and a result is
never taken back. Whatever `ProcOK` says of a process that does not move is stable
under `RowsKept` (`OthersStayOK`, `MoveOne`, `StoresStayOK`), so each action owes
the facts about its own row and its own process. `FlushEffect` states once what the
column-wise commit of a stale object does to a row.

The bill of a job is bounded by what one execution may spend: `Routes` times `PerRoute`,
where a route has `Rounds` rounds, each of which may lose `MaxRetries` answers before a
refusal ends it, and the last of which may also lose or get one answer more. This needs
that a job is executed once, and nothing in `process_job` says so, since a stale status may
be committed over a newer one. `BillInv` says that the right to execute a job is one entry
of the queue or one process, that nothing is charged before it is used, and that the bill
is within what the process has spent (`Charge` of its route, round and retry);
`OneRightToExecute` is its theorem. It rests on repeated submits never enqueuing a job
again, which the mutant of `SubmitReplay` does.

### JobOneChannelProofs

What polling clients rely on holds as long as a job is run through one channel. `OneChannel`
says so of an instance: clients submit, ask for inline responses and save training data,
nobody cancels, and inline responses carry no idempotency key. Under it

- `OneOwner`: `Spec => []OwnInv`. A job that is not settled belongs to one process or to
  one RQ entry, and the owner's object agrees with the row. A commit then writes what the
  row has become through the owner alone;
- `TerminalStays`: `Spec => TerminalIsFinal`, if no exception strikes inside the `try`;
- `ContractImplemented`: `Spec => ImplementsContractSafety`, the refinement of `JobContract`:
  every step is one of `Turns`, `Pays` or `GivesUp`, which are steps of the contract, or
  invisible to a client. The contract bounds the bill as `BillIsBounded` does, which here
  follows from `OneRightToExecute`. The theorem needs besides that no escaping exception
  hits an inline response, since its handler may then fail a job that is still `queued`,
  and in the contract a job begins before it settles.

Every hypothesis is needed: outside them `cancel_race`, `deferred_cancel`,
`publish_failure` and `escape` (section 3) show what happens. The theorems
say that nothing else has to be excluded, crashes and refused enqueues in particular.

### ProviderBatchProofs

- `Inductive`: `Spec => []IInv`;
- `TypeCorrect`;
- `AnsweredOnly`: `Spec => []CompletedWasAnswered`;
- `ProviderBatchIsKept`: `Spec => SubmittedByOneTask`, `QuietRunIsFinal`: `Spec =>
  QuietIsFinal`, action properties.

The provider may make several batches of a run, since the client repeats
`batches.create` when its answer is lost. What the code gives is `SubmittedByOneTask`:
they all come from one execution of the submit task, so there are at most
`1 + MaxRetries`, and none is made once the run has its batch.

A commit may write a status a session decided on long ago, so `IInv` says of every
session, not only of the rows, that what it holds as completed has an answer. This
is stable only if the batch a run polls is never replaced, that is, if one task
submits. Nothing in the code records that a submission is under way except a
status that polls and cancels overwrite; what makes it true is that RQ delivers the
submit entry once. `TokensOK` states it: the right to submit is in one place, with
the handler that has committed the run and not yet enqueued, in the RQ list, or
with the task that has not yet been answered by the provider (`Holder`). An answered
`batches.create` consumes it, and afterwards the provider only goes on
(`ProviderKeeps`, `ProcOKKept`). `MadeOK` and `RetryOK` tie the batches made to it: none
before the task begins, and no more than the requests that got no answer while it is at
the call. The mutant that redelivers the entry breaks
`SubmittedByOneTask`, so at-most-once delivery is a real premise.

The properties about closing fail with two RQ workers (`ProviderBatch_early_poll.cfg`). For
one worker (`OneWorker`), `OneWorkerInductive` has a second invariant, `OneInv`:

- `SessionOK`, `WorkerOK`, `HandlerOK`: an open session is not ahead of the rows; it only
  ends queued jobs; unless a cancel has been asked for, the worker knows the status of the
  run, and without cancels of single items those of the jobs;
- `RowsOK`: which statuses the rows and the provider's batch have together;
- `CoverOK`: a closed run has its jobs ended or a session that is about to end them
  (`Closer`), and an open run without a provider batch id has them ended or a submit task
  at work (`Submitter`).

From it:

- `ClosedRunsEnded`: `Spec => []ClosedRunsEndTheirJobs`, if no task is cut short (`NotCut`);
- `AnswersStay`: `Spec => []AnswersAreKept`, if terminal polls read the whole output
  (`AllRead`);
- `ClosedRunsStay`: `Spec => RunIsFinal`, if nobody cancels the run;
- `EndedJobsStay`: `Spec => JobsAreFinal`, if nobody cancels single items;
- `KeepsTheContract`: `Spec => Contract!ContractSafety`, the safety half of
  `BatchContract`, without cancels, training saves and cut tasks.

Again the configurations `early_poll`, `timeout`, `cancel_race` and `cancel_job` violate
them outside the hypotheses. `docker-compose.yml` starts one worker, and nothing keeps it
from being scaled. What the theorems rule out are other causes.

### ConnectionsProofs

- `TypeCorrect`, from `TypeInv`, which also says what each point of a handler knows of its
  connection and tenant;
- `KeysAlwaysStayHome`: `Spec => []KeysStayHome`. A file's key is the file's own
  (`FilesOwned`), and the key in a call's hands is that of its connection or of a tenant
  its lookup visits (`GotOK`). The references of two rows never share a file, whatever
  overlaps;
- `SecondDefaultsAreRepaired`: `Spec => []DefaultsAreRepaired`. `DefaultInv` names the
  handler that repairs: two defaults of a group have a save of one of the two still before
  its `ClearOthers`, or a promotion or an abandoned save has touched the group;
- `UndisturbedRowsAlwaysMatch`: `Spec => []UndisturbedRowsMatchFiles`. Row and file are
  written in different steps, so the invariant speaks of the handler in between:
  `MatchInv` says what it knows of both, for a connection that has one handler;
- `ReadyIsResolvable`: `Spec => []ReadyMeansResolvable`, a comparison of two definitions
  (the pages' test and the resolution) on every well-typed state.

### DeploymentsProofs

- `TypeCorrect`, from `TypeInv`;
- `VersionsAlwaysWhole`: `Spec => []VersionsAreWhole`, from `ServeInv` (an answered version
  and one still being activated are live as long as the endpoint is, and an endpoint that
  has answered serves one) and `BlockInv` (between its commit and its links one handler has
  a version, and knows the blocks it was asked for);
- `UnboundOnlyWhenLate`: `Spec => []UnboundOnlyByRace`, from `RaceInv`: a deletion that has
  counted no users is told of the versions committed since;
- `DraftsRunAlike`: `Spec => []DraftRunsLikeTheVersion`, from the pins of `RaceInv`;
- `VerifiedAlwaysProbed`: `Spec => []VerifiedMeansProbed`, inductive with `TypeInv`;
- `PromotedAsCompared`: `Spec => PromotedRunsWhatWasCompared`, from `PromoteInv`, which
  follows the deployment a promotion has picked through verification, numbering, insertion
  and links.

`VersionSteps` sorts all steps by what they do to versions once, so that each invariant
treats a handful of cases. `StartsAssumption` asks of the database at the start what these
invariants ask of every state.

### AccountsProofs

- `Inductive`: `Spec => []IInv`;
- `TypeCorrect`;
- `CommitsAreAuthorised`: `Spec => WritesAreAuthorised`;
- `OwnersStay`: `Spec => OwnersLeaveOnlyByRaceOrSignIn`.

A request is checked when it arrives and commits in a later step, so what has to be
invariant is about the time in between. `InOrder` says of every request in hand: its
session names rows that are or were there (`RequestOK`); what authorised it still does, or
one of the rows it rested on is in its `news` (`StillAuthorised`); and if it may take an
owner from its tenant, there is another owner, or none in the user it names, or its news
has the user that made the difference (`StillCounted`). Others' steps preserve it because
rows written are told (`Follows`) and because the tenant of a user and the tenant of a
link are never rewritten (`RowsKept`): `OthersStay`.

The proof corrected the property. A tenant can also lose its last owner to a request that
counted its user out as *not* an owner: one session of an administrator above makes a user
the only owner of a sub-tenant, while another, which found the user to be none, demotes or
deletes it. The property now names this case (`thread[p].ask.user`), and the run has the
database in which it happens.

### PublicAccessProofs

- `TypeCorrect`, from `TypeInv`, with how far a call has got with its attempts;
- `OneRowForARequest`: `Spec => []OneRowPerRequest`. `RowInv` follows a row from the insert
  to the answer: the unique index keeps two rows of one key, endpoint and Idempotency-Key
  apart, and a call without a key has one attempt, which has made no row before it inserts;
- `LimitsAlwaysHold`: `Spec => []LimitsHold`. `LimitInv` equates each store's counters with
  the number of requests it has counted in the minute and in the month; `JudgedInv` ties
  the verdicts to attempts past the limits, so that none is counted twice.

The bound of `Insert`, a free identifier, is the only place where the model stops short of
the code.

### ProviderCallProofs

- `TheAnswerIsTheLastRoutes`: `Spec => []ResultIsTheLastRoutes`, from `LoopInv`: between
  two routes every attempted route has its error, and a text in hand is a blocked one;
- `WhatIsDroppedWasRefused`: `Spec => []DroppedWereRefused`, from `RequestInv`: the
  parameters still sent and the list of dropped ones partition those the version asks
  for, and the loop has one round for each parameter still sent and one to give up.
  A refusal recorded when a parameter was dropped still explains it in the smaller
  requests that follow (`NormalizedIsSent`), which rests on `SubparameterAssumption`.

- `FallbacksAreInOrder`: `Spec => []FallbacksComeLast`, from `RouteInv`: what was tried is
  the beginning of the candidates, which are the primary route and then different
  fallbacks that the version lists, as many as its limit allows (`CandidatesAreAllowed`);
- `TypeCorrect`.

`Taken` names a fallback by the first place that lists it, and an order is an enumeration of
these places, so that different places hold different routes (`TakenPlaces`): this is what
the code's `seen` set achieves in a loop, and needs no induction over the lists.

### Model-checked only

Liveness: `Settles`, `RunEnds`, `JobEnds` and the liveness halves of both contracts need
fairness and `ENABLED`, which are out of the prover's reach. Where a theorem has hypotheses
(`OneChannel`, `OneWorker`, `NotCut`, `AllRead`), the instance of its run meets them, and
the general case is refuted by a configuration of section 3. The configurations that
violate a property are counterexamples on an instance, which prove nothing more.

## 5. Not modelled

- **HTTP, parsing, templates, migrations, CLI, catalog files**: no state of their
  own that another process changes.
- **Provider SDKs and HTTP to providers**: external; a call answers, fails or loses
  its answer.
- **Prompt text, tokens, prices, query parameters**: data the properties do not tell
  apart, computed by functions without state (`prompt_studio.py`, `pricing.py`,
  `token_advisor.py`, `usage_costs.py`, `model_params.py`).
- **Time**: `next_poll_at`, delays, TTLs and timeouts are events that may happen at
  any moment, but for the minutes and months of `PublicAccess`. A model with clocks would
  exclude interleavings that a slow worker makes possible anyway.
- **Deletion of endpoints, targets and tenants under running jobs**: the deletions are in
  `Deployments` and `Accounts`, without the jobs.
- **Depth of the tenant tree**: a lineage stops at `tenant_hierarchy_max_depth` while
  `list_accessible_tenants` does not (`tenants.py:23`); `Accounts` has a tree one deeper
  than the limit, and states nothing about the list.

`PROJECT.json` lists every component with its status and every hazard with the
properties that cover it or the reason none does yet.

## 6. Plan

Done: every component of the table in section 1 but the last row is modelled and checked,
and every safety property of a run is proved.

Next:

1. Proofs under weaker hypotheses: how much of `OneInv` survives a second worker that
   only polls.
2. Properties for the hazards of `PROJECT.json` that have none; today configurations of
   section 3 show most of them.
3. Prices and usage summaries against reference definitions, and the composition of
   `Deployments` with `JobLifecycle` for deletions under running jobs.
