---------------------------- MODULE ProviderBatch ----------------------------
(***************************************************************************)
(* A provider-native batch: one provider_batch_runs row, the jobs of its   *)
(* items, the RQ tasks that submit and poll it, the API calls that read and*)
(* cancel it, and the provider's own batch object.                         *)
(*                                                                         *)
(* A session edits objects it loaded earlier and writes, at its commit,    *)
(* the columns it changed (core/db.py: autoflush=False,                    *)
(* expire_on_commit=False).  A process therefore keeps, for the run and for*)
(* the jobs, what it loaded (run0, jobs0) and what it made of it (run,     *)
(* jobs).  refresh_provider_batch_counts counts the committed rows, without*)
(* the session's own edits.                                                *)
(***************************************************************************)
EXTENDS Naturals, FiniteSets

CONSTANTS
    Jobs,         \* jobs of the batch, one per item
    Workers,      \* RQ worker processes
    Handlers,     \* threads of the API server
    MainChain,    \* the polls the submit task starts, each scheduling the next
    Chains,       \* bound: the chains of polls started by GET and by cancel
    MaxAttempts,  \* provider_batch_max_poll_attempts
    MaxRetries,   \* max_retries of the provider client
    AutoSave,     \* save_default of the items
    Ops,          \* client operations of this instance
    Faults,       \* faults that may happen in this instance
    MaxCancels    \* bound: cancels of the batch and of its jobs

ASSUME BatchJobsAssumption == IsFiniteSet(Jobs) /\ Jobs # {}
ASSUME BatchProcsAssumption == Workers \cap Handlers = {}
ASSUME ChainsAssumption == MainChain \notin Chains
ASSUME AttemptsAssumption == MaxAttempts \in Nat \ {0} /\ MaxRetries \in Nat
ASSUME BatchFlagsAssumption == AutoSave \in BOOLEAN /\ MaxCancels \in Nat
ASSUME BatchOpsAssumption == Ops \subseteq {"get", "cancel", "cancelJob"}
ASSUME BatchFaultsAssumption == Faults \subseteq {"exception", "timeout", "download", "lost", "enqueue", "crash"}

VARIABLES
    batch,     \* the provider_batch_runs row
    jobs,      \* status column of the jobs
    queue,     \* RQ entries, scheduled ones included (enqueue_in has no other effect)
    provider,  \* the provider's batch object whose id the submit task was given (external)
    made,      \* number of batch objects the provider has made for the run
    proc,      \* what each worker and each handler is doing
    cancels    \* cancels requested so far (bounded by MaxCancels)

vars == <<batch, jobs, queue, provider, made, proc, cancels>>

Procs == Workers \cup Handlers

-----------------------------------------------------------------------------
(* Rows, entries and objects.                                              *)

JobEnds == {"completed", "failed", "canceled"}
TERMINAL_BATCH_STATUSES == {"completed", "failed", "canceled"}
OpenStatuses == {"queued", "submitting", "submitted", "processing", "finalizing", "canceling"}

Counters == [JobEnds -> 0..Cardinality(Jobs)]

Run == [status: {"absent"} \cup OpenStatuses \cup TERMINAL_BATCH_STATUSES,
        cancelRequested: BOOLEAN,
        providerId: BOOLEAN,               \* provider_batch_id is not NULL
        counts: Counters]                  \* completed_jobs, failed_jobs, canceled_jobs

NoRun == [status |-> "absent", cancelRequested |-> FALSE, providerId |-> FALSE,
          counts |-> [s \in JobEnds |-> 0]]

JobTable == [Jobs -> {"queued"} \cup JobEnds]
AllQueued == [j \in Jobs |-> "queued"]

Entry == [task: {"submit", "poll"}, chain: Chains \cup {MainChain}, attempt: 0..MaxAttempts]

SubmitEntry == [task |-> "submit", chain |-> MainChain, attempt |-> 0]

\* Attempts above the limit behave like the limit.
PollEntry(c, attempt) ==
    [task |-> "poll", chain |-> c, attempt |-> IF attempt < MaxAttempts THEN attempt ELSE MaxAttempts]

ProviderEnds == {"completed", "expired", "cancelled", "failed"}

\* Mutant of StatusFromProvider: the provider's spelling is kept.
StatusFromProviderVerbatim ==
    [s \in {"validating", "in_progress", "cancelling"} \cup ProviderEnds |->
        CASE s = "in_progress" -> "processing"
          [] s \in {"completed", "cancelled"} -> s
          [] s \in {"failed", "expired"} -> "failed"
          [] s = "cancelling"  -> "canceling"
          [] OTHER             -> "submitted"]

\* _batch_status_from_provider; anything unknown is "submitted".
StatusFromProvider ==
    [s \in {"validating", "in_progress", "cancelling"} \cup ProviderEnds |->
        CASE s = "in_progress" -> "processing"
          [] s = "completed"   -> "completed"
          [] s \in {"failed", "expired"} -> "failed"
          [] s = "cancelling"  -> "canceling"
          [] s = "cancelled"   -> "canceled"
          [] OTHER             -> "submitted"]

\* state: what batches.retrieve reports; lines: the output file, by custom_id.
ProviderBatch == [state: {"none"} \cup DOMAIN StatusFromProvider,
                  items: SUBSET Jobs,
                  lines: [Jobs -> {"none", "ok", "bad"}]]

NoLines == [j \in Jobs |-> "none"]

Points == {"idle", "enqueue", "loaded", "compose", "create", "cancelProvider", "retrieve",
           "apply", "commit", "schedule", "cancel", "enqueuePoll", "cancelRow"}

Process == [at: Points, entry: Entry, next: {"idle", "schedule", "enqueuePoll"},
            run0: Run, run: Run, jobs0: JobTable, jobs: JobTable, listed: BOOLEAN,
            resent: Nat]                       \* retries of batches.create so far

Idle == [at |-> "idle", entry |-> SubmitEntry, next |-> "idle", run0 |-> NoRun, run |-> NoRun,
         jobs0 |-> AllQueued, jobs |-> AllQueued, listed |-> FALSE, resent |-> 0]

TypeOK ==
    /\ batch \in Run
    /\ jobs \in JobTable
    /\ queue \subseteq Entry
    /\ provider \in ProviderBatch
    /\ made \in Nat
    /\ proc \in [Procs -> Process]
    /\ cancels \in 0..MaxCancels

Init ==
    /\ batch = NoRun
    /\ jobs = AllQueued
    /\ queue = {}
    /\ provider = [state |-> "none", items |-> {}, lines |-> NoLines]
    /\ made = 0
    /\ proc = [p \in Procs |-> Idle]
    /\ cancels = 0

-----------------------------------------------------------------------------
(* Sessions.                                                               *)

Column(new, old, stored) == IF new # old THEN new ELSE stored

FlushRun(new, old, stored) ==
    [status          |-> Column(new.status, old.status, stored.status),
     cancelRequested |-> Column(new.cancelRequested, old.cancelRequested, stored.cancelRequested),
     providerId      |-> Column(new.providerId, old.providerId, stored.providerId),
     counts          |-> [s \in JobEnds |-> Column(new.counts[s], old.counts[s], stored.counts[s])]]

FlushJobs(new, old, stored) == [j \in Jobs |-> Column(new[j], old[j], stored[j])]

\* _compute_batch_counters
Tally(table) == [s \in JobEnds |-> Cardinality({j \in Jobs : table[j] = s})]

\* refresh_provider_batch_counts on the object of process state x.
CountersSeen(x) == Tally(jobs)

\* list_jobs_for_provider_batch in process state x: the identity map answers with
\* the objects the session already has.
List(x) == IF x.listed THEN x ELSE [x EXCEPT !.jobs0 = jobs, !.jobs = jobs, !.listed = TRUE]

\* Mutant of EndQueued: jobs that have ended are ended again.
EndQueuedAll(table, end) == [j \in Jobs |-> end]

\* Every job the session sees as queued gets the status "end".
EndQueued(table, end) == [j \in Jobs |-> IF table[j] = "queued" THEN end ELSE table[j]]

\* The run is closed with "status", its queued jobs with "end", and x commits.
Closing(x, status, end) ==
    LET y == List(x)
    IN  [y EXCEPT !.at = "commit", !.next = "idle", !.run.status = status, !.jobs = EndQueued(@, end),
                  !.resent = 0]

Become(p, x) == proc' = [proc EXCEPT ![p] = x]

\* Counters, then the commit; x goes on at its "next" point.
Commit(p) ==
    LET x == proc[p]
        new == [x.run EXCEPT !.counts = CountersSeen(x)]
    IN  /\ x.at = "commit"
        /\ batch' = FlushRun(new, x.run0, batch)
        /\ jobs' = FlushJobs(x.jobs, x.jobs0, jobs)
        /\ IF x.next = "idle"
           THEN Become(p, Idle)
           ELSE Become(p, [x EXCEPT !.at = x.next, !.run0 = new, !.run = new, !.jobs0 = x.jobs])
        /\ UNCHANGED <<queue, provider, made, cancels>>

-----------------------------------------------------------------------------
(* The public API.                                                         *)

\* submit_batch: create_provider_batch_run commits the run with its jobs ...
Create(h) ==
    /\ proc[h].at = "idle"
    /\ batch.status = "absent"
    /\ batch' = [NoRun EXCEPT !.status = "queued"]
    /\ Become(h, [Idle EXCEPT !.at = "enqueue"])
    /\ UNCHANGED <<jobs, queue, provider, made, cancels>>

\* ... and the submit task is enqueued.
Enqueue(h) ==
    /\ proc[h].at = "enqueue"
    /\ queue' = queue \cup {SubmitEntry}
    /\ Become(h, Idle)
    /\ UNCHANGED <<batch, jobs, provider, made, cancels>>

EnqueueFails(h) ==
    /\ "enqueue" \in Faults
    /\ proc[h].at = "enqueue"
    /\ Become(h, Idle)
    /\ UNCHANGED <<batch, jobs, queue, provider, made, cancels>>

FreeChains ==
    {c \in Chains : /\ \A e \in queue : e.chain # c
                    /\ \A w \in Workers : proc[w].at # "idle" => proc[w].entry.chain # c}

Open == batch.status \in OpenStatuses

\* get_batch: _queue_batch_poll_if_due starts a poll of an open run that is due.
\* next_poll_at lets a GET through at any time the interval has passed.
Get ==
    /\ "get" \in Ops
    /\ Open
    /\ \E c \in FreeChains : queue' = queue \cup {PollEntry(c, 0)}
    /\ UNCHANGED <<batch, jobs, provider, made, proc, cancels>>

\* cancel_batch reads the run; a terminal one is returned unchanged.
StartCancel(h) ==
    /\ "cancel" \in Ops
    /\ proc[h].at = "idle"
    /\ Open
    /\ cancels < MaxCancels
    /\ cancels' = cancels + 1
    /\ Become(h, [Idle EXCEPT !.at = "cancel", !.run0 = batch, !.run = batch])
    /\ UNCHANGED <<batch, jobs, queue, provider, made>>

\* request_cancel_provider_batch_run: a queued run is closed at once, any other is
\* flagged and left to the polls.
CancelRun(h) ==
    LET x == [proc[h] EXCEPT !.run.cancelRequested = TRUE]
    IN  /\ x.at = "cancel"
        /\ Become(h, IF x.run.status = "queued"
                     THEN Closing(x, "canceled", "canceled")
                     ELSE [x EXCEPT !.at = "commit", !.next = "enqueuePoll", !.run.status = "canceling"])
        /\ UNCHANGED <<batch, jobs, queue, provider, made, cancels>>

\* cancel_batch after db.refresh(run): a poll is queued for an open run the provider
\* knows.  Bound: it waits for a free chain.
EnqueuePoll(h) ==
    /\ proc[h].at = "enqueuePoll"
    /\ IF batch.providerId /\ Open
       THEN \E c \in FreeChains : queue' = queue \cup {PollEntry(c, 0)}
       ELSE UNCHANGED queue
    /\ Become(h, Idle)
    /\ UNCHANGED <<batch, jobs, provider, made, cancels>>

\* cancel_public_job on a job of the batch, which is never "running": a queued one
\* is read ...
StartCancelJob(h, j) ==
    /\ "cancelJob" \in Ops
    /\ proc[h].at = "idle"
    /\ batch.status # "absent"
    /\ jobs[j] = "queued"
    /\ cancels < MaxCancels
    /\ cancels' = cancels + 1
    /\ Become(h, [Idle EXCEPT !.at = "cancelRow", !.jobs = [AllQueued EXCEPT ![j] = "canceled"]])
    /\ UNCHANGED <<batch, jobs, queue, provider, made>>

\* ... and canceled by its own commit.
CancelJobRow(h) ==
    /\ proc[h].at = "cancelRow"
    /\ jobs' = FlushJobs(proc[h].jobs, proc[h].jobs0, jobs)
    /\ Become(h, Idle)
    /\ UNCHANGED <<batch, queue, provider, made, cancels>>

-----------------------------------------------------------------------------
(* submit_provider_batch_run_task and poll_provider_batch_run_task.        *)

\* Mutant of Take: a terminal run is processed like any other.
TakeAny(w, e) ==
    /\ proc[w].at = "idle"
    /\ e \in queue
    /\ queue' = queue \ {e}
    /\ Become(w, [Idle EXCEPT !.at = "loaded", !.entry = e, !.run0 = batch, !.run = batch])
    /\ UNCHANGED <<batch, jobs, provider, made, cancels>>

\* Mutant of Take: the entry is delivered again until the run is closed.
TakeRedelivered(w, e) ==
    /\ proc[w].at = "idle"
    /\ e \in queue
    /\ IF Open
       THEN /\ UNCHANGED queue
            /\ Become(w, [Idle EXCEPT !.at = "loaded", !.entry = e, !.run0 = batch, !.run = batch])
       ELSE /\ queue' = queue \ {e}
            /\ UNCHANGED proc
    /\ UNCHANGED <<batch, jobs, provider, made, cancels>>

\* A worker pops entry e and loads the run; a terminal one is left alone.
Take(w, e) ==
    /\ proc[w].at = "idle"
    /\ e \in queue
    /\ queue' = queue \ {e}
    /\ IF Open
       THEN Become(w, [Idle EXCEPT !.at = "loaded", !.entry = e, !.run0 = batch, !.run = batch])
       ELSE UNCHANGED proc
    /\ UNCHANGED <<batch, jobs, provider, made, cancels>>

Doing(w, task, point) == proc[w].at = point /\ proc[w].entry.task = task

\* The submit task marks the run.  (The branch for a queued run with
\* cancel_requested is dead: a cancel never leaves a run queued.)
Begin(w) ==
    LET x == proc[w]
        new == [x.run EXCEPT !.status = "submitting"]
    IN  /\ Doing(w, "submit", "loaded")
        /\ batch' = FlushRun(new, x.run0, batch)
        /\ Become(w, [x EXCEPT !.at = "compose", !.run0 = new, !.run = new])
        /\ UNCHANGED <<jobs, queue, provider, made, cancels>>

\* The queued jobs are listed and their bodies prepared; some may be invalid.
Compose(w) ==
    LET x == List(proc[w])
    IN  /\ Doing(w, "submit", "compose")
        /\ \E invalid \in SUBSET {j \in Jobs : x.jobs[j] = "queued"} :
              LET y == [x EXCEPT !.jobs = [j \in Jobs |-> IF j \in invalid THEN "failed" ELSE @[j]]]
              IN  Become(w, IF \E j \in Jobs : y.jobs[j] = "queued"
                            THEN [y EXCEPT !.at = "create"]
                            ELSE [y EXCEPT !.at = "commit", !.run.status = "failed"])
        /\ UNCHANGED <<batch, jobs, queue, provider, made, cancels>>

\* files.create and batches.create succeed; the first poll follows the commit.  (The
\* files that retries of files.create leave behind are not modelled.)
CreateAtProvider(w) ==
    LET x == proc[w]
    IN  /\ x.at = "create"
        /\ provider' = [state |-> "validating", items |-> {j \in Jobs : x.jobs[j] = "queued"}, lines |-> NoLines]
        /\ made' = made + 1
        /\ Become(w, [x EXCEPT !.at = "commit", !.next = "schedule", !.run.providerId = TRUE,
                               !.run.status = StatusFromProvider["validating"], !.resent = 0])
        /\ UNCHANGED <<batch, jobs, queue, cancels>>

\* A poll of a run without a provider id: rescheduled while the run is queued ...
PollTooEarly(w) ==
    LET x == proc[w]
    IN  /\ Doing(w, "poll", "loaded")
        /\ ~x.run.providerId
        /\ x.run.status = "queued"
        /\ queue' = queue \cup {PollEntry(x.entry.chain, x.entry.attempt + 1)}
        /\ Become(w, Idle)
        /\ UNCHANGED <<batch, jobs, provider, made, cancels>>

\* ... and otherwise the end of the run, not of its jobs.
PollWithoutId(w) ==
    LET x == proc[w]
    IN  /\ Doing(w, "poll", "loaded")
        /\ ~x.run.providerId
        /\ x.run.status # "queued"
        /\ Become(w, [x EXCEPT !.at = "commit", !.next = "idle", !.run.status = "failed"])
        /\ UNCHANGED <<batch, jobs, queue, provider, made, cancels>>

\* Mutant of PollTimeout: the jobs of the run are forgotten.
PollTimeoutKeepJobs(w) ==
    /\ Doing(w, "poll", "loaded")
    /\ proc[w].run.providerId
    /\ proc[w].entry.attempt >= MaxAttempts
    /\ Become(w, [proc[w] EXCEPT !.at = "commit", !.next = "idle", !.run.status = "failed"])
    /\ UNCHANGED <<batch, jobs, queue, provider, made, cancels>>

\* The last attempt of a chain ends the run and its jobs.
PollTimeout(w) ==
    LET x == proc[w]
    IN  /\ Doing(w, "poll", "loaded")
        /\ x.run.providerId
        /\ x.entry.attempt >= MaxAttempts
        /\ Become(w, Closing(x, "failed", "failed"))
        /\ UNCHANGED <<batch, jobs, queue, provider, made, cancels>>

\* Credentials are resolved and the client built.
PollProvider(w) ==
    LET x == proc[w]
    IN  /\ Doing(w, "poll", "loaded")
        /\ x.run.providerId
        /\ x.entry.attempt < MaxAttempts
        /\ Become(w, [x EXCEPT !.at = IF x.run.cancelRequested THEN "cancelProvider" ELSE "retrieve"])
        /\ UNCHANGED <<batch, jobs, queue, provider, made, cancels>>

\* client.batches.cancel, best effort.
CancelAtProvider(w) ==
    /\ proc[w].at = "cancelProvider"
    /\ \/ /\ provider.state \in {"validating", "in_progress"}
          /\ provider' = [provider EXCEPT !.state = "cancelling"]
       \/ UNCHANGED provider
    /\ Become(w, [proc[w] EXCEPT !.at = "retrieve"])
    /\ UNCHANGED <<batch, jobs, queue, made, cancels>>

\* batches.retrieve, the status it maps to, and the list of the jobs.
Retrieve(w) ==
    /\ proc[w].at = "retrieve"
    /\ Become(w, [List(proc[w]) EXCEPT !.at = "apply", !.run.status = StatusFromProvider[provider.state]])
    /\ UNCHANGED <<batch, jobs, queue, provider, made, cancels>>

\* Lines of the output file that still change a job of the session.
Unread(x) ==
    IF x.run.status \in TERMINAL_BATCH_STATUSES
    THEN {j \in Jobs : provider.lines[j] # "none" /\ x.jobs[j] = "queued"}
    ELSE {}

\* Mutant of LineOutcome: an error line is taken for an answer.
LineOutcomeOptimistic(line) == "completed"

LineOutcome(line) == IF line = "ok" THEN "completed" ELSE "failed"

\* _apply_batch_output_line; auto_save_training_event commits the session, the
\* run's new status included.
ApplyLine(w, j) ==
    LET x == proc[w]
        y == [x EXCEPT !.jobs[j] = LineOutcome(provider.lines[j])]
        saves == AutoSave /\ y.jobs[j] = "completed"
    IN  /\ x.at = "apply"
        /\ j \in Unread(x)
        /\ IF saves
           THEN /\ batch' = FlushRun(x.run, x.run0, batch)
                /\ jobs' = FlushJobs(y.jobs, x.jobs0, jobs)
                /\ Become(w, [y EXCEPT !.run0 = x.run, !.jobs0 = y.jobs])
           ELSE /\ Become(w, y)
                /\ UNCHANGED <<batch, jobs>>
        /\ UNCHANGED <<queue, provider, made, cancels>>

\* Mutant of Finish: jobs without a line stay queued.
FinishNoSweep(w) ==
    LET x == proc[w]
        ended == x.run.status \in TERMINAL_BATCH_STATUSES
    IN  /\ x.at = "apply"
        /\ Unread(x) = {} \/ Faults \cap {"download", "timeout"} # {}
        /\ Become(w, [x EXCEPT !.at = "commit", !.next = IF ended THEN "idle" ELSE "schedule"])
        /\ UNCHANGED <<batch, jobs, queue, provider, made, cancels>>

\* Mutant of Finish: the jobs are ended while lines are left to read.
FinishEarly(w) ==
    LET x == proc[w]
        ended == x.run.status \in TERMINAL_BATCH_STATUSES
    IN  /\ x.at = "apply"
        /\ Become(w, [x EXCEPT !.at = "commit",
                               !.next = IF ended THEN "idle" ELSE "schedule",
                               !.jobs = IF ended THEN EndQueued(@, "failed") ELSE @])
        /\ UNCHANGED <<batch, jobs, queue, provider, made, cancels>>

\* After the last line, or a download that fails, an ended run ends its jobs; an
\* open one is polled again after the commit.
Finish(w) ==
    LET x == proc[w]
        ended == x.run.status \in TERMINAL_BATCH_STATUSES
        end == IF x.run.status = "canceled" \/ x.run.cancelRequested THEN "canceled" ELSE "failed"
    IN  /\ x.at = "apply"
        /\ Unread(x) = {} \/ Faults \cap {"download", "timeout"} # {}
        /\ Become(w, [x EXCEPT !.at = "commit",
                               !.next = IF ended THEN "idle" ELSE "schedule",
                               !.jobs = IF ended THEN EndQueued(@, end) ELSE @])
        /\ UNCHANGED <<batch, jobs, queue, provider, made, cancels>>

\* Mutant of Schedule: the attempt number is not carried over.
ScheduleRestart(w) ==
    /\ proc[w].at = "schedule"
    /\ queue' = queue \cup {PollEntry(proc[w].entry.chain, 0)}
    /\ Become(w, Idle)
    /\ UNCHANGED <<batch, jobs, provider, made, cancels>>

\* _schedule_next_poll: attempt 0 from the submit task, the next one from a poll.
Schedule(w) ==
    LET e == proc[w].entry
    IN  /\ proc[w].at = "schedule"
        /\ queue' = queue \cup {PollEntry(e.chain, IF e.task = "submit" THEN 0 ELSE e.attempt + 1)}
        /\ Become(w, Idle)
        /\ UNCHANGED <<batch, jobs, provider, made, cancels>>

-----------------------------------------------------------------------------
(* The provider (external) and the faults.                                 *)

\* A batch is worked on and ends: completed with a line per item, expired or
\* cancelled with some lines, failed with none.
ProviderStep ==
    /\ \/ /\ provider.state = "validating"
          /\ provider' = [provider EXCEPT !.state = "in_progress"]
       \/ \E end \in ProviderEnds :
             /\ provider.state \in IF end = "cancelled" THEN {"cancelling"} ELSE {"in_progress", "cancelling"}
             /\ \E lines \in [Jobs -> {"none", "ok", "bad"}] :
                   /\ \A j \in Jobs : lines[j] # "none" => j \in provider.items
                   /\ end = "completed" => \A j \in provider.items : lines[j] # "none"
                   /\ end = "failed" => lines = NoLines
                   /\ provider' = [provider EXCEPT !.state = end, !.lines = lines]
    /\ UNCHANGED <<batch, jobs, queue, made, proc, cancels>>

\* Whoever stops at batches.create leaves a batch behind if the request arrived.
MayHaveCreated(p) == made' \in IF proc[p].at = "create" THEN {made, made + 1} ELSE {made}

\* batches.create gets no answer: the client sends it again, and a request that had
\* arrived leaves a batch nobody knows ...
CreateAgain(w) ==
    /\ "lost" \in Faults
    /\ proc[w].at = "create"
    /\ proc[w].resent < MaxRetries
    /\ MayHaveCreated(w)
    /\ Become(w, [proc[w] EXCEPT !.resent = @ + 1])
    /\ UNCHANGED <<batch, jobs, queue, provider, cancels>>

\* ... and after the last retry it raises: the run is failed with its jobs.
CreateAnswerLost(w) ==
    /\ "lost" \in Faults
    /\ proc[w].at = "create"
    /\ proc[w].resent = MaxRetries
    /\ made' = made + 1
    /\ Become(w, Closing(proc[w], "failed", "failed"))
    /\ UNCHANGED <<batch, jobs, queue, provider, cancels>>

\* An exception of the calls a task makes (credentials, provider, Redis), or the RQ
\* job timeout outside the loop over the output (which has its own handler, see
\* Finish): the run is failed with its jobs, unless the object in memory is already
\* terminal.
TaskFails(w) ==
    /\ \/ "exception" \in Faults /\ proc[w].at \in {"loaded", "create", "retrieve", "schedule"}
       \/ "timeout" \in Faults /\ proc[w].at \notin {"idle", "apply"}
    /\ Become(w, IF proc[w].run.status \in TERMINAL_BATCH_STATUSES
                 THEN Idle
                 ELSE Closing(proc[w], "failed", "failed"))
    /\ MayHaveCreated(w)
    /\ UNCHANGED <<batch, jobs, queue, provider, cancels>>

\* A worker or an API thread dies; nothing is retried.
Crash(p) ==
    /\ "crash" \in Faults
    /\ proc[p].at # "idle"
    /\ Become(p, Idle)
    /\ MayHaveCreated(p)
    /\ UNCHANGED <<batch, jobs, queue, provider, cancels>>

-----------------------------------------------------------------------------

Handle(h) ==
    \/ Create(h) \/ Enqueue(h)
    \/ CancelRun(h) \/ EnqueuePoll(h) \/ CancelJobRow(h)

Work(w) ==
    \/ \E e \in queue : Take(w, e)
    \/ Begin(w) \/ Compose(w) \/ CreateAtProvider(w)
    \/ PollTooEarly(w) \/ PollWithoutId(w) \/ PollTimeout(w) \/ PollProvider(w)
    \/ CancelAtProvider(w) \/ Retrieve(w)
    \/ \E j \in Jobs : ApplyLine(w, j)
    \/ Finish(w) \/ Schedule(w)

Client ==
    \/ Get
    \/ \E h \in Handlers : StartCancel(h) \/ \E j \in Jobs : StartCancelJob(h, j)

Fault ==
    \/ \E w \in Workers : CreateAgain(w) \/ CreateAnswerLost(w) \/ TaskFails(w)
    \/ \E h \in Handlers : EnqueueFails(h)
    \/ \E p \in Procs : Crash(p)

\* The batch is over and nothing is left to do: the service idles.
Rest ==
    /\ batch.status \in TERMINAL_BATCH_STATUSES
    /\ queue = {}
    /\ \A p \in Procs : proc[p].at = "idle"
    /\ UNCHANGED vars

Next ==
    \/ \E h \in Handlers : Handle(h)
    \/ \E w \in Workers : Work(w)
    \/ \E p \in Procs : Commit(p)
    \/ Client
    \/ ProviderStep
    \/ Fault
    \/ Rest

Spec == Init /\ [][Next]_vars

\* Workers and handlers keep running, and the RQ list is first in, first out: the
\* submit entry is not passed over for ever by polls that reschedule themselves.
\* Nothing is assumed of the provider, which MaxAttempts keeps at bay, nor of the
\* clients.
Fairness ==
    /\ SF_vars(\E w \in Workers : Take(w, SubmitEntry))
    /\ \A w \in Workers : WF_vars(Work(w) \/ Commit(w))
    /\ \A h \in Handlers : WF_vars(Handle(h) \/ Commit(h))

FairSpec == Spec /\ Fairness

\* A client that polls until the batch is terminal, as wait_for_batch does.
PolledSpec == FairSpec /\ WF_vars(Get)
-----------------------------------------------------------------------------
(* Properties.                                                             *)

Closed == batch.status \in TERMINAL_BATCH_STATUSES
AllEnded == \A j \in Jobs : jobs[j] \in JobEnds
Quiet == \A p \in Procs : proc[p].at = "idle"

\* A job is completed only with an answer of the provider, whatever polls,
\* cancels and failures overwrite each other (provider_batches.py 497-553).
CompletedWasAnswered == \A j \in Jobs : jobs[j] = "completed" => provider.lines[j] = "ok"

\* The batches of a run are all made by the requests of one execution of the submit
\* task, although that task checks nothing but a status others write; and none is made
\* once the task has been given an id: the batch it polls is never replaced by another
\* one (provider_batches.py 614-740).
SubmittedByOneTask ==
    [][/\ made' <= 1 + MaxRetries
       /\ provider.state # "none" => UNCHANGED <<made, provider.items>>]_vars

\* When the run is closed and no session is open, every job has ended: the client
\* that stops polling misses nothing (provider_batches.py 866-875, sdk/client.py 251-271).
ClosedRunsEndTheirJobs == Closed /\ Quiet => AllEnded

\* Once no session is open, a closed run with ended jobs is left alone for ever:
\* late polls and repeated cancels open no session that writes, and the provider
\* is given nothing (provider_batches.py 365-366, 618-619, 764-765; public.py 355-369).
QuietIsFinal == [][Closed /\ AllEnded /\ Quiet => UNCHANGED <<batch, jobs, proc, made, provider.items>>]_vars

\* A terminal status of the run is never left (sdk/models.py 107-109).
RunIsFinal == [][Closed => batch'.status = batch.status]_vars

\* A terminal status of a job is never left, whatever the loop has committed halfway, as
\* long as nobody cancels the run (developer-guide.md 10-11).
JobsAreFinal ==
    [][~batch'.cancelRequested => \A j \in Jobs : jobs[j] # "queued" => jobs'[j] = jobs[j]]_vars

\* Every batch ends, with all of its jobs, for good.
BatchEnds == (batch.status # "absent") ~> [](Closed /\ AllEnded)

\* Every batch ends.
RunEnds == (batch.status # "absent") ~> Closed

\* The counters of a closed run are those of its jobs (batches.html 77).
ClosedCountersAreTrue == Closed /\ Quiet => batch.counts = Tally(jobs)

\* An answered item of a completed run is a completed job, unless the item or the run was
\* canceled.
AnswersAreKept ==
    batch.status = "completed" /\ ~batch.cancelRequested /\ Quiet =>
        \A j \in Jobs : provider.lines[j] = "ok" => jobs[j] # "failed"
=============================================================================
