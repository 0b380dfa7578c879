---------------------------- MODULE JobLifecycle ----------------------------
(***************************************************************************)
(* The life of a job, from the public API through the RQ queue to          *)
(* process_job, with every place where another session can slip in.        *)
(*                                                                         *)
(* Three kinds of state are shared: the rows of the jobs table (row), the  *)
(* RQ list together with the response cache in Redis (queue, cache), and   *)
(* the training_events table (events).  Everything else is private to a    *)
(* process: an API request handler or an RQ worker.  A process works on an *)
(* ORM object loaded by its own session.  The sessions are created with    *)
(* expire_on_commit=False and autoflush=False (core/db.py), so the object  *)
(* stays what it was when loaded (snap) until db.refresh, and a commit     *)
(* writes only the columns that differ from what was loaded (Flush).       *)
(***************************************************************************)
EXTENDS Naturals, FiniteSets

CONSTANTS
    Jobs,         \* job identifiers that generate_job_id may return
    NoJob,        \* absence of a job
    Keys,         \* values of the Idempotency-Key header
    NoKey,        \* the header is missing or blank
    Workers,      \* RQ worker processes (run_worker.py, MAX_CONCURRENCY)
    Handlers,     \* threads of the API server
    Ops,          \* the operations the clients of this instance use
    Faults,       \* the faults that may happen in this instance
    Routes,       \* length of the candidate route list (_candidate_routes)
    Rounds,       \* rounds of the request loop of a route: its parameters and one more
    MaxRetries,   \* max_retries of the provider client
    CacheOn,      \* cache_ttl_seconds > 0 in the version's params
    SaveDefault,  \* save_default in the request payload
    MaxRequests   \* bound: API requests in a behaviour

ASSUME JobsAssumption == IsFiniteSet(Jobs) /\ NoJob \notin Jobs
ASSUME KeysAssumption == NoKey \notin Keys
ASSUME ProcsAssumption == Workers \cap Handlers = {}
ASSUME OpsAssumption == Ops \subseteq {"submit", "respond", "cancel", "save"}
ASSUME FaultsAssumption == Faults \subseteq {"escape", "caught", "enqueue", "crash"}
ASSUME RoutesAssumption == Routes \in Nat \ {0}
ASSUME RetriesAssumption == Rounds \in Nat \ {0} /\ MaxRetries \in Nat
ASSUME FlagsAssumption == CacheOn \in BOOLEAN /\ SaveDefault \in BOOLEAN
ASSUME BoundAssumption == MaxRequests \in Nat

Procs == Workers \cup Handlers

VARIABLES
    row,       \* jobs table: one row per identifier, status "absent" before the INSERT
    queue,     \* RQ entries nobody has dequeued (the RQ id is the job id)
    cache,     \* the response_cache entry of the one request the jobs share
    events,    \* number of training_events rows of a job
    bought,    \* number of completions the providers charged for a job, answered or not
    proc,      \* what each worker and each handler is doing
    replies,   \* <<key, job>> pairs answered to clients
    requests   \* API requests made so far (bounded by MaxRequests)

vars == <<row, queue, cache, events, bought, proc, replies, requests>>

-----------------------------------------------------------------------------
(* Rows and sessions.                                                      *)

Terminal == {"completed", "failed", "canceled"}
JobStatus == {"queued", "running"} \cup Terminal

Row == [status: JobStatus \cup {"absent"},
        cancelRequested: BOOLEAN,          \* cancel_requested
        result: BOOLEAN,                   \* result_text is not NULL
        key: Keys \cup {NoKey}]            \* idempotency_key

NoRow == [status |-> "absent", cancelRequested |-> FALSE, result |-> FALSE, key |-> NoKey]

Exists(j) == row[j].status # "absent"

\* One column of an UPDATE: only a changed attribute is written.
Column(new, old, stored) == IF new # old THEN new ELSE stored

\* What a commit leaves in the table, for an object loaded as "old" and now "new".
Flush(new, old, stored) ==
    [status          |-> Column(new.status, old.status, stored.status),
     cancelRequested |-> Column(new.cancelRequested, old.cancelRequested, stored.cancelRequested),
     result          |-> Column(new.result, old.result, stored.result),
     key             |-> stored.key]

-----------------------------------------------------------------------------
(* Processes.                                                              *)

\* Points of process_job whose exceptions reach its caller ...
Unprotected == {"load", "start", "refresh", "prepare", "lookup", "hit", "hitRefresh",
                "hitSave", "screen", "fail"}
\* ... and those inside the try whose handler marks the job failed.
Protected == {"write", "written", "publish", "autosave"}

ProcessJob == Unprotected \cup Protected \cup {"call"}

Points == {"idle", "insert", "enqueue", "dequeue", "cancelRow", "recover", "recoverRow"}
              \cup ProcessJob

\* Who called: an RQ worker, or a handler (submit_response runs process_job
\* either on the queued job it found, "replay", or after create_job, "inline").
Callers == {"none", "worker", "submit", "replay", "inline", "cancel"}

Process == [at: Points, job: Jobs \cup {NoJob}, key: Keys \cup {NoKey},
            via: Callers, snap: Row, route: Nat, round: Nat, retry: Nat]

Idle == [at |-> "idle", job |-> NoJob, key |-> NoKey, via |-> "none",
         snap |-> NoRow, route |-> 0, round |-> 0, retry |-> 0]

TypeOK ==
    /\ row \in [Jobs -> Row]
    /\ queue \subseteq Jobs
    /\ cache \in Jobs \cup {NoJob}
    /\ events \in [Jobs -> Nat]
    /\ bought \in [Jobs -> Nat]
    /\ proc \in [Procs -> Process]
    /\ replies \subseteq (Keys \cup {NoKey}) \X Jobs
    /\ requests \in 0..MaxRequests

Init ==
    /\ row = [j \in Jobs |-> NoRow]
    /\ queue = {}
    /\ cache = NoJob
    /\ events = [j \in Jobs |-> 0]
    /\ bought = [j \in Jobs |-> 0]
    /\ proc = [p \in Procs |-> Idle]
    /\ replies = {}
    /\ requests = 0

\* Process p continues at another point of its code.
Goto(p, point) == proc' = [proc EXCEPT ![p].at = point]

\* p commits its object in state "new" and continues at point.
Commit(p, new, point) ==
    /\ row' = [row EXCEPT ![proc[p].job] = Flush(new, proc[p].snap, @)]
    /\ proc' = [proc EXCEPT ![p].at = point, ![p].snap = new]

\* p returns from process_job.  A handler answers with the job (public.py 194-198, 246-250).
Return(p) ==
    /\ proc' = [proc EXCEPT ![p] = Idle]
    /\ replies' = IF proc[p].via = "worker" THEN replies
                  ELSE replies \cup {<<proc[p].key, proc[p].job>>}

\* The handler answers with job j.
Answer(h, k, j) ==
    /\ proc' = [proc EXCEPT ![h] = Idle]
    /\ replies' = replies \cup {<<k, j>>}

-----------------------------------------------------------------------------
(* The public API.                                                         *)

\* A handler may take a request of kind op.  Requests that fail the checks before
\* the lookup (scope, limits, endpoint, active version) change no job.
Accept(h, op) ==
    /\ op \in Ops
    /\ proc[h].at = "idle"
    /\ requests < MaxRequests
    /\ requests' = requests + 1

\* Bound: an INSERT finds a free identifier.
RoomForRow ==
    Cardinality({j \in Jobs : ~Exists(j)}) > Cardinality({h \in Handlers : proc[h].at = "insert"})

\* get_idempotent_job_for_key
Holders(k) == {j \in Jobs : k # NoKey /\ Exists(j) /\ row[j].key = k}

\* submit_job and submit_response up to create_job, when the key is new or missing.
StartCreate(h, k, op, via) ==
    /\ Accept(h, op)
    /\ Holders(k) = {}
    /\ RoomForRow
    /\ proc' = [proc EXCEPT ![h] = [Idle EXCEPT !.at = "insert", !.key = k, !.via = via]]
    /\ UNCHANGED <<row, queue, cache, events, bought, replies>>

\* Mutant of SubmitReplay: the job that holds the key is enqueued again.
SubmitReplayRequeued(h, k) ==
    /\ Accept(h, "submit")
    /\ \E j \in Holders(k) : Answer(h, k, j) /\ queue' = queue \cup {j}
    /\ UNCHANGED <<row, cache, events, bought>>

\* submit_job answers with the job that holds the key, whatever its status.
SubmitReplay(h, k) ==
    /\ Accept(h, "submit")
    /\ \E j \in Holders(k) : Answer(h, k, j)
    /\ UNCHANGED <<row, queue, cache, events, bought>>

\* Mutant of RespondQueued: whatever is not running is executed again.
RespondQueuedAny(h, k) ==
    /\ Accept(h, "respond")
    /\ \E j \in Holders(k) :
          /\ row[j].status # "running"
          /\ proc' = [proc EXCEPT ![h] = [Idle EXCEPT !.at = "load", !.job = j, !.key = k, !.via = "replay"]]
    /\ UNCHANGED <<row, queue, cache, events, bought, replies>>

\* submit_response answers with a running or terminal job that holds the key ...
RespondReplay(h, k) ==
    /\ Accept(h, "respond")
    /\ \E j \in Holders(k) : row[j].status # "queued" /\ Answer(h, k, j)
    /\ UNCHANGED <<row, queue, cache, events, bought>>

\* ... and runs a queued one inline.
RespondQueued(h, k) ==
    /\ Accept(h, "respond")
    /\ \E j \in Holders(k) :
          /\ row[j].status = "queued"
          /\ proc' = [proc EXCEPT ![h] = [Idle EXCEPT !.at = "load", !.job = j, !.key = k, !.via = "replay"]]
    /\ UNCHANGED <<row, queue, cache, events, bought, replies>>

\* Mutant of Insert: the table has no unique constraint.
InsertUnchecked(h) ==
    /\ proc[h].at = "insert"
    /\ \E j \in Jobs :
          /\ ~Exists(j)
          /\ row' = [row EXCEPT ![j] = [NoRow EXCEPT !.status = "queued", !.key = proc[h].key]]
          /\ proc' = [proc EXCEPT ![h].at = IF proc[h].via = "submit" THEN "enqueue" ELSE "load", ![h].job = j]
    /\ UNCHANGED <<queue, cache, events, bought, replies, requests>>

\* create_job commits a queued row; the caller enqueues it or runs it inline.
Insert(h) ==
    LET k == proc[h].key
        next == IF proc[h].via = "submit" THEN "enqueue" ELSE "load"
    IN  /\ proc[h].at = "insert"
        /\ Holders(k) = {}
        /\ \E j \in Jobs :
              /\ ~Exists(j)
              /\ row' = [row EXCEPT ![j] = [NoRow EXCEPT !.status = "queued", !.key = k]]
              /\ proc' = [proc EXCEPT ![h].at = next, ![h].job = j]
        /\ UNCHANGED <<queue, cache, events, bought, replies, requests>>

\* uq_jobs_idempotency_scope raises IntegrityError: submit_job answers with the
\* job that holds the key, submit_response runs it without looking at its status.
InsertConflict(h) ==
    LET k == proc[h].key
    IN  /\ proc[h].at = "insert"
        /\ \E j \in Holders(k) :
              IF proc[h].via = "submit"
              THEN Answer(h, k, j)
              ELSE /\ proc' = [proc EXCEPT ![h].at = "load", ![h].job = j]
                   /\ UNCHANGED replies
        /\ UNCHANGED <<row, queue, cache, events, bought, requests>>

\* queue.enqueue after the commit, and the reply.
Enqueue(h) ==
    /\ proc[h].at = "enqueue"
    /\ queue' = queue \cup {proc[h].job}
    /\ Answer(h, proc[h].key, proc[h].job)
    /\ UNCHANGED <<row, cache, events, bought, requests>>

\* Redis refuses the entry: the client gets a 500, the committed row stays.
EnqueueFails(h) ==
    /\ "enqueue" \in Faults
    /\ proc[h].at = "enqueue"
    /\ proc' = [proc EXCEPT ![h] = Idle]
    /\ UNCHANGED <<row, queue, cache, events, bought, replies, requests>>

\* submit_response after an exception of process_job: it re-reads the row ...
Recover(h) ==
    LET now == row[proc[h].job]
    IN  /\ proc[h].at = "recover"
        /\ proc' = IF now.status \in {"queued", "running"}
                   THEN [proc EXCEPT ![h].at = "recoverRow", ![h].snap = now]
                   ELSE [proc EXCEPT ![h] = Idle]
        /\ UNCHANGED <<row, queue, cache, events, bought, replies, requests>>

\* ... and writes "failed" when it was queued or running.  The client gets a 500.
RecoverRow(h) ==
    LET old == proc[h].snap
    IN  /\ proc[h].at = "recoverRow"
        /\ row' = [row EXCEPT ![proc[h].job] = Flush([old EXCEPT !.status = "failed"], old, @)]
        /\ proc' = [proc EXCEPT ![h] = Idle]
        /\ UNCHANGED <<queue, cache, events, bought, replies, requests>>

\* cancel_public_job reads the row and cancel_job branches on what it read.
StartCancel(h, j) ==
    /\ Accept(h, "cancel")
    /\ Exists(j)
    /\ proc' = IF row[j].status \in Terminal THEN proc
               ELSE [proc EXCEPT ![h] =
                        [Idle EXCEPT !.at = IF row[j].status = "queued" THEN "dequeue" ELSE "cancelRow",
                                     !.job = j, !.via = "cancel", !.snap = row[j]]]
    /\ UNCHANGED <<row, queue, cache, events, bought, replies>>

\* cancel_enqueued_job: no effect once a worker has taken the entry.
Dequeue(h) ==
    /\ proc[h].at = "dequeue"
    /\ queue' = queue \ {proc[h].job}
    /\ Goto(h, "cancelRow")
    /\ UNCHANGED <<row, cache, events, bought, replies, requests>>

\* cancel_job commits what it decided from the row it read.
CancelRow(h) ==
    LET old == proc[h].snap
        new == IF old.status = "queued" THEN [old EXCEPT !.status = "canceled"]
                                        ELSE [old EXCEPT !.cancelRequested = TRUE]
    IN  /\ proc[h].at = "cancelRow"
        /\ row' = [row EXCEPT ![proc[h].job] = Flush(new, old, @)]
        /\ proc' = [proc EXCEPT ![h] = Idle]
        /\ UNCHANGED <<queue, cache, events, bought, replies, requests>>

\* save_job_training stores an event of any job of the tenant.
SaveTraining(h, j) ==
    /\ Accept(h, "save")
    /\ Exists(j)
    /\ events' = [events EXCEPT ![j] = @ + 1]
    /\ UNCHANGED <<row, queue, cache, bought, proc, replies>>

-----------------------------------------------------------------------------
(* process_job.                                                            *)

\* An RQ worker pops an entry.  RQ is FIFO; with several workers any entry may
\* be processed first, so the list is a set.
Take(w) ==
    /\ proc[w].at = "idle"
    /\ \E j \in queue :
          /\ queue' = queue \ {j}
          /\ proc' = [proc EXCEPT ![w] = [Idle EXCEPT !.at = "load", !.job = j, !.via = "worker"]]
    /\ UNCHANGED <<row, cache, events, bought, replies, requests>>

\* db.get: a missing or canceled job is left alone, any other is executed.
Load(p) ==
    LET now == row[proc[p].job]
    IN  /\ proc[p].at = "load"
        /\ IF now.status \in {"absent", "canceled"}
           THEN Return(p)
           ELSE /\ proc' = [proc EXCEPT ![p].at = "start", ![p].snap = now]
                /\ UNCHANGED replies
        /\ UNCHANGED <<row, queue, cache, events, bought, requests>>

\* Mutant of Start: the execution begins without marking the job running.
StartSilently(p) ==
    /\ proc[p].at = "start"
    /\ Goto(p, "refresh")
    /\ UNCHANGED <<row, queue, cache, events, bought, replies, requests>>

\* The commit that marks the job running.
Start(p) ==
    /\ proc[p].at = "start"
    /\ Commit(p, [proc[p].snap EXCEPT !.status = "running"], "refresh")
    /\ UNCHANGED <<queue, cache, events, bought, replies, requests>>

\* db.refresh: the last time the row is read before the provider is called.
Refresh(p) ==
    /\ proc[p].at = "refresh"
    /\ proc' = [proc EXCEPT ![p].at = "prepare", ![p].snap = row[proc[p].job]]
    /\ UNCHANGED <<row, queue, cache, events, bought, replies, requests>>

\* Version lookup, rendering and the commit of request_hash (no modelled column).
\* A version that is gone fails the job.
Prepare(p) ==
    /\ proc[p].at = "prepare"
    /\ \/ Goto(p, IF CacheOn THEN "lookup" ELSE "screen")
       \/ Goto(p, "fail")
    /\ UNCHANGED <<row, queue, cache, events, bought, replies, requests>>

\* The cached answer is used when its job is completed and has a result.  The
\* identity map answers for the job itself with the object in the session.
Lookup(p) ==
    LET source == IF cache = proc[p].job THEN proc[p].snap ELSE row[cache]
        hit == cache # NoJob /\ source.status = "completed" /\ source.result
    IN  /\ proc[p].at = "lookup"
        /\ Goto(p, IF hit THEN "hit" ELSE "screen")
        /\ UNCHANGED <<row, queue, cache, events, bought, replies, requests>>

\* The outcome of a successful execution, decided by the object in the session.
Finished(snap) ==
    [snap EXCEPT !.status = IF snap.cancelRequested THEN "canceled" ELSE "completed",
                 !.result = TRUE]

\* The commit of the cached answer.
Hit(p) ==
    /\ proc[p].at = "hit"
    /\ Commit(p, Finished(proc[p].snap), "hitRefresh")
    /\ UNCHANGED <<queue, cache, events, bought, replies, requests>>

\* db.refresh after a success: only a row that still reads completed goes on.
AfterCommit(p, from, next) ==
    LET now == row[proc[p].job]
    IN  /\ proc[p].at = from
        /\ IF now.status = "completed"
           THEN /\ proc' = [proc EXCEPT ![p].at = next, ![p].snap = now]
                /\ UNCHANGED replies
           ELSE Return(p)
        /\ UNCHANGED <<row, queue, cache, events, bought, requests>>

HitRefresh(p) == AfterCommit(p, "hitRefresh", "hitSave")

\* auto_save_training_event, the last thing process_job does.
AutoSave(p, from) ==
    /\ proc[p].at = from
    /\ events' = IF SaveDefault THEN [events EXCEPT ![proc[p].job] = @ + 1] ELSE events
    /\ Return(p)
    /\ UNCHANGED <<row, queue, cache, bought, requests>>

\* Prompt composition and the blocked-phrase check of the input.
Screen(p) ==
    /\ proc[p].at = "screen"
    /\ \/ proc' = [proc EXCEPT ![p].at = "call", ![p].route = 1, ![p].round = 1, ![p].retry = 0]
       \/ Goto(p, "fail")
    /\ UNCHANGED <<row, queue, cache, events, bought, replies, requests>>

\* The loop over the routes ends; its counters are not read again.
Leave(p, point) ==
    proc' = [proc EXCEPT ![p].at = point, ![p].route = 0, ![p].round = 0, ![p].retry = 0]

\* Mutant of NextRoute: one attempt too many.
NextRouteOffByOne(p) ==
    IF proc[p].route <= Routes
    THEN proc' = [proc EXCEPT ![p].route = @ + 1, ![p].round = 1, ![p].retry = 0]
    ELSE Leave(p, "fail")

\* The next candidate route, or the failure of the job after the last one.
NextRoute(p) ==
    IF proc[p].route < Routes
    THEN proc' = [proc EXCEPT ![p].route = @ + 1, ![p].round = 1, ![p].retry = 0]
    ELSE Leave(p, "fail")

\* The provider client sends the request again ...
Resend(p) ==
    /\ proc[p].retry < MaxRetries
    /\ proc' = [proc EXCEPT ![p].retry = @ + 1]

\* ... or the request loop sends it without a parameter the provider refused.
DropParameter(p) ==
    /\ proc[p].round < Rounds
    /\ proc' = [proc EXCEPT ![p].round = @ + 1, ![p].retry = 0]

\* Mutant of CallAnswered: the answer is published before it is committed.
CallAnsweredPublishFirst(p) ==
    /\ proc[p].at = "call"
    /\ bought' = [bought EXCEPT ![proc[p].job] = @ + 1]
    /\ Leave(p, "publish")
    /\ UNCHANGED <<row, queue, cache, events, replies, requests>>

\* A provider answers on the current route; a blocked output is thrown away.
CallAnswered(p) ==
    /\ proc[p].at = "call"
    /\ bought' = [bought EXCEPT ![proc[p].job] = @ + 1]
    /\ Leave(p, "write") \/ NextRoute(p)
    /\ UNCHANGED <<row, queue, cache, events, replies, requests>>

\* The provider works and charges, but its answer is late or lost: the client sends
\* the request again, or raises after its last retry (or the RQ job timeout).
CallLost(p) ==
    /\ proc[p].at = "call"
    /\ bought' = [bought EXCEPT ![proc[p].job] = @ + 1]
    /\ Resend(p) \/ NextRoute(p)
    /\ UNCHANGED <<row, queue, cache, events, replies, requests>>

\* A request that is not charged: no credentials, no connection, a provider error or
\* a refused parameter.
CallFails(p) ==
    /\ proc[p].at = "call"
    /\ Resend(p) \/ DropParameter(p) \/ NextRoute(p)
    /\ UNCHANGED <<row, queue, cache, events, bought, replies, requests>>

\* The commit of the answer.
Write(p) ==
    /\ proc[p].at = "write"
    /\ Commit(p, Finished(proc[p].snap), "written")
    /\ UNCHANGED <<queue, cache, events, bought, replies, requests>>

Written(p) == AfterCommit(p, "written", IF CacheOn THEN "publish" ELSE "autosave")

\* redis.setex
Publish(p) ==
    /\ proc[p].at = "publish"
    /\ cache' = proc[p].job
    /\ Goto(p, "autosave")
    /\ UNCHANGED <<row, queue, events, bought, replies, requests>>

\* Mutant of MarkFailed: the failure is not committed.
MarkFailedUncommitted(p) ==
    /\ proc[p].at = "fail"
    /\ Return(p)
    /\ UNCHANGED <<row, queue, cache, events, bought, requests>>

\* Mutant of MarkFailed: a status that is not in the enumeration.
MarkFailedMisnamed(p) ==
    /\ proc[p].at = "fail"
    /\ row' = [row EXCEPT ![proc[p].job].status = "error"]
    /\ Return(p)
    /\ UNCHANGED <<queue, cache, events, bought, requests>>

\* _mark_job_failed
MarkFailed(p) ==
    LET old == proc[p].snap
    IN  /\ proc[p].at = "fail"
        /\ row' = [row EXCEPT ![proc[p].job] = Flush([old EXCEPT !.status = "failed"], old, @)]
        /\ Return(p)
        /\ UNCHANGED <<queue, cache, events, bought, requests>>

\* The cache entry reaches its time to live.
CacheExpire ==
    /\ cache # NoJob
    /\ cache' = NoJob
    /\ UNCHANGED <<row, queue, events, bought, proc, replies, requests>>

-----------------------------------------------------------------------------
(* Faults.                                                                 *)

\* An exception outside the try (or the RQ job timeout) leaves process_job: RQ
\* files the entry as failed, a replay answers 500, an inline call recovers.
Escape(p) ==
    /\ "escape" \in Faults
    /\ proc[p].at \in Unprotected
    /\ proc' = IF proc[p].via = "inline"
               THEN [proc EXCEPT ![p].at = "recover"]
               ELSE [proc EXCEPT ![p] = Idle]
    /\ UNCHANGED <<row, queue, cache, events, bought, replies, requests>>

\* An exception (or the RQ job timeout) inside the try.
Caught(p) ==
    /\ "caught" \in Faults
    /\ proc[p].at \in Protected
    /\ Goto(p, "fail")
    /\ UNCHANGED <<row, queue, cache, events, bought, replies, requests>>

\* The work-horse or the API server dies.  Sessions roll back, RQ does not retry.  A
\* request the provider has received is charged all the same.
Crash(p) ==
    /\ "crash" \in Faults
    /\ proc[p].at # "idle"
    /\ proc' = [proc EXCEPT ![p] = Idle]
    /\ \/ UNCHANGED bought
       \/ proc[p].at = "call" /\ bought' = [bought EXCEPT ![proc[p].job] = @ + 1]
    /\ UNCHANGED <<row, queue, cache, events, replies, requests>>

-----------------------------------------------------------------------------

Request(h) ==
    \/ \E k \in Keys \cup {NoKey} :
          \/ StartCreate(h, k, "submit", "submit")
          \/ StartCreate(h, k, "respond", "inline")
          \/ SubmitReplay(h, k)
          \/ RespondReplay(h, k)
          \/ RespondQueued(h, k)
    \/ \E j \in Jobs : StartCancel(h, j) \/ SaveTraining(h, j)

Handle(h) ==
    \/ Insert(h) \/ InsertConflict(h) \/ Enqueue(h)
    \/ Recover(h) \/ RecoverRow(h)
    \/ Dequeue(h) \/ CancelRow(h)

Execute(p) ==
    \/ Load(p) \/ Start(p) \/ Refresh(p) \/ Prepare(p)
    \/ Lookup(p) \/ Hit(p) \/ HitRefresh(p) \/ AutoSave(p, "hitSave")
    \/ Screen(p) \/ CallAnswered(p) \/ CallLost(p) \/ CallFails(p)
    \/ Write(p) \/ Written(p) \/ Publish(p) \/ AutoSave(p, "autosave")
    \/ MarkFailed(p)

Fault == \/ \E h \in Handlers : EnqueueFails(h)
         \/ \E p \in Procs : Escape(p) \/ Caught(p) \/ Crash(p)

\* The bounds of the instance are reached and nothing is under way: the service
\* idles.  Any other state without a step would be a deadlock.
Rest ==
    /\ requests = MaxRequests \/ ~RoomForRow
    /\ queue = {}
    /\ \A p \in Procs : proc[p].at = "idle"
    /\ UNCHANGED vars

Next ==
    \/ \E h \in Handlers : Request(h) \/ Handle(h)
    \/ \E w \in Workers : Take(w)
    \/ \E p \in Procs : Execute(p)
    \/ CacheExpire
    \/ Fault
    \/ Rest

\* Workers keep popping, and whoever is inside a handler or process_job keeps
\* running: provider calls are bounded by timeout_seconds and the RQ timeout.
Fairness ==
    /\ \A w \in Workers : WF_vars(Take(w) \/ Execute(w))
    /\ \A h \in Handlers : WF_vars(Handle(h) \/ Execute(h))

Spec == Init /\ [][Next]_vars
FairSpec == Spec /\ Fairness

-----------------------------------------------------------------------------
(* Properties.                                                             *)

\* A completed job carries its result: whatever interleaving of column-wise
\* UPDATEs led to status = completed also left result_text in the row
\* (tasks.py 218-230, 372-388).
CompletedHasResult ==
    \A j \in Jobs : row[j].status = "completed" => row[j].result

\* One job per idempotency key, and every client that used the key was told
\* that job, through the lookup, the INSERT or the IntegrityError path
\* (public.py 99-135, 175-227).
OneJobPerKey ==
    /\ \A i, j \in Jobs : Exists(i) /\ Exists(j) /\ row[i].key = row[j].key => i = j \/ row[i].key = NoKey
    /\ \A a, b \in replies : a[1] = b[1] => a[2] = b[2] \/ a[1] = NoKey
    /\ \A a \in replies : Exists(a[2]) /\ row[a[2]].key = a[1]

\* RQ never holds an entry whose row is not committed: the INSERT precedes the
\* enqueue (public.py 110-139), so a worker never drops a job it cannot find.
QueuedAreCommitted ==
    /\ \A j \in queue : Exists(j)
    /\ \A p \in Procs : proc[p].at \in ProcessJob => Exists(proc[p].job)

\* The response cache names only jobs that have an answer to give, even when the
\* job was run twice or marked failed after it was published (tasks.py 391-396).
CacheHasAnswer == cache # NoJob => row[cache].result

\* What is promised of the stores: a completed row has its result, a queue entry and an
\* execution have their row, a cache entry has its answer.
StoresAgree == CompletedHasResult /\ QueuedAreCommitted /\ CacheHasAnswer

\* Somebody may still act on j: an entry waits, a process works on it, or a
\* handler that missed it in the lookup is about to conflict with its key.
Pending(j) ==
    \/ j \in queue
    \/ \E p \in Procs : proc[p].job = j
    \/ \E h \in Handlers : proc[h].at = "insert" /\ row[j].key = proc[h].key /\ row[j].key # NoKey

\* Once nobody has a job under way, its terminal status and its provider bill
\* are final: replays, late retries and repeated cancels never take it up again
\* (public.py 107-108, 199-200; jobs.py 128-133; tasks.py 154-155).
QuietTerminalIsFinal ==
    [][\A j \in Jobs : row[j].status \in Terminal /\ ~Pending(j) =>
           row'[j] = row[j] /\ bought'[j] = bought[j] /\ ~Pending(j)']_vars

\* Every job that is accepted ends, and stays, in a terminal status.
Settles == \A j \in Jobs : Exists(j) ~> [](row[j].status \in Terminal)

\* Every job a client was told about ends in a terminal status: the client may
\* poll it until then (developer-guide.md 10-11).
AnsweredSettles ==
    \A j \in Jobs : (\E a \in replies : a[2] = j) ~> [](row[j].status \in Terminal)

\* What one execution may be charged for on a route: every round of the request loop
\* may lose the answers its client retries, and one request more ends the route.
PerRoute == Rounds * MaxRetries + 1

\* A job is never charged for more than one execution of process_job may spend on its
\* routes, rounds and client retries: no crash, lost reply, cancel or repeated submit
\* buys it a second execution (tasks.py 266-327, public.py 99-141).
BillIsBounded == \A j \in Jobs : bought[j] <= Routes * PerRoute

\* A terminal status is never left (developer-guide.md: poll until terminal).
TerminalIsFinal ==
    [][\A j \in Jobs : row[j].status \in Terminal => row'[j].status = row[j].status]_vars

\* A job whose cancel was accepted while it ran never completes afterwards
\* (jobs.py 126: "mark running job for deferred cancel").
CancelIsHonoured ==
    [][\A j \in Jobs : row[j].status = "running" /\ row[j].cancelRequested =>
           row'[j].status # "completed"]_vars

\* A training event is stored only for a job that is completed
\* (training.py 49: "Create one training event from a completed job").
EventsOfCompleted ==
    [][\A j \in Jobs : events'[j] > events[j] => row[j].status = "completed"]_vars
=============================================================================
