------------------------ MODULE ProviderBatchProofs ------------------------
(***************************************************************************)
(* Theorems about ProviderBatch for every set of items, workers, handlers  *)
(* and chains, every set of operations and faults and every bound.         *)
(*                                                                         *)
(* That a completed job was answered by the provider depends on what every *)
(* session still believes, and on the provider's output never being        *)
(* replaced.  The latter holds because the right to submit the batch (a    *)
(* token) is in one place only: with the handler that committed the run,   *)
(* in the RQ list, or with the task that has not yet called the provider.  *)
(*                                                                         *)
(* The last two sections add one RQ worker: then a closed run has its jobs *)
(* ended, answers are kept, terminal statuses are never left and the rows  *)
(* keep the batch contract, each under the faults it survives.             *)
(***************************************************************************)
EXTENDS BatchImplementsContract, FiniteSetTheorems, TLAPS

-----------------------------------------------------------------------------
(* The inductive invariant.                                                *)

\* A process that may still submit the batch.
Holder(x) ==
    \/ x.at = "enqueue"
    \/ x.at \in {"loaded", "compose", "create"} /\ x.entry.task = "submit"

\* Completed jobs have an answer in the provider's output.
Answered(table, pr) == \A j \in Jobs : table[j] = "completed" => pr.lines[j] = "ok"

\* A session never holds a run that does not exist, only the submit task creates
\* a batch at the provider, only a batch that exists is retrieved, and what the
\* session believes was answered was answered.
ProcOK(x, pr) ==
    /\ x.at \notin {"idle", "enqueue", "cancelRow"} => x.run.status # "absent"
    /\ x.at \in {"compose", "create"} => x.entry.task = "submit"
    /\ x.at \in {"cancelProvider", "retrieve"} => x.run.providerId
    /\ x.run.providerId => pr.state # "none"
    /\ Answered(x.jobs0, pr)
    /\ Answered(x.jobs, pr)
    /\ Holder(x) => pr.state = "none"

TablesOK(b, table, q, pr) ==
    /\ Answered(table, pr)
    /\ \A e \in q : e.task = "submit" => e = SubmitEntry
    /\ b.status = "absent" => SubmitEntry \notin q /\ pr.state = "none"
    /\ SubmitEntry \in q => pr.state = "none"
    /\ b.providerId => pr.state # "none"
    /\ pr.state \notin ProviderEnds => pr.lines = NoLines

\* The right to submit is in one place.
TokensOK(b, q, pc) ==
    /\ b.status = "absent" \/ SubmitEntry \in q => \A p \in Procs : ~Holder(pc[p])
    /\ \A p1, p2 \in Procs : Holder(pc[p1]) /\ Holder(pc[p2]) => p1 = p2

\* The task that may submit the batch has made no more batches than requests that
\* got no answer, and sends no more requests than the client retries.
RetryOK(x, m) ==
    /\ m <= x.resent /\ x.resent <= MaxRetries
    /\ x.at # "create" => x.resent = 0

MadeOK(b, q, pc, m) ==
    /\ m <= 1 + MaxRetries
    /\ b.status = "absent" \/ SubmitEntry \in q => m = 0
    /\ \A p \in Procs : Holder(pc[p]) => RetryOK(pc[p], m)

IInv ==
    /\ TypeOK
    /\ \A p \in Procs : ProcOK(proc[p], provider)
    /\ TablesOK(batch, jobs, queue, provider)
    /\ TokensOK(batch, queue, proc)
    /\ MadeOK(batch, queue, proc, made)

-----------------------------------------------------------------------------
(* Lemmas about the operators.                                             *)

\* Counting jobs stays within the number of jobs.
LEMMA TallyType == ASSUME NEW table PROVE Tally(table) \in Counters
<1>1. ASSUME NEW s \in JobEnds
      PROVE  Cardinality({j \in Jobs : table[j] = s}) \in 0..Cardinality(Jobs)
  <2>1. {j \in Jobs : table[j] = s} \subseteq Jobs OBVIOUS
  <2>2. Cardinality({j \in Jobs : table[j] = s}) <= Cardinality(Jobs)
    BY <2>1, FS_Subset, BatchJobsAssumption
  <2>3. IsFiniteSet({j \in Jobs : table[j] = s})
    BY <2>1, FS_Subset, BatchJobsAssumption
  <2>4. Cardinality({j \in Jobs : table[j] = s}) \in Nat /\ Cardinality(Jobs) \in Nat
    BY <2>3, FS_CardinalityType, BatchJobsAssumption
  <2> QED BY <2>2, <2>4
<1> QED BY <1>1 DEF Tally, Counters

\* The identity map returns objects of the right type, already answered, and
\* changes nothing else of the session.
LEMMA ListOK ==
    ASSUME NEW x \in Process, NEW pr, jobs \in JobTable, Answered(jobs, pr),
           Answered(x.jobs0, pr), Answered(x.jobs, pr)
    PROVE  /\ List(x) \in Process
           /\ Answered(List(x).jobs0, pr) /\ Answered(List(x).jobs, pr)
           /\ List(x).at = x.at /\ List(x).entry = x.entry /\ List(x).run = x.run
           /\ List(x).run0 = x.run0 /\ List(x).resent = x.resent
BY DEF List, Process

\* Ending queued jobs completes none.
LEMMA EndQueuedOK ==
    ASSUME NEW table \in JobTable, NEW pr, Answered(table, pr), NEW end \in {"failed", "canceled"}
    PROVE  EndQueued(table, end) \in JobTable /\ Answered(EndQueued(table, end), pr)
BY DEF EndQueued, JobTable, JobEnds, Answered

\* Closing leaves a process that is ready to commit a terminal run.
LEMMA ClosingOK ==
    ASSUME NEW x \in Process, NEW pr, jobs \in JobTable, Answered(jobs, pr),
           Answered(x.jobs0, pr), Answered(x.jobs, pr), x.run.providerId => pr.state # "none",
           NEW status \in {"failed", "canceled"}, NEW end \in {"failed", "canceled"}
    PROVE  /\ Closing(x, status, end) \in Process
           /\ ProcOK(Closing(x, status, end), pr)
           /\ ~Holder(Closing(x, status, end))
<1> DEFINE y == List(x)
           z == [y EXCEPT !.at = "commit", !.next = "idle", !.run.status = status, !.jobs = EndQueued(@, end),
                  !.resent = 0]
<1>1. y \in Process /\ Answered(y.jobs0, pr) /\ Answered(y.jobs, pr) /\ y.run = x.run
  BY ListOK
<1>2. EndQueued(y.jobs, end) \in JobTable /\ Answered(EndQueued(y.jobs, end), pr)
  BY <1>1, EndQueuedOK DEF Process
<1>3. [y.run EXCEPT !.status = status] \in Run
  BY <1>1 DEF Process, Run, TERMINAL_BATCH_STATUSES
<1> HIDE DEF y
<1>4. /\ z.at = "commit" /\ z.next = "idle" /\ z.run = [y.run EXCEPT !.status = status]
      /\ z.jobs = EndQueued(y.jobs, end) /\ z.jobs0 = y.jobs0
  BY <1>1 DEF Process
<1>5. z \in Process
  BY <1>1, <1>2, <1>3 DEF Process, Points
<1>6. z.run.status = status /\ z.run.providerId = x.run.providerId
  BY <1>1, <1>4 DEF Process, Run
<1>7. ProcOK(z, pr) /\ ~Holder(z)
  BY <1>1, <1>2, <1>4, <1>6 DEF ProcOK, Holder
<1> QED BY <1>5, <1>7 DEF Closing, y

\* A flush of answered tables is answered.
LEMMA FlushJobsOK ==
    ASSUME NEW new \in JobTable, NEW old \in JobTable, NEW stored \in JobTable, NEW pr,
           Answered(new, pr), Answered(stored, pr)
    PROVE  FlushJobs(new, old, stored) \in JobTable /\ Answered(FlushJobs(new, old, stored), pr)
BY DEF FlushJobs, Column, JobTable, Answered

\* A flush of a run that exists keeps or makes the row exist.
LEMMA FlushRunOK ==
    ASSUME NEW new \in Run, NEW old \in Run, NEW stored \in Run, new.status # "absent"
    PROVE  /\ FlushRun(new, old, stored) \in Run
           /\ FlushRun(new, old, stored).providerId => new.providerId \/ stored.providerId
           /\ FlushRun(new, old, stored).status = "absent" => stored.status = "absent"
<1>1. \A s \in JobEnds : Column(new.counts[s], old.counts[s], stored.counts[s]) \in 0..Cardinality(Jobs)
  BY DEF Column, Run, Counters
<1>2. [s \in JobEnds |-> Column(new.counts[s], old.counts[s], stored.counts[s])] \in Counters
  BY <1>1 DEF Counters
<1> QED BY <1>2 DEF FlushRun, Run, Column

\* An idle process believes nothing.
LEMMA IdleOK == ASSUME NEW pr PROVE Idle \in Process /\ ProcOK(Idle, pr) /\ ~Holder(Idle)
<1>1. NoRun \in Run /\ ~NoRun.providerId
  <2>1. 0 \in 0..Cardinality(Jobs)
    BY FS_CardinalityType, BatchJobsAssumption
  <2> QED BY <2>1 DEF NoRun, Run, Counters
<1>2. AllQueued \in JobTable /\ Answered(AllQueued, pr)
  BY DEF AllQueued, JobTable, Answered
<1>3. SubmitEntry \in Entry
  BY AttemptsAssumption DEF SubmitEntry, Entry
<1> QED BY <1>1, <1>2, <1>3 DEF Idle, Process, Points, ProcOK, Holder

\* A poll entry is an entry, and no right to submit.
LEMMA PollEntryOK ==
    ASSUME NEW c \in Chains \cup {MainChain}, NEW attempt \in Nat
    PROVE  PollEntry(c, attempt) \in Entry /\ PollEntry(c, attempt).task = "poll"
BY AttemptsAssumption DEF PollEntry, Entry

\* The entries of a submit task are not those of a poll.
LEMMA SubmitEntryOK == SubmitEntry.task = "submit"
BY DEF SubmitEntry

-----------------------------------------------------------------------------
(* Steps.                                                                  *)

\* A step of one process that does not touch the provider keeps the invariant,
\* when its own state stays well, it gains no right to submit, and the tables and
\* the queue stay well.
LEMMA StepKeeps ==
    ASSUME IInv, NEW p \in Procs, NEW x \in Process,
           proc' = [proc EXCEPT ![p] = x],
           ProcOK(x, provider), Holder(x) => Holder(proc[p]) /\ RetryOK(x, made'),
           made' = made \/ (made' = made + 1 /\ proc[p].at = "create"),
           UNCHANGED provider,
           batch' \in Run, batch'.status = "absent" => batch.status = "absent",
           batch'.providerId => provider.state # "none",
           jobs' \in JobTable, Answered(jobs', provider),
           queue' \subseteq Entry, \A e \in queue' : e \in queue \/ e.task = "poll",
           cancels' \in 0..MaxCancels
    PROVE  IInv'
<1>1. TypeOK'
  BY DEF IInv, TypeOK
<1>2. \A q \in Procs : proc'[q] = IF q = p THEN x ELSE proc[q]
  BY DEF IInv, TypeOK
<1>3. \A q \in Procs : ProcOK(proc'[q], provider)
  BY <1>2 DEF IInv
<1>4. SubmitEntry \in queue' => SubmitEntry \in queue
  BY SubmitEntryOK
<1>5. TablesOK(batch', jobs', queue', provider)
  BY <1>4 DEF IInv, TablesOK
<1>6. \A q \in Procs : Holder(proc'[q]) => Holder(proc[q])
  BY <1>2
<1>7. TokensOK(batch', queue', proc')
  BY <1>4, <1>6 DEF IInv, TokensOK
<1>8. CASE made' = made
  <2>1. \A q \in Procs : Holder(proc'[q]) => RetryOK(proc'[q], made')
    BY <1>2, <1>8 DEF IInv, MadeOK
  <2>2. MadeOK(batch', queue', proc', made')
    BY <1>4, <1>8, <2>1 DEF IInv, MadeOK
  <2> QED BY <1>1, <1>3, <1>5, <1>7, <2>2 DEF IInv
<1>9. CASE made' = made + 1 /\ proc[p].at = "create"
  <2>1. Holder(proc[p])
    BY <1>9 DEF IInv, ProcOK, Holder
  <2>2. \A q \in Procs : Holder(proc'[q]) => q = p
    BY <1>6, <2>1 DEF IInv, TokensOK
  <2>3. batch'.status # "absent" /\ SubmitEntry \notin queue'
    BY <1>4, <2>1 DEF IInv, TokensOK
  <2>4. made <= proc[p].resent /\ proc[p].resent <= MaxRetries /\ made \in Nat /\ proc[p].resent \in Nat
    BY <2>1 DEF IInv, MadeOK, RetryOK, TypeOK, Process
  <2>5. made' <= 1 + MaxRetries
    BY <1>9, <2>4, AttemptsAssumption
  <2>6. \A q \in Procs : Holder(proc'[q]) => RetryOK(proc'[q], made')
    BY <1>2, <2>2
  <2>7. MadeOK(batch', queue', proc', made')
    BY <2>3, <2>5, <2>6 DEF MadeOK
  <2> QED BY <1>1, <1>3, <1>5, <1>7, <2>7 DEF IInv
<1> QED BY <1>8, <1>9

\* A step that only moves one process.
LEMMA LocalMove ==
    ASSUME IInv, NEW p \in Procs, NEW x \in Process, Become(p, x),
           ProcOK(x, provider), Holder(x) => Holder(proc[p]) /\ RetryOK(x, made'),
           made' = made \/ (made' = made + 1 /\ proc[p].at = "create"),
           UNCHANGED <<batch, jobs, queue, provider>>, cancels' \in 0..MaxCancels
    PROVE  IInv'
BY StepKeeps DEF Become, IInv, TypeOK, TablesOK

\* A process that gives up.
LEMMA BecomeIdleKeeps ==
    ASSUME IInv, NEW p \in Procs, Become(p, Idle),
           UNCHANGED <<batch, jobs, provider, made, cancels>>,
           queue' \subseteq Entry, \A e \in queue' : e \in queue \/ e.task = "poll"
    PROVE  IInv'
BY StepKeeps, IdleOK DEF Become, IInv, TypeOK, TablesOK

\* What the invariant says of the process that moves.
LEMMA Mover ==
    ASSUME IInv, NEW p \in Procs
    PROVE  /\ proc[p] \in Process /\ proc[p].run \in Run /\ proc[p].run0 \in Run
           /\ proc[p].jobs \in JobTable /\ proc[p].jobs0 \in JobTable /\ proc[p].entry \in Entry
           /\ ProcOK(proc[p], provider)
           /\ Answered(proc[p].jobs, provider) /\ Answered(proc[p].jobs0, provider)
           /\ proc[p].run.providerId => provider.state # "none"
           /\ batch \in Run /\ jobs \in JobTable /\ Answered(jobs, provider)
           /\ batch.providerId => provider.state # "none"
           /\ queue \subseteq Entry /\ made \in Nat /\ cancels \in 0..MaxCancels /\ provider \in ProviderBatch
BY DEF IInv, TypeOK, Process, ProcOK, TablesOK

LEMMA CommitKeeps == ASSUME IInv, NEW p \in Procs, Commit(p) PROVE IInv'
<1> DEFINE x == proc[p]
           new == [x.run EXCEPT !.counts = CountersSeen(x)]
           y == [x EXCEPT !.at = x.next, !.run0 = new, !.run = new, !.jobs0 = x.jobs]
<1>1. x.at = "commit" /\ x.run.status # "absent"
  BY Mover DEF Commit, ProcOK
<1>2. CountersSeen(x) \in Counters
  BY TallyType DEF CountersSeen
<1>3. new \in Run /\ new.status # "absent" /\ new.providerId = x.run.providerId
  BY Mover, <1>1, <1>2 DEF Run
<1> HIDE DEF new
<1>4. batch' = FlushRun(new, x.run0, batch) /\ jobs' = FlushJobs(x.jobs, x.jobs0, jobs)
  BY DEF Commit, new
<1>5. /\ batch' \in Run /\ (batch'.status = "absent" => batch.status = "absent")
      /\ batch'.providerId => provider.state # "none"
  BY <1>3, <1>4, Mover, FlushRunOK
<1>6. jobs' \in JobTable /\ Answered(jobs', provider)
  BY <1>4, Mover, FlushJobsOK
<1>7. UNCHANGED <<queue, provider, made, cancels>>
  BY DEF Commit
<1>8. CASE x.next = "idle"
  <2>1. proc' = [proc EXCEPT ![p] = Idle]
    BY <1>8 DEF Commit, Become
  <2> QED BY <2>1, <1>5, <1>6, <1>7, StepKeeps, IdleOK, Mover
<1>9. CASE x.next # "idle"
  <2>1. proc' = [proc EXCEPT ![p] = y]
    BY <1>9 DEF Commit, Become, new
  <2>2. y \in Process
    BY Mover, <1>3 DEF Process, Points
  <2>3. /\ y.at = x.next /\ y.run = new /\ y.jobs0 = x.jobs /\ y.jobs = x.jobs /\ y.entry = x.entry
    BY Mover DEF Process
  <2> HIDE DEF y
  <2>4. x.next \in {"schedule", "enqueuePoll"}
    BY <1>9, Mover DEF Process
  <2>5. ProcOK(y, provider) /\ ~Holder(y)
    BY <2>3, <2>4, <1>3, Mover DEF ProcOK, Holder
  <2> QED BY <2>1, <2>2, <2>5, <1>5, <1>6, <1>7, StepKeeps, Mover
<1> QED BY <1>8, <1>9

LEMMA CreateKeeps == ASSUME IInv, NEW h \in Handlers, Create(h) PROVE IInv'
<1> DEFINE x == [Idle EXCEPT !.at = "enqueue"]
<1>1. h \in Procs BY DEF Procs
<1>2. batch.status = "absent" /\ batch' = [NoRun EXCEPT !.status = "queued"] /\ proc' = [proc EXCEPT ![h] = x]
      /\ UNCHANGED <<jobs, queue, provider, made, cancels>>
  BY DEF Create, Become
<1>3. x \in Process /\ x.at = "enqueue" /\ x.jobs = Idle.jobs /\ x.jobs0 = Idle.jobs0
      /\ ~x.run.providerId /\ x.resent = 0
  BY IdleOK DEF Idle, Process, Points, NoRun
<1>4. NoRun \in Run
  BY IdleOK DEF Idle, Process
<1>5. batch' \in Run /\ batch'.status # "absent" /\ ~batch'.providerId
  BY <1>2, <1>4 DEF Run, OpenStatuses, NoRun
<1>6. provider.state = "none" /\ SubmitEntry \notin queue /\ \A q \in Procs : ~Holder(proc[q])
  BY <1>2 DEF IInv, TablesOK, TokensOK
<1> HIDE DEF x
<1>7. ProcOK(x, provider)
  BY <1>3, <1>6, IdleOK DEF ProcOK
<1>8. TypeOK'
  BY <1>1, <1>2, <1>3, <1>5 DEF IInv, TypeOK
<1>9. \A q \in Procs : proc'[q] = IF q = h THEN x ELSE proc[q]
  BY <1>2 DEF IInv, TypeOK
<1>10. TablesOK(batch', jobs', queue', provider')
  BY <1>2, <1>5, <1>6 DEF IInv, TablesOK
<1>11. TokensOK(batch', queue', proc')
  BY <1>2, <1>5, <1>6, <1>9 DEF TokensOK
<1>12. MadeOK(batch', queue', proc', made')
  <2>1. made = 0
    BY <1>2 DEF IInv, MadeOK
  <2>2. RetryOK(x, 0)
    BY <1>3, AttemptsAssumption DEF RetryOK
  <2> QED BY <1>2, <1>6, <1>9, <2>1, <2>2, AttemptsAssumption DEF MadeOK
<1> QED BY <1>2, <1>7, <1>8, <1>9, <1>10, <1>11, <1>12 DEF IInv

LEMMA EnqueueKeeps == ASSUME IInv, NEW h \in Handlers, Enqueue(h) PROVE IInv'
<1>1. h \in Procs BY DEF Procs
<1>2. proc[h].at = "enqueue" /\ queue' = queue \cup {SubmitEntry} /\ proc' = [proc EXCEPT ![h] = Idle]
      /\ UNCHANGED <<batch, jobs, provider, made, cancels>>
  BY DEF Enqueue, Become
<1>3. SubmitEntry \in Entry BY AttemptsAssumption DEF SubmitEntry, Entry
<1>4. Holder(proc[h]) /\ provider.state = "none" /\ batch.status # "absent"
  BY <1>1, <1>2 DEF IInv, ProcOK, Holder, TokensOK
<1>5. \A q \in Procs : proc'[q] = IF q = h THEN Idle ELSE proc[q]
  BY <1>2 DEF IInv, TypeOK
<1>6. \A q \in Procs : ~Holder(proc'[q])
  BY <1>1, <1>4, <1>5, IdleOK DEF IInv, TokensOK
<1>7. TypeOK'
  BY <1>2, <1>3, IdleOK DEF IInv, TypeOK
<1>8. TablesOK(batch', jobs', queue', provider')
  BY <1>2, <1>4 DEF IInv, TablesOK
<1>9. TokensOK(batch', queue', proc')
  BY <1>6 DEF TokensOK
<1>10. MadeOK(batch', queue', proc', made')
  <2>1. RetryOK(proc[h], made) /\ proc[h].resent = 0 /\ made \in Nat
    BY <1>1, <1>2, <1>4 DEF IInv, TypeOK, MadeOK, RetryOK
  <2>2. made = 0
    BY <2>1 DEF RetryOK
  <2> QED BY <1>2, <1>6, <2>2, AttemptsAssumption DEF MadeOK
<1> QED BY <1>2, <1>5, <1>7, <1>8, <1>9, <1>10, IdleOK DEF IInv

\* The submit entry and the task that pops it hold the same right to submit.
LEMMA TakeKeeps == ASSUME IInv, NEW w \in Workers, NEW e \in queue, Take(w, e) PROVE IInv'
<1> DEFINE x == [Idle EXCEPT !.at = "loaded", !.entry = e, !.run0 = batch, !.run = batch]
<1>1. w \in Procs BY DEF Procs
<1>2. queue' = queue \ {e} /\ UNCHANGED <<batch, jobs, provider, made, cancels>>
  BY DEF Take
<1>3. CASE ~Open
  <2>1. proc' = proc
    BY <1>3 DEF Take
  <2> QED BY <1>2, <2>1 DEF IInv, TypeOK, TablesOK, TokensOK, MadeOK
<1>4. CASE Open
  <2>1. proc' = [proc EXCEPT ![w] = x]
    BY <1>4 DEF Take, Become
  <2>2. e \in Entry /\ batch \in Run
    BY DEF IInv, TypeOK
  <2>3. x \in Process /\ x.at = "loaded" /\ x.entry = e /\ x.run = batch
        /\ x.jobs = Idle.jobs /\ x.jobs0 = Idle.jobs0 /\ x.resent = 0
    BY <2>2, IdleOK DEF Idle, Process, Points
  <2> HIDE DEF x
  <2>4. batch.status # "absent"
    BY <1>4 DEF Open, OpenStatuses
  <2>5. Holder(x) => e = SubmitEntry
    BY <2>3, <1>1 DEF Holder, IInv, TablesOK
  <2>6. ProcOK(x, provider)
    BY <2>3, <2>4, <2>5, IdleOK DEF ProcOK, IInv, TablesOK
  <2>7. \A q \in Procs : proc'[q] = IF q = w THEN x ELSE proc[q]
    BY <2>1 DEF IInv, TypeOK
  <2>8. TypeOK'
    BY <1>1, <1>2, <2>1, <2>3 DEF IInv, TypeOK
  <2>9. TablesOK(batch', jobs', queue', provider')
    BY <1>2 DEF IInv, TablesOK
  <2>10. TokensOK(batch', queue', proc')
    BY <1>1, <1>2, <2>4, <2>5, <2>7 DEF IInv, TokensOK
  <2>11. MadeOK(batch', queue', proc', made')
    <3>1. Holder(x) => made = 0
      BY <2>5 DEF IInv, MadeOK
    <3>2. Holder(x) => RetryOK(x, made)
      BY <2>3, <3>1, AttemptsAssumption DEF RetryOK
    <3>3. SubmitEntry \in queue' => SubmitEntry \in queue
      BY <1>2
    <3>4. \A q \in Procs : Holder(proc'[q]) => RetryOK(proc'[q], made)
      BY <2>7, <3>2 DEF IInv, MadeOK
    <3> QED BY <1>2, <3>3, <3>4 DEF IInv, MadeOK
  <2> QED BY <1>2, <2>6, <2>7, <2>8, <2>9, <2>10, <2>11 DEF IInv
<1> QED BY <1>3, <1>4

\* A step in which one process moves on to commit an object that ends at "idle" or
\* at one of the points after a commit, with no right to submit.
LEMMA LeavesToken ==
    ASSUME IInv, NEW p \in Procs, NEW x \in Process, Become(p, x),
           x.at \in {"commit", "cancelProvider", "retrieve", "apply"},
           x.run.status # "absent", x.run.providerId => provider.state # "none",
           x.at \in {"cancelProvider", "retrieve"} => x.run.providerId,
           Answered(x.jobs0, provider), Answered(x.jobs, provider),
           UNCHANGED <<batch, jobs, queue, provider, made, cancels>>
    PROVE  IInv'
<1>1. ProcOK(x, provider) /\ ~Holder(x)
  BY DEF ProcOK, Holder
<1> QED BY <1>1, LocalMove, Mover

\* A step that changes the provider's batch, made when no process may still submit.
LEMMA ProviderKeeps ==
    ASSUME IInv, proc' \in [Procs -> Process], UNCHANGED <<batch, jobs, queue, cancels>>, made' \in Nat,
           made' <= 1 + MaxRetries,
           provider' \in ProviderBatch, provider'.state # "none",
           provider'.state \notin ProviderEnds => provider'.lines = NoLines,
           \A j \in Jobs : provider.lines[j] = "ok" => provider'.lines[j] = "ok",
           \A q \in Procs : ProcOK(proc'[q], provider') /\ ~Holder(proc'[q]),
           batch.status # "absent", SubmitEntry \notin queue
    PROVE  IInv'
<1>1. TypeOK'
  BY DEF IInv, TypeOK
<1>2. TablesOK(batch', jobs', queue', provider')
  BY DEF IInv, TablesOK, Answered
<1>3. TokensOK(batch', queue', proc')
  BY DEF TokensOK
<1>4. MadeOK(batch', queue', proc', made')
  BY DEF MadeOK
<1> QED BY <1>1, <1>2, <1>3, <1>4 DEF IInv

\* What a process believes stays well when the provider goes on.
LEMMA ProcOKKept ==
    ASSUME NEW x, NEW pr, NEW pr2, ProcOK(x, pr), ~Holder(x), pr2.state # "none",
           \A j \in Jobs : pr.lines[j] = "ok" => pr2.lines[j] = "ok"
    PROVE  ProcOK(x, pr2)
BY DEF ProcOK, Answered

\* Once the provider has the batch, nobody may submit it.
LEMMA NoHolders ==
    ASSUME IInv, provider.state # "none"
    PROVE  /\ batch.status # "absent" /\ SubmitEntry \notin queue
           /\ \A q \in Procs : ProcOK(proc[q], provider) /\ ~Holder(proc[q])
BY DEF IInv, TablesOK, ProcOK

\* The one process that may submit.
LEMMA OneHolder ==
    ASSUME IInv, NEW p \in Procs, Holder(proc[p])
    PROVE  /\ batch.status # "absent" /\ SubmitEntry \notin queue
           /\ provider.state = "none" /\ provider.lines = NoLines
           /\ \A q \in Procs : q # p => ~Holder(proc[q])
           /\ RetryOK(proc[p], made) /\ made + 1 <= 1 + MaxRetries
<1>1. RetryOK(proc[p], made) /\ made \in Nat /\ proc[p].resent \in Nat
  BY DEF IInv, MadeOK, TypeOK, Process
<1>2. made + 1 <= 1 + MaxRetries
  BY <1>1, AttemptsAssumption DEF RetryOK
<1> QED BY <1>1, <1>2 DEF IInv, TablesOK, TokensOK, ProcOK, ProviderEnds

LEMMA EnqueueFailsKeeps == ASSUME IInv, NEW h \in Handlers, EnqueueFails(h) PROVE IInv'
BY BecomeIdleKeeps, Mover DEF EnqueueFails, Procs

LEMMA GetKeeps == ASSUME IInv, Get PROVE IInv'
<1>1. PICK c \in FreeChains : queue' = queue \cup {PollEntry(c, 0)}
  BY DEF Get
<1>2. PollEntry(c, 0) \in Entry /\ PollEntry(c, 0).task = "poll"
  BY PollEntryOK DEF FreeChains
<1>3. queue' \subseteq Entry /\ (SubmitEntry \in queue' => SubmitEntry \in queue)
  BY <1>1, <1>2, SubmitEntryOK DEF IInv, TypeOK
<1>4. UNCHANGED <<batch, jobs, provider, made, proc, cancels>>
  BY DEF Get
<1>5. TypeOK'
  BY <1>3, <1>4 DEF IInv, TypeOK
<1>6. TablesOK(batch', jobs', queue', provider')
  BY <1>1, <1>2, <1>3, <1>4 DEF IInv, TablesOK
<1>7. TokensOK(batch', queue', proc')
  BY <1>3, <1>4 DEF IInv, TokensOK
<1>8. MadeOK(batch', queue', proc', made')
  BY <1>3, <1>4 DEF IInv, MadeOK
<1> QED BY <1>4, <1>5, <1>6, <1>7, <1>8 DEF IInv

LEMMA StartCancelKeeps == ASSUME IInv, NEW h \in Handlers, StartCancel(h) PROVE IInv'
<1> DEFINE x == [Idle EXCEPT !.at = "cancel", !.run0 = batch, !.run = batch]
<1>1. h \in Procs BY DEF Procs
<1>2. x \in Process /\ x.at = "cancel" /\ x.run = batch /\ x.jobs = Idle.jobs /\ x.jobs0 = Idle.jobs0
  BY <1>1, Mover, IdleOK DEF Idle, Process, Points
<1>3. Become(h, x)
  BY DEF StartCancel
<1>4. batch.status # "absent" /\ UNCHANGED <<batch, jobs, queue, provider, made>>
  BY DEF StartCancel, Open, OpenStatuses
<1>5. cancels' \in 0..MaxCancels
  BY BatchFlagsAssumption, <1>1, Mover DEF StartCancel
<1> HIDE DEF x
<1>6. ProcOK(x, provider) /\ ~Holder(x)
  BY <1>1, <1>2, <1>4, Mover, IdleOK DEF ProcOK, Holder
<1> QED BY <1>1, <1>2, <1>3, <1>4, <1>5, <1>6, LocalMove, Mover

LEMMA CancelRunKeeps == ASSUME IInv, NEW h \in Handlers, CancelRun(h) PROVE IInv'
<1> DEFINE x == [proc[h] EXCEPT !.run.cancelRequested = TRUE]
           y == [x EXCEPT !.at = "commit", !.next = "enqueuePoll", !.run.status = "canceling"]
<1>1. h \in Procs BY DEF Procs
<1>2. proc[h].at = "cancel" /\ UNCHANGED <<batch, jobs, queue, provider, made, cancels>>
      /\ Become(h, IF x.run.status = "queued" THEN Closing(x, "canceled", "canceled") ELSE y)
  BY DEF CancelRun
<1>3. [proc[h].run EXCEPT !.cancelRequested = TRUE] \in Run
  BY <1>1, Mover DEF Run
<1>4. x \in Process
  BY <1>1, <1>3, Mover DEF Process
<1>5. x.jobs = proc[h].jobs /\ x.jobs0 = proc[h].jobs0 /\ x.run.providerId = proc[h].run.providerId
      /\ x.run \in Run
  BY <1>1, <1>3, Mover DEF Process, Run
<1> HIDE DEF x
<1>6. CASE x.run.status = "queued"
  <2>1. LET z == Closing(x, "canceled", "canceled")
        IN  z \in Process /\ ProcOK(z, provider) /\ ~Holder(z)
    BY <1>1, <1>4, <1>5, Mover, ClosingOK
  <2>2. Become(h, Closing(x, "canceled", "canceled")) BY <1>2, <1>6
  <2> QED BY <1>1, <1>2, <2>1, <2>2, LocalMove, Mover
<1>7. CASE x.run.status # "queued"
  <2>1. [x.run EXCEPT !.status = "canceling"] \in Run
    BY <1>5 DEF Run, OpenStatuses
  <2>2. y \in Process
    BY <1>4, <2>1 DEF Process, Points
  <2>3. y.at = "commit" /\ y.run = [x.run EXCEPT !.status = "canceling"] /\ y.jobs = x.jobs /\ y.jobs0 = x.jobs0
    BY <1>4 DEF Process
  <2>4. y.run.status = "canceling" /\ y.run.providerId = x.run.providerId
    BY <1>5, <2>3 DEF Run
  <2>5. Become(h, y) BY <1>2, <1>7
  <2> HIDE DEF y
  <2> QED BY <1>1, <1>2, <1>5, <2>2, <2>3, <2>4, <2>5, Mover, LeavesToken
<1> QED BY <1>6, <1>7

LEMMA EnqueuePollKeeps == ASSUME IInv, NEW h \in Handlers, EnqueuePoll(h) PROVE IInv'
<1>1. h \in Procs BY DEF Procs
<1>2. Become(h, Idle) /\ UNCHANGED <<batch, jobs, provider, made, cancels>>
  BY DEF EnqueuePoll
<1>3. queue' = queue \/ \E c \in FreeChains : queue' = queue \cup {PollEntry(c, 0)}
  BY DEF EnqueuePoll
<1>4. \A c \in FreeChains : PollEntry(c, 0) \in Entry /\ PollEntry(c, 0).task = "poll"
  BY PollEntryOK DEF FreeChains
<1>5. queue' \subseteq Entry /\ \A e \in queue' : e \in queue \/ e.task = "poll"
  BY <1>1, <1>3, <1>4, Mover
<1> QED BY <1>1, <1>2, <1>5, BecomeIdleKeeps

LEMMA StartCancelJobKeeps ==
    ASSUME IInv, NEW h \in Handlers, NEW j \in Jobs, StartCancelJob(h, j) PROVE IInv'
<1> DEFINE table == [AllQueued EXCEPT ![j] = "canceled"]
           x == [Idle EXCEPT !.at = "cancelRow", !.jobs = table]
<1>1. h \in Procs BY DEF Procs
<1>2. table \in JobTable /\ Answered(table, provider)
  BY DEF AllQueued, JobTable, JobEnds, Answered
<1>3. Become(h, x) /\ UNCHANGED <<batch, jobs, queue, provider, made>>
  BY DEF StartCancelJob
<1> HIDE DEF table
<1>4. x \in Process /\ x.at = "cancelRow" /\ x.jobs = table /\ x.jobs0 = Idle.jobs0 /\ x.run = Idle.run
  BY <1>2, IdleOK DEF Idle, Process, Points
<1>5. cancels' \in 0..MaxCancels
  BY BatchFlagsAssumption, <1>1, Mover DEF StartCancelJob
<1> HIDE DEF x
<1>6. ProcOK(x, provider) /\ ~Holder(x)
  BY <1>2, <1>4, IdleOK DEF ProcOK, Holder
<1> QED BY <1>1, <1>3, <1>4, <1>5, <1>6, LocalMove, Mover

LEMMA CancelJobRowKeeps == ASSUME IInv, NEW h \in Handlers, CancelJobRow(h) PROVE IInv'
<1>1. h \in Procs BY DEF Procs
<1>2. Become(h, Idle) /\ UNCHANGED <<batch, queue, provider, made, cancels>>
      /\ jobs' = FlushJobs(proc[h].jobs, proc[h].jobs0, jobs)
  BY DEF CancelJobRow
<1>3. jobs' \in JobTable /\ Answered(jobs', provider)
  BY <1>1, <1>2, Mover, FlushJobsOK
<1> QED BY <1>1, <1>2, <1>3, StepKeeps, IdleOK, Mover DEF Become

\* The submit task marks the run that exists.
LEMMA BeginKeeps == ASSUME IInv, NEW w \in Workers, Begin(w) PROVE IInv'
<1> DEFINE x == proc[w]
           new == [x.run EXCEPT !.status = "submitting"]
           y == [x EXCEPT !.at = "compose", !.run0 = new, !.run = new]
<1>1. w \in Procs BY DEF Procs
<1>2. x.at = "loaded" /\ x.entry.task = "submit" /\ batch' = FlushRun(new, x.run0, batch)
      /\ Become(w, y) /\ UNCHANGED <<jobs, queue, provider, made, cancels>>
  BY DEF Begin, Doing
<1>3. new \in Run /\ new.status = "submitting" /\ new.providerId = x.run.providerId
  BY <1>1, Mover DEF Run, OpenStatuses
<1> HIDE DEF new
<1>4. y \in Process
  BY <1>1, <1>3, Mover DEF Process, Points
<1>5. y.at = "compose" /\ y.run = new /\ y.jobs = x.jobs /\ y.jobs0 = x.jobs0 /\ y.entry = x.entry
      /\ y.resent = x.resent
  BY <1>1, Mover DEF Process
<1> HIDE DEF y
<1>6. /\ batch' \in Run /\ (batch'.status = "absent" => batch.status = "absent")
      /\ batch'.providerId => provider.state # "none"
  BY <1>1, <1>2, <1>3, Mover, FlushRunOK
<1>7. Holder(x) BY <1>2 DEF Holder
<1>8. provider.state = "none" BY <1>1, <1>7, OneHolder
<1>9. ProcOK(y, provider)
  BY <1>1, <1>2, <1>3, <1>5, <1>8, Mover DEF ProcOK
<1>10. RetryOK(y, made)
  BY <1>1, <1>2, <1>5, <1>7, OneHolder DEF RetryOK
<1> QED BY <1>1, <1>2, <1>4, <1>6, <1>7, <1>9, <1>10, StepKeeps, Mover DEF Become

\* Invalid items fail; none completes.
LEMMA ComposeKeeps == ASSUME IInv, NEW w \in Workers, Compose(w) PROVE IInv'
<1> DEFINE x == List(proc[w])
<1>1. w \in Procs BY DEF Procs
<1>2. proc[w].at = "compose" /\ proc[w].entry.task = "submit"
      /\ UNCHANGED <<batch, jobs, queue, provider, made, cancels>>
  BY DEF Compose, Doing
<1>3. x \in Process /\ Answered(x.jobs0, provider) /\ Answered(x.jobs, provider)
      /\ x.entry = proc[w].entry /\ x.run = proc[w].run /\ x.resent = proc[w].resent
  BY <1>1, Mover, ListOK
<1> DEFINE Fail(invalid) == [j \in Jobs |-> IF j \in invalid THEN "failed" ELSE x.jobs[j]]
           Y(invalid) == [x EXCEPT !.jobs = Fail(invalid)]
           Go(y) == IF \E j \in Jobs : y.jobs[j] = "queued"
                    THEN [y EXCEPT !.at = "create"]
                    ELSE [y EXCEPT !.at = "commit", !.run.status = "failed"]
<1>4. PICK invalid \in SUBSET {j \in Jobs : x.jobs[j] = "queued"} : Become(w, Go(Y(invalid)))
  BY Zenon DEF Compose
<1>5. Fail(invalid) \in JobTable /\ Answered(Fail(invalid), provider)
  BY <1>3 DEF Process, JobTable, JobEnds, Answered
<1> DEFINE y == Y(invalid)
<1> HIDE DEF x
<1>6. y \in Process /\ Answered(y.jobs, provider) /\ Answered(y.jobs0, provider)
      /\ y.entry = x.entry /\ y.run = x.run /\ y.resent = x.resent
  BY <1>3, <1>5 DEF Process
<1> HIDE DEF Y
<1>7. Holder(proc[w]) BY <1>2 DEF Holder
<1>8. provider.state = "none" /\ y.run.status # "absent" /\ ~y.run.providerId /\ y.run \in Run
  BY <1>1, <1>2, <1>3, <1>6, <1>7, OneHolder, Mover DEF ProcOK
<1>9. CASE \E j \in Jobs : y.jobs[j] = "queued"
  <2> DEFINE z == [y EXCEPT !.at = "create"]
  <2>1. Become(w, z) BY <1>4, <1>9
  <2>2. z \in Process /\ z.at = "create" /\ z.jobs = y.jobs /\ z.jobs0 = y.jobs0
        /\ z.entry = y.entry /\ z.run = y.run /\ z.resent = y.resent
    BY <1>6 DEF Process, Points
  <2> HIDE DEF z
  <2>3. ProcOK(z, provider)
    BY <1>2, <1>3, <1>6, <1>8, <2>2 DEF ProcOK
  <2>4. RetryOK(z, made)
    BY <1>1, <1>2, <1>3, <1>6, <1>7, <2>2, OneHolder DEF RetryOK
  <2> QED BY <1>1, <1>2, <1>7, <2>1, <2>2, <2>3, <2>4, LocalMove, Mover
<1>10. CASE ~\E j \in Jobs : y.jobs[j] = "queued"
  <2> DEFINE z == [y EXCEPT !.at = "commit", !.run.status = "failed"]
  <2>1. Become(w, z) BY <1>4, <1>10
  <2>2. [y.run EXCEPT !.status = "failed"] \in Run
    BY <1>8 DEF Run, TERMINAL_BATCH_STATUSES
  <2>3. z \in Process /\ z.at = "commit" /\ z.jobs = y.jobs /\ z.jobs0 = y.jobs0
        /\ z.run = [y.run EXCEPT !.status = "failed"]
    BY <1>6, <2>2 DEF Process, Points
  <2>4. z.run.status = "failed" /\ z.run.providerId = y.run.providerId
    BY <1>8, <2>3 DEF Run
  <2> HIDE DEF z
  <2> QED BY <1>1, <1>2, <1>6, <1>8, <2>1, <2>3, <2>4, LeavesToken
<1> QED BY <1>9, <1>10

\* The right to submit is used up by the batch it creates.
LEMMA CreateAtProviderKeeps == ASSUME IInv, NEW w \in Workers, CreateAtProvider(w) PROVE IInv'
<1> DEFINE x == proc[w]
           y == [x EXCEPT !.at = "commit", !.next = "schedule", !.run.providerId = TRUE,
                          !.run.status = StatusFromProvider["validating"], !.resent = 0]
           run == [x.run EXCEPT !.providerId = TRUE, !.status = StatusFromProvider["validating"]]
<1>1. w \in Procs BY DEF Procs
<1>2. x.at = "create" /\ Become(w, y) /\ UNCHANGED <<batch, jobs, queue, cancels>>
      /\ provider' = [state |-> "validating", items |-> {j \in Jobs : x.jobs[j] = "queued"}, lines |-> NoLines]
      /\ made' = made + 1
  BY DEF CreateAtProvider
<1>3. Holder(x) BY <1>1, <1>2, Mover DEF ProcOK, Holder
<1>4. StatusFromProvider["validating"] = "submitted"
  BY DEF StatusFromProvider
<1>5. run \in Run /\ run.status = "submitted"
  BY <1>1, <1>4, Mover DEF Run, OpenStatuses
<1>6. y \in Process /\ y.at = "commit" /\ y.run = run /\ y.jobs = x.jobs /\ y.jobs0 = x.jobs0
  <2>1. y = [x EXCEPT !.at = "commit", !.next = "schedule", !.run = run, !.resent = 0]
    BY <1>1, Mover DEF Process
  <2> HIDE DEF y, run
  <2> QED BY <1>1, <1>5, <2>1, Mover DEF Process, Points
<1> HIDE DEF y, run
<1>7. provider' \in ProviderBatch /\ provider'.state = "validating" /\ provider'.lines = NoLines
      /\ provider.lines = NoLines
  BY <1>1, <1>2, <1>3, OneHolder DEF ProviderBatch, StatusFromProvider, NoLines
<1>8. ProcOK(y, provider') /\ ~Holder(y)
  BY <1>1, <1>5, <1>6, <1>7, Mover DEF ProcOK, Holder, Answered
<1>9. \A q \in Procs : proc'[q] = IF q = w THEN y ELSE proc[q]
  BY <1>2 DEF Become, IInv, TypeOK
<1>10. \A q \in Procs : ProcOK(proc'[q], provider') /\ ~Holder(proc'[q])
  <2> SUFFICES ASSUME NEW q \in Procs PROVE ProcOK(proc'[q], provider') /\ ~Holder(proc'[q])
    OBVIOUS
  <2>1. CASE q = w BY <1>8, <1>9, <2>1
  <2>2. CASE q # w
    <3>1. proc'[q] = proc[q] /\ ~Holder(proc[q]) /\ ProcOK(proc[q], provider)
      BY <1>1, <1>3, <1>9, <2>2, OneHolder, Mover
    <3> QED BY <3>1, <1>7, ProcOKKept
  <2> QED BY <2>1, <2>2
<1>11. proc' \in [Procs -> Process]
  BY <1>2, <1>6 DEF Become, IInv, TypeOK
<1> QED BY <1>1, <1>2, <1>3, <1>7, <1>10, <1>11, Mover, OneHolder, ProviderKeeps

\* The client sends the request again; the right to submit stays where it is.
LEMMA CreateAgainKeeps == ASSUME IInv, NEW w \in Workers, CreateAgain(w) PROVE IInv'
<1> DEFINE x == proc[w]
           y == [x EXCEPT !.resent = @ + 1]
<1>1. w \in Procs BY DEF Procs
<1>2. x.at = "create" /\ Become(w, y) /\ MayHaveCreated(w) /\ UNCHANGED <<batch, jobs, queue, provider, cancels>>
  BY DEF CreateAgain
<1>3. y \in Process /\ y.at = "create" /\ y.entry = x.entry /\ y.run = x.run /\ y.jobs = x.jobs
      /\ y.jobs0 = x.jobs0 /\ y.resent = x.resent + 1
  BY <1>1, <1>2, Mover DEF Process
<1> HIDE DEF y
<1>4. Holder(y) /\ Holder(x) /\ ProcOK(y, provider)
  BY <1>1, <1>2, <1>3, Mover DEF ProcOK, Holder
<1>5. made' \in {made, made + 1}
  BY <1>2 DEF MayHaveCreated
<1>6. x.resent < MaxRetries /\ x.resent \in Nat /\ made \in Nat /\ made <= x.resent
  BY <1>1, <1>4, Mover, OneHolder DEF CreateAgain, Process, RetryOK
<1>7. RetryOK(y, made')
  BY <1>3, <1>5, <1>6, AttemptsAssumption DEF RetryOK
<1> QED BY <1>1, <1>2, <1>3, <1>4, <1>5, <1>7, LocalMove, Mover

LEMMA CreateAnswerLostKeeps == ASSUME IInv, NEW w \in Workers, CreateAnswerLost(w) PROVE IInv'
<1> DEFINE y == Closing(proc[w], "failed", "failed")
<1>1. w \in Procs BY DEF Procs
<1>2. proc[w].at = "create" /\ Become(w, y) /\ made' = made + 1 /\ UNCHANGED <<batch, jobs, queue, provider, cancels>>
  BY DEF CreateAnswerLost
<1>3. y \in Process /\ ProcOK(y, provider) /\ ~Holder(y)
  BY <1>1, Mover, ClosingOK
<1> HIDE DEF y
<1> QED BY <1>1, <1>2, <1>3, LocalMove, Mover

LEMMA PollTooEarlyKeeps == ASSUME IInv, NEW w \in Workers, PollTooEarly(w) PROVE IInv'
<1> DEFINE e == proc[w].entry
           next == PollEntry(e.chain, e.attempt + 1)
<1>1. w \in Procs BY DEF Procs
<1>2. Become(w, Idle) /\ queue' = queue \cup {next} /\ UNCHANGED <<batch, jobs, provider, made, cancels>>
  BY DEF PollTooEarly
<1>3. e.chain \in Chains \cup {MainChain} /\ e.attempt + 1 \in Nat
  BY <1>1, Mover, AttemptsAssumption DEF Entry
<1>4. next \in Entry /\ next.task = "poll"
  BY <1>3, PollEntryOK
<1> HIDE DEF next
<1>5. queue' \subseteq Entry /\ \A d \in queue' : d \in queue \/ d.task = "poll"
  BY <1>1, <1>2, <1>4, Mover
<1> QED BY <1>1, <1>2, <1>5, BecomeIdleKeeps

LEMMA PollWithoutIdKeeps == ASSUME IInv, NEW w \in Workers, PollWithoutId(w) PROVE IInv'
<1> DEFINE x == proc[w]
           y == [x EXCEPT !.at = "commit", !.next = "idle", !.run.status = "failed"]
           run == [x.run EXCEPT !.status = "failed"]
<1>1. w \in Procs BY DEF Procs
<1>2. Become(w, y) /\ UNCHANGED <<batch, jobs, queue, provider, made, cancels>>
  BY DEF PollWithoutId
<1>3. run \in Run /\ run.status = "failed" /\ run.providerId = x.run.providerId
  BY <1>1, Mover DEF Run, TERMINAL_BATCH_STATUSES
<1>4. y \in Process /\ y.at = "commit" /\ y.run = run /\ y.jobs = x.jobs /\ y.jobs0 = x.jobs0
  BY <1>1, <1>3, Mover DEF Process, Points
<1> HIDE DEF y, run
<1> QED BY <1>1, <1>2, <1>3, <1>4, Mover, LeavesToken

LEMMA PollTimeoutKeeps == ASSUME IInv, NEW w \in Workers, PollTimeout(w) PROVE IInv'
<1> DEFINE y == Closing(proc[w], "failed", "failed")
<1>1. w \in Procs BY DEF Procs
<1>2. Become(w, y) /\ UNCHANGED <<batch, jobs, queue, provider, made, cancels>>
  BY DEF PollTimeout
<1>3. y \in Process /\ ProcOK(y, provider) /\ ~Holder(y)
  BY <1>1, Mover, ClosingOK
<1> HIDE DEF y
<1> QED BY <1>1, <1>2, <1>3, LocalMove, Mover

LEMMA PollProviderKeeps == ASSUME IInv, NEW w \in Workers, PollProvider(w) PROVE IInv'
<1> DEFINE x == proc[w]
           at == IF x.run.cancelRequested THEN "cancelProvider" ELSE "retrieve"
           y == [x EXCEPT !.at = at]
<1>1. w \in Procs BY DEF Procs
<1>2. x.at = "loaded" /\ x.run.providerId /\ Become(w, y) /\ UNCHANGED <<batch, jobs, queue, provider, made, cancels>>
  BY DEF PollProvider, Doing
<1>3. at \in {"cancelProvider", "retrieve"} OBVIOUS
<1> HIDE DEF at
<1>4. y \in Process /\ y.at = at /\ y.run = x.run /\ y.jobs = x.jobs /\ y.jobs0 = x.jobs0
  BY <1>1, <1>3, Mover DEF Process, Points
<1>5. x.run.status # "absent"
  BY <1>1, <1>2, Mover DEF ProcOK
<1> HIDE DEF y
<1> QED BY <1>1, <1>2, <1>3, <1>4, <1>5, Mover, LeavesToken

LEMMA CancelAtProviderKeeps == ASSUME IInv, NEW w \in Workers, CancelAtProvider(w) PROVE IInv'
<1> DEFINE x == proc[w]
           y == [x EXCEPT !.at = "retrieve"]
<1>1. w \in Procs BY DEF Procs
<1>2. x.at = "cancelProvider" /\ Become(w, y) /\ UNCHANGED <<batch, jobs, queue, made, cancels>>
  BY DEF CancelAtProvider
<1>3. x.run.providerId /\ provider.state # "none" /\ x.run.status # "absent"
  BY <1>1, <1>2, Mover DEF ProcOK
<1>4. /\ provider' \in ProviderBatch /\ provider'.lines = provider.lines
      /\ provider' = provider \/ (provider'.state = "cancelling" /\ provider.state \notin ProviderEnds)
  BY <1>1, Mover DEF CancelAtProvider, ProviderBatch, StatusFromProvider, ProviderEnds
<1>5. y \in Process /\ y.at = "retrieve" /\ y.run = x.run /\ y.jobs = x.jobs /\ y.jobs0 = x.jobs0
  BY <1>1, Mover DEF Process, Points
<1> HIDE DEF y
<1>6. ProcOK(y, provider) /\ ~Holder(y)
  BY <1>1, <1>3, <1>5, Mover DEF ProcOK, Holder
<1>7. \A q \in Procs : proc'[q] = IF q = w THEN y ELSE proc[q]
  BY <1>2 DEF Become, IInv, TypeOK
<1>8. provider'.state # "none" /\ (provider'.state \notin ProviderEnds => provider'.lines = NoLines)
  BY <1>3, <1>4 DEF IInv, TablesOK
<1>9. \A q \in Procs : ProcOK(proc'[q], provider') /\ ~Holder(proc'[q])
  <2> SUFFICES ASSUME NEW q \in Procs PROVE ProcOK(proc'[q], provider') /\ ~Holder(proc'[q])
    OBVIOUS
  <2>1. ProcOK(proc'[q], provider) /\ ~Holder(proc'[q])
    BY <1>3, <1>6, <1>7, NoHolders
  <2> QED BY <2>1, <1>4, <1>8, ProcOKKept
<1>10. proc' \in [Procs -> Process]
  BY <1>2, <1>5 DEF Become, IInv, TypeOK
<1>11. made' \in Nat /\ made' <= 1 + MaxRetries
  BY <1>2 DEF IInv, TypeOK, MadeOK
<1> QED BY <1>1, <1>2, <1>3, <1>4, <1>8, <1>9, <1>10, <1>11, NoHolders, ProviderKeeps

LEMMA RetrieveKeeps == ASSUME IInv, NEW w \in Workers, Retrieve(w) PROVE IInv'
<1> DEFINE x == List(proc[w])
           status == StatusFromProvider[provider.state]
           run == [x.run EXCEPT !.status = status]
           y == [x EXCEPT !.at = "apply", !.run.status = status]
<1>1. w \in Procs BY DEF Procs
<1>2. proc[w].at = "retrieve" /\ Become(w, y) /\ UNCHANGED <<batch, jobs, queue, provider, made, cancels>>
  BY DEF Retrieve
<1>3. x \in Process /\ Answered(x.jobs0, provider) /\ Answered(x.jobs, provider) /\ x.run = proc[w].run
  BY <1>1, Mover, ListOK
<1>4. provider.state # "none" /\ x.run.providerId
  BY <1>1, <1>2, <1>3, Mover DEF ProcOK
<1>5. status \in OpenStatuses \cup TERMINAL_BATCH_STATUSES
  BY <1>1, <1>4, Mover DEF ProviderBatch, StatusFromProvider, OpenStatuses, TERMINAL_BATCH_STATUSES
<1> HIDE DEF status, x
<1>6. run \in Run /\ run.status = status /\ run.providerId = x.run.providerId
  BY <1>3, <1>5 DEF Process, Run
<1>7. status # "absent"
  BY <1>5 DEF OpenStatuses, TERMINAL_BATCH_STATUSES
<1>8. y \in Process /\ y.at = "apply" /\ y.run = run /\ y.jobs = x.jobs /\ y.jobs0 = x.jobs0
  BY <1>3, <1>6 DEF Process, Points
<1> HIDE DEF y, run
<1> QED BY <1>1, <1>2, <1>3, <1>4, <1>6, <1>7, <1>8, LeavesToken

\* An answer line completes its job; the save writes what the session holds.
LEMMA ApplyLineKeeps ==
    ASSUME IInv, NEW w \in Workers, NEW j \in Jobs, ApplyLine(w, j) PROVE IInv'
<1> DEFINE x == proc[w]
           table == [x.jobs EXCEPT ![j] = LineOutcome(provider.lines[j])]
           y == [x EXCEPT !.jobs[j] = LineOutcome(provider.lines[j])]
           saves == AutoSave /\ y.jobs[j] = "completed"
           z == [y EXCEPT !.run0 = x.run, !.jobs0 = y.jobs]
<1>1. w \in Procs BY DEF Procs
<1>2. x.at = "apply" /\ UNCHANGED <<queue, provider, made, cancels>>
  BY DEF ApplyLine
<1>3. table \in JobTable /\ Answered(table, provider)
  BY <1>1, Mover DEF LineOutcome, JobTable, JobEnds, Answered
<1>4. y \in Process /\ y.at = "apply" /\ y.run = x.run /\ y.jobs = table /\ y.jobs0 = x.jobs0
  BY <1>1, <1>2, <1>3, Mover DEF Process
<1>5. x.run.status # "absent" BY <1>1, <1>2, Mover DEF ProcOK
<1>6. CASE saves
  <2>1. batch' = FlushRun(x.run, x.run0, batch) /\ jobs' = FlushJobs(y.jobs, x.jobs0, jobs) /\ Become(w, z)
    BY <1>6, Zenon DEF ApplyLine
  <2> HIDE DEF y, table
  <2>2. z \in Process /\ z.at = "apply" /\ z.run = x.run /\ z.jobs = table /\ z.jobs0 = table
    BY <1>1, <1>3, <1>4, Mover DEF Process
  <2> HIDE DEF z
  <2>3. ProcOK(z, provider) /\ ~Holder(z)
    BY <1>1, <1>3, <1>5, <2>2, Mover DEF ProcOK, Holder
  <2>4. /\ batch' \in Run /\ (batch'.status = "absent" => batch.status = "absent")
        /\ batch'.providerId => provider.state # "none"
    BY <1>1, <1>5, <2>1, Mover, FlushRunOK
  <2>5. jobs' \in JobTable /\ Answered(jobs', provider)
    BY <1>1, <1>3, <1>4, <2>1, Mover, FlushJobsOK
  <2> QED BY <1>1, <1>2, <2>1, <2>2, <2>3, <2>4, <2>5, StepKeeps, Mover DEF Become
<1>7. CASE ~saves
  <2>1. Become(w, y) /\ UNCHANGED <<batch, jobs>>
    BY <1>7, Zenon DEF ApplyLine
  <2> HIDE DEF y, table
  <2> QED BY <1>1, <1>2, <1>3, <1>4, <1>5, <2>1, Mover, LeavesToken
<1> QED BY <1>6, <1>7

LEMMA FinishKeeps == ASSUME IInv, NEW w \in Workers, Finish(w) PROVE IInv'
<1> DEFINE x == proc[w]
           ended == x.run.status \in TERMINAL_BATCH_STATUSES
           end == IF x.run.status = "canceled" \/ x.run.cancelRequested THEN "canceled" ELSE "failed"
           next == IF ended THEN "idle" ELSE "schedule"
           table == IF ended THEN EndQueued(x.jobs, end) ELSE x.jobs
           y == [x EXCEPT !.at = "commit", !.next = next, !.jobs = table]
<1>1. w \in Procs BY DEF Procs
<1>2. x.at = "apply" /\ Become(w, y) /\ UNCHANGED <<batch, jobs, queue, provider, made, cancels>>
  BY DEF Finish
<1>3. end \in {"failed", "canceled"} /\ next \in {"idle", "schedule"} OBVIOUS
<1> HIDE DEF end, next
<1>4. table \in JobTable /\ Answered(table, provider)
  BY <1>1, <1>3, Mover, EndQueuedOK
<1> HIDE DEF table
<1>5. y \in Process /\ y.at = "commit" /\ y.run = x.run /\ y.jobs = table /\ y.jobs0 = x.jobs0
  BY <1>1, <1>3, <1>4, Mover DEF Process, Points
<1>6. x.run.status # "absent" BY <1>1, <1>2, Mover DEF ProcOK
<1> HIDE DEF y
<1> QED BY <1>1, <1>2, <1>4, <1>5, <1>6, Mover, LeavesToken

LEMMA ScheduleKeeps == ASSUME IInv, NEW w \in Workers, Schedule(w) PROVE IInv'
<1> DEFINE e == proc[w].entry
           attempt == IF e.task = "submit" THEN 0 ELSE e.attempt + 1
           next == PollEntry(e.chain, attempt)
<1>1. w \in Procs BY DEF Procs
<1>2. Become(w, Idle) /\ queue' = queue \cup {next} /\ UNCHANGED <<batch, jobs, provider, made, cancels>>
  BY DEF Schedule
<1>3. e.chain \in Chains \cup {MainChain} /\ attempt \in Nat
  BY <1>1, Mover, AttemptsAssumption DEF Entry
<1>4. next \in Entry /\ next.task = "poll"
  BY <1>3, PollEntryOK
<1> HIDE DEF next
<1>5. queue' \subseteq Entry /\ \A d \in queue' : d \in queue \/ d.task = "poll"
  BY <1>1, <1>2, <1>4, Mover
<1> QED BY <1>1, <1>2, <1>5, BecomeIdleKeeps

\* The provider works on the batch it has and ends it once, with its lines.
LEMMA ProviderMoves ==
    ASSUME provider \in ProviderBatch, ProviderStep
    PROVE  /\ provider.state \in {"validating", "in_progress", "cancelling"}
           /\ provider' \in ProviderBatch /\ provider'.state # "none"
           /\ provider'.items = provider.items
           /\ provider'.state \in ProviderEnds \/ provider'.lines = provider.lines
           /\ \A j \in Jobs : provider'.lines[j] # "none" => j \in provider.items \/ provider.lines[j] # "none"
<1> DEFINE To(end, lines) == [provider EXCEPT !.state = end, !.lines = lines]
<1>1. \/ provider.state = "validating" /\ provider' = [provider EXCEPT !.state = "in_progress"]
      \/ \E end \in ProviderEnds, lines \in [Jobs -> {"none", "ok", "bad"}] :
            /\ provider.state \in IF end = "cancelled" THEN {"cancelling"} ELSE {"in_progress", "cancelling"}
            /\ \A j \in Jobs : lines[j] # "none" => j \in provider.items
            /\ provider' = To(end, lines)
  BY Zenon DEF ProviderStep
<1>2. ASSUME NEW end \in ProviderEnds, NEW lines \in [Jobs -> {"none", "ok", "bad"}]
      PROVE  /\ To(end, lines) \in ProviderBatch /\ To(end, lines).state = end
             /\ To(end, lines).items = provider.items /\ To(end, lines).lines = lines
  BY DEF ProviderBatch, StatusFromProvider
<1> HIDE DEF To
<1>3. CASE provider.state = "validating" /\ provider' = [provider EXCEPT !.state = "in_progress"]
  BY <1>3 DEF ProviderBatch, StatusFromProvider
<1>4. ASSUME NEW end \in ProviderEnds, NEW lines \in [Jobs -> {"none", "ok", "bad"}],
             provider.state \in IF end = "cancelled" THEN {"cancelling"} ELSE {"in_progress", "cancelling"},
             \A j \in Jobs : lines[j] # "none" => j \in provider.items,
             provider' = To(end, lines)
      PROVE  /\ provider.state \in {"in_progress", "cancelling"}
             /\ provider' \in ProviderBatch /\ provider'.state \in ProviderEnds
             /\ provider'.items = provider.items
             /\ \A j \in Jobs : provider'.lines[j] # "none" => j \in provider.items
  BY <1>2, <1>4
<1>5. "none" \notin ProviderEnds BY DEF ProviderEnds
<1> QED BY <1>1, <1>3, <1>4, <1>5

LEMMA ProviderStepKeeps == ASSUME IInv, ProviderStep PROVE IInv'
<1>1. UNCHANGED <<batch, jobs, queue, made, proc, cancels>>
  BY Zenon DEF ProviderStep
<1>2. provider \in ProviderBatch /\ (provider.state \notin ProviderEnds => provider.lines = NoLines)
  BY DEF IInv, TypeOK, TablesOK
<1>3. provider.state \in {"validating", "in_progress", "cancelling"}
  BY <1>2, ProviderMoves
<1>4. /\ provider' \in ProviderBatch /\ provider'.state # "none"
      /\ provider'.state \notin ProviderEnds => provider'.lines = NoLines
  BY <1>2, <1>3, ProviderMoves DEF ProviderEnds
<1>5. \A j \in Jobs : provider.lines[j] = "ok" => provider'.lines[j] = "ok"
  BY <1>2, <1>3 DEF NoLines, ProviderEnds
<1>6. /\ batch.status # "absent" /\ SubmitEntry \notin queue
      /\ \A q \in Procs : ProcOK(proc[q], provider) /\ ~Holder(proc[q])
  BY <1>3, NoHolders
<1>7. \A q \in Procs : ProcOK(proc'[q], provider') /\ ~Holder(proc'[q])
  BY <1>1, <1>4, <1>5, <1>6, ProcOKKept
<1>8. proc' \in [Procs -> Process]
  BY <1>1 DEF IInv, TypeOK
<1>9. made' \in Nat /\ made' <= 1 + MaxRetries
  BY <1>1 DEF IInv, TypeOK, MadeOK
<1> QED BY <1>1, <1>4, <1>5, <1>6, <1>7, <1>8, <1>9, ProviderKeeps

LEMMA TaskFailsKeeps == ASSUME IInv, NEW w \in Workers, TaskFails(w) PROVE IInv'
<1> DEFINE y == Closing(proc[w], "failed", "failed")
<1>1. w \in Procs BY DEF Procs
<1>2. (Become(w, y) \/ Become(w, Idle)) /\ MayHaveCreated(w)
      /\ UNCHANGED <<batch, jobs, queue, provider, cancels>>
  BY DEF TaskFails
<1>3. y \in Process /\ ProcOK(y, provider) /\ ~Holder(y)
  BY <1>1, Mover, ClosingOK
<1> HIDE DEF y
<1>4. made' = made \/ (made' = made + 1 /\ proc[w].at = "create")
  BY <1>2 DEF MayHaveCreated
<1> QED BY <1>1, <1>2, <1>3, <1>4, IdleOK, LocalMove, Mover

LEMMA CrashKeeps == ASSUME IInv, NEW p \in Procs, Crash(p) PROVE IInv'
BY IdleOK, LocalMove, Mover DEF Crash, MayHaveCreated

-----------------------------------------------------------------------------
(* The theorems.                                                           *)

LEMMA InitOK == Init => IInv
<1> SUFFICES ASSUME Init PROVE IInv OBVIOUS
<1>1. NoRun \in Run /\ ~NoRun.providerId /\ NoRun.status = "absent" /\ AllQueued \in JobTable
  BY IdleOK DEF Idle, Process, NoRun
<1>2. provider \in ProviderBatch /\ provider.state = "none" /\ provider.lines = NoLines
  BY DEF Init, ProviderBatch, NoLines
<1>3. \A p \in Procs : proc[p] \in Process /\ ProcOK(proc[p], provider) /\ ~Holder(proc[p])
  BY IdleOK DEF Init
<1>4. TypeOK
  BY <1>1, <1>2, IdleOK, BatchFlagsAssumption DEF Init, TypeOK
<1>5. TablesOK(batch, jobs, queue, provider)
  BY <1>1, <1>2 DEF Init, TablesOK, Answered, AllQueued
<1>6. TokensOK(batch, queue, proc)
  BY <1>3 DEF TokensOK
<1>7. MadeOK(batch, queue, proc, made)
  BY <1>3, AttemptsAssumption DEF Init, MadeOK
<1> QED BY <1>3, <1>4, <1>5, <1>6, <1>7 DEF IInv

LEMMA StutterKeeps == ASSUME IInv, UNCHANGED vars PROVE IInv'
BY DEF IInv, TypeOK, ProcOK, TablesOK, TokensOK, MadeOK, RetryOK, Holder, vars

LEMMA HandleKeeps == ASSUME IInv, NEW h \in Handlers, Handle(h) PROVE IInv'
BY CreateKeeps, EnqueueKeeps, CancelRunKeeps, EnqueuePollKeeps, CancelJobRowKeeps DEF Handle

LEMMA WorkKeeps == ASSUME IInv, NEW w \in Workers, Work(w) PROVE IInv'
BY TakeKeeps, BeginKeeps, ComposeKeeps, CreateAtProviderKeeps, PollTooEarlyKeeps,
   PollWithoutIdKeeps, PollTimeoutKeeps, PollProviderKeeps, CancelAtProviderKeeps, RetrieveKeeps,
   ApplyLineKeeps, FinishKeeps, ScheduleKeeps
DEF Work

LEMMA ClientKeeps == ASSUME IInv, Client PROVE IInv'
BY GetKeeps, StartCancelKeeps, StartCancelJobKeeps DEF Client

LEMMA FaultKeeps == ASSUME IInv, Fault PROVE IInv'
BY CreateAgainKeeps, CreateAnswerLostKeeps, TaskFailsKeeps, EnqueueFailsKeeps, CrashKeeps DEF Fault

LEMMA StepOK == IInv /\ [Next]_vars => IInv'
<1> SUFFICES ASSUME IInv, [Next]_vars PROVE IInv' OBVIOUS
<1>1. CASE \E h \in Handlers : Handle(h) BY <1>1, HandleKeeps
<1>2. CASE \E w \in Workers : Work(w) BY <1>2, WorkKeeps
<1>3. CASE \E p \in Procs : Commit(p) BY <1>3, CommitKeeps
<1>4. CASE Client BY <1>4, ClientKeeps
<1>5. CASE ProviderStep BY <1>5, ProviderStepKeeps
<1>6. CASE Fault BY <1>6, FaultKeeps
<1>7. CASE Rest BY <1>7, StutterKeeps DEF Rest
<1>8. CASE UNCHANGED vars BY <1>8, StutterKeeps
<1> QED BY <1>1, <1>2, <1>3, <1>4, <1>5, <1>6, <1>7, <1>8 DEF Next

\* The invariant holds in every reachable state, whatever handlers, workers,
\* polls, cancels and faults interleave.
THEOREM Inductive == Spec => []IInv
<1> QED BY InitOK, StepOK, PTL DEF Spec

\* Every value the rows, the RQ entries and the sessions hold is one the columns
\* and the tasks allow (models.py, provider_batches.py).
THEOREM TypeCorrect == Spec => []TypeOK
<1>1. IInv => TypeOK BY DEF IInv
<1> QED BY Inductive, <1>1, PTL

\* A job is completed only with an answer of the provider, whatever polls,
\* cancels and failures overwrite each other (provider_batches.py 497-553).
THEOREM AnsweredOnly == Spec => []CompletedWasAnswered
<1>1. IInv => CompletedWasAnswered
  BY DEF IInv, TablesOK, Answered, CompletedWasAnswered
<1> QED BY Inductive, <1>1, PTL

\* The batches of a run are all made by the requests of one execution of the submit
\* task, although that task checks nothing but a status others write, and their number
\* is bounded by the retries of the client (provider_batches.py 614-740, 656-663).  Once
\* the task has been given an id, no batch is made and the one it polls is kept.
THEOREM ProviderBatchIsKept == Spec => SubmittedByOneTask
<1> DEFINE Kept == provider.state # "none" => UNCHANGED <<made, provider.items>>
           Bounded == made' <= 1 + MaxRetries
<1>1. IInv /\ [Next]_vars => Kept
  <2> SUFFICES ASSUME IInv, [Next]_vars, provider.state # "none"
               PROVE  UNCHANGED <<made, provider.items>>
    OBVIOUS
  <2>1. CASE UNCHANGED <<made, provider>> BY <2>1
  <2>2. CASE ProviderStep
    <3>1. UNCHANGED made BY <2>2, Zenon DEF ProviderStep
    <3> QED BY <2>2, <3>1, ProviderMoves DEF IInv, TypeOK
  <2>3. ASSUME NEW w \in Workers, CancelAtProvider(w) PROVE UNCHANGED <<made, provider.items>>
    BY <2>3 DEF CancelAtProvider, IInv, TypeOK, ProviderBatch
  <2>4. ASSUME NEW p \in Procs PROVE proc[p].at # "create"
    BY NoHolders DEF ProcOK, Holder
  <2>5. ASSUME NEW w \in Workers, Work(w), ~CancelAtProvider(w) PROVE UNCHANGED <<made, provider>>
    BY <2>4, <2>5
    DEF Work, Take, Begin, Compose, CreateAtProvider, PollTooEarly, PollWithoutId, PollTimeout,
        PollProvider, Retrieve, ApplyLine, Finish, Schedule, Procs
  <2>6. ASSUME NEW h \in Handlers, Handle(h) PROVE UNCHANGED <<made, provider>>
    BY <2>6 DEF Handle, Create, Enqueue, CancelRun, EnqueuePoll, CancelJobRow
  <2>7. ASSUME NEW p \in Procs, Commit(p) PROVE UNCHANGED <<made, provider>>
    BY <2>7 DEF Commit
  <2>8. CASE Client
    BY <2>8, Zenon DEF Client, Get, StartCancel, StartCancelJob
  <2>9. CASE Fault
    BY <2>4, <2>9
    DEF Fault, CreateAgain, CreateAnswerLost, TaskFails, EnqueueFails, Crash, MayHaveCreated, Procs
  <2>10. CASE Rest \/ UNCHANGED vars
    BY <2>10 DEF Rest, vars
  <2> QED BY <2>1, <2>2, <2>3, <2>5, <2>6, <2>7, <2>8, <2>9, <2>10 DEF Next
<1>2. IInv' => Bounded
  BY DEF IInv, MadeOK
<1>3. IInv /\ [Next]_vars => [Bounded /\ Kept]_vars
  BY <1>1, <1>2, StepOK
<1> QED BY Inductive, <1>3, PTL DEF Spec, SubmittedByOneTask

\* Once no session is open, a closed run with ended jobs is left alone for ever:
\* late polls and repeated cancels open no session that writes, and the provider
\* is given nothing (provider_batches.py 365-366, 618-619, 764-765; public.py 355-369).
THEOREM QuietRunIsFinal == Spec => QuietIsFinal
<1> DEFINE Over == Closed /\ AllEnded /\ Quiet
           Same == UNCHANGED <<batch, jobs, proc, made, provider.items>>
<1>1. IInv /\ [Next]_vars => (Over => Same)
  <2> SUFFICES ASSUME IInv, [Next]_vars, Over PROVE Same
    OBVIOUS
  <2>1. ~Open /\ batch.status # "absent"
    BY DEF Closed, Open, OpenStatuses, TERMINAL_BATCH_STATUSES
  <2>2. \A j \in Jobs : jobs[j] # "queued"
    BY DEF AllEnded, JobEnds
  <2>3. \A p \in Procs : proc[p].at = "idle"
    BY DEF Quiet
  <2>4. ASSUME NEW h \in Handlers PROVE ~Handle(h)
    BY <2>1, <2>3 DEF Handle, Create, Enqueue, CancelRun, EnqueuePoll, CancelJobRow, Procs
  <2>5. ASSUME NEW w \in Workers, Work(w) PROVE Same
    <3>1. PICK e \in queue : Take(w, e)
      BY <2>3, <2>5
      DEF Work, Doing, Begin, Compose, CreateAtProvider, PollTooEarly, PollWithoutId, PollTimeout,
          PollProvider, CancelAtProvider, Retrieve, ApplyLine, Finish, Schedule, Procs
    <3> QED BY <2>1, <3>1 DEF Take
  <2>6. ASSUME NEW p \in Procs PROVE ~Commit(p)
    BY <2>3 DEF Commit
  <2>7. ~Client
    <3>1. ~Get BY <2>1, Zenon DEF Get
    <3>2. \A h \in Handlers : ~StartCancel(h) BY <2>1, Zenon DEF StartCancel
    <3>3. \A h \in Handlers, j \in Jobs : ~StartCancelJob(h, j) BY <2>2, Zenon DEF StartCancelJob
    <3> QED BY <3>1, <3>2, <3>3 DEF Client
  <2>8. CASE ProviderStep
    <3>1. UNCHANGED <<batch, jobs, made, proc>> BY <2>8, Zenon DEF ProviderStep
    <3> QED BY <2>8, <3>1, ProviderMoves DEF IInv, TypeOK
  <2>9. ~Fault
    BY <2>3 DEF Fault, CreateAgain, CreateAnswerLost, TaskFails, EnqueueFails, Crash, Procs
  <2>10. CASE Rest \/ UNCHANGED vars
    BY <2>10 DEF Rest, vars
  <2> QED BY <2>4, <2>5, <2>6, <2>7, <2>8, <2>9, <2>10 DEF Next
<1>2. IInv /\ [Next]_vars => [Over => Same]_vars
  BY <1>1
<1> QED BY Inductive, <1>2, PTL DEF Spec, QuietIsFinal
-----------------------------------------------------------------------------
(* One RQ worker.  The worker that has the run open is then the only one    *)
(* that writes it, but for the cancels of the handlers: as long as nobody   *)
(* cancels, the row has the status it loaded, and a run is closed only by a *)
(* commit that ends the jobs with it, or shortly before that commit.        *)

\* One RQ worker serves the queue.
OneWorker == \A v, w \in Workers : v = w

\* No task is cut short, and every terminal poll reads the whole output.
NotCut == Faults \cap {"crash", "timeout"} = {}
AllRead == Faults \cap {"download", "timeout"} = {}

WorkerPoints == {"idle", "loaded", "compose", "create", "cancelProvider", "retrieve", "apply", "commit", "schedule"}
HandlerPoints == {"idle", "enqueue", "cancel", "commit", "enqueuePoll", "cancelRow"}

Ended(table) == \A j \in Jobs : table[j] # "queued"

\* A session in state x, when the rows are b and table: what it loaded is not ahead
\* of the rows, it only ends queued jobs, and it knows an open run until it closes it.
SessionOK(x, b, table) ==
    /\ \A j \in Jobs : x.jobs0[j] # "queued" => x.jobs[j] = x.jobs0[j] /\ table[j] # "queued"
    /\ x.run0.providerId => x.run.providerId /\ b.providerId
    /\ x.run0.cancelRequested => x.run.cancelRequested /\ b.cancelRequested
    /\ ~x.listed /\ x.at # "cancelRow" => x.jobs = x.jobs0
    /\ x.at \in {"create", "apply"} => x.listed
    /\ x.at \in {"loaded", "compose", "create", "cancelProvider", "retrieve", "schedule", "cancel"}
          => x.run.status \in OpenStatuses
    /\ x.at \in {"compose", "create", "apply", "commit", "schedule"} => x.run.status # "queued"
    /\ x.at \in {"loaded", "compose", "create", "cancelProvider", "retrieve", "apply", "cancel"} => x.next = "idle"
    /\ x.at = "commit" => (x.next = "idle" <=> x.run.status \in TERMINAL_BATCH_STATUSES)
    /\ x.at = "apply" => x.run.providerId
    /\ x.at = "schedule" => x.run0.providerId
    /\ NotCut /\ x.at = "commit" /\ x.run.status \in TERMINAL_BATCH_STATUSES
          => \A j \in Jobs : x.jobs[j] # "queued" \/ table[j] # "queued"

\* A failed job has no answer in the provider's output, and will have none.
Kept(table, pr) ==
    \A j \in Jobs : table[j] = "failed" => j \notin pr.items \/ (pr.state \in ProviderEnds /\ pr.lines[j] # "ok")

WorkerOK(x, b, table, pr) ==
    /\ x.at \in WorkerPoints
    /\ x.at # "idle" => b.status # "absent"
    /\ x.at # "idle" /\ x.run.cancelRequested => b.cancelRequested
    /\ x.at = "commit" => x.next # "enqueuePoll" /\ (x.run.status \in {"failed", "canceled"} \/ x.run.providerId)
    /\ ~b.cancelRequested /\ x.at # "idle" =>
          /\ x.run0.status = b.status
          /\ b.status \in TERMINAL_BATCH_STATUSES =>
                AutoSave /\ x.run.status = b.status /\ x.at \in {"apply", "commit"}
          /\ "cancelJob" \notin Ops /\ x.listed => x.jobs0 = table
    /\ NotCut /\ x.at = "loaded" /\ x.entry.task = "poll" /\ ~x.run.providerId /\ x.run.status # "queued"
          => Ended(table)
    /\ AllRead =>
          /\ x.at = "apply" /\ x.run.status \in TERMINAL_BATCH_STATUSES => pr.state \in ProviderEnds
          /\ ~b.cancelRequested /\ x.at # "idle" /\ x.listed /\ x.run.status \notin {"failed", "canceled"}
                => Kept(x.jobs, pr)

HandlerOK(x, b) ==
    /\ x.at \in HandlerPoints
    /\ "cancel" \notin Ops => x.at \in {"idle", "enqueue", "cancelRow"}
    /\ "cancelJob" \notin Ops => x.at # "cancelRow"
    /\ x.at \in {"cancel", "commit", "enqueuePoll"} => b.status # "absent"
    /\ x.at = "cancelRow" => \A j \in Jobs : x.jobs[j] # "failed"
    /\ x.at = "commit" => x.run.cancelRequested /\ x.next # "schedule"
    /\ x.at = "cancel" /\ x.run.status # "queued" => b.status \notin {"absent", "queued"}
    /\ x.at = "commit" /\ x.run.status \notin TERMINAL_BATCH_STATUSES => b.status \notin {"absent", "queued"}

RowsOK(b, table, pr) ==
    /\ "cancel" \notin Ops \/ b.status = "absent" => ~b.cancelRequested
    /\ pr.state = "none" => pr.items = {}
    /\ \A j \in Jobs : pr.lines[j] # "none" => j \in pr.items
    /\ AllRead /\ ~b.cancelRequested /\ b.status \notin {"failed", "canceled"} =>
          Kept(table, pr) /\ (pr.state = "none" => \A j \in Jobs : table[j] # "failed")

\* The worker is about to end the jobs of a run it closes.
Closer(x) == x.at \in {"apply", "commit"} /\ x.run.status \in TERMINAL_BATCH_STATUSES
\* The worker is submitting the batch.
Submitter(x) == x.at # "idle" /\ x.entry.task = "submit"

\* Somebody ends the jobs of a closed run, and of a run that lost its submit task.
CoverOK(b, table, pc) ==
    NotCut =>
      /\ b.status \in TERMINAL_BATCH_STATUSES => Ended(table) \/ \E w \in Workers : Closer(pc[w])
      /\ b.status \notin {"absent", "queued"} /\ ~b.providerId =>
            Ended(table) \/ \E w \in Workers : Submitter(pc[w])

OneInv ==
    /\ \A p \in Procs : SessionOK(proc[p], batch, jobs)
    /\ \A w \in Workers : WorkerOK(proc[w], batch, jobs, provider)
    /\ \A h \in Handlers : HandlerOK(proc[h], batch)
    /\ RowsOK(batch, jobs, provider)
    /\ CoverOK(batch, jobs, proc)

-----------------------------------------------------------------------------
(* Lemmas about one worker.                                                *)

\* How the rows may change under an open session.
Grown(b, table, b2, table2) ==
    /\ \A j \in Jobs : table[j] # "queued" => table2[j] # "queued"
    /\ b.providerId => b2.providerId
    /\ b.cancelRequested => b2.cancelRequested
    /\ b.status # "absent" => b2.status # "absent"
    /\ b.status \notin {"absent", "queued"} => b2.status \notin {"absent", "queued"}

\* What a flush makes of the run ...
LEMMA FlushedRun ==
    ASSUME NEW new \in Run, NEW old \in Run, NEW stored \in Run,
           old.providerId => new.providerId /\ stored.providerId,
           old.cancelRequested => new.cancelRequested /\ stored.cancelRequested
    PROVE  /\ FlushRun(new, old, stored).providerId = (new.providerId \/ stored.providerId)
           /\ FlushRun(new, old, stored).cancelRequested = (new.cancelRequested \/ stored.cancelRequested)
           /\ FlushRun(new, old, stored).status = IF new.status # old.status THEN new.status ELSE stored.status
BY DEF FlushRun, Column, Run

\* ... and of the jobs: none is queued again.
LEMMA FlushedJobs ==
    ASSUME NEW new \in JobTable, NEW old \in JobTable, NEW stored \in JobTable,
           \A j \in Jobs : old[j] # "queued" => new[j] = old[j] /\ stored[j] # "queued"
    PROVE  \A j \in Jobs :
              /\ FlushJobs(new, old, stored)[j] = IF new[j] # old[j] THEN new[j] ELSE stored[j]
              /\ stored[j] # "queued" \/ new[j] # "queued" => FlushJobs(new, old, stored)[j] # "queued"
BY DEF FlushJobs, Column, JobTable

LEMMA SessionGrows ==
    ASSUME NEW x, NEW b, NEW table, NEW b2, NEW table2,
           SessionOK(x, b, table), Grown(b, table, b2, table2)
    PROVE  SessionOK(x, b2, table2)
BY DEF SessionOK, Grown

LEMMA HandlerGrows ==
    ASSUME NEW x, NEW b, NEW table, NEW b2, NEW table2,
           HandlerOK(x, b), Grown(b, table, b2, table2)
    PROVE  HandlerOK(x, b2)
BY DEF HandlerOK, Grown

LEMMA SameRows == ASSUME NEW b, NEW table PROVE Grown(b, table, b, table)
BY DEF Grown

\* The worker moves.
LEMMA WorkerMoves ==
    ASSUME IInv, OneWorker, OneInv, NEW w \in Workers, NEW x, Become(w, x),
           Grown(batch, jobs, batch', jobs'),
           SessionOK(x, batch', jobs'), WorkerOK(x, batch', jobs', provider'),
           RowsOK(batch', jobs', provider'),
           NotCut /\ batch'.status \in TERMINAL_BATCH_STATUSES => Ended(jobs') \/ Closer(x),
           NotCut /\ batch'.status \notin {"absent", "queued"} /\ ~batch'.providerId
              => Ended(jobs') \/ Submitter(x)
    PROVE  OneInv'
<1>1. w \in Procs /\ proc'[w] = x /\ (\A q \in Procs : q # w => proc'[q] = proc[q])
  BY DEF Become, IInv, TypeOK, Procs
<1>2. \A p \in Procs : SessionOK(proc'[p], batch', jobs')
  BY <1>1, SessionGrows DEF OneInv
<1>3. \A v \in Workers : WorkerOK(proc'[v], batch', jobs', provider')
  BY <1>1 DEF OneWorker
<1>4. \A h \in Handlers : HandlerOK(proc'[h], batch')
  <2> SUFFICES ASSUME NEW h \in Handlers PROVE HandlerOK(proc'[h], batch')
    OBVIOUS
  <2>1. proc'[h] = proc[h] /\ HandlerOK(proc[h], batch)
    BY <1>1, BatchProcsAssumption DEF OneInv, Procs
  <2> QED BY <2>1, HandlerGrows
<1>5. CoverOK(batch', jobs', proc')
  BY <1>1 DEF CoverOK
<1> QED BY <1>2, <1>3, <1>4, <1>5 DEF OneInv

\* The worker moves and leaves rows and provider alone.
LEMMA WorkerGoes ==
    ASSUME IInv, OneWorker, OneInv, NEW w \in Workers, NEW x, Become(w, x),
           UNCHANGED <<batch, jobs, provider>>,
           SessionOK(x, batch, jobs), WorkerOK(x, batch, jobs, provider),
           NotCut /\ batch.status \in TERMINAL_BATCH_STATUSES /\ Closer(proc[w]) => Closer(x),
           NotCut /\ batch.status \notin {"absent", "queued"} /\ ~batch.providerId /\ Submitter(proc[w])
              => Submitter(x)
    PROVE  OneInv'
<1>1. RowsOK(batch, jobs, provider) BY DEF OneInv
<1>2. \A v \in Workers : v = w BY DEF OneWorker
<1>3. /\ NotCut /\ batch.status \in TERMINAL_BATCH_STATUSES => Ended(jobs) \/ Closer(x)
      /\ NotCut /\ batch.status \notin {"absent", "queued"} /\ ~batch.providerId
            => Ended(jobs) \/ Submitter(x)
  BY <1>2 DEF OneInv, CoverOK
<1> QED BY <1>1, <1>3, SameRows, WorkerMoves

\* A handler moves.
LEMMA HandlerMoves ==
    ASSUME IInv, OneInv, NEW h \in Handlers, NEW x, Become(h, x),
           Grown(batch, jobs, batch', jobs'),
           SessionOK(x, batch', jobs'), HandlerOK(x, batch'),
           RowsOK(batch', jobs', provider'),
           \A w \in Workers : WorkerOK(proc[w], batch', jobs', provider'),
           CoverOK(batch', jobs', proc)
    PROVE  OneInv'
<1>1. h \in Procs /\ proc'[h] = x /\ (\A q \in Procs : q # h => proc'[q] = proc[q])
  BY DEF Become, IInv, TypeOK, Procs
<1>2. \A w \in Workers : proc'[w] = proc[w]
  BY <1>1, BatchProcsAssumption DEF Procs
<1>3. \A p \in Procs : SessionOK(proc'[p], batch', jobs')
  BY <1>1, SessionGrows DEF OneInv
<1>4. \A g \in Handlers : HandlerOK(proc'[g], batch')
  <2> SUFFICES ASSUME NEW g \in Handlers PROVE HandlerOK(proc'[g], batch')
    OBVIOUS
  <2>1. HandlerOK(proc[g], batch) /\ (proc'[g] = x \/ proc'[g] = proc[g])
    BY <1>1 DEF OneInv, Procs
  <2> QED BY <2>1, HandlerGrows
<1>5. CoverOK(batch', jobs', proc')
  BY <1>2 DEF CoverOK
<1> QED BY <1>2, <1>3, <1>4, <1>5 DEF OneInv

LEMMA HandlerGoes ==
    ASSUME IInv, OneInv, NEW h \in Handlers, NEW x, Become(h, x),
           UNCHANGED <<batch, jobs, provider>>, SessionOK(x, batch, jobs), HandlerOK(x, batch)
    PROVE  OneInv'
BY SameRows, HandlerMoves DEF OneInv

\* Nothing moves but the queue.
LEMMA QueueMoves ==
    ASSUME OneInv, UNCHANGED <<batch, jobs, provider, proc>> PROVE OneInv'
BY DEF OneInv

\* A process that has let go.
LEMMA IdleFits ==
    ASSUME NEW b, NEW table, NEW pr
    PROVE  /\ SessionOK(Idle, b, table) /\ WorkerOK(Idle, b, table, pr) /\ HandlerOK(Idle, b)
           /\ Idle.at = "idle"
<1>1. /\ Idle.at = "idle" /\ Idle.run0 = NoRun /\ Idle.run = NoRun /\ Idle.jobs = AllQueued /\ Idle.jobs0 = AllQueued
      /\ ~NoRun.providerId /\ ~NoRun.cancelRequested /\ \A j \in Jobs : AllQueued[j] = "queued"
  BY DEF Idle, NoRun, AllQueued
<1> QED BY <1>1 DEF SessionOK, WorkerOK, HandlerOK, WorkerPoints, HandlerPoints

\* A worker that lets go, neither closing nor submitting the run.
LEMMA WorkerLetsGo ==
    ASSUME IInv, OneWorker, OneInv, NEW w \in Workers, Become(w, Idle),
           UNCHANGED <<batch, jobs, provider>>,
           NotCut => ~Closer(proc[w]) /\ (Submitter(proc[w]) => batch.providerId)
    PROVE  OneInv'
BY IdleFits, WorkerGoes

LEMMA HandlerLetsGo ==
    ASSUME IInv, OneInv, NEW h \in Handlers, Become(h, Idle), UNCHANGED <<batch, jobs, provider>>
    PROVE  OneInv'
BY IdleFits, HandlerGoes

\* What the invariants say of the worker.
LEMMA TheWorker ==
    ASSUME IInv, OneInv, NEW w \in Workers
    PROVE  /\ w \in Procs /\ SessionOK(proc[w], batch, jobs) /\ WorkerOK(proc[w], batch, jobs, provider)
           /\ RowsOK(batch, jobs, provider)
           /\ \A j \in Jobs : proc[w].jobs0[j] # "queued"
                => proc[w].jobs[j] = proc[w].jobs0[j] /\ jobs[j] # "queued"
           /\ proc[w].run0.providerId => proc[w].run.providerId /\ batch.providerId
           /\ proc[w].run0.cancelRequested => proc[w].run.cancelRequested /\ batch.cancelRequested
           /\ proc[w].at # "idle" /\ proc[w].run.cancelRequested => batch.cancelRequested
BY DEF OneInv, SessionOK, WorkerOK, Procs

LEMMA TheHandler ==
    ASSUME IInv, OneInv, NEW h \in Handlers
    PROVE  /\ h \in Procs /\ SessionOK(proc[h], batch, jobs) /\ HandlerOK(proc[h], batch)
           /\ RowsOK(batch, jobs, provider)
           /\ \A j \in Jobs : proc[h].jobs0[j] # "queued"
                => proc[h].jobs[j] = proc[h].jobs0[j] /\ jobs[j] # "queued"
           /\ proc[h].run0.providerId => proc[h].run.providerId /\ batch.providerId
           /\ proc[h].run0.cancelRequested => proc[h].run.cancelRequested /\ batch.cancelRequested
BY DEF OneInv, SessionOK, Procs

-----------------------------------------------------------------------------
(* The handlers, with one worker.                                          *)

LEMMA CreateOne == ASSUME IInv, OneInv, NEW h \in Handlers, Create(h) PROVE OneInv'
<1> DEFINE x == [Idle EXCEPT !.at = "enqueue"]
<1>1. /\ batch.status = "absent" /\ batch' = [NoRun EXCEPT !.status = "queued"]
      /\ Become(h, x) /\ UNCHANGED <<jobs, queue, provider, made, cancels>>
  BY DEF Create
<1>2. /\ Idle.run0 = NoRun /\ Idle.jobs = AllQueued /\ Idle.jobs0 = AllQueued /\ x.at = "enqueue"
      /\ x.run0 = Idle.run0 /\ x.jobs = Idle.jobs /\ x.jobs0 = Idle.jobs0
      /\ ~NoRun.providerId /\ ~NoRun.cancelRequested /\ \A j \in Jobs : AllQueued[j] = "queued"
  BY DEF Idle, NoRun, AllQueued
<1>3. batch'.status = "queued" /\ ~batch'.providerId /\ ~batch'.cancelRequested
  BY <1>1 DEF NoRun
<1> HIDE DEF x
<1>4. SessionOK(x, batch', jobs') /\ HandlerOK(x, batch')
  BY <1>2 DEF SessionOK, HandlerOK, HandlerPoints
<1>5. \A w \in Workers : WorkerOK(proc[w], batch', jobs', provider')
  <2>1. \A w \in Workers : proc[w].at = "idle"
    BY <1>1, TheWorker DEF WorkerOK
  <2> QED BY <2>1 DEF WorkerOK, WorkerPoints
<1>6. ~batch.providerId /\ ~batch.cancelRequested
  BY <1>1 DEF IInv, TablesOK, OneInv, RowsOK
<1>7. RowsOK(batch', jobs', provider')
  BY <1>1, <1>3, <1>6 DEF OneInv, RowsOK
<1>8. Grown(batch, jobs, batch', jobs')
  BY <1>1, <1>3, <1>6 DEF Grown
<1>9. CoverOK(batch', jobs', proc)
  BY <1>3 DEF CoverOK, TERMINAL_BATCH_STATUSES
<1> QED BY <1>1, <1>4, <1>5, <1>7, <1>8, <1>9, HandlerMoves

LEMMA StartCancelOne == ASSUME IInv, OneInv, NEW h \in Handlers, StartCancel(h) PROVE OneInv'
<1> DEFINE x == [Idle EXCEPT !.at = "cancel", !.run0 = batch, !.run = batch]
<1>1. /\ Become(h, x) /\ UNCHANGED <<batch, jobs, provider>> /\ batch.status \in OpenStatuses
      /\ "cancel" \in Ops
  BY DEF StartCancel, Open
<1>2. /\ Idle.jobs = AllQueued /\ Idle.jobs0 = AllQueued /\ Idle.next = "idle"
      /\ x.at = "cancel" /\ x.next = "idle" /\ x.run0 = batch /\ x.run = batch
      /\ x.jobs = Idle.jobs /\ x.jobs0 = Idle.jobs0 /\ \A j \in Jobs : AllQueued[j] = "queued"
  BY DEF Idle, AllQueued
<1> HIDE DEF x
<1>3. SessionOK(x, batch, jobs)
  BY <1>1, <1>2 DEF SessionOK
<1>4. HandlerOK(x, batch)
  BY <1>1, <1>2 DEF HandlerOK, HandlerPoints, OpenStatuses
<1> QED BY <1>1, <1>3, <1>4, HandlerGoes

LEMMA StartCancelJobOne ==
    ASSUME IInv, OneInv, NEW h \in Handlers, NEW j \in Jobs, StartCancelJob(h, j) PROVE OneInv'
<1> DEFINE table == [AllQueued EXCEPT ![j] = "canceled"]
           x == [Idle EXCEPT !.at = "cancelRow", !.jobs = table]
<1>1. Become(h, x) /\ UNCHANGED <<batch, jobs, provider>> /\ "cancelJob" \in Ops
  BY DEF StartCancelJob
<1>2. /\ \A i \in Jobs : AllQueued[i] = "queued" /\ table[i] # "failed"
      /\ Idle.jobs0 = AllQueued /\ Idle.run0 = NoRun /\ ~NoRun.providerId /\ ~NoRun.cancelRequested
  BY DEF Idle, AllQueued, NoRun
<1> HIDE DEF table
<1>3. x.at = "cancelRow" /\ x.jobs = table /\ x.jobs0 = Idle.jobs0 /\ x.run0 = Idle.run0
  BY DEF Idle
<1> HIDE DEF x
<1>4. SessionOK(x, batch, jobs) /\ HandlerOK(x, batch)
  BY <1>1, <1>2, <1>3 DEF SessionOK, HandlerOK, HandlerPoints
<1> QED BY <1>1, <1>4, HandlerGoes

\* The cancel of one item: its own commit.
LEMMA CancelJobRowOne ==
    ASSUME IInv, OneWorker, OneInv, NEW h \in Handlers, CancelJobRow(h) PROVE OneInv'
<1> DEFINE x == proc[h]
<1>1. /\ x.at = "cancelRow" /\ jobs' = FlushJobs(x.jobs, x.jobs0, jobs) /\ Become(h, Idle)
      /\ UNCHANGED <<batch, provider>>
  BY DEF CancelJobRow
<1>2. /\ h \in Procs /\ HandlerOK(x, batch)
      /\ \A j \in Jobs : x.jobs0[j] # "queued" => x.jobs[j] = x.jobs0[j] /\ jobs[j] # "queued"
  BY TheHandler
<1>3. \A j \in Jobs : /\ jobs'[j] = IF x.jobs[j] # x.jobs0[j] THEN x.jobs[j] ELSE jobs[j]
                      /\ jobs[j] # "queued" => jobs'[j] # "queued"
  BY <1>1, <1>2, Mover, FlushedJobs
<1>4. "cancelJob" \in Ops /\ \A j \in Jobs : x.jobs[j] # "failed"
  BY <1>1, <1>2 DEF HandlerOK
<1>5. Grown(batch, jobs, batch', jobs')
  BY <1>1, <1>3 DEF Grown
<1>6. \A j \in Jobs : jobs'[j] = "failed" => jobs[j] = "failed"
  BY <1>3, <1>4
<1>7. RowsOK(batch', jobs', provider')
  BY <1>1, <1>6 DEF OneInv, RowsOK, Kept
<1>8. \A w \in Workers : WorkerOK(proc[w], batch', jobs', provider')
  BY <1>1, <1>3, <1>4 DEF OneInv, WorkerOK, Ended
<1>9. CoverOK(batch', jobs', proc)
  BY <1>1, <1>3 DEF OneInv, CoverOK, Ended
<1> QED BY <1>1, <1>5, <1>7, <1>8, <1>9, IdleFits, HandlerMoves

\* The session of a run that is being closed.
LEMMA ClosingSession ==
    ASSUME NEW x \in Process, NEW status \in {"failed", "canceled"}, NEW end \in {"failed", "canceled"},
           NEW b, jobs \in JobTable, SessionOK(x, b, jobs), x.at # "cancelRow"
    PROVE  LET y == Closing(x, status, end)
           IN  /\ SessionOK(y, b, jobs)
               /\ y.at = "commit" /\ y.next = "idle" /\ y.run.status = status /\ y.run0 = x.run0
               /\ y.run.cancelRequested = x.run.cancelRequested /\ y.entry = x.entry
               /\ y.listed /\ (y.jobs0 = IF x.listed THEN x.jobs0 ELSE jobs)
               /\ \A j \in Jobs : y.jobs[j] # "queued"
<1> DEFINE l == List(x)
           y == [l EXCEPT !.at = "commit", !.next = "idle", !.run.status = status, !.jobs = EndQueued(@, end),
                  !.resent = 0]
<1>1. /\ l \in Process /\ l.run = x.run /\ l.run0 = x.run0 /\ l.entry = x.entry /\ l.listed
      /\ l.jobs0 = (IF x.listed THEN x.jobs0 ELSE jobs) /\ l.jobs = (IF x.listed THEN x.jobs ELSE jobs)
  BY DEF List, Process
<1>2. \A j \in Jobs : l.jobs0[j] # "queued" => l.jobs[j] = l.jobs0[j] /\ jobs[j] # "queued"
  BY <1>1 DEF SessionOK
<1> HIDE DEF l
<1>3. /\ y.at = "commit" /\ y.next = "idle" /\ y.run = [l.run EXCEPT !.status = status]
      /\ y.jobs = EndQueued(l.jobs, end) /\ y.jobs0 = l.jobs0 /\ y.run0 = l.run0 /\ y.entry = l.entry
      /\ y.listed = l.listed
  BY <1>1 DEF Process
<1>4. l.run \in Run BY <1>1 DEF Process
<1>5. /\ y.run.status = status /\ y.run.cancelRequested = x.run.cancelRequested
      /\ y.run.providerId = x.run.providerId
  BY <1>1, <1>3, <1>4 DEF Run
<1>6. \A j \in Jobs : y.jobs[j] # "queued" /\ (l.jobs[j] # "queued" => y.jobs[j] = l.jobs[j])
  BY <1>3 DEF EndQueued
<1>7. y = Closing(x, status, end) BY DEF Closing, l
<1> HIDE DEF y
<1>8. SessionOK(y, b, jobs)
  BY <1>1, <1>2, <1>3, <1>5, <1>6 DEF SessionOK, TERMINAL_BATCH_STATUSES
<1> QED BY <1>1, <1>3, <1>5, <1>6, <1>7, <1>8

LEMMA CancelRunOne == ASSUME IInv, OneInv, NEW h \in Handlers, CancelRun(h) PROVE OneInv'
<1> DEFINE r == [proc[h].run EXCEPT !.cancelRequested = TRUE]
           x == [proc[h] EXCEPT !.run = r]
           y == [x EXCEPT !.at = "commit", !.next = "enqueuePoll", !.run.status = "canceling"]
<1>1. /\ h \in Procs /\ SessionOK(proc[h], batch, jobs) /\ HandlerOK(proc[h], batch)
      /\ proc[h] \in Process /\ proc[h].run \in Run /\ jobs \in JobTable
  BY TheHandler, Mover
<1>2. /\ proc[h].at = "cancel" /\ UNCHANGED <<batch, jobs, provider>>
      /\ Become(h, IF x.run.status = "queued" THEN Closing(x, "canceled", "canceled") ELSE y)
  BY DEF CancelRun
<1>3. r \in Run /\ r.cancelRequested /\ r.status = proc[h].run.status /\ r.providerId = proc[h].run.providerId
  BY <1>1 DEF Run
<1> HIDE DEF r
<1>4. /\ x \in Process /\ x.run = r /\ x.jobs = proc[h].jobs /\ x.jobs0 = proc[h].jobs0
      /\ x.at = proc[h].at /\ x.run0 = proc[h].run0 /\ x.listed = proc[h].listed /\ x.next = proc[h].next
  BY <1>1, <1>3 DEF Process
<1> HIDE DEF x
<1>5. SessionOK(x, batch, jobs)
  BY <1>1, <1>3, <1>4 DEF SessionOK
<1>6. "cancel" \in Ops /\ batch.status # "absent" BY <1>1, <1>2 DEF HandlerOK
<1>7. CASE x.run.status = "queued"
  <2> DEFINE z == Closing(x, "canceled", "canceled")
  <2>1. /\ SessionOK(z, batch, jobs) /\ z.at = "commit" /\ z.next = "idle" /\ z.run.status = "canceled"
        /\ z.run.cancelRequested
    BY <1>2, <1>3, <1>4, <1>5, <1>1, ClosingSession
  <2>2. Become(h, z) BY <1>2, <1>7
  <2> HIDE DEF z
  <2>3. HandlerOK(z, batch)
    BY <1>6, <2>1 DEF HandlerOK, HandlerPoints, TERMINAL_BATCH_STATUSES
  <2> QED BY <1>2, <2>1, <2>2, <2>3, HandlerGoes
<1>8. CASE x.run.status # "queued"
  <2>1. /\ y.at = "commit" /\ y.run = [r EXCEPT !.status = "canceling"] /\ y.jobs = x.jobs /\ y.jobs0 = x.jobs0
        /\ y.next = "enqueuePoll" /\ y.run0 = x.run0 /\ y.listed = x.listed
    BY <1>4 DEF Process
  <2>2. y.run.status = "canceling" /\ y.run.providerId = r.providerId /\ y.run.cancelRequested
    BY <1>3, <2>1 DEF Run
  <2>3. Become(h, y) BY <1>2, <1>8
  <2> HIDE DEF y
  <2>4. SessionOK(y, batch, jobs)
    BY <1>2, <1>3, <1>4, <1>5, <2>1, <2>2 DEF SessionOK, TERMINAL_BATCH_STATUSES
  <2>5. HandlerOK(y, batch)
    BY <1>1, <1>2, <1>3, <1>4, <1>6, <1>8, <2>1, <2>2 DEF HandlerOK, HandlerPoints
  <2> QED BY <1>2, <2>3, <2>4, <2>5, HandlerGoes
<1> QED BY <1>7, <1>8

\* A handler commits a cancel, after which the row says so.
LEMMA HandlerCommitOne ==
    ASSUME IInv, OneInv, NEW h \in Handlers, Commit(h) PROVE OneInv'
<1> DEFINE x == proc[h]
           new == [x.run EXCEPT !.counts = CountersSeen(x)]
           y == [x EXCEPT !.at = x.next, !.run0 = new, !.run = new, !.jobs0 = x.jobs]
<1>1. /\ h \in Procs /\ SessionOK(x, batch, jobs) /\ HandlerOK(x, batch) /\ RowsOK(batch, jobs, provider)
      /\ \A j \in Jobs : x.jobs0[j] # "queued" => x.jobs[j] = x.jobs0[j] /\ jobs[j] # "queued"
      /\ x.run0.providerId => x.run.providerId /\ batch.providerId
      /\ x.run0.cancelRequested => x.run.cancelRequested /\ batch.cancelRequested
      /\ x \in Process /\ x.run \in Run /\ x.run0 \in Run /\ batch \in Run
      /\ x.jobs \in JobTable /\ x.jobs0 \in JobTable /\ jobs \in JobTable /\ ProcOK(x, provider)
  BY TheHandler, Mover
<1>2. /\ x.at = "commit" /\ batch' = FlushRun(new, x.run0, batch) /\ jobs' = FlushJobs(x.jobs, x.jobs0, jobs)
      /\ Become(h, IF x.next = "idle" THEN Idle ELSE y) /\ UNCHANGED provider
  BY DEF Commit
<1>3. CountersSeen(x) \in Counters
  BY TallyType DEF CountersSeen
<1>4. /\ new \in Run /\ new.status = x.run.status /\ new.providerId = x.run.providerId
      /\ new.cancelRequested = x.run.cancelRequested
  BY <1>1, <1>3 DEF Run
<1>5. y.at = x.next /\ y.run0 = new /\ y.run = new /\ y.jobs0 = x.jobs /\ y.jobs = x.jobs /\ y.listed = x.listed
  BY <1>1 DEF Process
<1> HIDE DEF new, y
<1>6. /\ x.run.cancelRequested /\ x.next # "schedule" /\ "cancel" \in Ops
      /\ x.run.status \notin TERMINAL_BATCH_STATUSES => batch.status \notin {"absent", "queued"}
      /\ batch.status # "absent"
  BY <1>1, <1>2 DEF HandlerOK
<1>7. x.run.status \notin {"absent", "queued"} /\ (x.next = "idle" <=> x.run.status \in TERMINAL_BATCH_STATUSES)
  BY <1>1, <1>2 DEF SessionOK, ProcOK
<1>8. /\ batch'.providerId = (x.run.providerId \/ batch.providerId)
      /\ batch'.cancelRequested = (x.run.cancelRequested \/ batch.cancelRequested)
      /\ batch'.status = IF x.run.status # x.run0.status THEN x.run.status ELSE batch.status
  BY <1>1, <1>2, <1>4, FlushedRun
<1>9. \A j \in Jobs : jobs[j] # "queued" \/ x.jobs[j] # "queued" => jobs'[j] # "queued"
  BY <1>1, <1>2, FlushedJobs
<1>10. Grown(batch, jobs, batch', jobs')
  BY <1>6, <1>7, <1>8, <1>9 DEF Grown
<1>11. RowsOK(batch', jobs', provider')
  BY <1>1, <1>2, <1>6, <1>8, <1>10 DEF RowsOK, Grown
<1>12. \A w \in Workers : WorkerOK(proc[w], batch', jobs', provider')
  BY <1>2, <1>6, <1>8, <1>9, <1>10 DEF OneInv, WorkerOK, Ended, Grown
<1>13. CoverOK(batch', jobs', proc)
  <2>1. CASE x.run.status \in TERMINAL_BATCH_STATUSES
    BY <1>1, <1>2, <1>9, <2>1 DEF SessionOK, CoverOK, Ended
  <2>2. CASE x.run.status \notin TERMINAL_BATCH_STATUSES
    BY <1>6, <1>8, <1>9, <2>2 DEF OneInv, CoverOK, Ended
  <2> QED BY <2>1, <2>2
<1>14. CASE x.next = "idle"
  BY <1>2, <1>10, <1>11, <1>12, <1>13, <1>14, IdleFits, HandlerMoves
<1>15. CASE x.next # "idle"
  <2>1. x.next = "enqueuePoll" /\ Become(h, y)
    BY <1>1, <1>2, <1>6, <1>15 DEF Process
  <2>2. SessionOK(y, batch', jobs')
    BY <1>2, <1>4, <1>5, <1>8, <1>9, <2>1 DEF SessionOK
  <2>3. HandlerOK(y, batch')
    BY <1>5, <1>6, <1>10, <2>1 DEF Grown, HandlerOK, HandlerPoints
  <2> QED BY <1>10, <1>11, <1>12, <1>13, <2>1, <2>2, <2>3, HandlerMoves
<1> QED BY <1>14, <1>15

-----------------------------------------------------------------------------
(* The tasks, with one worker.                                             *)

LEMMA TakeOne ==
    ASSUME IInv, OneWorker, OneInv, NEW w \in Workers, NEW e \in queue, Take(w, e) PROVE OneInv'
<1> DEFINE x == [Idle EXCEPT !.at = "loaded", !.entry = e, !.run0 = batch, !.run = batch]
<1>1. proc[w].at = "idle" /\ UNCHANGED <<batch, jobs, provider>>
  BY DEF Take
<1>2. CASE ~Open
  BY <1>1, <1>2, QueueMoves DEF Take
<1>3. CASE Open
  <2>1. Become(w, x) /\ batch.status \in OpenStatuses
    BY <1>3 DEF Take, Open
  <2>2. /\ Idle.jobs = AllQueued /\ Idle.jobs0 = AllQueued /\ Idle.next = "idle" /\ ~Idle.listed
        /\ x.at = "loaded" /\ x.next = "idle" /\ x.run0 = batch /\ x.run = batch /\ x.entry = e
        /\ x.jobs = Idle.jobs /\ x.jobs0 = Idle.jobs0 /\ x.listed = Idle.listed
        /\ \A j \in Jobs : AllQueued[j] = "queued"
    BY DEF Idle, AllQueued
  <2> HIDE DEF x
  <2>3. SessionOK(x, batch, jobs)
    BY <2>1, <2>2 DEF SessionOK
  <2>4. batch.status \notin TERMINAL_BATCH_STATUSES /\ batch.status # "absent"
    BY <2>1 DEF OpenStatuses, TERMINAL_BATCH_STATUSES
  <2>5. ~Closer(proc[w]) /\ ~Submitter(proc[w])
    BY <1>1 DEF Closer, Submitter
  <2>6. NotCut /\ batch.status # "queued" /\ ~batch.providerId => Ended(jobs)
    BY <2>4, <2>5 DEF OneInv, CoverOK, OneWorker
  <2>7. WorkerOK(x, batch, jobs, provider)
    BY <2>2, <2>4, <2>6 DEF WorkerOK, WorkerPoints
  <2> QED BY <1>1, <2>1, <2>3, <2>5, <2>7, WorkerGoes
<1> QED BY <1>2, <1>3

LEMMA BeginOne ==
    ASSUME IInv, OneWorker, OneInv, NEW w \in Workers, Begin(w) PROVE OneInv'
<1> DEFINE x == proc[w]
           new == [x.run EXCEPT !.status = "submitting"]
           y == [x EXCEPT !.at = "compose", !.run0 = new, !.run = new]
<1>1. /\ w \in Procs /\ SessionOK(x, batch, jobs) /\ WorkerOK(x, batch, jobs, provider)
      /\ RowsOK(batch, jobs, provider)
      /\ \A j \in Jobs : x.jobs0[j] # "queued" => x.jobs[j] = x.jobs0[j] /\ jobs[j] # "queued"
      /\ x.run0.providerId => x.run.providerId /\ batch.providerId
      /\ x.run0.cancelRequested => x.run.cancelRequested /\ batch.cancelRequested
      /\ x.at # "idle" /\ x.run.cancelRequested => batch.cancelRequested
      /\ x \in Process /\ x.run \in Run /\ x.run0 \in Run /\ batch \in Run
  BY TheWorker, Mover
<1>2. /\ x.at = "loaded" /\ x.entry.task = "submit" /\ batch' = FlushRun(new, x.run0, batch)
      /\ Become(w, y) /\ UNCHANGED <<jobs, provider>>
  BY DEF Begin, Doing
<1>3. /\ new \in Run /\ new.status = "submitting" /\ new.providerId = x.run.providerId
      /\ new.cancelRequested = x.run.cancelRequested
  BY <1>1 DEF Run, OpenStatuses
<1>4. /\ y.at = "compose" /\ y.run0 = new /\ y.run = new /\ y.jobs = x.jobs /\ y.jobs0 = x.jobs0
      /\ y.listed = x.listed /\ y.next = x.next /\ y.entry = x.entry
  BY <1>1 DEF Process
<1> HIDE DEF new, y
<1>5. /\ batch'.providerId = (x.run.providerId \/ batch.providerId)
      /\ batch'.cancelRequested = (x.run.cancelRequested \/ batch.cancelRequested)
      /\ batch'.status = IF "submitting" # x.run0.status THEN "submitting" ELSE batch.status
  BY <1>1, <1>2, <1>3, FlushedRun
<1>6. batch.status # "absent" /\ x.next = "idle"
  BY <1>1, <1>2 DEF SessionOK, WorkerOK
<1>7. Grown(batch, jobs, batch', jobs')
  BY <1>2, <1>5, <1>6 DEF Grown
<1>8. SessionOK(y, batch', jobs')
  BY <1>1, <1>2, <1>3, <1>4, <1>5, <1>6 DEF SessionOK, OpenStatuses
<1>9. ~batch.cancelRequested => x.run0.status = batch.status /\ batch.status \notin TERMINAL_BATCH_STATUSES
  BY <1>1, <1>2 DEF WorkerOK
<1>10. ~batch'.cancelRequested => ~batch.cancelRequested /\ batch'.status = "submitting"
  BY <1>5, <1>9
<1>11. WorkerOK(y, batch', jobs', provider')
  <2>1. batch'.status # "absent" BY <1>5, <1>6
  <2>2. ~batch'.cancelRequested /\ "cancelJob" \notin Ops /\ x.listed => x.jobs0 = jobs'
    BY <1>1, <1>2, <1>10 DEF WorkerOK
  <2>3. AllRead /\ ~batch'.cancelRequested /\ x.listed => Kept(x.jobs, provider')
    <3>1. x.run.status \in OpenStatuses BY <1>1, <1>2 DEF SessionOK
    <3> QED BY <1>1, <1>2, <1>10, <3>1 DEF WorkerOK, OpenStatuses
  <2> QED BY <1>1, <1>2, <1>3, <1>4, <1>5, <1>10, <2>1, <2>2, <2>3
      DEF WorkerOK, WorkerPoints, TERMINAL_BATCH_STATUSES
<1>12. RowsOK(batch', jobs', provider')
  <2>1. "cancel" \notin Ops => ~batch'.cancelRequested
    BY <1>1, <1>2, <1>5 DEF RowsOK
  <2> QED BY <1>1, <1>2, <1>5, <1>6, <1>9, <1>10, <2>1 DEF RowsOK, TERMINAL_BATCH_STATUSES
<1>13. NotCut /\ batch'.status \in TERMINAL_BATCH_STATUSES => Ended(jobs') \/ Closer(y)
  <2>1. \A v \in Workers : ~Closer(proc[v])
    BY <1>2 DEF Closer, OneWorker
  <2> QED BY <1>2, <1>5, <2>1 DEF OneInv, CoverOK, TERMINAL_BATCH_STATUSES
<1>14. Submitter(y) BY <1>2, <1>4 DEF Submitter
<1> QED BY <1>2, <1>7, <1>8, <1>11, <1>12, <1>13, <1>14, WorkerMoves

\* The identity map leaves the session as consistent as it was.
LEMMA Listed ==
    ASSUME NEW x \in Process, NEW b, jobs \in JobTable, SessionOK(x, b, jobs), x.at # "cancelRow"
    PROVE  /\ List(x) \in Process /\ List(x).listed /\ List(x).at = x.at /\ List(x).next = x.next
           /\ List(x).run = x.run /\ List(x).run0 = x.run0 /\ List(x).entry = x.entry
           /\ List(x).jobs0 = (IF x.listed THEN x.jobs0 ELSE jobs)
           /\ List(x).jobs = (IF x.listed THEN x.jobs ELSE jobs)
           /\ \A j \in Jobs : List(x).jobs0[j] # "queued" => List(x).jobs[j] = List(x).jobs0[j] /\ jobs[j] # "queued"
<1>1. /\ List(x) \in Process /\ List(x).listed /\ List(x).at = x.at /\ List(x).next = x.next
      /\ List(x).run = x.run /\ List(x).run0 = x.run0 /\ List(x).entry = x.entry
      /\ List(x).jobs0 = (IF x.listed THEN x.jobs0 ELSE jobs)
      /\ List(x).jobs = (IF x.listed THEN x.jobs ELSE jobs)
  BY DEF List, Process
<1> QED BY <1>1 DEF SessionOK

\* Invalid items fail in the session; when none is left the run fails with them.
LEMMA ComposeOne ==
    ASSUME IInv, OneWorker, OneInv, NEW w \in Workers, Compose(w) PROVE OneInv'
<1> DEFINE x == List(proc[w])
           Fail(invalid) == [j \in Jobs |-> IF j \in invalid THEN "failed" ELSE x.jobs[j]]
           Y(invalid) == [x EXCEPT !.jobs = Fail(invalid)]
           Go(y) == IF \E j \in Jobs : y.jobs[j] = "queued"
                    THEN [y EXCEPT !.at = "create"]
                    ELSE [y EXCEPT !.at = "commit", !.run.status = "failed"]
<1>1. PICK invalid \in SUBSET {j \in Jobs : x.jobs[j] = "queued"} : Become(w, Go(Y(invalid)))
  BY Zenon DEF Compose
<1>2. /\ w \in Procs /\ SessionOK(proc[w], batch, jobs) /\ WorkerOK(proc[w], batch, jobs, provider)
      /\ proc[w] \in Process /\ jobs \in JobTable /\ ProcOK(proc[w], provider)
      /\ RowsOK(batch, jobs, provider)
  BY TheWorker, Mover
<1>3. /\ proc[w].at = "compose" /\ proc[w].entry.task = "submit" /\ UNCHANGED <<batch, jobs, provider>>
  BY DEF Compose, Doing
<1>4. /\ x \in Process /\ x.listed /\ x.at = "compose" /\ x.next = proc[w].next
      /\ x.run = proc[w].run /\ x.run0 = proc[w].run0 /\ x.entry = proc[w].entry
      /\ x.jobs0 = (IF proc[w].listed THEN proc[w].jobs0 ELSE jobs)
      /\ \A j \in Jobs : x.jobs0[j] # "queued" => x.jobs[j] = x.jobs0[j] /\ jobs[j] # "queued"
  BY <1>2, <1>3, Listed
<1> DEFINE y == Y(invalid)
<1> HIDE DEF x
<1>5. Fail(invalid) \in JobTable
  BY <1>4 DEF Process, JobTable, JobEnds
<1>6. \A j \in Jobs : x.jobs[j] # "queued" => Fail(invalid)[j] = x.jobs[j]
  OBVIOUS
<1> HIDE DEF Fail
<1>7. /\ y \in Process /\ y.jobs = Fail(invalid) /\ y.listed /\ y.at = "compose" /\ y.next = x.next
      /\ y.run = x.run /\ y.run0 = x.run0 /\ y.entry = x.entry /\ y.jobs0 = x.jobs0
  BY <1>4, <1>5 DEF Process
<1> HIDE DEF Y
<1>8. provider.state = "none" /\ x.run.status \in OpenStatuses /\ x.run.status # "queued" /\ x.next = "idle"
  BY <1>2, <1>3, <1>4 DEF ProcOK, Holder, SessionOK
<1>9. \A j \in Jobs : y.jobs0[j] # "queued" => y.jobs[j] = y.jobs0[j] /\ jobs[j] # "queued"
  BY <1>4, <1>6, <1>7
<1>10. /\ y.run0.providerId => y.run.providerId /\ batch.providerId
       /\ y.run0.cancelRequested => y.run.cancelRequested /\ batch.cancelRequested
       /\ y.run.cancelRequested => batch.cancelRequested
  BY <1>2, <1>3, <1>4, <1>7 DEF SessionOK, WorkerOK
<1>11. /\ batch.status # "absent"
       /\ ~batch.cancelRequested => y.run0.status = batch.status /\ batch.status \notin TERMINAL_BATCH_STATUSES
       /\ ~batch.cancelRequested /\ "cancelJob" \notin Ops => y.jobs0 = jobs
  BY <1>2, <1>3, <1>4, <1>7 DEF WorkerOK
<1>12. Kept(y.jobs, provider)
  BY <1>2, <1>8 DEF RowsOK, Kept
<1>13. ~Closer(proc[w]) BY <1>3 DEF Closer
<1>14. CASE \E j \in Jobs : y.jobs[j] = "queued"
  <2> DEFINE z == [y EXCEPT !.at = "create"]
  <2>1. Become(w, z) BY <1>1, <1>14
  <2>2. /\ z.at = "create" /\ z.jobs = y.jobs /\ z.jobs0 = y.jobs0 /\ z.entry = y.entry /\ z.run = y.run
        /\ z.run0 = y.run0 /\ z.listed /\ z.next = y.next
    BY <1>7 DEF Process
  <2> HIDE DEF z
  <2>3. SessionOK(z, batch, jobs)
    BY <1>7, <1>8, <1>9, <1>10, <2>2 DEF SessionOK
  <2>4. WorkerOK(z, batch, jobs, provider)
    BY <1>7, <1>10, <1>11, <1>12, <2>2 DEF WorkerOK, WorkerPoints
  <2>5. Submitter(z) BY <1>3, <1>4, <1>7, <2>2 DEF Submitter
  <2> QED BY <1>3, <1>13, <2>1, <2>3, <2>4, <2>5, WorkerGoes
<1>15. CASE ~\E j \in Jobs : y.jobs[j] = "queued"
  <2> DEFINE z == [y EXCEPT !.at = "commit", !.run.status = "failed"]
  <2>1. Become(w, z) BY <1>1, <1>15
  <2>2. y.run \in Run BY <1>7 DEF Process
  <2>3. /\ z.at = "commit" /\ z.jobs = y.jobs /\ z.jobs0 = y.jobs0 /\ z.entry = y.entry
        /\ z.run = [y.run EXCEPT !.status = "failed"]
        /\ z.run0 = y.run0 /\ z.listed /\ z.next = y.next
    BY <1>7 DEF Process
  <2>4. z.run.status = "failed" /\ z.run.providerId = y.run.providerId
        /\ z.run.cancelRequested = y.run.cancelRequested
    BY <2>2, <2>3 DEF Run
  <2> HIDE DEF z
  <2>5. SessionOK(z, batch, jobs)
    BY <1>7, <1>8, <1>9, <1>10, <1>15, <2>3, <2>4 DEF SessionOK, TERMINAL_BATCH_STATUSES
  <2>6. WorkerOK(z, batch, jobs, provider)
    BY <1>7, <1>8, <1>10, <1>11, <1>12, <2>3, <2>4 DEF WorkerOK, WorkerPoints
  <2>7. Submitter(z) BY <1>3, <1>4, <1>7, <2>3 DEF Submitter
  <2> QED BY <1>3, <1>13, <2>1, <2>5, <2>6, <2>7, WorkerGoes
<1> QED BY <1>14, <1>15

\* The worker closes the run together with its jobs.
LEMMA ClosingOne ==
    ASSUME IInv, OneWorker, OneInv, NEW w \in Workers, Become(w, Closing(proc[w], "failed", "failed")),
           UNCHANGED <<batch, jobs>>, RowsOK(batch, jobs, provider'),
           proc[w].at # "idle", proc[w].run.status \notin TERMINAL_BATCH_STATUSES
    PROVE  OneInv'
<1> DEFINE x == proc[w]
           y == Closing(x, "failed", "failed")
<1>1. /\ w \in Procs /\ SessionOK(x, batch, jobs) /\ WorkerOK(x, batch, jobs, provider)
      /\ x \in Process /\ jobs \in JobTable
  BY TheWorker, Mover
<1>2. x.at # "cancelRow" BY <1>1 DEF WorkerOK, WorkerPoints
<1>3. /\ SessionOK(y, batch, jobs)
      /\ y.at = "commit" /\ y.next = "idle" /\ y.run.status = "failed" /\ y.run0 = x.run0
      /\ y.run.cancelRequested = x.run.cancelRequested /\ y.entry = x.entry
      /\ y.listed /\ (y.jobs0 = IF x.listed THEN x.jobs0 ELSE jobs)
  BY <1>1, <1>2, ClosingSession
<1> HIDE DEF y
<1>4. WorkerOK(y, batch, jobs, provider')
  BY <1>1, <1>3 DEF WorkerOK, WorkerPoints
<1>5. Closer(y) BY <1>3 DEF Closer, TERMINAL_BATCH_STATUSES
<1>6. Submitter(x) => Submitter(y) BY <1>3 DEF Submitter
<1>7. NotCut /\ batch.status \notin {"absent", "queued"} /\ ~batch.providerId
         => Ended(jobs) \/ Submitter(y)
  BY <1>6 DEF OneInv, CoverOK, OneWorker
<1> QED BY <1>3, <1>4, <1>5, <1>7, SameRows, WorkerMoves DEF y

LEMMA PollTimeoutOne ==
    ASSUME IInv, OneWorker, OneInv, NEW w \in Workers, PollTimeout(w) PROVE OneInv'
<1>1. /\ proc[w].at = "loaded" /\ Become(w, Closing(proc[w], "failed", "failed"))
      /\ UNCHANGED <<batch, jobs, provider>>
  BY DEF PollTimeout, Doing
<1>2. proc[w].run.status \notin TERMINAL_BATCH_STATUSES
  BY <1>1, TheWorker DEF SessionOK, OpenStatuses, TERMINAL_BATCH_STATUSES
<1>3. RowsOK(batch, jobs, provider) BY DEF OneInv
<1> QED BY <1>1, <1>2, <1>3, ClosingOne

LEMMA TaskFailsOne ==
    ASSUME IInv, OneWorker, OneInv, NEW w \in Workers, TaskFails(w) PROVE OneInv'
<1>1. /\ proc[w].at # "idle" /\ UNCHANGED <<batch, jobs, provider>>
      /\ "timeout" \in Faults \/ proc[w].at \in {"loaded", "create", "retrieve", "schedule"}
  BY DEF TaskFails
<1>2. RowsOK(batch, jobs, provider) BY DEF OneInv
<1>3. CASE proc[w].run.status \notin TERMINAL_BATCH_STATUSES
  BY <1>1, <1>2, <1>3, ClosingOne DEF TaskFails
<1>4. CASE proc[w].run.status \in TERMINAL_BATCH_STATUSES
  <2>1. Become(w, Idle) BY <1>4 DEF TaskFails
  <2>2. ~NotCut
    BY <1>1, <1>4, TheWorker DEF SessionOK, OpenStatuses, TERMINAL_BATCH_STATUSES, NotCut
  <2> QED BY <1>1, <2>1, <2>2, WorkerLetsGo
<1> QED BY <1>3, <1>4

LEMMA CrashOne ==
    ASSUME IInv, OneWorker, OneInv, NEW p \in Procs, Crash(p) PROVE OneInv'
<1>1. Become(p, Idle) /\ UNCHANGED <<batch, jobs, provider>> /\ ~NotCut
  BY DEF Crash, NotCut
<1> QED BY <1>1, WorkerLetsGo, HandlerLetsGo DEF Procs

LEMMA PollTooEarlyOne ==
    ASSUME IInv, OneWorker, OneInv, NEW w \in Workers, PollTooEarly(w) PROVE OneInv'
<1>1. /\ Become(w, Idle) /\ UNCHANGED <<batch, jobs, provider>>
      /\ proc[w].at = "loaded" /\ proc[w].entry.task = "poll"
  BY DEF PollTooEarly, Doing
<1> QED BY <1>1, WorkerLetsGo DEF Closer, Submitter

LEMMA ScheduleOne ==
    ASSUME IInv, OneWorker, OneInv, NEW w \in Workers, Schedule(w) PROVE OneInv'
<1>1. Become(w, Idle) /\ UNCHANGED <<batch, jobs, provider>> /\ proc[w].at = "schedule"
  BY DEF Schedule
<1>2. batch.providerId BY <1>1, TheWorker DEF SessionOK
<1> QED BY <1>1, <1>2, WorkerLetsGo DEF Closer

LEMMA PollWithoutIdOne ==
    ASSUME IInv, OneWorker, OneInv, NEW w \in Workers, PollWithoutId(w) PROVE OneInv'
<1> DEFINE x == proc[w]
           y == [x EXCEPT !.at = "commit", !.next = "idle", !.run.status = "failed"]
<1>1. /\ w \in Procs /\ SessionOK(x, batch, jobs) /\ WorkerOK(x, batch, jobs, provider)
      /\ x \in Process /\ x.run \in Run
  BY TheWorker, Mover
<1>2. /\ x.at = "loaded" /\ x.entry.task = "poll" /\ ~x.run.providerId /\ x.run.status # "queued"
      /\ Become(w, y) /\ UNCHANGED <<batch, jobs, provider>>
  BY DEF PollWithoutId, Doing
<1>3. /\ y.at = "commit" /\ y.next = "idle" /\ y.run = [x.run EXCEPT !.status = "failed"]
      /\ y.run0 = x.run0 /\ y.jobs = x.jobs /\ y.jobs0 = x.jobs0 /\ y.listed = x.listed /\ y.entry = x.entry
  BY <1>1 DEF Process
<1>4. /\ y.run.status = "failed" /\ y.run.providerId = x.run.providerId
      /\ y.run.cancelRequested = x.run.cancelRequested
  BY <1>1, <1>3 DEF Run
<1> HIDE DEF y
<1>5. NotCut => Ended(jobs)
  BY <1>1, <1>2 DEF WorkerOK
<1>6. SessionOK(y, batch, jobs)
  BY <1>1, <1>2, <1>3, <1>4, <1>5 DEF SessionOK, Ended, TERMINAL_BATCH_STATUSES
<1>7. WorkerOK(y, batch, jobs, provider)
  BY <1>1, <1>2, <1>3, <1>4 DEF WorkerOK, WorkerPoints
<1>8. Closer(y) /\ ~Submitter(x)
  BY <1>2, <1>3, <1>4 DEF Closer, Submitter, TERMINAL_BATCH_STATUSES
<1> QED BY <1>2, <1>6, <1>7, <1>8, WorkerGoes

LEMMA PollProviderOne ==
    ASSUME IInv, OneWorker, OneInv, NEW w \in Workers, PollProvider(w) PROVE OneInv'
<1> DEFINE x == proc[w]
           at == IF x.run.cancelRequested THEN "cancelProvider" ELSE "retrieve"
           y == [x EXCEPT !.at = at]
<1>1. /\ w \in Procs /\ SessionOK(x, batch, jobs) /\ WorkerOK(x, batch, jobs, provider) /\ x \in Process
  BY TheWorker, Mover
<1>2. /\ x.at = "loaded" /\ x.entry.task = "poll" /\ Become(w, y) /\ UNCHANGED <<batch, jobs, provider>>
  BY DEF PollProvider, Doing
<1>3. at \in {"cancelProvider", "retrieve"} OBVIOUS
<1> HIDE DEF at
<1>4. /\ y.at = at /\ y.next = x.next /\ y.run = x.run /\ y.run0 = x.run0 /\ y.jobs = x.jobs
      /\ y.jobs0 = x.jobs0 /\ y.listed = x.listed /\ y.entry = x.entry
  BY <1>1 DEF Process
<1> HIDE DEF y
<1>5. SessionOK(y, batch, jobs)
  BY <1>1, <1>2, <1>3, <1>4 DEF SessionOK
<1>6. WorkerOK(y, batch, jobs, provider)
  BY <1>1, <1>2, <1>3, <1>4 DEF WorkerOK, WorkerPoints
<1>7. ~Closer(x) /\ ~Submitter(x)
  BY <1>2 DEF Closer, Submitter
<1> QED BY <1>2, <1>5, <1>6, <1>7, WorkerGoes

\* What the answers say when the provider's batch is created with the jobs the
\* session sees as queued.
LEMMA CreatedRows ==
    ASSUME IInv, OneInv, NEW w \in Workers, proc[w].at = "create", UNCHANGED <<batch, jobs>>,
           provider' = [state |-> "validating", items |-> {j \in Jobs : proc[w].jobs[j] = "queued"}, lines |-> NoLines]
    PROVE  RowsOK(batch, jobs, provider') /\ Kept(proc[w].jobs, provider')
<1>1. w \in Procs /\ ProcOK(proc[w], provider) /\ RowsOK(batch, jobs, provider)
  BY TheWorker, Mover
<1>2. provider.state = "none" BY <1>1 DEF ProcOK, Holder
<1>3. /\ provider'.state = "validating" /\ provider'.items = {j \in Jobs : proc[w].jobs[j] = "queued"}
      /\ \A j \in Jobs : provider'.lines[j] = "none"
  BY DEF NoLines
<1> QED BY <1>1, <1>2, <1>3 DEF RowsOK, Kept

LEMMA CreateAtProviderOne ==
    ASSUME IInv, OneWorker, OneInv, NEW w \in Workers, CreateAtProvider(w) PROVE OneInv'
<1> DEFINE x == proc[w]
           y == [x EXCEPT !.at = "commit", !.next = "schedule", !.run.providerId = TRUE,
                          !.run.status = StatusFromProvider["validating"], !.resent = 0]
           run == [x.run EXCEPT !.providerId = TRUE, !.status = StatusFromProvider["validating"]]
<1>1. /\ w \in Procs /\ SessionOK(x, batch, jobs) /\ WorkerOK(x, batch, jobs, provider)
      /\ x \in Process /\ x.run \in Run /\ ProcOK(x, provider)
  BY TheWorker, Mover
<1>2. /\ x.at = "create" /\ Become(w, y) /\ UNCHANGED <<batch, jobs>>
      /\ provider' = [state |-> "validating", items |-> {j \in Jobs : x.jobs[j] = "queued"}, lines |-> NoLines]
  BY DEF CreateAtProvider
<1>3. StatusFromProvider["validating"] = "submitted" BY DEF StatusFromProvider
<1>4. run.status = "submitted" /\ run.providerId /\ run.cancelRequested = x.run.cancelRequested
  BY <1>1, <1>3 DEF Run
<1>5. /\ y.at = "commit" /\ y.next = "schedule" /\ y.run = run /\ y.run0 = x.run0 /\ y.jobs = x.jobs
      /\ y.jobs0 = x.jobs0 /\ y.listed = x.listed /\ y.entry = x.entry
  BY <1>1 DEF Process
<1> HIDE DEF y, run
<1>6. RowsOK(batch, jobs, provider') /\ Kept(x.jobs, provider')
  BY <1>2, CreatedRows
<1>7. SessionOK(y, batch, jobs)
  BY <1>1, <1>2, <1>4, <1>5 DEF SessionOK, TERMINAL_BATCH_STATUSES
<1>8. WorkerOK(y, batch, jobs, provider')
  BY <1>1, <1>2, <1>4, <1>5, <1>6 DEF WorkerOK, WorkerPoints
<1>9. Submitter(y) BY <1>1, <1>2, <1>5 DEF Submitter, ProcOK
<1>10. NotCut /\ batch.status \in TERMINAL_BATCH_STATUSES => Ended(jobs)
  <2>1. ~Closer(x) BY <1>2 DEF Closer
  <2> QED BY <2>1 DEF OneInv, CoverOK, OneWorker
<1> QED BY <1>2, <1>6, <1>7, <1>8, <1>9, <1>10, SameRows, WorkerMoves

LEMMA CreateAgainOne ==
    ASSUME IInv, OneWorker, OneInv, NEW w \in Workers, CreateAgain(w) PROVE OneInv'
<1> DEFINE x == proc[w]
           y == [x EXCEPT !.resent = @ + 1]
<1>1. /\ w \in Procs /\ SessionOK(x, batch, jobs) /\ WorkerOK(x, batch, jobs, provider) /\ x \in Process
  BY TheWorker, Mover
<1>2. x.at = "create" /\ Become(w, y) /\ UNCHANGED <<batch, jobs, provider>>
  BY DEF CreateAgain
<1>3. /\ y.at = x.at /\ y.next = x.next /\ y.run = x.run /\ y.run0 = x.run0 /\ y.jobs = x.jobs
      /\ y.jobs0 = x.jobs0 /\ y.listed = x.listed /\ y.entry = x.entry
  BY <1>1 DEF Process
<1> HIDE DEF y
<1>4. SessionOK(y, batch, jobs)
  BY <1>1, <1>3 DEF SessionOK
<1>5. WorkerOK(y, batch, jobs, provider)
  BY <1>1, <1>3 DEF WorkerOK
<1>6. ~Closer(x) /\ (Submitter(x) => Submitter(y))
  BY <1>2, <1>3 DEF Closer, Submitter
<1> QED BY <1>2, <1>4, <1>5, <1>6, WorkerGoes

LEMMA CreateAnswerLostOne ==
    ASSUME IInv, OneWorker, OneInv, NEW w \in Workers, CreateAnswerLost(w) PROVE OneInv'
<1>1. /\ proc[w].at = "create" /\ Become(w, Closing(proc[w], "failed", "failed"))
      /\ UNCHANGED <<batch, jobs, provider>>
  BY DEF CreateAnswerLost
<1>2. proc[w].run.status \notin TERMINAL_BATCH_STATUSES
  BY <1>1, TheWorker DEF SessionOK, OpenStatuses, TERMINAL_BATCH_STATUSES
<1>3. RowsOK(batch, jobs, provider) BY DEF OneInv
<1> QED BY <1>1, <1>2, <1>3, ClosingOne

\* The provider works on the batch it has until the batch ends.
WorkedOn(pr, pr2) ==
    /\ pr.state \notin {"none"} \cup ProviderEnds /\ pr2.state # "none" /\ pr2.items = pr.items
    /\ \A j \in Jobs : pr2.lines[j] # "none" => j \in pr.items

LEMMA ProviderWorks ==
    ASSUME NEW pr, NEW pr2, WorkedOn(pr, pr2)
    PROVE  /\ \A b, table : RowsOK(b, table, pr) => RowsOK(b, table, pr2)
           /\ \A x, b, table : WorkerOK(x, b, table, pr) => WorkerOK(x, b, table, pr2)
<1>1. \A table : Kept(table, pr) => Kept(table, pr2)
  BY DEF WorkedOn, Kept
<1> QED BY <1>1 DEF WorkedOn, RowsOK, WorkerOK

LEMMA ProviderStepOne == ASSUME IInv, OneInv, ProviderStep PROVE OneInv'
<1>1. UNCHANGED <<batch, jobs, proc>> BY Zenon DEF ProviderStep
<1>2. \A j \in Jobs : provider.lines[j] # "none" => j \in provider.items
  BY DEF OneInv, RowsOK
<1>3. WorkedOn(provider, provider')
  BY <1>2, ProviderMoves DEF IInv, TypeOK, WorkedOn, ProviderEnds
<1>4. RowsOK(batch, jobs, provider') /\ \A w \in Workers : WorkerOK(proc[w], batch, jobs, provider')
  BY <1>3, ProviderWorks DEF OneInv
<1> QED BY <1>1, <1>4 DEF OneInv

LEMMA CancelAtProviderOne ==
    ASSUME IInv, OneWorker, OneInv, NEW w \in Workers, CancelAtProvider(w) PROVE OneInv'
<1> DEFINE x == proc[w]
           y == [x EXCEPT !.at = "retrieve"]
<1>1. /\ w \in Procs /\ SessionOK(x, batch, jobs) /\ WorkerOK(x, batch, jobs, provider)
      /\ RowsOK(batch, jobs, provider) /\ x \in Process /\ provider \in ProviderBatch
  BY TheWorker, Mover
<1>2. x.at = "cancelProvider" /\ Become(w, y) /\ UNCHANGED <<batch, jobs>>
  BY DEF CancelAtProvider
<1>3. provider' = provider \/ WorkedOn(provider, provider')
  BY <1>1 DEF CancelAtProvider, ProviderBatch, WorkedOn, ProviderEnds, RowsOK
<1>4. /\ y.at = "retrieve" /\ y.next = x.next /\ y.run = x.run /\ y.run0 = x.run0 /\ y.jobs = x.jobs
      /\ y.jobs0 = x.jobs0 /\ y.listed = x.listed /\ y.entry = x.entry
  BY <1>1 DEF Process
<1> HIDE DEF y
<1>5. SessionOK(y, batch, jobs)
  BY <1>1, <1>2, <1>4 DEF SessionOK
<1>6. WorkerOK(y, batch, jobs, provider)
  BY <1>1, <1>2, <1>4 DEF WorkerOK, WorkerPoints
<1>7. RowsOK(batch, jobs, provider') /\ WorkerOK(y, batch, jobs, provider')
  BY <1>1, <1>3, <1>6, ProviderWorks
<1>8. ~Closer(x) /\ (Submitter(x) => Submitter(y))
  BY <1>2, <1>4 DEF Closer, Submitter
<1>9. /\ NotCut /\ batch.status \in TERMINAL_BATCH_STATUSES => Ended(jobs)
      /\ NotCut /\ batch.status \notin {"absent", "queued"} /\ ~batch.providerId
            => Ended(jobs) \/ Submitter(y)
  BY <1>8 DEF OneInv, CoverOK, OneWorker
<1> QED BY <1>2, <1>5, <1>7, <1>9, SameRows, WorkerMoves

\* The status the poll brings back; the jobs are listed now if they were not.
LEMMA RetrieveOne ==
    ASSUME IInv, OneWorker, OneInv, NEW w \in Workers, Retrieve(w) PROVE OneInv'
<1> DEFINE x == List(proc[w])
           status == StatusFromProvider[provider.state]
           y == [x EXCEPT !.at = "apply", !.run.status = status]
<1>1. /\ w \in Procs /\ SessionOK(proc[w], batch, jobs) /\ WorkerOK(proc[w], batch, jobs, provider)
      /\ RowsOK(batch, jobs, provider) /\ proc[w] \in Process /\ provider \in ProviderBatch
      /\ jobs \in JobTable /\ ProcOK(proc[w], provider) /\ batch \in Run
  BY TheWorker, Mover
<1>2. proc[w].at = "retrieve" /\ Become(w, y) /\ UNCHANGED <<batch, jobs, provider>>
  BY DEF Retrieve
<1>3. /\ x \in Process /\ x.listed /\ x.next = proc[w].next
      /\ x.run = proc[w].run /\ x.run0 = proc[w].run0 /\ x.entry = proc[w].entry
      /\ x.jobs0 = (IF proc[w].listed THEN proc[w].jobs0 ELSE jobs)
      /\ x.jobs = (IF proc[w].listed THEN proc[w].jobs ELSE jobs)
      /\ \A j \in Jobs : x.jobs0[j] # "queued" => x.jobs[j] = x.jobs0[j] /\ jobs[j] # "queued"
  BY <1>1, <1>2, Listed
<1>4. provider.state # "none" /\ proc[w].run.providerId
  BY <1>1, <1>2 DEF ProcOK
<1>5. status # "queued" /\ (status \in TERMINAL_BATCH_STATUSES => provider.state \in ProviderEnds)
  BY <1>1, <1>4 DEF ProviderBatch, StatusFromProvider, ProviderEnds, TERMINAL_BATCH_STATUSES
<1> HIDE DEF x, status
<1>6. x.run \in Run BY <1>3 DEF Process
<1>7. /\ y.at = "apply" /\ y.next = x.next /\ y.run = [x.run EXCEPT !.status = status]
      /\ y.run0 = x.run0 /\ y.jobs = x.jobs /\ y.jobs0 = x.jobs0 /\ y.listed /\ y.entry = x.entry
  BY <1>3 DEF Process
<1>8. /\ y.run.status = status /\ y.run.providerId = x.run.providerId
      /\ y.run.cancelRequested = x.run.cancelRequested
  BY <1>6, <1>7 DEF Run
<1> HIDE DEF y
<1>9. SessionOK(y, batch, jobs)
  BY <1>1, <1>2, <1>3, <1>4, <1>5, <1>7, <1>8 DEF SessionOK
<1>10. /\ batch.status # "absent"
       /\ ~batch.cancelRequested => proc[w].run0.status = batch.status /\ batch.status \notin TERMINAL_BATCH_STATUSES
  BY <1>1, <1>2 DEF WorkerOK
<1>11. AllRead /\ ~batch.cancelRequested => Kept(y.jobs, provider)
  <2> SUFFICES ASSUME AllRead, ~batch.cancelRequested PROVE Kept(y.jobs, provider)
    OBVIOUS
  <2>1. CASE proc[w].listed
    BY <1>1, <1>2, <1>3, <1>7, <2>1 DEF WorkerOK, SessionOK, OpenStatuses
  <2>2. CASE ~proc[w].listed
    BY <1>1, <1>3, <1>7, <1>10, <2>2 DEF RowsOK, TERMINAL_BATCH_STATUSES
  <2> QED BY <2>1, <2>2
<1>12. WorkerOK(y, batch, jobs, provider)
  BY <1>1, <1>2, <1>3, <1>5, <1>7, <1>8, <1>10, <1>11 DEF WorkerOK, WorkerPoints
<1>13. ~Closer(proc[w]) /\ (Submitter(proc[w]) => Submitter(y))
  BY <1>2, <1>3, <1>7 DEF Closer, Submitter
<1> QED BY <1>2, <1>9, <1>12, <1>13, WorkerGoes

\* What the worker's commit of run r and of the jobs in table does to the rows: as
\* long as nobody cancels the run they become what the session holds.
LEMMA WorkerFlush ==
    ASSUME IInv, OneInv, NEW w \in Workers, proc[w].at \in {"apply", "commit"},
           NEW r \in Run, r.status = proc[w].run.status, r.providerId = proc[w].run.providerId,
           r.cancelRequested = proc[w].run.cancelRequested,
           NEW table \in JobTable,
           \A j \in Jobs : proc[w].jobs[j] # "queued" => table[j] = proc[w].jobs[j],
           ~proc[w].listed => table = proc[w].jobs,
           batch' = FlushRun(r, proc[w].run0, batch), jobs' = FlushJobs(table, proc[w].jobs0, jobs),
           UNCHANGED provider
    PROVE  /\ Grown(batch, jobs, batch', jobs')
           /\ \A j \in Jobs : /\ jobs'[j] = IF table[j] # proc[w].jobs0[j] THEN table[j] ELSE jobs[j]
                              /\ jobs[j] # "queued" \/ table[j] # "queued" => jobs'[j] # "queued"
           /\ batch'.providerId = (r.providerId \/ batch.providerId)
           /\ batch'.cancelRequested = batch.cancelRequested
           /\ batch'.status = IF r.status # proc[w].run0.status THEN r.status ELSE batch.status
           /\ ~batch.cancelRequested => batch'.status = r.status
           /\ ~batch.cancelRequested /\ "cancelJob" \notin Ops /\ proc[w].listed => jobs' = table
           /\ AllRead /\ Kept(table, provider) /\ provider.state # "none" => RowsOK(batch', jobs', provider')
           /\ r.status \in {"failed", "canceled"} => RowsOK(batch', jobs', provider')
           /\ ~AllRead => RowsOK(batch', jobs', provider')
           /\ ~proc[w].listed /\ (r.status \notin {"failed", "canceled"} => provider.state # "none")
                 => RowsOK(batch', jobs', provider')
<1> DEFINE x == proc[w]
<1>1. /\ w \in Procs /\ SessionOK(x, batch, jobs) /\ WorkerOK(x, batch, jobs, provider)
      /\ RowsOK(batch, jobs, provider)
      /\ \A j \in Jobs : x.jobs0[j] # "queued" => x.jobs[j] = x.jobs0[j] /\ jobs[j] # "queued"
      /\ x.run0.providerId => x.run.providerId /\ batch.providerId
      /\ x.run0.cancelRequested => x.run.cancelRequested /\ batch.cancelRequested
      /\ x.run.cancelRequested => batch.cancelRequested
      /\ x.run \in Run /\ x.run0 \in Run /\ batch \in Run /\ x.jobs0 \in JobTable /\ jobs \in JobTable
      /\ ProcOK(x, provider)
  BY TheWorker, Mover
<1>2. /\ batch'.providerId = (r.providerId \/ batch.providerId)
      /\ batch'.cancelRequested = (r.cancelRequested \/ batch.cancelRequested)
      /\ batch'.status = IF r.status # x.run0.status THEN r.status ELSE batch.status
  BY <1>1, FlushedRun
<1>3. batch'.cancelRequested = batch.cancelRequested
  BY <1>1, <1>2 DEF Run
<1>4. \A j \in Jobs : x.jobs0[j] # "queued" => table[j] = x.jobs0[j] /\ jobs[j] # "queued"
  BY <1>1
<1>5. \A j \in Jobs : /\ jobs'[j] = IF table[j] # x.jobs0[j] THEN table[j] ELSE jobs[j]
                      /\ jobs[j] # "queued" \/ table[j] # "queued" => jobs'[j] # "queued"
  BY <1>1, <1>4, FlushedJobs
<1>6. /\ r.status \notin {"absent", "queued"} /\ batch.status # "absent"
      /\ ~batch.cancelRequested => x.run0.status = batch.status
      /\ ~batch.cancelRequested /\ batch.status \in TERMINAL_BATCH_STATUSES => x.run.status = batch.status
      /\ ~batch.cancelRequested /\ "cancelJob" \notin Ops /\ x.listed => x.jobs0 = jobs
      /\ ~x.listed => x.jobs = x.jobs0
  BY <1>1 DEF SessionOK, WorkerOK, ProcOK
<1>7. Grown(batch, jobs, batch', jobs')
  BY <1>2, <1>3, <1>5, <1>6 DEF Grown
<1>8. ~batch.cancelRequested => batch'.status = r.status
  BY <1>2, <1>6
<1>9. x.jobs0 = jobs => jobs' = table
  <2>1. x.jobs0 = jobs => \A j \in Jobs : jobs'[j] = table[j]
    BY <1>5
  <2>2. jobs' \in [Jobs -> {"queued"} \cup JobEnds]
    BY <1>1 DEF FlushJobs, JobTable, Column
  <2> QED BY <2>1, <2>2 DEF JobTable
<1>10. \/ ~AllRead
       \/ ~batch'.cancelRequested /\ batch'.status \notin {"failed", "canceled"}
             => Kept(jobs', provider) /\ (provider.state = "none" => \A j \in Jobs : jobs'[j] # "failed")
       => RowsOK(batch', jobs', provider')
  BY <1>1, <1>3, <1>7 DEF RowsOK, Grown
<1>11. r.status \in {"failed", "canceled"} => RowsOK(batch', jobs', provider')
  BY <1>3, <1>8, <1>10
<1>12. AllRead /\ ~batch.cancelRequested /\ r.status \notin {"failed", "canceled"} => Kept(jobs, provider)
  BY <1>1, <1>6 DEF RowsOK, TERMINAL_BATCH_STATUSES
<1>13. AllRead /\ Kept(table, provider) /\ provider.state # "none" => RowsOK(batch', jobs', provider')
  <2> SUFFICES ASSUME AllRead, Kept(table, provider), provider.state # "none",
                      r.status \notin {"failed", "canceled"}, ~batch.cancelRequested
               PROVE  Kept(jobs', provider)
    BY <1>3, <1>10, <1>11
  <2> QED BY <1>5, <1>12 DEF Kept
<1>14. ~x.listed /\ (r.status \notin {"failed", "canceled"} => provider.state # "none")
         => RowsOK(batch', jobs', provider')
  <2> SUFFICES ASSUME ~x.listed, r.status \notin {"failed", "canceled"}, provider.state # "none",
                      AllRead, ~batch.cancelRequested
               PROVE  Kept(jobs', provider)
    BY <1>3, <1>10, <1>11
  <2> QED BY <1>5, <1>6, <1>12 DEF Kept
<1> QED BY <1>2, <1>3, <1>5, <1>6, <1>7, <1>8, <1>9, <1>10, <1>11, <1>13, <1>14

LEMMA FinishOne ==
    ASSUME IInv, OneWorker, OneInv, NEW w \in Workers, Finish(w) PROVE OneInv'
<1> DEFINE x == proc[w]
           ended == x.run.status \in TERMINAL_BATCH_STATUSES
           end == IF x.run.status = "canceled" \/ x.run.cancelRequested THEN "canceled" ELSE "failed"
           next == IF ended THEN "idle" ELSE "schedule"
           table == IF ended THEN EndQueued(x.jobs, end) ELSE x.jobs
           y == [x EXCEPT !.at = "commit", !.next = next, !.jobs = table]
<1>1. /\ w \in Procs /\ SessionOK(x, batch, jobs) /\ WorkerOK(x, batch, jobs, provider)
      /\ x \in Process /\ x.jobs \in JobTable
      /\ \A j \in Jobs : x.jobs0[j] # "queued" => x.jobs[j] = x.jobs0[j] /\ jobs[j] # "queued"
  BY TheWorker, Mover
<1>2. /\ x.at = "apply" /\ Become(w, y) /\ UNCHANGED <<batch, jobs, provider>>
      /\ AllRead => Unread(x) = {}
  BY DEF Finish, AllRead
<1>3. /\ x.listed /\ x.run.providerId /\ x.run.status # "queued" /\ end # "queued"
      /\ AllRead /\ ended => provider.state \in ProviderEnds
  BY <1>1, <1>2 DEF SessionOK, WorkerOK
<1>4. /\ \A j \in Jobs : x.jobs[j] # "queued" => table[j] = x.jobs[j]
      /\ ended => \A j \in Jobs : table[j] # "queued" /\ (x.jobs[j] = "queued" => table[j] = end)
      /\ ~ended => table = x.jobs
  BY <1>3 DEF EndQueued
<1>5. AllRead /\ Kept(x.jobs, provider) => Kept(table, provider)
  <2> SUFFICES ASSUME AllRead, Kept(x.jobs, provider), ended PROVE Kept(table, provider)
    BY <1>4
  <2>1. \A j \in Jobs : x.jobs[j] = "queued" => provider.lines[j] = "none"
    BY <1>2 DEF Unread
  <2> QED BY <1>3, <1>4, <2>1 DEF Kept
<1>6. next = IF ended THEN "idle" ELSE "schedule"
  OBVIOUS
<1> HIDE DEF next, table
<1>7. /\ y.at = "commit" /\ y.next = next /\ y.run = x.run /\ y.run0 = x.run0 /\ y.jobs = table
      /\ y.jobs0 = x.jobs0 /\ y.listed /\ y.entry = x.entry
  BY <1>1, <1>3 DEF Process
<1> HIDE DEF y, end
<1>8. SessionOK(y, batch, jobs)
  BY <1>1, <1>3, <1>4, <1>6, <1>7 DEF SessionOK
<1>9. WorkerOK(y, batch, jobs, provider)
  BY <1>1, <1>2, <1>3, <1>5, <1>6, <1>7 DEF WorkerOK, WorkerPoints
<1>10. (Closer(x) => Closer(y)) /\ (Submitter(x) => Submitter(y))
  BY <1>2, <1>7 DEF Closer, Submitter
<1> QED BY <1>2, <1>8, <1>9, <1>10, WorkerGoes

\* A line of the output ends its job; a save commits the run's new status with it.
LEMMA ApplyLineOne ==
    ASSUME IInv, OneWorker, OneInv, NEW w \in Workers, NEW j \in Jobs, ApplyLine(w, j) PROVE OneInv'
<1> DEFINE x == proc[w]
           table == [x.jobs EXCEPT ![j] = LineOutcome(provider.lines[j])]
           y == [x EXCEPT !.jobs[j] = LineOutcome(provider.lines[j])]
           saves == AutoSave /\ y.jobs[j] = "completed"
           z == [y EXCEPT !.run0 = x.run, !.jobs0 = y.jobs]
<1>1. /\ w \in Procs /\ SessionOK(x, batch, jobs) /\ WorkerOK(x, batch, jobs, provider)
      /\ x \in Process /\ x.jobs \in JobTable /\ x.jobs0 \in JobTable /\ x.run \in Run
      /\ \A i \in Jobs : x.jobs0[i] # "queued" => x.jobs[i] = x.jobs0[i] /\ jobs[i] # "queued"
      /\ x.run0.providerId => x.run.providerId /\ batch.providerId
      /\ x.run0.cancelRequested => x.run.cancelRequested /\ batch.cancelRequested
      /\ x.run.providerId => provider.state # "none"
  BY TheWorker, Mover
<1>2. /\ x.at = "apply" /\ j \in Unread(x) /\ UNCHANGED provider
  BY DEF ApplyLine
<1>3. /\ x.run.status \in TERMINAL_BATCH_STATUSES /\ x.jobs[j] = "queued"
      /\ x.listed /\ x.run.providerId /\ x.next = "idle" /\ x.run.status # "queued"
      /\ AllRead => provider.state \in ProviderEnds
  BY <1>1, <1>2 DEF Unread, SessionOK, WorkerOK
<1>4. /\ table \in JobTable /\ table[j] # "queued"
      /\ table[j] = "failed" => provider.lines[j] # "ok"
      /\ \A i \in Jobs : x.jobs[i] # "queued" => table[i] = x.jobs[i]
      /\ \A i \in Jobs : table[i] = "failed" => x.jobs[i] = "failed" \/ i = j
  BY <1>1, <1>3 DEF LineOutcome, JobTable, JobEnds
<1>5. AllRead /\ Kept(x.jobs, provider) => Kept(table, provider)
  BY <1>3, <1>4 DEF Kept
<1>6. /\ y.jobs = table /\ y.at = "apply" /\ y.next = "idle" /\ y.run = x.run /\ y.run0 = x.run0
      /\ y.jobs0 = x.jobs0 /\ y.listed /\ y.entry = x.entry /\ y \in Process
  BY <1>1, <1>2, <1>3, <1>4 DEF Process
<1>7. CASE ~saves
  <2>1. Become(w, y) /\ UNCHANGED <<batch, jobs>>
    BY <1>7, Zenon DEF ApplyLine
  <2> HIDE DEF y, table
  <2>2. SessionOK(y, batch, jobs)
    BY <1>1, <1>2, <1>3, <1>4, <1>6 DEF SessionOK
  <2>3. WorkerOK(y, batch, jobs, provider)
    BY <1>1, <1>2, <1>3, <1>5, <1>6 DEF WorkerOK, WorkerPoints
  <2>4. (Closer(x) => Closer(y)) /\ (Submitter(x) => Submitter(y))
    BY <1>2, <1>6 DEF Closer, Submitter
  <2> QED BY <1>2, <2>1, <2>2, <2>3, <2>4, WorkerGoes
<1>8. CASE saves
  <2>1. batch' = FlushRun(x.run, x.run0, batch) /\ jobs' = FlushJobs(y.jobs, x.jobs0, jobs) /\ Become(w, z) /\ AutoSave
    BY <1>8, Zenon DEF ApplyLine
  <2> HIDE DEF y, table
  <2>2. /\ z.jobs = table /\ z.jobs0 = table /\ z.run = x.run /\ z.run0 = x.run /\ z.at = "apply"
        /\ z.next = "idle" /\ z.listed /\ z.entry = x.entry
    BY <1>6 DEF Process
  <2> HIDE DEF z
  <2>3. jobs' = FlushJobs(table, x.jobs0, jobs) BY <1>6, <2>1
  <2>4. /\ Grown(batch, jobs, batch', jobs')
        /\ \A i \in Jobs : jobs[i] # "queued" \/ table[i] # "queued" => jobs'[i] # "queued"
        /\ batch'.providerId = (x.run.providerId \/ batch.providerId)
        /\ batch'.cancelRequested = batch.cancelRequested
        /\ ~batch.cancelRequested => batch'.status = x.run.status
        /\ ~batch.cancelRequested /\ "cancelJob" \notin Ops => jobs' = table
        /\ AllRead /\ Kept(table, provider) => RowsOK(batch', jobs', provider')
        /\ x.run.status \in {"failed", "canceled"} => RowsOK(batch', jobs', provider')
        /\ ~AllRead => RowsOK(batch', jobs', provider')
    BY <1>1, <1>2, <1>3, <1>4, <2>1, <2>3, WorkerFlush
  <2>5. x.run.cancelRequested => batch.cancelRequested
    BY <1>1, <1>2 DEF WorkerOK
  <2>6. SessionOK(z, batch', jobs')
    BY <1>3, <2>2, <2>4, <2>5 DEF SessionOK
  <2>7. AllRead /\ ~batch.cancelRequested /\ x.run.status \notin {"failed", "canceled"} => Kept(table, provider)
    BY <1>1, <1>2, <1>3, <1>5 DEF WorkerOK
  <2>8. batch'.status # "absent"
    BY <1>1, <1>2, <2>4 DEF WorkerOK, Grown
  <2>9. WorkerOK(z, batch', jobs', provider')
    BY <1>2, <1>3, <2>1, <2>2, <2>4, <2>5, <2>7, <2>8 DEF WorkerOK, WorkerPoints
  <2>10. RowsOK(batch', jobs', provider')
    <3>1. CASE batch.cancelRequested
      BY <1>2, <2>4, <3>1 DEF OneInv, RowsOK, Grown
    <3> QED BY <2>4, <2>7, <3>1
  <2>11. Closer(z) BY <1>3, <2>2 DEF Closer
  <2>12. batch'.providerId BY <1>3, <2>4
  <2> QED BY <2>1, <2>4, <2>6, <2>9, <2>10, <2>11, <2>12, WorkerMoves
<1> QED BY <1>7, <1>8

\* The commit that ends a task, or the one before the next poll is scheduled.
LEMMA WorkerCommitOne ==
    ASSUME IInv, OneWorker, OneInv, NEW w \in Workers, Commit(w) PROVE OneInv'
<1> DEFINE x == proc[w]
           new == [x.run EXCEPT !.counts = CountersSeen(x)]
           y == [x EXCEPT !.at = x.next, !.run0 = new, !.run = new, !.jobs0 = x.jobs]
<1>1. /\ w \in Procs /\ SessionOK(x, batch, jobs) /\ WorkerOK(x, batch, jobs, provider)
      /\ x \in Process /\ x.run \in Run /\ x.jobs \in JobTable /\ ProcOK(x, provider) /\ jobs \in JobTable
      /\ RowsOK(batch, jobs, provider)
      /\ \A j \in Jobs : x.jobs0[j] # "queued" => x.jobs[j] = x.jobs0[j] /\ jobs[j] # "queued"
  BY TheWorker, Mover
<1>2. /\ x.at = "commit" /\ batch' = FlushRun(new, x.run0, batch) /\ jobs' = FlushJobs(x.jobs, x.jobs0, jobs)
      /\ Become(w, IF x.next = "idle" THEN Idle ELSE y) /\ UNCHANGED provider
  BY DEF Commit
<1>3. CountersSeen(x) \in Counters
  BY TallyType DEF CountersSeen
<1>4. /\ new \in Run /\ new.status = x.run.status /\ new.providerId = x.run.providerId
      /\ new.cancelRequested = x.run.cancelRequested
  BY <1>1, <1>3 DEF Run
<1>5. /\ y.at = x.next /\ y.run0 = new /\ y.run = new /\ y.jobs0 = x.jobs /\ y.jobs = x.jobs
      /\ y.listed = x.listed /\ y.entry = x.entry
  BY <1>1 DEF Process
<1> HIDE DEF new, y
<1>6. /\ x.run.status \notin {"absent", "queued"} /\ (x.next = "idle" <=> x.run.status \in TERMINAL_BATCH_STATUSES)
      /\ x.next # "enqueuePoll" /\ (x.run.status \in {"failed", "canceled"} \/ x.run.providerId)
      /\ x.run.cancelRequested => batch.cancelRequested
      /\ x.run.providerId => provider.state # "none"
      /\ ~x.listed => x.jobs = x.jobs0
  BY <1>1, <1>2 DEF SessionOK, WorkerOK, ProcOK
<1>7. /\ Grown(batch, jobs, batch', jobs')
      /\ \A j \in Jobs : jobs[j] # "queued" \/ x.jobs[j] # "queued" => jobs'[j] # "queued"
      /\ batch'.providerId = (x.run.providerId \/ batch.providerId)
      /\ batch'.cancelRequested = batch.cancelRequested
      /\ batch'.status = IF x.run.status # x.run0.status THEN x.run.status ELSE batch.status
      /\ ~batch.cancelRequested => batch'.status = x.run.status
      /\ ~batch.cancelRequested /\ "cancelJob" \notin Ops /\ x.listed => jobs' = x.jobs
      /\ AllRead /\ Kept(x.jobs, provider) /\ provider.state # "none" => RowsOK(batch', jobs', provider')
      /\ x.run.status \in {"failed", "canceled"} => RowsOK(batch', jobs', provider')
      /\ ~AllRead => RowsOK(batch', jobs', provider')
      /\ ~x.listed /\ (x.run.status \notin {"failed", "canceled"} => provider.state # "none")
            => RowsOK(batch', jobs', provider')
  BY <1>1, <1>2, <1>4, WorkerFlush
<1>8. AllRead /\ ~batch.cancelRequested /\ x.listed /\ x.run.status \notin {"failed", "canceled"}
        => Kept(x.jobs, provider)
  BY <1>1, <1>2 DEF WorkerOK
<1>9. RowsOK(batch', jobs', provider')
  <2>1. CASE batch.cancelRequested
    BY <1>1, <1>2, <1>7, <2>1 DEF RowsOK, Grown
  <2> QED BY <1>6, <1>7, <1>8, <2>1
<1>10. CASE x.next = "idle"
  <2>1. NotCut => Ended(jobs')
    BY <1>1, <1>2, <1>6, <1>7, <1>10 DEF SessionOK, Ended
  <2>2. Become(w, Idle) BY <1>2, <1>10
  <2> QED BY <1>7, <1>9, <2>1, <2>2, IdleFits, WorkerMoves
<1>11. CASE x.next # "idle"
  <2>1. x.next = "schedule" /\ Become(w, y)
    BY <1>1, <1>2, <1>6, <1>11 DEF Process
  <2>2. x.run.status \in OpenStatuses /\ x.run.status \notin TERMINAL_BATCH_STATUSES /\ x.run.providerId
    BY <1>1, <1>6, <1>11 DEF Run, TERMINAL_BATCH_STATUSES
  <2>3. SessionOK(y, batch', jobs')
    BY <1>4, <1>5, <1>6, <1>7, <2>1, <2>2 DEF SessionOK
  <2>4. WorkerOK(y, batch', jobs', provider')
    <3>1. batch'.status # "absent" BY <1>1, <1>2, <1>7 DEF WorkerOK, Grown
    <3> QED BY <1>2, <1>4, <1>5, <1>6, <1>7, <1>8, <2>1, <2>2, <3>1 DEF WorkerOK, WorkerPoints
  <2>5. NotCut /\ batch'.status \in TERMINAL_BATCH_STATUSES => Ended(jobs')
    <3>1. ~Closer(x) BY <2>2 DEF Closer
    <3>2. NotCut /\ batch.status \in TERMINAL_BATCH_STATUSES => Ended(jobs)
      BY <3>1 DEF OneInv, CoverOK, OneWorker
    <3> QED BY <1>7, <2>2, <3>2 DEF Ended
  <2>6. batch'.providerId BY <1>7, <2>2
  <2> QED BY <1>7, <1>9, <2>1, <2>3, <2>4, <2>5, <2>6, WorkerMoves
<1> QED BY <1>10, <1>11

-----------------------------------------------------------------------------
(* The theorems about one worker.                                          *)

LEMMA InitOne == Init => OneInv
<1> SUFFICES ASSUME Init PROVE OneInv OBVIOUS
<1>1. /\ batch = NoRun /\ proc = [p \in Procs |-> Idle]
      /\ provider = [state |-> "none", items |-> {}, lines |-> NoLines]
      /\ \A j \in Jobs : jobs[j] = "queued" /\ NoLines[j] = "none"
  BY DEF Init, AllQueued, NoLines
<1>2. NoRun.status = "absent" /\ ~NoRun.cancelRequested /\ ~NoRun.providerId
  BY DEF NoRun
<1>3. RowsOK(batch, jobs, provider)
  BY <1>1, <1>2 DEF RowsOK, Kept
<1>4. CoverOK(batch, jobs, proc)
  BY <1>1, <1>2 DEF CoverOK, TERMINAL_BATCH_STATUSES
<1> QED BY <1>1, <1>3, <1>4, IdleFits DEF OneInv, Procs

LEMMA WorkOne == ASSUME IInv, OneWorker, OneInv, NEW w \in Workers, Work(w) PROVE OneInv'
BY TakeOne, BeginOne, ComposeOne, CreateAtProviderOne, PollTooEarlyOne, PollWithoutIdOne, PollTimeoutOne,
   PollProviderOne, CancelAtProviderOne, RetrieveOne, ApplyLineOne, FinishOne, ScheduleOne
DEF Work

LEMMA HandleOne == ASSUME IInv, OneWorker, OneInv, NEW h \in Handlers, Handle(h) PROVE OneInv'
BY CreateOne, CancelRunOne, CancelJobRowOne, HandlerLetsGo DEF Handle, Enqueue, EnqueuePoll

LEMMA ClientOne == ASSUME IInv, OneInv, Client PROVE OneInv'
BY StartCancelOne, StartCancelJobOne, QueueMoves DEF Client, Get

LEMMA FaultOne == ASSUME IInv, OneWorker, OneInv, Fault PROVE OneInv'
BY CreateAgainOne, CreateAnswerLostOne, TaskFailsOne, CrashOne, HandlerLetsGo DEF Fault, EnqueueFails

LEMMA StepOne == IInv /\ OneWorker /\ OneInv /\ [Next]_vars => OneInv'
<1> SUFFICES ASSUME IInv, OneWorker, OneInv, [Next]_vars PROVE OneInv' OBVIOUS
<1>1. CASE \E h \in Handlers : Handle(h) BY <1>1, HandleOne
<1>2. CASE \E w \in Workers : Work(w) BY <1>2, WorkOne
<1>3. CASE \E p \in Procs : Commit(p) BY <1>3, WorkerCommitOne, HandlerCommitOne DEF Procs
<1>4. CASE Client BY <1>4, ClientOne
<1>5. CASE ProviderStep BY <1>5, ProviderStepOne
<1>6. CASE Fault BY <1>6, FaultOne
<1>7. CASE Rest \/ UNCHANGED vars BY <1>7, QueueMoves DEF Rest, vars
<1> QED BY <1>1, <1>2, <1>3, <1>4, <1>5, <1>6, <1>7 DEF Next

\* With one RQ worker, what its open session believes of the run and of its jobs is
\* what the rows say, but for the cancels, and a closed run has its jobs ended or
\* about to be ended (provider_batches.py 614-902).
THEOREM OneWorkerInductive == ASSUME OneWorker PROVE Spec => []OneInv
<1>1. IInv /\ OneInv /\ [Next]_vars => OneInv'
  BY StepOne
<1> QED BY InitOne, <1>1, Inductive, PTL DEF Spec

\* When the run is closed and no session is open, every job has ended: the client
\* that stops polling misses nothing (provider_batches.py 866-875, sdk/client.py
\* 251-271).  It needs one worker, and tasks that are not cut short by a crash or by
\* the RQ timeout.
THEOREM ClosedRunsEnded ==
    ASSUME OneWorker, NotCut PROVE Spec => []ClosedRunsEndTheirJobs
<1>1. IInv /\ OneInv => ClosedRunsEndTheirJobs
  <2> SUFFICES ASSUME IInv, OneInv, Closed, Quiet PROVE AllEnded
    BY DEF ClosedRunsEndTheirJobs
  <2>1. \A w \in Workers : ~Closer(proc[w])
    BY DEF Quiet, Closer, Procs
  <2>2. Ended(jobs)
    BY <2>1 DEF OneInv, CoverOK, Closed
  <2> QED BY <2>2 DEF Ended, AllEnded, IInv, TypeOK, JobTable
<1> QED BY <1>1, OneWorkerInductive, Inductive, PTL

\* An answered item of a completed run is a completed job, unless the item or the run
\* was canceled (provider_batches.py 823-875).  It needs one worker, and polls that
\* read the whole output: no failed download, no RQ timeout.
THEOREM AnswersStay ==
    ASSUME OneWorker, AllRead PROVE Spec => []AnswersAreKept
<1>1. OneInv => AnswersAreKept
  <2> SUFFICES ASSUME OneInv, batch.status = "completed", ~batch.cancelRequested,
                      NEW j \in Jobs, provider.lines[j] = "ok"
               PROVE  jobs[j] # "failed"
    BY DEF AnswersAreKept
  <2>1. Kept(jobs, provider) /\ j \in provider.items
    BY DEF OneInv, RowsOK
  <2> QED BY <2>1 DEF Kept
<1> QED BY <1>1, OneWorkerInductive, PTL

\* What a step of a session does to the rows, one session at a time.
LEMMA WhoWrites ==
    ASSUME IInv, OneInv, [Next]_vars
    PROVE  \/ UNCHANGED <<batch, jobs>>
           \/ \E h \in Handlers : Create(h) \/ CancelJobRow(h) \/ Commit(h)
           \/ \E w \in Workers : Begin(w) \/ Commit(w) \/ \E j \in Jobs : ApplyLine(w, j)
<1>1. CASE \E h \in Handlers : Handle(h)
  BY <1>1, Zenon DEF Handle, Enqueue, CancelRun, EnqueuePoll
<1>2. CASE \E w \in Workers : Work(w)
  BY <1>2, Zenon DEF Work, Take, Compose, CreateAtProvider, PollTooEarly, PollWithoutId, PollTimeout,
              PollProvider, CancelAtProvider, Retrieve, Finish, Schedule
<1>3. CASE Client BY <1>3, Zenon DEF Client, Get, StartCancel, StartCancelJob
<1>4. CASE Fault BY <1>4, Zenon DEF Fault, CreateAgain, CreateAnswerLost, TaskFails, EnqueueFails, Crash
<1>5. CASE Rest \/ ProviderStep \/ UNCHANGED vars BY <1>5, Zenon DEF Rest, ProviderStep, vars
<1>6. CASE \E p \in Procs : Commit(p) BY <1>6 DEF Procs
<1> QED BY <1>1, <1>2, <1>3, <1>4, <1>5, <1>6 DEF Next

\* What the worker's writes make of the rows: as long as nobody cancels, a closed run
\* and an ended job stay as they are, and the run is closed with its jobs.
LEMMA WorkerWrites ==
    ASSUME IInv, OneInv, NEW w \in Workers, Begin(w) \/ Commit(w) \/ \E j \in Jobs : ApplyLine(w, j)
    PROVE  /\ batch'.cancelRequested = batch.cancelRequested
           /\ jobs' \in JobTable
           /\ batch.status # "absent" /\ batch'.status # "absent"
           /\ ~batch.cancelRequested /\ Closed => AutoSave /\ batch'.status = batch.status
           /\ ~batch.cancelRequested /\ "cancelJob" \notin Ops
                => \A j \in Jobs : jobs[j] # "queued" => jobs'[j] = jobs[j]
           /\ NotCut /\ ~AutoSave /\ ~batch.cancelRequested /\ batch'.status \in TERMINAL_BATCH_STATUSES
                => Ended(jobs')
<1> DEFINE x == proc[w]
<1>1. /\ w \in Procs /\ SessionOK(x, batch, jobs) /\ WorkerOK(x, batch, jobs, provider)
      /\ x \in Process /\ x.run \in Run /\ x.run0 \in Run /\ batch \in Run
      /\ x.jobs \in JobTable /\ x.jobs0 \in JobTable /\ jobs \in JobTable
      /\ \A j \in Jobs : x.jobs0[j] # "queued" => x.jobs[j] = x.jobs0[j] /\ jobs[j] # "queued"
      /\ x.run0.providerId => x.run.providerId /\ batch.providerId
      /\ x.run0.cancelRequested => x.run.cancelRequested /\ batch.cancelRequested
      /\ x.at # "idle" /\ x.run.cancelRequested => batch.cancelRequested
  BY TheWorker, Mover
<1>2. x.at = "loaded" \/ x.at = "apply" \/ x.at = "commit"
  BY Zenon DEF Begin, Doing, Commit, ApplyLine
<1>3. /\ batch.status # "absent"
      /\ ~batch.cancelRequested => x.run0.status = batch.status
      /\ ~batch.cancelRequested /\ Closed =>
            AutoSave /\ x.run.status = batch.status /\ x.at \in {"apply", "commit"}
      /\ ~batch.cancelRequested /\ "cancelJob" \notin Ops => x.jobs0 = jobs \/ x.jobs = x.jobs0
      /\ x.at \in {"apply", "commit"} => x.run.status # "queued"
  BY <1>1, <1>2 DEF WorkerOK, SessionOK, Closed
<1>4. CASE Begin(w)
  <2> DEFINE new == [x.run EXCEPT !.status = "submitting"]
  <2>1. x.at = "loaded" /\ batch' = FlushRun(new, x.run0, batch) /\ UNCHANGED jobs
    BY <1>4 DEF Begin, Doing
  <2>2. /\ new \in Run /\ new.status = "submitting" /\ new.providerId = x.run.providerId
        /\ new.cancelRequested = x.run.cancelRequested
    BY <1>1 DEF Run, OpenStatuses
  <2> HIDE DEF new
  <2>3. /\ batch'.cancelRequested = (x.run.cancelRequested \/ batch.cancelRequested)
        /\ batch'.status = IF "submitting" # x.run0.status THEN "submitting" ELSE batch.status
    BY <1>1, <2>1, <2>2, FlushedRun
  <2>4. batch'.cancelRequested = batch.cancelRequested
    BY <1>1, <2>1, <2>3 DEF Run
  <2> QED BY <1>1, <1>3, <2>1, <2>3, <2>4 DEF TERMINAL_BATCH_STATUSES
<1>5. ASSUME NEW r \in Run, r.status = x.run.status, r.providerId = x.run.providerId,
             r.cancelRequested = x.run.cancelRequested, NEW table \in JobTable,
             \A j \in Jobs : x.jobs[j] # "queued" => table[j] = x.jobs[j],
             ~x.listed => table = x.jobs, UNCHANGED provider, x.at \in {"apply", "commit"},
             batch' = FlushRun(r, x.run0, batch), jobs' = FlushJobs(table, x.jobs0, jobs),
             NotCut /\ ~AutoSave /\ ~batch.cancelRequested /\ x.run.status \in TERMINAL_BATCH_STATUSES
                => \A j \in Jobs : table[j] # "queued" \/ jobs[j] # "queued"
      PROVE  /\ batch'.cancelRequested = batch.cancelRequested
             /\ jobs' \in JobTable
             /\ batch'.status # "absent"
             /\ ~batch.cancelRequested /\ Closed => AutoSave /\ batch'.status = batch.status
             /\ ~batch.cancelRequested /\ "cancelJob" \notin Ops
                  => \A j \in Jobs : jobs[j] # "queued" => jobs'[j] = jobs[j]
             /\ NotCut /\ ~AutoSave /\ ~batch.cancelRequested /\ batch'.status \in TERMINAL_BATCH_STATUSES
                  => Ended(jobs')
  <2>1. /\ Grown(batch, jobs, batch', jobs')
        /\ \A j \in Jobs : /\ jobs'[j] = IF table[j] # x.jobs0[j] THEN table[j] ELSE jobs[j]
                           /\ jobs[j] # "queued" \/ table[j] # "queued" => jobs'[j] # "queued"
        /\ batch'.cancelRequested = batch.cancelRequested
        /\ ~batch.cancelRequested => batch'.status = r.status
    BY <1>5, WorkerFlush
  <2>2. jobs' \in JobTable
    BY <1>1, <1>5 DEF FlushJobs, JobTable, Column
  <2>3. ~batch.cancelRequested /\ "cancelJob" \notin Ops
           => \A j \in Jobs : jobs[j] # "queued" => jobs'[j] = jobs[j]
    <3> SUFFICES ASSUME ~batch.cancelRequested, "cancelJob" \notin Ops, NEW j \in Jobs, jobs[j] # "queued"
                 PROVE  jobs'[j] = jobs[j]
      OBVIOUS
    <3>1. CASE x.listed
      <4>1. x.jobs0 = jobs BY <1>1, <1>5, <3>1 DEF WorkerOK
      <4> QED BY <1>1, <1>5, <2>1, <4>1
    <3>2. CASE ~x.listed
      <4>1. x.jobs = x.jobs0 BY <1>1, <1>5, <3>2 DEF SessionOK
      <4> QED BY <1>5, <2>1, <3>2, <4>1
    <3> QED BY <3>1, <3>2
  <2> QED BY <1>3, <1>5, <2>1, <2>2, <2>3 DEF Grown, Ended
<1>6. CASE Commit(w)
  <2> DEFINE new == [x.run EXCEPT !.counts = CountersSeen(x)]
  <2>1. /\ x.at = "commit" /\ batch' = FlushRun(new, x.run0, batch) /\ jobs' = FlushJobs(x.jobs, x.jobs0, jobs)
        /\ UNCHANGED provider
    BY <1>6 DEF Commit
  <2>2. CountersSeen(x) \in Counters
    BY TallyType DEF CountersSeen
  <2>3. /\ new \in Run /\ new.status = x.run.status /\ new.providerId = x.run.providerId
        /\ new.cancelRequested = x.run.cancelRequested
    BY <1>1, <2>2 DEF Run
  <2> HIDE DEF new
  <2>4. NotCut /\ x.run.status \in TERMINAL_BATCH_STATUSES
           => \A j \in Jobs : x.jobs[j] # "queued" \/ jobs[j] # "queued"
    BY <1>1, <2>1 DEF SessionOK
  <2> QED BY <1>1, <1>3, <1>5, <2>1, <2>3, <2>4
<1>7. ASSUME NEW j \in Jobs, ApplyLine(w, j)
      PROVE  \/ UNCHANGED <<batch, jobs>>
             \/ /\ AutoSave /\ x.at = "apply" /\ x.jobs[j] = "queued" /\ x.listed /\ UNCHANGED provider
                /\ batch' = FlushRun(x.run, x.run0, batch)
                /\ jobs' = FlushJobs([x.jobs EXCEPT ![j] = LineOutcome(provider.lines[j])], x.jobs0, jobs)
  <2>1. x.at = "apply" /\ j \in Unread(x) /\ UNCHANGED provider
    BY <1>7, Zenon DEF ApplyLine
  <2>2. x.listed /\ x.jobs[j] = "queued"
    BY <1>1, <2>1 DEF SessionOK, Unread
  <2> DEFINE y == [x EXCEPT !.jobs[j] = LineOutcome(provider.lines[j])]
  <2>3. y.jobs = [x.jobs EXCEPT ![j] = LineOutcome(provider.lines[j])]
    BY <1>1 DEF Process
  <2>4. \/ UNCHANGED <<batch, jobs>>
        \/ /\ AutoSave /\ batch' = FlushRun(x.run, x.run0, batch)
           /\ jobs' = FlushJobs(y.jobs, x.jobs0, jobs)
    BY <1>7, Zenon DEF ApplyLine
  <2> HIDE DEF y
  <2> QED BY <2>1, <2>2, <2>3, <2>4
<1>8. CASE \E j \in Jobs : ApplyLine(w, j)
  <2>1. PICK j \in Jobs : ApplyLine(w, j) BY <1>8
  <2>2. CASE UNCHANGED <<batch, jobs>>
    BY <1>1, <1>3, <2>2 DEF Closed
  <2>3. CASE ~UNCHANGED <<batch, jobs>>
    <3> DEFINE table == [x.jobs EXCEPT ![j] = LineOutcome(provider.lines[j])]
    <3>1. /\ AutoSave /\ x.at = "apply" /\ x.jobs[j] = "queued" /\ x.listed /\ UNCHANGED provider
          /\ batch' = FlushRun(x.run, x.run0, batch) /\ jobs' = FlushJobs(table, x.jobs0, jobs)
      BY <1>7, <2>1, <2>3
    <3>2. table \in JobTable /\ \A i \in Jobs : x.jobs[i] # "queued" => table[i] = x.jobs[i]
      BY <1>1, <3>1 DEF LineOutcome, JobTable, JobEnds
    <3> HIDE DEF table
    <3> QED BY <1>1, <1>3, <1>5, <3>1, <3>2
  <2> QED BY <2>2, <2>3
<1> QED BY <1>4, <1>6, <1>8

\* A terminal status of the run is never left as long as nobody cancels the run, with
\* one worker (sdk/models.py 107-109, provider_batches.py 618-619, 764-765).
THEOREM ClosedRunsStay ==
    ASSUME OneWorker, "cancel" \notin Ops PROVE Spec => RunIsFinal
<1>1. IInv /\ OneInv /\ [Next]_vars => [Closed => batch'.status = batch.status]_vars
  <2> SUFFICES ASSUME IInv, OneInv, [Next]_vars, Closed PROVE batch'.status = batch.status
    OBVIOUS
  <2>1. ~batch.cancelRequested BY DEF OneInv, RowsOK
  <2>2. batch.status # "absent" BY DEF Closed, TERMINAL_BATCH_STATUSES
  <2>3. ASSUME NEW h \in Handlers PROVE ~Create(h) /\ ~Commit(h)
    BY <2>2, TheHandler DEF Create, Commit, HandlerOK
  <2>4. ASSUME NEW h \in Handlers, CancelJobRow(h) PROVE UNCHANGED batch
    BY <2>4 DEF CancelJobRow
  <2> QED BY <2>1, <2>3, <2>4, WhoWrites, WorkerWrites
<1> QED BY <1>1, OneWorkerInductive, Inductive, PTL DEF Spec, RunIsFinal

\* A terminal status of a job is never left as long as nobody cancels, whatever the
\* loop has committed halfway and whatever cuts the tasks short, with one worker
\* (developer-guide.md 10-11).
THEOREM EndedJobsStay ==
    ASSUME OneWorker, "cancelJob" \notin Ops PROVE Spec => JobsAreFinal
<1> DEFINE Stay == ~batch'.cancelRequested => \A j \in Jobs : jobs[j] # "queued" => jobs'[j] = jobs[j]
<1>1. IInv /\ OneInv /\ [Next]_vars => [Stay]_vars
  <2> SUFFICES ASSUME IInv, OneInv, [Next]_vars, ~batch'.cancelRequested,
                      NEW j \in Jobs, jobs[j] # "queued"
               PROVE  jobs'[j] = jobs[j]
    OBVIOUS
  <2>1. ASSUME NEW h \in Handlers, Create(h) PROVE UNCHANGED jobs
    BY <2>1 DEF Create
  <2>2. ASSUME NEW h \in Handlers PROVE ~CancelJobRow(h)
    BY TheHandler DEF CancelJobRow, HandlerOK
  <2>3. ASSUME NEW h \in Handlers PROVE ~Commit(h)
    <3> SUFFICES ASSUME Commit(h) PROVE batch'.cancelRequested
      OBVIOUS
    <3> DEFINE x == proc[h]
               new == [x.run EXCEPT !.counts = CountersSeen(x)]
    <3>1. x.at = "commit" /\ batch' = FlushRun(new, x.run0, batch)
      BY DEF Commit
    <3>2. /\ h \in Procs /\ x.run \in Run /\ x.run0 \in Run /\ batch \in Run /\ HandlerOK(x, batch)
          /\ x.run0.providerId => x.run.providerId /\ batch.providerId
          /\ x.run0.cancelRequested => x.run.cancelRequested /\ batch.cancelRequested
      BY TheHandler, Mover
    <3>3. CountersSeen(x) \in Counters
      BY TallyType DEF CountersSeen
    <3>4. /\ new \in Run /\ new.providerId = x.run.providerId /\ new.cancelRequested = x.run.cancelRequested
      BY <3>2, <3>3 DEF Run
    <3> HIDE DEF new
    <3>5. batch'.cancelRequested = (x.run.cancelRequested \/ batch.cancelRequested)
      BY <3>1, <3>2, <3>4, FlushedRun
    <3> QED BY <3>1, <3>2, <3>5 DEF HandlerOK
  <2>4. ASSUME NEW w \in Workers, Begin(w) \/ Commit(w) \/ \E i \in Jobs : ApplyLine(w, i)
        PROVE  jobs'[j] = jobs[j]
    BY <2>4, WorkerWrites
  <2> QED BY <2>1, <2>2, <2>3, <2>4, WhoWrites
<1> QED BY <1>1, OneWorkerInductive, Inductive, PTL DEF Spec, JobsAreFinal

\* A batch without cancels, with one worker and without training data to save, keeps
\* the safety half of the batch contract: it is accepted once, an item's outcome never
\* changes, and the batch is closed once, together with all of its items
\* (provider_batches.py 614-902, sdk/client.py 251-271).
THEOREM KeepsTheContract ==
    ASSUME OneWorker, NotCut, ~AutoSave, Ops \subseteq {"get"}
    PROVE  Spec => Contract!ContractSafety
<1>1. Init => Contract!ContractInit
  <2> SUFFICES ASSUME Init PROVE Contract!ContractInit OBVIOUS
  <2>1. batch.status = "absent" /\ \A j \in Jobs : jobs[j] = "queued"
    BY DEF Init, NoRun, AllQueued
  <2>2. Phase = "absent" /\ Outcome = [j \in Jobs |-> "pending"]
    BY <2>1 DEF Phase, Outcome, Closed, TERMINAL_BATCH_STATUSES
  <2> QED BY <2>2 DEF Contract!ContractInit
<1>2. IInv /\ OneInv /\ [Next]_vars => [Contract!ContractNext]_(Contract!contractVars)
  <2> SUFFICES ASSUME IInv, OneInv, [Next]_vars PROVE [Contract!ContractNext]_(Contract!contractVars)
    OBVIOUS
  <2>1. /\ ~batch.cancelRequested /\ batch \in Run /\ jobs \in JobTable
    BY DEF OneInv, RowsOK, IInv, TypeOK
  <2>2. CASE UNCHANGED <<batch, jobs>>
    BY <2>2 DEF Contract!contractVars, Phase, Outcome, Closed
  <2>3. ASSUME NEW h \in Handlers PROVE ~CancelJobRow(h) /\ ~Commit(h)
    BY TheHandler DEF CancelJobRow, Commit, HandlerOK
  <2>4. ASSUME NEW h \in Handlers, Create(h) PROVE Contract!ContractNext
    <3>1. batch.status = "absent" /\ batch' = [NoRun EXCEPT !.status = "queued"] /\ UNCHANGED jobs
      BY <2>4 DEF Create
    <3>2. batch'.status = "queued" BY <3>1 DEF NoRun
    <3>3. Phase = "absent" /\ Phase' = "open" /\ Outcome' = Outcome
      BY <3>1, <3>2 DEF Phase, Closed, Outcome, TERMINAL_BATCH_STATUSES
    <3> QED BY <3>3 DEF Contract!ContractNext, Contract!Accept
  <2>5. ASSUME NEW w \in Workers, Begin(w) \/ Commit(w) \/ \E j \in Jobs : ApplyLine(w, j)
        PROVE  Contract!ContractNext
    <3>1. /\ jobs' \in JobTable /\ batch.status # "absent" /\ batch'.status # "absent" /\ ~Closed
          /\ \A j \in Jobs : jobs[j] # "queued" => jobs'[j] = jobs[j]
          /\ batch'.status \in TERMINAL_BATCH_STATUSES => Ended(jobs')
      BY <2>1, <2>5, WorkerWrites
    <3>2. Phase = "open" /\ Phase' = IF Closed' THEN "closed" ELSE "open"
      BY <3>1 DEF Phase
    <3>3. Contract!Keep
      BY <3>1 DEF Contract!Keep, Outcome
    <3>4. CASE Closed'
      <4>1. Outcome' \in [Jobs -> Contract!Outcomes]
        BY <3>1, <3>4 DEF Closed, Ended, Outcome, JobTable, JobEnds, Contract!Outcomes
      <4> QED BY <3>2, <3>3, <3>4, <4>1 DEF Contract!ContractNext, Contract!Close
    <3>5. CASE ~Closed'
      <4>1. Outcome' \in [Jobs -> {"pending"} \cup Contract!Outcomes]
        BY <3>1 DEF Outcome, JobTable, JobEnds, Contract!Outcomes
      <4> QED BY <3>2, <3>3, <3>5, <4>1 DEF Contract!ContractNext, Contract!Settle
    <3> QED BY <3>4, <3>5
  <2> QED BY <2>2, <2>3, <2>4, <2>5, WhoWrites
<1> QED BY <1>1, <1>2, OneWorkerInductive, Inductive, PTL DEF Spec, Contract!ContractSafety
=============================================================================
