------------------------- MODULE JobLifecycleProofs -------------------------
(***************************************************************************)
(* Theorems about JobLifecycle for every set of jobs, keys, workers and    *)
(* handlers, every set of operations and faults and every bound.           *)
(*                                                                         *)
(* The invariants of the tables are not inductive alone: what a commit     *)
(* writes depends on the object a process loaded earlier.  IInv adds what  *)
(* is true of every process and its object (ProcOK).  A step either keeps  *)
(* the rows or commits one object, and rows only evolve along RowsKept, so *)
(* the processes that do not move stay well (OthersStayOK).                *)
(***************************************************************************)
EXTENDS JobLifecycle, TLAPS

-----------------------------------------------------------------------------
(* The inductive invariant.                                                *)

\* What holds of a process in state r when the jobs table is rows: past the
\* lookup it has a committed job; a result it saw is still there; it publishes
\* only an answered job; and the key it will answer with is the job's key.
ProcOK(r, rows) ==
    /\ r.at \notin {"idle", "insert"} => r.job \in Jobs /\ rows[r.job].status # "absent"
    /\ r.snap.result => r.job \in Jobs /\ rows[r.job].result
    /\ r.at \in {"idle", "insert"} => ~r.snap.result
    /\ r.at = "publish" => r.snap.result
    /\ r.at = "enqueue" \/ (r.at \in ProcessJob /\ r.via # "worker") => rows[r.job].key = r.key

\* What holds of the jobs table: a result belongs to a committed row, a completed
\* row has its result, and a key has one row.
RowsOK(rows) ==
    /\ \A j \in Jobs : rows[j].result => rows[j].status # "absent"
    /\ \A j \in Jobs : rows[j].status = "completed" => rows[j].result
    /\ \A i, j \in Jobs :
          rows[i].status # "absent" /\ rows[j].status # "absent" /\ rows[i].key = rows[j].key
             => i = j \/ rows[i].key = NoKey

RedisOK(rows, q, c) ==
    /\ \A j \in q : rows[j].status # "absent"
    /\ c # NoJob => rows[c].result

RepliesOK(rows, rs) == \A a \in rs : rows[a[2]].status # "absent" /\ rows[a[2]].key = a[1]

IInv ==
    /\ TypeOK
    /\ \A p \in Procs : ProcOK(proc[p], row)
    /\ RowsOK(row)
    /\ RedisOK(row, queue, cache)
    /\ RepliesOK(row, replies)

\* How the table may change: a committed row stays, with its key, and a result
\* is never taken back.
RowsKept(old, new) ==
    \A j \in Jobs :
        /\ old[j].status # "absent" => new[j].status # "absent" /\ new[j].key = old[j].key
        /\ old[j].result => new[j].result

-----------------------------------------------------------------------------
(* Lemmas about the operators.                                             *)

\* The program points, listed.
LEMMA PointsList ==
    Points = {"idle", "insert", "enqueue", "dequeue", "cancelRow", "recover", "recoverRow",
              "load", "start", "refresh", "prepare", "lookup", "hit", "hitRefresh", "hitSave",
              "screen", "fail", "write", "written", "publish", "autosave", "call"}
BY DEF Points, ProcessJob, Unprotected, Protected

\* An idle process is a process and needs nothing of the table.
LEMMA IdleOK ==
    ASSUME NEW rows
    PROVE  Idle \in Process /\ ProcOK(Idle, rows)
BY KeysAssumption DEF Process, Idle, Points, ProcessJob, Unprotected, Protected, Callers,
                      NoRow, Row, ProcOK

\* A commit leaves a row that is well typed, keeps the key, never takes back the
\* result and writes a status other than "absent".
LEMMA FlushEffect ==
    ASSUME NEW new \in Row, NEW old \in Row, NEW stored \in Row,
           new.status = old.status \/ new.status # "absent",
           old.result => new.result,
           old.result => stored.result,
           new.status = "completed" => new.result \/ old.status = "completed",
           stored.status = "completed" => stored.result
    PROVE  LET flushed == Flush(new, old, stored)
           IN  /\ flushed \in Row
               /\ flushed.key = stored.key
               /\ stored.status # "absent" => flushed.status # "absent"
               /\ stored.result \/ new.result => flushed.result
               /\ flushed.status = "completed" => flushed.result
BY DEF Flush, Column, Row

\* A process that does not move stays well when the table evolves.
LEMMA OthersStayOK ==
    ASSUME NEW old, NEW new, RowsKept(old, new),
           NEW r \in Process, ProcOK(r, old)
    PROVE  ProcOK(r, new)
BY PointsList DEF ProcOK, RowsKept, Process, ProcessJob, Unprotected, Protected

\* One process p moves to r and the table evolves: all processes are well.
LEMMA MoveOne ==
    ASSUME IInv, NEW p \in Procs, NEW r \in Process, proc' = [proc EXCEPT ![p] = r],
           RowsKept(row, row'), ProcOK(r, row')
    PROVE  /\ proc' \in [Procs -> Process]
           /\ \A q \in Procs : ProcOK(proc'[q], row')
<1>1. proc' \in [Procs -> Process]
  BY DEF IInv, TypeOK
<1>2. ASSUME NEW q \in Procs PROVE ProcOK(proc'[q], row')
  <2>1. CASE q = p
    BY <2>1 DEF IInv, TypeOK
  <2>2. CASE q # p
    <3>1. proc'[q] = proc[q] /\ proc[q] \in Process /\ ProcOK(proc[q], row)
      BY <2>2 DEF IInv, TypeOK
    <3>2. QED
      BY <3>1, OthersStayOK
  <2>3. QED
    BY <2>1, <2>2
<1>3. QED
  BY <1>1, <1>2

\* A table that evolves keeps Redis and the replies well.
LEMMA StoresStayOK ==
    ASSUME IInv, RowsKept(row, row')
    PROVE  RedisOK(row', queue, cache) /\ RepliesOK(row', replies)
BY JobsAssumption DEF IInv, TypeOK, RedisOK, RepliesOK, RowsKept

\* A step that leaves the table alone keeps every row.
LEMMA SameRows == ASSUME UNCHANGED row, RowsOK(row) PROVE RowsKept(row, row') /\ RowsOK(row')
BY DEF RowsKept, RowsOK

\* A step of one process that keeps rows, Redis and replies well keeps IInv.
LEMMA StepKeeps ==
    ASSUME IInv, NEW p \in Procs, NEW r \in Process, proc' = [proc EXCEPT ![p] = r],
           row' \in [Jobs -> Row], RowsKept(row, row'), RowsOK(row'), ProcOK(r, row'),
           queue' \subseteq Jobs, cache' \in Jobs \cup {NoJob}, RedisOK(row', queue', cache'),
           replies' \subseteq (Keys \cup {NoKey}) \X Jobs, RepliesOK(row', replies'),
           events' \in [Jobs -> Nat], bought' \in [Jobs -> Nat], requests' \in 0..MaxRequests
    PROVE  IInv'
BY MoveOne DEF IInv, TypeOK

\* A step of one process that touches nothing shared.
LEMMA LocalMove ==
    ASSUME IInv, NEW p \in Procs, NEW r \in Process, proc' = [proc EXCEPT ![p] = r],
           ProcOK(r, row), UNCHANGED <<row, queue, cache, events, bought, replies>>,
           requests' \in 0..MaxRequests
    PROVE  IInv'
<1>1. /\ row' \in [Jobs -> Row] /\ queue' \subseteq Jobs /\ cache' \in Jobs \cup {NoJob}
      /\ replies' \subseteq (Keys \cup {NoKey}) \X Jobs
      /\ events' \in [Jobs -> Nat] /\ bought' \in [Jobs -> Nat]
      /\ RowsOK(row)
  BY DEF IInv, TypeOK
<1>2. RowsKept(row, row') /\ RowsOK(row')
  BY <1>1, SameRows
<1>3. RedisOK(row', queue', cache') /\ RepliesOK(row', replies')
  BY <1>2, StoresStayOK
<1>4. QED
  BY <1>1, <1>2, <1>3, StepKeeps

\* What IInv says of the process that moves.
LEMMA Mover ==
    ASSUME IInv, NEW p \in Procs
    PROVE  /\ proc[p] \in Process
           /\ ProcOK(proc[p], row)
           /\ requests \in 0..MaxRequests
           /\ proc[p].at \notin {"idle", "insert"} =>
                 proc[p].job \in Jobs /\ row[proc[p].job] \in Row /\ Exists(proc[p].job)
BY DEF IInv, TypeOK, ProcOK, Exists

\* An answer names a committed job that has the key of the request.
LEMMA AnswerKeeps ==
    ASSUME IInv, NEW k \in Keys \cup {NoKey}, NEW j \in Jobs,
           RowsKept(row, row'), Exists(j), row[j].key = k
    PROVE  /\ replies \cup {<<k, j>>} \subseteq (Keys \cup {NoKey}) \X Jobs
           /\ RepliesOK(row', replies)
           /\ RepliesOK(row', replies \cup {<<k, j>>})
<1>1. RepliesOK(row', replies)
  BY StoresStayOK
<1>2. row'[j].status # "absent" /\ row'[j].key = k
  BY DEF RowsKept, Exists
<1>3. QED
  BY <1>1, <1>2 DEF IInv, TypeOK, RepliesOK

\* What process_job answers when it returns.
LEMMA ReturnKeeps ==
    ASSUME IInv, NEW p \in Procs, proc[p].at \in ProcessJob, Return(p), RowsKept(row, row')
    PROVE  /\ replies' \subseteq (Keys \cup {NoKey}) \X Jobs
           /\ RepliesOK(row', replies')
<1>1. proc[p].job \in Jobs /\ Exists(proc[p].job) /\ proc[p].key \in Keys \cup {NoKey}
  BY Mover DEF ProcessJob, Unprotected, Protected, Process
<1>2. CASE proc[p].via = "worker"
  BY <1>2, StoresStayOK DEF Return, IInv, TypeOK
<1>3. CASE proc[p].via # "worker"
  <2>1. row[proc[p].job].key = proc[p].key
    BY <1>3, Mover DEF ProcOK
  <2>2. QED
    BY <1>1, <1>3, <2>1, AnswerKeeps DEF Return
<1>4. QED
  BY <1>2, <1>3

\* A commit of process p's object in state new, which then is in state r.
LEMMA CommitKeeps ==
    ASSUME IInv, NEW p \in Procs, NEW new \in Row, NEW r \in Process,
           proc[p].at \notin {"idle", "insert"},
           row' = [row EXCEPT ![proc[p].job] = Flush(new, proc[p].snap, @)],
           new.status = proc[p].snap.status \/ new.status # "absent",
           new.status = "completed" => new.result \/ proc[p].snap.status = "completed",
           proc[p].snap.result => new.result
    PROVE  /\ row' \in [Jobs -> Row]
           /\ RowsKept(row, row')
           /\ RowsOK(row')
           /\ new.result => row'[proc[p].job].result
<1> DEFINE j == proc[p].job
           flushed == Flush(new, proc[p].snap, row[j])
<1>1. /\ j \in Jobs /\ row[j] \in Row /\ proc[p].snap \in Row
      /\ proc[p].snap.result => row[j].result
  BY Mover DEF ProcOK, Process
<1>2. /\ RowsOK(row) /\ row \in [Jobs -> Row]
  BY DEF IInv, TypeOK
<1>3. row[j].status = "completed" => row[j].result
  BY <1>1, <1>2 DEF RowsOK
<1>4. /\ flushed \in Row
      /\ flushed.key = row[j].key
      /\ row[j].status # "absent" => flushed.status # "absent"
      /\ row[j].result \/ new.result => flushed.result
      /\ flushed.status = "completed" => flushed.result
  BY <1>1, <1>3, FlushEffect
<1>5. /\ row' \in [Jobs -> Row]
      /\ row'[j] = flushed
      /\ \A i \in Jobs : i # j => row'[i] = row[i]
  BY <1>1, <1>2, <1>4
<1>6. RowsKept(row, row')
  BY <1>4, <1>5 DEF RowsKept
<1>7. row[j].status # "absent"
  BY Mover DEF Exists
<1>8. RowsOK(row')
  BY <1>1, <1>2, <1>4, <1>5, <1>7 DEF RowsOK
<1>9. QED
  BY <1>4, <1>5, <1>6, <1>8

-----------------------------------------------------------------------------
(* The API handlers.                                                       *)

LEMMA StartCreateKeeps ==
    ASSUME IInv, NEW h \in Handlers, NEW k \in Keys \cup {NoKey}, NEW op,
           NEW via \in Callers, StartCreate(h, k, op, via)
    PROVE  IInv'
<1> DEFINE r == [Idle EXCEPT !.at = "insert", !.key = k, !.via = via]
<1>1. r \in Process /\ ProcOK(r, row)
  BY IdleOK, PointsList DEF Process, ProcOK, Idle, NoRow, ProcessJob, Unprotected, Protected
<1>2. h \in Procs /\ requests' \in 0..MaxRequests
  BY Mover, BoundAssumption DEF Procs, StartCreate, Accept
<1>3. QED
  BY <1>1, <1>2, LocalMove DEF StartCreate

\* Both replays answer with the holder of the key.
LEMMA ReplayKeeps ==
    ASSUME IInv, NEW h \in Handlers, NEW k \in Keys \cup {NoKey}, NEW j \in Holders(k),
           Answer(h, k, j), UNCHANGED <<row, queue, cache, events, bought>>,
           requests' \in 0..MaxRequests
    PROVE  IInv'
<1>1. j \in Jobs /\ Exists(j) /\ row[j].key = k
  BY DEF Holders
<1>2. RowsKept(row, row') /\ RowsOK(row')
  BY SameRows DEF IInv
<1>3. replies' \subseteq (Keys \cup {NoKey}) \X Jobs /\ RepliesOK(row', replies')
  BY <1>1, <1>2, AnswerKeeps DEF Answer
<1>4. RedisOK(row', queue', cache')
  BY <1>2, StoresStayOK
<1>5. Idle \in Process /\ ProcOK(Idle, row')
  BY IdleOK
<1>6. QED
  BY <1>2, <1>3, <1>4, <1>5, StepKeeps DEF Answer, Procs, IInv, TypeOK

LEMMA RespondQueuedKeeps ==
    ASSUME IInv, NEW h \in Handlers, NEW k \in Keys \cup {NoKey}, RespondQueued(h, k)
    PROVE  IInv'
<1>1. PICK j \in Holders(k) :
         proc' = [proc EXCEPT ![h] = [Idle EXCEPT !.at = "load", !.job = j, !.key = k, !.via = "replay"]]
  BY DEF RespondQueued
<1> DEFINE r == [Idle EXCEPT !.at = "load", !.job = j, !.key = k, !.via = "replay"]
<1>2. j \in Jobs /\ Exists(j) /\ row[j].key = k
  BY DEF Holders
<1>3. r \in Process /\ ProcOK(r, row)
  BY <1>2, IdleOK, PointsList DEF Process, ProcOK, Idle, NoRow, Exists, Callers
<1>4. h \in Procs /\ requests' \in 0..MaxRequests
  BY Mover, BoundAssumption DEF Procs, RespondQueued, Accept
<1>5. QED
  BY <1>1, <1>3, <1>4, LocalMove DEF RespondQueued

LEMMA InsertKeeps ==
    ASSUME IInv, NEW h \in Handlers, Insert(h)
    PROVE  IInv'
<1> DEFINE k == proc[h].key
           next == IF proc[h].via = "submit" THEN "enqueue" ELSE "load"
<1>1. PICK j \in Jobs :
         /\ ~Exists(j)
         /\ row' = [row EXCEPT ![j] = [NoRow EXCEPT !.status = "queued", !.key = k]]
         /\ proc' = [proc EXCEPT ![h].at = next, ![h].job = j]
  BY DEF Insert
<1> DEFINE r == [proc[h] EXCEPT !.at = next, !.job = j]
           fresh == [NoRow EXCEPT !.status = "queued", !.key = k]
<1>2. h \in Procs /\ proc[h] \in Process /\ ProcOK(proc[h], row) /\ proc[h].at = "insert"
  BY Mover DEF Procs, Insert
<1>3. fresh \in Row /\ fresh.status = "queued" /\ fresh.key = k /\ ~fresh.result
  BY <1>2 DEF Row, NoRow, JobStatus, Process
<1>4. row \in [Jobs -> Row] /\ RowsOK(row)
  BY DEF IInv, TypeOK
<1>5. /\ row' \in [Jobs -> Row]
      /\ row'[j] = fresh
      /\ \A i \in Jobs : i # j => row'[i] = row[i]
  BY <1>1, <1>3, <1>4
<1>6. RowsKept(row, row')
  BY <1>1, <1>4, <1>5 DEF RowsKept, RowsOK, Exists
<1>7. RowsOK(row')
  <2>1. ASSUME NEW i \in Jobs, i # j, row[i].status # "absent", row[i].key = k
        PROVE  k = NoKey
    BY <2>1 DEF Insert, Holders, Exists
  <2>2. ASSUME NEW i \in Jobs
        PROVE  /\ row'[i].result => row'[i].status # "absent"
               /\ row'[i].status = "completed" => row'[i].result
    BY <1>3, <1>4, <1>5 DEF RowsOK
  <2>3. ASSUME NEW i \in Jobs, NEW m \in Jobs, i # m,
               row'[i].status # "absent", row'[m].status # "absent", row'[i].key = row'[m].key
        PROVE  row'[i].key = NoKey
    <3>1. CASE i = j
      BY <1>3, <1>5, <2>1, <2>3, <3>1
    <3>2. CASE m = j
      BY <1>3, <1>5, <2>1, <2>3, <3>2
    <3>3. CASE i # j /\ m # j
      BY <1>4, <1>5, <2>3, <3>3 DEF RowsOK
    <3>4. QED
      BY <3>1, <3>2, <3>3
  <2>4. QED
    BY <2>2, <2>3 DEF RowsOK
<1>8. r \in Process /\ ProcOK(r, row')
  BY <1>2, <1>3, <1>5, PointsList DEF Process, ProcOK
<1>9. /\ queue' \subseteq Jobs /\ cache' \in Jobs \cup {NoJob}
      /\ replies' \subseteq (Keys \cup {NoKey}) \X Jobs
      /\ events' \in [Jobs -> Nat] /\ bought' \in [Jobs -> Nat]
      /\ requests' \in 0..MaxRequests
  BY DEF Insert, IInv, TypeOK
<1>10. RedisOK(row', queue', cache') /\ RepliesOK(row', replies')
  BY <1>6, StoresStayOK DEF Insert
<1>11. proc' = [proc EXCEPT ![h] = r]
  BY <1>1
<1> HIDE DEF r
<1>12. QED
  BY <1>2, <1>5, <1>6, <1>7, <1>8, <1>9, <1>10, <1>11, StepKeeps

LEMMA InsertConflictKeeps ==
    ASSUME IInv, NEW h \in Handlers, InsertConflict(h)
    PROVE  IInv'
<1> DEFINE k == proc[h].key
<1>1. PICK j \in Holders(k) :
         IF proc[h].via = "submit"
         THEN Answer(h, k, j)
         ELSE /\ proc' = [proc EXCEPT ![h].at = "load", ![h].job = j]
              /\ UNCHANGED replies
  BY DEF InsertConflict
<1>2. h \in Procs /\ proc[h] \in Process /\ ProcOK(proc[h], row) /\ proc[h].at = "insert"
  BY Mover DEF Procs, InsertConflict
<1>3. k \in Keys \cup {NoKey} /\ requests' \in 0..MaxRequests
  BY <1>2, Mover DEF Process, InsertConflict
<1>4. CASE proc[h].via = "submit"
  BY <1>1, <1>3, <1>4, ReplayKeeps DEF InsertConflict
<1>5. CASE proc[h].via # "submit"
  <2> DEFINE r == [proc[h] EXCEPT !.at = "load", !.job = j]
  <2>1. j \in Jobs /\ Exists(j) /\ row[j].key = k
    BY DEF Holders
  <2>2. r \in Process
    BY <1>2, <2>1, PointsList DEF Process
  <2>3. ProcOK(r, row)
    BY <1>2, <2>1 DEF ProcOK, Process, Exists
  <2>4. proc' = [proc EXCEPT ![h] = r] /\ UNCHANGED replies
    BY <1>1, <1>5
  <2> HIDE DEF r
  <2>5. QED
    BY <1>2, <1>3, <2>2, <2>3, <2>4, LocalMove DEF InsertConflict
<1>6. QED
  BY <1>4, <1>5

LEMMA EnqueueKeeps ==
    ASSUME IInv, NEW h \in Handlers, Enqueue(h)
    PROVE  IInv'
<1> DEFINE k == proc[h].key
           j == proc[h].job
<1>1. /\ h \in Procs /\ proc[h].at = "enqueue"
      /\ proc[h] \in Process /\ ProcOK(proc[h], row)
      /\ j \in Jobs /\ Exists(j)
  BY Mover DEF Procs, Enqueue
<1>2. k \in Keys \cup {NoKey} /\ row[j].key = k
  BY <1>1 DEF ProcOK, Process
<1>3. RowsKept(row, row') /\ RowsOK(row')
  BY SameRows DEF Enqueue, IInv
<1>4. replies' \subseteq (Keys \cup {NoKey}) \X Jobs /\ RepliesOK(row', replies')
  BY <1>1, <1>2, <1>3, AnswerKeeps DEF Enqueue, Answer
<1>5. RedisOK(row', queue', cache')
  BY <1>1 DEF Enqueue, IInv, RedisOK, Exists
<1>6. Idle \in Process /\ ProcOK(Idle, row')
  BY IdleOK
<1>7. QED
  BY <1>1, <1>3, <1>4, <1>5, <1>6, StepKeeps DEF Enqueue, Answer, IInv, TypeOK

\* A process gives up or is lost: nothing shared changes, but for what it had paid.
LEMMA AbandonKeeps ==
    ASSUME IInv, NEW p \in Procs, proc' = [proc EXCEPT ![p] = Idle], bought' \in [Jobs -> Nat],
           UNCHANGED <<row, queue, cache, events, replies, requests>>
    PROVE  IInv'
<1>1. RowsKept(row, row') /\ RowsOK(row')
  BY SameRows DEF IInv
<1>2. RedisOK(row', queue', cache') /\ RepliesOK(row', replies')
  BY <1>1, StoresStayOK
<1>3. Idle \in Process /\ ProcOK(Idle, row')
  BY IdleOK
<1>4. QED
  BY <1>1, <1>2, <1>3, StepKeeps DEF IInv, TypeOK

\* A process goes on to a point that makes no new demand.
LEMMA GotoKeeps ==
    ASSUME IInv, NEW p \in Procs, NEW x \in Points, Goto(p, x),
           proc[p].at \notin {"idle", "insert"},
           x \notin {"idle", "insert", "enqueue", "publish"},
           x \in ProcessJob => proc[p].at \in ProcessJob,
           UNCHANGED <<row, queue, cache, events, bought, replies, requests>>
    PROVE  IInv'
<1> DEFINE r == [proc[p] EXCEPT !.at = x]
<1>1. proc[p] \in Process /\ ProcOK(proc[p], row) /\ requests' \in 0..MaxRequests
  BY Mover
<1>2. r \in Process /\ ProcOK(r, row)
  BY <1>1 DEF Process, ProcOK
<1>3. proc' = [proc EXCEPT ![p] = r]
  BY DEF Goto
<1> HIDE DEF r
<1>4. QED
  BY <1>1, <1>2, <1>3, LocalMove

\* A process loads its row, or re-reads it, and goes on.
LEMMA ReadKeeps ==
    ASSUME IInv, NEW p \in Procs, NEW x \in Points,
           proc' = [proc EXCEPT ![p].at = x, ![p].snap = row[proc[p].job]],
           proc[p].at \notin {"idle", "insert"},
           x \notin {"idle", "insert", "enqueue"},
           x = "publish" => row[proc[p].job].result,
           x \in ProcessJob => proc[p].at \in ProcessJob,
           UNCHANGED <<row, queue, cache, events, bought, replies, requests>>
    PROVE  IInv'
<1> DEFINE r == [proc[p] EXCEPT !.at = x, !.snap = row[proc[p].job]]
<1>1. /\ proc[p] \in Process /\ ProcOK(proc[p], row) /\ requests' \in 0..MaxRequests
      /\ row[proc[p].job] \in Row
  BY Mover
<1>2. r \in Process /\ ProcOK(r, row)
  BY <1>1 DEF Process, ProcOK
<1>3. proc' = [proc EXCEPT ![p] = r]
  OBVIOUS
<1> HIDE DEF r
<1>4. QED
  BY <1>1, <1>2, <1>3, LocalMove

\* The last commit of a handler, which then is idle.
LEMMA LastCommitKeeps ==
    ASSUME IInv, NEW p \in Procs, NEW new \in Row,
           proc[p].at \notin {"idle", "insert"},
           row' = [row EXCEPT ![proc[p].job] = Flush(new, proc[p].snap, @)],
           new.status = proc[p].snap.status \/ new.status # "absent",
           new.status = "completed" => new.result \/ proc[p].snap.status = "completed",
           proc[p].snap.result => new.result,
           proc' = [proc EXCEPT ![p] = Idle],
           UNCHANGED <<queue, cache, events, bought, requests>>,
           replies' \subseteq (Keys \cup {NoKey}) \X Jobs,
           RowsKept(row, row') => RepliesOK(row', replies')
    PROVE  IInv'
<1>1. Idle \in Process /\ ProcOK(Idle, row')
  BY IdleOK
<1>2. row' \in [Jobs -> Row] /\ RowsKept(row, row') /\ RowsOK(row')
  BY <1>1, CommitKeeps
<1>3. RedisOK(row', queue', cache')
  BY <1>2, StoresStayOK
<1>4. QED
  BY <1>1, <1>2, <1>3, StepKeeps DEF IInv, TypeOK

LEMMA RecoverKeeps == ASSUME IInv, NEW h \in Handlers, Recover(h) PROVE IInv'
<1>1. h \in Procs /\ proc[h].at = "recover"
  BY DEF Procs, Recover
<1>2. CASE row[proc[h].job].status \in {"queued", "running"}
  BY <1>1, <1>2, ReadKeeps, PointsList DEF Recover, ProcessJob, Unprotected, Protected
<1>3. CASE ~(row[proc[h].job].status \in {"queued", "running"})
  BY <1>1, <1>3, AbandonKeeps DEF Recover, IInv, TypeOK
<1>4. QED
  BY <1>2, <1>3

LEMMA RecoverRowKeeps == ASSUME IInv, NEW h \in Handlers, RecoverRow(h) PROVE IInv'
<1> DEFINE new == [proc[h].snap EXCEPT !.status = "failed"]
<1>1. h \in Procs /\ proc[h].at = "recoverRow" /\ proc[h].snap \in Row
  BY Mover DEF Procs, RecoverRow, Process
<1>2. new \in Row /\ new.status = "failed" /\ new.result = proc[h].snap.result
  BY <1>1 DEF Row, JobStatus, Terminal
<1>3. /\ row' = [row EXCEPT ![proc[h].job] = Flush(new, proc[h].snap, @)]
      /\ proc' = [proc EXCEPT ![h] = Idle]
      /\ UNCHANGED <<queue, cache, events, bought, replies, requests>>
  BY DEF RecoverRow
<1>4. RowsKept(row, row') => RepliesOK(row', replies')
  BY <1>3, StoresStayOK
<1> HIDE DEF new
<1>5. QED
  BY <1>1, <1>2, <1>3, <1>4, LastCommitKeeps DEF IInv, TypeOK

LEMMA StartCancelKeeps == ASSUME IInv, NEW h \in Handlers, NEW j \in Jobs, StartCancel(h, j) PROVE IInv'
<1> DEFINE r == [Idle EXCEPT !.at = IF row[j].status = "queued" THEN "dequeue" ELSE "cancelRow",
                             !.job = j, !.via = "cancel", !.snap = row[j]]
<1>1. h \in Procs /\ proc[h] \in Process /\ ProcOK(proc[h], row) /\ requests' \in 0..MaxRequests
  BY Mover, BoundAssumption DEF Procs, StartCancel, Accept
<1>2. CASE row[j].status \in Terminal
  <2>1. proc' = [proc EXCEPT ![h] = proc[h]]
    BY <1>2 DEF StartCancel, IInv, TypeOK
  <2>2. QED
    BY <1>1, <2>1, LocalMove DEF StartCancel
<1>3. CASE row[j].status \notin Terminal
  <2>1. proc' = [proc EXCEPT ![h] = r]
    BY <1>3 DEF StartCancel
  <2>2. row[j] \in Row
    BY DEF IInv, TypeOK
  <2>3. r \in Process
    BY <2>2, IdleOK, PointsList DEF Process, Callers
  <2>4. ProcOK(r, row)
    BY <2>2, IdleOK DEF ProcOK, Idle, StartCancel, Exists, ProcessJob, Unprotected, Protected
  <2> HIDE DEF r
  <2>5. QED
    BY <1>1, <2>1, <2>3, <2>4, LocalMove DEF StartCancel
<1>4. QED
  BY <1>2, <1>3

LEMMA DequeueKeeps == ASSUME IInv, NEW h \in Handlers, Dequeue(h) PROVE IInv'
<1> DEFINE r == [proc[h] EXCEPT !.at = "cancelRow"]
<1>1. h \in Procs /\ proc[h].at = "dequeue" /\ proc[h] \in Process /\ ProcOK(proc[h], row)
  BY Mover DEF Procs, Dequeue
<1>2. r \in Process /\ ProcOK(r, row') /\ proc' = [proc EXCEPT ![h] = r]
  BY <1>1, PointsList DEF Process, ProcOK, Dequeue, Goto, ProcessJob, Unprotected, Protected
<1>3. RowsKept(row, row') /\ RowsOK(row')
  BY SameRows DEF Dequeue, IInv
<1>4. RedisOK(row', queue, cache) /\ RepliesOK(row', replies)
  BY <1>3, StoresStayOK
<1>5. RedisOK(row', queue', cache') /\ RepliesOK(row', replies')
  BY <1>4 DEF Dequeue, RedisOK
<1> HIDE DEF r
<1>6. QED
  BY <1>1, <1>2, <1>3, <1>5, StepKeeps DEF Dequeue, IInv, TypeOK

LEMMA CancelRowKeeps == ASSUME IInv, NEW h \in Handlers, CancelRow(h) PROVE IInv'
<1> DEFINE old == proc[h].snap
           new == IF old.status = "queued" THEN [old EXCEPT !.status = "canceled"]
                                           ELSE [old EXCEPT !.cancelRequested = TRUE]
<1>1. h \in Procs /\ proc[h].at = "cancelRow" /\ old \in Row
  BY Mover DEF Procs, CancelRow, Process
<1>2. /\ row' = [row EXCEPT ![proc[h].job] = Flush(new, proc[h].snap, @)]
      /\ proc' = [proc EXCEPT ![h] = Idle]
      /\ UNCHANGED <<queue, cache, events, bought, replies, requests>>
  BY DEF CancelRow
<1>3. /\ new \in Row
      /\ new.status = old.status \/ new.status = "canceled"
      /\ new.result = old.result
  BY <1>1 DEF Row, JobStatus, Terminal
<1>4. RowsKept(row, row') => RepliesOK(row', replies')
  BY <1>2, StoresStayOK
<1> HIDE DEF new
<1>5. QED
  BY <1>1, <1>2, <1>3, <1>4, LastCommitKeeps DEF IInv, TypeOK

LEMMA SaveTrainingKeeps == ASSUME IInv, NEW h \in Handlers, NEW j \in Jobs, SaveTraining(h, j) PROVE IInv'
<1>1. /\ events' \in [Jobs -> Nat] /\ requests' \in 0..MaxRequests
      /\ UNCHANGED <<row, queue, cache, bought, proc, replies>>
  BY BoundAssumption DEF SaveTraining, Accept, IInv, TypeOK
<1>2. QED
  BY <1>1 DEF IInv, TypeOK

-----------------------------------------------------------------------------
(* process_job.                                                            *)

LEMMA TakeKeeps == ASSUME IInv, NEW w \in Workers, Take(w) PROVE IInv'
<1>1. PICK j \in queue :
         /\ queue' = queue \ {j}
         /\ proc' = [proc EXCEPT ![w] = [Idle EXCEPT !.at = "load", !.job = j, !.via = "worker"]]
  BY DEF Take
<1> DEFINE r == [Idle EXCEPT !.at = "load", !.job = j, !.via = "worker"]
<1>2. w \in Procs /\ j \in Jobs /\ row[j].status # "absent"
  BY DEF Procs, IInv, TypeOK, RedisOK
<1>3. r \in Process
  BY <1>2, IdleOK, PointsList DEF Process, Callers
<1>4. ProcOK(r, row')
  BY <1>2, IdleOK DEF ProcOK, Idle, NoRow, Take
<1>5. RowsKept(row, row') /\ RowsOK(row')
  BY SameRows DEF Take, IInv
<1>6. RedisOK(row', queue, cache) /\ RepliesOK(row', replies)
  BY <1>5, StoresStayOK
<1>7. RedisOK(row', queue', cache') /\ RepliesOK(row', replies')
  BY <1>1, <1>6 DEF Take, RedisOK
<1>8. proc' = [proc EXCEPT ![w] = r]
  BY <1>1
<1> HIDE DEF r
<1>9. QED
  BY <1>1, <1>2, <1>3, <1>4, <1>5, <1>7, <1>8, StepKeeps DEF Take, IInv, TypeOK

\* process_job returns without having written anything in this step.
LEMMA QuietReturnKeeps ==
    ASSUME IInv, NEW p \in Procs, proc[p].at \in ProcessJob, Return(p),
           UNCHANGED <<row, queue, cache, bought, requests>>, events' \in [Jobs -> Nat]
    PROVE  IInv'
<1>1. RowsKept(row, row') /\ RowsOK(row')
  BY SameRows DEF IInv
<1>2. replies' \subseteq (Keys \cup {NoKey}) \X Jobs /\ RepliesOK(row', replies')
  BY <1>1, ReturnKeeps
<1>3. RedisOK(row', queue', cache')
  BY <1>1, StoresStayOK
<1>4. Idle \in Process /\ ProcOK(Idle, row')
  BY IdleOK
<1>5. QED
  BY <1>1, <1>2, <1>3, <1>4, StepKeeps DEF Return, IInv, TypeOK

LEMMA LoadKeeps == ASSUME IInv, NEW p \in Procs, Load(p) PROVE IInv'
<1>1. proc[p].at = "load" /\ "load" \in ProcessJob /\ "start" \in Points
  BY PointsList DEF Load, ProcessJob, Unprotected
<1>2. CASE row[proc[p].job].status \in {"absent", "canceled"}
  BY <1>1, <1>2, QuietReturnKeeps DEF Load, IInv, TypeOK
<1>3. CASE ~(row[proc[p].job].status \in {"absent", "canceled"})
  BY <1>1, <1>3, ReadKeeps DEF Load
<1>4. QED
  BY <1>2, <1>3

LEMMA RefreshKeeps == ASSUME IInv, NEW p \in Procs, Refresh(p) PROVE IInv'
BY ReadKeeps, PointsList DEF Refresh, ProcessJob, Unprotected

LEMMA AfterCommitKeeps ==
    ASSUME IInv, NEW p \in Procs, NEW from \in ProcessJob, NEW next \in ProcessJob,
           AfterCommit(p, from, next)
    PROVE  IInv'
<1>1. /\ proc[p].at = from /\ next \in Points
      /\ from \notin {"idle", "insert", "enqueue"} /\ next \notin {"idle", "insert", "enqueue"}
  BY DEF AfterCommit, Points, ProcessJob, Unprotected, Protected
<1>2. CASE row[proc[p].job].status = "completed"
  <2>1. row[proc[p].job].result
    BY <1>1, <1>2, Mover DEF IInv, RowsOK
  <2>2. QED
    BY <1>1, <1>2, <2>1, ReadKeeps DEF AfterCommit
<1>3. CASE row[proc[p].job].status # "completed"
  BY <1>1, <1>3, QuietReturnKeeps DEF AfterCommit, IInv, TypeOK
<1>4. QED
  BY <1>2, <1>3

\* A commit inside process_job that goes on to another point.
LEMMA CommitStepKeeps ==
    ASSUME IInv, NEW p \in Procs, NEW new \in Row, NEW x \in ProcessJob,
           proc[p].at \in ProcessJob, x # "publish",
           Commit(p, new, x),
           new.status \in JobStatus,
           new.status = "completed" => new.result,
           proc[p].snap.result => new.result,
           UNCHANGED <<queue, cache, events, bought, replies, requests>>
    PROVE  IInv'
<1> DEFINE r == [proc[p] EXCEPT !.at = x, !.snap = new]
<1>1. /\ proc[p] \in Process /\ ProcOK(proc[p], row)
      /\ proc[p].at \notin {"idle", "insert"} /\ x \notin {"idle", "insert", "enqueue"}
      /\ x \in Points /\ new.status # "absent"
      /\ proc[p].job \in Jobs
  BY Mover DEF Points, ProcessJob, Unprotected, Protected, JobStatus, Terminal
<1>2. /\ proc' = [proc EXCEPT ![p] = r]
      /\ row' = [row EXCEPT ![proc[p].job] = Flush(new, proc[p].snap, @)]
  BY DEF Commit
<1>3. r \in Process
  BY <1>1 DEF Process
<1>4. /\ row' \in [Jobs -> Row] /\ RowsKept(row, row') /\ RowsOK(row')
      /\ new.result => row'[proc[p].job].result
  BY <1>1, <1>2, <1>3, CommitKeeps
<1>5. ProcOK(proc[p], row')
  BY <1>1, <1>4, OthersStayOK
<1>6. ProcOK(r, row')
  BY <1>1, <1>4, <1>5 DEF ProcOK, Process
<1>7. RedisOK(row', queue', cache') /\ RepliesOK(row', replies')
  BY <1>4, StoresStayOK
<1> HIDE DEF r
<1>8. QED
  BY <1>2, <1>3, <1>4, <1>6, <1>7, StepKeeps DEF IInv, TypeOK

LEMMA StartKeeps == ASSUME IInv, NEW p \in Procs, Start(p) PROVE IInv'
<1> DEFINE new == [proc[p].snap EXCEPT !.status = "running"]
<1>1. proc[p].at = "start" /\ "start" \in ProcessJob /\ "refresh" \in ProcessJob /\ proc[p].snap \in Row
  BY Mover DEF Start, ProcessJob, Unprotected, Process
<1>2. new \in Row /\ new.status = "running" /\ "running" \in JobStatus /\ new.result = proc[p].snap.result
  BY <1>1 DEF Row, JobStatus
<1>3. Commit(p, new, "refresh")
  BY DEF Start
<1> HIDE DEF new
<1>4. QED
  BY <1>1, <1>2, <1>3, CommitStepKeeps DEF Start

\* The two commits of an answer.
LEMMA FinishKeeps ==
    ASSUME IInv, NEW p \in Procs, NEW x \in {"written", "hitRefresh"},
           proc[p].at \in {"hit", "write"}, Commit(p, Finished(proc[p].snap), x),
           UNCHANGED <<queue, cache, events, bought, replies, requests>>
    PROVE  IInv'
<1> DEFINE new == Finished(proc[p].snap)
<1>1. proc[p].at \in ProcessJob /\ x \in ProcessJob /\ x # "publish" /\ proc[p].snap \in Row
  BY Mover DEF ProcessJob, Unprotected, Protected, Process
<1>2. new \in Row /\ new.status \in JobStatus /\ new.result
  BY <1>1 DEF Finished, Row, JobStatus, Terminal
<1> HIDE DEF new
<1>3. QED
  BY <1>1, <1>2, CommitStepKeeps DEF new

LEMMA MarkFailedKeeps == ASSUME IInv, NEW p \in Procs, MarkFailed(p) PROVE IInv'
<1> DEFINE new == [proc[p].snap EXCEPT !.status = "failed"]
<1>1. proc[p].at = "fail" /\ "fail" \in ProcessJob /\ proc[p].snap \in Row
  BY Mover DEF MarkFailed, ProcessJob, Unprotected, Process
<1>2. new \in Row /\ new.status = "failed" /\ new.result = proc[p].snap.result
  BY <1>1 DEF Row, JobStatus, Terminal
<1>3. /\ row' = [row EXCEPT ![proc[p].job] = Flush(new, proc[p].snap, @)]
      /\ Return(p)
      /\ UNCHANGED <<queue, cache, events, bought, requests>>
  BY DEF MarkFailed
<1> HIDE DEF new
<1>4. RowsKept(row, row')
  BY <1>1, <1>2, <1>3, CommitKeeps, IdleOK
<1>5. replies' \subseteq (Keys \cup {NoKey}) \X Jobs /\ RepliesOK(row', replies')
  BY <1>1, <1>3, <1>4, ReturnKeeps
<1>6. QED
  BY <1>1, <1>2, <1>3, <1>5, LastCommitKeeps DEF Return

LEMMA PrepareKeeps == ASSUME IInv, NEW p \in Procs, Prepare(p) PROVE IInv'
BY GotoKeeps, PointsList DEF Prepare, ProcessJob, Unprotected

LEMMA LookupKeeps == ASSUME IInv, NEW p \in Procs, Lookup(p) PROVE IInv'
<1>1. PICK x \in {"hit", "screen"} : Goto(p, x)
  BY DEF Lookup
<1>2. /\ x \in Points /\ x \in ProcessJob /\ proc[p].at = "lookup" /\ "lookup" \in ProcessJob
      /\ UNCHANGED <<row, queue, cache, events, bought, replies, requests>>
  BY PointsList DEF Lookup, ProcessJob, Unprotected
<1>3. QED
  BY <1>1, <1>2, GotoKeeps

\* Process p goes to x with its counters at route n, round m and retry k.
Attempt(p, x, n, m, k) ==
    proc' = [proc EXCEPT ![p] = [proc[p] EXCEPT !.at = x, !.route = n, !.round = m, !.retry = k]]

\* A process goes on in the loop over the routes; the provider may have been paid.
LEMMA AttemptKeeps ==
    ASSUME IInv, NEW p \in Procs, proc[p].at \in {"screen", "call"},
           NEW x \in {"call", "fail", "write"}, NEW n \in Nat, NEW m \in Nat, NEW k \in Nat,
           Attempt(p, x, n, m, k), bought' \in [Jobs -> Nat],
           UNCHANGED <<row, queue, cache, events, replies, requests>>
    PROVE  IInv'
<1> DEFINE r == [proc[p] EXCEPT !.at = x, !.route = n, !.round = m, !.retry = k]
<1>1. /\ proc[p] \in Process /\ ProcOK(proc[p], row) /\ proc[p].at \in ProcessJob
      /\ x \in Points /\ x \in ProcessJob
  BY Mover, PointsList DEF ProcessJob, Unprotected, Protected
<1>2. RowsKept(row, row') /\ RowsOK(row')
  BY SameRows DEF IInv
<1>3. RedisOK(row', queue', cache') /\ RepliesOK(row', replies')
  BY <1>2, StoresStayOK
<1>4. r \in Process /\ ProcOK(r, row')
  BY <1>1 DEF Process, ProcOK
<1>5. proc' = [proc EXCEPT ![p] = r]
  BY DEF Attempt
<1> HIDE DEF r
<1>6. QED
  BY <1>2, <1>3, <1>4, <1>5, StepKeeps DEF IInv, TypeOK

\* The steps of the loop, as attempts.
LEMMA AttemptShapes ==
    ASSUME IInv, NEW p \in Procs, proc[p].at = "call"
    PROVE  /\ \A x : Leave(p, x) => Attempt(p, x, 0, 0, 0)
           /\ NextRoute(p) => \/ Attempt(p, "fail", 0, 0, 0)
                              \/ /\ proc[p].route < Routes
                                 /\ Attempt(p, "call", proc[p].route + 1, 1, 0)
           /\ Resend(p) => /\ proc[p].retry < MaxRetries
                           /\ Attempt(p, "call", proc[p].route, proc[p].round, proc[p].retry + 1)
           /\ DropParameter(p) => /\ proc[p].round < Rounds
                                  /\ Attempt(p, "call", proc[p].route, proc[p].round + 1, 0)
           /\ proc[p].route \in Nat /\ proc[p].round \in Nat /\ proc[p].retry \in Nat
<1>1. /\ proc[p] \in Process
      /\ proc[p].route \in Nat /\ proc[p].round \in Nat /\ proc[p].retry \in Nat
  BY DEF IInv, TypeOK, Process
<1>2. \A x : Leave(p, x) => Attempt(p, x, 0, 0, 0)
  BY DEF Leave, Attempt
<1>3. /\ \A n : [proc[p] EXCEPT !.route = n, !.round = 1, !.retry = 0]
                = [proc[p] EXCEPT !.at = "call", !.route = n, !.round = 1, !.retry = 0]
      /\ \A n : [proc[p] EXCEPT !.retry = n]
                = [proc[p] EXCEPT !.at = "call", !.route = proc[p].route, !.round = proc[p].round, !.retry = n]
      /\ \A n : [proc[p] EXCEPT !.round = n, !.retry = 0]
                = [proc[p] EXCEPT !.at = "call", !.route = proc[p].route, !.round = n, !.retry = 0]
  BY <1>1 DEF Process
<1>4. ASSUME NextRoute(p)
      PROVE  \/ Attempt(p, "fail", 0, 0, 0)
             \/ proc[p].route < Routes /\ Attempt(p, "call", proc[p].route + 1, 1, 0)
  <2>1. CASE proc[p].route < Routes
    <3>1. proc' = [proc EXCEPT ![p] = [proc[p] EXCEPT !.route = proc[p].route + 1, !.round = 1, !.retry = 0]]
      BY <1>4, <2>1 DEF NextRoute
    <3>2. QED
      BY <1>3, <2>1, <3>1 DEF Attempt
  <2>2. CASE ~(proc[p].route < Routes)
    BY <1>2, <1>4, <2>2 DEF NextRoute
  <2>3. QED
    BY <2>1, <2>2
<1>5. ASSUME Resend(p)
      PROVE  /\ proc[p].retry < MaxRetries
             /\ Attempt(p, "call", proc[p].route, proc[p].round, proc[p].retry + 1)
  <2>1. proc' = [proc EXCEPT ![p] = [proc[p] EXCEPT !.retry = proc[p].retry + 1]]
    BY <1>5 DEF Resend
  <2>2. QED
    BY <1>3, <1>5, <2>1 DEF Attempt, Resend
<1>6. ASSUME DropParameter(p)
      PROVE  /\ proc[p].round < Rounds
             /\ Attempt(p, "call", proc[p].route, proc[p].round + 1, 0)
  <2>1. proc' = [proc EXCEPT ![p] = [proc[p] EXCEPT !.round = proc[p].round + 1, !.retry = 0]]
    BY <1>6 DEF DropParameter
  <2>2. QED
    BY <1>3, <1>6, <2>1 DEF Attempt, DropParameter
<1>7. QED
  BY <1>1, <1>2, <1>4, <1>5, <1>6

\* Screen as an attempt.
LEMMA ScreenShape ==
    ASSUME NEW p \in Procs, Screen(p)
    PROVE  Goto(p, "fail") \/ Attempt(p, "call", 1, 1, 0)
<1>1. proc' = [proc EXCEPT ![p].at = "call", ![p].route = 1, ![p].round = 1, ![p].retry = 0]
         => Attempt(p, "call", 1, 1, 0)
  BY DEF Attempt
<1>2. QED
  BY <1>1 DEF Screen

\* A step at the call is an attempt at the call or behind it.
LEMMA CallIsAttempt ==
    ASSUME IInv, NEW p \in Procs, CallAnswered(p) \/ CallLost(p) \/ CallFails(p)
    PROVE  \E x \in {"call", "fail", "write"}, n, m, k \in Nat : Attempt(p, x, n, m, k)
<1>1. proc[p].at = "call"
  BY DEF CallAnswered, CallLost, CallFails
<1>2. /\ proc[p].route + 1 \in Nat /\ proc[p].round + 1 \in Nat /\ proc[p].retry + 1 \in Nat
      /\ proc[p].route \in Nat /\ proc[p].round \in Nat /\ 0 \in Nat /\ 1 \in Nat
  BY <1>1, AttemptShapes
<1>3. Leave(p, "write") \/ NextRoute(p) \/ Resend(p) \/ DropParameter(p)
  BY DEF CallAnswered, CallLost, CallFails
<1>4. \/ Attempt(p, "write", 0, 0, 0) \/ Attempt(p, "fail", 0, 0, 0)
      \/ Attempt(p, "call", proc[p].route + 1, 1, 0)
      \/ Attempt(p, "call", proc[p].route, proc[p].round, proc[p].retry + 1)
      \/ Attempt(p, "call", proc[p].route, proc[p].round + 1, 0)
  BY <1>1, <1>3, AttemptShapes
<1>5. QED
  BY <1>2, <1>4

LEMMA ScreenKeeps == ASSUME IInv, NEW p \in Procs, Screen(p) PROVE IInv'
<1>1. /\ proc[p].at = "screen" /\ bought' \in [Jobs -> Nat] /\ "screen" \in ProcessJob
      /\ UNCHANGED <<row, queue, cache, events, bought, replies, requests>>
  BY DEF Screen, IInv, TypeOK, ProcessJob, Unprotected
<1>2. CASE Attempt(p, "call", 1, 1, 0)
  <2>1. 1 \in Nat /\ 0 \in Nat /\ "call" \in {"call", "fail", "write"}
    OBVIOUS
  <2>2. QED
    BY <1>1, <1>2, <2>1, AttemptKeeps
<1>3. CASE Goto(p, "fail")
  BY <1>1, <1>3, GotoKeeps, PointsList DEF ProcessJob, Unprotected
<1>4. QED
  BY <1>2, <1>3, ScreenShape

LEMMA CallKeeps ==
    ASSUME IInv, NEW p \in Procs, CallAnswered(p) \/ CallLost(p) \/ CallFails(p)
    PROVE  IInv'
<1>1. /\ proc[p].at = "call" /\ bought' \in [Jobs -> Nat]
      /\ UNCHANGED <<row, queue, cache, events, replies, requests>>
  BY DEF CallAnswered, CallLost, CallFails, IInv, TypeOK
<1>2. PICK x \in {"call", "fail", "write"}, n, m, k \in Nat : Attempt(p, x, n, m, k)
  BY CallIsAttempt
<1>3. QED
  BY <1>1, <1>2, AttemptKeeps

LEMMA PublishKeeps == ASSUME IInv, NEW p \in Procs, Publish(p) PROVE IInv'
<1> DEFINE r == [proc[p] EXCEPT !.at = "autosave"]
<1>1. /\ proc[p].at = "publish" /\ proc[p] \in Process /\ ProcOK(proc[p], row)
      /\ proc[p].job \in Jobs /\ row[proc[p].job].result
      /\ "autosave" \in Points /\ "autosave" \in ProcessJob /\ "publish" \in ProcessJob
  BY Mover, PointsList DEF Publish, ProcOK, ProcessJob, Protected
<1>2. RowsKept(row, row') /\ RowsOK(row')
  BY SameRows DEF Publish, IInv
<1>3. RedisOK(row', queue, cache) /\ RepliesOK(row', replies)
  BY <1>2, StoresStayOK
<1>4. RedisOK(row', queue', cache') /\ RepliesOK(row', replies')
  BY <1>1, <1>3 DEF Publish, RedisOK
<1>5. r \in Process /\ ProcOK(r, row') /\ proc' = [proc EXCEPT ![p] = r]
  BY <1>1 DEF Process, ProcOK, Publish, Goto
<1> HIDE DEF r
<1>6. QED
  BY <1>1, <1>2, <1>4, <1>5, StepKeeps DEF Publish, IInv, TypeOK

LEMMA AutoSaveKeeps ==
    ASSUME IInv, NEW p \in Procs, NEW from \in ProcessJob, AutoSave(p, from)
    PROVE  IInv'
<1>1. proc[p].at \in ProcessJob /\ proc[p].job \in Jobs
  BY Mover DEF AutoSave, ProcessJob, Unprotected, Protected
<1>2. events' \in [Jobs -> Nat]
  BY <1>1 DEF AutoSave, IInv, TypeOK
<1>3. QED
  BY <1>1, <1>2, QuietReturnKeeps DEF AutoSave

LEMMA CacheExpireKeeps == ASSUME IInv, CacheExpire PROVE IInv'
<1>1. cache' = NoJob /\ UNCHANGED <<row, queue, events, bought, proc, replies, requests>>
  BY DEF CacheExpire
<1>2. QED
  BY <1>1 DEF IInv, TypeOK, RedisOK

-----------------------------------------------------------------------------
(* Faults.                                                                 *)

LEMMA EscapeKeeps == ASSUME IInv, NEW p \in Procs, Escape(p) PROVE IInv'
<1>1. /\ proc[p].at \in ProcessJob /\ proc[p].at \notin {"idle", "insert"}
      /\ UNCHANGED <<row, queue, cache, events, bought, replies, requests>>
  BY DEF Escape, ProcessJob, Unprotected
<1>2. CASE proc[p].via = "inline"
  BY <1>1, <1>2, GotoKeeps, PointsList DEF Escape, Goto
<1>3. CASE proc[p].via # "inline"
  BY <1>1, <1>3, AbandonKeeps DEF Escape, IInv, TypeOK
<1>4. QED
  BY <1>2, <1>3

LEMMA CaughtKeeps == ASSUME IInv, NEW p \in Procs, Caught(p) PROVE IInv'
BY GotoKeeps, PointsList DEF Caught, ProcessJob, Protected

LEMMA FaultKeeps == ASSUME IInv, Fault PROVE IInv'
<1>1. ASSUME NEW h \in Handlers, EnqueueFails(h) PROVE IInv'
  BY <1>1, AbandonKeeps DEF EnqueueFails, Procs, IInv, TypeOK
<1>2. ASSUME NEW p \in Procs, Crash(p) PROVE IInv'
  <2>1. bought \in [Jobs -> Nat] /\ (proc[p].at = "call" => proc[p].job \in Jobs)
    BY Mover DEF IInv, TypeOK
  <2>2. bought' \in [Jobs -> Nat]
    BY <1>2, <2>1 DEF Crash
  <2>3. QED
    BY <1>2, <2>2, AbandonKeeps DEF Crash
<1>3. QED
  BY <1>1, <1>2, EscapeKeeps, CaughtKeeps DEF Fault

-----------------------------------------------------------------------------
(* The theorems.                                                           *)

LEMMA RequestKeeps == ASSUME IInv, NEW h \in Handlers, Request(h) PROVE IInv'
<1>1. ASSUME NEW k \in Keys \cup {NoKey}, SubmitReplay(h, k) \/ RespondReplay(h, k) PROVE IInv'
  <2>1. requests' \in 0..MaxRequests
    BY <1>1, BoundAssumption DEF SubmitReplay, RespondReplay, Accept, IInv, TypeOK
  <2>2. PICK j \in Holders(k) : Answer(h, k, j)
    BY <1>1 DEF SubmitReplay, RespondReplay
  <2>3. QED
    BY <1>1, <2>1, <2>2, ReplayKeeps DEF SubmitReplay, RespondReplay
<1>2. ASSUME NEW k \in Keys \cup {NoKey},
             StartCreate(h, k, "submit", "submit") \/ StartCreate(h, k, "respond", "inline")
      PROVE  IInv'
  BY <1>2, StartCreateKeeps DEF Callers
<1>3. QED
  BY <1>1, <1>2, RespondQueuedKeeps, StartCancelKeeps, SaveTrainingKeeps DEF Request

LEMMA HandleKeeps == ASSUME IInv, NEW h \in Handlers, Handle(h) PROVE IInv'
BY InsertKeeps, InsertConflictKeeps, EnqueueKeeps, RecoverKeeps, RecoverRowKeeps,
   DequeueKeeps, CancelRowKeeps DEF Handle

LEMMA ExecuteKeeps == ASSUME IInv, NEW p \in Procs, Execute(p) PROVE IInv'
<1>1. CASE Hit(p)
  BY <1>1, FinishKeeps DEF Hit
<1>2. CASE Write(p)
  BY <1>2, FinishKeeps DEF Write
<1>3. CASE HitRefresh(p) \/ Written(p)
  BY <1>3, AfterCommitKeeps DEF HitRefresh, Written, ProcessJob, Unprotected, Protected
<1>4. CASE AutoSave(p, "hitSave") \/ AutoSave(p, "autosave")
  BY <1>4, AutoSaveKeeps DEF ProcessJob, Unprotected, Protected
<1>5. QED
  BY <1>1, <1>2, <1>3, <1>4, LoadKeeps, StartKeeps, RefreshKeeps, PrepareKeeps, LookupKeeps,
     ScreenKeeps, CallKeeps, PublishKeeps, MarkFailedKeeps DEF Execute

LEMMA InitOK == Init => IInv
<1> SUFFICES ASSUME Init PROVE IInv
  OBVIOUS
<1>1. NoRow \in Row /\ NoRow.status = "absent" /\ ~NoRow.result
  BY DEF NoRow, Row
<1>2. TypeOK
  BY <1>1, IdleOK, BoundAssumption DEF Init, TypeOK
<1>3. \A p \in Procs : ProcOK(proc[p], row)
  BY IdleOK DEF Init
<1>4. RowsOK(row) /\ RedisOK(row, queue, cache) /\ RepliesOK(row, replies)
  BY <1>1 DEF Init, RowsOK, RedisOK, RepliesOK
<1>5. QED
  BY <1>2, <1>3, <1>4 DEF IInv

LEMMA StepOK == IInv /\ [Next]_vars => IInv'
<1> SUFFICES ASSUME IInv, [Next]_vars PROVE IInv'
  OBVIOUS
<1>1. CASE UNCHANGED vars
  BY <1>1 DEF vars, IInv, TypeOK, RowsOK, RedisOK, RepliesOK, ProcOK
<1>2. CASE Next
  BY <1>1, <1>2, RequestKeeps, HandleKeeps, TakeKeeps, ExecuteKeeps, CacheExpireKeeps, FaultKeeps
     DEF Next, Rest
<1>3. QED
  BY <1>1, <1>2

\* The inductive invariant holds in every behaviour of the service.
THEOREM Inductive == Spec => []IInv
BY InitOK, StepOK, PTL DEF Spec

\* Every variable keeps its type and every process its job.
THEOREM TypeCorrect == Spec => []TypeOK
<1>1. IInv => TypeOK
  BY DEF IInv
<1>2. QED
  BY <1>1, Inductive, PTL

\* A completed job carries its result, whatever executions and cancels of the
\* same job interleave (tasks.py process_job).
THEOREM CompletedCarriesResult == Spec => []CompletedHasResult
<1>1. IInv => CompletedHasResult
  BY DEF IInv, RowsOK, CompletedHasResult
<1>2. QED
  BY <1>1, Inductive, PTL

\* An idempotency key names one job, in the table and in every reply
\* (public.py submit_job, submit_response).
THEOREM KeyNamesOneJob == Spec => []OneJobPerKey
<1>1. IInv => OneJobPerKey
  BY DEF IInv, TypeOK, RowsOK, RepliesOK, OneJobPerKey, Exists
<1>2. QED
  BY <1>1, Inductive, PTL

\* Workers only find entries of committed jobs (public.py 110-139).
THEOREM EntriesAreCommitted == Spec => []QueuedAreCommitted
<1>1. IInv => QueuedAreCommitted
  BY DEF IInv, TypeOK, RedisOK, ProcOK, QueuedAreCommitted, Exists, ProcessJob, Unprotected, Protected
<1>2. QED
  BY <1>1, Inductive, PTL

\* The response cache only names answered jobs (tasks.py 204-234, 391-393).
THEOREM CacheNamesAnswers == Spec => []CacheHasAnswer
<1>1. IInv => CacheHasAnswer
  BY DEF IInv, RedisOK, CacheHasAnswer
<1>2. QED
  BY <1>1, Inductive, PTL

\* The table, the queue and the cache agree: the three facts above.
THEOREM StoresAlwaysAgree == Spec => []StoresAgree
<1>1. CompletedHasResult /\ QueuedAreCommitted /\ CacheHasAnswer => StoresAgree
  BY DEF StoresAgree
<1>2. QED
  BY <1>1, CompletedCarriesResult, EntriesAreCommitted, CacheNamesAnswers, PTL

-----------------------------------------------------------------------------
(* A terminal job nobody has under way.                                    *)

\* What a step leaves of such a job: the row, the bill and the quiet itself.
Quiet(j) == row[j].status \in Terminal /\ ~Pending(j)
LeftAlone(j) == row'[j] = row[j] /\ bought'[j] = bought[j] /\ ~Pending(j)'

\* Nobody has a quiet job, and no handler is about to find that its key is taken.
LEMMA NobodyHas ==
    ASSUME NEW j \in Jobs, Quiet(j), NEW p \in Procs
    PROVE  /\ proc[p].job # j /\ j \notin queue
           /\ p \in Handlers /\ proc[p].at = "insert" => proc[p].key = NoKey \/ row[j].key # proc[p].key
BY DEF Quiet, Pending

\* A step of one process that does not take up j leaves it alone.
LEMMA MoveLeavesAlone ==
    ASSUME IInv, NEW j \in Jobs, Quiet(j), NEW p \in Procs, NEW r,
           proc' = [proc EXCEPT ![p] = r], r.job # j, r.at # "insert",
           row'[j] = row[j], bought'[j] = bought[j], j \notin queue'
    PROVE  LeftAlone(j)
<1>1. ASSUME NEW q \in Procs
      PROVE  /\ proc'[q].job # j
             /\ q \in Handlers /\ proc'[q].at = "insert"
                   => row[j].key # proc'[q].key \/ row[j].key = NoKey
  BY <1>1, NobodyHas DEF IInv, TypeOK
<1>2. QED
  BY <1>1 DEF LeftAlone, Pending, Procs

\* A process that returns holds no job.
LEMMA IdleHasNoJob == Idle.job = NoJob /\ Idle.at = "idle"
BY DEF Idle

\* A commit touches the row of the mover's job only.
LEMMA CommitLeavesAlone ==
    ASSUME IInv, NEW j \in Jobs, Quiet(j), NEW p \in Procs, NEW new,
           row' = [row EXCEPT ![proc[p].job] = new]
    PROVE  row'[j] = row[j]
BY NobodyHas DEF IInv, TypeOK

\* The moves inside process_job keep the job of the mover or drop it.
Moves(p) ==
    \E r : proc' = [proc EXCEPT ![p] = r] /\ r.job \in {proc[p].job, NoJob} /\ r.at # "insert"

LEMMA ShapesOfMoves ==
    ASSUME IInv, NEW p \in Procs
    PROVE  /\ proc' = [proc EXCEPT ![p] = Idle] => Moves(p)
           /\ \A x \in Points \ {"insert"} : Goto(p, x) => Moves(p)
           /\ \A x \in Points \ {"insert"}, s \in Row :
                 proc' = [proc EXCEPT ![p].at = x, ![p].snap = s] => Moves(p)
           /\ \A x \in Points \ {"insert"}, n, m, k \in Nat : Attempt(p, x, n, m, k) => Moves(p)
<1>1. proc[p] \in Process
  BY DEF IInv, TypeOK
<1>2. proc' = [proc EXCEPT ![p] = Idle] => Moves(p)
  BY IdleHasNoJob DEF Moves
<1>3. ASSUME NEW x \in Points \ {"insert"}, Goto(p, x) PROVE Moves(p)
  <2> DEFINE r == [proc[p] EXCEPT !.at = x]
  <2>1. proc' = [proc EXCEPT ![p] = r] /\ r.job = proc[p].job /\ r.at = x
    BY <1>1, <1>3 DEF Process, Goto
  <2> HIDE DEF r
  <2>2. QED
    BY <2>1 DEF Moves
<1>4. ASSUME NEW x \in Points \ {"insert"}, NEW s \in Row,
             proc' = [proc EXCEPT ![p].at = x, ![p].snap = s]
      PROVE  Moves(p)
  <2> DEFINE r == [proc[p] EXCEPT !.at = x, !.snap = s]
  <2>1. proc' = [proc EXCEPT ![p] = r] /\ r.job = proc[p].job /\ r.at = x
    BY <1>1, <1>4 DEF Process
  <2> HIDE DEF r
  <2>2. QED
    BY <2>1 DEF Moves
<1>5. ASSUME NEW x \in Points \ {"insert"}, NEW n \in Nat, NEW m \in Nat, NEW k \in Nat,
             Attempt(p, x, n, m, k)
      PROVE  Moves(p)
  <2> DEFINE r == [proc[p] EXCEPT !.at = x, !.route = n, !.round = m, !.retry = k]
  <2>1. r.job = proc[p].job /\ r.at = x /\ proc' = [proc EXCEPT ![p] = r]
    BY <1>1, <1>5 DEF Process, Attempt
  <2> HIDE DEF r
  <2>2. QED
    BY <2>1 DEF Moves
<1>6. QED
  BY <1>2, <1>3, <1>4, <1>5

LEMMA MovesLeaveAlone ==
    ASSUME IInv, NEW j \in Jobs, Quiet(j), NEW p \in Procs, Moves(p),
           row'[j] = row[j], bought'[j] = bought[j], j \notin queue'
    PROVE  LeftAlone(j)
<1>1. PICK r : proc' = [proc EXCEPT ![p] = r] /\ r.job \in {proc[p].job, NoJob} /\ r.at # "insert"
  BY DEF Moves
<1>2. r.job # j
  BY <1>1, NobodyHas, JobsAssumption
<1>3. QED
  BY <1>1, <1>2, MoveLeavesAlone

LEMMA RequestLeavesAlone ==
    ASSUME IInv, NEW j \in Jobs, Quiet(j), NEW h \in Handlers, Request(h)
    PROVE  LeftAlone(j)
<1>1. h \in Procs /\ Idle.job # j /\ Idle.at # "insert" /\ j \notin queue
  BY IdleHasNoJob, JobsAssumption, NobodyHas DEF IInv, Procs
<1>2. ASSUME NEW k \in Keys \cup {NoKey}, NEW op, NEW via, StartCreate(h, k, op, via)
      PROVE  LeftAlone(j)
  <2>1. row[j].key # k \/ k = NoKey
    BY <1>2 DEF StartCreate, Holders, Quiet, Exists, Terminal
  <2>2. ASSUME NEW q \in Procs
        PROVE  /\ proc'[q].job # j
               /\ q \in Handlers /\ proc'[q].at = "insert"
                     => row[j].key # proc'[q].key \/ row[j].key = NoKey
    BY <1>1, <1>2, <2>1, <2>2, NobodyHas DEF StartCreate, Idle, IInv, TypeOK
  <2>3. QED
    BY <1>2, <2>2, NobodyHas DEF StartCreate, LeftAlone, Pending, Procs
<1>3. ASSUME NEW k \in Keys \cup {NoKey}, SubmitReplay(h, k) \/ RespondReplay(h, k)
      PROVE  LeftAlone(j)
  BY <1>1, <1>3, MoveLeavesAlone DEF SubmitReplay, RespondReplay, Answer
<1>4. ASSUME NEW k \in Keys \cup {NoKey}, RespondQueued(h, k) PROVE LeftAlone(j)
  <2>1. PICK i \in Holders(k) :
           /\ row[i].status = "queued"
           /\ proc' = [proc EXCEPT ![h] = [Idle EXCEPT !.at = "load", !.job = i, !.key = k, !.via = "replay"]]
    BY <1>4 DEF RespondQueued
  <2>2. i # j
    BY <2>1 DEF Quiet, Terminal
  <2> DEFINE r == [Idle EXCEPT !.at = "load", !.job = i, !.key = k, !.via = "replay"]
  <2>3. r.job = i /\ r.at = "load"
    BY DEF Idle
  <2> HIDE DEF r
  <2>4. row'[j] = row[j] /\ bought'[j] = bought[j] /\ j \notin queue'
    BY <1>1, <1>4 DEF RespondQueued
  <2>5. proc' = [proc EXCEPT ![h] = r]
    BY <2>1 DEF r
  <2>6. QED
    BY <1>1, <2>2, <2>3, <2>4, <2>5, MoveLeavesAlone
<1>5. ASSUME NEW i \in Jobs, StartCancel(h, i) PROVE LeftAlone(j)
  <2>1. CASE row[i].status \in Terminal
    BY <1>5, <2>1 DEF StartCancel, LeftAlone, Quiet, Pending
  <2>2. CASE row[i].status \notin Terminal
    <3>1. i # j
      BY <2>2 DEF Quiet
    <3> DEFINE r == [Idle EXCEPT !.at = IF row[i].status = "queued" THEN "dequeue" ELSE "cancelRow",
                                 !.job = i, !.via = "cancel", !.snap = row[i]]
    <3>2. r.job = i /\ r.at # "insert"
      BY DEF Idle
    <3>3. proc' = [proc EXCEPT ![h] = r]
      BY <1>5, <2>2 DEF StartCancel
    <3> HIDE DEF r
    <3>4. row'[j] = row[j] /\ bought'[j] = bought[j] /\ j \notin queue'
      BY <1>1, <1>5 DEF StartCancel
    <3>5. QED
      BY <1>1, <3>1, <3>2, <3>3, <3>4, MoveLeavesAlone
  <2>3. QED
    BY <2>1, <2>2
<1>6. ASSUME NEW i \in Jobs, SaveTraining(h, i) PROVE LeftAlone(j)
  BY <1>6 DEF SaveTraining, LeftAlone, Quiet, Pending
<1>7. QED
  BY <1>2, <1>3, <1>4, <1>5, <1>6 DEF Request

LEMMA HandleLeavesAlone ==
    ASSUME IInv, NEW j \in Jobs, Quiet(j), NEW h \in Handlers, Handle(h)
    PROVE  LeftAlone(j)
<1>1. /\ h \in Procs /\ Idle.job # j /\ Idle.at # "insert" /\ j \notin queue
      /\ proc[h].job # j /\ proc[h] \in Process
  BY IdleHasNoJob, JobsAssumption, NobodyHas, Mover DEF Procs
<1>2. CASE Insert(h)
  <2>1. PICK i \in Jobs :
           /\ ~Exists(i)
           /\ row' = [row EXCEPT ![i] = [NoRow EXCEPT !.status = "queued", !.key = proc[h].key]]
           /\ proc' = [proc EXCEPT ![h].at = IF proc[h].via = "submit" THEN "enqueue" ELSE "load",
                                   ![h].job = i]
    BY <1>2 DEF Insert
  <2>2. i # j
    BY <2>1 DEF Exists, Quiet, Terminal
  <2>3. row'[j] = row[j]
    BY <2>1, <2>2 DEF IInv, TypeOK
  <2> DEFINE r == [proc[h] EXCEPT !.at = IF proc[h].via = "submit" THEN "enqueue" ELSE "load",
                                  !.job = i]
  <2>4. proc' = [proc EXCEPT ![h] = r] /\ r.job = i /\ r.at # "insert"
    BY <1>1, <2>1 DEF Process
  <2> HIDE DEF r
  <2>5. QED
    BY <1>1, <1>2, <2>2, <2>3, <2>4, MoveLeavesAlone DEF Insert
<1>3. CASE InsertConflict(h)
  <2>1. PICK i \in Holders(proc[h].key) :
           IF proc[h].via = "submit"
           THEN Answer(h, proc[h].key, i)
           ELSE proc' = [proc EXCEPT ![h].at = "load", ![h].job = i]
    BY <1>3 DEF InsertConflict
  <2>2. i # j
    BY <1>1, <1>3, <2>1, NobodyHas DEF InsertConflict, Holders
  <2>3. CASE proc[h].via = "submit"
    BY <1>1, <1>3, <2>1, <2>3, MoveLeavesAlone DEF InsertConflict, Answer
  <2>4. CASE proc[h].via # "submit"
    <3> DEFINE r == [proc[h] EXCEPT !.at = "load", !.job = i]
    <3>1. proc' = [proc EXCEPT ![h] = r] /\ r.job = i /\ r.at # "insert"
      BY <1>1, <2>1, <2>4 DEF Process
    <3> HIDE DEF r
    <3>2. QED
      BY <1>1, <1>3, <2>2, <3>1, MoveLeavesAlone DEF InsertConflict
  <2>5. QED
    BY <2>3, <2>4
<1>4. CASE Enqueue(h)
  <2>1. /\ proc' = [proc EXCEPT ![h] = Idle]
        /\ row'[j] = row[j] /\ bought'[j] = bought[j] /\ j \notin queue'
    BY <1>1, <1>4 DEF Enqueue, Answer
  <2>2. QED
    BY <1>1, <2>1, MoveLeavesAlone
<1>5. CASE Recover(h)
  <2>1. row[proc[h].job] \in Row
    BY <1>1, <1>5, Mover DEF Recover
  <2>2. Moves(h)
    BY <1>1, <1>5, <2>1, ShapesOfMoves, PointsList DEF Recover
  <2>3. QED
    BY <1>1, <1>5, <2>2, MovesLeaveAlone DEF Recover
<1>6. CASE RecoverRow(h)
  <2>1. row'[j] = row[j]
    BY <1>1, <1>6, CommitLeavesAlone DEF RecoverRow
  <2>2. QED
    BY <1>1, <1>6, <2>1, MoveLeavesAlone DEF RecoverRow
<1>7. CASE Dequeue(h)
  <2> DEFINE r == [proc[h] EXCEPT !.at = "cancelRow"]
  <2>1. proc' = [proc EXCEPT ![h] = r] /\ r.job = proc[h].job /\ r.at # "insert"
    BY <1>1, <1>7 DEF Process, Dequeue, Goto
  <2> HIDE DEF r
  <2>2. QED
    BY <1>1, <1>7, <2>1, MoveLeavesAlone DEF Dequeue
<1>8. CASE CancelRow(h)
  <2>1. row'[j] = row[j]
    BY <1>1, <1>8, CommitLeavesAlone DEF CancelRow
  <2>2. QED
    BY <1>1, <1>8, <2>1, MoveLeavesAlone DEF CancelRow
<1>9. QED
  BY <1>2, <1>3, <1>4, <1>5, <1>6, <1>7, <1>8 DEF Handle

LEMMA ExecuteLeavesAlone ==
    ASSUME IInv, NEW j \in Jobs, Quiet(j), NEW p \in Procs, Execute(p)
    PROVE  LeftAlone(j)
<1>1. /\ proc[p] \in Process /\ proc[p].job # j /\ j \notin queue
      /\ proc[p].at \notin {"idle", "insert"} => proc[p].job \in Jobs /\ row[proc[p].job] \in Row
      /\ proc[p].snap \in Row
  BY NobodyHas, Mover DEF Process
<1>2. CASE Load(p) \/ Refresh(p) \/ HitRefresh(p) \/ Written(p)
  <2>1. Moves(p)
    BY <1>1, <1>2, ShapesOfMoves, PointsList DEF Load, Refresh, HitRefresh, Written, AfterCommit, Return
  <2>2. QED
    BY <1>1, <1>2, <2>1, MovesLeaveAlone DEF Load, Refresh, HitRefresh, Written, AfterCommit
<1>3. CASE Prepare(p) \/ Lookup(p)
  <2>1. Moves(p)
    BY <1>3, ShapesOfMoves, PointsList DEF Prepare, Lookup
  <2>2. QED
    BY <1>1, <1>3, <2>1, MovesLeaveAlone DEF Prepare, Lookup
<1>4. CASE Start(p) \/ Hit(p) \/ Write(p)
  <2>1. [proc[p].snap EXCEPT !.status = "running"] \in Row /\ Finished(proc[p].snap) \in Row
    BY <1>1 DEF Row, Finished, JobStatus, Terminal
  <2>2. Moves(p)
    BY <1>4, <2>1, ShapesOfMoves, PointsList DEF Start, Hit, Write, Commit
  <2>3. row'[j] = row[j]
    BY <1>4, CommitLeavesAlone DEF Start, Hit, Write, Commit
  <2>4. QED
    BY <1>1, <1>4, <2>2, <2>3, MovesLeaveAlone DEF Start, Hit, Write
<1>5. CASE AutoSave(p, "hitSave") \/ AutoSave(p, "autosave")
  <2>1. Moves(p)
    BY <1>5, ShapesOfMoves DEF AutoSave, Return
  <2>2. QED
    BY <1>1, <1>5, <2>1, MovesLeaveAlone DEF AutoSave
<1>6. CASE Screen(p)
  <2>1. "call" \in Points \ {"insert"} /\ "fail" \in Points \ {"insert"} /\ 1 \in Nat /\ 0 \in Nat
    BY PointsList
  <2>2. Moves(p)
    BY <1>6, <2>1, ScreenShape, ShapesOfMoves
  <2>3. QED
    BY <1>1, <1>6, <2>2, MovesLeaveAlone DEF Screen
<1>7. CASE CallAnswered(p) \/ CallLost(p) \/ CallFails(p)
  <2>1. PICK x \in {"call", "fail", "write"}, n, m, k \in Nat : Attempt(p, x, n, m, k)
    BY <1>7, CallIsAttempt
  <2>2. x \in Points \ {"insert"}
    BY PointsList
  <2>3. Moves(p)
    BY <2>1, <2>2, ShapesOfMoves
  <2>4. bought'[j] = bought[j]
    BY <1>1, <1>7 DEF CallAnswered, CallLost, CallFails, IInv, TypeOK
  <2>5. QED
    BY <1>1, <1>7, <2>3, <2>4, MovesLeaveAlone DEF CallAnswered, CallLost, CallFails
<1>8. CASE Publish(p)
  <2>1. Moves(p)
    BY <1>8, ShapesOfMoves, PointsList DEF Publish
  <2>2. QED
    BY <1>1, <1>8, <2>1, MovesLeaveAlone DEF Publish
<1>9. CASE MarkFailed(p)
  <2>1. Moves(p)
    BY <1>9, ShapesOfMoves DEF MarkFailed, Return
  <2>2. row'[j] = row[j]
    BY <1>9, CommitLeavesAlone DEF MarkFailed
  <2>3. QED
    BY <1>1, <1>9, <2>1, <2>2, MovesLeaveAlone DEF MarkFailed
<1>10. QED
  BY <1>2, <1>3, <1>4, <1>5, <1>6, <1>7, <1>8, <1>9 DEF Execute

LEMMA TakeLeavesAlone ==
    ASSUME IInv, NEW j \in Jobs, Quiet(j), NEW w \in Workers, Take(w)
    PROVE  LeftAlone(j)
<1>1. PICK i \in queue :
         /\ queue' = queue \ {i}
         /\ proc' = [proc EXCEPT ![w] = [Idle EXCEPT !.at = "load", !.job = i, !.via = "worker"]]
  BY DEF Take
<1>2. i # j /\ j \notin queue' /\ w \in Procs
  BY <1>1, NobodyHas DEF Procs
<1> DEFINE r == [Idle EXCEPT !.at = "load", !.job = i, !.via = "worker"]
<1>3. r.job = i /\ r.at = "load" /\ proc' = [proc EXCEPT ![w] = r]
  BY <1>1 DEF Idle
<1> HIDE DEF r
<1>4. row'[j] = row[j] /\ bought'[j] = bought[j]
  BY DEF Take
<1>5. QED
  BY <1>2, <1>3, <1>4, MoveLeavesAlone

LEMMA FaultLeavesAlone ==
    ASSUME IInv, NEW j \in Jobs, Quiet(j), Fault
    PROVE  LeftAlone(j)
<1>1. PICK p \in Procs : EnqueueFails(p) \/ Escape(p) \/ Caught(p) \/ Crash(p)
  BY DEF Fault, Procs
<1>2. Moves(p)
  BY <1>1, ShapesOfMoves, PointsList DEF EnqueueFails, Escape, Caught, Crash, Goto
<1>3. UNCHANGED <<row, queue>> /\ j \notin queue
  BY <1>1, NobodyHas DEF EnqueueFails, Escape, Caught, Crash
<1>4. bought'[j] = bought[j]
  BY <1>1, NobodyHas DEF EnqueueFails, Escape, Caught, Crash, IInv, TypeOK
<1>5. QED
  BY <1>2, <1>3, <1>4, MovesLeaveAlone

\* Once nobody has a job under way, its terminal row and its bill stay as they are
\* whatever is asked of the service and whatever fails (jobs.py cancel_job,
\* public.py submit_response, tasks.py process_job).
THEOREM SettledJobsStay == Spec => QuietTerminalIsFinal
<1>1. ASSUME IInv, [Next]_vars, NEW j \in Jobs, Quiet(j) PROVE LeftAlone(j)
  <2>1. CASE UNCHANGED vars
    BY <1>1, <2>1 DEF vars, LeftAlone, Quiet, Pending
  <2>2. CASE CacheExpire \/ Rest
    BY <1>1, <2>2 DEF CacheExpire, Rest, vars, LeftAlone, Quiet, Pending
  <2>3. QED
    BY <1>1, <2>1, <2>2, RequestLeavesAlone, HandleLeavesAlone, TakeLeavesAlone,
       ExecuteLeavesAlone, FaultLeavesAlone DEF Next
<1>2. IInv /\ [Next]_vars =>
         [\A j \in Jobs : row[j].status \in Terminal /\ ~Pending(j) =>
             row'[j] = row[j] /\ bought'[j] = bought[j] /\ ~Pending(j)']_vars
  BY <1>1 DEF Quiet, LeftAlone
<1>3. QED
  BY <1>2, Inductive, PTL DEF Spec, QuietTerminalIsFinal

-----------------------------------------------------------------------------
(* What a job is charged for.                                              *)

\* A key is never used for an inline response, the one request that runs a job some
\* other process may be running.
OneExecution == "respond" \in Ops => Keys = {}

\* A process in state r holds the one right to execute its job, from the INSERT to the
\* end of process_job.
BeforeCall == {"enqueue", "load", "start", "refresh", "prepare", "lookup", "hit", "screen"}
Running(r) == r.at \in ProcessJob \cup {"enqueue", "recover", "recoverRow"}

\* What a process may have been charged for when its counters are n, m and k.
Charge(n, m, k) == (n - 1) * PerRoute + (m - 1) * MaxRetries + k

\* How the bill of its job agrees with a process in state r.
BillOK(r, bill) ==
    /\ r.at \in BeforeCall => bill = 0
    /\ r.at = "call" => /\ r.route \in 1..Routes /\ r.round \in 1..Rounds /\ r.retry \in 0..MaxRetries
                        /\ bill <= Charge(r.route, r.round, r.retry)

\* The right to execute a job is an entry of the queue or a process, never two of them,
\* and nothing was charged before it is used.
BillInv ==
    /\ \A p \in Procs : proc[p].at = "insert" => \/ proc[p].via = "submit"
                                                 \/ proc[p].via = "inline" /\ "respond" \in Ops
    /\ \A p \in Procs : Running(proc[p]) =>
          proc[p].job \notin queue /\ BillOK(proc[p], bought[proc[p].job])
    /\ \A p, q \in Procs : Running(proc[p]) /\ Running(proc[q]) /\ proc[p].job = proc[q].job => p = q
    /\ \A j \in queue : bought[j] = 0
    /\ \A j \in Jobs : bought[j] <= Routes * PerRoute /\ (~Exists(j) => bought[j] = 0)

\* How the charge grows: by one with a retry, not at all with a round, and a route is
\* worth PerRoute.
LEMMA ChargeGrows ==
    ASSUME NEW n \in 1..Routes, NEW m \in 1..Rounds, NEW k \in 0..MaxRetries
    PROVE  /\ PerRoute \in Nat /\ Routes * PerRoute \in Nat
           /\ Charge(n, m, k) \in Nat /\ Charge(1, 1, 0) = 0
           /\ Charge(n, m, k + 1) = Charge(n, m, k) + 1
           /\ Charge(n, m, k) <= Charge(n, m + 1, 0)
           /\ Charge(n, m, k) + 1 <= Charge(n + 1, 1, 0)
           /\ Charge(n, m, k) + 1 <= Routes * PerRoute
<1> DEFINE rounds == Rounds * MaxRetries
           before == (m - 1) * MaxRetries
           routes == (n - 1) * PerRoute
<1>1. Routes \in Nat /\ Rounds \in Nat /\ MaxRetries \in Nat
  BY RoutesAssumption, RetriesAssumption
<1>2. \A a, b, c \in Nat : a <= b => a * c <= b * c
  OBVIOUS
<1>3. \A a, b \in Nat : a * b \in Nat
  OBVIOUS
<1>4. rounds \in Nat /\ before \in Nat
  BY <1>1, <1>3
<1>5. PerRoute = rounds + 1 /\ PerRoute \in Nat
  BY <1>4 DEF PerRoute
<1>6. m * MaxRetries \in Nat /\ m * MaxRetries = before + MaxRetries /\ m * MaxRetries <= rounds
  BY <1>1, <1>2, <1>3
<1>7. /\ routes \in Nat /\ n * PerRoute \in Nat /\ Routes * PerRoute \in Nat
      /\ n * PerRoute = routes + PerRoute /\ n * PerRoute <= Routes * PerRoute
  <2> HIDE DEF rounds
  <2>1. \A c \in Nat : n * c = (n - 1) * c + c
    OBVIOUS
  <2>2. n - 1 \in Nat /\ n \in Nat /\ n <= Routes
    OBVIOUS
  <2>3. QED
    BY <1>1, <1>2, <1>3, <1>5, <2>1, <2>2
<1>8. /\ Charge(n, m, k) = routes + before + k
      /\ Charge(n, m, k + 1) = routes + before + (k + 1)
      /\ Charge(n, m + 1, 0) = routes + m * MaxRetries
  BY <1>1, <1>4, <1>6, <1>7 DEF Charge
<1>9. Charge(n + 1, 1, 0) = n * PerRoute
  <2>1. (n + 1) - 1 = n /\ 1 - 1 = 0 /\ 0 * MaxRetries = 0
    BY <1>1
  <2>2. QED
    BY <1>7, <2>1 DEF Charge
<1>10. Charge(1, 1, 0) = 0
  <2>1. 1 - 1 = 0 /\ 0 * MaxRetries = 0 /\ 0 * PerRoute = 0
    BY <1>1, <1>5
  <2>2. QED
    BY <2>1 DEF Charge
<1> HIDE DEF rounds, before, routes
<1>11. QED
  BY <1>1, <1>4, <1>5, <1>6, <1>7, <1>8, <1>9, <1>10

\* A committed job stays committed.
LEMMA ExistsStays ==
    ASSUME IInv, [Next]_vars, NEW j \in Jobs, Exists(j)
    PROVE  Exists(j)'
<1>1. CASE UNCHANGED row
  BY <1>1 DEF Exists
<1>2. ASSUME NEW p \in Procs, proc[p].at \notin {"idle", "insert"}, NEW new \in Row,
             new.status = proc[p].snap.status \/ new.status # "absent",
             row' = [row EXCEPT ![proc[p].job] = Flush(new, proc[p].snap, @)]
      PROVE  Exists(j)'
  <2>1. row \in [Jobs -> Row] /\ proc[p].snap \in Row
    BY Mover DEF IInv, TypeOK, Process
  <2>2. CASE j = proc[p].job
    <3>1. row'[j] = Flush(new, proc[p].snap, row[j])
      BY <1>2, <2>1, <2>2
    <3>2. Flush(new, proc[p].snap, row[j]).status # "absent"
      BY <1>2, <2>1 DEF Flush, Column, Exists
    <3>3. QED
      BY <3>1, <3>2 DEF Exists
  <2>3. CASE j # proc[p].job
    BY <1>2, <2>1, <2>3 DEF Exists
  <2>4. QED
    BY <2>2, <2>3
<1>3. ASSUME NEW h \in Handlers, Insert(h) PROVE Exists(j)'
  BY <1>3 DEF Insert, Exists, IInv, TypeOK
<1>4. ASSUME NEW p \in Procs, Start(p) \/ Hit(p) \/ Write(p) \/ MarkFailed(p) \/ RecoverRow(p) \/ CancelRow(p)
      PROVE  Exists(j)'
  <2> DEFINE old == proc[p].snap
  <2>1. proc[p].at \notin {"idle", "insert"} /\ old \in Row
    BY <1>4, Mover DEF Start, Hit, Write, MarkFailed, RecoverRow, CancelRow, Process
  <2>2. PICK new \in {[old EXCEPT !.status = "running"], Finished(old), [old EXCEPT !.status = "failed"],
                      [old EXCEPT !.status = "canceled"], [old EXCEPT !.cancelRequested = TRUE]} :
           row' = [row EXCEPT ![proc[p].job] = Flush(new, old, @)]
    BY <1>4 DEF Start, Hit, Write, MarkFailed, RecoverRow, CancelRow, Commit
  <2>3. new \in Row /\ (new.status = old.status \/ new.status # "absent")
    BY <2>1, <2>2 DEF Row, Finished, JobStatus, Terminal
  <2>4. QED
    BY <1>2, <2>1, <2>2, <2>3
<1>5. CASE Next
  <2>1. ASSUME NEW h \in Handlers, Request(h) PROVE Exists(j)'
    BY <1>1, <2>1 DEF Request, StartCreate, SubmitReplay, RespondReplay, RespondQueued, StartCancel, SaveTraining
  <2>2. ASSUME NEW h \in Handlers, Handle(h) PROVE Exists(j)'
    BY <1>1, <1>3, <1>4, <2>2 DEF Handle, InsertConflict, Enqueue, Recover, Dequeue, Procs
  <2>3. ASSUME NEW p \in Procs, Execute(p) PROVE Exists(j)'
    BY <1>1, <1>4, <2>3 DEF Execute, Load, Refresh, Prepare, Lookup, HitRefresh, AutoSave, Screen, CallAnswered,
          CallLost, CallFails, Written, AfterCommit, Publish
  <2>4. ASSUME Fault PROVE Exists(j)'
    BY <1>1, <2>4 DEF Fault, EnqueueFails, Escape, Caught, Crash
  <2>5. ASSUME NEW w \in Workers, Take(w) PROVE Exists(j)'
    BY <1>1, <2>5 DEF Take
  <2>6. QED
    BY <1>1, <1>5, <2>1, <2>2, <2>3, <2>4, <2>5 DEF Next, CacheExpire, Rest, vars
<1>6. QED
  BY <1>1, <1>5 DEF vars

\* What an owner of the right to execute knows.
LEMMA Runner ==
    ASSUME IInv, BillInv, NEW p \in Procs, Running(proc[p])
    PROVE  /\ proc[p] \in Process /\ proc[p].job \in Jobs /\ Exists(proc[p].job)
           /\ proc[p].job \notin queue /\ bought[proc[p].job] \in Nat
           /\ BillOK(proc[p], bought[proc[p].job])
<1>1. proc[p].at \notin {"idle", "insert"}
  BY DEF Running, ProcessJob, Unprotected, Protected
<1>2. QED
  BY <1>1, Mover DEF BillInv, IInv, TypeOK

\* One process moves: the others keep their rights and their bills.
LEMMA BillMove ==
    ASSUME IInv, BillInv, NEW p \in Procs, NEW r, proc' = [proc EXCEPT ![p] = r],
           r.at = "insert" => r.via = "submit" \/ (r.via = "inline" /\ "respond" \in Ops),
           Running(r) => /\ r.job \notin queue' /\ BillOK(r, bought'[r.job])
                         /\ \A q \in Procs : q # p /\ Running(proc[q]) => proc[q].job # r.job,
           \A q \in Procs : q # p /\ Running(proc[q]) =>
               proc[q].job \notin queue' /\ bought'[proc[q].job] = bought[proc[q].job],
           \A j \in queue' : bought'[j] = 0,
           \A j \in Jobs : bought'[j] <= Routes * PerRoute /\ (~Exists(j)' => bought'[j] = 0)
    PROVE  BillInv'
<1>1. proc'[p] = r /\ \A q \in Procs : q # p => proc'[q] = proc[q]
  BY DEF IInv, TypeOK
<1>2. ASSUME NEW q \in Procs
      PROVE  /\ proc'[q].at = "insert" => \/ proc'[q].via = "submit"
                                          \/ proc'[q].via = "inline" /\ "respond" \in Ops
             /\ Running(proc'[q]) => proc'[q].job \notin queue' /\ BillOK(proc'[q], bought'[proc'[q].job])
  BY <1>1 DEF BillInv
<1>3. ASSUME NEW q1 \in Procs, NEW q2 \in Procs,
             Running(proc'[q1]), Running(proc'[q2]), proc'[q1].job = proc'[q2].job
      PROVE  q1 = q2
  BY <1>1, <1>3 DEF BillInv
<1>4. QED
  BY <1>2, <1>3 DEF BillInv, Running, BillOK

\* The mover keeps its right and may pay, or gives it up; the queue may lose entries.
LEMMA BillGoesOn ==
    ASSUME IInv, BillInv, NEW p \in Procs, NEW r, proc' = [proc EXCEPT ![p] = r],
           r.at # "insert", queue' \subseteq queue,
           NEW b \in Nat, b <= Routes * PerRoute,
           bought' = bought \/ (Running(proc[p]) /\ bought' = [bought EXCEPT ![proc[p].job] = b]),
           Running(r) => Running(proc[p]) /\ r.job = proc[p].job /\ BillOK(r, bought'[r.job]),
           \A j \in Jobs : Exists(j) => Exists(j)'
    PROVE  BillInv'
<1>1. \A j \in Jobs : \/ bought'[j] = bought[j]
                      \/ Running(proc[p]) /\ j = proc[p].job /\ bought'[j] = b
  BY DEF IInv, TypeOK
<1>2. queue \subseteq Jobs
  BY DEF IInv, TypeOK
<1>3. ASSUME NEW q \in Procs, q # p, Running(proc[q])
      PROVE  /\ proc[q].job \notin queue' /\ bought'[proc[q].job] = bought[proc[q].job]
             /\ Running(proc[p]) => proc[q].job # proc[p].job
  <2>1. proc[q].job \in Jobs /\ proc[q].job \notin queue
    BY <1>3, Runner
  <2>2. Running(proc[p]) => proc[q].job # proc[p].job
    BY <1>3 DEF BillInv
  <2>3. QED
    BY <1>1, <2>1, <2>2
<1>4. \A j \in queue' : bought'[j] = 0
  BY <1>1, <1>2, Runner DEF BillInv
<1>5. \A j \in Jobs : bought'[j] <= Routes * PerRoute /\ (~Exists(j)' => bought'[j] = 0)
  BY <1>1, Runner DEF BillInv
<1>6. Running(r) => r.job \notin queue'
  BY Runner
<1>7. QED
  BY <1>3, <1>4, <1>5, <1>6, BillMove

\* The mover goes on to a point other than the call, and pays nothing.
LEMMA BillOnward ==
    ASSUME IInv, BillInv, NEW p \in Procs, NEW r, proc' = [proc EXCEPT ![p] = r],
           r.at \notin {"insert", "call"}, queue' \subseteq queue, UNCHANGED bought,
           Running(r) => Running(proc[p]) /\ r.job = proc[p].job,
           r.at \in BeforeCall => proc[p].at \in BeforeCall,
           \A j \in Jobs : Exists(j) => Exists(j)'
    PROVE  BillInv'
<1>1. "call" \notin BeforeCall
  BY DEF BeforeCall
<1>2. Running(r) => Running(proc[p]) /\ r.job = proc[p].job /\ BillOK(r, bought'[r.job])
  BY <1>1, Runner DEF BillOK
<1>3. 0 \in Nat /\ 0 <= Routes * PerRoute
  <2>1. 1 \in 1..Routes /\ 1 \in 1..Rounds /\ 0 \in 0..MaxRetries
    BY RoutesAssumption, RetriesAssumption
  <2>2. QED
    BY <2>1, ChargeGrows
<1>4. r.at # "insert" /\ bought' = bought
  OBVIOUS
<1>5. QED
  BY <1>2, <1>3, <1>4, BillGoesOn

\* The moves of Goto, of a read and of a return, for BillOnward.
LEMMA GotoShape ==
    ASSUME IInv, NEW p \in Procs, NEW x, Goto(p, x)
    PROVE  \E r : proc' = [proc EXCEPT ![p] = r] /\ r.at = x /\ r.job = proc[p].job
<1> DEFINE r == [proc[p] EXCEPT !.at = x]
<1>1. proc' = [proc EXCEPT ![p] = r] /\ r.at = x /\ r.job = proc[p].job
  BY DEF Goto, Process, IInv, TypeOK
<1> HIDE DEF r
<1>2. QED
  BY <1>1

LEMMA ReadShape ==
    ASSUME IInv, NEW p \in Procs, NEW x, NEW s, proc' = [proc EXCEPT ![p].at = x, ![p].snap = s]
    PROVE  \E r : proc' = [proc EXCEPT ![p] = r] /\ r.at = x /\ r.job = proc[p].job
<1> DEFINE r == [proc[p] EXCEPT !.at = x, !.snap = s]
<1>1. proc' = [proc EXCEPT ![p] = r] /\ r.at = x /\ r.job = proc[p].job
  BY DEF Process, IInv, TypeOK
<1> HIDE DEF r
<1>2. QED
  BY <1>1

LEMMA IdleRunsNothing == ~Running(Idle) /\ Idle.at = "idle" /\ "idle" \notin BeforeCall
BY DEF Running, Idle, ProcessJob, Unprotected, Protected, BeforeCall

LEMMA RequestBill ==
    ASSUME IInv, BillInv, OneExecution, NEW h \in Handlers, Request(h),
           \A j \in Jobs : Exists(j) => Exists(j)'
    PROVE  BillInv'
<1>1. h \in Procs /\ ~Running(Idle) /\ Idle.at = "idle" /\ "idle" \notin BeforeCall
  BY IdleRunsNothing DEF Procs
<1>2. ASSUME NEW k \in Keys \cup {NoKey}, NEW op, NEW via, StartCreate(h, k, op, via),
             via = "submit" \/ (via = "inline" /\ op = "respond")
      PROVE  BillInv'
  <2> DEFINE r == [Idle EXCEPT !.at = "insert", !.key = k, !.via = via]
  <2>1. r.at = "insert" /\ r.via = via /\ ~Running(r)
    BY DEF Idle, Running, ProcessJob, Unprotected, Protected
  <2>2. proc' = [proc EXCEPT ![h] = r] /\ op \in Ops /\ UNCHANGED <<row, queue, bought>>
    BY <1>2 DEF StartCreate, Accept
  <2> HIDE DEF r
  <2>3. \A j \in Jobs : bought'[j] <= Routes * PerRoute /\ (~Exists(j)' => bought'[j] = 0)
    BY <2>2 DEF BillInv
  <2>4. QED
    BY <1>1, <1>2, <2>1, <2>2, <2>3, BillMove DEF BillInv
<1>3. ASSUME NEW k \in Keys \cup {NoKey}, SubmitReplay(h, k) PROVE BillInv'
  BY <1>1, <1>3, BillOnward DEF SubmitReplay, Answer
<1>4. ASSUME NEW k \in Keys \cup {NoKey}, RespondReplay(h, k) \/ RespondQueued(h, k) PROVE FALSE
  BY <1>4 DEF RespondReplay, RespondQueued, Accept, OneExecution, Holders
<1>5. ASSUME NEW j \in Jobs, StartCancel(h, j), row[j].status \notin Terminal PROVE BillInv'
  <2> DEFINE r == [Idle EXCEPT !.at = IF row[j].status = "queued" THEN "dequeue" ELSE "cancelRow",
                               !.job = j, !.via = "cancel", !.snap = row[j]]
  <2>1. r.at \in {"dequeue", "cancelRow"} /\ proc' = [proc EXCEPT ![h] = r]
        /\ UNCHANGED <<queue, bought>>
    BY <1>5 DEF Idle, StartCancel
  <2> HIDE DEF r
  <2>2. ~Running(r) /\ r.at \notin {"insert", "call"} /\ r.at \notin BeforeCall
    BY <2>1 DEF Running, ProcessJob, Unprotected, Protected, BeforeCall
  <2>3. QED
    BY <1>1, <2>1, <2>2, BillOnward
<1>6. ASSUME UNCHANGED <<row, queue, bought, proc>> PROVE BillInv'
  BY <1>6 DEF BillInv, Exists
<1>7. ASSUME NEW j \in Jobs, StartCancel(h, j), row[j].status \in Terminal PROVE BillInv'
  BY <1>6, <1>7 DEF StartCancel
<1>8. ASSUME NEW j \in Jobs, SaveTraining(h, j) PROVE BillInv'
  BY <1>6, <1>8 DEF SaveTraining
<1>9. ASSUME NEW k \in Keys \cup {NoKey}, StartCreate(h, k, "submit", "submit") PROVE BillInv'
  BY <1>2, <1>9
<1>10. ASSUME NEW k \in Keys \cup {NoKey}, StartCreate(h, k, "respond", "inline") PROVE BillInv'
  BY <1>2, <1>10
<1>11. QED
  BY <1>3, <1>4, <1>5, <1>7, <1>8, <1>9, <1>10 DEF Request

LEMMA InsertBill ==
    ASSUME IInv, BillInv, NEW h \in Handlers, Insert(h), \A j \in Jobs : Exists(j) => Exists(j)'
    PROVE  BillInv'
<1> DEFINE next == IF proc[h].via = "submit" THEN "enqueue" ELSE "load"
<1>1. PICK i \in Jobs : /\ ~Exists(i)
                       /\ row' = [row EXCEPT ![i] = [NoRow EXCEPT !.status = "queued", !.key = proc[h].key]]
                       /\ proc' = [proc EXCEPT ![h].at = next, ![h].job = i]
  BY DEF Insert
<1> DEFINE r == [proc[h] EXCEPT !.at = next, !.job = i]
<1>2. /\ h \in Procs /\ proc[h] \in Process /\ UNCHANGED <<queue, bought>> /\ bought[i] = 0
      /\ i \notin queue
  BY <1>1, Mover DEF Insert, Procs, BillInv, IInv, RedisOK, Exists
<1>3. r.at \in {"enqueue", "load"} /\ r.job = i /\ proc' = [proc EXCEPT ![h] = r]
  BY <1>1, <1>2 DEF Process
<1> HIDE DEF r
<1>4. BillOK(r, bought'[r.job])
  BY <1>2, <1>3 DEF BillOK
<1>5. \A q \in Procs : q # h /\ Running(proc[q]) => proc[q].job # r.job /\ proc[q].job \notin queue'
  BY <1>1, <1>2, <1>3, Runner
<1>6. QED
  BY <1>2, <1>3, <1>4, <1>5, BillMove DEF BillInv

LEMMA EnqueueBill ==
    ASSUME IInv, BillInv, NEW h \in Handlers, Enqueue(h)
    PROVE  BillInv'
<1>1. /\ h \in Procs /\ Running(proc[h]) /\ proc[h].at \in BeforeCall
      /\ proc' = [proc EXCEPT ![h] = Idle] /\ queue' = queue \cup {proc[h].job} /\ UNCHANGED <<row, bought>>
  BY DEF Enqueue, Answer, Procs, Running, BeforeCall
<1>2. bought[proc[h].job] = 0
  BY <1>1, Runner DEF BillOK
<1>3. \A q \in Procs : q # h /\ Running(proc[q]) => proc[q].job \notin queue'
  BY <1>1, Runner DEF BillInv
<1>4. ~Running(Idle) /\ Idle.at = "idle"
  BY IdleRunsNothing
<1>5. \A j \in Jobs : bought'[j] <= Routes * PerRoute /\ (~Exists(j)' => bought'[j] = 0)
  BY <1>1 DEF BillInv, Exists
<1>6. QED
  BY <1>1, <1>2, <1>3, <1>4, <1>5, BillMove DEF BillInv

LEMMA TakeBill ==
    ASSUME IInv, BillInv, NEW w \in Workers, Take(w)
    PROVE  BillInv'
<1>1. PICK i \in queue :
         /\ queue' = queue \ {i}
         /\ proc' = [proc EXCEPT ![w] = [Idle EXCEPT !.at = "load", !.job = i, !.via = "worker"]]
  BY DEF Take
<1> DEFINE r == [Idle EXCEPT !.at = "load", !.job = i, !.via = "worker"]
<1>2. r.at = "load" /\ r.job = i /\ proc' = [proc EXCEPT ![w] = r]
  BY <1>1 DEF Idle
<1> HIDE DEF r
<1>3. w \in Procs /\ UNCHANGED <<row, bought>> /\ bought[i] = 0
  BY DEF Take, Procs, BillInv
<1>4. BillOK(r, bought'[r.job]) /\ r.job \notin queue'
  BY <1>1, <1>2, <1>3 DEF BillOK
<1>5. \A q \in Procs : q # w /\ Running(proc[q]) => proc[q].job # r.job /\ proc[q].job \notin queue'
  BY <1>1, <1>2, Runner
<1>6. \A j \in Jobs : bought'[j] <= Routes * PerRoute /\ (~Exists(j)' => bought'[j] = 0)
  BY <1>3 DEF BillInv, Exists
<1>7. QED
  BY <1>1, <1>2, <1>3, <1>4, <1>5, <1>6, BillMove DEF BillInv

LEMMA HandleBill ==
    ASSUME IInv, BillInv, OneExecution, NEW h \in Handlers, Handle(h),
           \A j \in Jobs : Exists(j) => Exists(j)'
    PROVE  BillInv'
<1>1. h \in Procs /\ ~Running(Idle) /\ Idle.at = "idle" /\ "idle" \notin BeforeCall
      /\ proc[h] \in Process
  BY IdleRunsNothing, Mover DEF Procs
<1>2. CASE InsertConflict(h)
  <2>1. Holders(proc[h].key) # {} /\ proc[h].at = "insert" /\ proc[h].key \in Keys \cup {NoKey}
    BY <1>1, <1>2 DEF InsertConflict, Process
  <2>2. proc[h].via = "submit"
    BY <1>1, <2>1 DEF BillInv, OneExecution, Holders
  <2>3. proc' = [proc EXCEPT ![h] = Idle] /\ UNCHANGED <<queue, bought>>
    BY <1>2, <2>2 DEF InsertConflict, Answer
  <2>4. QED
    BY <1>1, <2>3, BillOnward
<1>3. CASE Recover(h)
  <2>1. UNCHANGED <<queue, bought>> /\ Running(proc[h])
    BY <1>3 DEF Recover, Running
  <2>2. CASE proc' = [proc EXCEPT ![h] = Idle]
    BY <1>1, <2>1, <2>2, BillOnward
  <2>3. CASE proc' = [proc EXCEPT ![h].at = "recoverRow", ![h].snap = row[proc[h].job]]
    <3> DEFINE r == [proc[h] EXCEPT !.at = "recoverRow", !.snap = row[proc[h].job]]
    <3>1. r.at = "recoverRow" /\ r.job = proc[h].job /\ proc' = [proc EXCEPT ![h] = r]
      BY <1>1, <2>3 DEF Process
    <3> HIDE DEF r
    <3>2. r.at \notin {"insert", "call"} /\ r.at \notin BeforeCall
      BY <3>1 DEF BeforeCall
    <3>3. QED
      BY <1>1, <2>1, <3>1, <3>2, BillOnward
  <2>4. QED
    BY <1>3, <2>2, <2>3 DEF Recover
<1>4. CASE RecoverRow(h) \/ CancelRow(h)
  <2>1. proc' = [proc EXCEPT ![h] = Idle] /\ UNCHANGED <<queue, bought>>
    BY <1>4 DEF RecoverRow, CancelRow
  <2>2. QED
    BY <1>1, <2>1, BillOnward
<1>5. CASE Dequeue(h)
  <2>1. PICK r : proc' = [proc EXCEPT ![h] = r] /\ r.at = "cancelRow" /\ r.job = proc[h].job
    BY <1>1, <1>5, GotoShape DEF Dequeue
  <2>2. queue' \subseteq queue /\ UNCHANGED bought
    BY <1>5 DEF Dequeue
  <2>3. ~Running(r) /\ r.at \notin BeforeCall
    BY <2>1 DEF Running, ProcessJob, Unprotected, Protected, BeforeCall
  <2>4. QED
    BY <1>1, <2>1, <2>2, <2>3, BillOnward
<1>6. QED
  BY <1>2, <1>3, <1>4, <1>5, InsertBill, EnqueueBill DEF Handle

\* A process goes on to a point other than the call with the right it has, or gives it up.
Onward(p) ==
    \E r : /\ proc' = [proc EXCEPT ![p] = r]
           /\ r.at \notin {"insert", "call"}
           /\ Running(r) => Running(proc[p]) /\ r.job = proc[p].job
           /\ r.at \in BeforeCall => proc[p].at \in BeforeCall

\* A step of process_job other than the calls goes on in this way.
LEMMA OnwardShapes ==
    ASSUME IInv, NEW p \in Procs, proc[p].at \in ProcessJob \ {"call"}
    PROVE  /\ proc' = [proc EXCEPT ![p] = Idle] => Onward(p)
           /\ \A x \in ProcessJob \ {"call"} :
                 (x \in BeforeCall => proc[p].at \in BeforeCall)
                 => /\ Goto(p, x) => Onward(p)
                    /\ \A s : proc' = [proc EXCEPT ![p].at = x, ![p].snap = s] => Onward(p)
<1>1. Running(proc[p]) /\ proc[p] \in Process
  BY DEF Running, IInv, TypeOK
<1>2. proc' = [proc EXCEPT ![p] = Idle] => Onward(p)
  BY IdleRunsNothing DEF Onward
<1>3. ASSUME NEW x \in ProcessJob \ {"call"}, x \in BeforeCall => proc[p].at \in BeforeCall, NEW r,
             proc' = [proc EXCEPT ![p] = r], r.at = x, r.job = proc[p].job
      PROVE  Onward(p)
  BY <1>1, <1>3 DEF Onward, ProcessJob, Unprotected, Protected
<1>4. ASSUME NEW x \in ProcessJob \ {"call"}, x \in BeforeCall => proc[p].at \in BeforeCall, Goto(p, x)
      PROVE  Onward(p)
  <2>1. PICK r : proc' = [proc EXCEPT ![p] = r] /\ r.at = x /\ r.job = proc[p].job
    BY <1>4, GotoShape
  <2>2. QED
    BY <1>3, <1>4, <2>1
<1>5. ASSUME NEW x \in ProcessJob \ {"call"}, x \in BeforeCall => proc[p].at \in BeforeCall, NEW s,
             proc' = [proc EXCEPT ![p].at = x, ![p].snap = s]
      PROVE  Onward(p)
  <2>1. PICK r : proc' = [proc EXCEPT ![p] = r] /\ r.at = x /\ r.job = proc[p].job
    BY <1>5, ReadShape
  <2>2. QED
    BY <1>3, <1>5, <2>1
<1>6. QED
  BY <1>2, <1>4, <1>5

LEMMA OnwardBill ==
    ASSUME IInv, BillInv, NEW p \in Procs, Onward(p), queue' \subseteq queue, UNCHANGED bought,
           \A j \in Jobs : Exists(j) => Exists(j)'
    PROVE  BillInv'
<1>1. PICK r : /\ proc' = [proc EXCEPT ![p] = r]
               /\ r.at \notin {"insert", "call"}
               /\ Running(r) => Running(proc[p]) /\ r.job = proc[p].job
               /\ r.at \in BeforeCall => proc[p].at \in BeforeCall
  BY DEF Onward
<1>2. QED
  BY <1>1, BillOnward

LEMMA ScreenBill ==
    ASSUME IInv, BillInv, NEW p \in Procs, Screen(p), \A j \in Jobs : Exists(j) => Exists(j)'
    PROVE  BillInv'
<1>1. proc[p].at = "screen" /\ UNCHANGED <<row, queue, bought>>
  BY DEF Screen
<1>2. Running(proc[p]) /\ proc[p].at \in BeforeCall /\ proc[p].at \in ProcessJob \ {"call"}
  BY <1>1 DEF Running, BeforeCall, ProcessJob, Unprotected
<1>3. CASE Goto(p, "fail")
  <2>1. "fail" \in ProcessJob \ {"call"}
    BY DEF ProcessJob, Unprotected
  <2>2. QED
    BY <1>1, <1>2, <1>3, <2>1, OnwardShapes, OnwardBill
<1>4. CASE Attempt(p, "call", 1, 1, 0)
  <2> DEFINE r == [proc[p] EXCEPT !.at = "call", !.route = 1, !.round = 1, !.retry = 0]
  <2>1. /\ r.at = "call" /\ r.job = proc[p].job /\ r.route = 1 /\ r.round = 1 /\ r.retry = 0
        /\ proc' = [proc EXCEPT ![p] = r]
    BY <1>2, <1>4, Runner DEF Attempt, Process
  <2> HIDE DEF r
  <2>2. 1 \in 1..Routes /\ 1 \in 1..Rounds /\ 0 \in 0..MaxRetries
    BY RoutesAssumption, RetriesAssumption
  <2>3. Charge(1, 1, 0) = 0 /\ bought[proc[p].job] = 0
    BY <1>2, <2>2, ChargeGrows, Runner DEF BillOK
  <2>4. BillOK(r, bought'[r.job])
    BY <1>1, <2>1, <2>2, <2>3 DEF BillOK, BeforeCall
  <2>5. 0 \in Nat /\ 0 <= Routes * PerRoute
    BY <2>2, ChargeGrows
  <2>6. QED
    BY <1>1, <1>2, <2>1, <2>4, <2>5, BillGoesOn
<1>5. QED
  BY <1>3, <1>4, ScreenShape

\* A request charged or not, and what follows it.
LEMMA CallBill ==
    ASSUME IInv, BillInv, NEW p \in Procs, CallAnswered(p) \/ CallLost(p) \/ CallFails(p),
           \A j \in Jobs : Exists(j) => Exists(j)'
    PROVE  BillInv'
<1> DEFINE j == proc[p].job
           n == proc[p].route
           m == proc[p].round
           k == proc[p].retry
<1>1. proc[p].at = "call" /\ UNCHANGED <<row, queue>>
  BY DEF CallAnswered, CallLost, CallFails
<1>2. Running(proc[p]) /\ proc[p] \in Process /\ j \in Jobs /\ bought[j] \in Nat
  BY <1>1, Runner DEF Running, ProcessJob
<1>3. /\ n \in 1..Routes /\ m \in 1..Rounds /\ k \in 0..MaxRetries
      /\ bought[j] <= Charge(n, m, k)
  BY <1>1, <1>2, Runner DEF BillOK
<1>4. /\ Routes * PerRoute \in Nat /\ Charge(n, m, k) \in Nat
      /\ Charge(n, m, k + 1) = Charge(n, m, k) + 1
      /\ Charge(n, m, k) <= Charge(n, m + 1, 0)
      /\ Charge(n, m, k) + 1 <= Charge(n + 1, 1, 0)
      /\ Charge(n, m, k) + 1 <= Routes * PerRoute
  BY <1>3, ChargeGrows
<1>5. ASSUME NEW x \in {"call", "fail", "write"}, NEW n1, NEW m1, NEW k1, Attempt(p, x, n1, m1, k1),
             NEW b \in {bought[j], bought[j] + 1}, bought' = [bought EXCEPT ![j] = b],
             x = "call" => /\ n1 \in 1..Routes /\ m1 \in 1..Rounds /\ k1 \in 0..MaxRetries
                           /\ b <= Charge(n1, m1, k1)
      PROVE  BillInv'
  <2> DEFINE r == [proc[p] EXCEPT !.at = x, !.route = n1, !.round = m1, !.retry = k1]
  <2>1. /\ r.at = x /\ r.job = j /\ r.route = n1 /\ r.round = m1 /\ r.retry = k1
        /\ proc' = [proc EXCEPT ![p] = r]
    BY <1>2, <1>5 DEF Attempt, Process
  <2> HIDE DEF r
  <2>2. b \in Nat /\ b <= Routes * PerRoute
    BY <1>2, <1>3, <1>4
  <2>3. bought'[j] = b
    BY <1>2, <1>5 DEF IInv, TypeOK
  <2>4. BillOK(r, bought'[r.job]) /\ r.at # "insert"
    BY <1>5, <2>1, <2>3 DEF BillOK, BeforeCall
  <2>5. Running(proc[p]) /\ bought' = [bought EXCEPT ![proc[p].job] = b] /\ queue' \subseteq queue
        /\ r.job = proc[p].job
    BY <1>1, <1>2, <1>5, <2>1
  <2> HIDE DEF j, n, m, k
  <2>6. QED
    BY <2>1, <2>2, <2>4, <2>5, BillGoesOn
<1>6. /\ bought[j] <= Charge(n, m + 1, 0) /\ bought[j] + 1 <= Charge(n + 1, 1, 0)
      /\ bought[j] + 1 <= Charge(n, m, k + 1) /\ bought[j] <= Charge(n, m, k + 1)
      /\ bought[j] <= Charge(n + 1, 1, 0)
      /\ Charge(n, m + 1, 0) \in Nat /\ Charge(n + 1, 1, 0) \in Nat
  <2>1. Charge(n, m + 1, 0) \in Nat /\ Charge(n + 1, 1, 0) \in Nat
    <3>1. PerRoute \in Nat
      BY <1>3, ChargeGrows
    <3>2. \A a, c \in Nat : a * c \in Nat
      OBVIOUS
    <3>3. /\ n - 1 \in Nat /\ (n + 1) - 1 \in Nat /\ (m + 1) - 1 \in Nat /\ 1 - 1 \in Nat /\ 0 \in Nat
          /\ MaxRetries \in Nat
      BY <1>3, RetriesAssumption
    <3>4. \A a, c, d \in Nat : a + c + d \in Nat
      OBVIOUS
    <3>5. QED
      BY <3>1, <3>2, <3>3, <3>4 DEF Charge
  <2> DEFINE c0 == Charge(n, m, k)
             c1 == Charge(n, m + 1, 0)
             c2 == Charge(n + 1, 1, 0)
             c3 == Charge(n, m, k + 1)
  <2>2. /\ c0 \in Nat /\ c1 \in Nat /\ c2 \in Nat /\ c3 = c0 + 1 /\ c0 <= c1 /\ c0 + 1 <= c2
        /\ bought[j] <= c0
    BY <1>3, <1>4, <2>1
  <2> HIDE DEF c0, c1, c2, c3
  <2>3. bought[j] <= c1 /\ bought[j] + 1 <= c2 /\ bought[j] + 1 <= c3 /\ bought[j] <= c3 /\ bought[j] <= c2
    BY <1>2, <2>2
  <2>4. QED
    BY <2>1, <2>3 DEF c1, c2, c3
<1>7. ASSUME NEW b \in {bought[j], bought[j] + 1}, bought' = [bought EXCEPT ![j] = b],
             Leave(p, "write") \/ NextRoute(p) \/ Resend(p)
      PROVE  BillInv'
  <2>1. CASE Attempt(p, "write", 0, 0, 0) \/ Attempt(p, "fail", 0, 0, 0)
    BY <1>5, <1>7, <2>1
  <2>2. CASE n < Routes /\ Attempt(p, "call", n + 1, 1, 0)
    <3>1. n + 1 \in 1..Routes /\ 1 \in 1..Rounds /\ 0 \in 0..MaxRetries
      BY <1>3, <2>2, RoutesAssumption, RetriesAssumption
    <3>2. b <= Charge(n + 1, 1, 0)
      BY <1>6, <1>7
    <3>3. QED
      BY <1>5, <1>7, <2>2, <3>1, <3>2
  <2>3. CASE k < MaxRetries /\ Attempt(p, "call", n, m, k + 1)
    <3>1. k + 1 \in 0..MaxRetries
      BY <1>3, <2>3, RetriesAssumption
    <3>2. b <= Charge(n, m, k + 1)
      BY <1>6, <1>7
    <3>3. QED
      BY <1>3, <1>5, <1>7, <2>3, <3>1, <3>2
  <2>4. QED
    BY <1>1, <1>7, <2>1, <2>2, <2>3, AttemptShapes
<1>8. ASSUME DropParameter(p), bought' = bought PROVE BillInv'
  <2>1. m < Rounds /\ Attempt(p, "call", n, m + 1, 0)
    BY <1>1, <1>8, AttemptShapes
  <2>2. m + 1 \in 1..Rounds /\ 0 \in 0..MaxRetries
    BY <1>3, <2>1, RetriesAssumption
  <2>3. bought' = [bought EXCEPT ![j] = bought[j]]
    BY <1>8 DEF IInv, TypeOK
  <2>4. QED
    BY <1>3, <1>5, <1>6, <2>1, <2>2, <2>3
<1>9. CASE CallAnswered(p) \/ CallLost(p)
  <2>1. /\ bought' = [bought EXCEPT ![j] = bought[j] + 1]
        /\ Leave(p, "write") \/ NextRoute(p) \/ Resend(p)
    BY <1>9 DEF CallAnswered, CallLost
  <2>2. QED
    BY <1>7, <2>1
<1>10. CASE CallFails(p)
  <2>1. /\ bought' = [bought EXCEPT ![j] = bought[j]] /\ bought' = bought
        /\ Resend(p) \/ DropParameter(p) \/ NextRoute(p)
    BY <1>10 DEF CallFails, IInv, TypeOK
  <2>2. QED
    BY <1>7, <1>8, <2>1
<1>11. QED
  BY <1>9, <1>10

LEMMA ExecuteBill ==
    ASSUME IInv, BillInv, NEW p \in Procs, Execute(p), \A j \in Jobs : Exists(j) => Exists(j)'
    PROVE  BillInv'
<1>1. /\ BeforeCall \subseteq ProcessJob \cup {"enqueue"}
      /\ {"start", "prepare", "lookup", "hit", "screen", "refresh", "hitRefresh", "hitSave", "fail",
          "written", "publish", "autosave"} \subseteq ProcessJob \ {"call"}
      /\ {"hitRefresh", "hitSave", "fail", "written", "publish", "autosave"} \cap BeforeCall = {}
      /\ {"load", "start", "refresh", "prepare", "lookup", "hit"} \subseteq BeforeCall
      /\ {"load", "write"} \subseteq ProcessJob \ {"call"}
  BY DEF BeforeCall, ProcessJob, Unprotected, Protected
<1>2. ASSUME proc[p].at \in ProcessJob \ {"call"}, UNCHANGED bought, UNCHANGED queue, Onward(p)
      PROVE  BillInv'
  BY <1>2, OnwardBill
<1>3. CASE Load(p)
  BY <1>1, <1>2, <1>3, OnwardShapes DEF Load, Return
<1>4. CASE Start(p)
  BY <1>1, <1>2, <1>4, OnwardShapes DEF Start, Commit
<1>5. CASE Refresh(p) \/ Prepare(p)
  BY <1>1, <1>2, <1>5, OnwardShapes DEF Refresh, Prepare
<1>6. CASE Lookup(p)
  BY <1>1, <1>2, <1>6, OnwardShapes DEF Lookup
<1>7. CASE Hit(p) \/ Write(p)
  BY <1>1, <1>2, <1>7, OnwardShapes DEF Hit, Write, Commit
<1>8. CASE HitRefresh(p) \/ Written(p)
  BY <1>1, <1>2, <1>8, OnwardShapes DEF HitRefresh, Written, AfterCommit, Return
<1>9. CASE AutoSave(p, "hitSave") \/ AutoSave(p, "autosave")
  BY <1>1, <1>2, <1>9, OnwardShapes DEF AutoSave, Return
<1>10. CASE Publish(p)
  BY <1>1, <1>2, <1>10, OnwardShapes DEF Publish
<1>11. CASE MarkFailed(p)
  BY <1>1, <1>2, <1>11, OnwardShapes DEF MarkFailed, Return
<1>12. QED
  BY <1>3, <1>4, <1>5, <1>6, <1>7, <1>8, <1>9, <1>10, <1>11, ScreenBill, CallBill DEF Execute

LEMMA FaultBill ==
    ASSUME IInv, BillInv, Fault, \A j \in Jobs : Exists(j) => Exists(j)'
    PROVE  BillInv'
<1>1. /\ ~Running(Idle) /\ Idle.at = "idle" /\ Idle.at \notin {"insert", "call"}
      /\ "idle" \notin BeforeCall
  BY IdleRunsNothing
<1>2. ASSUME NEW h \in Handlers, EnqueueFails(h) PROVE BillInv'
  BY <1>1, <1>2, BillOnward DEF EnqueueFails, Procs
<1>3. ASSUME NEW p \in Procs, Escape(p) PROVE BillInv'
  <2>1. /\ UNCHANGED <<queue, bought>> /\ Running(proc[p])
        /\ proc' = [proc EXCEPT ![p] = Idle] \/ Goto(p, "recover")
    BY <1>3 DEF Escape, Running, ProcessJob, Goto
  <2>2. CASE proc' = [proc EXCEPT ![p] = Idle]
    BY <1>1, <2>1, <2>2, BillOnward
  <2>3. CASE Goto(p, "recover")
    <3>1. PICK r : proc' = [proc EXCEPT ![p] = r] /\ r.at = "recover" /\ r.job = proc[p].job
      BY <2>3, GotoShape
    <3>2. r.at \notin {"insert", "call"} /\ r.at \notin BeforeCall
      BY <3>1 DEF BeforeCall
    <3>3. QED
      BY <2>1, <3>1, <3>2, BillOnward
  <2>4. QED
    BY <2>1, <2>2, <2>3
<1>4. ASSUME NEW p \in Procs, Caught(p) PROVE BillInv'
  <2>1. /\ proc[p].at \in ProcessJob \ {"call"} /\ "fail" \in ProcessJob \ {"call"}
        /\ "fail" \notin BeforeCall /\ UNCHANGED <<queue, bought>>
    BY <1>4 DEF Caught, ProcessJob, Unprotected, Protected, BeforeCall
  <2>2. QED
    BY <1>4, <2>1, OnwardShapes, OnwardBill DEF Caught
<1>5. ASSUME NEW p \in Procs, Crash(p) PROVE BillInv'
  <2>1. proc' = [proc EXCEPT ![p] = Idle] /\ UNCHANGED <<row, queue>>
    BY <1>5 DEF Crash
  <2>2. CASE UNCHANGED bought
    BY <1>1, <2>1, <2>2, BillOnward
  <2>3. CASE proc[p].at = "call" /\ bought' = [bought EXCEPT ![proc[p].job] = @ + 1]
    <3> DEFINE b == bought[proc[p].job] + 1
               c == Charge(proc[p].route, proc[p].round, proc[p].retry)
    <3>1. Running(proc[p])
      BY <2>3 DEF Running, ProcessJob
    <3>2. /\ proc[p].route \in 1..Routes /\ proc[p].round \in 1..Rounds /\ proc[p].retry \in 0..MaxRetries
          /\ bought[proc[p].job] <= c /\ bought[proc[p].job] \in Nat
      BY <2>3, <3>1, Runner DEF BillOK
    <3>3. c \in Nat /\ c + 1 <= Routes * PerRoute /\ Routes * PerRoute \in Nat
      BY <3>2, ChargeGrows
    <3> HIDE DEF c
    <3>4. b \in Nat /\ b <= Routes * PerRoute /\ bought' = [bought EXCEPT ![proc[p].job] = b]
      BY <2>3, <3>2, <3>3
    <3> HIDE DEF b
    <3>5. QED
      BY <1>1, <2>1, <3>1, <3>4, BillGoesOn
  <2>4. QED
    BY <1>5, <2>2, <2>3 DEF Crash
<1>6. QED
  BY <1>2, <1>3, <1>4, <1>5 DEF Fault

LEMMA BillInit == ASSUME Init PROVE BillInv
<1>1. 1 \in 1..Routes /\ 1 \in 1..Rounds /\ 0 \in 0..MaxRetries
  BY RoutesAssumption, RetriesAssumption
<1>2. 0 <= Routes * PerRoute
  BY <1>1, ChargeGrows
<1>3. QED
  BY <1>2, IdleRunsNothing DEF Init, BillInv

LEMMA BillStep ==
    ASSUME IInv, BillInv, OneExecution, [Next]_vars
    PROVE  BillInv'
<1>1. \A j \in Jobs : Exists(j) => Exists(j)'
  BY ExistsStays
<1>2. CASE UNCHANGED vars \/ CacheExpire \/ Rest
  BY <1>2 DEF vars, CacheExpire, Rest, BillInv, Exists
<1>3. QED
  BY <1>1, <1>2, RequestBill, HandleBill, TakeBill, ExecuteBill, FaultBill DEF Next

\* The right to execute a job is in the queue or with one process, and what was charged
\* agrees with how far its counters have come (public.py 99-141, tasks.py 266-327).
THEOREM OneRightToExecute == ASSUME OneExecution PROVE Spec => []BillInv
<1>1. IInv /\ BillInv /\ [Next]_vars => BillInv'
  BY BillStep
<1>2. Init => BillInv
  BY BillInit
<1>3. QED
  BY <1>1, <1>2, Inductive, PTL DEF Spec

\* A job is charged for what one execution may spend and no more, with any number of
\* workers, lost answers, client retries, crashes, refused entries and cancels, unless
\* its key is also used for inline responses (tasks.py 266-327, public.py 99-141).
THEOREM BillStaysBounded == ASSUME OneExecution PROVE Spec => []BillIsBounded
<1>1. BillInv => BillIsBounded
  BY DEF BillInv, BillIsBounded
<1>2. QED
  BY <1>1, OneRightToExecute, PTL

=============================================================================
