------------------------ MODULE JobOneChannelProofs ------------------------
(***************************************************************************)
(* Theorems about JobLifecycle inside the envelope of                      *)
(* JobImplementsContract: a job is only ever run through one channel and   *)
(* nobody cancels it.  Inside it at most one process owns a job, or the    *)
(* queue does, and the owner's object agrees with the row, so a commit     *)
(* writes what the owner believes.  OwnInv states that; it is inductive    *)
(* together with IInv of JobLifecycleProofs.  What a job is charged for is *)
(* bounded by BillInv of that module.                                      *)
(***************************************************************************)
EXTENDS JobImplementsContract, JobLifecycleProofs

\* Clients submit jobs, ask for inline responses and save training data; a key is
\* never used for an inline response.
OneChannel == Ops \subseteq {"submit", "respond", "save"} /\ ("respond" \in Ops => Keys = {})

-----------------------------------------------------------------------------
(* The inductive invariant.                                                *)

Unowned == {"idle", "insert"}
Untried == {"enqueue", "load", "start"}
Started == {"refresh", "prepare", "lookup", "hit", "screen", "call", "write"}
Settled == {"hitRefresh", "hitSave", "written", "publish", "autosave"}
\* The points at which a process has read the row.
Loaded == (ProcessJob \ {"load"}) \cup {"recoverRow"}

\* What a process in state r knows of its job, whose row is stored.
OwnerOK(r, stored) ==
    /\ r.at \notin {"dequeue", "cancelRow"}
    /\ r.at \in Untried => stored.status = "queued"
    /\ r.at \in Started => stored.status = "running"
    /\ r.at = "fail" => stored.status = "running" \/ "caught" \in Faults
    /\ r.at \in Settled => stored.status \in Terminal
    /\ r.at \in {"recover", "recoverRow"} => "escape" \in Faults /\ "respond" \in Ops
    /\ r.at = "recoverRow" => stored.status \in {"queued", "running"}
    /\ r.at \in Loaded => r.snap.status = stored.status /\ ~r.snap.cancelRequested

OwnInv ==
    /\ \A p \in Procs :
          /\ proc[p].via \notin {"replay", "cancel"}
          /\ proc[p].via = "inline" => "respond" \in Ops
          /\ proc[p].at = "insert" => proc[p].via \in {"submit", "inline"}
          /\ IF proc[p].at \in Unowned
             THEN proc[p].job = NoJob
             ELSE /\ OwnerOK(proc[p], row[proc[p].job])
                  /\ proc[p].job \notin queue
    /\ \A p, q \in Procs : proc[p].job = proc[q].job => p = q \/ proc[p].job = NoJob
    /\ \A j \in queue : row[j].status = "queued"
    /\ \A j \in Jobs : ~row[j].cancelRequested

\* How the status column and the bill may change: a step is invisible, or it moves
\* one job along the contract, or an inline response is given up before it began.
Turns(j, from, to) ==
    /\ row[j].status = from
    /\ StatusColumn' = [StatusColumn EXCEPT ![j] = to]
    /\ bought' = bought

Pays(j) ==
    /\ row[j].status = "running"
    /\ bought' = [bought EXCEPT ![j] = @ + 1]
    /\ StatusColumn' = StatusColumn

GivesUp(j) ==
    /\ "escape" \in Faults /\ "respond" \in Ops
    /\ Turns(j, "queued", "failed")

Allowed ==
    \/ StatusColumn' = StatusColumn /\ bought' = bought
    \/ \E j \in Jobs : \/ Turns(j, "absent", "queued") \/ Turns(j, "queued", "running")
                       \/ Turns(j, "running", "completed") \/ Turns(j, "running", "failed")
                       \/ Pays(j) \/ GivesUp(j)

\* What every step does: it keeps OwnInv, and without exceptions inside the try it
\* changes the columns a client sees as allowed.
Good == OwnInv' /\ ("caught" \notin Faults => Allowed)

-----------------------------------------------------------------------------
(* Lemmas.                                                                 *)

\* What the invariants say of the owner of a job.
LEMMA Owner ==
    ASSUME IInv, OwnInv, NEW p \in Procs, proc[p].at \notin Unowned
    PROVE  /\ proc[p] \in Process /\ proc[p].job \in Jobs /\ proc[p].job # NoJob
           /\ row[proc[p].job] \in Row /\ row[proc[p].job].status # "absent"
           /\ ~row[proc[p].job].cancelRequested
           /\ OwnerOK(proc[p], row[proc[p].job])
<1>1. /\ proc[p] \in Process /\ proc[p].job \in Jobs /\ row[proc[p].job] \in Row
      /\ row[proc[p].job].status # "absent"
  BY Mover DEF Unowned, Exists
<1>2. QED
  BY <1>1, JobsAssumption DEF OwnInv

\* One process moves: the others own other jobs, which the step does not touch.
LEMMA OwnMove ==
    ASSUME IInv, OwnInv, NEW p \in Procs, NEW r, proc' = [proc EXCEPT ![p] = r],
           r.via \notin {"replay", "cancel"}, r.via = "inline" => "respond" \in Ops,
           r.at = "insert" => r.via \in {"submit", "inline"},
           IF r.at \in Unowned
           THEN r.job = NoJob
           ELSE OwnerOK(r, row'[r.job]) /\ r.job \notin queue',
           \A q \in Procs : q # p => r.job = NoJob \/ proc[q].job # r.job,
           \A j \in Jobs : j \notin {proc[p].job, r.job} => row'[j] = row[j],
           \A j \in queue' : /\ row'[j].status = "queued"
                             /\ \A q \in Procs : q # p => proc[q].job # j,
           \A j \in Jobs : ~row'[j].cancelRequested
    PROVE  OwnInv'
<1>1. proc'[p] = r /\ \A q \in Procs : q # p => proc'[q] = proc[q]
  BY DEF IInv, TypeOK
<1>2. ASSUME NEW q \in Procs, q # p, proc[q].at \notin Unowned
      PROVE  /\ OwnerOK(proc[q], row'[proc[q].job])
             /\ proc[q].job \notin queue'
  <2>1. /\ proc[q].job \in Jobs /\ proc[q].job # NoJob
        /\ OwnerOK(proc[q], row[proc[q].job])
    BY <1>2, Owner
  <2>2. proc[q].job # proc[p].job /\ proc[q].job # r.job
    BY <1>2, <2>1 DEF OwnInv
  <2>3. QED
    BY <1>2, <2>1, <2>2
<1>3. ASSUME NEW q \in Procs
      PROVE  /\ proc'[q].via \notin {"replay", "cancel"}
             /\ proc'[q].via = "inline" => "respond" \in Ops
             /\ proc'[q].at = "insert" => proc'[q].via \in {"submit", "inline"}
             /\ IF proc'[q].at \in Unowned
                THEN proc'[q].job = NoJob
                ELSE /\ OwnerOK(proc'[q], row'[proc'[q].job])
                     /\ proc'[q].job \notin queue'
  <2>1. CASE q = p
    BY <1>1, <2>1
  <2>2. CASE q # p
    BY <1>1, <1>2, <2>2 DEF OwnInv
  <2>3. QED
    BY <2>1, <2>2
<1>4. ASSUME NEW q1 \in Procs, NEW q2 \in Procs, proc'[q1].job = proc'[q2].job
      PROVE  q1 = q2 \/ proc'[q1].job = NoJob
  BY <1>1, <1>4 DEF OwnInv
<1>5. QED
  BY <1>3, <1>4 DEF OwnInv, Exists, OwnerOK, Unowned, Untried, Started, Settled, Loaded

\* The owner of a job goes on with it or lets it go; it may commit the row.
LEMMA OwnerMoves ==
    ASSUME IInv, OwnInv, NEW p \in Procs, proc[p].at \notin Unowned,
           NEW r, proc' = [proc EXCEPT ![p] = r],
           \/ r = Idle
           \/ /\ r.at \notin Unowned /\ r.job = proc[p].job /\ r.via = proc[p].via
              /\ OwnerOK(r, row'[r.job]),
           NEW new \in Row, new.status # "absent", ~new.cancelRequested,
           row' = [row EXCEPT ![proc[p].job] = new],
           UNCHANGED queue
    PROVE  OwnInv'
<1>1. row \in [Jobs -> Row] /\ proc[p].job \in Jobs /\ queue \subseteq Jobs
  BY Owner DEF IInv, TypeOK
<1>2. /\ row'[proc[p].job] = new
      /\ \A j \in Jobs : j # proc[p].job => row'[j] = row[j]
  BY <1>1
<1>3. /\ r.via \notin {"replay", "cancel"} /\ (r.via = "inline" => "respond" \in Ops)
      /\ r.at # "insert"
  BY DEF OwnInv, Idle, Unowned
<1>4. proc[p].job \notin queue /\ proc[p].job # NoJob
  BY Owner DEF OwnInv
<1>5. IF r.at \in Unowned
      THEN r.job = NoJob
      ELSE OwnerOK(r, row'[r.job]) /\ r.job \notin queue'
  BY <1>4 DEF Idle, Unowned
<1>6. \A q \in Procs : q # p => r.job = NoJob \/ proc[q].job # r.job
  BY <1>4 DEF OwnInv, Idle
<1>7. \A j \in queue' : /\ row'[j].status = "queued"
                        /\ \A q \in Procs : q # p => proc[q].job # j
  <2>1. \A q \in Procs : proc[q].job \notin queue
    BY <1>1, JobsAssumption DEF OwnInv
  <2>2. QED
    BY <1>1, <1>2, <1>4, <2>1 DEF OwnInv
<1>8. \A j \in Jobs : ~row'[j].cancelRequested
  BY <1>1, <1>2 DEF OwnInv, Exists
<1>9. \A j \in Jobs : j \notin {proc[p].job, r.job} => row'[j] = row[j]
  BY <1>2
<1>10. QED
  BY <1>3, <1>5, <1>6, <1>7, <1>8, <1>9, OwnMove

\* What an UPDATE of one row does to the status column.
LEMMA AllowedSteps ==
    ASSUME IInv, NEW j \in Jobs, NEW new \in Row, row' = [row EXCEPT ![j] = new]
    PROVE  /\ StatusColumn' = [StatusColumn EXCEPT ![j] = new.status]
           /\ new.status = row[j].status => StatusColumn' = StatusColumn
BY DEF IInv, TypeOK, StatusColumn

LEMMA SameColumn == ASSUME UNCHANGED row, bought' = bought \/ \E j \in Jobs : Pays(j) PROVE Allowed
BY DEF Allowed, StatusColumn

\* The owner goes on, or lets go, and touches nothing shared but its bill.
LEMMA OwnerGoesOn ==
    ASSUME IInv, OwnInv, NEW p \in Procs, proc[p].at \notin Unowned,
           NEW r, proc' = [proc EXCEPT ![p] = r],
           \/ r = Idle
           \/ /\ r.at \notin Unowned /\ r.job = proc[p].job /\ r.via = proc[p].via
              /\ OwnerOK(r, row[r.job]),
           UNCHANGED <<row, queue>>, bought' = bought \/ Pays(proc[p].job)
    PROVE  Good
<1>1. /\ row[proc[p].job] \in Row /\ row[proc[p].job].status # "absent"
      /\ ~row[proc[p].job].cancelRequested
  BY Owner
<1>2. row' = [row EXCEPT ![proc[p].job] = row[proc[p].job]]
  BY DEF IInv, TypeOK
<1>3. OwnInv'
  BY <1>1, <1>2, OwnerMoves
<1>4. Allowed
  BY Owner, SameColumn
<1>5. QED
  BY <1>3, <1>4 DEF Good

\* The owner goes to another point.
LEMMA GoesTo ==
    ASSUME IInv, OwnInv, NEW p \in Procs, proc[p].at \notin Unowned,
           NEW x, x \notin Unowned, Goto(p, x),
           \A r : r.at = x /\ r.snap = proc[p].snap => OwnerOK(r, row[proc[p].job]),
           UNCHANGED <<row, queue, bought>>
    PROVE  Good
<1> DEFINE r == [proc[p] EXCEPT !.at = x]
<1>1. proc[p] \in Process
  BY Owner
<1>2. r.at = x /\ r.job = proc[p].job /\ r.via = proc[p].via /\ r.snap = proc[p].snap
  BY <1>1 DEF Process
<1>3. proc' = [proc EXCEPT ![p] = r]
  BY DEF Goto
<1> HIDE DEF r
<1>4. OwnerOK(r, row[r.job])
  BY <1>2
<1>5. QED
  BY <1>2, <1>3, <1>4, OwnerGoesOn

LEMMA Leaves ==
    ASSUME IInv, OwnInv, NEW p \in Procs, proc[p].at \notin Unowned,
           proc' = [proc EXCEPT ![p] = Idle], UNCHANGED <<row, queue, bought>>
    PROVE  Good
BY OwnerGoesOn

\* The owner reads the row and goes to x.
LEMMA ReadGood ==
    ASSUME IInv, OwnInv, NEW p \in Procs, proc[p].at \notin Unowned,
           NEW x, x \notin Unowned, proc' = [proc EXCEPT ![p].at = x, ![p].snap = row[proc[p].job]],
           \A r : r.at = x /\ r.snap = row[proc[p].job] => OwnerOK(r, row[proc[p].job]),
           UNCHANGED <<row, queue, bought>>
    PROVE  Good
<1> DEFINE r == [proc[p] EXCEPT !.at = x, !.snap = row[proc[p].job]]
<1>1. proc[p] \in Process
  BY Owner
<1>2. r.at = x /\ r.job = proc[p].job /\ r.via = proc[p].via /\ r.snap = row[proc[p].job]
  BY <1>1 DEF Process
<1>3. proc' = [proc EXCEPT ![p] = r]
  OBVIOUS
<1> HIDE DEF r
<1>4. OwnerOK(r, row[r.job])
  BY <1>2
<1>5. QED
  BY <1>2, <1>3, <1>4, OwnerGoesOn

-----------------------------------------------------------------------------
(* Requests and handlers.                                                  *)

LEMMA RequestGood ==
    ASSUME IInv, OwnInv, OneChannel, NEW h \in Handlers, Request(h)
    PROVE  Good
<1>1. h \in Procs /\ queue \subseteq Jobs /\ \A q \in Procs : proc[q].job \notin queue
  BY JobsAssumption DEF OwnInv, IInv, TypeOK, Procs
<1>2. Idle.job = NoJob /\ Idle.at = "idle" /\ Idle.via = "none"
  BY DEF Idle
<1>3. ASSUME NEW r, proc' = [proc EXCEPT ![h] = r], proc[h].at = "idle",
             r.job = NoJob, r.at \in Unowned, r.via \notin {"replay", "cancel"},
             r.via = "inline" => "respond" \in Ops,
             r.at = "insert" => r.via \in {"submit", "inline"},
             UNCHANGED <<row, queue, bought>>
      PROVE  Good
  <2>1. \A j \in queue' : /\ row'[j].status = "queued"
                          /\ \A q \in Procs : q # h => proc[q].job # j
    BY <1>1, <1>3 DEF OwnInv
  <2>2. \A j \in Jobs : ~row'[j].cancelRequested
    BY <1>3 DEF OwnInv, Exists
  <2>3. OwnInv'
    BY <1>1, <1>3, <2>1, <2>2, OwnMove
  <2>4. QED
    BY <1>3, <2>3, SameColumn DEF Good
<1>4. ASSUME NEW k \in Keys \cup {NoKey}, NEW op, NEW via, StartCreate(h, k, op, via),
             via \in {"submit", "inline"}, via = "inline" => op = "respond"
      PROVE  Good
  <2> DEFINE r == [Idle EXCEPT !.at = "insert", !.key = k, !.via = via]
  <2>1. r.job = NoJob /\ r.at = "insert" /\ r.via = via
    BY DEF Idle
  <2>2. /\ proc' = [proc EXCEPT ![h] = r] /\ proc[h].at = "idle" /\ op \in Ops
        /\ UNCHANGED <<row, queue, bought>>
    BY <1>4 DEF StartCreate, Accept
  <2> HIDE DEF r
  <2>3. QED
    BY <1>3, <1>4, <2>1, <2>2 DEF Unowned
<1>5. ASSUME NEW k \in Keys \cup {NoKey}, SubmitReplay(h, k) PROVE Good
  <2>1. /\ proc' = [proc EXCEPT ![h] = Idle] /\ proc[h].at = "idle"
        /\ UNCHANGED <<row, queue, bought>>
    BY <1>5 DEF SubmitReplay, Accept, Answer
  <2>2. QED
    BY <1>2, <1>3, <2>1 DEF Unowned
<1>6. ASSUME NEW k \in Keys \cup {NoKey}, RespondReplay(h, k) \/ RespondQueued(h, k)
      PROVE  FALSE
  <2>1. "respond" \in Ops /\ Holders(k) # {}
    BY <1>6 DEF RespondReplay, RespondQueued, Accept
  <2>2. k = NoKey
    BY <1>6, <2>1 DEF OneChannel
  <2>3. QED
    BY <2>1, <2>2 DEF Holders
<1>7. ASSUME NEW j \in Jobs, StartCancel(h, j) PROVE FALSE
  BY <1>7 DEF StartCancel, Accept, OneChannel
<1>8. ASSUME NEW j \in Jobs, SaveTraining(h, j) PROVE Good
  <2>1. UNCHANGED <<row, queue, bought, proc>>
    BY <1>8 DEF SaveTraining
  <2>2. QED
    BY <2>1, SameColumn DEF Good, OwnInv, Exists, OwnerOK
<1>9. QED
  BY <1>4, <1>5, <1>6, <1>7, <1>8 DEF Request

LEMMA InsertGood ==
    ASSUME IInv, OwnInv, NEW h \in Handlers, Insert(h)
    PROVE  Good
<1>1. /\ h \in Procs /\ queue \subseteq Jobs /\ proc[h] \in Process /\ proc[h].at = "insert"
      /\ proc[h].key \in Keys \cup {NoKey} /\ proc[h].job = NoJob /\ bought \in [Jobs -> Nat]
      /\ row \in [Jobs -> Row]
      /\ \A q \in Procs : proc[q].job \notin queue
  BY JobsAssumption DEF Insert, OwnInv, IInv, TypeOK, Procs, Unowned, Process
<1> DEFINE next == IF proc[h].via = "submit" THEN "enqueue" ELSE "load"
           born == [NoRow EXCEPT !.status = "queued", !.key = proc[h].key]
<1>2. PICK i \in Jobs : /\ ~Exists(i)
                       /\ row' = [row EXCEPT ![i] = born]
                       /\ proc' = [proc EXCEPT ![h].at = next, ![h].job = i]
  BY DEF Insert
<1> DEFINE r == [proc[h] EXCEPT !.at = next, !.job = i]
<1>3. r.at = next /\ r.job = i /\ r.via = proc[h].via /\ next \in {"enqueue", "load"}
  BY <1>1 DEF Process
<1>4. proc' = [proc EXCEPT ![h] = r]
  BY <1>2
<1>5. born \in Row /\ born.status = "queued" /\ ~born.cancelRequested
  BY <1>1 DEF NoRow, Row, JobStatus
<1> HIDE DEF r, born, next
<1>6. /\ \A q \in Procs : proc[q].job # i
      /\ i \notin queue /\ i # NoJob
  <2>1. \A q \in Procs : proc[q].at \notin Unowned => row[proc[q].job].status # "absent"
    BY Owner
  <2>2. QED
    BY <1>2, <2>1, JobsAssumption DEF OwnInv, Exists, IInv, RedisOK
<1>7. /\ row'[i] = born /\ bought' = bought /\ queue' = queue
      /\ \A j \in Jobs : j # i => row'[j] = row[j]
  BY <1>1, <1>2 DEF Insert
<1>8. OwnerOK(r, row'[r.job])
  BY <1>3, <1>5, <1>6, <1>7 DEF OwnerOK, Untried, Started, Settled, Loaded, ProcessJob, Unprotected, Protected
<1>9. \A j \in queue' : /\ row'[j].status = "queued"
                        /\ \A q \in Procs : q # h => proc[q].job # j
  BY <1>1, <1>6, <1>7 DEF OwnInv
<1>10. \A j \in Jobs : ~row'[j].cancelRequested
  BY <1>5, <1>7 DEF OwnInv, Exists
<1>11. /\ r.via \notin {"replay", "cancel"} /\ (r.via = "inline" => "respond" \in Ops)
       /\ r.at # "insert" /\ r.at \notin Unowned /\ r.job \notin queue'
       /\ \A q \in Procs : q # h => r.job = NoJob \/ proc[q].job # r.job
       /\ \A j \in Jobs : j \notin {proc[h].job, r.job} => row'[j] = row[j]
  BY <1>1, <1>3, <1>6, <1>7 DEF OwnInv, Unowned
<1>12. OwnInv'
  BY <1>1, <1>4, <1>8, <1>9, <1>10, <1>11, OwnMove
<1>13. Turns(i, "absent", "queued")
  BY <1>2, <1>5, <1>7, AllowedSteps DEF Turns, Exists
<1>14. QED
  BY <1>12, <1>13 DEF Good, Allowed

LEMMA EnqueueGood ==
    ASSUME IInv, OwnInv, NEW h \in Handlers, Enqueue(h)
    PROVE  Good
<1>1. /\ h \in Procs /\ proc[h].at \notin Unowned /\ proc[h].at \in Untried
      /\ queue' = queue \cup {proc[h].job} /\ proc' = [proc EXCEPT ![h] = Idle]
      /\ UNCHANGED <<row, bought>>
  BY DEF Enqueue, Answer, Procs, Unowned, Untried
<1>2. /\ row[proc[h].job].status = "queued"
      /\ proc[h].job # NoJob
  BY <1>1, Owner DEF OwnerOK
<1>3. \A q \in Procs : proc[q].job \notin queue
  BY JobsAssumption DEF OwnInv, IInv, TypeOK
<1>4. \A j \in queue' : /\ row'[j].status = "queued"
                        /\ \A q \in Procs : q # h => proc[q].job # j
  BY <1>1, <1>2, <1>3 DEF OwnInv
<1>5. \A j \in Jobs : ~row'[j].cancelRequested
  BY <1>1 DEF OwnInv, Exists
<1>6. Idle.job = NoJob /\ Idle.at = "idle" /\ Idle.via = "none" /\ Idle.at \in Unowned
  BY DEF Idle, Unowned
<1>7. OwnInv'
  BY <1>1, <1>4, <1>5, <1>6, OwnMove
<1>8. QED
  BY <1>1, <1>7, SameColumn DEF Good

LEMMA InsertConflictGood ==
    ASSUME IInv, OwnInv, OneChannel, NEW h \in Handlers, InsertConflict(h)
    PROVE  Good
<1>1. h \in Procs /\ \A q \in Procs : proc[q].job \notin queue
  BY JobsAssumption DEF OwnInv, IInv, TypeOK, Procs
<1>2. /\ proc[h].at = "insert" /\ proc[h].via \in {"submit", "inline"}
      /\ UNCHANGED <<row, queue, bought>> /\ proc[h].key \in Keys \cup {NoKey}
  BY <1>1 DEF InsertConflict, OwnInv, IInv, TypeOK, Process
<1>3. proc[h].via = "submit"
  BY <1>1, <1>2 DEF InsertConflict, OwnInv, OneChannel, Holders
<1>4. proc' = [proc EXCEPT ![h] = Idle]
  BY <1>3 DEF InsertConflict, Answer
<1>5. Idle.job = NoJob /\ Idle.at = "idle" /\ Idle.via = "none" /\ Idle.at \in Unowned
  BY DEF Idle, Unowned
<1>6. \A j \in queue' : /\ row'[j].status = "queued"
                        /\ \A q \in Procs : q # h => proc[q].job # j
  BY <1>1, <1>2 DEF OwnInv
<1>7. \A j \in Jobs : ~row'[j].cancelRequested
  BY <1>2 DEF OwnInv, Exists
<1>8. OwnInv'
  BY <1>1, <1>2, <1>4, <1>5, <1>6, <1>7, OwnMove
<1>9. QED
  BY <1>2, <1>8, SameColumn DEF Good

LEMMA TakeGood ==
    ASSUME IInv, OwnInv, NEW w \in Workers, Take(w)
    PROVE  Good
<1>1. w \in Procs /\ queue \subseteq Jobs /\ \A q \in Procs : proc[q].job \notin queue
  BY JobsAssumption DEF OwnInv, IInv, TypeOK, Procs
<1>2. PICK i \in queue :
         /\ queue' = queue \ {i}
         /\ proc' = [proc EXCEPT ![w] = [Idle EXCEPT !.at = "load", !.job = i, !.via = "worker"]]
  BY DEF Take
<1> DEFINE r == [Idle EXCEPT !.at = "load", !.job = i, !.via = "worker"]
<1>3. r.at = "load" /\ r.job = i /\ r.via = "worker" /\ proc' = [proc EXCEPT ![w] = r]
  BY <1>2 DEF Idle
<1> HIDE DEF r
<1>4. UNCHANGED <<row, bought>>
  BY DEF Take
<1>5. OwnerOK(r, row'[r.job])
  BY <1>2, <1>3, <1>4 DEF OwnInv, OwnerOK, Untried, Started, Settled, Loaded, ProcessJob, Unprotected, Protected
<1>6. \A j \in queue' : /\ row'[j].status = "queued"
                        /\ \A q \in Procs : q # w => proc[q].job # j
  BY <1>1, <1>2, <1>4 DEF OwnInv
<1>7. \A j \in Jobs : ~row'[j].cancelRequested
  BY <1>4 DEF OwnInv, Exists
<1>8. /\ r.at \notin Unowned /\ r.job \notin queue'
      /\ \A q \in Procs : q # w => r.job = NoJob \/ proc[q].job # r.job
  BY <1>1, <1>2, <1>3 DEF Unowned
<1>9. OwnInv'
  BY <1>1, <1>3, <1>4, <1>5, <1>6, <1>7, <1>8, OwnMove
<1>10. QED
  BY <1>4, <1>9, SameColumn DEF Good

LEMMA RecoverGood ==
    ASSUME IInv, OwnInv, NEW h \in Handlers, Recover(h)
    PROVE  Good
<1>1. h \in Procs /\ proc[h].at = "recover" /\ proc[h].at \notin Unowned
  BY DEF Recover, Procs, Unowned
<1>2. /\ row[proc[h].job] \in Row /\ ~row[proc[h].job].cancelRequested
      /\ "escape" \in Faults /\ "respond" \in Ops
  BY <1>1, Owner DEF OwnerOK
<1>3. UNCHANGED <<row, queue, bought>>
  BY DEF Recover
<1>4. CASE row[proc[h].job].status \in {"queued", "running"}
  <2>1. proc' = [proc EXCEPT ![h].at = "recoverRow", ![h].snap = row[proc[h].job]]
    BY <1>4 DEF Recover
  <2>2. \A r : r.at = "recoverRow" /\ r.snap = row[proc[h].job]
              => OwnerOK(r, row[proc[h].job])
    BY <1>2, <1>4 DEF OwnerOK, Untried, Started, Settled
  <2>3. "recoverRow" \notin Unowned
    BY DEF Unowned
  <2>4. QED
    BY <1>1, <1>3, <2>1, <2>2, <2>3, ReadGood
<1>5. CASE row[proc[h].job].status \notin {"queued", "running"}
  BY <1>1, <1>3, <1>5, Leaves DEF Recover
<1>6. QED
  BY <1>4, <1>5

-----------------------------------------------------------------------------
(* Commits.                                                                *)

\* The owner's object agrees with the row: a commit writes what the owner means.
LEMMA CommitWrites ==
    ASSUME IInv, OwnInv, NEW p \in Procs, proc[p].at \in Loaded, proc[p].at \notin Unowned,
           NEW new \in Row, ~new.cancelRequested, new.status # "absent",
           row' = [row EXCEPT ![proc[p].job] = Flush(new, proc[p].snap, @)]
    PROVE  \E flushed \in Row :
              /\ flushed.status = new.status /\ ~flushed.cancelRequested
              /\ row' = [row EXCEPT ![proc[p].job] = flushed]
              /\ row'[proc[p].job] = flushed
              /\ StatusColumn' = [StatusColumn EXCEPT ![proc[p].job] = new.status]
<1> DEFINE old == proc[p].snap
           stored == row[proc[p].job]
           flushed == Flush(new, old, stored)
<1>1. /\ old \in Row /\ stored \in Row /\ proc[p].job \in Jobs
      /\ old.status = stored.status /\ ~old.cancelRequested /\ ~stored.cancelRequested
  BY Owner DEF OwnerOK, Process
<1>2. /\ flushed \in Row
      /\ flushed.status = new.status /\ ~flushed.cancelRequested
  BY <1>1 DEF Flush, Column, Row
<1>3. row' = [row EXCEPT ![proc[p].job] = flushed]
  BY <1>1 DEF IInv, TypeOK
<1> HIDE DEF flushed
<1>4. row'[proc[p].job] = flushed
  BY <1>1, <1>3 DEF IInv, TypeOK
<1>5. StatusColumn' = [StatusColumn EXCEPT ![proc[p].job] = flushed.status]
  BY <1>1, <1>2, <1>3, AllowedSteps
<1>6. QED
  BY <1>2, <1>3, <1>4, <1>5

\* The owner commits its object as new and goes on to x.
LEMMA CommitGood ==
    ASSUME IInv, OwnInv, NEW p \in Procs, proc[p].at \in Loaded, proc[p].at \notin Unowned,
           NEW new \in Row, ~new.cancelRequested, new.status # "absent",
           NEW x, x \notin Unowned, Commit(p, new, x), UNCHANGED <<queue, bought>>,
           \A r, s : /\ r.at = x /\ r.snap = new /\ s.status = new.status
                    => OwnerOK(r, s)
    PROVE  OwnInv' /\ StatusColumn' = [StatusColumn EXCEPT ![proc[p].job] = new.status]
<1>1. proc[p] \in Process
  BY Owner
<1> DEFINE r == [proc[p] EXCEPT !.at = x, !.snap = new]
<1>2. r.at = x /\ r.snap = new /\ r.job = proc[p].job /\ r.via = proc[p].via
  BY <1>1 DEF Process
<1>3. proc' = [proc EXCEPT ![p] = r]
  BY DEF Commit
<1>4. bought' = [bought EXCEPT ![proc[p].job] = bought[proc[p].job]]
  BY DEF IInv, TypeOK
<1> HIDE DEF r
<1>5. PICK flushed \in Row :
         /\ flushed.status = new.status /\ ~flushed.cancelRequested
         /\ row' = [row EXCEPT ![proc[p].job] = flushed]
         /\ row'[proc[p].job] = flushed
         /\ StatusColumn' = [StatusColumn EXCEPT ![proc[p].job] = new.status]
  BY CommitWrites DEF Commit
<1>6. OwnerOK(r, row'[r.job])
  BY <1>2, <1>5
<1>7. OwnInv'
  BY <1>1, <1>2, <1>3, <1>4, <1>5, <1>6, OwnerMoves
<1>8. QED
  BY <1>5, <1>7

\* The owner commits its object as failed and lets the job go.
LEMMA FailedGood ==
    ASSUME IInv, OwnInv, NEW p \in Procs, proc[p].at \in {"fail", "recoverRow"},
           row' = [row EXCEPT ![proc[p].job] =
                      Flush([proc[p].snap EXCEPT !.status = "failed"], proc[p].snap, @)],
           proc' = [proc EXCEPT ![p] = Idle], UNCHANGED <<queue, bought>>
    PROVE  Good
<1> DEFINE new == [proc[p].snap EXCEPT !.status = "failed"]
           j == proc[p].job
<1>1. proc[p].at \in Loaded /\ proc[p].at \notin Unowned
  BY DEF Loaded, Unowned, ProcessJob, Unprotected
<1>2. /\ proc[p].snap \in Row /\ ~proc[p].snap.cancelRequested /\ j \in Jobs
      /\ OwnerOK(proc[p], row[j])
  BY <1>1, Owner DEF OwnerOK, Process
<1>3. new \in Row /\ new.status = "failed" /\ ~new.cancelRequested
  BY <1>2 DEF Row, JobStatus, Terminal
<1> HIDE DEF new
<1>4. PICK flushed \in Row :
         /\ flushed.status = new.status /\ ~flushed.cancelRequested
         /\ row' = [row EXCEPT ![proc[p].job] = flushed]
         /\ row'[proc[p].job] = flushed
         /\ StatusColumn' = [StatusColumn EXCEPT ![proc[p].job] = new.status]
  BY <1>1, <1>3, CommitWrites DEF new
<1>5. bought' = [bought EXCEPT ![j] = bought[j]]
  BY DEF IInv, TypeOK
<1>6. OwnInv'
  BY <1>1, <1>2, <1>3, <1>4, <1>5, OwnerMoves
<1>7. "caught" \notin Faults => Turns(j, "running", "failed") \/ GivesUp(j)
  BY <1>2, <1>3, <1>4 DEF OwnerOK, Turns, GivesUp
<1>8. QED
  BY <1>2, <1>6, <1>7 DEF Good, Allowed

-----------------------------------------------------------------------------
(* process_job.                                                            *)

\* The row is queued, so the execution begins, with the row as its object.
LEMMA LoadGood ==
    ASSUME IInv, OwnInv, NEW p \in Procs, Load(p)
    PROVE  Good
<1>1. proc[p].at = "load" /\ proc[p].at \notin Unowned
  BY DEF Load, Unowned
<1>2. /\ row[proc[p].job] \in Row /\ ~row[proc[p].job].cancelRequested
      /\ row[proc[p].job].status = "queued"
  BY <1>1, Owner DEF OwnerOK, Untried
<1>3. /\ UNCHANGED <<row, queue, bought>>
      /\ proc' = [proc EXCEPT ![p].at = "start", ![p].snap = row[proc[p].job]]
  BY <1>2 DEF Load
<1>4. \A r : r.at = "start" /\ r.snap = row[proc[p].job] => OwnerOK(r, row[proc[p].job])
  BY <1>2 DEF OwnerOK, Untried, Started, Settled, Loaded
<1>5. "start" \notin Unowned
  BY DEF Unowned
<1>6. QED
  BY <1>1, <1>3, <1>4, <1>5, ReadGood

LEMMA StartGood ==
    ASSUME IInv, OwnInv, NEW p \in Procs, Start(p)
    PROVE  Good
<1> DEFINE new == [proc[p].snap EXCEPT !.status = "running"]
<1>1. proc[p].at = "start" /\ proc[p].at \notin Unowned /\ proc[p].at \in Loaded
  BY DEF Start, Unowned, Loaded, ProcessJob, Unprotected
<1>2. /\ proc[p].snap \in Row /\ ~proc[p].snap.cancelRequested /\ proc[p].job \in Jobs
      /\ row[proc[p].job].status = "queued"
  BY <1>1, Owner DEF OwnerOK, Untried, Process
<1>3. new \in Row /\ new.status = "running" /\ ~new.cancelRequested
  BY <1>2 DEF Row, JobStatus
<1>4. Commit(p, new, "refresh") /\ UNCHANGED <<queue, bought>> /\ "refresh" \notin Unowned
  BY DEF Start, Unowned
<1> HIDE DEF new
<1>5. \A r, s : /\ r.at = "refresh" /\ r.snap = new /\ s.status = new.status
               => OwnerOK(r, s)
  BY <1>2, <1>3 DEF OwnerOK, Untried, Started, Settled
<1>6. OwnInv' /\ StatusColumn' = [StatusColumn EXCEPT ![proc[p].job] = new.status]
  BY <1>1, <1>3, <1>4, <1>5, CommitGood
<1>7. QED
  BY <1>2, <1>3, <1>4, <1>6 DEF Good, Allowed, Turns

\* The commit of an answer, cached or bought.
LEMMA FinishGood ==
    ASSUME IInv, OwnInv, NEW p \in Procs, proc[p].at \in {"hit", "write"},
           NEW x \in {"hitRefresh", "written"}, Commit(p, Finished(proc[p].snap), x),
           UNCHANGED <<queue, bought>>
    PROVE  Good
<1> DEFINE new == Finished(proc[p].snap)
<1>1. proc[p].at \notin Unowned /\ proc[p].at \in Loaded
  BY DEF Unowned, Loaded, ProcessJob, Unprotected, Protected
<1>2. /\ proc[p].snap \in Row /\ ~proc[p].snap.cancelRequested /\ proc[p].job \in Jobs
      /\ row[proc[p].job].status = "running"
  BY <1>1, Owner DEF OwnerOK, Started, Process
<1>3. new \in Row /\ new.status = "completed" /\ ~new.cancelRequested
  BY <1>2 DEF Finished, Row, JobStatus, Terminal
<1>4. Commit(p, new, x) /\ x \notin Unowned
  BY DEF Unowned
<1> HIDE DEF new
<1>5. \A r, s : /\ r.at = x /\ r.snap = new /\ s.status = new.status
               => OwnerOK(r, s)
  BY <1>3 DEF OwnerOK, Untried, Started, Settled, Terminal
<1>6. OwnInv' /\ StatusColumn' = [StatusColumn EXCEPT ![proc[p].job] = new.status]
  BY <1>1, <1>3, <1>4, <1>5, CommitGood
<1>7. QED
  BY <1>2, <1>3, <1>6 DEF Good, Allowed, Turns

\* Between the start and the call the job stays running.
LEMMA PrepareGood ==
    ASSUME IInv, OwnInv, NEW p \in Procs, Refresh(p) \/ Prepare(p) \/ Lookup(p)
    PROVE  Good
<1>1. proc[p].at \in Started /\ proc[p].at \notin Unowned
  BY DEF Refresh, Prepare, Lookup, Started, Unowned
<1>2. /\ row[proc[p].job] \in Row /\ ~row[proc[p].job].cancelRequested
      /\ row[proc[p].job].status = "running"
      /\ proc[p].snap.status = "running" /\ ~proc[p].snap.cancelRequested
  BY <1>1, Owner DEF OwnerOK, Started, Loaded, ProcessJob, Unprotected, Protected
<1>3. UNCHANGED <<row, queue, bought>>
  BY DEF Refresh, Prepare, Lookup
<1>4. CASE Refresh(p)
  <2>1. proc' = [proc EXCEPT ![p].at = "prepare", ![p].snap = row[proc[p].job]]
    BY <1>4 DEF Refresh
  <2>2. \A r : r.at = "prepare" /\ r.snap = row[proc[p].job] => OwnerOK(r, row[proc[p].job])
    BY <1>2 DEF OwnerOK, Untried, Started, Settled
  <2>3. "prepare" \notin Unowned
    BY DEF Unowned
  <2>4. QED
    BY <1>1, <1>3, <2>1, <2>2, <2>3, ReadGood
<1>5. CASE Prepare(p) \/ Lookup(p)
  <2>1. PICK x \in {"lookup", "screen", "hit", "fail"} : Goto(p, x)
    BY <1>5 DEF Prepare, Lookup
  <2>2. x \notin Unowned /\ Goto(p, x)
    BY <2>1 DEF Unowned
  <2>3. \A r : r.at = x /\ r.snap = proc[p].snap => OwnerOK(r, row[proc[p].job])
    BY <1>2, <2>1 DEF OwnerOK, Untried, Started, Settled
  <2>4. QED
    BY <1>1, <1>2, <1>3, <2>2, <2>3, GoesTo
<1>6. QED
  BY <1>4, <1>5

\* The refresh after a commit, and what follows it.
LEMMA AfterGood ==
    ASSUME IInv, OwnInv, NEW p \in Procs, HitRefresh(p) \/ Written(p)
    PROVE  Good
<1>1. PICK from \in {"hitRefresh", "written"}, next \in {"hitSave", "publish", "autosave"} :
         AfterCommit(p, from, next)
  BY DEF HitRefresh, Written
<1>2. proc[p].at = from /\ proc[p].at \notin Unowned /\ UNCHANGED <<row, queue, bought>>
  BY <1>1 DEF AfterCommit, Unowned
<1>3. row[proc[p].job] \in Row /\ ~row[proc[p].job].cancelRequested
  BY <1>2, Owner
<1>4. CASE row[proc[p].job].status = "completed"
  <2>1. proc' = [proc EXCEPT ![p].at = next, ![p].snap = row[proc[p].job]]
    BY <1>1, <1>4 DEF AfterCommit
  <2>2. \A r : r.at = next /\ r.snap = row[proc[p].job] => OwnerOK(r, row[proc[p].job])
    BY <1>3, <1>4 DEF OwnerOK, Untried, Started, Settled, Terminal
  <2>3. next \notin Unowned
    BY DEF Unowned
  <2>4. QED
    BY <1>2, <2>1, <2>2, <2>3, ReadGood
<1>5. CASE row[proc[p].job].status # "completed"
  BY <1>1, <1>2, <1>5, Leaves DEF AfterCommit, Return
<1>6. QED
  BY <1>4, <1>5

LEMMA AutoSaveGood ==
    ASSUME IInv, OwnInv, NEW p \in Procs, NEW from \in Settled, AutoSave(p, from)
    PROVE  Good
<1>1. /\ proc[p].at \notin Unowned /\ UNCHANGED <<row, queue, bought>>
      /\ proc' = [proc EXCEPT ![p] = Idle]
  BY DEF AutoSave, Return, Settled, Unowned
<1>2. QED
  BY <1>1, Leaves

LEMMA PublishGood ==
    ASSUME IInv, OwnInv, NEW p \in Procs, Publish(p)
    PROVE  Good
<1>1. /\ proc[p].at = "publish" /\ proc[p].at \notin Unowned /\ "autosave" \notin Unowned
      /\ UNCHANGED <<row, queue, bought>>
  BY DEF Publish, Unowned
<1>2. /\ row[proc[p].job].status \in Terminal /\ proc[p].snap.status = row[proc[p].job].status
      /\ ~proc[p].snap.cancelRequested
  BY <1>1, Owner DEF OwnerOK, Settled, Loaded, ProcessJob, Protected
<1>3. Goto(p, "autosave")
  BY DEF Publish
<1>4. \A r : r.at = "autosave" /\ r.snap = proc[p].snap => OwnerOK(r, row[proc[p].job])
  BY <1>2 DEF OwnerOK, Untried, Started, Settled
<1>5. QED
  BY <1>1, <1>3, <1>4, GoesTo

\* The loop over the routes goes on, and a request may have been charged.
LEMMA AttemptGood ==
    ASSUME IInv, OwnInv, NEW p \in Procs, proc[p].at \in {"screen", "call"},
           NEW x \in {"call", "fail", "write"}, NEW n, NEW m, NEW k, Attempt(p, x, n, m, k),
           UNCHANGED <<row, queue>>, bought' = bought \/ Pays(proc[p].job)
    PROVE  Good
<1>1. proc[p].at \notin Unowned /\ proc[p].at \in Started /\ proc[p].at \in Loaded
  BY DEF Unowned, Started, Loaded, ProcessJob, Unprotected
<1>2. /\ row[proc[p].job].status = "running" /\ proc[p].snap.status = "running"
      /\ ~proc[p].snap.cancelRequested /\ proc[p] \in Process
  BY <1>1, Owner DEF OwnerOK
<1> DEFINE r == [proc[p] EXCEPT !.at = x, !.route = n, !.round = m, !.retry = k]
<1>3. /\ r.at = x /\ r.job = proc[p].job /\ r.via = proc[p].via /\ r.snap = proc[p].snap
      /\ proc' = [proc EXCEPT ![p] = r]
  BY <1>2 DEF Process, Attempt
<1> HIDE DEF r
<1>4. OwnerOK(r, row[r.job]) /\ r.at \notin Unowned
  BY <1>2, <1>3 DEF OwnerOK, Untried, Started, Settled, Loaded, Unowned
<1>5. QED
  BY <1>1, <1>3, <1>4, OwnerGoesOn

LEMMA ScreenGood ==
    ASSUME IInv, OwnInv, NEW p \in Procs, Screen(p)
    PROVE  Good
<1>1. /\ proc[p].at = "screen" /\ proc[p].at \notin Unowned
      /\ UNCHANGED <<row, queue, bought>>
  BY DEF Screen, Unowned
<1>2. CASE Goto(p, "fail")
  <2>1. /\ row[proc[p].job].status = "running" /\ proc[p].snap.status = "running"
        /\ ~proc[p].snap.cancelRequested /\ "fail" \notin Unowned
    BY <1>1, Owner DEF OwnerOK, Started, Loaded, ProcessJob, Unprotected, Unowned
  <2>2. \A r : r.at = "fail" /\ r.snap = proc[p].snap => OwnerOK(r, row[proc[p].job])
    BY <2>1 DEF OwnerOK, Untried, Started, Settled
  <2>3. QED
    BY <1>1, <1>2, <2>1, <2>2, GoesTo
<1>3. CASE Attempt(p, "call", 1, 1, 0)
  BY <1>1, <1>3, AttemptGood
<1>4. QED
  BY <1>2, <1>3, ScreenShape

\* What the provider charges for at the call of p.
LEMMA CallPays ==
    ASSUME IInv, OwnInv, NEW p \in Procs, proc[p].at = "call", UNCHANGED row,
           \/ UNCHANGED bought
           \/ bought' = [bought EXCEPT ![proc[p].job] = @ + 1]
    PROVE  bought' = bought \/ Pays(proc[p].job)
<1>1. proc[p].at \notin Unowned /\ proc[p].at \in Started
  BY DEF Unowned, Started
<1>2. row[proc[p].job].status = "running"
  BY <1>1, Owner DEF OwnerOK
<1>3. QED
  BY <1>2 DEF Pays, StatusColumn

LEMMA CallGood ==
    ASSUME IInv, OwnInv, NEW p \in Procs, CallAnswered(p) \/ CallLost(p) \/ CallFails(p)
    PROVE  Good
<1>1. proc[p].at = "call" /\ UNCHANGED <<row, queue>>
  BY DEF CallAnswered, CallLost, CallFails
<1>2. bought' = bought \/ Pays(proc[p].job)
  BY <1>1, CallPays DEF CallAnswered, CallLost, CallFails
<1>3. PICK x \in {"call", "fail", "write"}, n, m, k \in Nat : Attempt(p, x, n, m, k)
  BY CallIsAttempt
<1>4. QED
  BY <1>1, <1>2, <1>3, AttemptGood

LEMMA ExecuteGood ==
    ASSUME IInv, OwnInv, NEW p \in Procs, Execute(p)
    PROVE  Good
<1>1. CASE Hit(p) \/ Write(p)
  BY <1>1, FinishGood DEF Hit, Write
<1>2. CASE AutoSave(p, "hitSave") \/ AutoSave(p, "autosave")
  BY <1>2, AutoSaveGood DEF Settled
<1>3. CASE MarkFailed(p)
  BY <1>3, FailedGood DEF MarkFailed, Return
<1>4. QED
  BY <1>1, <1>2, <1>3, LoadGood, StartGood, PrepareGood, AfterGood, ScreenGood, CallGood, PublishGood
     DEF Execute

LEMMA HandleGood ==
    ASSUME IInv, OwnInv, OneChannel, NEW h \in Handlers, Handle(h)
    PROVE  Good
<1>1. h \in Procs
  BY DEF Procs
<1>2. CASE RecoverRow(h)
  BY <1>1, <1>2, FailedGood DEF RecoverRow
<1>3. CASE Dequeue(h) \/ CancelRow(h)
  <2>1. proc[h].at \notin Unowned /\ proc[h].at \in {"dequeue", "cancelRow"}
    BY <1>3 DEF Dequeue, CancelRow, Unowned
  <2>2. QED
    BY <1>1, <2>1, Owner DEF OwnerOK
<1>4. QED
  BY <1>2, <1>3, InsertGood, InsertConflictGood, EnqueueGood, RecoverGood DEF Handle

-----------------------------------------------------------------------------
(* Faults.                                                                 *)

LEMMA EscapeGood ==
    ASSUME IInv, OwnInv, NEW p \in Procs, Escape(p)
    PROVE  Good
<1>1. /\ proc[p].at \in Unprotected /\ proc[p].at \notin Unowned /\ "escape" \in Faults
      /\ UNCHANGED <<row, queue, bought>>
  BY DEF Escape, Unprotected, Unowned
<1>2. CASE proc[p].via = "inline"
  <2>1. "recover" \notin Unowned /\ Goto(p, "recover")
    BY <1>2 DEF Escape, Unowned, Goto
  <2>2. "respond" \in Ops
    BY <1>2 DEF OwnInv
  <2>3. \A r : r.at = "recover" /\ r.snap = proc[p].snap => OwnerOK(r, row[proc[p].job])
    BY <1>1, <2>2 DEF OwnerOK, Untried, Started, Settled, Loaded, ProcessJob, Unprotected, Protected
  <2>4. QED
    BY <1>1, <2>1, <2>3, GoesTo
<1>3. CASE proc[p].via # "inline"
  BY <1>1, <1>3, Leaves DEF Escape
<1>4. QED
  BY <1>2, <1>3

LEMMA CaughtGood ==
    ASSUME IInv, OwnInv, NEW p \in Procs, Caught(p)
    PROVE  Good
<1>1. /\ proc[p].at \in Protected /\ proc[p].at \notin Unowned /\ "caught" \in Faults
      /\ UNCHANGED <<row, queue, bought>> /\ "fail" \notin Unowned
  BY DEF Caught, Protected, Unowned
<1>2. Goto(p, "fail")
  BY DEF Caught
<1>3. proc[p].snap.status = row[proc[p].job].status /\ ~proc[p].snap.cancelRequested
  BY <1>1, Owner DEF OwnerOK, Loaded, ProcessJob, Protected
<1>4. \A r : r.at = "fail" /\ r.snap = proc[p].snap => OwnerOK(r, row[proc[p].job])
  BY <1>1, <1>3 DEF OwnerOK, Untried, Started, Settled
<1>5. QED
  BY <1>1, <1>2, <1>4, GoesTo

\* Who is torn away from its job, or from a request that has none yet.
LEMMA AbandonGood ==
    ASSUME IInv, OwnInv, NEW p \in Procs, proc[p].at # "idle",
           proc' = [proc EXCEPT ![p] = Idle], UNCHANGED <<row, queue>>,
           bought' = bought \/ (proc[p].at \notin Unowned /\ Pays(proc[p].job))
    PROVE  Good
<1>1. CASE proc[p].at \notin Unowned
  BY <1>1, OwnerGoesOn
<1>2. CASE proc[p].at \in Unowned
  <2>1. Idle.job = NoJob /\ Idle.at = "idle" /\ Idle.via = "none" /\ Idle.at \in Unowned
    BY DEF Idle, Unowned
  <2>2. \A q \in Procs : proc[q].job \notin queue
    BY JobsAssumption DEF OwnInv, IInv, TypeOK
  <2>3. \A j \in queue' : /\ row'[j].status = "queued"
                          /\ \A q \in Procs : q # p => proc[q].job # j
    BY <2>2 DEF OwnInv
  <2>4. \A j \in Jobs : ~row'[j].cancelRequested
    BY DEF OwnInv, Exists
  <2>5. OwnInv'
    BY <2>1, <2>3, <2>4, OwnMove
  <2>6. bought' = bought
    BY <1>2
  <2>7. QED
    BY <2>5, <2>6, SameColumn DEF Good
<1>3. QED
  BY <1>1, <1>2

LEMMA FaultGood ==
    ASSUME IInv, OwnInv, Fault
    PROVE  Good
<1>1. ASSUME NEW h \in Handlers, EnqueueFails(h) PROVE Good
  BY <1>1, AbandonGood DEF EnqueueFails, Procs
<1>2. ASSUME NEW p \in Procs, Crash(p) PROVE Good
  <2>1. /\ proc[p].at # "idle" /\ proc' = [proc EXCEPT ![p] = Idle] /\ UNCHANGED <<row, queue>>
        /\ bought' = bought \/ proc[p].at = "call"
    BY <1>2 DEF Crash
  <2>2. bought' = bought \/ (proc[p].at \notin Unowned /\ Pays(proc[p].job))
    BY <1>2, <2>1, CallPays DEF Crash, Unowned
  <2>3. QED
    BY <1>2, <2>1, <2>2, AbandonGood
<1>3. QED
  BY <1>1, <1>2, EscapeGood, CaughtGood DEF Fault

-----------------------------------------------------------------------------
(* The theorems.                                                           *)

LEMMA StepGood ==
    ASSUME IInv, OwnInv, OneChannel, [Next]_vars
    PROVE  Good
<1>1. CASE UNCHANGED vars \/ CacheExpire \/ Rest
  <2>1. UNCHANGED <<row, queue, bought, proc>>
    BY <1>1 DEF vars, CacheExpire, Rest
  <2>2. OwnInv'
    BY <2>1 DEF OwnInv, Exists, OwnerOK
  <2>3. QED
    BY <2>1, <2>2, SameColumn DEF Good
<1>2. CASE Next
  BY <1>1, <1>2, RequestGood, HandleGood, TakeGood, ExecuteGood, FaultGood DEF Next
<1>3. QED
  BY <1>1, <1>2

LEMMA OwnInit == ASSUME Init PROVE OwnInv
<1>1. /\ Idle.job = NoJob /\ Idle.at \in Unowned /\ Idle.at # "insert" /\ Idle.via = "none"
      /\ NoRow.status = "absent" /\ ~NoRow.cancelRequested
  BY DEF Idle, Unowned, NoRow
<1>2. QED
  BY <1>1 DEF Init, OwnInv

\* Inside the envelope a job has one owner, whose object agrees with the row.
THEOREM OneOwner == ASSUME OneChannel PROVE Spec => []OwnInv
<1>1. Init => OwnInv
  BY OwnInit
<1>2. IInv /\ OwnInv /\ [Next]_vars => OwnInv'
  BY StepGood DEF Good
<1>3. QED
  BY <1>1, <1>2, Inductive, PTL DEF Spec

\* Without an exception inside the try, no step takes a job out of a terminal
\* status (tasks.py process_job, public.py submit_response).
THEOREM TerminalStays ==
    ASSUME OneChannel, "caught" \notin Faults
    PROVE  Spec => TerminalIsFinal
<1>1. ASSUME IInv, OwnInv, [Next]_vars
      PROVE  \A j \in Jobs : row[j].status \in Terminal => row'[j].status = row[j].status
  <2>1. Allowed
    BY <1>1, StepGood DEF Good
  <2>2. ASSUME NEW j \in Jobs, row[j].status \in Terminal PROVE StatusColumn'[j] = StatusColumn[j]
    BY <2>1, <2>2 DEF Allowed, Turns, Pays, GivesUp, StatusColumn, Terminal
  <2>3. QED
    BY <2>2 DEF StatusColumn
<1>2. IInv /\ OwnInv /\ [Next]_vars =>
         [\A j \in Jobs : row[j].status \in Terminal => row'[j].status = row[j].status]_vars
  BY <1>1
<1>3. QED
  BY <1>2, OneOwner, Inductive, PTL DEF Spec, TerminalIsFinal

\* The service implements the job contract of the developer guide inside the
\* envelope: every step maps to a step of the contract or to a stutter.
THEOREM ContractImplemented ==
    ASSUME OneChannel, "caught" \notin Faults, "respond" \in Ops => "escape" \notin Faults
    PROVE  Spec => ImplementsContractSafety
<1>1. ASSUME Init PROVE Contract!ContractInit
  BY <1>1 DEF Init, Contract!ContractInit, StatusColumn, NoRow
<1>2. ASSUME IInv, OwnInv, BillInv, [Next]_vars PROVE [Contract!ContractNext]_(Contract!contractVars)
  <2>1. Allowed
    BY <1>2, StepGood DEF Good
  <2>2. CASE StatusColumn' = StatusColumn /\ bought' = bought
    BY <2>2 DEF Contract!contractVars
  <2>3. ASSUME NEW j \in Jobs,
               \/ Turns(j, "absent", "queued") \/ Turns(j, "queued", "running")
               \/ Turns(j, "running", "completed") \/ Turns(j, "running", "failed")
               \/ Pays(j) \/ GivesUp(j)
        PROVE  Contract!ContractNext
    <3>1. StatusColumn[j] = row[j].status
      BY DEF StatusColumn
    <3>2. Pays(j) => bought[j] < Routes * PerRoute
      <4>1. bought'[j] <= Routes * PerRoute
        BY <1>2, BillStep DEF BillInv, OneExecution, OneChannel
      <4>2. bought[j] \in Nat /\ (Pays(j) => bought'[j] = bought[j] + 1) /\ Routes * PerRoute \in Nat
        <5>1. 1 \in 1..Routes /\ 1 \in 1..Rounds /\ 0 \in 0..MaxRetries
          BY RoutesAssumption, RetriesAssumption
        <5>2. QED
          BY <1>2, <5>1, ChargeGrows DEF Pays, IInv, TypeOK
      <4>3. QED
        BY <4>1, <4>2
    <3>3. \/ Contract!Submit(j) \/ Contract!Begin(j) \/ Contract!Buy(j)
          \/ Contract!Settle(j, "completed") \/ Contract!Settle(j, "failed")
      BY <2>3, <3>1, <3>2 DEF Turns, Pays, GivesUp, Contract!Submit, Contract!Begin, Contract!Buy, Contract!Settle
    <3>4. QED
      BY <3>3 DEF Contract!ContractNext
  <2>4. QED
    BY <2>1, <2>2, <2>3 DEF Allowed
<1>3. IInv /\ OwnInv /\ BillInv /\ [Next]_vars => [Contract!ContractNext]_(Contract!contractVars)
  BY <1>2
<1>4. OneExecution
  BY DEF OneChannel, OneExecution
<1>5. QED
  BY <1>1, <1>3, <1>4, OneOwner, OneRightToExecute, Inductive, PTL DEF Spec, ImplementsContractSafety, Contract!ContractSafety

=============================================================================
