------------------------ MODULE JobRefinement_proofs ------------------------
(***************************************************************************)
(* JobLifecycle implements JobContract, for any sets of jobs, documents,   *)
(* workers and API processes, as long as no job runs twice at once.        *)
(***************************************************************************)
EXTENDS JobRefinement, JobLifecycle_proofs, FiniteSetTheorems

(* Where the jobs are after a step that moves none of them.                *)
StandStill ==
  /\ UNCHANGED <<queue, failedReg>>
  /\ \A v \in Workers : task'[v].job = task[v].job

(* Worker w puts its job down.                                             *)
WentIdle(w) ==
  /\ task[w].pc # "idle"
  /\ task' = [task EXCEPT ![w] = TaskIdle]
  /\ UNCHANGED <<queue, upload>>
  /\ failedReg' \in {failedReg, failedReg \cup {task[w].job}}

(* Worker w goes on with its job, or is given one without having any.      *)
LEMMA StepsKeepJobs ==
  ASSUME IndInv, NEW w \in Workers,
         \/ LoadJob(w) \/ MarkProcessing(w) \/ ProcessPdf(w)
         \/ SelectDocument(w) \/ InsertRun(w) \/ InsertConflicts(w)
         \/ CompleteRun(w) \/ CommitRun(w) \/ StoreResult(w)
         \/ MarkSucceeded(w) \/ TaskRaises(w) \/ TaskTimesOut(w)
         \/ TaskDbError(w)
  PROVE  /\ StandStill
         /\ UNCHANGED upload
         /\ task[w].pc # "idle" /\ task'[w].pc # "idle"
         /\ \A v \in Workers : v # w => task'[v] = task[v]
<1>1. task \in [Workers -> Tasks] /\ task[w] \in Tasks
  BY DEF IndInv, TypeOK
<1> USE DEF StandStill, rq, api, Tasks
<1>2. CASE LoadJob(w) \/ MarkProcessing(w) \/ ProcessPdf(w)
  BY <1>1, <1>2 DEF LoadJob, MarkProcessing, ProcessPdf
<1>3. CASE SelectDocument(w) \/ InsertRun(w) \/ InsertConflicts(w)
  BY <1>1, <1>3 DEF SelectDocument, InsertRun, InsertConflicts
<1>4. CASE CompleteRun(w) \/ CommitRun(w)
  BY <1>1, <1>4 DEF CompleteRun, CommitRun
<1>5. CASE StoreResult(w) \/ MarkSucceeded(w)
  BY <1>1, <1>5 DEF StoreResult, MarkSucceeded
<1>6. CASE TaskRaises(w) \/ TaskTimesOut(w) \/ TaskDbError(w)
  BY <1>1, <1>6 DEF TaskRaises, TaskTimesOut, TaskDbError, TaskSteps
<1>7. QED
  BY <1>2, <1>3, <1>4, <1>5, <1>6

(* How an execution ends.                                                  *)
PutsDown(w) ==
  \/ SkipJob(w) \/ TaskReturns(w) \/ HandleFailure(w)
  \/ HandlerGivesUp(w) \/ WorkerStops(w)

LEMMA StepsGoIdle ==
  ASSUME IndInv, NEW w \in Workers, PutsDown(w)
  PROVE  WentIdle(w)
BY DEF PutsDown, WentIdle, SkipJob, TaskReturns, HandleFailure, HandlerGivesUp,
       WorkerStops, rq, api

(* A handler that gives up its job or has not enqueued it yet.             *)
HandlerMoves(p) ==
  /\ StandStill
  /\ UNCHANGED task
  /\ \A q \in Apis : q # p => upload'[q] = upload[q]
  /\ upload'[p].pc = "enqueue" => /\ upload'[p].job \in Jobs
                                  /\ jobs[upload'[p].job].status = "absent"

(* Every step, by what it does with the jobs under way.                    *)
LEMMA TokenMoves ==
  ASSUME IndInv, NoOverlap, [Next]_vars
  PROVE  \/ StandStill /\ UNCHANGED upload
         \/ \E p \in Apis : HandlerMoves(p)
         \/ \E p \in Apis : EnqueueJob(p)
         \/ \E w \in Workers : Deliver(w)
         \/ \E w \in Workers : PutsDown(w) /\ WentIdle(w)
         \/ \E j \in Jobs : RequeueJob(j)
         \/ QueueLost
<1>1. TypeOK /\ UploadsOwnTheirJob
  BY DEF IndInv
<1>2. ASSUME NEW p \in Apis, NEW j \in Jobs, NEW d \in Docs, PutInput(p, j, d)
      PROVE  HandlerMoves(p)
  BY <1>1, <1>2 DEF PutInput, HandlerMoves, StandStill, TypeOK, rq
<1>3. ASSUME NEW p \in Apis, CreateQueuedJob(p) PROVE HandlerMoves(p)
  <2>1. upload[p].job \in Jobs /\ jobs[upload[p].job].status = "absent"
    BY <1>1, <1>3 DEF CreateQueuedJob, UploadsOwnTheirJob, TypeOK
  <2>2. /\ upload'[p].job = upload[p].job
        /\ \A q \in Apis : q # p => upload'[q] = upload[q]
    BY <1>1, <1>3 DEF CreateQueuedJob, TypeOK, Uploads
  <2>3. QED
    BY <1>3, <2>1, <2>2 DEF CreateQueuedJob, HandlerMoves, StandStill, rq
<1>4. ASSUME NEW p \in Apis, EnqueueSwallowed(p) \/ UploadAborts(p)
      PROVE  HandlerMoves(p)
  BY <1>1, <1>4
     DEF EnqueueSwallowed, UploadAborts, HandlerMoves, StandStill, TypeOK,
         UploadIdle, rq
<1>5. ASSUME NEW w \in Workers, AbandonJob(w) PROVE FALSE
  BY <1>5 DEF AbandonJob, Fault, NoOverlap
<1>6. ASSUME UNCHANGED vars PROVE StandStill /\ UNCHANGED upload
  BY <1>6 DEF vars, rq, api, StandStill
<1>7. QED
  BY <1>2, <1>3, <1>4, <1>5, <1>6, StepsKeepJobs, StepsGoIdle
     DEF Next, UploadStep, TaskStep, PutsDown

LEMMA OneTokenStep ==
  ASSUME IndInv, NoOverlap, OneToken, [Next]_vars
  PROVE  OneToken'
<1>1. /\ queue \in Seq(Jobs) /\ failedReg \subseteq Jobs
      /\ task \in [Workers -> Tasks] /\ upload \in [Apis -> Uploads]
  BY DEF IndInv, TypeOK
<1>2. /\ \A w \in Workers : task[w].pc # "idle" => task[w].job \in Jobs
      /\ \A w \in Workers : task[w].pc = "idle" => task[w].job = NoJob
      /\ \A w \in Workers : task'[w].pc # "idle" => task'[w].job \in Jobs
      /\ \A p \in Apis : upload[p].pc = "enqueue" => upload[p].job \in Jobs
      /\ NoJob \notin Jobs
  BY JobConstants, TasksHaveJobsStep
     DEF IndInv, TasksHaveJobs, UploadsOwnTheirJob, TypeOK
<1>3. CASE StandStill /\ UNCHANGED upload
  BY <1>2, <1>3 DEF StandStill, OneToken, InQueue
<1>4. ASSUME NEW p \in Apis, HandlerMoves(p) PROVE OneToken'
  <2>1. upload'[p].pc = "enqueue" =>
          /\ ~InQueue(upload'[p].job)
          /\ upload'[p].job \notin failedReg
          /\ \A w \in Workers : task[w].job # upload'[p].job
    BY <1>4 DEF HandlerMoves, IndInv, RowsComeFirst, Live
  <2>2. QED
    BY <1>4, <2>1 DEF HandlerMoves, StandStill, OneToken, InQueue
<1>5. ASSUME NEW j \in Jobs, ~InQueue(j),
             \A w \in Workers : task[w].job # j,
             j \notin failedReg',
             \A p \in Apis : upload'[p].pc = "enqueue" =>
                            upload'[p] = upload[p] /\ upload[p].job # j,
             queue' = Append(queue, j),
             failedReg' \subseteq failedReg,
             UNCHANGED task
      PROVE  OneToken'
  <2>1. /\ Len(queue) \in Nat
        /\ Len(queue') = Len(queue) + 1
        /\ queue'[Len(queue) + 1] = j
        /\ \A i \in 1..Len(queue) : queue'[i] = queue[i]
    BY <1>1, <1>5
  <2>2. \A k : InQueue(k)' => InQueue(k) \/ k = j
    BY <2>1 DEF InQueue
  <2>3. \A i, k \in 1..Len(queue') : i # k => queue'[i] # queue'[k]
    BY <1>5, <2>1 DEF OneToken, InQueue
  <2>4. QED
    BY <1>5, <2>2, <2>3 DEF OneToken
<1>6. ASSUME NEW p \in Apis, EnqueueJob(p) PROVE OneToken'
  <2>1. /\ upload[p].pc = "enqueue" /\ upload[p].job \in Jobs
        /\ queue' = Append(queue, upload[p].job)
        /\ upload'[p].pc = "idle"
        /\ \A q \in Apis : q # p => upload'[q] = upload[q]
        /\ UNCHANGED <<task, failedReg>>
    BY <1>1, <1>2, <1>6 DEF EnqueueJob, UploadIdle
  <2>2. \A q \in Apis : upload[q].pc # "idle" /\ q # p
                         => upload[q].job # upload[p].job
    BY <2>1 DEF IndInv, UploadsOwnTheirJob
  <2>3. QED
    BY <1>5, <2>1, <2>2 DEF OneToken
<1>7. ASSUME NEW j \in Jobs, RequeueJob(j) PROVE OneToken'
  <2>1. /\ j \in failedReg /\ failedReg' = failedReg \ {j}
        /\ queue' = Append(queue, j)
        /\ UNCHANGED <<task, upload>>
    BY <1>7 DEF RequeueJob, api
  <2>2. QED
    BY <1>5, <2>1 DEF OneToken
<1>8. ASSUME NEW w \in Workers, Deliver(w) PROVE OneToken'
  <2>1. /\ queue # <<>> /\ queue' = Tail(queue)
        /\ task' = [task EXCEPT ![w] = NewTask(Head(queue))]
        /\ UNCHANGED <<failedReg, upload>>
    BY <1>8 DEF Deliver, api
  <2> DEFINE j == Head(queue)
  <2>2. /\ Len(queue) \in Nat /\ Len(queue) > 0 /\ j = queue[1]
        /\ Len(queue') = Len(queue) - 1
        /\ \A i \in 1..Len(queue') : queue'[i] = queue[i + 1]
    BY SMTT(20), <1>1, <2>1
  <2>3. InQueue(j) /\ j \in Jobs
    BY <1>1, <2>2 DEF InQueue
  <2>4. /\ \A k : InQueue(k)' => InQueue(k) /\ k # j
        /\ \A i, k \in 1..Len(queue') : i # k => queue'[i] # queue'[k]
    BY <2>2 DEF OneToken, InQueue
  <2>5. /\ task'[w].job = j
        /\ \A v \in Workers : v # w => task'[v] = task[v]
    BY <1>1, <2>1 DEF NewTask
  <2> HIDE DEF j
  <2>6. QED
    BY <1>2, <2>1, <2>3, <2>4, <2>5 DEF OneToken
<1>9. ASSUME NEW w \in Workers, WentIdle(w) PROVE OneToken'
  <2>1. /\ task[w].pc # "idle" /\ task[w].job \in Jobs
        /\ task'[w].pc = "idle" /\ task'[w].job = NoJob
        /\ \A v \in Workers : v # w => task'[v] = task[v]
        /\ UNCHANGED <<queue, upload>>
        /\ failedReg' \in {failedReg, failedReg \cup {task[w].job}}
    BY <1>1, <1>2, <1>9 DEF WentIdle, TaskIdle
  <2>2. ~InQueue(NoJob)
    BY <1>1, <1>2 DEF InQueue
  <2>3. \A k : InQueue(k)' <=> InQueue(k)
    BY <2>1 DEF InQueue
  <2>4. NoJob \notin failedReg'
    BY <1>1, <1>2, <2>1
  <2>5. QED
    BY <1>1, <1>2, <2>1, <2>2, <2>3, <2>4 DEF OneToken
<1>10. CASE QueueLost
  BY <1>10 DEF QueueLost, OneToken, InQueue, api
<1>11. QED
  BY <1>3, <1>4, <1>6, <1>7, <1>8, <1>9, <1>10, TokenMoves

----------------------------------------------------------------------------
(* Nobody else writes the row or the result of a job that is worked on.    *)
LEMMA OthersKeepRow ==
  ASSUME IndInv, OneToken, [Next]_vars, NEW v \in Workers,
         task[v].pc # "idle", task'[v] = task[v]
  PROVE  /\ jobs'[task[v].job] = jobs[task[v].job]
         /\ results'[task[v].job] = results[task[v].job]
<1> DEFINE j == task[v].job
<1>1. TypeOK /\ j \in Jobs /\ jobs[j].status # "absent"
  BY DocOfTask DEF IndInv
<1>2. ASSUME NEW p \in Apis, CreateQueuedJob(p) PROVE jobs'[j] = jobs[j]
  <2>1. jobs[upload[p].job].status = "absent"
    BY <1>2 DEF CreateQueuedJob, IndInv, UploadsOwnTheirJob
  <2>2. QED
    BY <1>1, <1>2, <2>1 DEF CreateQueuedJob, TypeOK
<1>3. ASSUME NEW w \in Workers,
             MarkProcessing(w) \/ MarkSucceeded(w) \/ HandleFailure(w)
      PROVE  jobs'[j] = jobs[j]
  <2>1. w # v
    BY <1>1, <1>3 DEF MarkProcessing, MarkSucceeded, HandleFailure, TypeOK,
                      Tasks, TaskIdle
  <2>2. task[w].job # j
    BY <2>1 DEF OneToken
  <2>3. QED
    BY <1>1, <1>3, <2>2
       DEF MarkProcessing, MarkSucceeded, HandleFailure, TypeOK
<1>4. ASSUME NEW w \in Workers, StoreResult(w) PROVE results'[j] = results[j]
  <2>1. w # v
    BY <1>1, <1>4 DEF StoreResult, TypeOK, Tasks
  <2>2. task[w].job # j
    BY <2>1 DEF OneToken
  <2>3. QED
    BY <1>1, <1>4, <2>2 DEF StoreResult, TypeOK
<1>5. QED
  BY <1>2, <1>3, <1>4, JobsWriters, ObjectsWriters

(* A worker's own steps keep what it knows of its job.                     *)
LEMMA KnowsNoTables ==
  ASSUME IndInv, SoloInv, [Next]_vars, NEW v \in Workers, NoTablesStep(v)
  PROVE  /\ task'[v].pc = "idle" => sess'[v].runs = {}
         /\ task'[v].pc # "idle" =>
              Knows(task'[v], sess'[v].runs, jobs'[task'[v].job],
                    results'[task'[v].job])
<1> DEFINE t == task[v]
           j == t.job
           Goal == /\ task'[v].pc = "idle" => sess'[v].runs = {}
                   /\ task'[v].pc # "idle" =>
                        Knows(task'[v], sess'[v].runs, jobs'[task'[v].job],
                              results'[task'[v].job])
<1>1. /\ task \in [Workers -> Tasks] /\ jobs \in [Jobs -> JobRows]
      /\ results \in [Jobs -> Nat]
  BY DEF IndInv, TypeOK
<1>2. t.pc # "idle" => /\ j \in Jobs /\ jobs[j].status # "absent"
                       /\ Knows(t, sess[v].runs, jobs[j], results[j])
  BY DocOfTask DEF SoloInv, WorkersKnow
<1>3. t.pc = "idle" => sess[v].runs = {}
  BY DEF SoloInv, IdleIsClean
<1>4. sess' = sess
  BY DEF NoTablesStep, Deliver, SkipJob, LoadJob, MarkProcessing, ProcessPdf,
         SelectDocument, StoreResult, MarkSucceeded, TaskReturns, TaskRaises,
         TaskTimesOut, AbandonJob, db, tables
<1>5. CASE Deliver(v)
  <2>1. t.pc = "idle" /\ task'[v].pc = "load" /\ task'[v].view = "absent"
    BY <1>1, <1>5 DEF Deliver, NewTask
  <2>2. QED
    BY <1>3, <1>4, <2>1 DEF Knows
<1>6. CASE SkipJob(v) \/ TaskReturns(v)
  <2>1. t.pc \in {"load", "return"} /\ task'[v].pc = "idle"
    BY <1>1, <1>6 DEF SkipJob, TaskReturns, TaskIdle
  <2>2. QED
    BY <1>2, <1>4, <2>1 DEF Knows
<1>7. CASE LoadJob(v)
  <2>1. /\ t.pc = "load" /\ task'[v].pc = "mark" /\ task'[v].job = j
        /\ task'[v].view = jobs[j].status
        /\ jobs[j].status \notin Terminal \cup {"absent"}
        /\ jobs' = jobs
    BY <1>1, <1>7 DEF LoadJob, Tasks, db
  <2>2. jobs[j].status \in {"queued", "processing"}
    BY <1>1, <1>2, <2>1 DEF JobRows, Statuses
  <2>3. QED
    BY <1>2, <1>4, <2>1, <2>2 DEF Knows
<1>8. CASE MarkProcessing(v)
  <2>1. t.pc = "mark"
    BY <1>8 DEF MarkProcessing
  <2>2. UpdatedStatus(v, "processing") = "processing"
    BY <1>2, <2>1 DEF Knows, UpdatedStatus
  <2>3. /\ task'[v].pc = "process" /\ task'[v].job = j
        /\ task'[v].view = "processing"
        /\ jobs'[j].status = "processing"
    BY <1>1, <1>2, <1>8, <2>1, <2>2 DEF MarkProcessing, Tasks, JobRows
  <2>4. QED
    BY <1>2, <1>4, <2>1, <2>3 DEF Knows
<1>9. CASE ProcessPdf(v) \/ SelectDocument(v)
  <2>1. /\ t.pc \in {"process", "select"}
        /\ task'[v].pc \in {"select", "insert"}
        /\ task'[v].job = j /\ task'[v].view = t.view /\ jobs' = jobs
    BY <1>1, <1>9 DEF ProcessPdf, SelectDocument, Tasks, db
  <2>2. QED
    BY <1>2, <1>4, <2>1 DEF Knows
<1>10. CASE StoreResult(v)
  <2>1. /\ t.pc = "store" /\ task'[v].pc = "finish" /\ task'[v].run = t.run
        /\ task'[v].job = j /\ task'[v].view = t.view /\ jobs' = jobs
        /\ results' = [results EXCEPT ![j] = t.run]
    BY <1>1, <1>10 DEF StoreResult, Tasks, db
  <2>2. results'[j] = t.run
    BY <1>1, <1>2, <2>1
  <2>3. QED
    BY <1>2, <1>4, <2>1, <2>2 DEF Knows
<1>11. CASE MarkSucceeded(v)
  <2>1. t.pc = "finish"
    BY <1>11 DEF MarkSucceeded
  <2>2. UpdatedStatus(v, "succeeded") = "succeeded"
    BY <1>2, <2>1 DEF Knows, UpdatedStatus
  <2>3. /\ task'[v].pc = "return" /\ task'[v].job = j
        /\ task'[v].view = "succeeded"
        /\ jobs'[j].status = "succeeded"
    BY <1>1, <1>2, <1>11, <2>1, <2>2 DEF MarkSucceeded, Tasks, JobRows
  <2>4. QED
    BY <1>2, <1>4, <2>1, <2>3 DEF Knows
<1>12. CASE TaskRaises(v) \/ TaskTimesOut(v)
  <2>1. /\ t.pc \notin {"idle", "except"} /\ task'[v].pc = "except"
        /\ task'[v].job = j /\ task'[v].view = t.view /\ jobs' = jobs
    BY <1>1, <1>12 DEF TaskRaises, TaskTimesOut, Tasks, db
  <2>2. t.pc \in TaskSteps
    BY <1>1, <2>1 DEF Tasks
  <2>3. t.pc # "load" => /\ t.view = jobs[j].status
                         /\ t.view \in {"queued", "processing", "succeeded"}
    BY <1>2, <2>1, <2>2 DEF Knows, TaskSteps
  <2>4. \/ sess[v].runs = {}
        \/ /\ t.pc # "load"
           /\ \E y \in sess[v].runs : sess[v].runs = {y}
                                     /\ y.doc = jobs[j].doc
    BY <1>2, <2>1 DEF Knows, FinishedRun
  <2>5. t.pc = "load" => t.view = "absent"
    BY <1>2, <2>1 DEF Knows
  <2>6. QED
    BY <1>4, <2>1, <2>3, <2>4, <2>5 DEF Knows
<1>13. CASE AbandonJob(v)
  BY <1>13 DEF AbandonJob, Fault, SoloInv, NoOverlap
<1>14. QED
  BY <1>5, <1>6, <1>7, <1>8, <1>9, <1>10, <1>11, <1>12, <1>13
     DEF NoTablesStep

LEMMA KnowsTables ==
  ASSUME IndInv, SoloInv, [Next]_vars, NEW v \in Workers, TablesStep(v)
  PROVE  /\ task'[v].pc = "idle" => sess'[v].runs = {}
         /\ task'[v].pc # "idle" =>
              Knows(task'[v], sess'[v].runs, jobs'[task'[v].job],
                    results'[task'[v].job])
<1> DEFINE t == task[v]
           j == t.job
           Goal == /\ task'[v].pc = "idle" => sess'[v].runs = {}
                   /\ task'[v].pc # "idle" =>
                        Knows(task'[v], sess'[v].runs, jobs'[task'[v].job],
                              results'[task'[v].job])
<1>1. /\ task \in [Workers -> Tasks] /\ jobs \in [Jobs -> JobRows]
      /\ sess \in [Sessions -> SessionStates] /\ v \in Sessions
  BY JobConstants DEF IndInv, TypeOK, PersistenceTypeOK
<1>2. t.pc # "idle" => Knows(t, sess[v].runs, jobs[j], results[j])
  BY DEF SoloInv, WorkersKnow
<1>3. CASE InsertRun(v)
  <2> DEFINE row == [id |-> runSeq + 1, doc |-> DocOf(v),
                     status |-> "PROCESSING"]
  <2>1. /\ t.pc = "insert" /\ task'[v].pc = "complete" /\ task'[v].job = j
        /\ task'[v].run = runSeq + 1 /\ task'[v].view = t.view
        /\ jobs' = jobs
        /\ sess'[v].runs = sess[v].runs \cup {row}
    BY <1>1, <1>3 DEF InsertRun, OpenRun, Tasks, SessionStates
  <2>2. sess'[v].runs = {row}
    BY <1>2, <2>1 DEF Knows
  <2>3. row = [id |-> task'[v].run, doc |-> jobs'[j].doc,
               status |-> "PROCESSING"]
    BY <2>1 DEF DocOf
  <2> HIDE DEF row
  <2>4. QED
    BY <1>2, <2>1, <2>2, <2>3 DEF Knows
<1>4. CASE CompleteRun(v)
  <2> DEFINE row == FinishedRun(t.run, DocOf(v))
  <2>1. /\ t.pc = "complete" /\ task'[v].pc = "commit" /\ task'[v].job = j
        /\ task'[v].run = t.run /\ task'[v].view = t.view
        /\ jobs' = jobs
        /\ sess'[v].runs = {x \in sess[v].runs : x.id # row.id} \cup {row}
    BY <1>1, <1>4 DEF CompleteRun, WriteRun, Tasks, SessionStates
  <2>2. \A x \in sess[v].runs : x.id = row.id
    BY <1>2, <2>1 DEF Knows, FinishedRun
  <2>3. sess'[v].runs = {row}
    BY <2>1, <2>2
  <2>4. row = FinishedRun(task'[v].run, jobs'[j].doc)
    BY <2>1 DEF DocOf
  <2> HIDE DEF row
  <2>5. QED
    BY <1>2, <2>1, <2>3, <2>4 DEF Knows
<1>5. CASE CommitRun(v)
  <2>1. /\ t.pc = "commit" /\ task'[v].pc = "store" /\ task'[v].job = j
        /\ task'[v].view = jobs[j].status
        /\ jobs' = jobs
        /\ sess'[v].runs = {}
    BY <1>1, <1>5 DEF CommitRun, CommitTables, FreshSession, Tasks
  <2>2. QED
    BY <1>2, <2>1 DEF Knows
<1>6. CASE InsertConflicts(v) \/ TaskDbError(v)
  <2>1. /\ t.pc \in TaskSteps /\ task'[v].pc = "except" /\ task'[v].job = j
        /\ task'[v].view = t.view
        /\ jobs' = jobs
        /\ sess'[v].runs = {}
    BY <1>1, <1>6
       DEF InsertConflicts, UniqueViolation, TaskDbError, PoisonTables,
           PoisonedSession, Tasks, TaskSteps
  <2>2. \/ t.view = "absent"
        \/ /\ t.view = jobs[j].status
           /\ t.view \in {"queued", "processing", "succeeded"}
    BY <1>2, <2>1 DEF Knows, TaskSteps
  <2>3. QED
    BY <2>1, <2>2 DEF Knows
<1>7. CASE HandleFailure(v) \/ HandlerGivesUp(v) \/ WorkerStops(v)
  BY <1>1, <1>7
     DEF HandleFailure, HandlerGivesUp, WorkerStops, CommitTables,
         CloseTables, FreshSession, TaskIdle
<1>8. QED
  BY <1>3, <1>4, <1>5, <1>6, <1>7 DEF TablesStep

LEMMA WorkersKnowStep ==
  ASSUME IndInv, SoloInv, [Next]_vars
  PROVE  WorkersKnow' /\ IdleIsClean'
<1>1. SUFFICES ASSUME NEW v \in Workers
               PROVE  /\ task'[v].pc = "idle" => sess'[v].runs = {}
                      /\ task'[v].pc # "idle" =>
                           Knows(task'[v], sess'[v].runs, jobs'[task'[v].job],
                                 results'[task'[v].job])
  BY DEF WorkersKnow, IdleIsClean, Knows, FinishedRun
<1>2. CASE NoTablesStep(v) \/ TablesStep(v)
  BY <1>2, KnowsNoTables, KnowsTables
<1>3. CASE task'[v] = task[v] /\ sess'[v] = sess[v]
  BY <1>3, OthersKeepRow DEF SoloInv, WorkersKnow, IdleIsClean
<1>4. QED
  BY <1>2, <1>3, OthersKeepTask, OthersKeepSession

(* No job is ever cancelled, and the two answers of a job agree.           *)
LEMMA AnswersStep ==
  ASSUME IndInv, SoloInv, [Next]_vars
  PROVE  RowsArePlain' /\ AnswerAgrees'
<1>1. SUFFICES ASSUME NEW j \in Jobs
               PROVE  /\ jobs'[j].status # "cancelled"
                      /\ jobs'[j].status = "absent" => jobs'[j].run = NoRun
                      /\ jobs'[j].status = "succeeded"
                           => results'[j] = jobs'[j].run
  BY DEF RowsArePlain, AnswerAgrees
<1>2. /\ TypeOK
      /\ jobs[j].status # "cancelled"
      /\ jobs[j].status = "absent" => jobs[j].run = NoRun
      /\ jobs[j].status = "succeeded" => results[j] = jobs[j].run
  BY DEF IndInv, SoloInv, RowsArePlain, AnswerAgrees
<1>3. jobs[j].status = "succeeded" => results'[j] = results[j]
  <2>1. ASSUME NEW w \in Workers, StoreResult(w), task[w].job = j
        PROVE  jobs[j].status = "processing"
    BY <2>1 DEF StoreResult, SoloInv, WorkersKnow, Knows
  <2>2. ASSUME NEW w \in Workers, StoreResult(w), task[w].job # j
        PROVE  results'[j] = results[j]
    BY <1>2, <2>2 DEF StoreResult, TypeOK
  <2>3. QED
    BY <2>1, <2>2, ObjectsWriters
<1>4. CASE jobs'[j] = jobs[j]
  BY <1>2, <1>3, <1>4
<1>5. ASSUME NEW p \in Apis, CreateQueuedJob(p)
      PROVE  jobs'[j] = jobs[j] \/ jobs'[j].status = "queued"
  BY <1>2, <1>5 DEF CreateQueuedJob, QueuedJob, TypeOK
<1>6. ASSUME NEW w \in Workers, MarkProcessing(w)
      PROVE  jobs'[j] = jobs[j] \/ jobs'[j].status = "processing"
  <2>1. UpdatedStatus(w, "processing") = "processing"
    BY <1>6 DEF MarkProcessing, SoloInv, WorkersKnow, Knows, UpdatedStatus
  <2>2. QED
    BY <1>2, <1>6, <2>1 DEF MarkProcessing, TypeOK, JobRows
<1>7. ASSUME NEW w \in Workers, HandleFailure(w)
      PROVE  jobs'[j] = jobs[j] \/ jobs'[j].status = "failed"
  <2>1. UpdatedStatus(w, "failed") = "failed"
    BY <1>7 DEF HandleFailure, SoloInv, WorkersKnow, Knows, UpdatedStatus
  <2>2. QED
    BY <1>2, <1>7, <2>1 DEF HandleFailure, TypeOK, JobRows
<1>8. ASSUME NEW w \in Workers, MarkSucceeded(w)
      PROVE  \/ jobs'[j] = jobs[j]
             \/ /\ jobs'[j].status = "succeeded"
                /\ results'[j] = jobs'[j].run
  <2>1. /\ UpdatedStatus(w, "succeeded") = "succeeded"
        /\ results[task[w].job] = task[w].run
    BY <1>8 DEF MarkSucceeded, SoloInv, WorkersKnow, Knows, UpdatedStatus
  <2>2. results' = results
    BY <1>8 DEF MarkSucceeded, objects
  <2>3. QED
    BY <1>2, <1>8, <2>1, <2>2 DEF MarkSucceeded, TypeOK, JobRows
<1>9. QED
  BY <1>4, <1>5, <1>6, <1>7, <1>8, JobsWriters

LEMMA SoloStep == IndInv /\ SoloInv /\ [Next]_vars => SoloInv'
<1>1. SUFFICES ASSUME IndInv, SoloInv, [Next]_vars PROVE SoloInv'
  OBVIOUS
<1>2. OneToken'
  BY <1>1, OneTokenStep DEF SoloInv
<1>3. NoOverlap'
  BY <1>1 DEF SoloInv, NoOverlap
<1>4. QED
  BY <1>1, <1>2, <1>3, WorkersKnowStep, AnswersStep DEF SoloInv

LEMMA SoloInit == Init /\ NoOverlap => SoloInv
<1>1. SUFFICES ASSUME Init, NoOverlap PROVE SoloInv
  OBVIOUS
<1>2. OneToken
  BY <1>1 DEF Init, OneToken, InQueue, TaskIdle, UploadIdle
<1>3. WorkersKnow /\ IdleIsClean
  BY <1>1, JobConstants
     DEF Init, PersistenceInit, WorkersKnow, IdleIsClean, TaskIdle,
         FreshSession
<1>4. RowsArePlain /\ AnswerAgrees
  BY <1>1 DEF Init, RowsArePlain, AnswerAgrees, AbsentJob
<1>5. QED
  BY <1>1, <1>2, <1>3, <1>4 DEF SoloInv

LEMMA Solo == NoOverlap /\ Spec => [](IndInv /\ SoloInv)
<1>1. Init /\ NoOverlap => IndInv /\ SoloInv
  BY InitInv, SoloInit
<1>2. (IndInv /\ SoloInv) /\ [Next]_vars => (IndInv /\ SoloInv)'
  BY IndInvStep, SoloStep
<1>3. QED
  BY <1>1, <1>2, PTL DEF Spec

(* The analysis_id a client finds in the job and the one in the result it  *)
(* downloads are the same, for every failure that does not make a job run  *)
(* twice at once: tasks.py stores the result before it marks the job.      *)
THEOREM AnswersAgree == NoOverlap /\ Spec => []AnswerAgrees
<1>1. SoloInv => AnswerAgrees
  BY DEF SoloInv
<1>2. QED
  BY <1>1, Solo, PTL

----------------------------------------------------------------------------
(* What the contract sees of a step                                        *)

LEMMA RunsUnseen ==
  ASSUME runs' = runs
  PROVE  Analyses' = Analyses
BY DEF Analyses

LEMMA RowsUnseen ==
  ASSUME jobs' = jobs
  PROVE  StateOf' = StateOf /\ DocsOf' = DocsOf /\ AnswerOf' = AnswerOf
BY DEF StateOf, DocsOf, AnswerOf

(* A status is written, and the rest of the row is not.                    *)
LEMMA StatusSeen ==
  ASSUME IndInv, NEW j \in Jobs, NEW s,
         jobs' = [jobs EXCEPT ![j].status = s]
  PROVE  /\ StateOf' = [StateOf EXCEPT ![j] = s]
         /\ DocsOf' = DocsOf
         /\ AnswerOf' = AnswerOf
<1>1. jobs \in [Jobs -> JobRows]
  BY DEF IndInv, TypeOK
<1>2. /\ jobs'[j].status = s
      /\ \A k \in Jobs : /\ jobs'[k].doc = jobs[k].doc
                         /\ jobs'[k].run = jobs[k].run
                         /\ k # j => jobs'[k].status = jobs[k].status
  BY <1>1 DEF JobRows
<1>3. QED
  BY <1>2 DEF StateOf, DocsOf, AnswerOf

LEMMA HoldersUnseen ==
  ASSUME \A v \in Workers : task'[v].job = task[v].job
  PROVE  Working' = Working
BY DEF Working, Live

(* A worker that puts its job down was the only one to work on it.         *)
LEMMA PutDownSeen ==
  ASSUME IndInv, OneToken, NEW w \in Workers, WentIdle(w)
  PROVE  /\ task[w].job \in Working
         /\ Working' = Working \ {task[w].job}
<1>1. /\ task[w].job \in Jobs
      /\ task'[w].job \notin Jobs
      /\ \A v \in Workers : v # w => /\ task'[v] = task[v]
                                     /\ task[v].job # task[w].job
  BY DocOfTask, JobConstants DEF WentIdle, OneToken, IndInv, TypeOK, TaskIdle
<1>2. QED
  BY <1>1 DEF Working, Live

(* An analysis of document d appears, with an id of its own.               *)
Appears(d) ==
  \E x \in Analyses' : /\ x[1] # 0 /\ x[2] = d
                       /\ \A y \in Analyses : y[1] # x[1]
                       /\ Analyses' = Analyses \cup {x}

(* The commit of a finished run makes one appear, any other makes none.    *)
LEMMA CommitSeen ==
  ASSUME IndInv, NEW w \in Workers, NEW d, CommitTables(w),
         sess[w].runs # {} =>
           \E y \in sess[w].runs : sess[w].runs = {y} /\ y.doc = d
  PROVE  Analyses' = Analyses \/ Appears(d)
<1>1. w \in Sessions /\ runs' = runs \cup sess[w].runs
  BY JobConstants DEF IndInv, PendingIdsAreFresh, CommitTables
<1>2. CASE sess[w].runs = {}
  BY <1>1, <1>2 DEF Analyses
<1>3. ASSUME NEW y \in sess[w].runs, sess[w].runs = {y}, y.doc = d,
             y.status = "COMPLETED"
      PROVE  Appears(d)
  <2> DEFINE x == <<y.id, y.doc>>
  <2>1. y.id # 0 /\ \A r \in runs : r.id # y.id
    BY <1>1 DEF IndInv, PendingIdsAreFresh, NoRun
  <2>2. Analyses' = Analyses \cup {x}
    BY <1>1, <1>3 DEF Analyses
  <2>3. \A z \in Analyses : z[1] # x[1]
    BY <2>1 DEF Analyses
  <2>4. x \in Analyses' /\ x[1] # 0 /\ x[2] = d
    BY <1>3, <2>1, <2>2
  <2>5. QED
    BY <2>2, <2>3, <2>4 DEF Appears
<1>4. ASSUME NEW y \in sess[w].runs, sess[w].runs = {y},
             y.status # "COMPLETED"
      PROVE  Analyses' = Analyses
  BY <1>1, <1>4 DEF Analyses
<1>5. CASE sess[w].runs # {}
  <2>1. PICK y \in sess[w].runs : sess[w].runs = {y} /\ y.doc = d
    BY <1>5
  <2>2. CASE y.status = "COMPLETED"
    BY <1>3, <2>1, <2>2
  <2>3. CASE y.status # "COMPLETED"
    BY <1>4, <2>1, <2>3
  <2>4. QED
    BY <2>2, <2>3
<1>6. QED
  BY <1>2, <1>5

----------------------------------------------------------------------------
(* Every step of JobLifecycle is a step of the contract, or none           *)

Seen == <<StateOf, DocsOf, Analyses, results, AnswerOf, Working>>

(* Steps the polling client is promised nothing about.                     *)
LEMMA UnseenSteps ==
  ASSUME IndInv, NEW w \in Workers,
         \/ LoadJob(w) \/ ProcessPdf(w) \/ SelectDocument(w)
         \/ InsertRun(w) \/ InsertConflicts(w) \/ CompleteRun(w)
         \/ TaskRaises(w) \/ TaskTimesOut(w) \/ TaskDbError(w)
  PROVE  UNCHANGED Seen
<1>1. jobs' = jobs /\ results' = results /\ runs' = runs
  BY DEF LoadJob, ProcessPdf, SelectDocument, InsertRun, OpenRun,
         InsertConflicts, UniqueViolation, CompleteRun, WriteRun, TaskRaises,
         TaskTimesOut, TaskDbError, PoisonTables, db, tables, objects
<1>2. Working' = Working
  BY StepsKeepJobs, HoldersUnseen DEF StandStill
<1>3. QED
  BY <1>1, <1>2, RunsUnseen, RowsUnseen DEF Seen

LEMMA AcceptStep ==
  ASSUME IndInv, SoloInv, NEW p \in Apis, CreateQueuedJob(p)
  PROVE  \E j \in Jobs : Contract!Accept(j)
<1> DEFINE j == upload[p].job
           d == upload[p].doc
<1>1. j \in Jobs /\ d \in Docs /\ jobs[j].status = "absent"
  BY DEF CreateQueuedJob, IndInv, UploadsOwnTheirJob, TypeOK
<1>2. /\ jobs \in [Jobs -> JobRows]
      /\ jobs' = [jobs EXCEPT ![j] = QueuedJob(d)]
      /\ jobs[j].run = NoRun
      /\ runs' = runs /\ results' = results /\ task' = task
  BY <1>1 DEF CreateQueuedJob, IndInv, TypeOK, tables, objects, SoloInv,
              RowsArePlain
<1>3. /\ StateOf' = [StateOf EXCEPT ![j] = "queued"]
      /\ DocsOf' = [DocsOf EXCEPT ![j] = d]
      /\ AnswerOf' = AnswerOf
  BY <1>1, <1>2 DEF StateOf, DocsOf, AnswerOf, QueuedJob
<1>4. Working' = Working /\ Analyses' = Analyses
  BY <1>2, HoldersUnseen, RunsUnseen
<1>5. StateOf[j] = "absent"
  BY <1>1 DEF StateOf
<1> HIDE DEF j, d
<1>6. Contract!Accept(j)
  BY <1>1, <1>2, <1>3, <1>4, <1>5 DEF Contract!Accept
<1>7. QED
  BY <1>1, <1>6

LEMMA BeginStep ==
  ASSUME IndInv, OneToken, NEW w \in Workers, Deliver(w)
  PROVE  \E j \in Jobs : Contract!Begin(j)
<1> DEFINE j == Head(queue)
<1>1. /\ queue \in Seq(Jobs) /\ task \in [Workers -> Tasks]
      /\ jobs' = jobs /\ results' = results /\ runs' = runs
      /\ queue # <<>> /\ task[w].pc = "idle"
      /\ task' = [task EXCEPT ![w] = NewTask(j)]
  BY DEF Deliver, IndInv, TypeOK, db, tables, objects
<1>2. j \in Jobs /\ InQueue(j)
  BY SMTT(20), <1>1 DEF InQueue
<1>3. jobs[j].status # "absent"
  BY <1>2 DEF IndInv, RowsComeFirst
<1>4. /\ task[w].job \notin Jobs
      /\ task'[w].job = j
      /\ \A v \in Workers : v # w => task'[v] = task[v]
      /\ \A v \in Workers : task[v].job # j
  BY <1>1, <1>2, JobConstants
     DEF IndInv, TasksHaveJobs, NewTask, OneToken
<1> HIDE DEF j
<1>5. j \notin Working /\ Working' = Working \cup {j}
  BY <1>2, <1>4 DEF Working, Live
<1>6. Contract!Begin(j)
  BY <1>1, <1>2, <1>3, <1>5, RowsUnseen, RunsUnseen
     DEF Contract!Begin, StateOf
<1>7. QED
  BY <1>2, <1>6

(* What a worker past its look at the row may rely on.                     *)
LEMMA Busy ==
  ASSUME IndInv, SoloInv, NEW w \in Workers, task[w].pc # "idle"
  PROVE  /\ task[w].job \in Jobs
         /\ task[w].job \in Working
         /\ StateOf[task[w].job] = jobs[task[w].job].status
         /\ DocsOf[task[w].job] = DocOf(w)
         /\ jobs[task[w].job] \in JobRows
         /\ jobs[task[w].job].status \notin {"absent", "cancelled"}
         /\ Knows(task[w], sess[w].runs, jobs[task[w].job],
                  results[task[w].job])
BY DocOfTask
   DEF Working, Live, StateOf, DocsOf, DocOf, IndInv, TypeOK, SoloInv,
       WorkersKnow, RowsArePlain

LEMMA WorkStep ==
  ASSUME IndInv, SoloInv, NEW w \in Workers, MarkProcessing(w)
  PROVE  UNCHANGED Seen \/ \E j \in Jobs : Contract!Work(j)
<1> DEFINE j == task[w].job
<1>1. /\ task[w].pc = "mark"
      /\ jobs' = [jobs EXCEPT ![j].status = UpdatedStatus(w, "processing")]
      /\ results' = results /\ runs' = runs
  BY DEF MarkProcessing, tables, objects
<1>2. /\ j \in Jobs /\ j \in Working
      /\ StateOf[j] = jobs[j].status
      /\ jobs[j].status \in {"queued", "processing"}
      /\ UpdatedStatus(w, "processing") = "processing"
  BY <1>1, Busy DEF Knows, UpdatedStatus
<1>3. Working' = Working /\ Analyses' = Analyses
  BY <1>1, StepsKeepJobs, HoldersUnseen, RunsUnseen DEF StandStill
<1>4. /\ StateOf' = [StateOf EXCEPT ![j] = "processing"]
      /\ DocsOf' = DocsOf /\ AnswerOf' = AnswerOf
  BY <1>1, <1>2, StatusSeen
<1> HIDE DEF j
<1>5. CASE jobs[j].status = "queued"
  BY <1>1, <1>2, <1>3, <1>4, <1>5 DEF Contract!Work
<1>6. CASE jobs[j].status = "processing"
  <2>1. StateOf' = StateOf
    BY <1>2, <1>4, <1>6 DEF StateOf
  <2>2. QED
    BY <1>1, <1>3, <1>4, <2>1 DEF Seen
<1>7. QED
  BY <1>2, <1>5, <1>6

LEMMA AnalyseStep ==
  ASSUME IndInv, SoloInv, NEW w \in Workers, CommitRun(w)
  PROVE  UNCHANGED Seen \/ \E j \in Jobs : Contract!Analyse(j)
<1> DEFINE j == task[w].job
<1>1. /\ task[w].pc = "commit" /\ CommitTables(w)
      /\ jobs' = jobs /\ results' = results
  BY DEF CommitRun, objects
<1>2. /\ j \in Jobs /\ j \in Working
      /\ StateOf[j] = "processing" /\ DocsOf[j] = DocOf(w)
      /\ sess[w].runs = {FinishedRun(task[w].run, DocOf(w))}
  BY <1>1, Busy DEF Knows, DocOf
<1>3. Working' = Working
  BY StepsKeepJobs, HoldersUnseen DEF StandStill
<1>4. Analyses' = Analyses \/ Appears(DocsOf[j])
  <2>1. FinishedRun(task[w].run, DocOf(w)).doc = DocsOf[j]
    BY <1>2 DEF FinishedRun
  <2> HIDE DEF j
  <2>2. QED
    BY <1>1, <1>2, <2>1, CommitSeen
<1> HIDE DEF j
<1>5. QED
  BY <1>1, <1>2, <1>3, <1>4, RowsUnseen
     DEF Contract!Analyse, Contract!NewAnalysis, Appears, Seen

LEMMA PublishStep ==
  ASSUME IndInv, SoloInv, NEW w \in Workers, StoreResult(w)
  PROVE  \E j \in Jobs : Contract!Publish(j)
<1> DEFINE j == task[w].job
           x == <<task[w].run, DocOf(w)>>
<1>1. /\ task[w].pc = "store" /\ jobs' = jobs /\ runs' = runs
      /\ results' = [results EXCEPT ![j] = task[w].run]
  BY DEF StoreResult, db, tables
<1>2. /\ j \in Jobs /\ j \in Working
      /\ StateOf[j] = "processing" /\ DocsOf[j] = DocOf(w)
  BY <1>1, Busy DEF Knows
<1>3. FinishedRun(task[w].run, DocOf(w)) \in runs
  BY <1>1 DEF IndInv, TaskHoldsRun, Backed
<1>4. x \in Analyses /\ x[1] = task[w].run /\ x[2] = DocOf(w)
  BY <1>3 DEF Analyses, FinishedRun
<1>5. Working' = Working
  BY StepsKeepJobs, HoldersUnseen DEF StandStill
<1> HIDE DEF j, x
<1>6. QED
  BY <1>1, <1>2, <1>4, <1>5, RowsUnseen, RunsUnseen DEF Contract!Publish

LEMMA SucceedStep ==
  ASSUME IndInv, SoloInv, NEW w \in Workers, MarkSucceeded(w)
  PROVE  \E j \in Jobs : Contract!Succeed(j)
<1> DEFINE j == task[w].job
<1>1. task[w].pc = "finish" /\ results' = results /\ runs' = runs
  BY DEF MarkSucceeded, tables, objects
<1>2. /\ j \in Jobs /\ j \in Working
      /\ StateOf[j] = "processing"
      /\ UpdatedStatus(w, "succeeded") = "succeeded"
      /\ results[j] = task[w].run /\ task[w].run # 0
  BY <1>1, Busy DEF Knows, UpdatedStatus, IndInv, TaskHoldsRun, NoRun
<1>3. jobs' = [jobs EXCEPT ![j].status = "succeeded",
                           ![j].result = TRUE,
                           ![j].run = task[w].run]
  BY <1>2 DEF MarkSucceeded
<1>4. jobs \in [Jobs -> JobRows]
  BY DEF IndInv, TypeOK
<1>5. Working' = Working
  BY StepsKeepJobs, HoldersUnseen DEF StandStill
<1> HIDE DEF j
<1>6. /\ jobs'[j].status = "succeeded" /\ jobs'[j].run = task[w].run
      /\ jobs'[j].doc = jobs[j].doc
      /\ \A k \in Jobs : k # j => jobs'[k] = jobs[k]
  BY <1>2, <1>3, <1>4 DEF JobRows
<1>7. /\ StateOf' = [StateOf EXCEPT ![j] = "succeeded"]
      /\ AnswerOf' = [AnswerOf EXCEPT ![j] = task[w].run]
      /\ DocsOf' = DocsOf
  BY <1>2, <1>6 DEF StateOf, AnswerOf, DocsOf
<1>8. QED
  BY <1>1, <1>2, <1>5, <1>7, RunsUnseen DEF Contract!Succeed

(* mark_job_failed, or nothing at all if the job had already failed.       *)
LEMMA FailStep ==
  ASSUME IndInv, SoloInv, NEW w \in Workers, HandleFailure(w)
  PROVE  \E j \in Jobs : Contract!Fail(j) \/ Contract!PutDown(j)
<1> DEFINE j == task[w].job
<1>1. /\ task[w].pc = "except" /\ CommitTables(w) /\ results' = results
      /\ jobs' = [jobs EXCEPT ![j].status = UpdatedStatus(w, "failed")]
  BY DEF HandleFailure, objects
<1>2. /\ j \in Jobs /\ j \in Working
      /\ StateOf[j] = jobs[j].status /\ DocsOf[j] = jobs[j].doc
      /\ jobs[j].status \in {"queued", "processing", "succeeded", "failed"}
      /\ UpdatedStatus(w, "failed") = "failed"
  BY <1>1, Busy
     DEF Knows, UpdatedStatus, JobRows, Statuses, Terminal, DocOf
<1>3. Working' = Working \ {j}
  BY StepsGoIdle, PutDownSeen DEF SoloInv, PutsDown
<1>4. /\ StateOf' = [StateOf EXCEPT ![j] = "failed"]
      /\ DocsOf' = DocsOf /\ AnswerOf' = AnswerOf
  BY <1>1, <1>2, StatusSeen
<1>5. /\ sess[w].runs # {} =>
           \E y \in sess[w].runs : sess[w].runs = {y} /\ y.doc = jobs[j].doc
      /\ jobs[j].status = "failed" => sess[w].runs = {}
  BY <1>1, Busy DEF Knows
<1>6. Analyses' = Analyses \/ Appears(jobs[j].doc)
  <2> HIDE DEF j
  <2>1. QED
    BY <1>1, <1>5, CommitSeen
<1> HIDE DEF j
<1>7. CASE jobs[j].status # "failed"
  BY <1>1, <1>2, <1>3, <1>4, <1>6, <1>7
     DEF Contract!Fail, Contract!NewAnalysis, Appears
<1>8. CASE jobs[j].status = "failed"
  <2>1. StateOf' = StateOf
    BY <1>2, <1>4, <1>8 DEF StateOf
  <2>2. w \in Sessions /\ sess[w].runs = {}
    BY <1>5, <1>8, JobConstants
  <2>3. Analyses' = Analyses
    BY <1>1, <2>2 DEF CommitTables, Analyses
  <2>4. QED
    BY <1>1, <1>2, <1>3, <1>4, <2>1, <2>3 DEF Contract!PutDown
<1>9. QED
  BY <1>2, <1>7, <1>8

LEMMA PutDownStep ==
  ASSUME IndInv, SoloInv, NEW w \in Workers,
         SkipJob(w) \/ TaskReturns(w) \/ HandlerGivesUp(w) \/ WorkerStops(w)
  PROVE  \E j \in Jobs : Contract!PutDown(j)
<1>1. jobs' = jobs /\ results' = results /\ runs' = runs
  BY DEF SkipJob, TaskReturns, HandlerGivesUp, WorkerStops, CloseTables,
         db, tables, objects
<1>2. WentIdle(w)
  BY StepsGoIdle DEF PutsDown
<1>3. /\ task[w].job \in Working
      /\ Working' = Working \ {task[w].job}
  BY <1>2, PutDownSeen DEF SoloInv
<1>4. task[w].job \in Jobs
  BY <1>2, DocOfTask DEF WentIdle
<1>5. Contract!PutDown(task[w].job)
  BY <1>1, <1>3, RowsUnseen, RunsUnseen DEF Contract!PutDown
<1>6. QED
  BY <1>4, <1>5

(* Steps of the upload handler, of RQ and of the operator.                 *)
LEMMA UnseenOutside ==
  ASSUME \/ \E p \in Apis : \/ \E j \in Jobs, d \in Docs : PutInput(p, j, d)
                           \/ EnqueueJob(p) \/ EnqueueSwallowed(p)
                           \/ UploadAborts(p)
         \/ \E j \in Jobs : RequeueJob(j)
         \/ QueueLost
         \/ UNCHANGED vars
  PROVE  UNCHANGED Seen
<1>1. jobs' = jobs /\ results' = results /\ runs' = runs /\ task' = task
  BY DEF PutInput, EnqueueJob, EnqueueSwallowed, UploadAborts, RequeueJob,
         QueueLost, vars, db, tables, objects
<1>2. QED
  BY <1>1, HoldersUnseen, RowsUnseen, RunsUnseen DEF Seen

LEMMA ContractStep ==
  IndInv /\ SoloInv /\ [Next]_vars => [Contract!Next]_(Contract!cvars)
<1>1. SUFFICES ASSUME IndInv, SoloInv, [Next]_vars
               PROVE  UNCHANGED Seen \/ Contract!Next
  BY DEF Seen, Contract!cvars
<1> DEFINE Goal == UNCHANGED Seen \/ Contract!Next
<1>2. ASSUME NEW p \in Apis, CreateQueuedJob(p) PROVE Goal
  BY <1>1, <1>2, AcceptStep DEF Contract!Next
<1>3. ASSUME NEW w \in Workers, Deliver(w) PROVE Goal
  BY <1>1, <1>3, BeginStep DEF Contract!Next, SoloInv
<1>4. ASSUME NEW w \in Workers, MarkProcessing(w) \/ CommitRun(w) PROVE Goal
  BY <1>1, <1>4, WorkStep, AnalyseStep DEF Contract!Next
<1>5. ASSUME NEW w \in Workers, StoreResult(w) \/ MarkSucceeded(w) PROVE Goal
  BY <1>1, <1>5, PublishStep, SucceedStep DEF Contract!Next
<1>6. ASSUME NEW w \in Workers, HandleFailure(w) PROVE Goal
  BY <1>1, <1>6, FailStep DEF Contract!Next
<1>7. ASSUME NEW w \in Workers,
             \/ SkipJob(w) \/ TaskReturns(w) \/ HandlerGivesUp(w)
             \/ WorkerStops(w)
      PROVE  Goal
  BY <1>1, <1>7, PutDownStep DEF Contract!Next
<1>8. ASSUME NEW w \in Workers,
             \/ LoadJob(w) \/ ProcessPdf(w) \/ SelectDocument(w)
             \/ InsertRun(w) \/ InsertConflicts(w) \/ CompleteRun(w)
             \/ TaskRaises(w) \/ TaskTimesOut(w) \/ TaskDbError(w)
      PROVE  Goal
  BY <1>1, <1>8, UnseenSteps
<1>9. ASSUME NEW w \in Workers, AbandonJob(w) PROVE FALSE
  BY <1>1, <1>9 DEF AbandonJob, Fault, SoloInv, NoOverlap
<1> HIDE DEF Goal
<1>10. ASSUME UNCHANGED Seen PROVE Goal
  BY <1>10 DEF Goal
<1>11. Goal
  BY <1>1, <1>2, <1>3, <1>4, <1>5, <1>6, <1>7, <1>8, <1>9, <1>10,
     UnseenOutside DEF Next, UploadStep, TaskStep
<1>12. QED
  BY <1>11 DEF Goal

LEMMA ContractInit == Init => Contract!Init
<1>1. SUFFICES ASSUME Init PROVE Contract!Init
  OBVIOUS
<1>2. /\ StateOf = [j \in Jobs |-> "absent"]
      /\ DocsOf = [j \in Jobs |-> NoDoc]
      /\ AnswerOf = [j \in Jobs |-> 0]
      /\ results = [j \in Jobs |-> 0]
  BY <1>1 DEF Init, StateOf, DocsOf, AnswerOf, AbsentJob, NoRun
<1>3. Analyses = {}
  BY <1>1 DEF Init, PersistenceInit, Analyses
<1>4. Working = {}
  BY <1>1, JobConstants DEF Init, Working, Live, TaskIdle
<1>5. QED
  BY <1>2, <1>3, <1>4 DEF Contract!Init

(* uploads.py, jobs/service.py, tasks.py and persistence.py keep the job   *)
(* API's contract with the client that polls, whatever fails and for any   *)
(* number of jobs, workers and failures, as long as RQ never gives up on a *)
(* worker that still runs.                                                 *)
THEOREM ContractHolds == NoOverlap /\ Spec => ImplementsContract
<1>1. Init => Contract!Init
  BY ContractInit
<1>2. (IndInv /\ SoloInv) /\ [Next]_vars => [Contract!Next]_(Contract!cvars)
  BY ContractStep
<1>3. QED
  BY <1>1, <1>2, Solo, PTL DEF Spec, ImplementsContract, Contract!Spec

----------------------------------------------------------------------------
(* One upload, one analysis                                                *)

(* A task ahead of its insert has been there since its delivery.           *)
LEMMA AheadOfInsert ==
  ASSUME IndInv, [Next]_vars, NEW w \in Workers, task'[w].pc \in BeforeInsert
  PROVE  \/ task[w].pc \in BeforeInsert /\ task'[w].job = task[w].job
         \/ Deliver(w)
<1>1. task \in [Workers -> Tasks] /\ task[w] \in Tasks
  BY DEF IndInv, TypeOK
<1>2. CASE task'[w] = task[w]
  BY <1>2
<1>3. CASE NoTablesStep(w)
  BY <1>1, <1>3
     DEF NoTablesStep, SkipJob, LoadJob, MarkProcessing, ProcessPdf,
         SelectDocument, StoreResult, MarkSucceeded, TaskReturns, TaskRaises,
         TaskTimesOut, AbandonJob, BeforeInsert, Tasks, TaskIdle
<1>4. CASE TablesStep(w)
  BY <1>1, <1>4
     DEF TablesStep, InsertRun, InsertConflicts, CompleteRun, CommitRun,
         TaskDbError, HandleFailure, HandlerGivesUp, WorkerStops,
         BeforeInsert, Tasks, TaskIdle
<1>5. QED
  BY <1>2, <1>3, <1>4, OthersKeepTask

(* A job that is through stays so, as long as nobody delivers it again.    *)
LEMMA SpentStays ==
  ASSUME IndInv, NoRedelivery, [Next]_vars, NEW j \in Jobs, Spent(j)
  PROVE  Spent(j)' /\ jobs'[j].doc = jobs[j].doc
<1>1. /\ queue \in Seq(Jobs) /\ upload \in [Apis -> Uploads]
      /\ task \in [Workers -> Tasks]
  BY DEF IndInv, TypeOK
<1>2. jobs'[j].status # "absent" /\ jobs'[j].doc = jobs[j].doc
  BY RowsStay DEF Spent
<1>3. ~InQueue(j)'
  <2>1. CASE UNCHANGED queue
    BY <2>1 DEF Spent, InQueue
  <2>2. ASSUME NEW p \in Apis, EnqueueJob(p) PROVE ~InQueue(j)'
    <3>1. upload[p].job # j
      BY <2>2 DEF EnqueueJob, Spent
    <3>2. upload[p].job \in Jobs
      BY <2>2 DEF EnqueueJob, IndInv, UploadsOwnTheirJob, TypeOK
    <3>3. QED
      BY <1>1, <2>2, <3>1, <3>2 DEF EnqueueJob, Spent, InQueue
  <2>3. ASSUME NEW w \in Workers, Deliver(w) PROVE ~InQueue(j)'
    BY <1>1, <2>3 DEF Deliver, Spent, InQueue
  <2>4. ASSUME NEW i \in Jobs, RequeueJob(i) PROVE FALSE
    BY <2>4 DEF RequeueJob, Fault, NoRedelivery
  <2>5. CASE queue' = <<>>
    BY <2>5 DEF InQueue
  <2>6. QED
    BY <2>1, <2>2, <2>3, <2>4, <2>5, QueueWriters
<1>4. \A p \in Apis : upload'[p].pc = "enqueue" => upload'[p].job # j
  <2>1. ASSUME NEW p \in Apis, NEW i \in Jobs, NEW d \in Docs,
               PutInput(p, i, d)
        PROVE  \A q \in Apis : upload'[q].pc = "enqueue" => upload'[q].job # j
    BY <1>1, <2>1 DEF PutInput, Spent
  <2>2. ASSUME NEW p \in Apis, CreateQueuedJob(p)
        PROVE  \A q \in Apis : upload'[q].pc = "enqueue" => upload'[q].job # j
    <3>1. upload[p].job # j
      BY <2>2 DEF CreateQueuedJob, IndInv, UploadsOwnTheirJob, Spent
    <3>2. QED
      BY <1>1, <2>2, <3>1 DEF CreateQueuedJob, Spent, Uploads
  <2>3. ASSUME NEW p \in Apis, upload' = [upload EXCEPT ![p] = UploadIdle]
        PROVE  \A q \in Apis : upload'[q].pc = "enqueue" => upload'[q].job # j
    BY <1>1, <2>3 DEF UploadIdle, Spent
  <2>4. QED
    BY <2>1, <2>2, <2>3, UploadWriters DEF Spent
<1>5. \A w \in Workers : task'[w].pc \in BeforeInsert => task'[w].job # j
  <2>1. ASSUME NEW w \in Workers, Deliver(w) PROVE task'[w].job # j
    BY <1>1, <2>1 DEF Deliver, NewTask, Spent, InQueue
  <2>2. QED
    BY <2>1, AheadOfInsert DEF Spent
<1>6. QED
  BY <1>2, <1>3, <1>4, <1>5 DEF Spent, BeforeInsert

(* An insert is what makes a job spent.                                    *)
LEMMA InsertSpends ==
  ASSUME IndInv, SoloInv, [Next]_vars, NEW w \in Workers, InsertRun(w),
         NEW j, j = task[w].job
  PROVE  /\ j \in Jobs
         /\ ~Spent(j) /\ Spent(j)'
         /\ jobs'[j].doc = DocOf(w)
<1>1. /\ task[w].pc = "insert" /\ task'[w].pc = "complete"
      /\ task'[w].job = j
      /\ \A v \in Workers : v # w => task'[v] = task[v]
      /\ UNCHANGED <<queue, upload, jobs>>
  BY DEF InsertRun, IndInv, TypeOK, Tasks, rq, api
<1>2. j \in Jobs /\ jobs[j].status # "absent"
  BY <1>1, DocOfTask
<1>3. /\ ~InQueue(j)
      /\ \A v \in Workers : v # w /\ task[v].pc # "idle" => task[v].job # j
      /\ \A p \in Apis : upload[p].pc = "enqueue" => upload[p].job # j
  BY <1>1 DEF SoloInv, OneToken
<1>4. ~Spent(j)
  BY <1>1 DEF Spent, BeforeInsert
<1>5. Spent(j)'
  BY <1>1, <1>2, <1>3 DEF Spent, BeforeInsert, InQueue
<1>6. QED
  BY <1>1, <1>2, <1>4, <1>5 DEF DocOf

(* The rows of analysis_runs grow by inserts only, and update_run_completed*)
(* replaces the one row its own session has flushed.                       *)
LEMMA RunRowsStep ==
  ASSUME IndInv, SoloInv, [Next]_vars
  PROVE  \/ RunRows' \subseteq RunRows
         \/ \E w \in Workers, new \in Runs :
              /\ InsertRun(w)
              /\ new.doc = DocOf(w)
              /\ RunRows' \subseteq RunRows \cup {new}
         \/ \E old \in RunRows, new \in Runs :
              /\ new.doc = old.doc
              /\ RunRows' \subseteq (RunRows \ {old}) \cup {new}
<1>1. /\ sess \in [Sessions -> SessionStates] /\ Workers \subseteq Sessions
      /\ runs \subseteq Runs /\ runSeq \in Nat
      /\ jobs \in [Jobs -> JobRows] /\ task \in [Workers -> Tasks]
  BY JobConstants DEF IndInv, TypeOK, PersistenceTypeOK
<1>2. CASE UNCHANGED tables
  BY <1>2 DEF tables, RunRows
<1>3. ASSUME NEW w \in Workers, CommitTables(w) PROVE RunRows' \subseteq RunRows
  BY <1>1, <1>3 DEF CommitTables, FreshSession, RunRows
<1>4. ASSUME NEW w \in Workers,
             CloseTables(w) \/ PoisonTables(w)
               \/ UniqueViolation(w, DocOf(w), task[w].found)
      PROVE  RunRows' \subseteq RunRows
  BY <1>1, <1>4
     DEF CloseTables, PoisonTables, UniqueViolation, FreshSession,
         PoisonedSession, RunRows
<1>5. ASSUME NEW w \in Workers, InsertRun(w)
      PROVE  \E new \in Runs : /\ new.doc = DocOf(w)
                               /\ RunRows' \subseteq RunRows \cup {new}
  <2> DEFINE new == [id |-> runSeq + 1, doc |-> DocOf(w),
                     status |-> "PROCESSING"]
  <2>1. DocOf(w) \in Docs
    BY <1>5, DocOfTask DEF InsertRun
  <2>2. new \in Runs /\ new.doc = DocOf(w)
    BY <1>1, <2>1 DEF Runs, RunStatus
  <2>3. /\ runs' = runs
        /\ \A v \in Workers : sess'[v].runs \subseteq sess[v].runs \cup {new}
    BY <1>1, <1>5 DEF InsertRun, OpenRun, SessionStates
  <2>4. RunRows' \subseteq RunRows \cup {new}
    BY <2>3 DEF RunRows
  <2>5. QED
    BY <2>2, <2>4
<1>6. ASSUME NEW w \in Workers, CompleteRun(w)
      PROVE  \E old \in RunRows, new \in Runs :
               /\ new.doc = old.doc
               /\ RunRows' \subseteq (RunRows \ {old}) \cup {new}
  <2> DEFINE old == [id |-> task[w].run, doc |-> DocOf(w),
                     status |-> "PROCESSING"]
             new == FinishedRun(task[w].run, DocOf(w))
  <2>1. task[w].pc = "complete" /\ WriteRun(w, new)
    BY <1>6 DEF CompleteRun
  <2>2. sess[w].runs = {old}
    BY <2>1 DEF SoloInv, WorkersKnow, Knows, DocOf
  <2>3. DocOf(w) \in Docs
    BY <2>1, DocOfTask
  <2>4. new \in Runs /\ new.doc = old.doc
    BY <1>1, <2>3 DEF FinishedRun, Runs, RunStatus, Tasks
  <2>5. old \in RunRows
    BY <2>2 DEF RunRows
  <2>6. /\ \A r \in runs : r # old
        /\ \A v \in Workers : v # w => \A r \in sess[v].runs : r # old
    <3>1. /\ \A r \in runs : r.id # old.id
          /\ \A v \in Workers : v # w =>
               \A r \in sess[v].runs : r.id # old.id
      BY <1>1, <2>2 DEF IndInv, PendingIdsAreFresh
    <3>2. QED
      BY <3>1
  <2>7. /\ runs' = runs
        /\ sess'[w].runs = {new}
        /\ \A v \in Workers : v # w => sess'[v] = sess[v]
    <3>1. sess'[w].runs = {x \in sess[w].runs : x.id # new.id} \cup {new}
      BY <1>1, <2>1 DEF WriteRun, SessionStates
    <3>2. new.id = old.id
      BY DEF FinishedRun
    <3>3. {x \in sess[w].runs : x.id # new.id} = {}
      BY <2>2, <3>2
    <3>4. QED
      BY <1>1, <2>1, <3>1, <3>3 DEF WriteRun
  <2>8. RunRows' \subseteq (RunRows \ {old}) \cup {new}
    <3> HIDE DEF old, new
    <3>1. SUFFICES ASSUME NEW r \in RunRows', r # new
                   PROVE  r \in RunRows /\ r # old
      OBVIOUS
    <3>2. CASE r \in runs'
      BY <2>6, <2>7, <3>2 DEF RunRows
    <3>3. ASSUME NEW v \in Workers, r \in sess'[v].runs
          PROVE  r \in RunRows /\ r # old
      BY <2>6, <2>7, <3>1, <3>3 DEF RunRows
    <3>4. QED
      BY <3>2, <3>3 DEF RunRows
  <2>9. QED
    BY <2>4, <2>5, <2>8
<1>7. ASSUME NEW w \in Workers, TablesStep(w)
      PROVE  \/ InsertRun(w) \/ CompleteRun(w) \/ CommitTables(w)
             \/ CloseTables(w) \/ PoisonTables(w)
             \/ UniqueViolation(w, DocOf(w), task[w].found)
  BY <1>7
     DEF TablesStep, InsertConflicts, CommitRun, TaskDbError, HandleFailure,
         HandlerGivesUp, WorkerStops
<1>8. QED
  BY <1>2, <1>3, <1>4, <1>5, <1>6, <1>7, TablesWriters

(* owner is the injection EveryRunHasItsJob asks for.                      *)
Owns(owner, rows) ==
  /\ \A r \in rows : /\ owner[r] \in Jobs
                     /\ Spent(owner[r])
                     /\ jobs[owner[r]].doc = r.doc
  /\ \A r, q \in rows : r # q => owner[r] # owner[q]

LEMMA EveryRunStep ==
  ASSUME IndInv, SoloInv, NoRedelivery, EveryRunHasItsJob, [Next]_vars
  PROVE  EveryRunHasItsJob'
<1>1. PICK owner \in [RunRows -> Jobs] : Owns(owner, RunRows)
  BY DEF EveryRunHasItsJob, Owns
<1>2. \A r \in RunRows : /\ Spent(owner[r])'
                         /\ jobs'[owner[r]].doc = r.doc
  BY <1>1, SpentStays DEF Owns
<1>3. CASE RunRows' \subseteq RunRows
  <2>1. [r \in RunRows' |-> owner[r]] \in [RunRows' -> Jobs]
    BY <1>3
  <2>2. PICK mine \in [RunRows' -> Jobs] : \A r \in RunRows' : mine[r] = owner[r]
    BY <2>1
  <2>3. \A r \in RunRows' : Spent(mine[r])' /\ jobs'[mine[r]].doc = r.doc
    BY <1>2, <1>3, <2>2
  <2>4. \A r, q \in RunRows' : r # q => mine[r] # mine[q]
    BY <1>1, <1>3, <2>2 DEF Owns
  <2>5. QED
    BY <2>3, <2>4 DEF EveryRunHasItsJob
<1>4. ASSUME NEW w \in Workers, NEW new \in Runs, InsertRun(w),
             new.doc = DocOf(w), RunRows' \subseteq RunRows \cup {new}
      PROVE  EveryRunHasItsJob'
  <2>1. PICK j : j = task[w].job
    OBVIOUS
  <2>2. /\ j \in Jobs /\ ~Spent(j)
        /\ Spent(j)' /\ jobs'[j].doc = new.doc
    BY <1>4, <2>1, InsertSpends
  <2>3. [r \in RunRows' |-> IF r \in RunRows THEN owner[r] ELSE j]
          \in [RunRows' -> Jobs]
    BY <1>1, <2>2
  <2>4. PICK mine \in [RunRows' -> Jobs] :
          \A r \in RunRows' :
            mine[r] = IF r \in RunRows THEN owner[r] ELSE j
    BY <2>3
  <2>5. \A r \in RunRows' : r \notin RunRows => r = new
    BY <1>4
  <2>6. \A r \in RunRows' : Spent(mine[r])' /\ jobs'[mine[r]].doc = r.doc
    <3>1. SUFFICES ASSUME NEW r \in RunRows'
                   PROVE  Spent(mine[r])' /\ jobs'[mine[r]].doc = r.doc
      OBVIOUS
    <3>2. CASE r \in RunRows
      BY <1>2, <2>4, <3>2
    <3>3. CASE r \notin RunRows
      BY <2>2, <2>4, <2>5, <3>3
    <3>4. QED
      BY <3>2, <3>3
  <2>7. \A r, q \in RunRows' : r # q => mine[r] # mine[q]
    BY <1>1, <2>2, <2>4, <2>5 DEF Owns
  <2>8. QED
    BY <2>6, <2>7 DEF EveryRunHasItsJob
<1>5. ASSUME NEW old \in RunRows, NEW new \in Runs, new.doc = old.doc,
             RunRows' \subseteq (RunRows \ {old}) \cup {new}
      PROVE  EveryRunHasItsJob'
  <2>1. [r \in RunRows' |-> IF r \in RunRows \ {old} THEN owner[r]
                            ELSE owner[old]] \in [RunRows' -> Jobs]
    BY <1>1, <1>5
  <2>2. PICK mine \in [RunRows' -> Jobs] :
          \A r \in RunRows' : mine[r] = IF r \in RunRows \ {old} THEN owner[r]
                                        ELSE owner[old]
    BY <2>1
  <2>3. \A r \in RunRows' : r \notin RunRows \ {old} => r = new
    BY <1>5
  <2>4. \A r \in RunRows' : Spent(mine[r])' /\ jobs'[mine[r]].doc = r.doc
    <3>1. SUFFICES ASSUME NEW r \in RunRows'
                   PROVE  Spent(mine[r])' /\ jobs'[mine[r]].doc = r.doc
      OBVIOUS
    <3>2. CASE r \in RunRows \ {old}
      BY <1>2, <2>2, <3>2
    <3>3. CASE r \notin RunRows \ {old}
      BY <1>2, <1>5, <2>2, <2>3, <3>3
    <3>4. QED
      BY <3>2, <3>3
  <2>5. \A r, q \in RunRows' : r # q => mine[r] # mine[q]
    BY <1>1, <1>5, <2>2, <2>3 DEF Owns
  <2>6. QED
    BY <2>4, <2>5 DEF EveryRunHasItsJob
<1>6. QED
  BY <1>3, <1>4, <1>5, RunRowsStep

LEMMA EveryRunInit == Init => EveryRunHasItsJob
<1>1. SUFFICES ASSUME Init PROVE EveryRunHasItsJob
  OBVIOUS
<1>2. Workers \subseteq Sessions
  BY JobConstants
<1>3. RunRows = {}
  BY <1>1, <1>2 DEF Init, PersistenceInit, FreshSession, RunRows
<1>4. [r \in {} |-> NoJob] \in [RunRows -> Jobs]
  BY <1>3
<1>5. QED
  BY <1>3, <1>4 DEF EveryRunHasItsJob

(* One upload leads to at most one analysis in analysis_runs, whatever     *)
(* times out, crashes or is lost, as long as no job is delivered again:    *)
(* tasks.py commits each run once, and never the same upload under two     *)
(* ids.  Cardinality is about finite sets only, hence the first condition. *)
THEOREM UploadsAnalysedOnce ==
  IsFiniteSet(Jobs) /\ NoRedelivery /\ Spec => []OneAnalysisPerUpload
<1>1. NoRedelivery /\ Spec => [](IndInv /\ SoloInv)
  BY Solo, PTL DEF NoRedelivery
<1>2. Init => EveryRunHasItsJob
  BY EveryRunInit
<1>3. /\ IsFiniteSet(Jobs) /\ NoRedelivery /\ EveryRunHasItsJob
      /\ IndInv /\ SoloInv /\ [Next]_vars
      => (IsFiniteSet(Jobs) /\ NoRedelivery /\ EveryRunHasItsJob)'
  BY EveryRunStep DEF NoRedelivery, NoOverlap
<1>4. IsFiniteSet(Jobs) /\ EveryRunHasItsJob => OneAnalysisPerUpload
  <2>1. SUFFICES ASSUME IsFiniteSet(Jobs), EveryRunHasItsJob, NEW d \in Docs
                 PROVE  Cardinality({r \in runs : r.doc = d})
                          <= Cardinality({j \in Jobs : jobs[j].doc = d})
    BY DEF OneAnalysisPerUpload
  <2> DEFINE S == {r \in runs : r.doc = d}
             T == {j \in Jobs : jobs[j].doc = d}
  <2>2. PICK owner \in [RunRows -> Jobs] : Owns(owner, RunRows)
    BY <2>1 DEF EveryRunHasItsJob, Owns
  <2> DEFINE f == [r \in S |-> owner[r]]
  <2>3. S \subseteq RunRows
    BY DEF RunRows
  <2>4. \A r \in S : owner[r] \in T
    BY <2>2, <2>3 DEF Owns
  <2>5. \A r, q \in S : r # q => owner[r] # owner[q]
    BY <2>2, <2>3 DEF Owns
  <2>6. f \in Injection(S, T)
    <3> HIDE DEF S, T
    <3>1. f \in [S -> T]
      BY <2>4
    <3>2. \A r, q \in S : f[r] = f[q] => r = q
      BY <2>5
    <3> HIDE DEF f
    <3>3. QED
      BY <3>1, <3>2 DEF Injection, IsInjective
  <2>7. IsFiniteSet(T)
    BY <2>1, FS_Subset
  <2> HIDE DEF S, T, f
  <2>8. Cardinality(S) <= Cardinality(T)
    BY <2>6, <2>7, FS_Injection
  <2>9. QED
    BY <2>8 DEF S, T
<1>5. QED
  BY <1>1, <1>2, <1>3, <1>4, PTL DEF Spec

----------------------------------------------------------------------------
(* Failures are recorded                                                   *)

LEMMA NothingPoisonsStep ==
  ASSUME IndInv, NothingPoisons, OneHealthyWorker, [Next]_vars
  PROVE  NothingPoisons'
<1>1. /\ sess \in [Sessions -> SessionStates] /\ Workers \subseteq Sessions
      /\ jobs \in [Jobs -> JobRows] /\ task \in [Workers -> Tasks]
  BY JobConstants DEF IndInv, TypeOK, PersistenceTypeOK
<1>2. SUFFICES ASSUME NEW v \in Workers
               PROVE  /\ ~sess'[v].poisoned
                      /\ task'[v].pc = "insert" =>
                           task'[v].found \/ DocOf(v)' \notin documents'
  BY DEF NothingPoisons, DocOf
<1>3. /\ ~sess[v].poisoned
      /\ task[v].pc = "insert" => task[v].found \/ DocOf(v) \notin documents
      /\ \A w \in Workers : w = v
  BY DEF NothingPoisons, OneHealthyWorker
<1>4. ~TaskDbError(v) /\ ~WorkerStops(v) /\ ~InsertConflicts(v)
  BY <1>3 DEF OneHealthyWorker, TaskDbError, WorkerStops, Fault,
              InsertConflicts, UniqueViolation
<1>5. ~sess'[v].poisoned
  <2>1. CASE sess'[v] = sess[v]
    BY <1>3, <2>1
  <2>2. CASE TablesStep(v)
    BY <1>1, <1>3, <1>4, <2>2
       DEF TablesStep, InsertRun, OpenRun, CompleteRun, WriteRun, CommitRun,
           CommitTables, HandleFailure, HandlerGivesUp, CloseTables,
           FreshSession, SessionStates
  <2>3. QED
    BY <2>1, <2>2, OthersKeepSession
<1>6. ASSUME task'[v].pc = "insert"
      PROVE  task'[v].found \/ DocOf(v)' \notin documents'
  <2>1. CASE SelectDocument(v)
    <3>1. DocOf(v)' = DocOf(v) /\ documents' = documents
      BY <1>1, <2>1 DEF SelectDocument, DocOf, Tasks, db, tables
    <3>2. task'[v].found = (DocOf(v) \in documents)
      BY <1>1, <2>1 DEF SelectDocument, Tasks
    <3>3. QED
      BY <3>1, <3>2
  <2>2. CASE task'[v] = task[v]
    <3>1. ~TablesStep(v)
      BY <1>1, <1>4, <1>6, <2>2
         DEF TablesStep, InsertRun, CompleteRun, CommitRun, HandleFailure,
             HandlerGivesUp, Tasks, TaskIdle
    <3>2. documents' = documents
      BY <1>3, <3>1, TablesWriters DEF tables
    <3>3. jobs[task[v].job].status # "absent" /\ task[v].job \in Jobs
      BY <1>6, <2>2, DocOfTask
    <3>4. DocOf(v)' = DocOf(v)
      BY <2>2, <3>3, RowsStay DEF DocOf
    <3>5. QED
      BY <1>3, <1>6, <2>2, <3>2, <3>4
  <2>3. CASE NoTablesStep(v) /\ ~SelectDocument(v) /\ task'[v] # task[v]
    BY <1>1, <1>6, <2>3
       DEF NoTablesStep, Deliver, SkipJob, LoadJob, MarkProcessing, ProcessPdf,
           StoreResult, MarkSucceeded, TaskReturns, TaskRaises, TaskTimesOut,
           AbandonJob, Tasks, TaskIdle, NewTask
  <2>4. CASE TablesStep(v)
    BY <1>1, <1>4, <1>6, <2>4
       DEF TablesStep, InsertRun, CompleteRun, CommitRun, HandleFailure,
           HandlerGivesUp, Tasks, TaskIdle
  <2>5. QED
    BY <2>1, <2>2, <2>3, <2>4, OthersKeepTask
<1>7. QED
  BY <1>5, <1>6

LEMMA FailuresStep ==
  ASSUME IndInv, SoloInv, NothingPoisons, OneHealthyWorker, FailuresRecorded,
         [Next]_vars
  PROVE  FailuresRecorded'
<1>1. /\ jobs \in [Jobs -> JobRows] /\ task \in [Workers -> Tasks]
      /\ failedReg \subseteq Jobs
  BY DEF IndInv, TypeOK
<1>2. SUFFICES ASSUME NEW j \in failedReg'
               PROVE  jobs'[j].status \in Terminal
  BY DEF FailuresRecorded
<1>3. CASE \E w \in Workers : HandleFailure(w) /\ j = task[w].job
  <2>1. PICK w \in Workers : HandleFailure(w) /\ j = task[w].job
    BY <1>3
  <2>2. task[w].view # "failed"
    BY <2>1 DEF HandleFailure, SoloInv, WorkersKnow, Knows
  <2>3. j \in Jobs
    BY <2>1, DocOfTask DEF HandleFailure
  <2>4. jobs'[j].status = "failed"
    BY <1>1, <2>1, <2>2, <2>3 DEF HandleFailure, UpdatedStatus, JobRows
  <2>5. QED
    BY <2>4 DEF Terminal
<1>4. CASE j \in failedReg
  <2>1. /\ jobs[j].status \in Terminal
        /\ \A w \in Workers : task[w].job # j
    BY <1>4 DEF FailuresRecorded, SoloInv, OneToken
  <2>2. ASSUME NEW p \in Apis, CreateQueuedJob(p) PROVE jobs'[j] = jobs[j]
    <3>1. jobs[upload[p].job].status = "absent"
      BY <2>2 DEF CreateQueuedJob, IndInv, UploadsOwnTheirJob
    <3>2. QED
      BY <1>1, <1>4, <2>1, <2>2, <3>1 DEF CreateQueuedJob, Terminal
  <2>3. ASSUME NEW w \in Workers,
               MarkProcessing(w) \/ MarkSucceeded(w) \/ HandleFailure(w)
        PROVE  jobs'[j] = jobs[j]
    BY <1>1, <1>4, <2>1, <2>3
       DEF MarkProcessing, MarkSucceeded, HandleFailure
  <2>4. QED
    BY <2>1, <2>2, <2>3, JobsWriters
<1>5. CASE j \notin failedReg
  <2>1. ASSUME NEW w \in Workers,
               HandlerGivesUp(w) \/ WorkerStops(w) \/ AbandonJob(w)
        PROVE  FALSE
    BY <2>1
       DEF HandlerGivesUp, NothingPoisons, WorkerStops, AbandonJob, Fault,
           OneHealthyWorker
  <2>2. ASSUME NEW w \in Workers, HandleFailure(w)
        PROVE  failedReg' = failedReg \cup {task[w].job}
    BY <2>2 DEF HandleFailure
  <2>3. \/ failedReg' \subseteq failedReg
        \/ \E w \in Workers : HandleFailure(w)
    BY <2>1
       DEF Next, vars, rq, UploadStep, TaskStep, PutInput, CreateQueuedJob,
           EnqueueJob, EnqueueSwallowed, UploadAborts, Deliver, SkipJob,
           LoadJob, MarkProcessing, ProcessPdf, SelectDocument, InsertRun,
           InsertConflicts, CompleteRun, CommitRun, StoreResult,
           MarkSucceeded, TaskReturns, TaskRaises, TaskTimesOut, TaskDbError,
           RequeueJob, QueueLost
  <2>4. QED
    BY <1>3, <1>5, <2>2, <2>3
<1>6. QED
  BY <1>4, <1>5

(* With one worker and a sound database, every execution RQ has listed as  *)
(* failed left its job in a terminal state, after any number of requeues,  *)
(* queue losses, and timeouts that strike in the try block outside the     *)
(* database calls: tasks.py's except block then always reaches             *)
(* mark_job_failed.  Without that restriction it is false of the code: a   *)
(* timeout inside a flush or a commit leaves a session that needs a        *)
(* rollback, one inside the except block is swallowed, and with a second   *)
(* worker uq_user_file_sha256 can break the session.                       *)
THEOREM FailuresAreRecorded ==
  OneHealthyWorker /\ Spec => []FailuresRecorded
<1>1. OneHealthyWorker => NoOverlap
  BY DEF OneHealthyWorker, NoOverlap
<1>2. OneHealthyWorker /\ Spec => [](IndInv /\ SoloInv)
  BY <1>1, Solo, PTL
<1>3. Init => NothingPoisons /\ FailuresRecorded
  <2>1. SUFFICES ASSUME Init PROVE NothingPoisons /\ FailuresRecorded
    OBVIOUS
  <2>2. QED
    BY <2>1, JobConstants
       DEF Init, PersistenceInit, FreshSession, TaskIdle, NothingPoisons,
           FailuresRecorded
<1>4. /\ OneHealthyWorker /\ IndInv /\ SoloInv
      /\ NothingPoisons /\ FailuresRecorded /\ [Next]_vars
      => OneHealthyWorker' /\ NothingPoisons' /\ FailuresRecorded'
  BY NothingPoisonsStep, FailuresStep DEF OneHealthyWorker
<1>5. QED
  BY <1>2, <1>3, <1>4, PTL DEF Spec

----------------------------------------------------------------------------
(* No accepted job is lost                                                 *)

(* A worker that puts its job down leaves it ended or in RQ's registry.    *)
LEMMA PutDownAtHand ==
  ASSUME IndInv, SoloInv, NEW w \in Workers, PutsDown(w)
  PROVE  LET j == task[w].job
         IN  jobs'[j].status \in Terminal \/ j \in failedReg'
<1> DEFINE j == task[w].job
<1>1. CASE SkipJob(w)
  <2>1. jobs[j].status # "absent"
    BY <1>1, DocOfTask DEF SkipJob, IndInv, TypeOK
  <2>2. QED
    BY <1>1, <2>1 DEF SkipJob, db
<1>2. CASE TaskReturns(w)
  <2>1. jobs[j].status = "succeeded"
    BY <1>2 DEF TaskReturns, SoloInv, WorkersKnow, Knows
  <2>2. QED
    BY <1>2, <2>1 DEF TaskReturns, db, Terminal
<1>3. CASE HandleFailure(w) \/ HandlerGivesUp(w) \/ WorkerStops(w)
  BY <1>3 DEF HandleFailure, HandlerGivesUp, WorkerStops
<1>4. QED
  BY <1>1, <1>2, <1>3 DEF PutsDown

(* A row that has ended does not go back.                                  *)
LEMMA EndedStays ==
  ASSUME IndInv, SoloInv, [Next]_vars, NEW j \in Jobs,
         jobs[j].status \in Terminal
  PROVE  jobs'[j].status \in Terminal
<1>1. jobs \in [Jobs -> JobRows] /\ WorkersKnow
  BY DEF IndInv, TypeOK, SoloInv
<1>2. ASSUME NEW p \in Apis, CreateQueuedJob(p) PROVE jobs'[j] = jobs[j]
  BY <1>1, <1>2 DEF CreateQueuedJob, IndInv, UploadsOwnTheirJob, Terminal
<1>3. ASSUME NEW w \in Workers, MarkProcessing(w) PROVE jobs'[j] = jobs[j]
  <2>1. task[w].job # j
    BY <1>1, <1>3 DEF MarkProcessing, WorkersKnow, Knows, Terminal
  <2>2. QED
    BY <1>1, <1>3, <2>1 DEF MarkProcessing
<1>4. ASSUME NEW w \in Workers, MarkSucceeded(w) \/ HandleFailure(w)
      PROVE  jobs'[j].status \in Terminal
  BY <1>1, <1>4 DEF MarkSucceeded, HandleFailure, UpdatedStatus, JobRows,
                    Terminal
<1>5. QED
  BY <1>2, <1>3, <1>4, JobsWriters

(* Once a job is at hand it stays so, unless the queue itself is lost.     *)
LEMMA AtHandStays ==
  ASSUME IndInv, SoloInv, "queueLoss" \notin FaultKinds, [Next]_vars,
         NEW j \in Jobs, AtHand(j)
  PROVE  AtHand(j)'
<1>1. /\ TypeOK /\ NoOverlap
  BY DEF IndInv, SoloInv
<1>2. CASE jobs[j].status \in Terminal
  BY <1>2, EndedStays DEF AtHand
<1>3. CASE StandStill
  BY <1>2, <1>3, EndedStays DEF StandStill, AtHand, InQueue, Live
<1>4. ASSUME NEW p \in Apis, EnqueueJob(p) PROVE AtHand(j)'
  BY <1>1, <1>2, <1>4, EndedStays
     DEF EnqueueJob, AtHand, InQueue, Live, TypeOK
<1>5. ASSUME NEW w \in Workers, Deliver(w) PROVE AtHand(j)'
  <2>1. CASE InQueue(j)
    <3>1. PICK i \in 1..Len(queue) : queue[i] = j
      BY <2>1 DEF InQueue
    <3>2. CASE i = 1
      <4>1. task'[w].job = j
        BY <1>1, <1>5, <3>1, <3>2 DEF Deliver, NewTask, TypeOK
      <4>2. QED
        BY <4>1 DEF AtHand, Live
    <3>3. CASE i # 1
      <4>1. i - 1 \in 1..Len(queue') /\ queue'[i - 1] = j
        BY <1>1, <1>5, <3>1, <3>3 DEF Deliver, TypeOK
      <4>2. QED
        BY <4>1 DEF AtHand, InQueue
    <3>4. QED
      BY <3>2, <3>3
  <2>2. CASE Live(j)
    <3>1. PICK v \in Workers : task[v].job = j
      BY <2>2 DEF Live
    <3>2. v # w
      BY <1>5, <3>1, JobConstants DEF Deliver, IndInv, TasksHaveJobs
    <3>3. task'[v].job = j
      BY <1>1, <1>5, <3>1, <3>2 DEF Deliver, TypeOK
    <3>4. QED
      BY <3>3 DEF AtHand, Live
  <2>3. QED
    BY <1>2, <1>5, <2>1, <2>2 DEF AtHand, Deliver, rq
<1>6. ASSUME NEW w \in Workers, PutsDown(w) PROVE AtHand(j)'
  <2>1. WentIdle(w)
    BY <1>6, StepsGoIdle
  <2>2. CASE task[w].job = j
    BY <1>6, <2>2, PutDownAtHand DEF AtHand
  <2>3. CASE task[w].job # j
    <3>1. \A v \in Workers : task[v].job = j => task'[v].job = j
      BY <1>1, <2>1, <2>3 DEF WentIdle, TypeOK
    <3>2. queue' = queue /\ failedReg \subseteq failedReg'
      BY <2>1 DEF WentIdle
    <3>3. QED
      BY <1>2, <3>1, <3>2 DEF AtHand, Live, InQueue
  <2>4. QED
    BY <2>2, <2>3
<1>7. ASSUME NEW k \in Jobs, RequeueJob(k) PROVE AtHand(j)'
  BY <1>1, <1>2, <1>7 DEF RequeueJob, AtHand, InQueue, Live, TypeOK
<1>8. ~QueueLost
  BY DEF QueueLost, Fault
<1>9. QED
  BY <1>3, <1>4, <1>5, <1>6, <1>7, <1>8, TokenMoves DEF HandlerMoves, SoloInv

(* The 202 is given with the job in the queue.                             *)
LEMMA AcceptedAtHand ==
  ASSUME IndInv, NoLoss, [Next]_vars, NEW j \in accepted', j \notin accepted
  PROVE  AtHand(j)'
<1>1. PICK p \in Apis : EnqueueJob(p)
  BY DEF NoLoss, Next, vars, api, UploadStep, TaskStep, PutInput,
       CreateQueuedJob, EnqueueSwallowed, Fault, UploadAborts, Deliver,
       SkipJob, LoadJob, MarkProcessing, ProcessPdf, SelectDocument, InsertRun,
       InsertConflicts, CompleteRun, CommitRun, StoreResult, MarkSucceeded,
       TaskReturns, TaskRaises, TaskTimesOut, TaskDbError, HandleFailure,
       HandlerGivesUp, WorkerStops, AbandonJob, RequeueJob, QueueLost
<1>2. /\ queue \in Seq(Jobs) /\ j = upload[p].job /\ j \in Jobs
      /\ queue' = Append(queue, j)
  BY <1>1 DEF EnqueueJob, IndInv, TypeOK, UploadsOwnTheirJob
<1>3. /\ Len(queue) + 1 \in 1..Len(queue')
      /\ queue'[Len(queue) + 1] = j
  BY <1>2
<1>4. QED
  BY <1>3 DEF AtHand, InQueue

LEMMA NothingIsLostStep ==
  NoLoss /\ IndInv /\ SoloInv /\ [Next]_vars /\ NothingIsLost
    => NothingIsLost'
<1>1. SUFFICES ASSUME NoLoss, IndInv, SoloInv, [Next]_vars, NothingIsLost,
                      NEW j \in accepted'
               PROVE  AtHand(j)'
  BY DEF NothingIsLost
<1>2. CASE j \in accepted
  <2>1. j \in Jobs /\ AtHand(j) /\ "queueLoss" \notin FaultKinds
    BY <1>1, <1>2 DEF NothingIsLost, IndInv, TypeOK, NoLoss
  <2>2. QED
    BY <1>1, <2>1, AtHandStays
<1>3. CASE j \notin accepted
  BY <1>1, <1>3, AcceptedAtHand
<1>4. QED
  BY <1>2, <1>3

(* A job whose uploader has its 202 is never lost: until it ends it is in  *)
(* the queue, with a worker, or in RQ's registry of failed jobs, whatever  *)
(* else strikes, as long as Redis is there and keeps what it has.          *)
THEOREM AcceptedJobsAreAtHand == NoLoss /\ Spec => []NothingIsLost
<1>1. Init => NothingIsLost
  BY DEF Init, NothingIsLost
<1>2. NoLoss /\ IndInv /\ SoloInv /\ [Next]_vars /\ NothingIsLost
        => NothingIsLost'
  BY NothingIsLostStep
<1>3. NoLoss => NoLoss'
  BY DEF NoLoss, NoOverlap
<1>4. NoLoss => NoOverlap
  BY DEF NoLoss
<1>5. QED
  BY <1>1, <1>2, <1>3, <1>4, Solo, PTL DEF Spec
=============================================================================
