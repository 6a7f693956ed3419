------------------------ MODULE JobLifecycle_proofs ------------------------
(***************************************************************************)
(* Proofs about JobLifecycle, for any sets of jobs, users, files, workers  *)
(* and API processes and for every kind of failure.                        *)
(***************************************************************************)
EXTENDS JobInvariant, TLAPS

(* Initially nothing is stored, and the invariant holds.                   *)
LEMMA InitInv == Init => IndInv
<1>1. SUFFICES ASSUME Init PROVE IndInv
  OBVIOUS
<1>2. TypeOK
  BY <1>1, JobConstants DEF Init, PersistenceInit, TypeOK, PersistenceTypeOK,
     JobRows, AbsentJob, Uploads, UploadIdle, Tasks, TaskIdle, SessionStates,
     FreshSession, Statuses, NoRun
<1>3. RowsComeFirst
  BY <1>1, JobConstants DEF Init, RowsComeFirst, InQueue, Live, AbsentJob,
     TaskIdle
<1>4. UploadsOwnTheirJob
  BY <1>1 DEF Init, UploadsOwnTheirJob, UploadIdle
<1>5. TasksHaveJobs
  BY <1>1 DEF Init, TasksHaveJobs, TaskIdle
<1>6. PendingIdsAreFresh
  BY <1>1, JobConstants DEF Init, PersistenceInit, PendingIdsAreFresh,
     FreshSession
<1>7. TaskHoldsRun
  BY <1>1 DEF Init, TaskHoldsRun, TaskIdle
<1>8. ResultsOwned /\ SucceededIsBacked /\ PoisonedTasksFail
  BY <1>1, JobConstants
     DEF Init, PersistenceInit, ResultsOwned, SucceededIsBacked,
         PoisonedTasksFail, FreshSession, AbsentJob, NoRun
<1>9. QED
  BY <1>2, <1>3, <1>4, <1>5, <1>6, <1>7, <1>8 DEF IndInv

(* The steps of a worker that leave documents and analysis_runs alone, and *)
(* those that do not.                                                      *)
NoTablesStep(w) ==
  \/ Deliver(w) \/ SkipJob(w) \/ LoadJob(w) \/ MarkProcessing(w)
  \/ ProcessPdf(w) \/ SelectDocument(w) \/ StoreResult(w) \/ MarkSucceeded(w)
  \/ TaskReturns(w) \/ TaskRaises(w) \/ TaskTimesOut(w) \/ AbandonJob(w)

TablesStep(w) ==
  \/ InsertRun(w) \/ InsertConflicts(w) \/ CompleteRun(w) \/ CommitRun(w)
  \/ TaskDbError(w) \/ HandleFailure(w) \/ HandlerGivesUp(w)
  \/ WorkerStops(w)

(* A worker that has a job has one whose row is there, with its document.  *)
LEMMA DocOfTask ==
  ASSUME IndInv, NEW w \in Workers, task[w].pc # "idle"
  PROVE  /\ task[w].job \in Jobs
         /\ jobs[task[w].job].status # "absent"
         /\ DocOf(w) \in Docs
<1>1. task[w].job \in Jobs
  BY DEF IndInv, TasksHaveJobs
<1>2. QED
  BY <1>1 DEF IndInv, RowsComeFirst, Live, DocOf

(* A worker that goes idle, or on to another step, is in a legal state.    *)
LEMMA TaskTypes ==
  ASSUME TypeOK, NEW w \in Workers
  PROVE  /\ TaskIdle \in Tasks
         /\ task[w] \in Tasks
         /\ \A pc \in TaskSteps : [task[w] EXCEPT !.pc = pc] \in Tasks
BY DEF TypeOK, TaskIdle, Tasks, Statuses, NoRun

LEMMA NoTablesTypes ==
  ASSUME IndInv, NEW w \in Workers, NoTablesStep(w)
  PROVE  TypeOK'
<1> USE DEF db, tables, objects, rq, api
<1>1. TypeOK
  BY DEF IndInv
<1>2. task[w].pc # "idle" => task[w].job \in Jobs
  BY DocOfTask
<1>3. CASE Deliver(w)
  <2>1. NewTask(Head(queue)) \in Tasks /\ Tail(queue) \in Seq(Jobs)
    BY SMTT(20), <1>1, <1>3
       DEF Deliver, TypeOK, NewTask, Tasks, TaskSteps, Statuses, NoRun
  <2>2. QED
    BY <1>1, <1>3, <2>1 DEF Deliver, TypeOK, PersistenceTypeOK
<1>4. CASE SkipJob(w) \/ TaskReturns(w)
  BY <1>1, <1>4, TaskTypes
     DEF SkipJob, TaskReturns, TypeOK, PersistenceTypeOK
<1>5. CASE LoadJob(w)
  <2>1. [task[w] EXCEPT !.pc = "mark", !.view = jobs[task[w].job].status]
          \in Tasks
    BY <1>1, <1>2, <1>5 DEF LoadJob, TypeOK, Tasks, TaskSteps, JobRows
  <2>2. QED
    BY <1>1, <1>5, <2>1 DEF LoadJob, TypeOK, PersistenceTypeOK
<1>6. CASE MarkProcessing(w)
  <2> DEFINE s == UpdatedStatus(w, "processing")
  <2>1. s \in Statuses
    BY <1>1, <1>2, <1>6 DEF MarkProcessing, UpdatedStatus, TypeOK, JobRows,
                            Statuses
  <2> HIDE DEF s
  <2>2. [task[w] EXCEPT !.pc = "process", !.view = s] \in Tasks
    BY <1>1, <2>1 DEF TypeOK, Tasks, TaskSteps
  <2>3. [jobs[task[w].job] EXCEPT !.status = s] \in JobRows
    BY <1>1, <1>2, <1>6, <2>1 DEF MarkProcessing, TypeOK, JobRows
  <2>4. /\ task' = [task EXCEPT ![w].pc = "process", ![w].view = s]
        /\ jobs' = [jobs EXCEPT ![task[w].job].status = s]
        /\ UNCHANGED <<tables, objects, rq, api, faults>>
    BY <1>6 DEF MarkProcessing, s
  <2>5. QED
    BY <1>1, <2>2, <2>3, <2>4 DEF TypeOK, PersistenceTypeOK
<1>7. CASE ProcessPdf(w) \/ TaskRaises(w)
  BY <1>1, <1>7, TaskTypes
     DEF ProcessPdf, TaskRaises, TaskSteps, TypeOK, PersistenceTypeOK
<1>8. CASE SelectDocument(w)
  <2> DEFINE b == DocOf(w) \in documents
  <2>1. /\ task' = [task EXCEPT ![w].pc = "insert", ![w].found = b]
        /\ UNCHANGED <<db, objects, rq, api, faults>>
        /\ b \in BOOLEAN
    BY <1>8 DEF SelectDocument
  <2> HIDE DEF b
  <2>2. [task[w] EXCEPT !.pc = "insert", !.found = b] \in Tasks
    BY <1>1, <2>1 DEF TypeOK, Tasks, TaskSteps
  <2>3. QED
    BY <1>1, <2>1, <2>2 DEF TypeOK, PersistenceTypeOK
<1>9. CASE StoreResult(w)
  <2>1. [task[w] EXCEPT !.pc = "finish"] \in Tasks /\ task[w].run \in Nat
    BY <1>1 DEF TypeOK, Tasks, TaskSteps
  <2>2. QED
    BY <1>1, <1>9, <2>1 DEF StoreResult, TypeOK, PersistenceTypeOK
<1>10. CASE MarkSucceeded(w)
  <2> DEFINE s == UpdatedStatus(w, "succeeded")
  <2>1. s \in Statuses /\ task[w].run \in Nat
    BY <1>1, <1>2, <1>10 DEF MarkSucceeded, UpdatedStatus, TypeOK, JobRows,
                             Tasks, Statuses, Terminal
  <2> HIDE DEF s
  <2>2. [task[w] EXCEPT !.pc = "return", !.view = s] \in Tasks
    BY <1>1, <2>1 DEF TypeOK, Tasks, TaskSteps
  <2>3. [jobs[task[w].job] EXCEPT !.status = s, !.result = TRUE,
                                  !.run = task[w].run] \in JobRows
    <3>1. jobs[task[w].job] \in JobRows
      BY <1>1, <1>2, <1>10 DEF MarkSucceeded, TypeOK
    <3>2. QED
      BY <2>1, <3>1 DEF JobRows
  <2>4. /\ task' = [task EXCEPT ![w].pc = "return", ![w].view = s]
        /\ jobs' = [jobs EXCEPT ![task[w].job].status = s,
                                ![task[w].job].result = TRUE,
                                ![task[w].job].run = task[w].run]
        /\ UNCHANGED <<tables, objects, rq, api, faults>>
    BY <1>10 DEF MarkSucceeded, s
  <2>5. QED
    BY <1>1, <2>2, <2>3, <2>4 DEF TypeOK, PersistenceTypeOK
<1>11. CASE TaskTimesOut(w)
  <2>1. [task[w] EXCEPT !.pc = "except"] \in Tasks
    BY <1>1, TaskTypes DEF TaskSteps
  <2>2. QED
    BY <1>1, <1>11, <2>1
       DEF TaskTimesOut, Fault, TypeOK, PersistenceTypeOK
<1>12. CASE AbandonJob(w)
  BY <1>1, <1>2, <1>12 DEF AbandonJob, Fault, TypeOK, PersistenceTypeOK
<1>13. QED
  BY <1>3, <1>4, <1>5, <1>6, <1>7, <1>8, <1>9, <1>10, <1>11, <1>12
     DEF NoTablesStep

LEMMA TablesTypes ==
  ASSUME IndInv, NEW w \in Workers, TablesStep(w)
  PROVE  TypeOK'
<1> USE DEF db, tables, objects, rq, api
<1>1. TypeOK
  BY DEF IndInv
<1>2. task[w].pc # "idle" => task[w].job \in Jobs /\ DocOf(w) \in Docs
  BY DocOfTask
<1>3. w \in Sessions /\ sess[w] \in SessionStates
  BY <1>1, JobConstants DEF TypeOK, PersistenceTypeOK
<1>4. FreshSession \in SessionStates /\ PoisonedSession \in SessionStates
  BY DEF FreshSession, PoisonedSession, SessionStates
<1>5. CASE InsertRun(w)
  <2>1. runSeq + 1 \in Nat
    BY <1>1 DEF TypeOK, PersistenceTypeOK
  <2>2. [task[w] EXCEPT !.pc = "complete", !.run = runSeq + 1] \in Tasks
    BY <1>1, <2>1 DEF TypeOK, Tasks, TaskSteps
  <2> DEFINE docs == IF task[w].found THEN sess[w].docs
                                      ELSE sess[w].docs \cup {DocOf(w)}
             row  == [id |-> runSeq + 1, doc |-> DocOf(w),
                      status |-> "PROCESSING"]
             rows == sess[w].runs \cup {row}
  <2>3. docs \in SUBSET Docs
    BY <1>2, <1>3, <1>5 DEF InsertRun, SessionStates
  <2>4. row \in Runs
    BY <1>2, <1>5, <2>1 DEF InsertRun, Runs, RunStatus
  <2>5. sess' = [sess EXCEPT ![w].docs = docs, ![w].runs = rows]
    BY <1>5 DEF InsertRun, OpenRun
  <2>6. rows \in SUBSET Runs
    BY <1>3, <2>4 DEF SessionStates
  <2> HIDE DEF docs, rows
  <2>7. [sess[w] EXCEPT !.docs = docs, !.runs = rows] \in SessionStates
    BY <1>3, <2>3, <2>6 DEF SessionStates
  <2>8. QED
    <3>1. sess' \in [Sessions -> SessionStates] /\ task' \in [Workers -> Tasks]
      BY <1>1, <1>5, <2>2, <2>5, <2>7
         DEF InsertRun, TypeOK, PersistenceTypeOK
    <3>2. UNCHANGED <<documents, runs, jobs, objects, rq, api, faults>>
          /\ runSeq' \in Nat
      BY <1>5, <2>1 DEF InsertRun, OpenRun
    <3>3. QED
      BY <1>1, <3>1, <3>2 DEF TypeOK, PersistenceTypeOK
<1>6. CASE InsertConflicts(w)
  BY <1>1, <1>4, <1>6, TaskTypes
     DEF InsertConflicts, UniqueViolation, TaskSteps, TypeOK, PersistenceTypeOK
<1>7. CASE CompleteRun(w)
  <2> DEFINE row == FinishedRun(task[w].run, DocOf(w))
  <2>1. row \in Runs
    BY <1>1, <1>2, <1>7 DEF CompleteRun, FinishedRun, TypeOK, Tasks, Runs,
                                  RunStatus
  <2>2. sess' = [sess EXCEPT ![w].runs = {x \in @ : x.id # row.id} \cup {row}]
    BY <1>7 DEF CompleteRun, WriteRun
  <2> HIDE DEF row
  <2>3. [sess[w] EXCEPT !.runs = {x \in @ : x.id # row.id} \cup {row}]
          \in SessionStates
    BY <1>3, <2>1 DEF SessionStates
  <2>4. QED
    BY <1>1, <1>7, <2>2, <2>3, TaskTypes
       DEF CompleteRun, WriteRun, TaskSteps, TypeOK, PersistenceTypeOK
<1>8. CASE CommitRun(w)
  <2>1. [task[w] EXCEPT !.pc = "store", !.view = jobs[task[w].job].status]
          \in Tasks
    BY <1>1, <1>2, <1>8 DEF CommitRun, TypeOK, Tasks, TaskSteps, JobRows
  <2>2. QED
    BY <1>1, <1>3, <1>4, <1>8, <2>1
       DEF CommitRun, CommitTables, TypeOK, PersistenceTypeOK, SessionStates
<1>9. CASE TaskDbError(w)
  <2>1. [task[w] EXCEPT !.pc = "except"] \in Tasks
    BY <1>1, TaskTypes DEF TaskSteps
  <2>2. faults' \in Nat
    BY <1>1, <1>9 DEF TaskDbError, Fault, TypeOK, PersistenceTypeOK
  <2>3. QED
    BY <1>1, <1>4, <1>9, <2>1, <2>2
       DEF TaskDbError, PoisonTables, TypeOK, PersistenceTypeOK
<1>10. CASE HandleFailure(w)
  <2>1. jobs[task[w].job] \in JobRows
    BY <1>1, <1>2, <1>10 DEF HandleFailure, TypeOK
  <2>2. UpdatedStatus(w, "failed") \in Statuses
    BY <2>1 DEF UpdatedStatus, JobRows, Statuses, Terminal
  <2>3. [jobs[task[w].job] EXCEPT !.status = UpdatedStatus(w, "failed")]
          \in JobRows
    BY <2>1, <2>2 DEF JobRows
  <2>4. QED
    BY <1>1, <1>2, <1>3, <1>4, <1>10, <2>3, TaskTypes
       DEF HandleFailure, CommitTables, TypeOK, PersistenceTypeOK,
           SessionStates
<1>11. CASE HandlerGivesUp(w)
  BY <1>1, <1>2, <1>4, <1>11, TaskTypes
     DEF HandlerGivesUp, CloseTables, TypeOK, PersistenceTypeOK
<1>12. CASE WorkerStops(w)
  <2>1. faults' \in Nat
    BY <1>1, <1>12 DEF WorkerStops, Fault, TypeOK, PersistenceTypeOK
  <2>2. QED
    BY <1>1, <1>2, <1>4, <1>12, <2>1, TaskTypes
       DEF WorkerStops, CloseTables, TypeOK, PersistenceTypeOK
<1>13. QED
  BY <1>5, <1>6, <1>7, <1>8, <1>9, <1>10, <1>11, <1>12 DEF TablesStep

(* Types are preserved by every action.                                    *)
LEMMA TypeStep == IndInv /\ [Next]_vars => TypeOK'
<1>1. SUFFICES ASSUME IndInv, [Next]_vars PROVE TypeOK'
  OBVIOUS
<1>2. TypeOK /\ UploadsOwnTheirJob
  BY <1>1 DEF IndInv
<1> USE DEF db, tables, objects, rq, api
<1>3. CASE UNCHANGED vars
  BY <1>2, <1>3 DEF vars, TypeOK, PersistenceTypeOK
<1>4. ASSUME NEW p \in Apis, NEW j \in Jobs, NEW d \in Docs, PutInput(p, j, d)
      PROVE  TypeOK'
  BY <1>2, <1>4 DEF PutInput, TypeOK, PersistenceTypeOK, Uploads
<1>5. ASSUME NEW p \in Apis, CreateQueuedJob(p) PROVE TypeOK'
  <2>1. upload[p].job \in Jobs /\ upload[p].doc \in Docs
    BY <1>2, <1>5, JobConstants
       DEF CreateQueuedJob, UploadsOwnTheirJob, TypeOK
  <2>2. QueuedJob(upload[p].doc) \in JobRows
    BY <2>1 DEF QueuedJob, JobRows, Statuses, NoRun
  <2>3. [upload[p] EXCEPT !.pc = "enqueue"] \in Uploads
    BY <1>2 DEF TypeOK, Uploads
  <2>4. QED
    BY <1>2, <1>5, <2>2, <2>3 DEF CreateQueuedJob, TypeOK, PersistenceTypeOK
<1>6. ASSUME NEW p \in Apis,
             EnqueueJob(p) \/ EnqueueSwallowed(p) \/ UploadAborts(p)
      PROVE  TypeOK'
  <2>1. UploadIdle \in Uploads
    BY DEF UploadIdle, Uploads
  <2>2. upload[p].pc = "enqueue" => upload[p].job \in Jobs
    BY <1>2 DEF UploadsOwnTheirJob, TypeOK
  <2>3. CASE EnqueueJob(p)
    BY <1>2, <2>1, <2>2, <2>3 DEF EnqueueJob, TypeOK, PersistenceTypeOK
  <2>4. CASE EnqueueSwallowed(p)
    BY <1>2, <2>1, <2>2, <2>4
       DEF EnqueueSwallowed, Fault, TypeOK, PersistenceTypeOK
  <2>5. CASE UploadAborts(p)
    BY <1>2, <2>1, <2>5 DEF UploadAborts, Fault, TypeOK, PersistenceTypeOK
  <2>6. QED
    BY <1>6, <2>3, <2>4, <2>5
<1>7. ASSUME NEW w \in Workers, NoTablesStep(w) PROVE TypeOK'
  BY <1>1, <1>7, NoTablesTypes
<1>8. ASSUME NEW w \in Workers, TablesStep(w) PROVE TypeOK'
  BY <1>1, <1>8, TablesTypes
<1>9. ASSUME NEW j \in Jobs, RequeueJob(j) PROVE TypeOK'
  BY <1>2, <1>9 DEF RequeueJob, Fault, TypeOK, PersistenceTypeOK
<1>10. CASE QueueLost
  BY <1>2, <1>10 DEF QueueLost, Fault, TypeOK, PersistenceTypeOK
<1>11. QED
  BY <1>1, <1>3, <1>4, <1>5, <1>6, <1>7, <1>8, <1>9, <1>10
     DEF Next, UploadStep, TaskStep, NoTablesStep, TablesStep
----------------------------------------------------------------------------
(* Which actions write what                                                *)

(* Only a worker's steps write documents and analysis_runs here.           *)
LEMMA TablesWriters ==
  ASSUME [Next]_vars
  PROVE  UNCHANGED tables \/ \E w \in Workers : TablesStep(w)
BY DEF Next, vars, db, UploadStep, TaskStep, TablesStep, PutInput,
       CreateQueuedJob, EnqueueJob, EnqueueSwallowed, UploadAborts, Deliver,
       SkipJob, LoadJob, MarkProcessing, ProcessPdf, SelectDocument,
       StoreResult, MarkSucceeded, TaskReturns, TaskRaises, TaskTimesOut,
       AbandonJob, RequeueJob, QueueLost

LEMMA JobsWriters ==
  ASSUME [Next]_vars
  PROVE  \/ UNCHANGED jobs
         \/ \E p \in Apis : CreateQueuedJob(p)
         \/ \E w \in Workers :
              MarkProcessing(w) \/ MarkSucceeded(w) \/ HandleFailure(w)
BY DEF Next, vars, db, UploadStep, TaskStep, PutInput, EnqueueJob,
       EnqueueSwallowed, UploadAborts, Deliver, SkipJob, LoadJob, ProcessPdf,
       SelectDocument, InsertRun, InsertConflicts, CompleteRun, CommitRun,
       StoreResult, TaskReturns, TaskRaises, TaskTimesOut, TaskDbError,
       HandlerGivesUp, WorkerStops, AbandonJob, RequeueJob, QueueLost

LEMMA ObjectsWriters ==
  ASSUME [Next]_vars
  PROVE  /\ inputs \subseteq inputs'
         /\ UNCHANGED results \/ \E w \in Workers : StoreResult(w)
BY DEF Next, vars, objects, UploadStep, TaskStep, PutInput, CreateQueuedJob,
       EnqueueJob, EnqueueSwallowed, UploadAborts, Deliver, SkipJob, LoadJob,
       MarkProcessing, ProcessPdf, SelectDocument, InsertRun, InsertConflicts,
       CompleteRun, CommitRun, StoreResult, MarkSucceeded, TaskReturns,
       TaskRaises, TaskTimesOut, TaskDbError, HandleFailure, HandlerGivesUp,
       WorkerStops, AbandonJob, RequeueJob, QueueLost

(* The queue grows by an enqueue or a requeue, and shrinks otherwise.      *)
LEMMA QueueWriters ==
  ASSUME [Next]_vars
  PROVE  \/ UNCHANGED queue
         \/ \E p \in Apis : EnqueueJob(p)
         \/ \E w \in Workers : Deliver(w)
         \/ \E j \in Jobs : RequeueJob(j)
         \/ queue' = <<>>
BY DEF Next, vars, rq, UploadStep, TaskStep, PutInput, CreateQueuedJob,
       EnqueueSwallowed, UploadAborts, SkipJob, LoadJob, MarkProcessing,
       ProcessPdf, SelectDocument, InsertRun, InsertConflicts, CompleteRun,
       CommitRun, StoreResult, MarkSucceeded, TaskReturns, TaskRaises,
       TaskTimesOut, TaskDbError, HandleFailure, HandlerGivesUp,
       WorkerStops, AbandonJob, QueueLost

(* Only the job of a worker that has one enters the registry.              *)
LEMMA RegistryWriters ==
  ASSUME [Next]_vars
  PROVE  \/ failedReg' \subseteq failedReg
         \/ \E w \in Workers : /\ task[w].pc # "idle"
                               /\ failedReg' = failedReg \cup {task[w].job}
<1>1. \/ UNCHANGED failedReg
      \/ \E w \in Workers : \/ HandleFailure(w) \/ HandlerGivesUp(w)
                            \/ WorkerStops(w) \/ AbandonJob(w)
      \/ \E j \in Jobs : RequeueJob(j)
      \/ QueueLost
  BY Zenon
     DEF Next, vars, rq, UploadStep, TaskStep, PutInput, CreateQueuedJob,
         EnqueueJob, EnqueueSwallowed, UploadAborts, Deliver, SkipJob, LoadJob,
         MarkProcessing, ProcessPdf, SelectDocument, InsertRun,
         InsertConflicts, CompleteRun, CommitRun, StoreResult, MarkSucceeded,
         TaskReturns, TaskRaises, TaskTimesOut, TaskDbError
<1>2. ASSUME NEW w \in Workers,
             \/ HandleFailure(w) \/ HandlerGivesUp(w)
             \/ WorkerStops(w) \/ AbandonJob(w)
      PROVE  /\ task[w].pc # "idle"
             /\ failedReg' = failedReg \cup {task[w].job}
  BY <1>2 DEF HandleFailure, HandlerGivesUp, WorkerStops, AbandonJob
<1>3. (\E j \in Jobs : RequeueJob(j)) \/ QueueLost
        => failedReg' \subseteq failedReg
  BY DEF RequeueJob, QueueLost
<1>4. QED
  BY <1>1, <1>2, <1>3

(* A worker's task is written by its own steps only.                       *)
LEMMA TaskWriters ==
  ASSUME [Next]_vars
  PROVE  UNCHANGED task \/ \E w \in Workers : NoTablesStep(w) \/ TablesStep(w)
BY DEF Next, vars, UploadStep, TaskStep, NoTablesStep, TablesStep, PutInput,
       CreateQueuedJob, EnqueueJob, EnqueueSwallowed, UploadAborts,
       RequeueJob, QueueLost

LEMMA UploadWriters ==
  ASSUME [Next]_vars
  PROVE  \/ UNCHANGED upload
         \/ \E p \in Apis :
              \/ \E j \in Jobs, d \in Docs : PutInput(p, j, d)
              \/ CreateQueuedJob(p)
              \/ upload' = [upload EXCEPT ![p] = UploadIdle] /\ UNCHANGED jobs
BY DEF Next, vars, api, db, UploadStep, TaskStep, EnqueueJob,
       EnqueueSwallowed, UploadAborts, Deliver, SkipJob, LoadJob,
       MarkProcessing, ProcessPdf, SelectDocument, InsertRun, InsertConflicts,
       CompleteRun, CommitRun, StoreResult, MarkSucceeded, TaskReturns,
       TaskRaises, TaskTimesOut, TaskDbError, HandleFailure, HandlerGivesUp,
       WorkerStops, AbandonJob, RequeueJob, QueueLost

----------------------------------------------------------------------------
(* What no step takes away                                                 *)

(* Committed runs stay: a commit replaces only runs it flushed itself, and *)
(* those have ids of their own.                                            *)
LEMMA RunsGrow ==
  ASSUME IndInv, [Next]_vars
  PROVE  runs \subseteq runs'
<1>1. ASSUME NEW w \in Workers, CommitTables(w) PROVE runs \subseteq runs'
  BY <1>1, JobConstants DEF IndInv, PendingIdsAreFresh, CommitTables
<1>2. ASSUME NEW w \in Workers, TablesStep(w) PROVE runs \subseteq runs'
  BY <1>1, <1>2
     DEF TablesStep, InsertRun, OpenRun, InsertConflicts, UniqueViolation,
         CompleteRun, WriteRun, CommitRun, TaskDbError, PoisonTables,
         HandleFailure, HandlerGivesUp, CloseTables, WorkerStops
<1>3. QED
  BY <1>2, TablesWriters DEF tables

(* A job keeps its row and its document.                                   *)
LEMMA RowsStay ==
  ASSUME IndInv, [Next]_vars, NEW j \in Jobs, jobs[j].status # "absent"
  PROVE  jobs'[j].status # "absent" /\ jobs'[j].doc = jobs[j].doc
<1>1. TypeOK /\ UploadsOwnTheirJob
  BY DEF IndInv
<1>2. ASSUME NEW p \in Apis, CreateQueuedJob(p) PROVE jobs'[j] = jobs[j]
  BY <1>1, <1>2 DEF CreateQueuedJob, UploadsOwnTheirJob, TypeOK
<1>3. ASSUME NEW w \in Workers, MarkProcessing(w) \/ HandleFailure(w)
      PROVE  jobs'[j].status # "absent" /\ jobs'[j].doc = jobs[j].doc
  <2>1. PICK s : /\ s # "absent" \/ s = jobs[task[w].job].status
                 /\ jobs' = [jobs EXCEPT ![task[w].job].status = s]
    BY <1>3 DEF MarkProcessing, HandleFailure, UpdatedStatus
  <2>2. QED
    BY <1>1, <2>1 DEF TypeOK, JobRows
<1>4. ASSUME NEW w \in Workers, MarkSucceeded(w)
      PROVE  jobs'[j].status # "absent" /\ jobs'[j].doc = jobs[j].doc
  <2>1. PICK s : /\ s # "absent" \/ s = jobs[task[w].job].status
                 /\ jobs' = [jobs EXCEPT ![task[w].job].status = s,
                                         ![task[w].job].result = TRUE,
                                         ![task[w].job].run = task[w].run]
    BY <1>4 DEF MarkSucceeded, UpdatedStatus
  <2>2. QED
    BY <1>1, <2>1 DEF TypeOK, JobRows
<1>5. QED
  BY <1>2, <1>3, <1>4, JobsWriters

(* What a worker may rely on stays true while others work.                 *)
LEMMA BackedStays ==
  ASSUME IndInv, [Next]_vars, NEW j \in Jobs, NEW r,
         jobs[j].status # "absent", Backed(r, jobs[j].doc)
  PROVE  FinishedRun(r, jobs'[j].doc) \in runs'
BY RunsGrow, RowsStay DEF Backed

(* Once a result is stored, some result stays stored.                      *)
LEMMA ResultsStay ==
  ASSUME IndInv, [Next]_vars, NEW j \in Jobs
  PROVE  \/ results'[j] = results[j]
         \/ \E w \in Workers : /\ task[w].pc = "store" /\ task[w].job = j
                               /\ results'[j] = task[w].run
                               /\ task[w].run # NoRun
                               /\ Backed(task[w].run, DocOf(w))
<1>1. ASSUME NEW w \in Workers, StoreResult(w), results'[j] # results[j]
      PROVE  task[w].pc = "store" /\ task[w].job = j /\ results'[j] = task[w].run
  BY <1>1 DEF StoreResult, IndInv, TypeOK
<1>2. QED
  BY <1>1, ObjectsWriters DEF IndInv, TaskHoldsRun

----------------------------------------------------------------------------
(* The parts of the invariant                                              *)

LEMMA ResultsOwnedStep == IndInv /\ [Next]_vars => ResultsOwned'
<1>1. SUFFICES ASSUME IndInv, [Next]_vars, NEW j \in Jobs, results'[j] # NoRun
               PROVE  FinishedRun(results'[j], jobs'[j].doc) \in runs'
  BY DEF ResultsOwned, Backed
<1>2. CASE results'[j] = results[j]
  <2>1. jobs[j].status # "absent" /\ Backed(results[j], jobs[j].doc)
    BY <1>1, <1>2 DEF IndInv, RowsComeFirst, ResultsOwned
  <2>2. QED
    BY <1>1, <1>2, <2>1, BackedStays
<1>3. ASSUME NEW w \in Workers, task[w].pc = "store", task[w].job = j,
             results'[j] = task[w].run, Backed(task[w].run, DocOf(w))
      PROVE  FinishedRun(results'[j], jobs'[j].doc) \in runs'
  <2>1. jobs[j].status # "absent" /\ Backed(task[w].run, jobs[j].doc)
    BY <1>1, <1>3, DocOfTask DEF DocOf
  <2>2. QED
    BY <1>1, <1>3, <2>1, BackedStays DEF Backed
<1>4. QED
  BY <1>1, <1>2, <1>3, ResultsStay

LEMMA SucceededIsBackedStep == IndInv /\ [Next]_vars => SucceededIsBacked'
<1> DEFINE Good(j) == /\ jobs'[j].result
                      /\ results'[j] # NoRun
                      /\ FinishedRun(jobs'[j].run, jobs'[j].doc) \in runs'
<1>1. SUFFICES ASSUME IndInv, [Next]_vars, NEW j \in Jobs,
                      jobs'[j].status = "succeeded"
               PROVE  Good(j)
  BY DEF SucceededIsBacked, Backed
<1>2. ASSUME jobs[j].status = "succeeded", jobs'[j].result = jobs[j].result,
             jobs'[j].run = jobs[j].run
      PROVE  Good(j)
  <2>1. jobs[j].result /\ results[j] # NoRun /\ Backed(jobs[j].run, jobs[j].doc)
    BY <1>1, <1>2 DEF IndInv, SucceededIsBacked
  <2>2. results'[j] # NoRun
    BY <1>1, <2>1, ResultsStay
  <2>3. FinishedRun(jobs'[j].run, jobs'[j].doc) \in runs'
    BY <1>1, <1>2, <2>1, BackedStays DEF Backed
  <2>4. QED
    BY <1>2, <2>1, <2>2, <2>3
<1>3. CASE UNCHANGED jobs
  BY <1>1, <1>2, <1>3
<1>4. ASSUME NEW p \in Apis, CreateQueuedJob(p) PROVE Good(j)
  <2>1. jobs'[j] = jobs[j]
    BY <1>1, <1>4 DEF CreateQueuedJob, QueuedJob, IndInv, TypeOK
  <2>2. QED
    BY <1>1, <1>2, <2>1
<1>5. ASSUME NEW w \in Workers, MarkProcessing(w) \/ HandleFailure(w)
      PROVE  Good(j)
  <2>1. PICK s : /\ s # "succeeded" \/ s = jobs[task[w].job].status
                 /\ jobs' = [jobs EXCEPT ![task[w].job].status = s]
    BY <1>5 DEF MarkProcessing, HandleFailure, UpdatedStatus
  <2>2. /\ jobs[j].status = "succeeded"
        /\ jobs'[j].result = jobs[j].result
        /\ jobs'[j].run = jobs[j].run
    BY <1>1, <2>1 DEF IndInv, TypeOK, JobRows
  <2>3. QED
    BY <1>2, <2>2
<1>6. ASSUME NEW w \in Workers, MarkSucceeded(w) PROVE Good(j)
  <2>1. PICK s :
          /\ task[w].pc = "finish"
          /\ jobs' = [jobs EXCEPT ![task[w].job].status = s,
                                  ![task[w].job].result = TRUE,
                                  ![task[w].job].run = task[w].run]
    BY <1>6 DEF MarkSucceeded
  <2>2. CASE task[w].job # j
    <3>1. jobs'[j] = jobs[j]
      BY <1>1, <2>1, <2>2 DEF IndInv, TypeOK
    <3>2. QED
      BY <1>1, <1>2, <3>1
  <2>3. CASE task[w].job = j
    <3>1. jobs'[j].result /\ jobs'[j].run = task[w].run
      BY <1>1, <2>1, <2>3 DEF IndInv, TypeOK, JobRows
    <3>2. results[j] # NoRun /\ Backed(task[w].run, jobs[j].doc)
      BY <1>1, <2>1, <2>3 DEF IndInv, TaskHoldsRun, DocOf
    <3>3. jobs[j].status # "absent"
      BY <1>1, <2>1, <2>3, DocOfTask
    <3>4. results'[j] # NoRun
      BY <1>1, <3>2, ResultsStay
    <3>5. QED
      BY <1>1, <3>1, <3>2, <3>3, <3>4, BackedStays DEF Backed
  <2>4. QED
    BY <2>2, <2>3
<1>7. QED
  BY <1>1, <1>3, <1>4, <1>5, <1>6, JobsWriters

LEMMA PendingIdsStep == IndInv /\ [Next]_vars => PendingIdsAreFresh'
<1>1. SUFFICES ASSUME IndInv, [Next]_vars PROVE PendingIdsAreFresh'
  OBVIOUS
<1>2. /\ PendingIdsAreFresh
      /\ runSeq \in Nat
      /\ sess \in [Sessions -> SessionStates]
      /\ runs \subseteq Runs
      /\ Workers \subseteq Sessions
  BY <1>1, JobConstants DEF IndInv, TypeOK, PersistenceTypeOK
<1>3. CASE UNCHANGED tables
  BY <1>2, <1>3 DEF tables, PendingIdsAreFresh
<1>4. ASSUME NEW w \in Workers, InsertRun(w) PROVE PendingIdsAreFresh'
  <2> DEFINE row == [id |-> runSeq + 1, doc |-> DocOf(w),
                     status |-> "PROCESSING"]
  <2>1. /\ runSeq' = runSeq + 1
        /\ runs' = runs
        /\ sess'[w].runs = sess[w].runs \cup {row}
        /\ \A s \in Sessions : s # w => sess'[s] = sess[s]
    BY <1>2, <1>4 DEF InsertRun, OpenRun, SessionStates
  <2>2. row.id = runSeq + 1
    OBVIOUS
  <2>3. /\ \A r \in runs : r.id \in Nat
        /\ \A s \in Sessions : \A y \in sess[s].runs : y.id \in Nat
    BY <1>2 DEF SessionStates, Runs
  <2> HIDE DEF row
  <2>4. QED
    BY <1>2, <2>1, <2>2, <2>3 DEF PendingIdsAreFresh, NoRun
<1>5. ASSUME NEW w \in Workers, CompleteRun(w) PROVE PendingIdsAreFresh'
  <2> DEFINE row == FinishedRun(task[w].run, DocOf(w))
  <2>1. /\ runSeq' = runSeq
        /\ runs' = runs
        /\ sess'[w].runs = {x \in sess[w].runs : x.id # row.id} \cup {row}
        /\ \A s \in Sessions : s # w => sess'[s] = sess[s]
    BY <1>2, <1>5 DEF CompleteRun, WriteRun, SessionStates
  <2>2. PICK y \in sess[w].runs : y.id = row.id
    BY <1>1, <1>5 DEF IndInv, TaskHoldsRun, CompleteRun, FinishedRun
  <2> HIDE DEF row
  <2>3. QED
    BY <1>2, <2>1, <2>2 DEF PendingIdsAreFresh
<1>6. ASSUME NEW w \in Workers, CommitTables(w) PROVE PendingIdsAreFresh'
  <2>1. /\ runSeq' = runSeq
        /\ runs' \subseteq runs \cup sess[w].runs
        /\ sess'[w].runs = {}
        /\ \A s \in Sessions : s # w => sess'[s] = sess[s]
    BY <1>2, <1>6 DEF CommitTables, FreshSession
  <2>2. QED
    BY <1>2, <2>1 DEF PendingIdsAreFresh
<1>7. ASSUME NEW w \in Workers, runs' = runs, runSeq' = runSeq,
             \/ sess' = [sess EXCEPT ![w] = PoisonedSession]
             \/ sess' = [sess EXCEPT ![w] = FreshSession]
      PROVE  PendingIdsAreFresh'
  <2>1. /\ sess'[w].runs = {}
        /\ \A s \in Sessions : s # w => sess'[s] = sess[s]
    BY <1>2, <1>7 DEF PoisonedSession, FreshSession
  <2>2. QED
    BY <1>2, <1>7, <2>1 DEF PendingIdsAreFresh
<1>8. ASSUME NEW w \in Workers, TablesStep(w) PROVE PendingIdsAreFresh'
  BY <1>4, <1>5, <1>6, <1>7, <1>8
     DEF TablesStep, InsertConflicts, UniqueViolation, CommitRun, TaskDbError,
         PoisonTables, HandleFailure, HandlerGivesUp, CloseTables,
         WorkerStops
<1>9. QED
  BY <1>1, <1>3, <1>8, TablesWriters

(* A worker takes a job when RQ delivers it, keeps it while it is busy,    *)
(* and puts it down when it goes idle.                                     *)
LEMMA TaskKeepsJob ==
  ASSUME IndInv, [Next]_vars, NEW v \in Workers
  PROVE  \/ task'[v] = task[v]
         \/ task'[v] = TaskIdle
         \/ queue # <<>> /\ task'[v] = NewTask(Head(queue))
         \/ /\ task[v].pc # "idle" /\ task'[v].pc # "idle"
            /\ task'[v].job = task[v].job
<1> DEFINE Goal == \/ task'[v] = task[v]
                   \/ task'[v] = TaskIdle
                   \/ queue # <<>> /\ task'[v] = NewTask(Head(queue))
                   \/ /\ task[v].pc # "idle" /\ task'[v].pc # "idle"
                      /\ task'[v].job = task[v].job
<1>1. task \in [Workers -> Tasks]
  BY DEF IndInv, TypeOK
<1>2. ASSUME NEW w \in Workers, NoTablesStep(w) PROVE Goal
  <2>1. CASE Deliver(w)
    BY <1>1, <2>1 DEF Deliver
  <2>2. CASE SkipJob(w) \/ TaskReturns(w)
    BY <1>1, <2>2 DEF SkipJob, TaskReturns
  <2>3. CASE AbandonJob(w)
    BY <2>3 DEF AbandonJob
  <2>4. CASE LoadJob(w) \/ MarkProcessing(w) \/ ProcessPdf(w)
    BY <1>1, <2>4 DEF LoadJob, MarkProcessing, ProcessPdf, Tasks
  <2>5. CASE SelectDocument(w) \/ StoreResult(w) \/ MarkSucceeded(w)
    BY <1>1, <2>5 DEF SelectDocument, StoreResult, MarkSucceeded, Tasks
  <2>6. CASE TaskRaises(w) \/ TaskTimesOut(w)
    BY <1>1, <2>6 DEF TaskRaises, TaskTimesOut, Tasks
  <2>7. QED
    BY <1>2, <2>1, <2>2, <2>3, <2>4, <2>5, <2>6 DEF NoTablesStep
<1>3. ASSUME NEW w \in Workers, TablesStep(w) PROVE Goal
  <2>1. CASE HandleFailure(w) \/ HandlerGivesUp(w) \/ WorkerStops(w)
    BY <1>1, <2>1 DEF HandleFailure, HandlerGivesUp, WorkerStops
  <2>2. CASE InsertRun(w) \/ InsertConflicts(w)
    BY <1>1, <2>2 DEF InsertRun, InsertConflicts, Tasks
  <2>3. CASE CompleteRun(w) \/ CommitRun(w)
    BY <1>1, <2>3 DEF CompleteRun, CommitRun, Tasks
  <2>4. CASE TaskDbError(w)
    BY <1>1, <2>4 DEF TaskDbError, TaskSteps, Tasks
  <2>5. QED
    BY <1>3, <2>1, <2>2, <2>3, <2>4 DEF TablesStep
<1>4. QED
  BY <1>2, <1>3, TaskWriters

LEMMA TasksHaveJobsStep == IndInv /\ [Next]_vars => TasksHaveJobs'
<1>1. SUFFICES ASSUME IndInv, [Next]_vars, NEW w \in Workers
               PROVE  IF task'[w].pc = "idle" THEN task'[w].job = NoJob
                                              ELSE task'[w].job \in Jobs
  BY DEF TasksHaveJobs
<1>2. queue # <<>> => Head(queue) \in Jobs
  BY SMTT(20), <1>1 DEF IndInv, TypeOK
<1>3. QED
  BY <1>1, <1>2, TaskKeepsJob DEF IndInv, TasksHaveJobs, TaskIdle, NewTask

LEMMA UploadsStep == IndInv /\ [Next]_vars => UploadsOwnTheirJob'
<1>1. SUFFICES ASSUME IndInv, [Next]_vars PROVE UploadsOwnTheirJob'
  OBVIOUS
<1>2. UploadsOwnTheirJob /\ TypeOK /\ RowsComeFirst /\ inputs \subseteq inputs'
  BY <1>1, ObjectsWriters DEF IndInv
<1>3. ASSUME NEW p \in Apis, NEW j \in Jobs, NEW d \in Docs, PutInput(p, j, d)
      PROVE  UploadsOwnTheirJob'
  <2>1. /\ upload'[p] = [pc |-> "create", job |-> j, doc |-> d]
        /\ \A q \in Apis : q # p => upload'[q] = upload[q]
        /\ j \notin inputs /\ j \in inputs' /\ jobs' = jobs
    BY <1>2, <1>3 DEF PutInput, TypeOK, db
  <2>2. jobs[j].status = "absent"
    BY <1>2, <2>1 DEF RowsComeFirst
  <2>3. QED
    BY <1>2, <2>1, <2>2 DEF UploadsOwnTheirJob
<1>4. ASSUME NEW p \in Apis, CreateQueuedJob(p) PROVE UploadsOwnTheirJob'
  <2>1. /\ upload[p].pc = "create" /\ upload[p].job \in Jobs
        /\ upload'[p].pc = "enqueue"
        /\ upload'[p].job = upload[p].job /\ upload'[p].doc = upload[p].doc
        /\ \A q \in Apis : q # p => upload'[q] = upload[q]
        /\ jobs'[upload[p].job].status = "queued"
        /\ \A j \in Jobs : j # upload[p].job => jobs'[j] = jobs[j]
    BY <1>2, <1>4, JobConstants
       DEF CreateQueuedJob, QueuedJob, UploadsOwnTheirJob, TypeOK, Uploads
  <2>2. \A q \in Apis : upload[q].pc # "idle" => upload[q].job \in Jobs
    BY <1>2 DEF UploadsOwnTheirJob, TypeOK
  <2>3. QED
    BY <1>2, <2>1, <2>2 DEF UploadsOwnTheirJob
<1>5. ASSUME NEW p \in Apis, upload' = [upload EXCEPT ![p] = UploadIdle],
             UNCHANGED jobs
      PROVE  UploadsOwnTheirJob'
  <2>1. /\ upload'[p].pc = "idle"
        /\ \A q \in Apis : q # p => upload'[q] = upload[q]
    BY <1>2, <1>5 DEF UploadIdle, TypeOK
  <2>2. QED
    BY <1>2, <1>5, <2>1 DEF UploadsOwnTheirJob
<1>6. CASE UNCHANGED upload
  <2>1. \A p \in Apis : upload[p].pc # "idle" =>
          /\ upload[p].job \in Jobs
          /\ jobs[upload[p].job].status = "absent"
               => jobs'[upload[p].job].status = "absent"
          /\ jobs[upload[p].job].status # "absent"
               => jobs'[upload[p].job].status # "absent"
    <3>1. SUFFICES ASSUME NEW p \in Apis, upload[p].pc # "idle",
                          upload[p].job \in Jobs,
                          jobs[upload[p].job].status = "absent"
                   PROVE  jobs'[upload[p].job] = jobs[upload[p].job]
      BY <1>1, <1>2, RowsStay DEF UploadsOwnTheirJob, TypeOK
    <3>2. ASSUME NEW q \in Apis, CreateQueuedJob(q) PROVE FALSE
      BY <1>2, <1>6, <3>2 DEF CreateQueuedJob, TypeOK, Uploads
    <3>3. ASSUME NEW w \in Workers,
                 MarkProcessing(w) \/ MarkSucceeded(w) \/ HandleFailure(w)
          PROVE  /\ task[w].job # upload[p].job
                 /\ \A j \in Jobs : j # task[w].job => jobs'[j] = jobs[j]
      <4>1. task[w].pc # "idle"
        BY <3>3 DEF MarkProcessing, MarkSucceeded, HandleFailure
      <4>2. task[w].job # upload[p].job
        BY <1>1, <3>1, <4>1, DocOfTask
      <4>3. QED
        BY <1>2, <3>3, <4>2
           DEF MarkProcessing, MarkSucceeded, HandleFailure, TypeOK
    <3>4. QED
      BY <1>1, <3>1, <3>2, <3>3, JobsWriters
  <2>2. QED
    BY <1>2, <1>6, <2>1 DEF UploadsOwnTheirJob
<1>7. QED
  BY <1>1, <1>3, <1>4, <1>5, <1>6, UploadWriters

(* Whoever is queued, worked on or registered as failed has a row.         *)
LEMMA RowsComeFirstStep == IndInv /\ [Next]_vars => RowsComeFirst'
<1>1. SUFFICES ASSUME IndInv, [Next]_vars, NEW j \in Jobs
               PROVE  IF jobs'[j].status = "absent"
                      THEN /\ results'[j] = NoRun
                           /\ ~InQueue(j)' /\ ~Live(j)' /\ j \notin failedReg'
                      ELSE j \in inputs' /\ jobs'[j].doc \in Docs
  BY DEF RowsComeFirst, InQueue, Live
<1>2. TypeOK /\ RowsComeFirst /\ UploadsOwnTheirJob /\ TasksHaveJobs
  BY <1>1 DEF IndInv
<1>3. ASSUME jobs'[j].status # "absent"
      PROVE  j \in inputs' /\ jobs'[j].doc \in Docs
  <2>1. CASE jobs[j].status # "absent"
    BY <1>1, <1>2, <2>1, RowsStay, ObjectsWriters DEF RowsComeFirst
  <2>2. CASE jobs[j].status = "absent"
    <3>1. ASSUME NEW w \in Workers,
                 MarkProcessing(w) \/ MarkSucceeded(w) \/ HandleFailure(w)
          PROVE  jobs'[j] = jobs[j]
      <4>1. task[w].pc # "idle"
        BY <3>1 DEF MarkProcessing, MarkSucceeded, HandleFailure
      <4>2. task[w].job # j
        BY <1>1, <2>2, <4>1, DocOfTask
      <4>3. QED
        BY <1>2, <3>1, <4>2
           DEF MarkProcessing, MarkSucceeded, HandleFailure, TypeOK
    <3>2. PICK p \in Apis : CreateQueuedJob(p)
      BY <1>1, <1>3, <2>2, <3>1, JobsWriters
    <3>3. upload[p].job = j /\ jobs'[j].doc = upload[p].doc
      BY <1>2, <1>3, <2>2, <3>2 DEF CreateQueuedJob, QueuedJob, TypeOK
    <3>4. QED
      BY <1>1, <1>2, <3>2, <3>3, ObjectsWriters
         DEF CreateQueuedJob, UploadsOwnTheirJob
  <2>3. QED
    BY <2>1, <2>2
<1>4. ASSUME jobs'[j].status = "absent"
      PROVE  /\ results'[j] = NoRun
             /\ ~InQueue(j)' /\ ~Live(j)' /\ j \notin failedReg'
  <2>1. /\ jobs[j].status = "absent" /\ results[j] = NoRun
        /\ ~InQueue(j) /\ ~Live(j) /\ j \notin failedReg
    BY <1>1, <1>2, <1>4, RowsStay DEF RowsComeFirst
  <2>2. results'[j] = NoRun
    BY <1>1, <2>1, ResultsStay, DocOfTask
  <2>3. j \notin failedReg'
    BY <1>1, <2>1, RegistryWriters, DocOfTask
  <2>4. ~InQueue(j)'
    <3>1. queue \in Seq(Jobs) /\ \A i \in 1..Len(queue) : queue[i] # j
      BY <1>2, <2>1 DEF TypeOK, InQueue
    <3>2. ASSUME NEW k \in Jobs, k # j, queue' = Append(queue, k)
          PROVE  ~InQueue(j)'
      BY <3>1, <3>2 DEF InQueue
    <3>3. ASSUME NEW p \in Apis, EnqueueJob(p) PROVE ~InQueue(j)'
      <4>1. upload[p].job \in Jobs /\ upload[p].job # j
        BY <1>2, <2>1, <3>3 DEF EnqueueJob, UploadsOwnTheirJob, TypeOK
      <4>2. QED
        BY <3>2, <3>3, <4>1 DEF EnqueueJob
    <3>4. ASSUME NEW k \in Jobs, RequeueJob(k) PROVE ~InQueue(j)'
      BY <2>1, <3>2, <3>4 DEF RequeueJob
    <3>5. ASSUME NEW w \in Workers, Deliver(w) PROVE ~InQueue(j)'
      <4>1. queue # <<>> /\ queue' = Tail(queue)
        BY <3>5 DEF Deliver
      <4>2. QED
        BY SMTT(20), <3>1, <4>1 DEF InQueue
    <3>6. CASE queue' = <<>>
      BY <3>6 DEF InQueue
    <3>7. QED
      BY <1>1, <3>1, <3>3, <3>4, <3>5, <3>6, QueueWriters DEF InQueue
  <2>5. ~Live(j)'
    <3>1. \A w \in Workers : task[w].job # j
      BY <2>1 DEF Live
    <3>2. queue # <<>> => Head(queue) # j
      BY SMTT(20), <1>2, <2>1 DEF TypeOK, InQueue
    <3>3. QED
      BY <1>1, <3>1, <3>2, TaskKeepsJob, JobConstants
         DEF Live, TaskIdle, NewTask
  <2>6. QED
    BY <2>2, <2>3, <2>4, <2>5
<1>5. QED
  BY <1>3, <1>4

(* A worker's place in process_document_job moves by its own steps only.   *)
LEMMA OthersKeepTask ==
  ASSUME IndInv, [Next]_vars, NEW v \in Workers, task'[v] # task[v]
  PROVE  NoTablesStep(v) \/ TablesStep(v)
<1>1. task \in [Workers -> Tasks]
  BY DEF IndInv, TypeOK
<1>2. PICK w \in Workers : NoTablesStep(w) \/ TablesStep(w)
  BY TaskWriters
<1>3. \A u \in Workers \ {w} : task'[u] = task[u]
  <2>1. CASE NoTablesStep(w)
    BY <1>1, <2>1
       DEF NoTablesStep, Deliver, SkipJob, LoadJob, MarkProcessing, ProcessPdf,
           SelectDocument, StoreResult, MarkSucceeded, TaskReturns, TaskRaises,
           TaskTimesOut, AbandonJob
  <2>2. CASE TablesStep(w)
    BY <1>1, <2>2
       DEF TablesStep, InsertRun, InsertConflicts, CompleteRun, CommitRun,
           TaskDbError, HandleFailure, HandlerGivesUp, WorkerStops
  <2>3. QED
    BY <1>2, <2>1, <2>2
<1>4. QED
  BY <1>2, <1>3

(* What one worker has flushed or committed is untouched by the others.    *)
LEMMA OthersKeepSession ==
  ASSUME IndInv, [Next]_vars, NEW v \in Workers, sess'[v] # sess[v]
  PROVE  TablesStep(v)
<1>1. sess \in [Sessions -> SessionStates] /\ v \in Sessions
  BY JobConstants DEF IndInv, TypeOK, PersistenceTypeOK
<1>2. PICK w \in Workers : TablesStep(w)
  BY TablesWriters DEF tables
<1>3. \A s \in Sessions \ {w} : sess'[s] = sess[s]
  BY <1>1, <1>2
     DEF TablesStep, InsertRun, OpenRun, InsertConflicts, UniqueViolation,
         CompleteRun, WriteRun, CommitRun, CommitTables, TaskDbError,
         PoisonTables, HandleFailure, HandlerGivesUp, CloseTables,
         WorkerStops
<1>4. QED
  BY <1>1, <1>2, <1>3

(* TaskHoldsRun of worker v, with its state and the tables as parameters.  *)
Holds(v, t, s, rs, res, d) ==
  /\ t.pc \in {"complete", "commit"} => \E y \in s.runs : y.id = t.run
  /\ t.pc = "commit" => FinishedRun(t.run, d) \in s.runs
  /\ t.pc \in {"store", "finish"} =>
       t.run # NoRun /\ FinishedRun(t.run, d) \in rs
  /\ t.pc = "finish" => res[t.job] # NoRun

LEMMA TaskHoldsRunStep == IndInv /\ [Next]_vars => TaskHoldsRun'
<1> DEFINE d(v) == jobs[task[v].job].doc
           Now(v) == Holds(v, task[v], sess[v], runs, results, d(v))
           Then(v) == Holds(v, task'[v], sess'[v], runs', results', d(v)')
<1>1. SUFFICES ASSUME IndInv, [Next]_vars, NEW v \in Workers PROVE Then(v)
  BY DEF TaskHoldsRun, Holds, Backed, DocOf
<1>2. /\ TypeOK
      /\ task \in [Workers -> Tasks]
      /\ sess \in [Sessions -> SessionStates] /\ v \in Sessions
      /\ Now(v)
  BY <1>1, JobConstants
     DEF IndInv, TypeOK, PersistenceTypeOK, TaskHoldsRun, Holds, Backed, DocOf
<1>3. runs \subseteq runs'
  BY <1>1, RunsGrow
<1>4. task[v].pc # "idle" =>
        /\ task[v].job \in Jobs
        /\ jobs'[task[v].job].doc = d(v)
        /\ results[task[v].job] # NoRun => results'[task[v].job] # NoRun
  BY <1>1, DocOfTask, RowsStay, ResultsStay
<1>5. CASE task'[v] = task[v] /\ sess'[v] = sess[v]
  <2>1. CASE task[v].pc = "idle"
    BY <1>5, <2>1 DEF Holds
  <2>2. CASE task[v].pc # "idle"
    BY <1>2, <1>3, <1>4, <1>5, <2>2 DEF Holds
  <2>3. QED
    BY <2>1, <2>2
<1>6. CASE task'[v].pc \notin {"complete", "commit", "store", "finish"}
  BY <1>6 DEF Holds
<1>7. CASE InsertRun(v)
  <2> DEFINE row == [id |-> runSeq + 1, doc |-> DocOf(v),
                     status |-> "PROCESSING"]
  <2>1. /\ task'[v].pc = "complete" /\ task'[v].run = runSeq + 1
        /\ row \in sess'[v].runs
    BY <1>2, <1>7 DEF InsertRun, OpenRun, Tasks, SessionStates
  <2>2. QED
    BY <2>1 DEF Holds
<1>8. CASE CompleteRun(v)
  <2> DEFINE row == FinishedRun(task[v].run, DocOf(v))
  <2>1. /\ task[v].pc # "idle" /\ task'[v].pc = "commit"
        /\ task'[v].run = task[v].run /\ task'[v].job = task[v].job
        /\ sess'[v].runs = {x \in sess[v].runs : x.id # row.id} \cup {row}
    BY <1>2, <1>8 DEF CompleteRun, WriteRun, Tasks, SessionStates
  <2>2. row.id = task[v].run
    BY DEF FinishedRun
  <2>3. d(v)' = DocOf(v)
    BY <1>4, <2>1 DEF DocOf
  <2>4. QED
    BY <2>1, <2>2, <2>3 DEF Holds
<1>9. CASE CommitRun(v)
  <2>1. /\ task[v].pc = "commit" /\ task'[v].pc = "store"
        /\ task'[v].run = task[v].run /\ task'[v].job = task[v].job
        /\ sess[v].runs \subseteq runs'
    BY <1>2, <1>9 DEF CommitRun, CommitTables, Tasks
  <2>2. FinishedRun(task[v].run, d(v)) \in sess[v].runs
    BY <1>2, <2>1 DEF Holds
  <2>3. task[v].run # NoRun
    BY <1>1, <1>2, <2>2 DEF IndInv, PendingIdsAreFresh, FinishedRun
  <2>4. d(v)' = d(v)
    BY <1>4, <2>1
  <2>5. QED
    BY <2>1, <2>2, <2>3, <2>4 DEF Holds
<1>10. CASE StoreResult(v)
  <2>1. /\ task[v].pc = "store" /\ task'[v].pc = "finish"
        /\ task'[v].run = task[v].run /\ task'[v].job = task[v].job
        /\ results'[task[v].job] = task[v].run
    BY <1>2, <1>4, <1>10 DEF StoreResult, TypeOK, Tasks
  <2>2. QED
    BY <1>2, <1>3, <1>4, <2>1 DEF Holds
<1>11. TablesStep(v) => Then(v)
  BY <1>2, <1>6, <1>7, <1>8, <1>9
     DEF TablesStep, InsertConflicts, TaskDbError, HandleFailure,
         HandlerGivesUp, WorkerStops, TaskIdle, Tasks
<1>12. NoTablesStep(v) => Then(v)
  <2>1. CASE sess'[v] # sess[v]
    BY <1>1, <1>11, <2>1, OthersKeepSession
  <2>2. CASE sess'[v] = sess[v]
    BY <1>2, <1>5, <1>6, <1>10, <2>2
       DEF NoTablesStep, Deliver, SkipJob, LoadJob, MarkProcessing, ProcessPdf,
           SelectDocument, MarkSucceeded, TaskReturns, TaskRaises,
           TaskTimesOut, AbandonJob, TaskIdle, NewTask, Tasks
  <2>3. QED
    BY <2>1, <2>2
<1>13. QED
  <2>1. CASE sess'[v] # sess[v]
    BY <1>1, <1>11, <2>1, OthersKeepSession
  <2>2. CASE task'[v] = task[v] /\ sess'[v] = sess[v]
    BY <1>5, <2>2
  <2>3. CASE task'[v] # task[v]
    BY <1>1, <1>2, <1>11, <1>12, <2>3, OthersKeepTask
  <2>4. QED
    BY <2>1, <2>2, <2>3

LEMMA PoisonedTasksFailStep == IndInv /\ [Next]_vars => PoisonedTasksFail'
<1>1. SUFFICES ASSUME IndInv, [Next]_vars, NEW v \in Workers, sess'[v].poisoned
               PROVE  task'[v].pc = "except"
  BY DEF PoisonedTasksFail
<1>2. /\ task \in [Workers -> Tasks]
      /\ sess \in [Sessions -> SessionStates] /\ v \in Sessions
      /\ sess[v].poisoned => task[v].pc = "except"
  BY <1>1, JobConstants
     DEF IndInv, TypeOK, PersistenceTypeOK, PoisonedTasksFail
<1>3. CASE TablesStep(v)
  <2>1. CASE InsertRun(v) \/ CompleteRun(v)
    BY <1>1, <1>2, <2>1
       DEF InsertRun, OpenRun, CompleteRun, WriteRun, SessionStates
  <2>2. CASE InsertConflicts(v) \/ TaskDbError(v)
    BY <1>2, <2>2 DEF InsertConflicts, TaskDbError, Tasks
  <2>3. CASE CommitRun(v) \/ HandleFailure(v)
    BY <1>1, <1>2, <2>3
       DEF CommitRun, HandleFailure, CommitTables, FreshSession
  <2>4. CASE HandlerGivesUp(v) \/ WorkerStops(v)
    BY <1>1, <1>2, <2>4
       DEF HandlerGivesUp, WorkerStops, CloseTables, FreshSession
  <2>5. QED
    BY <1>3, <2>1, <2>2, <2>3, <2>4 DEF TablesStep
<1>4. CASE ~TablesStep(v)
  <2>1. sess'[v] = sess[v] /\ task[v].pc = "except"
    BY <1>1, <1>2, <1>4, OthersKeepSession
  <2>2. CASE task'[v] = task[v]
    BY <2>1, <2>2
  <2>3. CASE NoTablesStep(v)
    BY <1>2, <2>1, <2>3
       DEF NoTablesStep, Deliver, SkipJob, LoadJob, MarkProcessing, ProcessPdf,
           SelectDocument, StoreResult, MarkSucceeded, TaskReturns, TaskRaises,
           TaskTimesOut, AbandonJob
  <2>4. QED
    BY <1>1, <1>4, <2>2, <2>3, OthersKeepTask
<1>5. QED
  BY <1>3, <1>4

----------------------------------------------------------------------------
(* Theorems                                                                *)

(* The invariant is inductive.                                             *)
LEMMA IndInvStep == IndInv /\ [Next]_vars => IndInv'
BY TypeStep, RowsComeFirstStep, UploadsStep, TasksHaveJobsStep, PendingIdsStep,
   TaskHoldsRunStep, PoisonedTasksFailStep, ResultsOwnedStep,
   SucceededIsBackedStep DEF IndInv

(* What every stage of uploads.py and tasks.py may rely on holds in every  *)
(* reachable state: rows before queue entries, one owner per job id, fresh *)
(* ids for flushed runs, a flushed or committed run behind every later     *)
(* stage, and the except block behind every poisoned session.              *)
THEOREM Invariance == Spec => []IndInv
<1>1. Init => IndInv
  BY InitInv
<1>2. IndInv /\ [Next]_vars => IndInv'
  BY IndInvStep
<1>3. QED
  BY <1>1, <1>2, PTL DEF Spec

(* Every variable keeps its type, whatever is delivered, retried or lost.  *)
THEOREM TypeCorrect == Spec => []TypeOK
<1>1. IndInv => TypeOK
  BY DEF IndInv
<1>2. QED
  BY <1>1, Invariance, PTL

(* process_document_job never gets a job id whose row or PDF is missing:   *)
(* upload_document's order (object, row, queue) survives every failure.    *)
THEOREM JobsExist == Spec => []DeliveredJobsExist
<1>1. IndInv => DeliveredJobsExist
  BY DEF IndInv, RowsComeFirst, DeliveredJobsExist
<1>2. QED
  BY <1>1, Invariance, PTL

(* The analysis_id in a stored result payload is that of a committed,      *)
(* finished run of the job's own user and PDF, for any number of workers,  *)
(* overlapping executions of one job included.                             *)
THEOREM ResultsAreOwned == Spec => []ResultsOwned
<1>1. IndInv => ResultsOwned
  BY DEF IndInv
<1>2. QED
  BY <1>1, Invariance, PTL

(* A job that GET /jobs/{id} reports as succeeded has its result object    *)
(* and a finished analysis run of its own user and PDF.                    *)
THEOREM SucceededJobsAreBacked == Spec => []SucceededIsBacked
<1>1. IndInv => SucceededIsBacked
  BY DEF IndInv
<1>2. QED
  BY <1>1, Invariance, PTL

(* A settled job is not written.                                           *)
LEMMA SettledRow ==
  ASSUME IndInv, [Next]_vars, NEW j \in Jobs, Settled(j)
  PROVE  jobs'[j] = jobs[j]
<1>1. ASSUME NEW p \in Apis, CreateQueuedJob(p) PROVE jobs'[j] = jobs[j]
  <2>1. jobs[upload[p].job].status = "absent"
    BY <1>1 DEF CreateQueuedJob, IndInv, UploadsOwnTheirJob
  <2>2. upload[p].job # j
    BY <2>1 DEF Settled, Terminal
  <2>3. QED
    BY <1>1, <2>2 DEF CreateQueuedJob, IndInv, TypeOK
<1>2. ASSUME NEW w \in Workers,
             MarkProcessing(w) \/ MarkSucceeded(w) \/ HandleFailure(w)
      PROVE  jobs'[j] = jobs[j]
  <2>1. task[w].pc # "load" /\ ~sess[w].poisoned
    BY <1>2 DEF MarkProcessing, MarkSucceeded, HandleFailure, IndInv,
                PoisonedTasksFail
  <2>2. task[w].job # j
    BY <2>1 DEF Settled, Running
  <2>3. QED
    BY <1>2, <2>2
       DEF MarkProcessing, MarkSucceeded, HandleFailure, IndInv, TypeOK
<1>3. QED
  BY <1>1, <1>2, JobsWriters

(* No later delivery of a settled job gets past its look at the row.       *)
LEMMA SettledStep ==
  ASSUME IndInv, [Next]_vars, NEW j \in Jobs, Settled(j)
  PROVE  jobs'[j] = jobs[j] /\ (Settled(j)' \/ LoadTimesOut(j))
<1>1. jobs'[j] = jobs[j]
  BY SettledRow
<1>2. ASSUME NEW v \in Workers, task'[v].job = j, task'[v].pc # "load",
             ~sess'[v].poisoned
      PROVE  LoadTimesOut(j)
  <2>1. /\ task \in [Workers -> Tasks]
        /\ sess \in [Sessions -> SessionStates] /\ v \in Sessions
        /\ PoisonedTasksFail
    BY JobConstants DEF IndInv, TypeOK, PersistenceTypeOK
  <2>2. task[v].job # j \/ task[v].pc = "load" \/ sess[v].poisoned
    BY DEF Settled, Running
  <2>3. task[v].job = j
    BY <1>2, TaskKeepsJob, JobConstants DEF TaskIdle, NewTask
  <2>4. task'[v].pc # "idle"
    BY <1>2, TasksHaveJobsStep, JobConstants DEF TasksHaveJobs
  <2>5. CASE sess[v].poisoned
    <3>1. TablesStep(v) /\ task[v].pc = "except"
      BY <1>2, <2>1, <2>5, OthersKeepSession DEF PoisonedTasksFail
    <3>2. TaskDbError(v)
      BY <2>1, <2>4, <3>1
         DEF TablesStep, InsertRun, InsertConflicts, CompleteRun, CommitRun,
             HandleFailure, HandlerGivesUp, WorkerStops, TaskIdle
    <3>3. QED
      BY <1>2, <2>1, <3>2 DEF TaskDbError, PoisonTables, PoisonedSession
  <2>6. CASE task[v].pc = "load"
    <3>1. NoTablesStep(v) \/ TablesStep(v)
      BY <1>2, <2>6, OthersKeepTask
    <3>2. jobs[task[v].job].status \in Terminal
      BY <2>3 DEF Settled
    <3>3. CASE NoTablesStep(v)
      <4>1. TaskTimesOut(v)
        BY <1>2, <2>1, <2>4, <2>6, <3>2, <3>3
           DEF NoTablesStep, Deliver, SkipJob, LoadJob, MarkProcessing,
               ProcessPdf, SelectDocument, StoreResult, MarkSucceeded,
               TaskReturns, TaskRaises, AbandonJob, TaskIdle
      <4>2. QED
        BY <2>3, <2>6, <4>1 DEF LoadTimesOut
    <3>4. CASE TablesStep(v)
      <4>1. TaskDbError(v)
        BY <2>1, <2>4, <2>6, <3>4
           DEF TablesStep, InsertRun, InsertConflicts, CompleteRun, CommitRun,
               HandleFailure, HandlerGivesUp, WorkerStops, TaskIdle
      <4>2. QED
        BY <1>2, <2>1, <4>1 DEF TaskDbError, PoisonTables, PoisonedSession
    <3>5. QED
      BY <3>1, <3>3, <3>4
  <2>7. QED
    BY <2>2, <2>3, <2>5, <2>6
<1>3. QED
  BY <1>1, <1>2 DEF Settled, Running

(* Once a job is terminal and no execution of it can still write, its row  *)
(* never changes again, however often it is requeued and delivered:        *)
(* process_document_job skips jobs that are already terminal.  Only a job  *)
(* timeout that strikes before that look can make it writable again.       *)
THEOREM SettledJobsStay == Spec => SettledStays
<1> DEFINE Stay ==
      \A j \in Jobs : Settled(j) =>
        jobs'[j] = jobs[j] /\ (Settled(j)' \/ LoadTimesOut(j))
<1>1. IndInv /\ [Next]_vars => [Stay]_vars
  BY SettledStep
<1>2. QED
  BY <1>1, Invariance, PTL DEF Spec, SettledStays
=============================================================================
