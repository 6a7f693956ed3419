---------------------------- MODULE JobLifecycle ----------------------------
(***************************************************************************)
(* The asynchronous path of a document: POST /api/v1/uploads stores the    *)
(* PDF, inserts a jobs row and enqueues the job; an RQ worker runs         *)
(* process_document_job; the client polls GET /api/v1/jobs/{id}.           *)
(*                                                                         *)
(* An action is the code between two points where another process, or a    *)
(* failure, can be noticed: a database commit, a SELECT, an object store   *)
(* call, a queue call.  What RQ and Redis do (deliver, keep a registry of  *)
(* failed jobs, let an operator requeue one, declare a silent worker's job *)
(* abandoned) is modelled from how run_worker.py and enqueue_job use them. *)
(***************************************************************************)
EXTENDS Persistence, Sequences, FiniteSets

CONSTANTS
  Jobs,       \* job ids; one upload request makes one fresh id
  Workers,    \* RQ worker processes
  Apis,       \* API processes; each serves one async handler at a time
  NoJob,      \* no job
  NoDoc       \* the document of a job id that is not in use

ASSUME JobConstants ==
  /\ NoJob \notin Jobs
  /\ NoDoc \notin Docs
  /\ Workers \cap Apis = {}
  /\ Workers \cup Apis \subseteq Sessions

VARIABLES
  jobs,      \* the jobs table
  inputs,    \* object store: jobs whose uploads/... object exists
  results,   \* object store: analysis_id in results/{job}.json, or NoRun
  queue,     \* the RQ queue
  failedReg, \* RQ's registry of jobs whose execution ended in an error
  accepted,  \* jobs whose uploader has received 202
  upload,    \* upload[p]: what API process p is doing
  task       \* task[w]: where worker w is in process_document_job

db == <<tables, jobs>>
objects == <<inputs, results>>
rq == <<queue, failedReg>>
api == <<accepted, upload>>

vars == <<db, objects, rq, api, task, faults>>

Terminal == {"succeeded", "failed", "cancelled"}

Statuses == {"absent", "queued", "processing"} \cup Terminal

AbsentJob == [status |-> "absent", doc |-> NoDoc, result |-> FALSE,
              run |-> NoRun]

QueuedJob(d) == [status |-> "queued", doc |-> d, result |-> FALSE,
                 run |-> NoRun]

UploadIdle == [pc |-> "idle", job |-> NoJob, doc |-> NoDoc]

(* view is the status the session's identity map holds for the job row,    *)
(* found the outcome of upsert_document's SELECT, run the run it opened.   *)
TaskIdle == [pc |-> "idle", job |-> NoJob, view |-> "absent",
             found |-> FALSE, run |-> NoRun]

NewTask(j) == [pc |-> "load", job |-> j, view |-> "absent",
               found |-> FALSE, run |-> NoRun]

TaskSteps == {"load", "mark", "process", "select", "insert", "complete",
              "commit", "store", "finish", "return", "except"}

JobRows == [status : Statuses, doc : Docs \cup {NoDoc}, result : BOOLEAN,
            run : Nat]

Uploads == [pc : {"idle", "create", "enqueue"}, job : Jobs \cup {NoJob},
            doc : Docs \cup {NoDoc}]

Tasks == [pc : TaskSteps \cup {"idle"}, job : Jobs \cup {NoJob},
          view : Statuses, found : BOOLEAN, run : Nat]

TypeOK ==
  /\ PersistenceTypeOK
  /\ jobs \in [Jobs -> JobRows]
  /\ inputs \subseteq Jobs
  /\ results \in [Jobs -> Nat]
  /\ queue \in Seq(Jobs)
  /\ failedReg \subseteq Jobs
  /\ accepted \subseteq Jobs
  /\ upload \in [Apis -> Uploads]
  /\ task \in [Workers -> Tasks]

Init ==
  /\ PersistenceInit
  /\ jobs = [j \in Jobs |-> AbsentJob]
  /\ inputs = {}
  /\ results = [j \in Jobs |-> NoRun]
  /\ queue = <<>>
  /\ failedReg = {}
  /\ accepted = {}
  /\ upload = [p \in Apis |-> UploadIdle]
  /\ task = [w \in Workers |-> TaskIdle]

----------------------------------------------------------------------------
(* upload_document                                                         *)

(* The handler drew a fresh id (uuid4) and stored the PDF under it.        *)
PutInput(p, j, d) ==
  /\ upload[p].pc = "idle"
  /\ j \notin inputs
  /\ inputs' = inputs \cup {j}
  /\ upload' = [upload EXCEPT ![p] = [pc |-> "create", job |-> j, doc |-> d]]
  /\ UNCHANGED <<db, results, rq, accepted, task, faults>>

(* create_queued_job: insert and commit.                                   *)
CreateQueuedJob(p) ==
  /\ upload[p].pc = "create"
  /\ jobs' = [jobs EXCEPT ![upload[p].job] =
                QueuedJob(upload[p].doc)]
  /\ upload' = [upload EXCEPT ![p].pc = "enqueue"]
  /\ UNCHANGED <<tables, objects, rq, accepted, task, faults>>

(* Mutants of EnqueueJob: it runs before the row is committed; it answers  *)
(* 202 without having enqueued.                                            *)
EnqueueEarly(p) ==
  /\ upload[p].pc \in {"create", "enqueue"}
  /\ queue' = Append(queue, upload[p].job)
  /\ accepted' = accepted \cup {upload[p].job}
  /\ upload' = [upload EXCEPT ![p] = UploadIdle]
  /\ UNCHANGED <<db, objects, failedReg, task, faults>>

EnqueueForgotten(p) ==
  /\ upload[p].pc = "enqueue"
  /\ accepted' = accepted \cup {upload[p].job}
  /\ upload' = [upload EXCEPT ![p] = UploadIdle]
  /\ UNCHANGED <<db, objects, rq, task, faults>>

(* enqueue_job, then the 202 response.                                     *)
EnqueueJob(p) ==
  /\ upload[p].pc = "enqueue"
  /\ queue' = Append(queue, upload[p].job)
  /\ accepted' = accepted \cup {upload[p].job}
  /\ upload' = [upload EXCEPT ![p] = UploadIdle]
  /\ UNCHANGED <<db, objects, failedReg, task, faults>>

(* Redis is unreachable or the worker is disabled: enqueue_job swallows it *)
(* and returns None, and the handler answers 202 all the same.             *)
EnqueueSwallowed(p) ==
  /\ upload[p].pc = "enqueue"
  /\ Fault("enqueue")
  /\ accepted' = accepted \cup {upload[p].job}
  /\ upload' = [upload EXCEPT ![p] = UploadIdle]
  /\ UNCHANGED <<db, objects, rq, task>>

(* The insert fails (the client gets 500) or the API process dies.         *)
UploadAborts(p) ==
  /\ \/ upload[p].pc = "create" /\ Fault("db")
     \/ upload[p].pc # "idle" /\ Fault("crash")
  /\ upload' = [upload EXCEPT ![p] = UploadIdle]
  /\ UNCHANGED <<db, objects, rq, accepted, task>>

----------------------------------------------------------------------------
(* process_document_job                                                    *)

(* RQ hands the oldest job to an idle worker.                              *)
Deliver(w) ==
  /\ task[w].pc = "idle"
  /\ queue # <<>>
  /\ task' = [task EXCEPT ![w] = NewTask(Head(queue))]
  /\ queue' = Tail(queue)
  /\ UNCHANGED <<db, objects, failedReg, api, faults>>

(* get_job; a missing or already terminal job is skipped.                  *)
SkipJob(w) ==
  /\ task[w].pc = "load"
  /\ jobs[task[w].job].status \in Terminal \cup {"absent"}
  /\ task' = [task EXCEPT ![w] = TaskIdle]
  /\ UNCHANGED <<db, objects, rq, api, faults>>

(* Mutant of LoadJob: no look at the status, every delivery runs the job.  *)
LoadAnyJob(w) ==
  /\ task[w].pc = "load"
  /\ jobs[task[w].job].status # "absent"
  /\ task' = [task EXCEPT ![w].pc = "mark",
                          ![w].view = jobs[task[w].job].status]
  /\ UNCHANGED <<db, objects, rq, api, faults>>

LoadJob(w) ==
  /\ task[w].pc = "load"
  /\ jobs[task[w].job].status \notin Terminal \cup {"absent"}
  /\ task' = [task EXCEPT ![w].pc = "mark",
                          ![w].view = jobs[task[w].job].status]
  /\ UNCHANGED <<db, objects, rq, api, faults>>

(* The ORM emits an UPDATE only for a column whose new value differs from  *)
(* the one its identity map holds.                                         *)
UpdatedStatus(w, new) ==
  IF task[w].view = new THEN jobs[task[w].job].status ELSE new

(* mark_job_processing: assign, commit, refresh.                           *)
MarkProcessing(w) ==
  /\ task[w].pc = "mark"
  /\ LET status == UpdatedStatus(w, "processing") IN
       /\ jobs' = [jobs EXCEPT ![task[w].job].status = status]
       /\ task' = [task EXCEPT ![w].pc = "process", ![w].view = status]
  /\ UNCHANGED <<tables, objects, rq, api, faults>>

(* The PDF is fetched and process_pdf_bytes returns a payload.             *)
ProcessPdf(w) ==
  /\ task[w].pc = "process"
  /\ task[w].job \in inputs
  /\ task' = [task EXCEPT ![w].pc = "select"]
  /\ UNCHANGED <<db, objects, rq, api, faults>>

DocOf(w) == jobs[task[w].job].doc

(* upsert_document's SELECT.                                               *)
SelectDocument(w) ==
  /\ task[w].pc = "select"
  /\ task' = [task EXCEPT ![w].pc = "insert",
                          ![w].found = DocOf(w) \in documents]
  /\ UNCHANGED <<db, objects, rq, api, faults>>

InsertRun(w) ==
  /\ task[w].pc = "insert"
  /\ OpenRun(w, DocOf(w), task[w].found)
  /\ task' = [task EXCEPT ![w].pc = "complete", ![w].run = runSeq + 1]
  /\ UNCHANGED <<jobs, objects, rq, api, faults>>

InsertConflicts(w) ==
  /\ task[w].pc = "insert"
  /\ UniqueViolation(w, DocOf(w), task[w].found)
  /\ task' = [task EXCEPT ![w].pc = "except"]
  /\ UNCHANGED <<jobs, objects, rq, api, faults>>

(* update_run_completed.                                                   *)
CompleteRun(w) ==
  /\ task[w].pc = "complete"
  /\ WriteRun(w, FinishedRun(task[w].run, DocOf(w)))
  /\ task' = [task EXCEPT ![w].pc = "commit"]
  /\ UNCHANGED <<jobs, objects, rq, api, faults>>

(* Mutant of CommitRun: no commit before the result is stored.             *)
CommitRunLater(w) ==
  /\ task[w].pc = "commit"
  /\ task' = [task EXCEPT ![w].pc = "store"]
  /\ UNCHANGED <<db, objects, rq, api, faults>>

(* The commit of persist_analysis_from_extraction_result expires the job   *)
(* object; the log line after it reads job.user_id and so reloads it.      *)
CommitRun(w) ==
  /\ task[w].pc = "commit"
  /\ CommitTables(w)
  /\ task' = [task EXCEPT ![w].pc = "store",
                          ![w].view = jobs[task[w].job].status]
  /\ UNCHANGED <<jobs, objects, rq, api, faults>>

(* Mutant of StoreResult: the object store call is lost.                   *)
StoreResultLost(w) ==
  /\ task[w].pc = "store"
  /\ task' = [task EXCEPT ![w].pc = "finish"]
  /\ UNCHANGED <<db, objects, rq, api, faults>>

(* store_job_result writes results/{job}.json.                             *)
StoreResult(w) ==
  /\ task[w].pc = "store"
  /\ results' = [results EXCEPT ![task[w].job] = task[w].run]
  /\ task' = [task EXCEPT ![w].pc = "finish"]
  /\ UNCHANGED <<db, inputs, rq, api, faults>>

(* Mutants of MarkSucceeded: a status JobStatus does not have; no          *)
(* analysis_run_id.                                                        *)
MarkCompleted(w) ==
  /\ task[w].pc = "finish"
  /\ jobs' = [jobs EXCEPT ![task[w].job].status = "completed",
                          ![task[w].job].result = TRUE,
                          ![task[w].job].run = task[w].run]
  /\ task' = [task EXCEPT ![w].pc = "return"]
  /\ UNCHANGED <<tables, objects, rq, api, faults>>

MarkSucceededNoRun(w) ==
  /\ task[w].pc = "finish"
  /\ jobs' = [jobs EXCEPT ![task[w].job].status = "succeeded",
                          ![task[w].job].result = TRUE]
  /\ task' = [task EXCEPT ![w].pc = "return", ![w].view = "succeeded"]
  /\ UNCHANGED <<tables, objects, rq, api, faults>>

(* mark_job_succeeded: assign, commit, refresh.                            *)
MarkSucceeded(w) ==
  /\ task[w].pc = "finish"
  /\ LET status == UpdatedStatus(w, "succeeded") IN
       /\ jobs' = [jobs EXCEPT ![task[w].job].status = status,
                                ![task[w].job].result = TRUE,
                                ![task[w].job].run = task[w].run]
       /\ task' = [task EXCEPT ![w].pc = "return", ![w].view = status]
  /\ UNCHANGED <<tables, objects, rq, api, faults>>

TaskReturns(w) ==
  /\ task[w].pc = "return"
  /\ task' = [task EXCEPT ![w] = TaskIdle]
  /\ UNCHANGED <<db, objects, rq, api, faults>>

(* An exception that leaves the session usable: an unreadable PDF, a       *)
(* provider or object store error, a payload the sanitizer cannot handle.  *)
TaskRaises(w) ==
  /\ task[w].pc \in {"process", "select", "complete", "store"}
  /\ task' = [task EXCEPT ![w].pc = "except"]
  /\ UNCHANGED <<db, objects, rq, api, faults>>

(* RQ's 30 minute job timeout is an exception raised wherever the function *)
(* happens to be, after its last commit included.  A "timeout" strikes     *)
(* inside the try block and leaves the session usable; an "interrupt" is   *)
(* the same exception where the function is not prepared for it: in the    *)
(* middle of a flush or a commit (TaskDbError) or outside the try block    *)
(* (WorkerStops).                                                          *)
TaskTimesOut(w) ==
  /\ task[w].pc \notin {"idle", "except"}
  /\ Fault("timeout")
  /\ task' = [task EXCEPT ![w].pc = "except"]
  /\ UNCHANGED <<db, objects, rq, api>>

(* A statement or a commit fails (value too long, connection lost), or the *)
(* refresh that follows a commit does, or the job timeout interrupts one   *)
(* of them: the session needs a rollback that nobody calls.                *)
TaskDbError(w) ==
  /\ task[w].pc \in TaskSteps
  /\ Fault("db") \/ (task[w].pc # "except" /\ Fault("interrupt"))
  /\ PoisonTables(w)
  /\ task' = [task EXCEPT ![w].pc = "except"]
  /\ UNCHANGED <<jobs, objects, rq, api>>

(* Mutants of HandleFailure: the job row is left as it is; the job is put  *)
(* back into the queue instead of being marked failed.                     *)
HandleFailureSilently(w) ==
  /\ task[w].pc = "except"
  /\ ~sess[w].poisoned
  /\ CommitTables(w)
  /\ failedReg' = failedReg \cup {task[w].job}
  /\ task' = [task EXCEPT ![w] = TaskIdle]
  /\ UNCHANGED <<jobs, objects, queue, api, faults>>

HandleFailureByRetry(w) ==
  /\ task[w].pc = "except"
  /\ ~sess[w].poisoned
  /\ CloseTables(w)
  /\ queue' = Append(queue, task[w].job)
  /\ task' = [task EXCEPT ![w] = TaskIdle]
  /\ UNCHANGED <<jobs, objects, failedReg, api, faults>>

(* The except block on a usable session: mark_job_failed commits, and with *)
(* it whatever the task had flushed.                                       *)
HandleFailure(w) ==
  /\ task[w].pc = "except"
  /\ ~sess[w].poisoned
  /\ jobs' = [jobs EXCEPT ![task[w].job].status = UpdatedStatus(w, "failed")]
  /\ CommitTables(w)
  /\ failedReg' = failedReg \cup {task[w].job}
  /\ task' = [task EXCEPT ![w] = TaskIdle]
  /\ UNCHANGED <<objects, queue, api, faults>>

(* Mutant of HandlerGivesUp: the exception is not raised again, so that RQ *)
(* takes the job for done.                                                 *)
HandlerSwallows(w) ==
  /\ task[w].pc = "except"
  /\ sess[w].poisoned
  /\ CloseTables(w)
  /\ task' = [task EXCEPT ![w] = TaskIdle]
  /\ UNCHANGED <<jobs, objects, rq, api, faults>>

(* On a poisoned session get_job raises and the handler only logs it.      *)
HandlerGivesUp(w) ==
  /\ task[w].pc = "except"
  /\ sess[w].poisoned
  /\ CloseTables(w)
  /\ failedReg' = failedReg \cup {task[w].job}
  /\ task' = [task EXCEPT ![w] = TaskIdle]
  /\ UNCHANGED <<jobs, objects, queue, api, faults>>

----------------------------------------------------------------------------
(* RQ, Redis and the machines                                              *)

(* The worker dies, or the job timeout strikes where no handler marks the  *)
(* job: before the try block, in the except block (whose own handler       *)
(* swallows it) or in the closing of the session.                          *)
WorkerStops(w) ==
  /\ task[w].pc # "idle"
  /\ \/ Fault("crash")
     \/ task[w].pc \in {"load", "except", "return"} /\ Fault("interrupt")
  /\ CloseTables(w)
  /\ failedReg' = failedReg \cup {task[w].job}
  /\ task' = [task EXCEPT ![w] = TaskIdle]
  /\ UNCHANGED <<jobs, objects, queue, api>>

(* A worker that missed its heartbeats is given up on while it still runs. *)
AbandonJob(w) ==
  /\ task[w].pc # "idle"
  /\ Fault("abandon")
  /\ failedReg' = failedReg \cup {task[w].job}
  /\ UNCHANGED <<db, objects, queue, api, task>>

(* An operator requeues a job of the failed registry (rq requeue).         *)
RequeueJob(j) ==
  /\ j \in failedReg
  /\ Fault("requeue")
  /\ failedReg' = failedReg \ {j}
  /\ queue' = Append(queue, j)
  /\ UNCHANGED <<db, objects, api, task>>

(* The redis service has no volume: a new container starts empty.          *)
QueueLost ==
  /\ queue # <<>> \/ failedReg # {}
  /\ Fault("queueLoss")
  /\ queue' = <<>>
  /\ failedReg' = {}
  /\ UNCHANGED <<db, objects, api, task>>

----------------------------------------------------------------------------
UploadStep(p) == CreateQueuedJob(p) \/ EnqueueJob(p)

TaskStep(w) ==
  \/ SkipJob(w) \/ LoadJob(w) \/ MarkProcessing(w) \/ ProcessPdf(w)
  \/ SelectDocument(w)
  \/ InsertRun(w) \/ InsertConflicts(w) \/ CompleteRun(w) \/ CommitRun(w)
  \/ StoreResult(w) \/ MarkSucceeded(w) \/ TaskReturns(w)
  \/ HandleFailure(w) \/ HandlerGivesUp(w)

Next ==
  \/ \E p \in Apis : \/ \E j \in Jobs, d \in Docs : PutInput(p, j, d)
                     \/ UploadStep(p) \/ EnqueueSwallowed(p) \/ UploadAborts(p)
  \/ \E w \in Workers : \/ Deliver(w) \/ TaskStep(w) \/ TaskRaises(w)
                        \/ TaskTimesOut(w) \/ TaskDbError(w)
                        \/ WorkerStops(w) \/ AbandonJob(w)
  \/ \E j \in Jobs : RequeueJob(j)
  \/ QueueLost

Spec == Init /\ [][Next]_vars

(* A handler runs to its end, a worker that has a job goes on with it, and *)
(* RQ delivers while a worker is idle.  No client has to upload, no        *)
(* operator to requeue, and no failure to happen.                          *)
Fairness ==
  /\ \A p \in Apis : WF_vars(UploadStep(p))
  /\ \A w \in Workers : WF_vars(TaskStep(w))
  /\ WF_vars(\E w \in Workers : Deliver(w))

FairSpec == Spec /\ Fairness

----------------------------------------------------------------------------
(* Properties                                                              *)

Live(j) == \E w \in Workers : task[w].job = j

InQueue(j) == \E i \in 1..Len(queue) : queue[i] = j

(* A worker never meets a job id whose row or whose uploaded PDF is        *)
(* missing: upload_document stores the object, then commits the row, then  *)
(* enqueues, and neither is ever removed.                                  *)
DeliveredJobsExist ==
  \A j \in Jobs :
    InQueue(j) \/ Live(j) \/ j \in failedReg =>
      jobs[j].status # "absent" /\ j \in inputs

(* The payload in results/{job}.json names an analysis run that is         *)
(* committed, finished, and of the same user and the same PDF as the job:  *)
(* whatever failed, and whoever ran the job, no client is shown an         *)
(* analysis_id it cannot open or that belongs to somebody else.            *)
ResultsOwned ==
  \A j \in Jobs : results[j] # NoRun => Backed(results[j], jobs[j].doc)

(* A job reported as succeeded has a result object to serve and an         *)
(* analysis run of its own user and PDF behind its analysis_id.            *)
SucceededIsBacked ==
  \A j \in Jobs : jobs[j].status = "succeeded" =>
    /\ jobs[j].result
    /\ results[j] # NoRun
    /\ Backed(jobs[j].run, jobs[j].doc)

(* The analysis_id of the job row and the one inside the result payload    *)
(* agree whenever the result is served.  It holds as long as no job runs   *)
(* twice at once, reruns after a crash included.                           *)
AnswerAgrees ==
  \A j \in Jobs : jobs[j].status = "succeeded" => results[j] = jobs[j].run

(* An execution of j that is past its look at the row and can still write. *)
Running(j) ==
  \E w \in Workers :
    task[w].job = j /\ task[w].pc # "load" /\ ~sess[w].poisoned

Settled(j) == jobs[j].status \in Terminal /\ ~Running(j)

(* The job timeout strikes while a delivery of j is still reading the row. *)
LoadTimesOut(j) ==
  \E w \in Workers :
    task[w].job = j /\ task[w].pc = "load" /\ TaskTimesOut(w)

(* Once a job is terminal and no execution of it can still write, its row  *)
(* stays as it is: a later delivery of the job, by a requeue or by RQ's    *)
(* own bookkeeping, is skipped.  The one way out is a timeout that strikes *)
(* such a delivery before its look at the row is over.                     *)
SettledStays ==
  [][\A j \in Jobs : Settled(j) =>
       jobs'[j] = jobs[j] /\ (Settled(j)' \/ LoadTimesOut(j))]_vars

(* One upload leads to at most one stored analysis of its PDF, unless a    *)
(* job is delivered again: failures on the way never make the worker redo  *)
(* work it has already committed.                                          *)
OneAnalysisPerUpload ==
  \A d \in Docs : Cardinality({r \in runs : r.doc = d})
                     <= Cardinality({j \in Jobs : jobs[j].doc = d})

(* An execution that RQ saw end in an error has left its job in a terminal *)
(* state, so that the client polling it stops: what the worker's except    *)
(* block is for (tests/test_worker.py asserts it).  It takes one worker, a *)
(* sound database, and job timeouts that find the session usable and the   *)
(* try block open: one that interrupts a commit or the except block itself *)
(* leaves the job in processing, and tasks.py only logs it.                *)
FailuresRecorded ==
  \A j \in failedReg : jobs[j].status \in Terminal

(* A client that got 202 and polls sees the job end, as long as queue and  *)
(* database are healthy, one worker runs, and whatever job timeouts strike *)
(* strike inside the try block and between two database calls.             *)
AcceptedSettles ==
  \A j \in Jobs : j \in accepted ~> jobs[j].status \in Terminal

(* Whatever fails, a job in the queue comes out of it: it ends, or RQ      *)
(* lists it as failed, where an operator can find and requeue it.          *)
QueuedIsResolved ==
  \A j \in Jobs : InQueue(j) ~> (jobs[j].status \in Terminal
                                     \/ j \in failedReg)
=============================================================================
