---------------------------- MODULE JobInvariant ----------------------------
(***************************************************************************)
(* The inductive invariant of JobLifecycle behind ResultsOwned,            *)
(* SucceededIsBacked and DeliveredJobsExist.  Each part says what a stage  *)
(* of the upload handler or of the worker may rely on.                     *)
(***************************************************************************)
EXTENDS JobLifecycle

(* A job id is nowhere to be found before its row is committed.            *)
RowsComeFirst ==
  \A j \in Jobs :
    IF jobs[j].status = "absent"
    THEN results[j] = NoRun /\ ~InQueue(j) /\ ~Live(j) /\ j \notin failedReg
    ELSE j \in inputs /\ jobs[j].doc \in Docs

(* An upload handler owns its job id until it has enqueued it.             *)
UploadsOwnTheirJob ==
  /\ \A p \in Apis : upload[p].pc # "idle" =>
       /\ upload[p].job \in inputs
       /\ upload[p].doc \in Docs
       /\ upload[p].pc = "create"
            => jobs[upload[p].job].status = "absent"
       /\ upload[p].pc = "enqueue"
            => jobs[upload[p].job].status # "absent"
  /\ \A p, q \in Apis :
       upload[p].pc # "idle" /\ upload[q].pc # "idle" /\ p # q
         => upload[p].job # upload[q].job

TasksHaveJobs ==
  \A w \in Workers : IF task[w].pc = "idle" THEN task[w].job = NoJob
                                            ELSE task[w].job \in Jobs

(* Runs a worker has flushed have ids that no committed run and no other   *)
(* worker has.                                                             *)
PendingIdsAreFresh ==
  /\ \A r \in runs : r.id <= runSeq
  /\ \A v \in Workers : \A y \in sess[v].runs :
       /\ y.id # NoRun
       /\ y.id <= runSeq
       /\ \A r \in runs : r.id # y.id
  /\ \A v, w \in Workers : v # w =>
       \A y \in sess[v].runs, z \in sess[w].runs : y.id # z.id

(* What each stage of process_document_job has behind it.                  *)
TaskHoldsRun ==
  \A w \in Workers :
    /\ task[w].pc \in {"complete", "commit"} =>
         \E y \in sess[w].runs : y.id = task[w].run
    /\ task[w].pc = "commit" =>
         FinishedRun(task[w].run, DocOf(w)) \in sess[w].runs
    /\ task[w].pc \in {"store", "finish"} =>
         task[w].run # NoRun /\ Backed(task[w].run, DocOf(w))
    /\ task[w].pc = "finish" => results[task[w].job] # NoRun

(* A session that has failed is back in the except block.                  *)
PoisonedTasksFail ==
  \A w \in Workers : sess[w].poisoned => task[w].pc = "except"

(* The conjunction is inductive: TypeOK alone is not, since a row written  *)
(* from upload[p] or task[w] is well typed only for jobs that are there.   *)
IndInv ==
  /\ TypeOK
  /\ RowsComeFirst
  /\ UploadsOwnTheirJob
  /\ TasksHaveJobs
  /\ PendingIdsAreFresh
  /\ TaskHoldsRun
  /\ PoisonedTasksFail
  /\ ResultsOwned
  /\ SucceededIsBacked
=============================================================================
