--------------------------- MODULE JobRefinement ---------------------------
(* JobLifecycle implements JobContract as long as no job runs twice at     *)
(* once, that is, for every kind of failure but "abandon".                 *)
EXTENDS JobInvariant

(* What the contract's variables stand for: the columns of the jobs table, *)
(* the finished rows of analysis_runs, the jobs some worker holds.         *)
StateOf == [j \in Jobs |-> jobs[j].status]

DocsOf == [j \in Jobs |-> jobs[j].doc]

AnswerOf == [j \in Jobs |-> jobs[j].run]

Analyses ==
  {<<r.id, r.doc>> : r \in {x \in runs : x.status = "COMPLETED"}}

Working == {j \in Jobs : Live(j)}

Contract == INSTANCE JobContract WITH
  state    <- StateOf,
  doc      <- DocsOf,
  analyses <- Analyses,
  payload  <- results,
  answer   <- AnswerOf,
  live     <- Working

(* The job API keeps its contract with the polling client: uploads.py,     *)
(* jobs/service.py, tasks.py and persistence.py together never move a job  *)
(* backwards or behind the client's back, nor answer with an analysis that *)
(* is unfinished or of another document.                                   *)
ImplementsContract == Contract!Spec

----------------------------------------------------------------------------
(* Why it does: the invariant of the executions that run one job at a time.*)

NoOverlap == "abandon" \notin FaultKinds

(* A job is in at most one place: with the handler that is about to        *)
(* enqueue it, once in the queue, with one worker, or in RQ's registry.    *)
OneToken ==
  /\ \A i, k \in 1..Len(queue) : i # k => queue[i] # queue[k]
  /\ \A v, w \in Workers : v # w /\ task[v].pc # "idle"
                              => task[v].job # task[w].job
  /\ \A w \in Workers : /\ ~InQueue(task[w].job)
                         /\ task[w].job \notin failedReg
  /\ \A j \in failedReg : ~InQueue(j)
  /\ \A p \in Apis : upload[p].pc = "enqueue" =>
       /\ ~InQueue(upload[p].job)
       /\ upload[p].job \notin failedReg
       /\ \A w \in Workers : task[w].job # upload[p].job

(* Whoever works on a job alone knows its row: t is the task, pending the  *)
(* flushed rows of analysis_runs, row the jobs row, r the stored result.   *)
Knows(t, pending, row, r) ==
  /\ t.pc \notin {"complete", "commit", "except"} => pending = {}
  /\ t.pc = "load" => t.view = "absent"
  /\ t.pc \notin {"idle", "load", "except"} => t.view = row.status
  /\ t.pc = "mark" => row.status \in {"queued", "processing"}
  /\ t.pc \in {"process", "select", "insert", "complete", "commit", "store",
               "finish"} => row.status = "processing"
  /\ t.pc = "return" => row.status = "succeeded"
  /\ t.pc = "complete" =>
       pending = {[id |-> t.run, doc |-> row.doc, status |-> "PROCESSING"]}
  /\ t.pc = "commit" => pending = {FinishedRun(t.run, row.doc)}
  /\ t.pc = "finish" => r = t.run
  /\ t.pc = "except" =>
       \/ t.view = "absent" /\ pending = {}
       \/ /\ t.view = row.status
          /\ row.status \in {"queued", "processing", "succeeded"}
          /\ pending = {} \/ \E y \in pending : /\ pending = {y}
                                               /\ y.doc = row.doc

WorkersKnow ==
  \A w \in Workers : task[w].pc # "idle" =>
    Knows(task[w], sess[w].runs, jobs[task[w].job], results[task[w].job])

IdleIsClean == \A w \in Workers : task[w].pc = "idle" => sess[w].runs = {}

(* No job is ever cancelled, and one that has no row yet has no answer.    *)
RowsArePlain ==
  \A j \in Jobs : /\ jobs[j].status # "cancelled"
                  /\ jobs[j].status = "absent" => jobs[j].run = NoRun

SoloInv ==
  /\ NoOverlap
  /\ OneToken
  /\ WorkersKnow
  /\ IdleIsClean
  /\ RowsArePlain
  /\ AnswerAgrees

----------------------------------------------------------------------------
(* Why an upload is analysed once: every row of analysis_runs, committed   *)
(* or flushed, comes from a job of its own whose one execution is past the *)
(* insert.                                                                 *)

NoRedelivery == NoOverlap /\ "requeue" \notin FaultKinds

RunRows == runs \cup (UNION {sess[w].runs : w \in Workers})

BeforeInsert == {"load", "mark", "process", "select", "insert"}

(* No execution of j will open a run any more.                             *)
Spent(j) ==
  /\ jobs[j].status # "absent"
  /\ ~InQueue(j)
  /\ \A p \in Apis : upload[p].pc = "enqueue" => upload[p].job # j
  /\ \A w \in Workers : task[w].pc \in BeforeInsert => task[w].job # j

EveryRunHasItsJob ==
  \E owner \in [RunRows -> Jobs] :
    /\ \A r \in RunRows : Spent(owner[r]) /\ jobs[owner[r]].doc = r.doc
    /\ \A r, q \in RunRows : r # q => owner[r] # owner[q]

----------------------------------------------------------------------------
(* Why failures are recorded: as long as nothing breaks the one worker's   *)
(* session or cuts its except block short, that block always gets to       *)
(* mark_job_failed.                                                        *)

OneHealthyWorker ==
  /\ FaultKinds \cap {"db", "crash", "interrupt", "abandon"} = {}
  /\ \A v, w \in Workers : v = w

NothingPoisons ==
  \A w \in Workers :
    /\ ~sess[w].poisoned
    /\ task[w].pc = "insert" => task[w].found \/ DocOf(w) \notin documents

----------------------------------------------------------------------------
(* The safety half of AcceptedSettles and QueuedIsResolved: until a job    *)
(* ends, somebody has it.                                                  *)

NoLoss == NoOverlap /\ FaultKinds \cap {"enqueue", "queueLoss"} = {}

AtHand(j) ==
  jobs[j].status \in Terminal \/ InQueue(j) \/ Live(j) \/ j \in failedReg

NothingIsLost == \A j \in accepted : AtHand(j)
=============================================================================
