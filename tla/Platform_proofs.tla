--------------------------- MODULE Platform_proofs ---------------------------
(***************************************************************************)
(* Proofs about the whole service, for any numbers of API processes,       *)
(* workers, requests, jobs and failures.  The argument is by rely and      *)
(* guarantee: each path keeps its own inductive invariant, proved where    *)
(* the path is specified, and what the other path may do to the tables     *)
(* leaves it true, because the run ids of the two are apart.               *)
(***************************************************************************)
EXTENDS Platform, TLAPS

JP == INSTANCE JobRefinement_proofs
XP == INSTANCE SyncExtract_proofs WITH Capacity <- Cardinality(Apis)

----------------------------------------------------------------------------
(* The invariant                                                           *)

(* No job, result, worker or flushed row of a worker has the run id i.     *)
Apart(i) ==
  /\ \A j \in Jobs : results[j] # i /\ jobs[j].run # i
  /\ \A w \in Workers : /\ task[w].run # i
                        /\ \A y \in sess[w].runs : y.id # i

(* The job path uses no run id that has not been handed out, and none that *)
(* a request has.                                                          *)
RunIdsApart ==
  /\ \A i \in Nat : i > runSeq => Apart(i)
  /\ \A x \in Requests : extract[x].run # NoRun => Apart(extract[x].run)

(* Flushed rows have ids of their own, and a document that is committed or *)
(* flushed with them.                                                      *)
FlushedRuns ==
  \A s \in Sessions : \A y \in sess[s].runs :
    /\ y.doc \in documents \cup sess[s].docs
    /\ \A z \in sess[s].runs : y.id = z.id => y = z

RunsHaveDocuments == \A r \in runs : r.doc \in documents

(* A document that upsert_document's SELECT has found stays there, and one *)
(* it inserted is in the session until the commit.                         *)
LookupsHold ==
  /\ \A w \in Workers :
       /\ task[w].pc = "insert" /\ task[w].found => JP!DocOf(w) \in documents
       /\ task[w].pc = "complete" =>
            JP!DocOf(w) \in documents \cup sess[w].docs
  /\ \A x \in Requests :
       extract[x].pc = "insert" /\ extract[x].found =>
         extract[x].doc \in documents

PlatformInv ==
  /\ JP!IndInv
  /\ XP!SyncInv
  /\ RunIdsApart
  /\ FlushedRuns
  /\ RunsHaveDocuments
  /\ LookupsHold

----------------------------------------------------------------------------
(* The two instances                                                       *)

LEMMA Constants ==
  /\ JP!JobConstants /\ JP!FaultConstants
  /\ XP!ExtractConstants /\ XP!FaultConstants
  /\ Workers \subseteq Sessions /\ Requests \subseteq Sessions
  /\ Requests \cap Workers = {}
BY PlatformConstants, FaultConstants
   DEF J!JobConstants, JP!JobConstants, X!ExtractConstants,
       XP!ExtractConstants, JP!FaultConstants, XP!FaultConstants, J!Docs,
       JP!Docs, JP!AllFaults, XP!AllFaults, AllFaults

LEMMA JobSteps == J!Next => JP!Next
BY Zenon
   DEF J!db, J!objects, J!rq, J!api, J!vars, J!Terminal, J!AbsentJob,
       J!QueuedJob, J!UploadIdle, J!TaskIdle, J!NewTask,
       J!TaskSteps, J!PutInput, J!CreateQueuedJob, J!EnqueueJob,
       J!EnqueueSwallowed, J!UploadAborts, J!Deliver, J!SkipJob,
       J!LoadJob, J!UpdatedStatus, J!MarkProcessing, J!ProcessPdf,
       J!DocOf, J!SelectDocument, J!InsertRun, J!InsertConflicts,
       J!CompleteRun, J!CommitRun, J!StoreResult, J!MarkSucceeded,
       J!TaskReturns, J!TaskRaises, J!TaskTimesOut, J!TaskDbError,
       J!HandleFailure, J!HandlerGivesUp, J!WorkerStops,
       J!AbandonJob, J!RequeueJob, J!QueueLost, J!UploadStep,
       J!TaskStep, J!Next, J!tables, J!Docs, J!NoRun, J!FinishedRun,
       J!FreshSession, J!PoisonedSession, J!Fault, J!KeyIsFree,
       J!OpenRun, J!UniqueViolation, J!WriteRun, J!CommitTables,
       J!PoisonTables, J!CloseTables, JP!db, JP!objects, JP!rq,
       JP!api, JP!vars, JP!Terminal, JP!AbsentJob, JP!QueuedJob,
       JP!UploadIdle, JP!TaskIdle, JP!NewTask, JP!TaskSteps,
       JP!PutInput, JP!CreateQueuedJob, JP!EnqueueJob,
       JP!EnqueueSwallowed, JP!UploadAborts, JP!Deliver, JP!SkipJob,
       JP!LoadJob, JP!UpdatedStatus, JP!MarkProcessing,
       JP!ProcessPdf, JP!DocOf, JP!SelectDocument, JP!InsertRun,
       JP!InsertConflicts, JP!CompleteRun, JP!CommitRun,
       JP!StoreResult, JP!MarkSucceeded, JP!TaskReturns,
       JP!TaskRaises, JP!TaskTimesOut, JP!TaskDbError,
       JP!HandleFailure, JP!HandlerGivesUp, JP!WorkerStops,
       JP!AbandonJob, JP!RequeueJob, JP!QueueLost, JP!UploadStep,
       JP!TaskStep, JP!Next, JP!tables, JP!Docs, JP!NoRun,
       JP!FinishedRun, JP!FreshSession, JP!PoisonedSession,
       JP!Fault, JP!KeyIsFree, JP!OpenRun, JP!UniqueViolation,
       JP!WriteRun, JP!CommitTables, JP!PoisonTables, JP!CloseTables

LEMMA RequestSteps == X!Next => \E x \in Requests : XP!StepOf(x)
BY Zenon
   DEF X!vars, X!ExtractSteps, X!Waiting, X!Goto, X!Busy, X!Receive,
       X!SelectDocument, X!InsertRun, X!InsertConflicts,
       X!CommitStep, X!BeginCommit, X!ProcessPdf, X!CompleteRun,
       X!CompleteCommit, X!Reply, X!Respond, X!CloseRun, X!FailRun,
       X!HandleHttp, X!HandleException, X!ExtractRaises,
       X!ResponseInvalid,
       X!ExtractDbError, X!ApiCrashes, X!ExtractStep, X!Next,
       X!tables, X!Docs, X!NoRun, X!FinishedRun, X!FreshSession,
       X!PoisonedSession, X!Fault, X!KeyIsFree, X!OpenRun,
       X!UniqueViolation, X!WriteRun, X!CommitTables,
       X!PoisonTables, X!CloseTables, XP!vars, XP!ExtractSteps,
       XP!Waiting, XP!Goto, XP!Busy, XP!Receive, XP!SelectDocument,
       XP!InsertRun, XP!InsertConflicts, XP!CommitStep,
       XP!BeginCommit, XP!ProcessPdf, XP!CompleteRun,
       XP!CompleteCommit, XP!Reply, XP!Respond, XP!CloseRun,
       XP!FailRun, XP!HandleHttp, XP!HandleException,
       XP!ExtractRaises, XP!ResponseInvalid, XP!ExtractDbError, XP!ApiCrashes,
       XP!ExtractStep, XP!Next, XP!tables, XP!Docs, XP!NoRun,
       XP!FinishedRun, XP!FreshSession, XP!PoisonedSession,
       XP!Fault, XP!KeyIsFree, XP!OpenRun, XP!UniqueViolation,
       XP!WriteRun, XP!CommitTables, XP!PoisonTables,
       XP!CloseTables, X!Cardinality, XP!Cardinality, XP!StepOf

LEMMA Typed ==
  ASSUME PlatformInv
  PROVE  /\ documents \subseteq Docs /\ runs \subseteq Runs
         /\ runSeq \in Nat /\ faults \in Nat
         /\ sess \in [Sessions -> SessionStates]
         /\ jobs \in [Jobs -> JP!JobRows] /\ results \in [Jobs -> Nat]
         /\ task \in [Workers -> JP!Tasks]
         /\ extract \in [Requests -> XP!Handlers]
BY DEF PlatformInv, JP!IndInv, JP!TypeOK, JP!PersistenceTypeOK, JP!Docs,
       JP!Runs, JP!RunStatus, JP!SessionStates, Docs, Runs, RunStatus,
       SessionStates, XP!SyncInv, XP!TypeOK, XP!Handlers, XP!Docs

----------------------------------------------------------------------------
(* What a session may do to the tables                                     *)

Writes(s) ==
  \/ UNCHANGED tables
  \/ \E d \in Docs, found \in BOOLEAN :
       OpenRun(s, d, found) /\ (found => d \in documents)
  \/ \E row \in Runs :
       WriteRun(s, row) /\ row.doc \in documents \cup sess[s].docs
  \/ CommitTables(s)
  \/ PoisonTables(s)
  \/ CloseTables(s)
  \/ \E row \in Runs :
       /\ row.doc \in documents
       /\ runs' = {r \in runs : r.id # row.id} \cup {row}
       /\ sess' = [sess EXCEPT ![s] = FreshSession]
       /\ UNCHANGED <<documents, runSeq>>

LEMMA WritesFrame ==
  ASSUME PlatformInv, NEW s \in Sessions, Writes(s)
  PROVE  /\ \A t \in Sessions : t # s => sess'[t] = sess[t]
         /\ documents \subseteq documents'
         /\ runSeq' \in Nat /\ runSeq <= runSeq'
<1>1. runSeq \in Nat /\ sess \in [Sessions -> SessionStates]
  BY Typed
<1>2. runSeq' = runSeq \/ runSeq' = runSeq + 1
  BY DEF Writes, tables, OpenRun, WriteRun, CommitTables, PoisonTables,
         CloseTables
<1>3. documents' = documents \/ documents' = documents \cup sess[s].docs
  BY DEF Writes, tables, OpenRun, WriteRun, CommitTables, PoisonTables,
         CloseTables
<1>4. ASSUME NEW t \in Sessions, t # s PROVE sess'[t] = sess[t]
  BY <1>1, <1>4 DEF Writes, tables, OpenRun, WriteRun, CommitTables,
                    PoisonTables, CloseTables
<1>5. QED
  BY <1>1, <1>2, <1>3, <1>4

(* Whoever writes keeps the flushed and the committed rows in order.       *)
LEMMA FlushedStep ==
  ASSUME PlatformInv, NEW s \in Sessions, Writes(s),
         \A y \in sess[s].runs : y.id <= runSeq
  PROVE  FlushedRuns' /\ RunsHaveDocuments'
<1>1. /\ runSeq \in Nat /\ sess \in [Sessions -> SessionStates]
      /\ \A y \in sess[s].runs : y.id \in Nat /\ y.id # runSeq + 1
      /\ FlushedRuns /\ RunsHaveDocuments
  <2>1. /\ runSeq \in Nat /\ sess \in [Sessions -> SessionStates]
        /\ FlushedRuns /\ RunsHaveDocuments
    BY Typed DEF PlatformInv
  <2>2. \A y \in sess[s].runs : y.id \in Nat
    BY <2>1 DEF SessionStates, Runs
  <2>3. QED
    BY <2>1, <2>2
<1>2. ASSUME \A y \in sess'[s].runs :
               /\ y.doc \in documents' \cup sess'[s].docs
               /\ \A z \in sess'[s].runs : y.id = z.id => y = z,
             RunsHaveDocuments'
      PROVE  FlushedRuns' /\ RunsHaveDocuments'
  BY <1>1, <1>2, WritesFrame DEF FlushedRuns
<1>3. CASE UNCHANGED tables
  BY <1>1, <1>3 DEF tables, FlushedRuns, RunsHaveDocuments
<1>4. ASSUME NEW d \in Docs, NEW found \in BOOLEAN, OpenRun(s, d, found),
             found => d \in documents
      PROVE  FlushedRuns' /\ RunsHaveDocuments'
  <2> DEFINE row == [id |-> runSeq + 1, doc |-> d, status |-> "PROCESSING"]
  <2>1. /\ documents' = documents /\ runs' = runs
        /\ sess'[s].runs = sess[s].runs \cup {row}
        /\ sess'[s].docs = IF found THEN sess[s].docs
                                    ELSE sess[s].docs \cup {d}
        /\ row.id = runSeq + 1 /\ row.doc = d
    BY <1>1, <1>4 DEF OpenRun, SessionStates
  <2> HIDE DEF row
  <2>2. \A y \in sess'[s].runs :
          /\ y.doc \in documents' \cup sess'[s].docs
          /\ \A z \in sess'[s].runs : y.id = z.id => y = z
    BY <1>1, <1>4, <2>1 DEF FlushedRuns
  <2>3. RunsHaveDocuments'
    BY <1>1, <2>1 DEF RunsHaveDocuments
  <2>4. QED
    BY <1>2, <2>2, <2>3
<1>5. ASSUME NEW row \in Runs, WriteRun(s, row),
             row.doc \in documents \cup sess[s].docs
      PROVE  FlushedRuns' /\ RunsHaveDocuments'
  <2>1. /\ documents' = documents /\ runs' = runs
        /\ sess'[s].runs = {y \in sess[s].runs : y.id # row.id} \cup {row}
        /\ sess'[s].docs = sess[s].docs
    BY <1>1, <1>5 DEF WriteRun, SessionStates
  <2>2. \A y \in sess'[s].runs :
          /\ y.doc \in documents' \cup sess'[s].docs
          /\ \A z \in sess'[s].runs : y.id = z.id => y = z
    BY <1>1, <1>5, <2>1 DEF FlushedRuns
  <2>3. RunsHaveDocuments'
    BY <1>1, <2>1 DEF RunsHaveDocuments
  <2>4. QED
    BY <1>2, <2>2, <2>3
<1>6. CASE CommitTables(s)
  <2>1. /\ documents' = documents \cup sess[s].docs
        /\ runs' \subseteq runs \cup sess[s].runs
        /\ sess'[s].runs = {}
    BY <1>1, <1>6 DEF CommitTables, FreshSession
  <2>2. RunsHaveDocuments'
    BY <1>1, <2>1 DEF RunsHaveDocuments, FlushedRuns
  <2>3. QED
    BY <1>2, <2>1, <2>2
<1>7. CASE PoisonTables(s) \/ CloseTables(s)
  <2>1. documents' = documents /\ runs' = runs /\ sess'[s].runs = {}
    BY <1>1, <1>7 DEF PoisonTables, CloseTables, PoisonedSession, FreshSession
  <2>2. QED
    BY <1>1, <1>2, <2>1 DEF RunsHaveDocuments
<1>8. ASSUME NEW row \in Runs, row.doc \in documents,
             runs' = {r \in runs : r.id # row.id} \cup {row},
             sess' = [sess EXCEPT ![s] = FreshSession], documents' = documents
      PROVE  FlushedRuns' /\ RunsHaveDocuments'
  <2>1. sess'[s].runs = {}
    BY <1>1, <1>8 DEF FreshSession
  <2>2. RunsHaveDocuments'
    BY <1>1, <1>8 DEF RunsHaveDocuments
  <2>3. QED
    BY <1>2, <2>1, <2>2
<1>9. QED
  BY <1>3, <1>4, <1>5, <1>6, <1>7, <1>8 DEF Writes

----------------------------------------------------------------------------
(* A step of the job path                                                  *)

LEMMA JobWrites ==
  ASSUME PlatformInv, JP!Next
  PROVE  UNCHANGED tables \/ \E w \in Workers : JP!TablesStep(w) /\ Writes(w)
<1>1. UNCHANGED tables \/ \E w \in Workers : JP!TablesStep(w)
  BY Constants, JP!TablesWriters DEF tables, JP!tables
<1>2. ASSUME NEW w \in Workers, JP!TablesStep(w) PROVE Writes(w)
  <2>1. /\ task[w] \in JP!Tasks
        /\ task[w].pc # "idle" => JP!DocOf(w) \in Docs
    <3>1. JP!IndInv
      BY DEF PlatformInv
    <3>2. task[w].pc # "idle" => JP!DocOf(w) \in JP!Docs
      BY <3>1, Constants, JP!DocOfTask
    <3>3. QED
      BY <3>2, Typed DEF JP!Docs, Docs
  <2>2. CASE JP!InsertRun(w)
    <3>1. /\ OpenRun(w, JP!DocOf(w), task[w].found)
          /\ task[w].pc = "insert"
      BY <2>2 DEF JP!InsertRun, JP!OpenRun, OpenRun, JP!KeyIsFree, KeyIsFree
    <3>2. task[w].found => JP!DocOf(w) \in documents
      BY <3>1 DEF PlatformInv, LookupsHold
    <3>3. task[w].found \in BOOLEAN
      BY <2>1 DEF JP!Tasks
    <3>4. QED
      BY <2>1, <3>1, <3>2, <3>3 DEF Writes
  <2>3. CASE JP!CompleteRun(w)
    <3> DEFINE row == FinishedRun(task[w].run, JP!DocOf(w))
    <3>1. WriteRun(w, row) /\ task[w].pc = "complete"
      BY <2>3 DEF JP!CompleteRun, JP!WriteRun, WriteRun, JP!FinishedRun,
                  FinishedRun
    <3>2. row.doc \in documents \cup sess[w].docs
      BY <3>1 DEF PlatformInv, LookupsHold, FinishedRun
    <3>3. row \in Runs
      BY <2>1, <3>1 DEF JP!Tasks, FinishedRun, Runs, RunStatus
    <3> HIDE DEF row
    <3>4. QED
      BY <3>1, <3>2, <3>3 DEF Writes
  <2>4. CASE JP!CommitRun(w) \/ JP!HandleFailure(w)
    <3>1. CommitTables(w)
      BY <2>4 DEF JP!CommitRun, JP!HandleFailure, JP!CommitTables,
                  CommitTables, JP!FreshSession, FreshSession
    <3>2. QED
      BY <3>1 DEF Writes
  <2>5. CASE JP!InsertConflicts(w) \/ JP!TaskDbError(w)
    <3>1. PoisonTables(w)
      BY <2>5 DEF JP!InsertConflicts, JP!UniqueViolation, JP!TaskDbError,
                  JP!PoisonTables, PoisonTables, JP!PoisonedSession,
                  PoisonedSession
    <3>2. QED
      BY <3>1 DEF Writes
  <2>6. CASE JP!HandlerGivesUp(w) \/ JP!WorkerStops(w)
    <3>1. CloseTables(w)
      BY <2>6 DEF JP!HandlerGivesUp, JP!WorkerStops, JP!CloseTables,
                  CloseTables, JP!FreshSession, FreshSession
    <3>2. QED
      BY <3>1 DEF Writes
  <2>7. QED
    BY <1>2, <2>2, <2>3, <2>4, <2>5, <2>6 DEF JP!TablesStep
<1>3. QED
  BY <1>1, <1>2

(* Workers add rows that they have flushed, and touch nothing else.        *)
LEMMA JobFrame ==
  ASSUME PlatformInv, JP!Next
  PROVE  /\ runs \subseteq runs'
         /\ \/ runs' = runs
            \/ \E w \in Workers : runs' \subseteq runs \cup sess[w].runs
         /\ \A x \in Requests : sess'[x] = sess[x]
         /\ documents \subseteq documents'
         /\ runSeq' \in Nat /\ runSeq <= runSeq'
<1>1. JP!IndInv /\ runSeq \in Nat
  BY Typed DEF PlatformInv
<1>2. runs \subseteq runs'
  BY <1>1, Constants, JP!RunsGrow
<1>3. CASE UNCHANGED tables
  BY <1>1, <1>3 DEF tables
<1>4. ASSUME NEW w \in Workers, JP!TablesStep(w), Writes(w)
      PROVE  /\ runs' = runs \/ runs' \subseteq runs \cup sess[w].runs
             /\ \A x \in Requests : sess'[x] = sess[x]
             /\ documents \subseteq documents'
             /\ runSeq' \in Nat /\ runSeq <= runSeq'
  <2>1. w \in Sessions /\ \A x \in Requests : x \in Sessions /\ x # w
    BY Constants
  <2>2. runs' = runs \/ CommitTables(w)
    BY <1>4 DEF JP!TablesStep, JP!InsertRun, JP!OpenRun, JP!InsertConflicts,
       JP!UniqueViolation, JP!CompleteRun, JP!WriteRun, JP!CommitRun,
       JP!CommitTables, CommitTables, JP!TaskDbError, JP!PoisonTables,
       JP!HandleFailure, JP!HandlerGivesUp, JP!CloseTables, JP!WorkerStops,
       JP!FreshSession, FreshSession
  <2>3. QED
    BY <1>4, <2>1, <2>2, WritesFrame DEF CommitTables
<1>5. QED
  BY <1>2, <1>3, <1>4, JobWrites

LEMMA JobFaults == ASSUME PlatformInv, JP!Next, faults # 0 PROVE faults' # 0
<1>1. faults \in Nat
  BY Typed
<1>2. faults' = faults \/ faults' = faults + 1
  BY DEF JP!Next, JP!UploadStep, JP!TaskStep, JP!PutInput,
     JP!CreateQueuedJob, JP!EnqueueJob, JP!EnqueueSwallowed, JP!UploadAborts,
     JP!Deliver, JP!SkipJob, JP!LoadJob, JP!MarkProcessing, JP!ProcessPdf,
     JP!SelectDocument, JP!InsertRun, JP!InsertConflicts, JP!CompleteRun,
     JP!CommitRun, JP!StoreResult, JP!MarkSucceeded, JP!TaskReturns,
     JP!TaskRaises, JP!TaskTimesOut, JP!TaskDbError, JP!HandleFailure,
     JP!HandlerGivesUp, JP!WorkerStops, JP!AbandonJob, JP!RequeueJob,
     JP!QueueLost, JP!Fault
<1>3. QED
  BY <1>1, <1>2

(* The rows under a request's run id stay as they are.                     *)
LEMMA JobKeepsRequests ==
  ASSUME PlatformInv, JP!Next, UNCHANGED extract
  PROVE  XP!SyncInv'
<1>1. /\ runs \subseteq Runs /\ runSeq \in Nat
      /\ extract \in [Requests -> XP!Handlers]
      /\ XP!AllHandled /\ XP!IdsAreUnique /\ XP!TypeOK
      /\ JP!PendingIdsAreFresh /\ FlushedRuns /\ RunIdsApart
      /\ Workers \subseteq Sessions
  BY Typed, Constants DEF PlatformInv, XP!SyncInv, JP!IndInv
<1>2. JP!TypeOK'
  <2>1. JP!IndInv
    BY DEF PlatformInv
  <2>2. QED
    BY <2>1, Constants, JP!TypeStep
<1>3. XP!TypeOK'
  BY <1>1, <1>2
     DEF XP!TypeOK, JP!TypeOK, XP!PersistenceTypeOK, JP!PersistenceTypeOK,
         XP!Docs, JP!Docs, XP!Runs, JP!Runs, XP!RunStatus, JP!RunStatus,
         XP!SessionStates, JP!SessionStates
<1>4. XP!IdsAreUnique'
  <2>1. ASSUME NEW r \in runs'
        PROVE  /\ r.id # XP!NoRun /\ r.id \in Nat /\ r.id <= runSeq
               /\ \A n \in runs' : r.id = n.id => r = n
    <3>1. CASE runs' = runs
      BY <1>1, <3>1 DEF XP!IdsAreUnique, Runs
    <3>2. ASSUME NEW w \in Workers, runs' \subseteq runs \cup sess[w].runs
          PROVE  /\ r.id # XP!NoRun /\ r.id \in Nat /\ r.id <= runSeq
                 /\ \A n \in runs' : r.id = n.id => r = n
      <4>1. \A y \in sess[w].runs :
              /\ y.id # XP!NoRun /\ y.id <= runSeq
              /\ \A n \in runs : n.id # y.id
              /\ \A z \in sess[w].runs : y.id = z.id => y = z
        BY <1>1 DEF JP!PendingIdsAreFresh, FlushedRuns, JP!NoRun, XP!NoRun
      <4>2. runs' \subseteq Runs
        BY <1>2 DEF JP!TypeOK, JP!PersistenceTypeOK, JP!Docs, JP!Runs,
                    JP!RunStatus, Docs, Runs, RunStatus
      <4>3. r.id \in Nat
        BY <4>2 DEF Runs
      <4>4. QED
        BY <1>1, <3>2, <4>1, <4>3 DEF XP!IdsAreUnique
    <3>3. QED
      BY <3>1, <3>2, JobFrame
  <2>2. \A x \in Requests : extract[x].run \in Nat
    BY <1>1 DEF XP!Handlers
  <2>3. QED
    BY <1>1, <2>1, <2>2, JobFrame DEF XP!IdsAreUnique
<1>5. ASSUME NEW x \in Requests
      PROVE  XP!Handled(extract'[x], sess'[x], XP!RunsOf(x)', faults')
  <2>1. XP!RunsOf(x)' = XP!RunsOf(x)
    <3>1. CASE extract[x].run = NoRun
      <4>1. /\ \A r \in runs : r.id # NoRun
            /\ \A r \in runs' : r.id # NoRun
        BY <1>1, <1>4 DEF XP!IdsAreUnique, XP!NoRun, NoRun
      <4>2. QED
        BY <3>1, <4>1 DEF XP!RunsOf
    <3>2. CASE extract[x].run # NoRun
      <4>1. \A w \in Workers : \A y \in sess[w].runs :
               y.id # extract[x].run
        BY <1>1, <3>2 DEF RunIdsApart, Apart
      <4>2. QED
        BY <4>1, JobFrame DEF XP!RunsOf
    <3>3. QED
      BY <3>1, <3>2
  <2>2. XP!Handled(extract[x], sess[x], XP!RunsOf(x), faults)
    BY <1>1 DEF XP!AllHandled
  <2>3. sess'[x] = sess[x] /\ extract'[x] = extract[x]
    BY JobFrame
  <2>4. QED
    BY <2>1, <2>2, <2>3, JobFaults DEF XP!Handled
<1>6. QED
  BY <1>3, <1>4, <1>5 DEF XP!SyncInv, XP!AllHandled

(* Where a worker's run id comes from.                                     *)
LEMMA TaskRun ==
  ASSUME PlatformInv, JP!Next, NEW w \in Workers
  PROVE  \/ task'[w].run \in {task[w].run, NoRun}
         \/ task'[w].run = runSeq + 1 /\ runSeq' = runSeq + 1
<1>1. task \in [Workers -> JP!Tasks] /\ JP!IndInv
  BY Typed DEF PlatformInv
<1>2. CASE task'[w] = task[w]
  BY <1>2
<1>3. CASE task'[w] # task[w]
  <2>1. JP!NoTablesStep(w) \/ JP!TablesStep(w)
    BY <1>1, <1>3, Constants, JP!OthersKeepTask
  <2>2. CASE JP!NoTablesStep(w)
    BY <1>1, <2>2
       DEF JP!NoTablesStep, JP!Deliver, JP!SkipJob, JP!LoadJob,
           JP!MarkProcessing, JP!ProcessPdf, JP!SelectDocument,
           JP!StoreResult, JP!MarkSucceeded, JP!TaskReturns, JP!TaskRaises,
           JP!TaskTimesOut, JP!AbandonJob, JP!TaskIdle, JP!NewTask, JP!Tasks,
           JP!NoRun, NoRun
  <2>3. CASE JP!TablesStep(w)
    BY <1>1, <2>3
       DEF JP!TablesStep, JP!InsertRun, JP!OpenRun, JP!InsertConflicts,
           JP!CompleteRun, JP!CommitRun, JP!TaskDbError, JP!HandleFailure,
           JP!HandlerGivesUp, JP!WorkerStops, JP!TaskIdle, JP!Tasks,
           JP!NoRun, NoRun
  <2>4. QED
    BY <2>1, <2>2, <2>3
<1>4. QED
  BY <1>2, <1>3

LEMMA JobRun ==
  ASSUME PlatformInv, JP!Next, NEW j \in Jobs
  PROVE  \/ jobs'[j].run \in {jobs[j].run, NoRun}
         \/ \E w \in Workers : jobs'[j].run = task[w].run
<1>1. jobs \in [Jobs -> JP!JobRows] /\ JP!IndInv
  BY Typed DEF PlatformInv
<1>2. ASSUME NEW p \in Apis, JP!CreateQueuedJob(p)
      PROVE  jobs'[j].run \in {jobs[j].run, NoRun}
  BY <1>1, <1>2 DEF JP!CreateQueuedJob, JP!QueuedJob, JP!NoRun, NoRun
<1>3. ASSUME NEW w \in Workers,
             JP!MarkProcessing(w) \/ JP!MarkSucceeded(w) \/ JP!HandleFailure(w)
      PROVE  jobs'[j].run \in {jobs[j].run, task[w].run}
  <2>1. CASE JP!MarkProcessing(w) \/ JP!HandleFailure(w)
    <3>1. PICK status :
            jobs' = [jobs EXCEPT ![task[w].job].status = status]
      BY <2>1 DEF JP!MarkProcessing, JP!HandleFailure
    <3>2. QED
      BY <1>1, <3>1 DEF JP!JobRows
  <2>2. CASE JP!MarkSucceeded(w)
    <3>1. PICK status :
            jobs' = [jobs EXCEPT ![task[w].job].status = status,
                                 ![task[w].job].result = TRUE,
                                 ![task[w].job].run = task[w].run]
      BY <2>2 DEF JP!MarkSucceeded
    <3>2. QED
      BY <1>1, <3>1 DEF JP!JobRows
  <2>3. QED
    BY <1>3, <2>1, <2>2
<1>4. QED
  BY <1>1, <1>2, <1>3, Constants, JP!JobsWriters

LEMMA FlushedIds ==
  ASSUME PlatformInv, JP!Next, NEW w \in Workers, NEW y \in sess'[w].runs
  PROVE  \/ \E z \in sess[w].runs : y.id = z.id
         \/ y.id = task[w].run
         \/ y.id = runSeq + 1 /\ runSeq' = runSeq + 1
<1>1. sess \in [Sessions -> SessionStates] /\ w \in Sessions /\ JP!IndInv
  BY Typed, Constants DEF PlatformInv
<1>2. CASE sess'[w] = sess[w]
  BY <1>2
<1>3. CASE sess'[w] # sess[w]
  <2>1. JP!TablesStep(w)
    BY <1>1, <1>3, Constants, JP!OthersKeepSession
  <2>2. CASE JP!InsertRun(w)
    <3> DEFINE row == [id |-> runSeq + 1, doc |-> JP!DocOf(w),
                       status |-> "PROCESSING"]
    <3>1. /\ sess'[w].runs = sess[w].runs \cup {row}
          /\ row.id = runSeq + 1 /\ runSeq' = runSeq + 1
      BY <1>1, <2>2 DEF JP!InsertRun, JP!OpenRun, SessionStates
    <3> HIDE DEF row
    <3>2. QED
      BY <3>1
  <2>3. CASE JP!CompleteRun(w)
    <3> DEFINE row == JP!FinishedRun(task[w].run, JP!DocOf(w))
    <3>1. /\ sess'[w].runs = {z \in sess[w].runs : z.id # row.id} \cup {row}
          /\ row.id = task[w].run
      BY <1>1, <2>3 DEF JP!CompleteRun, JP!WriteRun, JP!FinishedRun,
                        SessionStates
    <3> HIDE DEF row
    <3>2. QED
      BY <3>1
  <2>4. ASSUME ~JP!InsertRun(w), ~JP!CompleteRun(w)
        PROVE  sess'[w].runs = {}
    BY <1>1, <2>1, <2>4
       DEF JP!TablesStep, JP!InsertConflicts, JP!UniqueViolation,
           JP!CommitRun, JP!CommitTables, JP!TaskDbError, JP!PoisonTables,
           JP!HandleFailure, JP!HandlerGivesUp, JP!CloseTables,
           JP!WorkerStops, JP!FreshSession, JP!PoisonedSession
  <2>5. QED
    BY <2>2, <2>3, <2>4
<1>4. QED
  BY <1>2, <1>3

(* The job path takes up no run id but the next one.                       *)
LEMMA ApartStays ==
  ASSUME PlatformInv, JP!Next, NEW i \in Nat, i # NoRun, Apart(i),
         i <= runSeq \/ i > runSeq'
  PROVE  Apart(i)'
<1>1. runSeq \in Nat /\ runSeq' \in Nat /\ JP!IndInv
      /\ \A w \in Workers : task[w].run # i
  BY Typed, JobFrame DEF PlatformInv, Apart
<1>2. i # runSeq + 1 \/ runSeq' # runSeq + 1
  BY <1>1
<1>3. ASSUME NEW w \in Workers PROVE task'[w].run # i
  BY <1>1, <1>2, TaskRun
<1>4. ASSUME NEW w \in Workers, NEW y \in sess'[w].runs PROVE y.id # i
  <2>1. \A z \in sess[w].runs : z.id # i
    BY DEF Apart
  <2>2. QED
    BY <1>1, <1>2, <2>1, FlushedIds
<1>5. ASSUME NEW j \in Jobs PROVE jobs'[j].run # i
  <2>1. jobs[j].run # i
    BY DEF Apart
  <2>2. QED
    BY <1>1, <2>1, JobRun
<1>6. ASSUME NEW j \in Jobs PROVE results'[j] # i
  <2>1. results[j] # i
    BY DEF Apart
  <2>2. results'[j] = results[j] \/ \E w \in Workers : results'[j] = task[w].run
    BY <1>1, Constants, JP!ResultsStay
  <2>3. QED
    BY <1>1, <2>1, <2>2
<1>7. QED
  BY <1>3, <1>4, <1>5, <1>6 DEF Apart

LEMMA JobApart ==
  ASSUME PlatformInv, JP!Next, UNCHANGED extract
  PROVE  RunIdsApart'
<1>1. /\ runSeq \in Nat /\ runSeq' \in Nat /\ runSeq <= runSeq'
      /\ \A x \in Requests : extract[x].run \in Nat
                            /\ extract[x].run <= runSeq
      /\ RunIdsApart
  BY Typed, JobFrame DEF PlatformInv, XP!SyncInv, XP!IdsAreUnique, XP!Handlers
<1>2. ASSUME NEW i \in Nat, i > runSeq' PROVE Apart(i)'
  BY <1>1, <1>2, ApartStays DEF RunIdsApart, NoRun
<1>3. ASSUME NEW x \in Requests, extract[x].run # NoRun
      PROVE  Apart(extract[x].run)'
  <2>1. PICK i \in Nat : i = extract[x].run
    BY <1>1
  <2>2. Apart(i)'
    BY <1>1, <1>3, <2>1, ApartStays DEF RunIdsApart
  <2>3. QED
    BY <2>1, <2>2 DEF Apart
<1>4. QED
  BY <1>2, <1>3 DEF RunIdsApart

(* What a worker's step makes of its place in upsert_document.             *)
LEMMA TaskPlace ==
  ASSUME PlatformInv, JP!Next, NEW w \in Workers, task'[w].pc # "idle"
  PROVE  \/ task'[w] = task[w] /\ sess'[w] = sess[w]
         \/ task'[w].pc \notin {"insert", "complete"}
         \/ /\ task[w].pc # "idle" /\ task'[w].pc = "insert"
            /\ task'[w].job = task[w].job
            /\ task'[w].found => JP!DocOf(w) \in documents
         \/ /\ task[w].pc = "insert" /\ task'[w].pc = "complete"
            /\ task'[w].job = task[w].job
            /\ sess'[w].docs = IF task[w].found THEN sess[w].docs
                               ELSE sess[w].docs \cup {JP!DocOf(w)}
<1>1. /\ task \in [Workers -> JP!Tasks]
      /\ sess \in [Sessions -> SessionStates] /\ w \in Sessions
      /\ JP!IndInv
  BY Typed, Constants DEF PlatformInv
<1>2. CASE JP!InsertRun(w)
  BY <1>1, <1>2 DEF JP!InsertRun, JP!OpenRun, JP!Tasks, SessionStates
<1>3. CASE JP!TablesStep(w) /\ ~JP!InsertRun(w)
  <2>1. task'[w].pc \in {"except", "commit", "store", "idle"}
    BY <1>1, <1>3
       DEF JP!TablesStep, JP!InsertConflicts, JP!CompleteRun, JP!CommitRun,
           JP!TaskDbError, JP!HandleFailure, JP!HandlerGivesUp,
           JP!WorkerStops, JP!TaskIdle, JP!Tasks
  <2>2. QED
    BY <2>1
<1>4. CASE JP!SelectDocument(w)
  BY <1>1, <1>4 DEF JP!SelectDocument, JP!Tasks
<1>5. CASE JP!NoTablesStep(w) /\ ~JP!SelectDocument(w)
  <2>1. CASE JP!AbandonJob(w)
    BY <2>1 DEF JP!AbandonJob, JP!db, JP!tables
  <2>2. ASSUME ~JP!AbandonJob(w)
        PROVE  task'[w].pc \notin {"insert", "complete"}
    BY <1>1, <1>5, <2>2
       DEF JP!NoTablesStep, JP!Deliver, JP!SkipJob, JP!LoadJob,
           JP!MarkProcessing, JP!ProcessPdf, JP!StoreResult,
           JP!MarkSucceeded, JP!TaskReturns, JP!TaskRaises, JP!TaskTimesOut,
           JP!TaskIdle, JP!NewTask, JP!Tasks
  <2>3. QED
    BY <2>1, <2>2
<1>6. ASSUME ~JP!NoTablesStep(w), ~JP!TablesStep(w)
      PROVE  task'[w] = task[w] /\ sess'[w] = sess[w]
  BY <1>1, <1>6, Constants, JP!OthersKeepTask, JP!OthersKeepSession
<1>7. QED
  BY <1>2, <1>3, <1>4, <1>5, <1>6

LEMMA JobLookups ==
  ASSUME PlatformInv, JP!Next, UNCHANGED extract
  PROVE  LookupsHold'
<1>1. /\ JP!IndInv /\ LookupsHold /\ documents \subseteq documents'
      /\ task \in [Workers -> JP!Tasks]
  BY Typed, JobFrame DEF PlatformInv
<1>2. ASSUME NEW w \in Workers, task[w].pc # "idle", task'[w].job = task[w].job
      PROVE  JP!DocOf(w)' = JP!DocOf(w)
  <2>1. /\ task[w].job \in Jobs /\ jobs[task[w].job].status # "absent"
    BY <1>1, <1>2, Constants, JP!DocOfTask
  <2>2. PICK j \in Jobs : j = task[w].job
    BY <2>1
  <2>3. jobs'[j].doc = jobs[j].doc
    BY <1>1, <2>1, <2>2, Constants, JP!RowsStay
  <2>4. QED
    BY <1>2, <2>2, <2>3 DEF JP!DocOf
<1>3. ASSUME NEW w \in Workers
      PROVE  /\ task'[w].pc = "insert" /\ task'[w].found
                  => JP!DocOf(w)' \in documents'
             /\ task'[w].pc = "complete"
                  => JP!DocOf(w)' \in documents' \cup sess'[w].docs
  <2>1. SUFFICES ASSUME task'[w].pc \in {"insert", "complete"}
                 PROVE  /\ task'[w].pc = "insert" /\ task'[w].found
                             => JP!DocOf(w)' \in documents'
                        /\ task'[w].pc = "complete"
                             => JP!DocOf(w)' \in documents' \cup sess'[w].docs
    OBVIOUS
  <2>2. task[w].pc # "idle" /\ task'[w].job = task[w].job
    BY <2>1, TaskPlace
  <2>3. JP!DocOf(w)' = JP!DocOf(w)
    BY <1>2, <2>2
  <2>4. PICK d : d = JP!DocOf(w) /\ d = JP!DocOf(w)'
    BY <2>3
  <2>5. /\ task[w].pc = "insert" /\ task[w].found => d \in documents
        /\ task[w].pc = "complete" => d \in documents \cup sess[w].docs
    BY <1>1, <2>4 DEF LookupsHold
  <2>6. /\ task'[w].pc = "insert" /\ task'[w].found => d \in documents'
        /\ task'[w].pc = "complete" => d \in documents' \cup sess'[w].docs
    BY <1>1, <2>1, <2>4, <2>5, TaskPlace
  <2>7. QED
    BY <2>4, <2>6
<1>4. ASSUME NEW x \in Requests, extract'[x].pc = "insert", extract'[x].found
      PROVE  extract'[x].doc \in documents'
  BY <1>1, <1>4 DEF LookupsHold
<1>5. QED
  BY <1>3, <1>4 DEF LookupsHold

LEMMA JobStep ==
  ASSUME PlatformInv, JP!Next, UNCHANGED extract
  PROVE  PlatformInv'
<1>1. JP!IndInv'
  BY Constants, JP!IndInvStep DEF PlatformInv
<1>2. FlushedRuns' /\ RunsHaveDocuments'
  <2>1. CASE UNCHANGED tables
    BY <2>1 DEF PlatformInv, tables, FlushedRuns, RunsHaveDocuments
  <2>2. ASSUME NEW w \in Workers, Writes(w)
        PROVE  FlushedRuns' /\ RunsHaveDocuments'
    BY <2>2, Constants, FlushedStep
       DEF PlatformInv, JP!IndInv, JP!PendingIdsAreFresh
  <2>3. QED
    BY <2>1, <2>2, JobWrites
<1>3. QED
  BY <1>1, <1>2, JobKeepsRequests, JobApart, JobLookups DEF PlatformInv

----------------------------------------------------------------------------
(* A step of a request                                                     *)

LEMMA RequestWrites ==
  ASSUME PlatformInv, NEW x \in Requests, XP!StepOf(x)
  PROVE  Writes(x)
<1> DEFINE e == extract[x]
<1>1. /\ XP!SyncInv /\ e \in XP!Handlers
      /\ XP!Handled(e, sess[x], XP!RunsOf(x), faults)
      /\ runs \subseteq Runs /\ RunsHaveDocuments /\ x \in Sessions
  BY Typed, Constants DEF PlatformInv, XP!SyncInv, XP!AllHandled
<1>2. e.pc # "waiting" => e.doc \in Docs
  BY <1>1 DEF XP!Handled, XP!Docs, Docs
<1>3. ASSUME NEW status, XP!RunRow(e, status) \in XP!RunsOf(x)
      PROVE  e.doc \in documents
  <2>1. XP!RunRow(e, status) \in runs
    BY <1>3 DEF XP!RunsOf
  <2>2. QED
    BY <1>1, <2>1 DEF RunsHaveDocuments, XP!RunRow
<1>4. ASSUME NEW status \in RunStatus, e.pc # "waiting"
      PROVE  XP!RunRow(e, status) \in Runs
  BY <1>1, <1>2, <1>4 DEF XP!RunRow, Runs, XP!Handlers
<1>5. CASE XP!OpenRun(x, e.doc, e.found) /\ e.pc = "insert"
  <2>1. OpenRun(x, e.doc, e.found)
    BY <1>5 DEF XP!OpenRun, OpenRun, XP!KeyIsFree, KeyIsFree
  <2>2. e.found \in BOOLEAN /\ (e.found => e.doc \in documents)
    BY <1>1, <1>5 DEF XP!Handlers, PlatformInv, LookupsHold
  <2>3. QED
    BY <1>2, <1>5, <2>1, <2>2 DEF Writes
<1>6. CASE XP!WriteRun(x, XP!FinishedRun(e.run, e.doc)) /\ e.pc = "complete"
  <2> DEFINE row == XP!RunRow(e, "COMPLETED")
  <2>1. WriteRun(x, row)
    BY <1>6 DEF XP!WriteRun, WriteRun, XP!FinishedRun, XP!RunRow
  <2>2. e.doc \in documents
    BY <1>1, <1>3, <1>6 DEF XP!Handled
  <2>3. row.doc = e.doc
    BY DEF XP!RunRow
  <2>4. row \in Runs
    BY <1>4, <1>6 DEF RunStatus
  <2> HIDE DEF row
  <2>5. QED
    BY <2>1, <2>2, <2>3, <2>4 DEF Writes
<1>7. CASE XP!CommitTables(x) \/ XP!PoisonTables(x) \/ XP!CloseTables(x)
  BY <1>7 DEF XP!CommitTables, CommitTables, XP!PoisonTables, PoisonTables,
     XP!CloseTables, CloseTables, XP!FreshSession, FreshSession,
     XP!PoisonedSession, PoisonedSession, Writes
<1>8. CASE /\ XP!CloseRun(x, extract'[x].pc, "FAILED")
           /\ e.pc \in {"http", "except"}
           /\ e.pc = "http" \/ e.run # XP!NoRun
  <2> DEFINE row == XP!RunRow(e, "FAILED")
  <2>1. /\ runs' = {r \in runs : r.id # row.id} \cup {row}
        /\ sess' = [sess EXCEPT ![x] = FreshSession]
        /\ UNCHANGED <<documents, runSeq>> /\ ~sess[x].poisoned
        /\ row.doc = e.doc
    BY <1>8 DEF XP!CloseRun, XP!RunRow, XP!FreshSession, FreshSession
  <2>2. e.doc \in documents
    <3>1. \E status : XP!RunsOf(x) = {XP!RunRow(e, status)}
      BY <1>1, <1>8, <2>1 DEF XP!Handled
    <3>2. QED
      BY <1>3, <3>1
  <2>3. row \in Runs
    BY <1>4, <1>8 DEF RunStatus
  <2> HIDE DEF row
  <2>4. QED
    BY <2>1, <2>2, <2>3 DEF Writes
<1>9. QED
  BY <1>1, <1>5, <1>6, <1>7, <1>8, Constants, XP!TablesChange
     DEF XP!tables, tables, Writes

(* A request changes no session but its own, and no row but its run's.     *)
LEMMA RequestFrame ==
  ASSUME PlatformInv, NEW x \in Requests, XP!StepOf(x)
  PROVE  /\ XP!SyncInv'
         /\ \A v \in Requests : v # x => extract'[v] = extract[v]
         /\ \A w \in Workers : sess'[w] = sess[w]
         /\ \A r : r.id # extract[x].run => (r \in runs' <=> r \in runs)
         /\ extract[x].run = NoRun => runs' = runs
         /\ documents \subseteq documents'
         /\ runSeq' \in Nat /\ runSeq <= runSeq'
<1>1. XP!SyncInv /\ x \in Sessions /\ \A w \in Workers : w \in Sessions /\ w # x
  BY Constants DEF PlatformInv
<1>2. /\ \A v \in Requests : v # x => extract'[v] = extract[v]
      /\ \A s \in Sessions : s # x => sess'[s] = sess[s]
      /\ \A r : r.id # extract[x].run => (r \in runs' <=> r \in runs)
  BY <1>1, Constants, XP!OthersUntouched
<1>3. XP!SyncInv'
  BY <1>1, Constants, XP!TypeStep, XP!HandledStep, XP!IdsStep DEF XP!SyncInv
<1>4. ASSUME extract[x].run = NoRun PROVE runs' = runs
  <2>1. /\ \A r \in runs : r.id # NoRun
        /\ \A r \in runs' : r.id # NoRun
    BY <1>1, <1>3 DEF XP!SyncInv, XP!IdsAreUnique, XP!NoRun, NoRun
  <2>2. QED
    BY <1>2, <1>4, <2>1
<1>5. QED
  BY <1>1, <1>2, <1>3, <1>4, RequestWrites, WritesFrame

(* Runs that a job names stay.                                             *)
LEMMA RequestKeepsBacked ==
  ASSUME PlatformInv, NEW x \in Requests, XP!StepOf(x), NEW i, NEW d,
         extract[x].run # NoRun => i # extract[x].run
  PROVE  FinishedRun(i, d) \in runs' <=> FinishedRun(i, d) \in runs
<1> DEFINE row == FinishedRun(i, d)
<1>1. row.id = i
  BY DEF FinishedRun
<1> HIDE DEF row
<1>2. row \in runs' <=> row \in runs
  BY <1>1, RequestFrame
<1>3. QED
  BY <1>2 DEF row

LEMMA RequestKeepsJobs ==
  ASSUME PlatformInv, NEW x \in Requests, XP!StepOf(x), UNCHANGED jobPart
  PROVE  JP!IndInv'
<1>1. /\ JP!IndInv
      /\ extract[x].run # NoRun => Apart(extract[x].run)
      /\ extract[x].run \in Nat /\ extract[x].run <= runSeq
      /\ runSeq \in Nat /\ runs \subseteq Runs
      /\ \A w \in Workers : sess'[w] = sess[w]
      /\ runSeq' \in Nat /\ runSeq <= runSeq'
  BY Typed, RequestFrame
     DEF PlatformInv, RunIdsApart, XP!SyncInv, XP!IdsAreUnique, XP!Handlers
<1>2. UNCHANGED <<jobs, inputs, results, queue, failedReg, accepted, upload,
                  task>>
  BY DEF jobPart
<1>3. JP!TypeOK'
  <2>1. XP!TypeOK' /\ JP!TypeOK
    BY <1>1, RequestFrame DEF XP!SyncInv, JP!IndInv
  <2>2. QED
    BY <1>2, <2>1
     DEF XP!TypeOK, JP!TypeOK, XP!PersistenceTypeOK, JP!PersistenceTypeOK,
         XP!Docs, JP!Docs, XP!Runs, JP!Runs, XP!RunStatus, JP!RunStatus,
         XP!SessionStates, JP!SessionStates, JP!JobRows, JP!Uploads, JP!Tasks
<1>4. JP!RowsComeFirst' /\ JP!UploadsOwnTheirJob' /\ JP!TasksHaveJobs'
  BY <1>1, <1>2
     DEF JP!IndInv, JP!RowsComeFirst, JP!UploadsOwnTheirJob,
         JP!TasksHaveJobs, JP!InQueue, JP!Live, JP!Docs
<1>5. JP!PendingIdsAreFresh'
  <2>1. JP!PendingIdsAreFresh
    BY <1>1 DEF JP!IndInv
  <2>2. ASSUME NEW r \in runs'
        PROVE  r.id <= runSeq'
    BY <1>1, <2>2, RequestFrame DEF XP!SyncInv, XP!IdsAreUnique
  <2>3. ASSUME NEW w \in Workers, NEW y \in sess'[w].runs
        PROVE  /\ y.id # JP!NoRun /\ y.id <= runSeq'
               /\ \A r \in runs' : r.id # y.id
    <3>1. /\ y \in sess[w].runs /\ y.id # JP!NoRun /\ y.id <= runSeq
          /\ \A r \in runs : r.id # y.id
      BY <1>1, <2>1 DEF JP!PendingIdsAreFresh
    <3>2. y.id \in Nat
      <4>1. sess[w] \in SessionStates
        BY Typed, Constants
      <4>2. QED
        BY <3>1, <4>1 DEF SessionStates, Runs
    <3>3. extract[x].run # NoRun => extract[x].run # y.id
      BY <1>1, <3>1 DEF Apart
    <3>4. ASSUME NEW r \in runs' PROVE r.id # y.id
      <4>1. CASE extract[x].run = NoRun
        BY <3>1, <4>1, RequestFrame
      <4>2. CASE r.id = extract[x].run /\ extract[x].run # NoRun
        BY <3>3, <4>2
      <4>3. CASE r.id # extract[x].run
        BY <3>1, <4>3, RequestFrame
      <4>4. QED
        BY <4>1, <4>2, <4>3
    <3>5. QED
      BY <1>1, <3>1, <3>2, <3>4
  <2>4. \A v, w \in Workers : v # w =>
          \A y \in sess'[v].runs, z \in sess'[w].runs : y.id # z.id
    BY <1>1, <2>1 DEF JP!PendingIdsAreFresh
  <2>5. QED
    BY <2>2, <2>3, <2>4 DEF JP!PendingIdsAreFresh
<1>6. extract[x].run # NoRun =>
        /\ \A j \in Jobs : /\ results[j] # extract[x].run
                          /\ jobs[j].run # extract[x].run
        /\ \A w \in Workers : task[w].run # extract[x].run
  BY <1>1 DEF Apart
<1>7. JP!TaskHoldsRun'
  <2>1. SUFFICES ASSUME NEW w \in Workers
                 PROVE  JP!Holds(w, task'[w], sess'[w], runs', results',
                                 JP!DocOf(w)')
    BY DEF JP!TaskHoldsRun, JP!Holds, JP!Backed, JP!DocOf
  <2>2. PICK d : d = JP!DocOf(w) /\ d = JP!DocOf(w)'
    BY <1>2 DEF JP!DocOf
  <2>3. JP!Holds(w, task[w], sess[w], runs, results, d)
    BY <1>1, <2>2 DEF JP!IndInv, JP!TaskHoldsRun, JP!Holds, JP!Backed, JP!DocOf
  <2>4. FinishedRun(task[w].run, d) \in runs'
          <=> FinishedRun(task[w].run, d) \in runs
    BY <1>6, RequestKeepsBacked
  <2>5. JP!Holds(w, task'[w], sess'[w], runs', results', d)
    BY <1>1, <1>2, <2>3, <2>4 DEF JP!Holds, JP!FinishedRun, FinishedRun
  <2>6. QED
    BY <2>2, <2>5
<1>8. JP!ResultsOwned' /\ JP!SucceededIsBacked'
  <2>1. ASSUME NEW j \in Jobs
        PROVE  /\ FinishedRun(results[j], jobs[j].doc) \in runs' <=>
                    FinishedRun(results[j], jobs[j].doc) \in runs
               /\ FinishedRun(jobs[j].run, jobs[j].doc) \in runs' <=>
                    FinishedRun(jobs[j].run, jobs[j].doc) \in runs
    BY <1>6, RequestKeepsBacked
  <2>2. QED
    BY <1>1, <1>2, <2>1
       DEF JP!IndInv, JP!ResultsOwned, JP!SucceededIsBacked, JP!Backed,
           JP!FinishedRun, FinishedRun
<1>9. JP!PoisonedTasksFail'
  BY <1>1, <1>2 DEF JP!IndInv, JP!PoisonedTasksFail
<1>10. QED
  BY <1>3, <1>4, <1>5, <1>7, <1>8, <1>9 DEF JP!IndInv

LEMMA RequestApart ==
  ASSUME PlatformInv, NEW x \in Requests, XP!StepOf(x), UNCHANGED jobPart
  PROVE  RunIdsApart'
<1>1. /\ runSeq \in Nat /\ runSeq' \in Nat /\ runSeq <= runSeq'
      /\ \A w \in Workers : sess'[w] = sess[w]
      /\ jobs' = jobs /\ results' = results /\ task' = task
      /\ RunIdsApart /\ XP!SyncInv
  BY Typed, RequestFrame DEF PlatformInv, jobPart
<1>2. ASSUME NEW i, Apart(i) PROVE Apart(i)'
  BY <1>1, <1>2 DEF Apart
<1>3. ASSUME NEW i \in Nat, i > runSeq' PROVE Apart(i)'
  BY <1>1, <1>2, <1>3 DEF RunIdsApart
<1>4. ASSUME NEW v \in Requests, extract'[v].run # NoRun
      PROVE  Apart(extract[v].run)'
  <2>1. PICK i : i = extract'[v].run
    OBVIOUS
  <2>2. Apart(i)
    <3>1. CASE i = extract[v].run
      BY <1>1, <1>4, <2>1, <3>1 DEF RunIdsApart
    <3>2. CASE i # extract[v].run
      <4>1. v = x /\ extract[x].run # extract'[x].run
        BY <2>1, <3>2, RequestFrame
      <4>2. i = runSeq + 1
        BY <1>1, <2>1, <4>1, Constants, XP!RunStays
      <4>3. QED
        BY <1>1, <4>2 DEF RunIdsApart
    <3>3. QED
      BY <3>1, <3>2
  <2>3. QED
    BY <1>2, <2>1, <2>2 DEF Apart
<1>5. QED
  BY <1>3, <1>4 DEF RunIdsApart

LEMMA RequestLookups ==
  ASSUME PlatformInv, NEW x \in Requests, XP!StepOf(x), UNCHANGED jobPart
  PROVE  LookupsHold'
<1>1. /\ documents \subseteq documents' /\ LookupsHold
      /\ \A w \in Workers : sess'[w] = sess[w]
      /\ jobs' = jobs /\ task' = task
      /\ extract \in [Requests -> XP!Handlers]
  BY Typed, RequestFrame DEF PlatformInv, jobPart
<1>2. \A w \in Workers :
        /\ task'[w].pc = "insert" /\ task'[w].found
             => JP!DocOf(w)' \in documents'
        /\ task'[w].pc = "complete"
             => JP!DocOf(w)' \in documents' \cup sess'[w].docs
  BY <1>1 DEF LookupsHold, JP!DocOf
<1>3. ASSUME NEW v \in Requests, v # x PROVE extract'[v] = extract[v]
  BY <1>3, RequestFrame
<1>4. ASSUME extract'[x].pc = "insert", extract'[x].found
      PROVE  extract'[x].doc \in documents'
  <2>1. XP!SelectDocument(x)
    BY <1>1, <1>4
       DEF XP!StepOf, XP!ExtractStep, XP!Receive, XP!InsertRun,
           XP!InsertConflicts, XP!BeginCommit, XP!CommitStep, XP!ProcessPdf,
           XP!CompleteRun, XP!CompleteCommit, XP!Respond, XP!Reply,
           XP!HandleHttp, XP!FailRun, XP!CloseRun, XP!Goto,
           XP!HandleException, XP!ExtractRaises, XP!ResponseInvalid,
           XP!ExtractDbError,
           XP!ApiCrashes, XP!Handlers
  <2>2. QED
    BY <1>1, <1>4, <2>1 DEF XP!SelectDocument, XP!Handlers
<1>5. QED
  BY <1>1, <1>2, <1>3, <1>4 DEF LookupsHold

LEMMA RequestStep ==
  ASSUME PlatformInv, NEW x \in Requests, XP!StepOf(x), UNCHANGED jobPart
  PROVE  PlatformInv'
<1>1. x \in Sessions /\ XP!SyncInv
  BY Constants DEF PlatformInv
<1>2. \A y \in sess[x].runs : y.id <= runSeq
  <2>1. \A y \in sess[x].runs : y.id = extract[x].run
    BY <1>1, Constants, XP!PendingIsOwn
  <2>2. QED
    BY <1>1, <2>1 DEF XP!SyncInv, XP!IdsAreUnique
<1>3. FlushedRuns' /\ RunsHaveDocuments'
  BY <1>1, <1>2, RequestWrites, FlushedStep
<1>4. QED
  BY <1>3, RequestFrame, RequestKeepsJobs, RequestApart, RequestLookups
     DEF PlatformInv

----------------------------------------------------------------------------
(* Theorems                                                                *)

(* Both paths start as they do on their own.                               *)
LEMMA PathsStart == Init => JP!Init /\ XP!Init
<1>1. SUFFICES ASSUME Init PROVE JP!Init /\ XP!Init
  OBVIOUS
<1>2. /\ documents = {} /\ runs = {} /\ runSeq = 0 /\ faults = 0
      /\ sess = [s \in Sessions |-> FreshSession]
      /\ jobs = [j \in Jobs |-> J!AbsentJob]
      /\ inputs = {} /\ results = [j \in Jobs |-> NoRun]
      /\ queue = <<>> /\ failedReg = {} /\ accepted = {}
      /\ upload = [p \in Apis |-> J!UploadIdle]
      /\ task = [w \in Workers |-> J!TaskIdle]
      /\ extract = [x \in Requests |-> X!Waiting]
  BY <1>1 DEF Init, J!Init, J!PersistenceInit, J!FreshSession, FreshSession,
              J!NoRun, NoRun
<1>3. JP!Init
  BY <1>2 DEF JP!Init, JP!PersistenceInit, JP!FreshSession, FreshSession,
     JP!NoRun, NoRun, JP!AbsentJob, J!AbsentJob, JP!UploadIdle, J!UploadIdle,
     JP!TaskIdle, J!TaskIdle, J!NoRun
<1>4. XP!Init
  BY <1>2 DEF XP!Init, XP!PersistenceInit, XP!FreshSession, FreshSession,
     XP!Waiting, X!Waiting, XP!NoRun, X!NoRun
<1>5. QED
  BY <1>3, <1>4

LEMMA PlatformInit == Init => PlatformInv
<1>1. SUFFICES ASSUME Init PROVE PlatformInv
  OBVIOUS
<1>2. /\ documents = {} /\ runs = {} /\ runSeq = 0 /\ faults = 0
      /\ sess = [s \in Sessions |-> FreshSession]
      /\ jobs = [j \in Jobs |-> J!AbsentJob]
      /\ inputs = {} /\ results = [j \in Jobs |-> NoRun]
      /\ queue = <<>> /\ failedReg = {} /\ accepted = {}
      /\ upload = [p \in Apis |-> J!UploadIdle]
      /\ task = [w \in Workers |-> J!TaskIdle]
      /\ extract = [x \in Requests |-> X!Waiting]
  BY <1>1 DEF Init, J!Init, J!PersistenceInit, J!FreshSession, FreshSession,
              J!NoRun, NoRun
<1>4. JP!Init /\ XP!Init
  BY <1>1, PathsStart
<1>5. JP!IndInv /\ XP!SyncInv
  BY <1>4, Constants, JP!InitInv, XP!SyncInit
<1>6. RunIdsApart
  BY <1>2, Constants DEF RunIdsApart, Apart, FreshSession, NoRun, J!AbsentJob,
     J!TaskIdle, X!Waiting, J!NoRun, X!NoRun
<1>7. FlushedRuns /\ RunsHaveDocuments
  BY <1>2 DEF FlushedRuns, RunsHaveDocuments, FreshSession
<1>8. LookupsHold
  BY <1>2 DEF LookupsHold, J!TaskIdle, X!Waiting
<1>9. QED
  BY <1>5, <1>6, <1>7, <1>8 DEF PlatformInv

LEMMA PlatformStutter == PlatformInv /\ UNCHANGED vars => PlatformInv'
<1>1. SUFFICES ASSUME PlatformInv, UNCHANGED vars PROVE PlatformInv'
  OBVIOUS
<1>2. UNCHANGED JP!vars /\ UNCHANGED XP!vars
  BY <1>1 DEF vars, jobPart, tables, JP!vars, JP!db, JP!objects, JP!rq,
              JP!api, JP!tables, XP!vars, XP!tables
<1>3. JP!IndInv' /\ XP!SyncInv'
  BY <1>1, <1>2, Constants, JP!IndInvStep, XP!SyncStep DEF PlatformInv
<1>4. RunIdsApart' /\ FlushedRuns' /\ RunsHaveDocuments' /\ LookupsHold'
  BY <1>1 DEF vars, jobPart, tables, PlatformInv, RunIdsApart, Apart,
              FlushedRuns, RunsHaveDocuments, LookupsHold, JP!DocOf
<1>5. QED
  BY <1>3, <1>4 DEF PlatformInv

(* The two paths share documents and analysis_runs without harm: each      *)
(* keeps its own inductive invariant, and their run ids stay apart.        *)
THEOREM PathsStayApart == Spec => []PlatformInv
<1>1. PlatformInv /\ [Next]_vars => PlatformInv'
  <2>1. SUFFICES ASSUME PlatformInv, [Next]_vars PROVE PlatformInv'
    OBVIOUS
  <2>2. CASE J!Next /\ UNCHANGED extract
    BY <2>1, <2>2, JobSteps, JobStep
  <2>3. CASE X!Next /\ UNCHANGED jobPart
    BY <2>1, <2>3, RequestSteps, RequestStep
  <2>4. QED
    BY <2>1, <2>2, <2>3, PlatformStutter DEF Next
<1>2. QED
  BY <1>1, PlatformInit, PTL DEF Spec

(* Whatever the two paths do to each other's transactions: a stored result *)
(* and a succeeded job name a committed, finished run of the job's own     *)
(* document, a 200 one of the request's, and an error reply leaves its run *)
(* FAILED.                                                                 *)
THEOREM AnswersStayBacked == Spec => []AnswersAreBacked
<1>1. PlatformInv => J!ResultsOwned /\ J!SucceededIsBacked
  BY DEF PlatformInv, JP!IndInv, JP!ResultsOwned, J!ResultsOwned,
     JP!SucceededIsBacked, J!SucceededIsBacked, JP!Backed, J!Backed,
     JP!FinishedRun, J!FinishedRun, JP!NoRun, J!NoRun
<1>2. PlatformInv => X!ReplyMatchesRun
  <2>1. PlatformInv => XP!ReplyMatchesRun
    BY Constants, XP!SyncReplies DEF PlatformInv
  <2>2. QED
    BY <2>1 DEF XP!ReplyMatchesRun, X!ReplyMatchesRun, XP!Backed, X!Backed,
                XP!FinishedRun, X!FinishedRun, XP!NoRun, X!NoRun
<1>3. PlatformInv => AnswersAreBacked
  BY <1>1, <1>2 DEF AnswersAreBacked
<1>4. QED
  BY <1>3, PathsStayApart, PTL

(* No two committed runs share an id, every run's document is committed,   *)
(* and every variable keeps its type, for both paths at once.              *)
THEOREM TablesStayConsistent == Spec => []TablesAreConsistent
<1>1. PlatformInv => TypeOK
  <2>1. PlatformInv => J!TypeOK
    BY DEF PlatformInv, JP!IndInv, JP!TypeOK, J!TypeOK, JP!PersistenceTypeOK,
       J!PersistenceTypeOK, JP!Docs, J!Docs, JP!Runs, J!Runs, JP!RunStatus,
       J!RunStatus, JP!SessionStates, J!SessionStates, JP!JobRows, J!JobRows,
       JP!Statuses, J!Statuses, JP!Terminal, J!Terminal, JP!Uploads,
       J!Uploads, JP!Tasks, J!Tasks, JP!TaskSteps, J!TaskSteps
  <2>2. PlatformInv => X!TypeOK
    BY DEF PlatformInv, XP!SyncInv, XP!TypeOK, X!TypeOK,
       XP!PersistenceTypeOK, X!PersistenceTypeOK, XP!Docs, X!Docs, XP!Runs,
       X!Runs, XP!RunStatus, X!RunStatus, XP!SessionStates, X!SessionStates,
       XP!ExtractSteps, X!ExtractSteps, XP!Replies, X!Replies
  <2>3. QED
    BY <2>1, <2>2 DEF TypeOK
<1>2. PlatformInv => /\ \A r, q \in runs : r.id = q.id => r = q
                     /\ \A r \in runs : r.doc \in documents
  BY DEF PlatformInv, XP!SyncInv, XP!IdsAreUnique, RunsHaveDocuments
<1>3. PlatformInv => TablesAreConsistent
  BY <1>1, <1>2 DEF TablesAreConsistent
<1>4. QED
  BY <1>3, PathsStayApart, PTL

----------------------------------------------------------------------------
(* The unique key of documents                                             *)

(* Whoever holds a key that it has not committed is past its own insert,   *)
(* and has nothing to wait for before it commits or rolls back.            *)
KeyHolders ==
  \A s \in Sessions : sess[s].docs # {} =>
    \/ s \in Requests /\ extract[s].pc = "begin"
    \/ s \in Workers /\ task[s].pc \in {"complete", "commit", "except"}

(* No key is held by two transactions, or by one and the table.            *)
KeysAreExclusive ==
  \A s \in Sessions :
    /\ sess[s].docs \cap documents = {}
    /\ \A t \in Sessions \ {s} : sess[s].docs \cap sess[t].docs = {}

KeyInv == PlatformInv /\ KeyHolders /\ KeysAreExclusive

(* Where s stands at its INSERT and t holds the key it inserts.            *)
WaitsFor(s, t) ==
  \/ /\ s \in Workers /\ task[s].pc = "insert" /\ ~task[s].found
     /\ t # s /\ J!DocOf(s) \in sess[t].docs
  \/ /\ s \in Requests /\ extract[s].pc = "insert" /\ ~extract[s].found
     /\ t # s /\ extract[s].doc \in sess[t].docs

LEMMA ExclusiveStep ==
  ASSUME PlatformInv, KeysAreExclusive, NEW s \in Sessions, Writes(s)
  PROVE  KeysAreExclusive'
<1>1. sess \in [Sessions -> SessionStates]
  BY Typed
<1>2. \A t \in Sessions : t # s => sess'[t] = sess[t]
  BY WritesFrame
<1>3. CASE documents' = documents /\ sess'[s].docs \in {sess[s].docs, {}}
  BY <1>2, <1>3 DEF KeysAreExclusive
<1>4. ASSUME NEW d, KeyIsFree(s, d), d \notin documents,
             documents' = documents, sess'[s].docs = sess[s].docs \cup {d}
      PROVE  KeysAreExclusive'
  BY <1>2, <1>4 DEF KeysAreExclusive, KeyIsFree
<1>5. CASE CommitTables(s)
  <2>1. documents' = documents \cup sess[s].docs /\ sess'[s].docs = {}
    BY <1>1, <1>5 DEF CommitTables, FreshSession
  <2>2. QED
    BY <1>2, <2>1 DEF KeysAreExclusive
<1>6. ASSUME NEW d \in Docs, NEW found \in BOOLEAN, OpenRun(s, d, found)
      PROVE  KeysAreExclusive'
  <2>1. CASE found
    <3>1. documents' = documents /\ sess'[s].docs = sess[s].docs
      BY <1>1, <1>6, <2>1 DEF OpenRun, SessionStates
    <3>2. QED
      BY <1>3, <3>1
  <2>2. CASE ~found
    <3>1. /\ documents' = documents /\ sess'[s].docs = sess[s].docs \cup {d}
          /\ KeyIsFree(s, d) /\ d \notin documents
      BY <1>1, <1>6, <2>2 DEF OpenRun, SessionStates
    <3>2. QED
      BY <1>4, <3>1
  <2>3. QED
    BY <2>1, <2>2
<1>7. CASE \E row \in Runs : WriteRun(s, row)
  <2>1. documents' = documents /\ sess'[s].docs = sess[s].docs
    BY <1>1, <1>7 DEF WriteRun, SessionStates
  <2>2. QED
    BY <1>3, <2>1
<1>8. CASE UNCHANGED tables
  BY <1>3, <1>8 DEF tables
<1>9. CASE /\ documents' = documents
           /\ \E y \in {FreshSession, PoisonedSession} :
                sess' = [sess EXCEPT ![s] = y]
  <2>1. sess'[s].docs = {}
    BY <1>1, <1>9 DEF FreshSession, PoisonedSession
  <2>2. QED
    BY <1>3, <1>9, <2>1
<1>10. QED
  BY <1>5, <1>6, <1>7, <1>8, <1>9 DEF Writes, PoisonTables, CloseTables

LEMMA JobKeys ==
  ASSUME PlatformInv, KeyHolders, JP!Next, UNCHANGED extract
  PROVE  KeyHolders'
<1>1. /\ sess \in [Sessions -> SessionStates] /\ task \in [Workers -> JP!Tasks]
      /\ JP!IndInv /\ \A w \in Workers : w \in Sessions
  BY Typed, Constants DEF PlatformInv
<1>2. SUFFICES ASSUME NEW s \in Sessions, sess'[s].docs # {}
               PROVE  \/ s \in Requests /\ extract[s].pc = "begin"
                      \/ /\ s \in Workers
                         /\ task'[s].pc \in {"complete", "commit", "except"}
  BY DEF KeyHolders
<1>3. CASE s \notin Workers
  <2>1. sess'[s] = sess[s]
    BY <1>1, <1>3, JobWrites, WritesFrame DEF tables
  <2>2. QED
    BY <1>2, <1>3, <2>1 DEF KeyHolders
<1>4. CASE s \in Workers /\ JP!TablesStep(s)
  <2>1. CASE JP!InsertRun(s) \/ JP!CompleteRun(s)
    BY <1>1, <1>4, <2>1 DEF JP!InsertRun, JP!CompleteRun, JP!Tasks
  <2>2. CASE ~(JP!InsertRun(s) \/ JP!CompleteRun(s))
    BY <1>1, <1>2, <1>4, <2>2
       DEF JP!TablesStep, JP!InsertConflicts, JP!UniqueViolation,
           JP!CommitRun, JP!CommitTables, JP!TaskDbError, JP!PoisonTables,
           JP!HandleFailure, JP!HandlerGivesUp, JP!CloseTables,
           JP!WorkerStops, JP!FreshSession, JP!PoisonedSession
  <2>3. QED
    BY <2>1, <2>2
<1>5. CASE s \in Workers /\ ~JP!TablesStep(s)
  <2>1. sess'[s] = sess[s]
    BY <1>1, <1>5, Constants, JP!OthersKeepSession
  <2>2. task[s].pc \in {"complete", "commit", "except"}
    BY <1>2, <1>5, <2>1, Constants DEF KeyHolders
  <2>3. CASE task'[s] = task[s]
    BY <1>5, <2>2, <2>3
  <2>4. CASE JP!NoTablesStep(s)
    BY <1>1, <1>5, <2>2, <2>4
       DEF JP!NoTablesStep, JP!Deliver, JP!SkipJob, JP!LoadJob,
           JP!MarkProcessing, JP!ProcessPdf, JP!SelectDocument,
           JP!StoreResult, JP!MarkSucceeded, JP!TaskReturns, JP!TaskRaises,
           JP!TaskTimesOut, JP!AbandonJob, JP!Tasks
  <2>5. QED
    BY <1>1, <1>5, <2>3, <2>4, Constants, JP!OthersKeepTask
<1>6. QED
  BY <1>3, <1>4, <1>5

LEMMA RequestKeys ==
  ASSUME PlatformInv, KeyHolders, NEW x \in Requests, XP!StepOf(x),
         UNCHANGED jobPart
  PROVE  KeyHolders'
<1>1. /\ sess \in [Sessions -> SessionStates] /\ x \in Sessions
      /\ extract \in [Requests -> XP!Handlers] /\ x \notin Workers
      /\ task' = task
  BY Typed, Constants DEF jobPart
<1>2. \A s \in Sessions : s # x => sess'[s] = sess[s]
  BY <1>1, RequestWrites, WritesFrame
<1>3. sess[x].docs # {} => extract[x].pc = "begin"
  BY <1>1 DEF KeyHolders
<1>4. CASE XP!InsertRun(x)
  <2>1. extract'[x].pc = "begin"
    BY <1>1, <1>4 DEF XP!InsertRun, XP!Handlers
  <2>2. QED
    BY <1>1, <1>2, <2>1, RequestFrame DEF KeyHolders
<1>5. CASE ~XP!InsertRun(x)
  <2>1. sess'[x].docs = {}
    <3>1. CASE XP!CompleteRun(x)
      BY <1>1, <1>3, <3>1 DEF XP!CompleteRun, XP!WriteRun, SessionStates
    <3>2. CASE \/ \E d \in XP!Docs : XP!Receive(x, d)
               \/ XP!SelectDocument(x) \/ XP!ProcessPdf(x)
               \/ XP!ExtractRaises(x)
      BY <1>3, <3>2 DEF XP!Receive, XP!SelectDocument, XP!ProcessPdf,
                        XP!ExtractRaises, XP!tables
    <3>3. CASE \/ XP!InsertConflicts(x) \/ XP!BeginCommit(x)
               \/ XP!CompleteCommit(x) \/ XP!Respond(x) \/ XP!HandleHttp(x)
               \/ XP!HandleException(x) \/ XP!ExtractDbError(x)
               \/ XP!ApiCrashes(x) \/ XP!ResponseInvalid(x)
      <4>1. \E y \in {XP!FreshSession, XP!PoisonedSession} :
              sess' = [sess EXCEPT ![x] = y]
        BY <3>3 DEF XP!InsertConflicts, XP!UniqueViolation, XP!BeginCommit,
           XP!CommitStep, XP!CommitTables, XP!CompleteCommit, XP!Respond,
           XP!Reply, XP!CloseTables, XP!HandleHttp, XP!FailRun, XP!CloseRun,
           XP!HandleException, XP!ExtractDbError, XP!PoisonTables,
           XP!ApiCrashes, XP!ResponseInvalid
      <4>2. QED
        BY <1>1, <4>1 DEF XP!FreshSession, XP!PoisonedSession
    <3>4. QED
      BY <1>5, <3>1, <3>2, <3>3 DEF XP!StepOf, XP!ExtractStep
  <2>2. QED
    BY <1>1, <1>2, <2>1, RequestFrame DEF KeyHolders
<1>6. QED
  BY <1>4, <1>5

LEMMA KeyInvHolds == Spec => []KeyInv
<1>1. Init => KeyHolders /\ KeysAreExclusive
  <2>1. Init => sess = [s \in Sessions |-> FreshSession]
    BY DEF Init, J!Init, J!PersistenceInit, J!FreshSession, FreshSession
  <2>2. QED
    BY <2>1 DEF KeyHolders, KeysAreExclusive, FreshSession
<1>2. KeyInv /\ PlatformInv' /\ [Next]_vars => KeyInv'
  <2>1. SUFFICES ASSUME KeyInv, [Next]_vars
                 PROVE  KeyHolders' /\ KeysAreExclusive'
    BY DEF KeyInv
  <2>2. CASE UNCHANGED vars
    BY <2>1, <2>2 DEF vars, jobPart, tables, KeyInv, KeyHolders,
                      KeysAreExclusive
  <2>3. CASE J!Next /\ UNCHANGED extract
    <3>1. JP!Next
      BY <2>3, JobSteps
    <3>2. UNCHANGED tables => KeysAreExclusive'
      BY <2>1 DEF KeyInv, KeysAreExclusive, tables
    <3>3. QED
      <4>1. PlatformInv /\ KeyHolders /\ KeysAreExclusive
        BY <2>1 DEF KeyInv
      <4>2. KeyHolders'
        BY <2>3, <3>1, <4>1, JobKeys
      <4>3. \A s \in Sessions : Writes(s) => KeysAreExclusive'
        BY <4>1, ExclusiveStep
      <4>4. QED
        BY <3>1, <3>2, <4>1, <4>2, <4>3, Constants, JobWrites
  <2>4. CASE X!Next /\ UNCHANGED jobPart
    BY <2>1, <2>4, Constants, RequestSteps, RequestWrites, RequestKeys,
       ExclusiveStep DEF KeyInv
  <2>5. QED
    BY <2>1, <2>2, <2>3, <2>4 DEF Next
<1>3. QED
  BY <1>1, <1>2, PathsStayApart, PTL DEF Spec, KeyInv

(* The flush of upsert_document tells every duplicate key: at no commit of *)
(* either path is one of the session's documents in the table already, or  *)
(* in another open transaction.                                            *)
THEOREM KeysStayExclusive == Spec => []KeysAreExclusive
<1>1. KeyInv => KeysAreExclusive
  BY DEF KeyInv
<1>2. QED
  BY <1>1, KeyInvHolds, PTL

(* An INSERT that waits for another transaction's key waits for one that   *)
(* waits for nobody: the two paths cannot deadlock in the database.        *)
THEOREM WaitsEndAtOnce ==
  Spec => [](\A s, t, u \in Sessions : WaitsFor(s, t) => ~WaitsFor(t, u))
<1>1. KeyInv => \A s, t, u \in Sessions : WaitsFor(s, t) => ~WaitsFor(t, u)
  <2>1. SUFFICES ASSUME KeyInv, NEW s \in Sessions, NEW t \in Sessions,
                        NEW u \in Sessions, WaitsFor(s, t), WaitsFor(t, u)
                 PROVE  FALSE
    OBVIOUS
  <2>2. sess[t].docs # {}
    BY <2>1 DEF WaitsFor
  <2>3. QED
    BY <2>1, <2>2, Constants DEF KeyInv, KeyHolders, WaitsFor
<1>2. QED
  BY <1>1, KeyInvHolds, PTL

----------------------------------------------------------------------------
(* What each path promises of single steps                                 *)

(* A request leaves jobs and workers as they are.                          *)
LEMMA SettledNextToRequests ==
  ASSUME PlatformInv, NEW x \in Requests, XP!StepOf(x), UNCHANGED jobPart,
         NEW j \in Jobs, JP!Settled(j)
  PROVE  jobs'[j] = jobs[j] /\ JP!Settled(j)'
<1>1. /\ jobs' = jobs /\ task' = task
      /\ \A w \in Workers : sess'[w] = sess[w]
  BY RequestFrame DEF jobPart
<1>2. QED
  BY <1>1 DEF JP!Settled, JP!Running, JP!Terminal

(* A synchronous extraction of the same document neither writes the row of *)
(* a settled job nor revives an execution of it: next to /extract as well, *)
(* process_document_job has the last word on its own jobs.                 *)
THEOREM SettledJobsStay == Spec => J!SettledStays
<1> DEFINE Stay ==
      \A j \in Jobs : J!Settled(j) =>
        jobs'[j] = jobs[j] /\ (J!Settled(j)' \/ J!LoadTimesOut(j))
<1>1. ASSUME NEW j \in Jobs
      PROVE  /\ J!Settled(j) <=> JP!Settled(j)
             /\ J!Settled(j)' <=> JP!Settled(j)'
             /\ JP!LoadTimesOut(j) => J!LoadTimesOut(j)
  BY DEF J!Settled, JP!Settled, J!Running, JP!Running, J!Terminal, JP!Terminal,
         J!LoadTimesOut, JP!LoadTimesOut, J!TaskTimesOut, JP!TaskTimesOut,
         J!db, JP!db, J!tables, JP!tables, J!objects, JP!objects, J!rq, JP!rq,
         J!api, JP!api, J!Fault, JP!Fault
<1>2. PlatformInv /\ [Next]_vars => [Stay]_(J!vars)
  <2>1. SUFFICES ASSUME PlatformInv, Next, NEW j \in Jobs, JP!Settled(j)
                 PROVE  jobs'[j] = jobs[j]
                          /\ (JP!Settled(j)' \/ JP!LoadTimesOut(j))
    BY <1>1 DEF vars, jobPart, tables, J!vars, J!db, J!tables, J!objects, J!rq,
                J!api
  <2>2. CASE J!Next
    BY <2>1, <2>2, Constants, JobSteps, JP!SettledStep DEF PlatformInv
  <2>3. CASE X!Next /\ UNCHANGED jobPart
    BY <2>1, <2>3, RequestSteps, SettledNextToRequests
  <2>4. QED
    BY <2>1, <2>2, <2>3 DEF Next
<1>3. QED
  BY <1>2, PathsStayApart, PTL DEF Spec, J!SettledStays

(* A committed run, whichever path it is of, never goes back to PROCESSING *)
(* nor to another document, and only the request that is still being       *)
(* served turns its own COMPLETED run FAILED: what a worker commits with   *)
(* its job, or with its failure, is under ids that no committed run has.   *)
THEOREM RunsNeverReopen == Spec => X!RunsMoveForward
<1> DEFINE Forward ==
      \A r \in runs, n \in runs' : r.id = n.id =>
        /\ n.doc = r.doc
        /\ \/ n.status = r.status
           \/ r.status = "PROCESSING"
           \/ r.status = "COMPLETED" /\ n.status = "FAILED"
                /\ X!InFlight(r.id)
<1>1. ASSUME NEW i PROVE XP!InFlight(i) => X!InFlight(i)
  BY DEF XP!InFlight, X!InFlight, XP!Busy, X!Busy, XP!ExtractSteps,
         X!ExtractSteps
<1>2. PlatformInv /\ [Next]_vars => [Forward]_(X!vars)
  <2>1. SUFFICES ASSUME PlatformInv, Next PROVE Forward
    BY DEF vars, tables, X!vars, X!tables
  <2>2. CASE J!Next /\ UNCHANGED extract
    <3>1. runs \subseteq runs'
      BY <2>1, <2>2, JobSteps, JobFrame
    <3>2. \A r, n \in runs' : r.id = n.id => r = n
      BY <2>1, <2>2, JobSteps, JobKeepsRequests
         DEF XP!SyncInv, XP!IdsAreUnique
    <3>3. QED
      BY <3>1, <3>2
  <2>3. ASSUME NEW x \in Requests, XP!StepOf(x) PROVE Forward
    <3>1. XP!SyncInv
      BY <2>1 DEF PlatformInv
    <3>2. SUFFICES ASSUME NEW r \in runs, NEW n \in runs', r.id = n.id
                   PROVE  /\ n.doc = r.doc
                          /\ \/ n.status = r.status
                             \/ r.status = "PROCESSING"
                             \/ r.status = "COMPLETED"
                                  /\ n.status = "FAILED"
                                  /\ XP!InFlight(r.id)
      BY <1>1
    <3>3. QED
      BY <2>3, <3>1, <3>2, Constants, XP!RunMoves
  <2>4. QED
    BY <2>1, <2>2, <2>3, RequestSteps DEF Next
<1>3. QED
  BY <1>2, PathsStayApart, PTL DEF Spec, X!RunsMoveForward

----------------------------------------------------------------------------
(* The job contract next to synchronous extractions                        *)

(* The finished analyses a job can have made: those of no request.         *)
JobAnalyses ==
  {a \in JP!Analyses : \A x \in Requests : extract[x].run # a[1]}

Contract == INSTANCE JobContract WITH
  state    <- JP!StateOf,
  doc      <- JP!DocsOf,
  analyses <- JobAnalyses,
  payload  <- results,
  answer   <- JP!AnswerOf,
  live     <- JP!Working

NoOverlap == "abandon" \notin FaultKinds

(* A worker's finished run is not one that a request has opened.           *)
LEMMA NewAnalysisIsOfJob ==
  ASSUME PlatformInv, JP!Next, UNCHANGED extract,
         NEW j \in Jobs, JP!Contract!NewAnalysis(j)
  PROVE  Contract!NewAnalysis(j)
<1>1. PICK a \in JP!Analyses' :
        /\ a[1] # 0 /\ a[2] = JP!DocsOf[j]
        /\ \A y \in JP!Analyses : y[1] # a[1]
        /\ JP!Analyses' = JP!Analyses \cup {a}
  BY DEF JP!Contract!NewAnalysis
<1>2. PICK r \in runs' : r.status = "COMPLETED" /\ a = <<r.id, r.doc>>
  BY <1>1 DEF JP!Analyses
<1>3. r \notin runs
  BY <1>1, <1>2 DEF JP!Analyses
<1>4. ASSUME NEW x \in Requests, extract[x].run = a[1] PROVE FALSE
  <2>1. PICK w \in Workers : r \in sess[w].runs
    BY <1>2, <1>3, JobFrame
  <2>2. Apart(extract[x].run)
    BY <1>1, <1>4 DEF PlatformInv, RunIdsApart, NoRun
  <2>3. QED
    BY <1>2, <1>4, <2>1, <2>2 DEF Apart
<1>5. JobAnalyses' = JobAnalyses \cup {a}
  BY <1>1, <1>4 DEF JobAnalyses
<1>6. QED
  BY <1>1, <1>5 DEF Contract!NewAnalysis, JobAnalyses

(* The analysis a stored result names is not one that a request has opened.*)
LEMMA PublishedIsOfJob ==
  ASSUME PlatformInv, PlatformInv', UNCHANGED extract,
         NEW j \in Jobs, JP!Contract!Publish(j)
  PROVE  Contract!Publish(j)
<1>1. PICK a \in JP!Analyses :
        a[2] = JP!DocsOf[j] /\ results' = [results EXCEPT ![j] = a[1]]
  BY DEF JP!Contract!Publish
<1>2. results'[j] = a[1]
  BY <1>1, Typed
<1>3. a[1] # NoRun
  BY <1>1 DEF JP!Analyses, PlatformInv, XP!SyncInv, XP!IdsAreUnique, XP!NoRun,
              NoRun
<1>4. \A x \in Requests : extract[x].run # a[1]
  BY <1>2, <1>3 DEF PlatformInv, RunIdsApart, Apart
<1>5. a \in JobAnalyses /\ JobAnalyses' = JobAnalyses
  BY <1>1, <1>4 DEF JobAnalyses, JP!Contract!Publish
<1>6. QED
  BY <1>1, <1>5 DEF Contract!Publish, JP!Contract!Publish

(* What a step of the job path is to the contract of that path alone, it   *)
(* is to the contract beside the other path.                               *)
LEMMA ContractJobStep ==
  ASSUME PlatformInv, PlatformInv', JP!SoloInv, JP!Next, UNCHANGED extract
  PROVE  [Contract!Next]_(Contract!cvars)
<1>1. [JP!Contract!Next]_(JP!Contract!cvars)
  BY Constants, JP!ContractStep DEF PlatformInv
<1>2. JP!Analyses' = JP!Analyses => JobAnalyses' = JobAnalyses
  BY DEF JobAnalyses
<1>3. CASE UNCHANGED JP!Contract!cvars
  BY <1>2, <1>3 DEF JP!Contract!cvars, Contract!cvars
<1>4. ASSUME NEW j \in Jobs, JP!Contract!Accept(j) PROVE Contract!Accept(j)
  BY <1>2, <1>4 DEF JP!Contract!Accept, Contract!Accept, JP!Docs, Docs
<1>5. ASSUME NEW j \in Jobs, JP!Contract!Begin(j) PROVE Contract!Begin(j)
  BY <1>2, <1>5 DEF JP!Contract!Begin, Contract!Begin
<1>6. ASSUME NEW j \in Jobs, JP!Contract!Work(j) PROVE Contract!Work(j)
  BY <1>2, <1>6 DEF JP!Contract!Work, Contract!Work
<1>7. ASSUME NEW j \in Jobs, JP!Contract!Analyse(j) PROVE Contract!Analyse(j)
  BY <1>7, NewAnalysisIsOfJob DEF JP!Contract!Analyse, Contract!Analyse
<1>8. ASSUME NEW j \in Jobs, JP!Contract!Publish(j) PROVE Contract!Publish(j)
  BY <1>8, PublishedIsOfJob
<1>9. ASSUME NEW j \in Jobs, JP!Contract!Succeed(j) PROVE Contract!Succeed(j)
  BY <1>2, <1>9 DEF JP!Contract!Succeed, Contract!Succeed
<1>10. ASSUME NEW j \in Jobs, JP!Contract!Fail(j) PROVE Contract!Fail(j)
  BY <1>2, <1>10, NewAnalysisIsOfJob DEF JP!Contract!Fail, Contract!Fail
<1>11. ASSUME NEW j \in Jobs, JP!Contract!PutDown(j) PROVE Contract!PutDown(j)
  BY <1>2, <1>11 DEF JP!Contract!PutDown, Contract!PutDown
<1>12. QED
  BY <1>1, <1>3, <1>4, <1>5, <1>6, <1>7, <1>8, <1>9, <1>10, <1>11
     DEF JP!Contract!Next, Contract!Next

(* Of what a request does the contract sees nothing: the run it opens has  *)
(* an id that no row has, and the rows it commits are under that id.       *)
LEMMA ContractRequestStep ==
  ASSUME PlatformInv, NEW x \in Requests, XP!StepOf(x), UNCHANGED jobPart
  PROVE  UNCHANGED Contract!cvars
<1>1. /\ XP!SyncInv /\ XP!SyncInv'
      /\ \A v \in Requests : v # x => extract'[v] = extract[v]
      /\ \A r : r.id # extract[x].run => (r \in runs' <=> r \in runs)
  BY RequestFrame DEF PlatformInv
<1>2. \/ extract'[x].run = extract[x].run
      \/ /\ extract[x].run = NoRun /\ extract'[x].run = runSeq + 1
         /\ runs' = runs
  BY <1>1, Constants, XP!RunStays DEF XP!NoRun, NoRun
<1>3. ASSUME NEW r
      PROVE  (r \in runs' /\ \A v \in Requests : extract'[v].run # r.id)
               <=> (r \in runs /\ \A v \in Requests : extract[v].run # r.id)
  <2>1. CASE extract'[x].run = extract[x].run
    BY <1>1, <2>1
  <2>2. CASE /\ extract[x].run = NoRun /\ extract'[x].run = runSeq + 1
             /\ runs' = runs
    <3>1. r \in runs => r.id # NoRun /\ r.id # runSeq + 1
      BY <1>1, Typed DEF XP!SyncInv, XP!IdsAreUnique, XP!NoRun, NoRun, Runs
    <3>2. QED
      BY <1>1, <2>2, <3>1
  <2>3. QED
    BY <1>2, <2>1, <2>2
<1>4. JobAnalyses' = JobAnalyses
  <2>1. JobAnalyses = {<<r.id, r.doc>> : r \in {q \in runs :
          q.status = "COMPLETED" /\ \A v \in Requests : extract[v].run # q.id}}
    BY DEF JobAnalyses, JP!Analyses
  <2>2. JobAnalyses' = {<<r.id, r.doc>> : r \in {q \in runs' :
          q.status = "COMPLETED" /\ \A v \in Requests : extract'[v].run # q.id}}
    BY DEF JobAnalyses, JP!Analyses
  <2>3. QED
    BY <1>3, <2>1, <2>2
<1>5. QED
  BY <1>4 DEF Contract!cvars, jobPart, JP!StateOf, JP!DocsOf, JP!AnswerOf,
              JP!Working, JP!Live

(* Nor do requests touch what a worker knows of its job.                   *)
LEMMA SoloNextToRequests ==
  ASSUME PlatformInv, NEW x \in Requests, XP!StepOf(x), UNCHANGED jobPart,
         JP!SoloInv
  PROVE  JP!SoloInv'
<1>1. \A w \in Workers : sess'[w] = sess[w]
  BY RequestFrame
<1>2. QED
  BY <1>1 DEF jobPart, JP!SoloInv, JP!NoOverlap, JP!OneToken, JP!InQueue,
              JP!WorkersKnow, JP!Knows, JP!FinishedRun, JP!IdleIsClean,
              JP!RowsArePlain, JP!NoRun, JP!AnswerAgrees

(* Beside requests too, a job is worked on by one worker at a time.        *)
LEMMA PlatformSolo == NoOverlap /\ Spec => [](PlatformInv /\ JP!SoloInv)
<1>1. Init /\ NoOverlap => JP!SoloInv
  <2>1. Init /\ NoOverlap => JP!Init /\ JP!NoOverlap
    BY PathsStart DEF NoOverlap, JP!NoOverlap
  <2>2. QED
    BY <2>1, Constants, JP!SoloInit
<1>2. PlatformInv /\ JP!SoloInv /\ [Next]_vars => JP!SoloInv'
  <2>1. SUFFICES ASSUME PlatformInv, JP!SoloInv, [Next]_vars
                 PROVE  JP!SoloInv'
    OBVIOUS
  <2>2. CASE J!Next
    BY <2>1, <2>2, Constants, JobSteps, JP!SoloStep DEF PlatformInv
  <2>3. CASE X!Next /\ UNCHANGED jobPart
    BY <2>1, <2>3, RequestSteps, SoloNextToRequests
  <2>4. CASE UNCHANGED vars
    <3>1. UNCHANGED JP!vars
      BY <2>4 DEF vars, jobPart, tables, JP!vars, JP!db, JP!objects, JP!rq,
                  JP!api, JP!tables
    <3>2. QED
      BY <2>1, <3>1, Constants, JP!SoloStep DEF PlatformInv
  <2>5. QED
    BY <2>1, <2>2, <2>3, <2>4 DEF Next
<1>3. QED
  BY <1>1, <1>2, PathsStayApart, PTL DEF Spec

(* The analysis_id in the job and the one in the result a client downloads *)
(* are the same, next to synchronous extractions of the same PDFs as well. *)
THEOREM AnswersAgree == NoOverlap /\ Spec => []J!AnswerAgrees
<1>1. JP!SoloInv => J!AnswerAgrees
  BY DEF JP!SoloInv, JP!AnswerAgrees, J!AnswerAgrees
<1>2. QED
  BY <1>1, PlatformSolo, PTL

(* Nor is an accepted job lost when a synchronous extraction has made the  *)
(* worker's transaction fail: RQ has it in its registry of failed jobs.    *)
THEOREM AcceptedJobsAreAtHand == JP!NoLoss /\ Spec => []JP!NothingIsLost
<1>1. Init => JP!NothingIsLost
  BY PathsStart DEF JP!Init, JP!NothingIsLost
<1>2. /\ JP!NoLoss /\ PlatformInv /\ JP!SoloInv /\ JP!NothingIsLost
      /\ [Next]_vars
      => JP!NothingIsLost'
  <2>1. SUFFICES ASSUME JP!NoLoss, PlatformInv, JP!SoloInv, JP!NothingIsLost,
                        [Next]_vars
                 PROVE  JP!NothingIsLost'
    OBVIOUS
  <2>2. CASE J!Next
    BY <2>1, <2>2, Constants, JobSteps, JP!NothingIsLostStep DEF PlatformInv
  <2>3. CASE UNCHANGED jobPart
    BY <2>1, <2>3 DEF jobPart, JP!NothingIsLost, JP!AtHand, JP!InQueue,
                      JP!Live, JP!Terminal
  <2>4. QED
    BY <2>1, <2>2, <2>3 DEF Next, vars
<1>3. JP!NoLoss => NoOverlap /\ JP!NoLoss'
  BY DEF JP!NoLoss, JP!NoOverlap, NoOverlap
<1>4. QED
  BY <1>1, <1>2, <1>3, PlatformSolo, PTL DEF Spec

(* The job API keeps its contract in the whole service: no synchronous     *)
(* extraction, though it inserts the same documents rows, writes the same  *)
(* table of runs and may fail a worker's transaction, moves a job, changes *)
(* its answer or takes back an analysis that the job has made.             *)
THEOREM ContractHolds == NoOverlap /\ Spec => Contract!Spec
<1>1. Init => Contract!Init
  <2>1. SUFFICES ASSUME Init PROVE Contract!Init
    OBVIOUS
  <2>2. JP!Contract!Init
    BY <2>1, Constants, PathsStart, JP!ContractInit
  <2>3. QED
    BY <2>2 DEF JP!Contract!Init, Contract!Init, JobAnalyses
<1>2. /\ PlatformInv /\ JP!SoloInv /\ [Next]_vars /\ PlatformInv'
      => [Contract!Next]_(Contract!cvars)
  <2>1. SUFFICES ASSUME PlatformInv, JP!SoloInv, [Next]_vars, PlatformInv'
                 PROVE  [Contract!Next]_(Contract!cvars)
    OBVIOUS
  <2>2. CASE J!Next /\ UNCHANGED extract
    BY <2>1, <2>2, JobSteps, ContractJobStep
  <2>3. CASE X!Next /\ UNCHANGED jobPart
    BY <2>1, <2>3, RequestSteps, ContractRequestStep
  <2>4. CASE UNCHANGED vars
    BY <2>4 DEF vars, jobPart, tables, Contract!cvars, JobAnalyses,
                JP!Analyses, JP!StateOf, JP!DocsOf, JP!AnswerOf, JP!Working,
                JP!Live
  <2>5. QED
    BY <2>1, <2>2, <2>3, <2>4 DEF Next
<1>3. QED
  BY <1>1, <1>2, PlatformSolo, PTL DEF Spec, Contract!Spec

----------------------------------------------------------------------------
(* What the contract is worth                                              *)

(* A job without a row has no result, and no analysis has the id 0.        *)
ContractInv ==
  /\ JP!StateOf \in [Jobs -> {"absent", "queued", "processing", "succeeded",
                              "failed"}]
  /\ results = [j \in Jobs |-> results[j]]
  /\ JP!AnswerOf = [j \in Jobs |-> JP!AnswerOf[j]]
  /\ JP!DocsOf = [j \in Jobs |-> JP!DocsOf[j]]
  /\ \A j \in Jobs : JP!StateOf[j] = "absent" => results[j] = 0
  /\ \A a \in JobAnalyses : a[1] # 0
  /\ Contract!AnswersStand
  /\ Contract!IdsTellApart

(* An analysis that appears takes none away and has an id of its own.      *)
LEMMA AnalysesGrow ==
  ASSUME ContractInv, NEW j \in Jobs,
         UNCHANGED JobAnalyses \/ Contract!NewAnalysis(j)
  PROVE  /\ JobAnalyses \subseteq JobAnalyses'
         /\ \A a \in JobAnalyses' : a[1] # 0
         /\ Contract!IdsTellApart'
BY DEF ContractInv, Contract!NewAnalysis, Contract!IdsTellApart

(* The contract keeps its own invariant.                                   *)
LEMMA ContractInvStep ==
  ASSUME ContractInv, [Contract!Next]_(Contract!cvars)
  PROVE  ContractInv'
<1> USE DEF ContractInv, Contract!AnswersStand
<1>1. CASE UNCHANGED Contract!cvars
  BY <1>1 DEF Contract!cvars, Contract!IdsTellApart
<1>2. ASSUME NEW j \in Jobs, Contract!Accept(j) PROVE ContractInv'
  BY <1>2, AnalysesGrow DEF Contract!Accept
<1>3. ASSUME NEW j \in Jobs, \/ Contract!Begin(j) \/ Contract!Work(j)
                             \/ Contract!PutDown(j)
      PROVE  ContractInv'
  BY <1>3, AnalysesGrow DEF Contract!Begin, Contract!Work, Contract!PutDown
<1>4. ASSUME NEW j \in Jobs, Contract!Analyse(j) PROVE ContractInv'
  BY <1>4, AnalysesGrow DEF Contract!Analyse
<1>5. ASSUME NEW j \in Jobs, Contract!Publish(j) PROVE ContractInv'
  BY <1>5, AnalysesGrow DEF Contract!Publish
<1>6. ASSUME NEW j \in Jobs, Contract!Succeed(j) PROVE ContractInv'
  BY <1>6, AnalysesGrow DEF Contract!Succeed
<1>7. ASSUME NEW j \in Jobs, Contract!Fail(j) PROVE ContractInv'
  BY <1>7, AnalysesGrow DEF Contract!Fail
<1>8. QED
  BY <1>1, <1>2, <1>3, <1>4, <1>5, <1>6, <1>7 DEF Contract!Next

LEMMA ContractInvInit == Contract!Init => ContractInv
BY DEF Contract!Init, ContractInv, Contract!AnswersStand,
       Contract!IdsTellApart

(* What the client has seen of the jobs is not taken back in a step.       *)
LEMMA ContractKeeps ==
  ASSUME ContractInv, NEW j \in Jobs, NEW k \in Jobs,
         \/ Contract!Accept(k) \/ Contract!Begin(k) \/ Contract!Work(k)
         \/ Contract!Analyse(k) \/ Contract!Publish(k) \/ Contract!Succeed(k)
         \/ Contract!Fail(k) \/ Contract!PutDown(k)
  PROVE  /\ Contract!Rank[JP!StateOf[j]] <= Contract!Rank[JP!StateOf'[j]]
         /\ JP!StateOf[j] # "absent" => JP!DocsOf'[j] = JP!DocsOf[j]
         /\ JP!StateOf[j] \in {"succeeded", "failed"} =>
              JP!AnswerOf'[j] = JP!AnswerOf[j] /\ results'[j] = results[j]
         /\ j \notin JP!Working /\ JP!StateOf[j] # "absent" =>
              JP!StateOf'[j] = JP!StateOf[j]
<1> USE DEF ContractInv, Contract!Rank
<1>1. CASE Contract!Accept(k)
  BY <1>1 DEF Contract!Accept
<1>2. CASE Contract!Begin(k) \/ Contract!Work(k) \/ Contract!PutDown(k)
  BY <1>2 DEF Contract!Begin, Contract!Work, Contract!PutDown
<1>3. CASE Contract!Analyse(k) \/ Contract!Publish(k)
  BY <1>3 DEF Contract!Analyse, Contract!Publish
<1>4. CASE Contract!Succeed(k)
  BY <1>4 DEF Contract!Succeed
<1>5. CASE Contract!Fail(k)
  BY <1>5 DEF Contract!Fail
<1>6. QED
  BY <1>1, <1>2, <1>3, <1>4, <1>5

(* What a client may conclude from the contract: a job reported as         *)
(* succeeded and a result it can fetch name one finished analysis, of the  *)
(* job's own document, and what it has once been told is not taken back.   *)
THEOREM ContractIsWorthIt ==
  Contract!Spec => /\ [](Contract!AnswersStand /\ Contract!IdsTellApart)
                   /\ Contract!NothingIsTakenBack
<1> DEFINE Kept ==
      /\ JobAnalyses \subseteq JobAnalyses'
      /\ \A j \in Jobs :
           /\ Contract!Rank[JP!StateOf[j]] <= Contract!Rank[JP!StateOf'[j]]
           /\ JP!StateOf[j] # "absent" => JP!DocsOf'[j] = JP!DocsOf[j]
           /\ JP!StateOf[j] \in {"succeeded", "failed"} =>
                JP!AnswerOf'[j] = JP!AnswerOf[j] /\ results'[j] = results[j]
           /\ j \notin JP!Working /\ JP!StateOf[j] # "absent" =>
                JP!StateOf'[j] = JP!StateOf[j]
<1>1. ContractInv /\ [Contract!Next]_(Contract!cvars) => ContractInv'
  BY ContractInvStep
<1>2. ContractInv => Contract!AnswersStand /\ Contract!IdsTellApart
  BY DEF ContractInv
<1>3. ContractInv /\ [Contract!Next]_(Contract!cvars)
        => [Kept]_(Contract!cvars)
  <2>1. SUFFICES ASSUME ContractInv, Contract!Next PROVE Kept
    OBVIOUS
  <2>2. JobAnalyses \subseteq JobAnalyses'
    BY <2>1, AnalysesGrow
       DEF Contract!Next, Contract!Accept, Contract!Begin, Contract!Work,
           Contract!Analyse, Contract!Publish, Contract!Succeed,
           Contract!Fail, Contract!PutDown
  <2>3. QED
    BY <2>1, <2>2, ContractKeeps DEF Contract!Next
<1>4. QED
  BY <1>1, <1>2, <1>3, ContractInvInit, PTL
     DEF Contract!Spec, Contract!NothingIsTakenBack
=============================================================================
