---------------------------- MODULE SyncExtract ----------------------------
(***************************************************************************)
(* POST /api/v1/extract (app/routes/extraction.py): the client waits while *)
(* the API process itself runs the pipeline.  The run is committed as      *)
(* PROCESSING before the work starts and is updated when it ends.          *)
(*                                                                         *)
(* The handler is an async function that never awaits once it has read the *)
(* upload, so that an API process serves one request at a time.            *)
(***************************************************************************)
EXTENDS Persistence, FiniteSets

CONSTANTS
  Requests,  \* requests to /extract
  Capacity,  \* how many API processes there are
  NoDoc      \* no document yet

ASSUME ExtractConstants == Requests \subseteq Sessions /\ Capacity \in Nat

VARIABLE
  extract    \* extract[x]: where the handler of request x is, or its reply

vars == <<tables, faults, extract>>

ExtractSteps == {"select", "insert", "begin", "process", "complete", "commit",
                 "respond", "http", "except"}

(* Status codes; "dropped" is a connection that ends without an answer.    *)
Replies == {"200", "422", "500", "502", "dropped"}

Waiting == [pc |-> "waiting", doc |-> NoDoc, found |-> FALSE, run |-> NoRun]

TypeOK ==
  /\ PersistenceTypeOK
  /\ extract \in [Requests ->
       [pc : {"waiting"} \cup ExtractSteps \cup Replies,
        doc : Docs \cup {NoDoc}, found : BOOLEAN, run : Nat]]

Init ==
  /\ PersistenceInit
  /\ extract = [x \in Requests |-> Waiting]

Goto(x, pc) == extract' = [extract EXCEPT ![x].pc = pc]

Busy == {x \in Requests : extract[x].pc \in ExtractSteps}

(* The PDF is read, validated and stored on disk by persist_pdf.           *)
Receive(x, d) ==
  /\ extract[x].pc = "waiting"
  /\ Cardinality(Busy) < Capacity
  /\ extract' = [extract EXCEPT ![x].pc = "select", ![x].doc = d]
  /\ UNCHANGED <<tables, faults>>

(* begin_analysis_for_user: the SELECT, then the two INSERTs.              *)
SelectDocument(x) ==
  /\ extract[x].pc = "select"
  /\ extract' = [extract EXCEPT ![x].pc = "insert",
                                ![x].found = extract[x].doc \in documents]
  /\ UNCHANGED <<tables, faults>>

InsertRun(x) ==
  /\ extract[x].pc = "insert"
  /\ OpenRun(x, extract[x].doc, extract[x].found)
  /\ extract' = [extract EXCEPT ![x].pc = "begin", ![x].run = runSeq + 1]
  /\ UNCHANGED faults

InsertConflicts(x) ==
  /\ extract[x].pc = "insert"
  /\ UniqueViolation(x, extract[x].doc, extract[x].found)
  /\ Goto(x, "except")
  /\ UNCHANGED faults

CommitStep(x, from, to) ==
  /\ extract[x].pc = from
  /\ CommitTables(x)
  /\ Goto(x, to)
  /\ UNCHANGED faults

BeginCommit(x) == CommitStep(x, "begin", "process")

(* Profiling, routing, preprocessing and the extraction pipeline.          *)
ProcessPdf(x) ==
  /\ extract[x].pc = "process"
  /\ \/ Goto(x, "complete")
     \/ Goto(x, "http")       \* the PDF produced zero page images
  /\ UNCHANGED <<tables, faults>>

CompleteRun(x) ==
  /\ extract[x].pc = "complete"
  /\ WriteRun(x, FinishedRun(extract[x].run, extract[x].doc))
  /\ Goto(x, "commit")
  /\ UNCHANGED faults

CompleteCommit(x) == CommitStep(x, "commit", "respond")

(* The session closes with the reply.                                      *)
Reply(x, code) == Goto(x, code) /\ CloseTables(x)

Respond(x) ==
  /\ extract[x].pc = "respond"
  /\ Reply(x, "200")
  /\ UNCHANGED faults

(* The run's row is updated and committed, then the handler answers.       *)
CloseRun(x, code, status) ==
  /\ ~sess[x].poisoned
  /\ runs' = {r \in runs : r.id # extract[x].run}
               \cup {[id |-> extract[x].run, doc |-> extract[x].doc,
                      status |-> status]}
  /\ sess' = [sess EXCEPT ![x] = FreshSession]
  /\ Goto(x, code)
  /\ UNCHANGED <<documents, runSeq>>

(* Mutant of FailRun: the run is opened again, for a retry.                *)
FailRunReopens(x, code) == CloseRun(x, code, "PROCESSING")

(* update_run_failed and its commit, in either except block.               *)
FailRun(x, code) == CloseRun(x, code, "FAILED")

(* Mutant of HandleHttp: the error is answered, the run is forgotten.      *)
HandleHttpNoUpdate(x) ==
  /\ extract[x].pc = "http"
  /\ Reply(x, "422")
  /\ UNCHANGED faults

HandleHttp(x) ==
  /\ extract[x].pc = "http"
  /\ FailRun(x, "422")
  /\ UNCHANGED faults

(* Mutants of HandleException: the run is forgotten; an error before there *)
(* is a run is not handled.                                                *)
HandleExceptionNoUpdate(x) ==
  /\ extract[x].pc = "except"
  /\ Reply(x, "502")
  /\ UNCHANGED faults

HandleExceptionOfRun(x) ==
  /\ extract[x].pc = "except"
  /\ extract[x].run # NoRun
  /\ FailRun(x, "502")
  /\ UNCHANGED faults

HandleException(x) ==
  /\ extract[x].pc = "except"
  /\ \/ extract[x].run = NoRun /\ Reply(x, "502")
     \/ extract[x].run # NoRun /\ FailRun(x, "502")
     \/ extract[x].run # NoRun /\ sess[x].poisoned /\ Reply(x, "500")
  /\ UNCHANGED faults

(* A provider, parser or sanitizer exception.                              *)
ExtractRaises(x) ==
  /\ extract[x].pc \in {"process", "complete", "respond"}
  /\ Goto(x, "except")
  /\ UNCHANGED <<tables, faults>>

(* FastAPI checks the payload against response_model after the handler has *)
(* returned, out of reach of its except blocks: a payload that does not    *)
(* fit is answered by the application's own handler of exceptions.         *)
ResponseInvalid(x) ==
  /\ extract[x].pc = "respond"
  /\ Reply(x, "500")
  /\ UNCHANGED faults

(* A database error inside the try block is handled; inside an except      *)
(* block it leaves the handler.                                            *)
ExtractDbError(x) ==
  /\ Fault("db")
  /\ \/ /\ extract[x].pc \in ExtractSteps \ {"http", "except"}
        /\ PoisonTables(x)
        /\ Goto(x, "except")
     \/ /\ extract[x].pc = "http" \/ (extract[x].pc = "except"
                                        /\ extract[x].run # NoRun)
        /\ Reply(x, "500")

ApiCrashes(x) ==
  /\ extract[x].pc \in ExtractSteps
  /\ Fault("crash")
  /\ Reply(x, "dropped")

ExtractStep(x) ==
  \/ SelectDocument(x) \/ InsertRun(x) \/ InsertConflicts(x) \/ BeginCommit(x)
  \/ ProcessPdf(x) \/ CompleteRun(x) \/ CompleteCommit(x) \/ Respond(x)
  \/ HandleHttp(x) \/ HandleException(x)

Next == \E x \in Requests :
  \/ \E d \in Docs : Receive(x, d)
  \/ ExtractStep(x) \/ ExtractRaises(x) \/ ResponseInvalid(x)
  \/ ExtractDbError(x) \/ ApiCrashes(x)

Spec == Init /\ [][Next]_vars

(* A handler that has started runs on; nobody has to send a request.       *)
Fairness == \A x \in Requests : WF_vars(ExtractStep(x))

FairSpec == Spec /\ Fairness

----------------------------------------------------------------------------
(* Properties                                                              *)

InFlight(r) == \E x \in Requests : extract[x].run = r /\ x \in Busy

(* The run and the reply agree.  A 200 carries the id of a COMPLETED run   *)
(* of the request's own document.  A 422 or a 502 leaves the run that the  *)
(* request opened, if it had come so far, FAILED, even when it had been    *)
(* committed as COMPLETED before the handler failed to build its answer.   *)
(* A 500 promises less: it comes from outside the except blocks or out of  *)
(* them.  As long as neither the database nor a process has failed, the    *)
(* run behind it is COMPLETED (only the check of the payload answers 500); *)
(* after a failure it may be PROCESSING or COMPLETED, or may never have    *)
(* been committed, and nothing is asked of it.                             *)
ReplyMatchesRun ==
  \A x \in Requests :
    /\ extract[x].pc = "200" => Backed(extract[x].run, extract[x].doc)
    /\ extract[x].pc \in {"422", "502"} /\ extract[x].run # NoRun =>
         \E r \in runs : r.id = extract[x].run /\ r.status = "FAILED"
    /\ extract[x].pc = "500" /\ faults = 0 =>
         Backed(extract[x].run, extract[x].doc)

(* A run that history shows as PROCESSING is being processed, as long as   *)
(* neither the database nor the API process has failed: the pipeline's own *)
(* errors never leave one behind.                                          *)
OpenRunsAreInFlight ==
  faults = 0 => \A r \in runs : r.status = "PROCESSING" => InFlight(r.id)

(* A committed run never goes back to PROCESSING, and a FAILED one never   *)
(* turns COMPLETED.                                                        *)
RunsMoveForward ==
  [][\A r \in runs, n \in runs' : r.id = n.id =>
       /\ n.doc = r.doc
       /\ \/ n.status = r.status
          \/ r.status = "PROCESSING"
          \/ r.status = "COMPLETED" /\ n.status = "FAILED" /\ InFlight(r.id)
     ]_vars

(* Every request received gets an answer.                                  *)
RequestsAreAnswered ==
  \A x \in Requests : x \in Busy ~> extract[x].pc \in Replies
=============================================================================
