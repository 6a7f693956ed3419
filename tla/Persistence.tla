---------------------------- MODULE Persistence ----------------------------
(***************************************************************************)
(* The two tables every extraction writes, documents and analysis_runs     *)
(* (db/models.py), and the SQLAlchemy sessions that write them             *)
(* (db/session.py, app/services/persistence.py).                           *)
(*                                                                         *)
(* A session buffers the rows it has flushed until its commit makes them   *)
(* visible.  When a flush or a commit fails, SQLAlchemy rolls the          *)
(* transaction back and refuses all further SQL on that session until      *)
(* somebody calls rollback(): no caller in this repository does, so a      *)
(* poisoned session stays so until it is closed.                           *)
(*                                                                         *)
(* faults counts the failures that have struck, whatever they struck, so   *)
(* that one bound covers every module.                                     *)
(*                                                                         *)
(* COMPLETED stands for the three statuses update_run_completed can give a *)
(* finished run (COMPLETED, NEEDS_REVIEW, AUTO_ACCEPT).                    *)
(***************************************************************************)
EXTENDS Naturals

CONSTANTS
  Users,     \* rows of users; none is ever deleted
  Files,     \* distinct PDF contents, that is, values of file_sha256
  Sessions,  \* those that own a database session: processes, requests
  FaultKinds, \* which of AllFaults may happen
  MaxFaults   \* bound: how many of them in one behaviour

AllFaults == {"db", "crash", "enqueue", "queueLoss", "timeout", "interrupt",
              "abandon", "requeue"}

ASSUME FaultConstants == FaultKinds \subseteq AllFaults /\ MaxFaults \in Nat

VARIABLES
  documents, \* committed rows of documents, as their unique key
  runs,      \* committed rows of analysis_runs
  runSeq,    \* last primary key handed out; sequences ignore rollbacks
  sess,      \* sess[s]: flushed, uncommitted rows of session s, and its health
  faults     \* failures so far

tables == <<documents, runs, runSeq, sess>>

Docs == [user : Users, file : Files]

RunStatus == {"PROCESSING", "COMPLETED", "FAILED"}

Runs == [id : Nat, doc : Docs, status : RunStatus]

NoRun == 0

(* The row update_run_completed gives the run r of document d.             *)
FinishedRun(r, d) == [id |-> r, doc |-> d, status |-> "COMPLETED"]

FreshSession == [poisoned |-> FALSE, docs |-> {}, runs |-> {}]

PoisonedSession == [poisoned |-> TRUE, docs |-> {}, runs |-> {}]

SessionStates == [poisoned : BOOLEAN, docs : SUBSET Docs, runs : SUBSET Runs]

PersistenceTypeOK ==
  /\ documents \subseteq Docs
  /\ runs \subseteq Runs
  /\ runSeq \in Nat
  /\ sess \in [Sessions -> SessionStates]
  /\ faults \in Nat

PersistenceInit ==
  /\ documents = {}
  /\ runs = {}
  /\ runSeq = 0
  /\ sess = [s \in Sessions |-> FreshSession]
  /\ faults = 0

(* A failure of kind k strikes.                                            *)
Fault(k) ==
  /\ k \in FaultKinds
  /\ faults < MaxFaults
  /\ faults' = faults + 1

----------------------------------------------------------------------------
(* An INSERT waits while another transaction holds the same unique key.    *)
KeyIsFree(s, d) == \A t \in Sessions \ {s} : d \notin sess[t].docs

(* Mutant of OpenRun: the new document row is not added to the session.    *)
OpenRunWithoutDocument(s, d, found) ==
  /\ runSeq' = runSeq + 1
  /\ sess' = [sess EXCEPT ![s].runs = @ \cup {[id |-> runSeq + 1, doc |-> d,
                                              status |-> "PROCESSING"]}]
  /\ UNCHANGED <<documents, runs>>

(* upsert_document's INSERT (skipped when its SELECT had found the row)    *)
(* and create_processing_run, both flushed in the session's transaction.   *)
OpenRun(s, d, found) ==
  /\ found \/ (KeyIsFree(s, d) /\ d \notin documents)
  /\ runSeq' = runSeq + 1
  /\ sess' = [sess EXCEPT
       ![s].docs = IF found THEN @ ELSE @ \cup {d},
       ![s].runs = @ \cup {[id |-> runSeq + 1, doc |-> d,
                            status |-> "PROCESSING"]}]
  /\ UNCHANGED <<documents, runs>>

(* The row appeared between the SELECT and the INSERT: uq_user_file_sha256 *)
(* fails the flush.                                                        *)
UniqueViolation(s, d, found) ==
  /\ ~found
  /\ KeyIsFree(s, d)
  /\ d \in documents
  /\ sess' = [sess EXCEPT ![s] = PoisonedSession]
  /\ UNCHANGED <<documents, runs, runSeq>>

(* update_run_completed and update_run_failed flush the run's new row.     *)
WriteRun(s, row) ==
  /\ sess' = [sess EXCEPT
       ![s].runs = {x \in @ : x.id # row.id} \cup {row}]
  /\ UNCHANGED <<documents, runs, runSeq>>

(* Session.commit: everything flushed since the last commit is published.  *)
CommitTables(s) ==
  /\ documents' = documents \cup sess[s].docs
  /\ runs' = {x \in runs : \A y \in sess[s].runs : y.id # x.id}
               \cup sess[s].runs
  /\ sess' = [sess EXCEPT ![s] = FreshSession]
  /\ UNCHANGED runSeq

(* Any other database error of a flush or commit.                          *)
PoisonTables(s) ==
  /\ sess' = [sess EXCEPT ![s] = PoisonedSession]
  /\ UNCHANGED <<documents, runs, runSeq>>

(* Session.close: uncommitted rows are discarded.                          *)
CloseTables(s) ==
  /\ sess' = [sess EXCEPT ![s] = FreshSession]
  /\ UNCHANGED <<documents, runs, runSeq>>

----------------------------------------------------------------------------
(* A finished analysis of document d is stored under the id r.             *)
Backed(r, d) == FinishedRun(r, d) \in runs
=============================================================================
