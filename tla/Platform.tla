------------------------------ MODULE Platform ------------------------------
(***************************************************************************)
(* The whole service: API processes that take uploads and synchronous      *)
(* extractions, workers that run jobs, and the tables they share.  Both    *)
(* paths insert the same documents rows, so that one path's commit can     *)
(* fail the other's flush.                                                 *)
(***************************************************************************)
EXTENDS Persistence, Sequences, FiniteSets

CONSTANTS Jobs, Workers, Apis, Requests, NoJob, NoDoc

VARIABLES jobs, inputs, results, queue, failedReg, accepted, upload, task,
          extract

J == INSTANCE JobLifecycle
X == INSTANCE SyncExtract WITH Capacity <- Cardinality(Apis)

ASSUME PlatformConstants ==
  /\ J!JobConstants
  /\ X!ExtractConstants
  /\ Apis \cup Workers \cup Requests = Sessions
  /\ Requests \cap (Apis \cup Workers) = {}

jobPart == <<jobs, inputs, results, queue, failedReg, accepted, upload, task>>

vars == <<tables, faults, jobPart, extract>>

Init == J!Init /\ extract = [x \in Requests |-> X!Waiting]

(* async handlers of one API process exclude each other: at any moment at  *)
(* most as many uploads and extractions are served as there are processes. *)
HandlersFit ==
  Cardinality({p \in Apis : upload[p].pc # "idle"}) + Cardinality(X!Busy)
    <= Cardinality(Apis)

Next ==
  /\ \/ J!Next /\ UNCHANGED extract
     \/ X!Next /\ UNCHANGED jobPart
  /\ HandlersFit'

Spec == Init /\ [][Next]_vars

----------------------------------------------------------------------------
TypeOK == J!TypeOK /\ X!TypeOK

(* Both paths keep their promises side by side: neither the rows one path  *)
(* commits nor the failures it provokes in the other make a job or a reply *)
(* name a run that is unfinished or of another document.                   *)
AnswersAreBacked ==
  /\ J!ResultsOwned
  /\ J!SucceededIsBacked
  /\ X!ReplyMatchesRun

(* Any two committed runs have different ids, and every run's document row *)
(* is committed, whichever path inserted it; both keep to the statuses and *)
(* keys the tables admit.                                                  *)
TablesAreConsistent ==
  /\ TypeOK
  /\ \A r, q \in runs : r.id = q.id => r = q
  /\ \A r \in runs : r.doc \in documents

(* An execution that RQ saw end in an error has left its job terminal:     *)
(* tests/test_worker.py expects it of the worker's except block.           *)
FailuresRecorded == J!FailuresRecorded
=============================================================================
