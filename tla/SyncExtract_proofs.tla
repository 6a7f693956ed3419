------------------------- MODULE SyncExtract_proofs -------------------------
(***************************************************************************)
(* Proofs about SyncExtract, for any numbers of requests, API processes,   *)
(* users, files and failures.                                              *)
(***************************************************************************)
EXTENDS SyncExtract, TLAPS

Handlers == [pc : {"waiting"} \cup ExtractSteps \cup Replies,
             doc : Docs \cup {NoDoc}, found : BOOLEAN, run : Nat]

RunsOf(x) == {r \in runs : r.id = extract[x].run}

RunRow(e, status) == [id |-> e.run, doc |-> e.doc, status |-> status]

(* What the handler in state e, with session s, knows of its own run: R    *)
(* are the committed rows under its id.                                    *)
Handled(e, s, R, failures) ==
  /\ e.pc \notin {"begin", "commit"} => s.runs = {}
  /\ e.pc \in {"waiting", "select", "insert"} => e.run = NoRun
  /\ e.pc \notin {"waiting"} => e.doc \in Docs
  /\ e.pc \in {"begin", "process", "complete", "http", "commit", "respond"}
       => e.run # NoRun
  /\ e.pc = "begin" => R = {} /\ s.runs = {RunRow(e, "PROCESSING")}
  /\ e.pc \in {"process", "complete", "http", "commit"}
       => R = {RunRow(e, "PROCESSING")}
  /\ e.pc = "commit" => s.runs = {RunRow(e, "COMPLETED")}
  /\ e.pc \in {"respond", "200"} => R = {RunRow(e, "COMPLETED")}
  /\ e.pc = "except" =>
       /\ R \in {{}, {RunRow(e, "PROCESSING")}, {RunRow(e, "COMPLETED")}}
       /\ s.poisoned \/ e.run = NoRun \/ R # {}
  /\ e.pc \in {"422", "502"} /\ e.run # NoRun => R = {RunRow(e, "FAILED")}
  /\ s.poisoned => /\ e.pc = "except"
                   /\ e.run # NoRun => failures # 0
  /\ e.pc = "500" => failures # 0 \/ R = {RunRow(e, "COMPLETED")}
  /\ e.pc = "dropped" => failures # 0

AllHandled ==
  \A x \in Requests : Handled(extract[x], sess[x], RunsOf(x), faults)

(* Every row of analysis_runs has an id of its own, and so has every       *)
(* request that has opened a run.                                          *)
IdsAreUnique ==
  /\ \A r \in runs : /\ r.id # NoRun
                     /\ r.id <= runSeq
                     /\ \A n \in runs : r.id = n.id => r = n
  /\ \A x \in Requests :
       /\ extract[x].run <= runSeq
       /\ \A z \in Requests : x # z /\ extract[x].run # NoRun
                                => extract[x].run # extract[z].run

SyncInv == TypeOK /\ AllHandled /\ IdsAreUnique

(* Where nothing but /extract writes the tables, a run belongs to one of   *)
(* its requests.                                                           *)
RunsHaveRequests == \A r \in runs : \E x \in Requests : extract[x].run = r.id

LEMMA SyncInit == Init => SyncInv
<1>1. SUFFICES ASSUME Init PROVE SyncInv
  OBVIOUS
<1>2. TypeOK
  BY <1>1 DEF Init, PersistenceInit, TypeOK, PersistenceTypeOK, Waiting,
              SessionStates, FreshSession, NoRun
<1>3. IdsAreUnique
  BY <1>1 DEF Init, PersistenceInit, IdsAreUnique, Waiting, NoRun
<1>4. AllHandled
  BY <1>1, ExtractConstants
     DEF Init, PersistenceInit, AllHandled, Handled, Waiting, FreshSession,
         NoRun
<1>5. QED
  BY <1>2, <1>3, <1>4 DEF SyncInv

(* A step of the handler of request x.                                     *)
StepOf(x) ==
  \/ \E d \in Docs : Receive(x, d)
  \/ ExtractStep(x) \/ ExtractRaises(x) \/ ResponseInvalid(x)
  \/ ExtractDbError(x) \/ ApiCrashes(x)

(* What a step of x can do to documents, runs and sessions.                *)
LEMMA TablesChange ==
  ASSUME SyncInv, NEW x \in Requests, StepOf(x)
  PROVE  \/ UNCHANGED tables
         \/ OpenRun(x, extract[x].doc, extract[x].found)
              /\ extract[x].pc = "insert"
         \/ WriteRun(x, FinishedRun(extract[x].run, extract[x].doc))
              /\ extract[x].pc = "complete"
         \/ CommitTables(x) /\ extract[x].pc \in {"begin", "commit"}
         \/ PoisonTables(x)
         \/ CloseTables(x)
         \/ /\ CloseRun(x, extract'[x].pc, "FAILED")
            /\ extract[x].pc \in {"http", "except"}
            /\ \/ extract[x].pc = "http"
               \/ extract[x].run # NoRun
<1>1. extract \in [Requests -> Handlers]
  BY DEF SyncInv, TypeOK, Handlers
<1>2. QED
  BY <1>1 DEF StepOf, ExtractStep, Receive, SelectDocument, InsertRun,
       InsertConflicts, UniqueViolation, PoisonTables, BeginCommit, CommitStep,
       ProcessPdf, CompleteRun, CompleteCommit, Respond, Reply, HandleHttp,
       FailRun, CloseRun, Goto, HandleException, ExtractRaises,
       ResponseInvalid, ExtractDbError,
       ApiCrashes, tables, Handlers

LEMMA Typed ==
  ASSUME SyncInv, NEW x \in Requests
  PROVE  /\ extract \in [Requests -> Handlers] /\ extract[x] \in Handlers
         /\ sess \in [Sessions -> SessionStates]
         /\ x \in Sessions /\ sess[x] \in SessionStates
         /\ runs \subseteq Runs /\ runSeq \in Nat
         /\ Handled(extract[x], sess[x], RunsOf(x), faults)
BY ExtractConstants
   DEF SyncInv, TypeOK, PersistenceTypeOK, Handlers, AllHandled

(* What x has flushed is its own run.                                      *)
LEMMA PendingIsOwn ==
  ASSUME SyncInv, NEW x \in Requests, NEW y \in sess[x].runs
  PROVE  y.id = extract[x].run /\ y.doc = extract[x].doc /\ y.id # NoRun
<1>1. Handled(extract[x], sess[x], RunsOf(x), faults)
  BY Typed
<1>2. \A status : /\ RunRow(extract[x], status).id = extract[x].run
                  /\ RunRow(extract[x], status).doc = extract[x].doc
  BY DEF RunRow
<1>3. QED
  BY <1>1, <1>2 DEF Handled

(* A step of x touches no rows but those under its own run id, and no      *)
(* session but its own.                                                    *)
LEMMA OthersUntouched ==
  ASSUME SyncInv, NEW x \in Requests, StepOf(x)
  PROVE  /\ \A v \in Requests : v # x => extract'[v] = extract[v]
         /\ \A s \in Sessions : s # x => sess'[s] = sess[s]
         /\ \A r : r.id # extract[x].run => (r \in runs' <=> r \in runs)
<1>1. /\ extract \in [Requests -> Handlers]
      /\ sess \in [Sessions -> SessionStates] /\ x \in Sessions
  BY Typed
<1>2. \A v \in Requests : v # x => extract'[v] = extract[v]
  BY <1>1 DEF StepOf, ExtractStep, Receive, SelectDocument, InsertRun,
       InsertConflicts, BeginCommit, CommitStep, ProcessPdf, CompleteRun,
       CompleteCommit, Respond, Reply, HandleHttp, FailRun, CloseRun, Goto,
       HandleException, ExtractRaises,
       ResponseInvalid, ExtractDbError, ApiCrashes
<1>3. \A s \in Sessions : s # x => sess'[s] = sess[s]
  BY <1>1, TablesChange
     DEF tables, OpenRun, WriteRun, CommitTables, PoisonTables, CloseTables,
         CloseRun
<1>4. ASSUME NEW r, r.id # extract[x].run
      PROVE  r \in runs' <=> r \in runs
  <2>1. CASE CommitTables(x)
    <3>1. runs' = {z \in runs : \A y \in sess[x].runs : y.id # z.id}
                    \cup sess[x].runs
      BY <2>1 DEF CommitTables
    <3>2. \A y \in sess[x].runs : y.id = extract[x].run
      BY PendingIsOwn
    <3>3. QED
      BY <1>4, <3>1, <3>2
  <2>2. ASSUME NEW code, CloseRun(x, code, "FAILED")
        PROVE  r \in runs' <=> r \in runs
    BY <1>4, <2>2 DEF CloseRun
  <2>3. runs' = runs => (r \in runs' <=> r \in runs)
    OBVIOUS
  <2>4. QED
    BY <2>1, <2>2, <2>3, TablesChange
       DEF tables, OpenRun, WriteRun, PoisonTables, CloseTables
<1>5. QED
  BY <1>2, <1>3, <1>4

(* The rows under the run id of x after a step of x.                       *)
LEMMA OwnRuns ==
  ASSUME SyncInv, NEW x \in Requests, NEW e, e.run = extract[x].run
  PROVE  /\ CommitTables(x) /\ sess[x].runs # {} =>
              {r \in runs' : r.id = e.run} = sess[x].runs
         /\ \A code, status : CloseRun(x, code, status) =>
              {r \in runs' : r.id = e.run} = {RunRow(extract[x], status)}
         /\ runs' = runs => {r \in runs' : r.id = e.run} = RunsOf(x)
<1>1. ASSUME CommitTables(x), sess[x].runs # {}
      PROVE  {r \in runs' : r.id = e.run} = sess[x].runs
  <2>1. \A y \in sess[x].runs : y.id = e.run
    BY PendingIsOwn
  <2>2. runs' = {r \in runs : \A y \in sess[x].runs : y.id # r.id}
                  \cup sess[x].runs
    BY <1>1 DEF CommitTables
  <2>3. QED
    BY <1>1, <2>1, <2>2
<1>2. ASSUME NEW code, NEW status, CloseRun(x, code, status)
      PROVE  {r \in runs' : r.id = e.run} = {RunRow(extract[x], status)}
  <2> DEFINE row == RunRow(extract[x], status)
  <2>1. /\ runs' = {r \in runs : r.id # extract[x].run} \cup {row}
        /\ row.id = extract[x].run
    BY <1>2 DEF CloseRun, RunRow
  <2> HIDE DEF row
  <2>2. \A r : r \in runs' /\ r.id = e.run <=> r = row
    BY <2>1
  <2>3. row \in runs'
    BY <2>1
  <2>4. {r \in runs' : r.id = e.run} = {row}
    BY <2>2, <2>3
  <2>5. QED
    BY <2>4 DEF row
<1>3. QED
  BY <1>1, <1>2 DEF RunsOf

LEMMA OwnHandled ==
  ASSUME SyncInv, NEW x \in Requests, StepOf(x)
  PROVE  Handled(extract'[x], sess'[x], RunsOf(x)', faults')
<1> DEFINE e == extract[x]
           s == sess[x]
           R == RunsOf(x)
           Goal == Handled(extract'[x], sess'[x], RunsOf(x)', faults')
<1>1. /\ extract \in [Requests -> Handlers] /\ e \in Handlers
      /\ sess \in [Sessions -> SessionStates]
      /\ x \in Sessions /\ s \in SessionStates
      /\ runs \subseteq Runs /\ runSeq \in Nat
      /\ Handled(e, s, R, faults)
  BY Typed
<1>2. RunsOf(x)' = {r \in runs' : r.id = extract'[x].run}
  BY DEF RunsOf
<1>3. runs' = runs /\ extract'[x].run = e.run => RunsOf(x)' = R
  BY DEF RunsOf
<1>4. \A pc, status :
        RunRow([e EXCEPT !.pc = pc], status) = RunRow(e, status)
  BY <1>1 DEF RunRow, Handlers
<1>4a. \A pc : extract'[x] = [e EXCEPT !.pc = pc] =>
          /\ extract'[x].pc = pc /\ extract'[x].doc = e.doc
          /\ extract'[x].run = e.run
          /\ \A status : RunRow(extract'[x], status) = RunRow(e, status)
  BY <1>1 DEF RunRow, Handlers
<1>5. ASSUME NEW d \in Docs, Receive(x, d) PROVE Goal
  <2>1. /\ e.pc = "waiting" /\ extract'[x].pc = "select"
        /\ extract'[x].doc = d /\ extract'[x].run = e.run
        /\ sess' = sess /\ runs' = runs /\ faults' = faults
    BY <1>1, <1>5 DEF Receive, Handlers, tables
  <2>2. QED
    BY <1>1, <1>3, <2>1 DEF Handled
<1>6. CASE SelectDocument(x)
  <2>1. /\ e.pc = "select" /\ extract'[x].pc = "insert"
        /\ extract'[x].doc = e.doc /\ extract'[x].run = e.run
        /\ sess' = sess /\ runs' = runs /\ faults' = faults
    BY <1>1, <1>6 DEF SelectDocument, Handlers, tables
  <2>2. QED
    BY <1>1, <1>3, <2>1 DEF Handled
<1>7. CASE InsertRun(x)
  <2> DEFINE row == [id |-> runSeq + 1, doc |-> e.doc, status |-> "PROCESSING"]
  <2>1. /\ e.pc = "insert" /\ extract'[x].pc = "begin"
        /\ extract'[x].doc = e.doc /\ extract'[x].run = runSeq + 1
        /\ runs' = runs /\ faults' = faults
        /\ sess'[x].runs = s.runs \cup {row}
        /\ sess'[x].poisoned = s.poisoned
    BY <1>1, <1>7 DEF InsertRun, OpenRun, Handlers, SessionStates
  <2>2. row = RunRow(extract'[x], "PROCESSING")
    BY <2>1 DEF RunRow
  <2>3. \A r \in runs : r.id # runSeq + 1
    BY <1>1 DEF SyncInv, IdsAreUnique, Runs
  <2>4. RunsOf(x)' = {}
    BY <1>2, <2>1, <2>3
  <2>5. s.runs = {} /\ runSeq + 1 # NoRun /\ e.doc \in Docs /\ ~s.poisoned
    BY <1>1, <2>1 DEF Handled, NoRun
  <2> HIDE DEF row
  <2>6. QED
    BY <2>1, <2>2, <2>4, <2>5 DEF Handled
<1>8. CASE InsertConflicts(x)
  <2>1. /\ e.pc = "insert" /\ extract'[x].pc = "except"
        /\ extract'[x].doc = e.doc /\ extract'[x].run = e.run
        /\ runs' = runs /\ faults' = faults
        /\ sess'[x] = PoisonedSession
    BY <1>1, <1>8 DEF InsertConflicts, UniqueViolation, Goto, Handlers
  <2>2. R = {}
    BY <1>1, <2>1 DEF Handled, RunsOf, SyncInv, IdsAreUnique
  <2>3. QED
    BY <1>1, <1>3, <2>1, <2>2 DEF Handled, PoisonedSession
<1>9. CASE BeginCommit(x)
  <2>1. /\ e.pc = "begin" /\ extract'[x] = [e EXCEPT !.pc = "process"]
        /\ CommitTables(x) /\ faults' = faults
        /\ sess'[x] = FreshSession
    BY <1>1, <1>9 DEF BeginCommit, CommitStep, CommitTables, Goto
  <2>2. s.runs = {RunRow(e, "PROCESSING")}
    BY <1>1, <2>1 DEF Handled
  <2>3. RunsOf(x)' = s.runs
    BY <1>1, <1>2, <2>1, <2>2, OwnRuns DEF Handlers
  <2>4. e.doc \in Docs /\ e.run # NoRun
    BY <1>1, <2>1 DEF Handled
  <2>5. /\ extract'[x].pc = "process" /\ extract'[x].doc = e.doc
        /\ extract'[x].run = e.run
        /\ RunsOf(x)' = {RunRow(extract'[x], "PROCESSING")}
    BY <1>4a, <2>1, <2>2, <2>3
  <2>6. QED
    BY <2>1, <2>4, <2>5 DEF Handled, FreshSession
<1>10. CASE ProcessPdf(x)
  <2>1. PICK pc \in {"complete", "http"} :
          extract'[x] = [e EXCEPT !.pc = pc]
    BY <1>1, <1>10 DEF ProcessPdf, Goto
  <2>2. e.pc = "process" /\ sess' = sess /\ runs' = runs /\ faults' = faults
    BY <1>10 DEF ProcessPdf, tables
  <2>3. /\ R = {RunRow(e, "PROCESSING")} /\ s.runs = {} /\ ~s.poisoned
        /\ e.doc \in Docs /\ e.run # NoRun
    BY <1>1, <2>2 DEF Handled
  <2>4. /\ extract'[x].pc = pc /\ extract'[x].doc = e.doc
        /\ extract'[x].run = e.run
        /\ RunsOf(x)' = {RunRow(extract'[x], "PROCESSING")}
    BY <1>3, <1>4a, <2>1, <2>2, <2>3
  <2>5. QED
    BY <2>2, <2>3, <2>4 DEF Handled
<1>11. CASE CompleteRun(x)
  <2> DEFINE row == FinishedRun(e.run, e.doc)
  <2>1. /\ e.pc = "complete" /\ extract'[x] = [e EXCEPT !.pc = "commit"]
        /\ runs' = runs /\ faults' = faults
        /\ sess'[x].runs = {z \in s.runs : z.id # row.id} \cup {row}
        /\ sess'[x].poisoned = s.poisoned
    BY <1>1, <1>11 DEF CompleteRun, WriteRun, Goto, SessionStates
  <2>2. sess'[x].runs = {row} /\ row = RunRow(e, "COMPLETED")
    BY <1>1, <2>1 DEF Handled, RunRow, FinishedRun
  <2> HIDE DEF row
  <2>3. QED
    BY <1>1, <1>3, <1>4, <2>1, <2>2 DEF Handled, Handlers
<1>12. CASE CompleteCommit(x)
  <2>1. /\ e.pc = "commit" /\ extract'[x] = [e EXCEPT !.pc = "respond"]
        /\ CommitTables(x) /\ faults' = faults
        /\ sess'[x] = FreshSession
    BY <1>1, <1>12 DEF CompleteCommit, CommitStep, CommitTables, Goto
  <2>2. s.runs = {RunRow(e, "COMPLETED")}
    BY <1>1, <2>1 DEF Handled
  <2>3. RunsOf(x)' = s.runs
    BY <1>1, <1>2, <2>1, <2>2, OwnRuns DEF Handlers
  <2>4. e.doc \in Docs
    BY <1>1, <2>1 DEF Handled
  <2>5. /\ extract'[x].pc = "respond" /\ extract'[x].doc = e.doc
        /\ extract'[x].run = e.run /\ extract'[x].run # NoRun
        /\ RunsOf(x)' = {RunRow(extract'[x], "COMPLETED")}
    BY <1>1, <1>4a, <2>1, <2>2, <2>3 DEF Handled
  <2>6. QED
    BY <2>1, <2>4, <2>5 DEF Handled, FreshSession
<1>13. CASE Respond(x)
  <2>1. /\ e.pc = "respond" /\ extract'[x] = [e EXCEPT !.pc = "200"]
        /\ runs' = runs /\ faults' = faults /\ sess'[x] = FreshSession
    BY <1>1, <1>13 DEF Respond, Reply, CloseTables, Goto
  <2>2. QED
    BY <1>1, <1>3, <1>4, <2>1 DEF Handled, FreshSession, Handlers
(* Either except block updates the run and answers.                        *)
<1>14. ASSUME NEW code \in {"422", "502"}, FailRun(x, code), faults' = faults,
              e.pc \in {"http", "except"}
       PROVE  Goal
  <2>1. /\ extract'[x] = [e EXCEPT !.pc = code]
        /\ sess'[x] = FreshSession
        /\ CloseRun(x, code, "FAILED")
    BY <1>1, <1>14 DEF FailRun, CloseRun, Goto
  <2>2. RunsOf(x)' = {RunRow(e, "FAILED")}
    BY <1>1, <1>2, <2>1, OwnRuns DEF Handlers
  <2>3. QED
    <3>1. /\ extract'[x].pc = code /\ extract'[x].doc = e.doc
          /\ extract'[x].run = e.run /\ e.doc \in Docs
          /\ RunRow(extract'[x], "FAILED") = RunRow(e, "FAILED")
      BY <1>1, <1>14, <2>1 DEF Handled, Handlers, RunRow
    <3>2. QED
      BY <1>14, <2>1, <2>2, <3>1 DEF Handled, FreshSession
(* The handler ends without the run being updated.                         *)
<1>15. ASSUME NEW code \in {"502", "500", "dropped"}, Reply(x, code),
              e.pc \in ExtractSteps,
              code = "502" => e.run = NoRun,
              code # "502" => faults' # 0
       PROVE  Goal
  <2>1. /\ extract'[x] = [e EXCEPT !.pc = code]
        /\ sess'[x] = FreshSession /\ runs' = runs
    BY <1>1, <1>15 DEF Reply, CloseTables, Goto
  <2>2. QED
    BY <1>1, <1>15, <2>1 DEF Handled, FreshSession, Handlers, ExtractSteps
<1>16. CASE HandleHttp(x)
  BY <1>14, <1>16 DEF HandleHttp
<1>17. CASE HandleException(x)
  BY <1>1, <1>14, <1>15, <1>17 DEF HandleException, ExtractSteps, Handled
<1>18. CASE ExtractRaises(x)
  <2>1. /\ e.pc \in {"process", "complete", "respond"}
        /\ extract'[x] = [e EXCEPT !.pc = "except"]
        /\ sess' = sess /\ runs' = runs /\ faults' = faults
    BY <1>1, <1>18 DEF ExtractRaises, Goto, tables
  <2>2. /\ R \in {{RunRow(e, "PROCESSING")}, {RunRow(e, "COMPLETED")}}
        /\ s.runs = {} /\ ~s.poisoned /\ e.doc \in Docs
    BY <1>1, <2>1 DEF Handled
  <2>3. /\ extract'[x].pc = "except" /\ extract'[x].doc = e.doc
        /\ extract'[x].run = e.run /\ RunsOf(x)' = R
        /\ \A status : RunRow(extract'[x], status) = RunRow(e, status)
    BY <1>3, <1>4a, <2>1
  <2>4. QED
    BY <2>1, <2>2, <2>3 DEF Handled
<1>18a. CASE ResponseInvalid(x)
  <2>1. /\ e.pc = "respond" /\ extract'[x] = [e EXCEPT !.pc = "500"]
        /\ runs' = runs /\ sess'[x] = FreshSession
    BY <1>1, <1>18a DEF ResponseInvalid, Reply, CloseTables, Goto
  <2>2. QED
    BY <1>1, <1>3, <1>4, <2>1 DEF Handled, FreshSession, Handlers
<1>19. CASE ExtractDbError(x)
  <2>1. faults' # 0
    BY <1>19 DEF ExtractDbError, Fault, SyncInv, TypeOK, PersistenceTypeOK
  <2>2. CASE PoisonTables(x) /\ Goto(x, "except")
               /\ e.pc \in ExtractSteps \ {"http", "except"}
    <3>1. /\ extract'[x] = [e EXCEPT !.pc = "except"]
          /\ sess'[x] = PoisonedSession /\ runs' = runs
      BY <1>1, <2>2 DEF PoisonTables, Goto
    <3>2. R \in {{}, {RunRow(e, "PROCESSING")}, {RunRow(e, "COMPLETED")}}
      <4>1. e.run = NoRun => R = {}
        BY DEF SyncInv, IdsAreUnique, RunsOf
      <4>2. QED
        BY <1>1, <2>2, <4>1 DEF Handled, ExtractSteps
    <3>3. QED
      BY <1>1, <1>3, <1>4, <2>1, <2>2, <3>1, <3>2
         DEF Handled, Handlers, PoisonedSession, ExtractSteps
  <2>3. QED
    BY <1>15, <1>19, <2>1, <2>2 DEF ExtractDbError, ExtractSteps
<1>20. CASE ApiCrashes(x)
  <2>1. faults' # 0
    BY <1>20 DEF ApiCrashes, Fault, SyncInv, TypeOK, PersistenceTypeOK
  <2>2. QED
    BY <1>15, <1>20, <2>1 DEF ApiCrashes
<1>21. QED
  BY <1>5, <1>6, <1>7, <1>8, <1>9, <1>10, <1>11, <1>12, <1>13, <1>16, <1>17,
     <1>18, <1>18a, <1>19, <1>20 DEF StepOf, ExtractStep

(* A handler has one run in its life, opened by InsertRun.                 *)
LEMMA RunStays ==
  ASSUME SyncInv, NEW x \in Requests, StepOf(x)
  PROVE  \/ extract'[x].run = extract[x].run /\ runSeq' = runSeq
         \/ /\ extract[x].run = NoRun /\ extract'[x].run = runSeq + 1
            /\ runSeq' = runSeq + 1 /\ runs' = runs
<1>1. /\ extract \in [Requests -> Handlers]
      /\ Handled(extract[x], sess[x], RunsOf(x), faults)
  BY Typed
<1>2. CASE InsertRun(x)
  BY <1>1, <1>2 DEF InsertRun, OpenRun, Handlers, Handled
<1>3. ASSUME ~InsertRun(x) PROVE extract'[x].run = extract[x].run
  BY <1>1, <1>3 DEF StepOf, ExtractStep, Receive, SelectDocument,
       InsertConflicts, BeginCommit, CommitStep, ProcessPdf, CompleteRun,
       CompleteCommit, Respond, Reply, HandleHttp, FailRun, CloseRun, Goto,
       HandleException, ExtractRaises,
       ResponseInvalid, ExtractDbError, ApiCrashes, Handlers
<1>4. ASSUME ~InsertRun(x) PROVE runSeq' = runSeq
  BY <1>4 DEF StepOf, ExtractStep, Receive, SelectDocument,
       InsertConflicts, UniqueViolation, BeginCommit, CommitStep, CommitTables,
       ProcessPdf, CompleteRun, WriteRun, CompleteCommit, Respond, Reply,
       CloseTables, HandleHttp, FailRun, CloseRun, HandleException,
       ExtractRaises,
       ResponseInvalid, ExtractDbError, PoisonTables, ApiCrashes, tables
<1>5. QED
  BY <1>2, <1>3, <1>4

(* After a step of x, at most one row has the run id it had.               *)
LEMMA OwnRowIsUnique ==
  ASSUME SyncInv, NEW x \in Requests, StepOf(x),
         NEW r \in runs', r.id = extract[x].run
  PROVE  /\ r.id # NoRun
         /\ \A n \in runs' : n.id = r.id => n = r
<1> DEFINE e == extract[x]
           Own == {n \in runs' : n.id = e.run}
<1>1. Handled(e, sess[x], RunsOf(x), faults)
  BY Typed
<1>2. CASE runs' = runs
  BY <1>2 DEF SyncInv, IdsAreUnique
<1>3. CASE CommitTables(x) /\ e.pc \in {"begin", "commit"}
  <2>1. PICK status : sess[x].runs = {RunRow(e, status)}
    BY <1>1, <1>3 DEF Handled
  <2>2. Own = {RunRow(e, status)}
    BY <1>3, <2>1, OwnRuns
  <2>3. e.run # NoRun
    BY <1>1, <1>3 DEF Handled
  <2>4. r.id = e.run
    OBVIOUS
  <2> HIDE DEF e
  <2>5. QED
    BY <2>2, <2>3, <2>4
<1>4. ASSUME NEW code, CloseRun(x, code, "FAILED"),
             e.pc \in {"http", "except"}, (e.pc = "http" \/ e.run # NoRun)
      PROVE  r.id # NoRun /\ \A n \in runs' : n.id = r.id => n = r
  <2>1. Own = {RunRow(e, "FAILED")}
    BY <1>4, OwnRuns
  <2>2. e.run # NoRun
    BY <1>1, <1>4 DEF Handled
  <2>3. r.id = e.run
    OBVIOUS
  <2> HIDE DEF e
  <2>4. QED
    BY <2>1, <2>2, <2>3
<1>5. QED
  BY <1>2, <1>3, <1>4, TablesChange
     DEF tables, OpenRun, WriteRun, PoisonTables, CloseTables

LEMMA IdsStep ==
  ASSUME SyncInv, NEW x \in Requests, StepOf(x)
  PROVE  IdsAreUnique'
<1>1. /\ extract \in [Requests -> Handlers] /\ runSeq \in Nat
      /\ IdsAreUnique
      /\ \A v \in Requests : extract[v].run \in Nat
  BY Typed DEF SyncInv, Handlers
<1>2. /\ \A v \in Requests : v # x => extract'[v] = extract[v]
      /\ \A r : r.id # extract[x].run => (r \in runs' <=> r \in runs)
  BY OthersUntouched
<1>3. ASSUME NEW r \in runs'
      PROVE  /\ r.id # NoRun
             /\ r.id <= runSeq
             /\ \A n \in runs' : r.id = n.id => r = n
  <2>1. CASE r.id = extract[x].run
    BY <1>1, <2>1, OwnRowIsUnique DEF IdsAreUnique
  <2>2. CASE r.id # extract[x].run
    <3>1. r \in runs /\ \A n \in runs' : r.id = n.id => n \in runs
      BY <1>2, <2>2
    <3>2. QED
      BY <1>1, <3>1 DEF IdsAreUnique
  <2>3. QED
    BY <2>1, <2>2
<1>4. CASE extract'[x].run = extract[x].run /\ runSeq' = runSeq
  BY <1>1, <1>2, <1>3, <1>4 DEF IdsAreUnique
<1>5. CASE extract'[x].run = runSeq + 1 /\ runSeq' = runSeq + 1
  <2>1. \A v \in Requests : extract[v].run <= runSeq
    BY <1>1 DEF IdsAreUnique
  <2>2. /\ \A v \in Requests : extract'[v].run <= runSeq'
        /\ \A v \in Requests : v # x => extract'[v].run # extract'[x].run
    BY <1>1, <1>2, <1>5, <2>1
  <2>3. \A r \in runs' : r.id <= runSeq'
    <3>1. \A r \in runs' : r \in runs \/ r.id = extract[x].run
      BY <1>2
    <3>2. \A r \in runs' : r.id \in Nat
      BY <1>1, <3>1, Typed DEF Runs
    <3>3. QED
      BY <1>1, <1>3, <1>5, <3>2
  <2>4. QED
    BY <1>1, <1>2, <1>3, <2>2, <2>3 DEF IdsAreUnique
<1>6. QED
  BY <1>4, <1>5, RunStays

LEMMA HandledStep ==
  ASSUME SyncInv, NEW x \in Requests, StepOf(x)
  PROVE  AllHandled'
<1>1. SUFFICES ASSUME NEW v \in Requests, v # x
               PROVE  Handled(extract'[v], sess'[v], RunsOf(v)', faults')
  BY OwnHandled DEF AllHandled, Handled, RunsOf, RunRow
<1>2. /\ extract'[v] = extract[v] /\ sess'[v] = sess[v]
      /\ \A r : r.id # extract[x].run => (r \in runs' <=> r \in runs)
      /\ Handled(extract[v], sess[v], RunsOf(v), faults)
  BY <1>1, OthersUntouched, Typed
<1>3. RunsOf(v)' = RunsOf(v)
  <2>1. CASE extract[v].run = NoRun
    <3>1. RunsOf(v) = {}
      BY <2>1 DEF SyncInv, IdsAreUnique, RunsOf
    <3>2. RunsOf(v)' = {}
      BY <1>2, <2>1, IdsStep DEF IdsAreUnique, RunsOf
    <3>3. QED
      BY <3>1, <3>2
  <2>2. CASE extract[v].run # NoRun
    <3>1. extract[v].run # extract[x].run
      BY <1>1, <2>2 DEF SyncInv, IdsAreUnique
    <3>2. QED
      BY <1>2, <3>1 DEF RunsOf
  <2>3. QED
    BY <2>1, <2>2
<1>4. faults # 0 => faults' # 0
  BY DEF StepOf, ExtractStep, Receive, SelectDocument, InsertRun,
     InsertConflicts, BeginCommit, CommitStep, ProcessPdf, CompleteRun,
     CompleteCommit, Respond, HandleHttp, HandleException, ExtractRaises,
     ResponseInvalid,
     ExtractDbError, ApiCrashes, Fault, SyncInv, TypeOK, PersistenceTypeOK
<1>5. QED
  BY <1>2, <1>3, <1>4 DEF Handled

LEMMA TablesTyped ==
  ASSUME SyncInv, NEW x \in Requests, StepOf(x)
  PROVE  /\ documents' \subseteq Docs /\ runs' \subseteq Runs
         /\ runSeq' \in Nat
         /\ sess' \in [Sessions -> SessionStates]
<1>1. /\ documents \subseteq Docs /\ runs \subseteq Runs /\ runSeq \in Nat
      /\ sess \in [Sessions -> SessionStates] /\ x \in Sessions
      /\ sess[x] \in SessionStates
      /\ sess[x].docs \subseteq Docs /\ sess[x].runs \subseteq Runs
      /\ extract[x] \in Handlers
      /\ extract[x].pc \notin {"waiting"} => extract[x].doc \in Docs
  BY Typed DEF SyncInv, TypeOK, PersistenceTypeOK, SessionStates, Handled
<1>2. FreshSession \in SessionStates /\ PoisonedSession \in SessionStates
  BY DEF FreshSession, PoisonedSession, SessionStates
<1>3. ASSUME NEW status \in RunStatus, NEW i \in Nat,
             extract[x].doc \in Docs
      PROVE  [id |-> i, doc |-> extract[x].doc, status |-> status] \in Runs
  BY <1>3 DEF Runs
<1>4. ASSUME NEW D \in SUBSET Docs, NEW R \in SUBSET Runs
      PROVE  [sess[x] EXCEPT !.docs = D, !.runs = R] \in SessionStates
  BY <1>1, <1>4 DEF SessionStates
<1>5. CASE UNCHANGED tables
  BY <1>1, <1>5 DEF tables
<1>6. CASE OpenRun(x, extract[x].doc, extract[x].found)
             /\ extract[x].pc = "insert"
  <2> DEFINE d == extract[x].doc
             D == IF extract[x].found THEN sess[x].docs
                  ELSE sess[x].docs \cup {d}
             R == sess[x].runs \cup {[id |-> runSeq + 1, doc |-> d,
                                      status |-> "PROCESSING"]}
  <2>1. d \in Docs
    BY <1>1, <1>6
  <2>2. [id |-> runSeq + 1, doc |-> d, status |-> "PROCESSING"] \in Runs
    BY <1>1, <1>3, <2>1 DEF RunStatus
  <2>3. D \in SUBSET Docs /\ R \in SUBSET Runs
    BY <1>1, <2>1, <2>2
  <2>4. /\ sess' = [sess EXCEPT ![x] = [sess[x] EXCEPT !.docs = D, !.runs = R]]
        /\ UNCHANGED <<documents, runs>> /\ runSeq' = runSeq + 1
    BY <1>1, <1>6 DEF OpenRun
  <2> HIDE DEF D, R
  <2> DEFINE new == [sess[x] EXCEPT !.docs = D, !.runs = R]
  <2>5. new \in SessionStates
    BY <1>4, <2>3
  <2> HIDE DEF new
  <2>6. QED
    BY <1>1, <2>4, <2>5 DEF new
<1>7. CASE WriteRun(x, FinishedRun(extract[x].run, extract[x].doc))
             /\ extract[x].pc = "complete"
  <2> DEFINE row == FinishedRun(extract[x].run, extract[x].doc)
             R == {z \in sess[x].runs : z.id # row.id} \cup {row}
  <2>1. row \in Runs
    BY <1>1, <1>3, <1>7 DEF FinishedRun, RunStatus, Handlers
  <2>2. R \in SUBSET Runs
    BY <1>1, <2>1
  <2>3. /\ sess' = [sess EXCEPT
              ![x] = [sess[x] EXCEPT !.docs = sess[x].docs, !.runs = R]]
        /\ UNCHANGED <<documents, runs, runSeq>>
    BY <1>1, <1>7 DEF WriteRun, SessionStates
  <2> HIDE DEF row, R
  <2>4. QED
    BY <1>1, <1>4, <2>2, <2>3
<1>8. CASE CommitTables(x)
  BY <1>1, <1>2, <1>8 DEF CommitTables
<1>9. CASE PoisonTables(x) \/ CloseTables(x)
  BY <1>1, <1>2, <1>9 DEF PoisonTables, CloseTables
<1>10. CASE /\ CloseRun(x, extract'[x].pc, "FAILED")
            /\ extract[x].pc \in {"http", "except"}
  <2>1. [id |-> extract[x].run, doc |-> extract[x].doc, status |-> "FAILED"]
          \in Runs
    BY <1>1, <1>3, <1>10 DEF RunStatus, Handlers
  <2>2. QED
    BY <1>1, <1>2, <1>10, <2>1 DEF CloseRun
<1>11. QED
  BY <1>5, <1>6, <1>7, <1>8, <1>9, <1>10, TablesChange

LEMMA TypeStep ==
  ASSUME SyncInv, NEW x \in Requests, StepOf(x)
  PROVE  TypeOK'
<1>1. extract \in [Requests -> Handlers] /\ faults \in Nat /\ runSeq \in Nat
  BY Typed DEF SyncInv, TypeOK, PersistenceTypeOK
<1>2. faults' \in Nat
  BY <1>1 DEF StepOf, ExtractStep, Receive, SelectDocument, InsertRun,
       InsertConflicts, BeginCommit, CommitStep, ProcessPdf, CompleteRun,
       CompleteCommit, Respond, HandleHttp, HandleException, ExtractRaises,
     ResponseInvalid,
       ExtractDbError, ApiCrashes, Fault
<1>3. extract' \in [Requests -> Handlers]
  <2>1. \E h \in Handlers : extract' = [extract EXCEPT ![x] = h]
    <3>1. ASSUME NEW pc \in {"waiting"} \cup ExtractSteps \cup Replies,
                 Goto(x, pc)
          PROVE  \E h \in Handlers : extract' = [extract EXCEPT ![x] = h]
      <4>1. [extract[x] EXCEPT !.pc = pc] \in Handlers
        BY <1>1 DEF Handlers
      <4>2. extract' = [extract EXCEPT ![x] = [extract[x] EXCEPT !.pc = pc]]
        BY <1>1, <3>1 DEF Goto
      <4>3. QED
        BY <4>1, <4>2
    <3>2. ASSUME NEW d \in Docs, Receive(x, d)
          PROVE  \E h \in Handlers : extract' = [extract EXCEPT ![x] = h]
      <4>1. [extract[x] EXCEPT !.pc = "select", !.doc = d] \in Handlers
        BY <1>1 DEF Handlers, ExtractSteps
      <4>2. extract' = [extract EXCEPT
              ![x] = [extract[x] EXCEPT !.pc = "select", !.doc = d]]
        BY <1>1, <3>2 DEF Receive
      <4>3. QED
        BY <4>1, <4>2
    <3>3. ASSUME SelectDocument(x)
          PROVE  \E h \in Handlers : extract' = [extract EXCEPT ![x] = h]
      <4> DEFINE known == extract[x].doc \in documents
      <4>1. ASSUME NEW b \in BOOLEAN
            PROVE  [extract[x] EXCEPT !.pc = "insert", !.found = b]
                     \in Handlers
        BY <1>1 DEF Handlers, ExtractSteps
      <4>2. extract' = [extract EXCEPT
              ![x] = [extract[x] EXCEPT !.pc = "insert", !.found = known]]
        BY <1>1, <3>3 DEF SelectDocument
      <4>3. known \in BOOLEAN
        OBVIOUS
      <4> HIDE DEF known
      <4>4. [extract[x] EXCEPT !.pc = "insert", !.found = known] \in Handlers
        BY <4>1, <4>3
      <4>5. QED
        BY <4>2, <4>4
    <3>4. ASSUME InsertRun(x)
          PROVE  \E h \in Handlers : extract' = [extract EXCEPT ![x] = h]
      <4>1. ASSUME NEW i \in Nat
            PROVE  [extract[x] EXCEPT !.pc = "begin", !.run = i] \in Handlers
        BY <1>1 DEF Handlers, ExtractSteps
      <4>2. extract' = [extract EXCEPT
              ![x] = [extract[x] EXCEPT !.pc = "begin", !.run = runSeq + 1]]
        BY <1>1, <3>4 DEF InsertRun
      <4>3. runSeq + 1 \in Nat
        BY <1>1
      <4>4. [extract[x] EXCEPT !.pc = "begin", !.run = runSeq + 1] \in Handlers
        BY <4>1, <4>3
      <4>5. QED
        BY <4>2, <4>4
    <3>5. \/ \E d \in Docs : Receive(x, d)
          \/ SelectDocument(x)
          \/ InsertRun(x)
          \/ \E pc \in {"waiting"} \cup ExtractSteps \cup Replies : Goto(x, pc)
      BY DEF StepOf, ExtractStep, InsertConflicts, BeginCommit, CommitStep,
         ProcessPdf, CompleteRun, CompleteCommit, Respond, Reply, HandleHttp,
         FailRun, CloseRun, HandleException, ExtractRaises,
       ResponseInvalid, ExtractDbError,
         ApiCrashes, ExtractSteps, Replies
    <3>6. QED
      BY <3>1, <3>2, <3>3, <3>4, <3>5
  <2>2. QED
    BY <1>1, <2>1
<1>4. QED
  BY <1>2, <1>3, TablesTyped DEF TypeOK, PersistenceTypeOK, Handlers

LEMMA SyncStep == SyncInv /\ [Next]_vars => SyncInv'
<1>1. SUFFICES ASSUME SyncInv, [Next]_vars PROVE SyncInv'
  OBVIOUS
<1>2. ASSUME NEW x \in Requests, StepOf(x) PROVE SyncInv'
  BY <1>1, <1>2, TypeStep, HandledStep, IdsStep DEF SyncInv
<1>3. CASE UNCHANGED vars
  BY <1>1, <1>3
     DEF vars, tables, SyncInv, TypeOK, PersistenceTypeOK, AllHandled, Handled,
         RunsOf, RunRow, IdsAreUnique
<1>4. QED
  BY <1>1, <1>2, <1>3 DEF Next, StepOf

LEMMA SyncInvariance == Spec => []SyncInv
BY SyncInit, SyncStep, PTL DEF Spec

(* A step brings in no run but one under the id its request has.           *)
LEMMA RunsHaveRequestsStep ==
  SyncInv /\ RunsHaveRequests /\ [Next]_vars => RunsHaveRequests'
<1>1. SUFFICES ASSUME SyncInv, RunsHaveRequests, [Next]_vars
               PROVE  RunsHaveRequests'
  OBVIOUS
<1>2. ASSUME NEW x \in Requests, StepOf(x), NEW r \in runs'
      PROVE  \E v \in Requests : extract'[v].run = r.id
  <2>1. CASE r.id = extract[x].run
    <3>1. extract'[x].run = r.id
      BY <1>1, <1>2, <2>1, RunStays, OwnRowIsUnique
    <3>2. QED
      BY <3>1
  <2>2. CASE r.id # extract[x].run
    <3>1. r \in runs
      BY <1>1, <1>2, <2>2, OthersUntouched
    <3>2. PICK v \in Requests : extract[v].run = r.id
      BY <1>1, <3>1 DEF RunsHaveRequests
    <3>3. extract'[v].run = r.id
      BY <1>1, <1>2, <2>2, <3>2, OthersUntouched
    <3>4. QED
      BY <3>3
  <2>3. QED
    BY <2>1, <2>2
<1>3. CASE UNCHANGED vars
  BY <1>1, <1>3 DEF vars, tables, RunsHaveRequests
<1>4. QED
  BY <1>1, <1>2, <1>3 DEF Next, StepOf, RunsHaveRequests

(* One step moves no committed run backwards.                              *)
LEMMA RunMoves ==
  ASSUME SyncInv, NEW x \in Requests, StepOf(x),
         NEW r \in runs, NEW n \in runs', r.id = n.id
  PROVE  /\ n.doc = r.doc
         /\ \/ n.status = r.status
            \/ r.status = "PROCESSING"
            \/ r.status = "COMPLETED" /\ n.status = "FAILED" /\ InFlight(r.id)
<1> DEFINE e == extract[x]
<1>1. Handled(e, sess[x], RunsOf(x), faults)
  BY Typed
<1>2. CASE n \in runs
  BY <1>2 DEF SyncInv, IdsAreUnique
<1>3. CASE n \notin runs
  <2>1. n.id = e.run
    BY <1>3, OthersUntouched
  <2>2. r \in RunsOf(x) /\ r.id # NoRun
    BY <2>1 DEF RunsOf, SyncInv, IdsAreUnique
  <2>3. CASE CommitTables(x) /\ e.pc \in {"begin", "commit"}
    <3>1. RunsOf(x) \in {{}, {RunRow(e, "PROCESSING")}}
      BY <1>1, <2>3 DEF Handled
    <3>2. r = RunRow(e, "PROCESSING")
      BY <2>2, <3>1
    <3>3. n \in sess[x].runs
      BY <1>3, <2>3 DEF CommitTables
    <3>4. n.doc = e.doc
      BY <3>3, PendingIsOwn
    <3>5. QED
      BY <3>2, <3>4 DEF RunRow
  <2>4. CASE /\ CloseRun(x, extract'[x].pc, "FAILED")
             /\ e.pc \in {"http", "except"}
    <3>1. n = RunRow(e, "FAILED")
      BY <1>3, <2>4 DEF CloseRun, RunRow
    <3>2. r \in {RunRow(e, "PROCESSING"), RunRow(e, "COMPLETED")}
      BY <1>1, <2>2, <2>4 DEF Handled
    <3>3. InFlight(r.id)
      BY <2>1, <2>4 DEF InFlight, Busy, ExtractSteps
    <3>4. QED
      BY <3>1, <3>2, <3>3 DEF RunRow
  <2>5. QED
    BY <1>3, <2>3, <2>4, TablesChange
       DEF tables, OpenRun, WriteRun, PoisonTables, CloseTables
<1>4. QED
  BY <1>2, <1>3

(* What the invariant says of the replies.                                 *)
LEMMA SyncReplies == SyncInv => ReplyMatchesRun
<1>1. ASSUME SyncInv, NEW x \in Requests,
             \/ extract[x].pc = "200"
             \/ extract[x].pc = "500" /\ faults = 0
      PROVE  Backed(extract[x].run, extract[x].doc)
  <2>1. Handled(extract[x], sess[x], RunsOf(x), faults)
    BY <1>1, Typed
  <2>2. RunsOf(x) = {RunRow(extract[x], "COMPLETED")}
    BY <1>1, <2>1 DEF Handled
  <2>3. RunRow(extract[x], "COMPLETED") \in runs
    BY <2>2 DEF RunsOf
  <2>4. QED
    BY <2>3 DEF RunRow, Backed, FinishedRun
<1>2. ASSUME SyncInv, NEW x \in Requests,
             extract[x].pc \in {"422", "502"}, extract[x].run # NoRun
      PROVE  \E r \in runs : r.id = extract[x].run /\ r.status = "FAILED"
  <2>1. Handled(extract[x], sess[x], RunsOf(x), faults)
    BY <1>2, Typed
  <2>2. RunRow(extract[x], "FAILED") \in RunsOf(x)
    BY <1>2, <2>1 DEF Handled
  <2>3. QED
    BY <2>2 DEF RunsOf, RunRow
<1>3. QED
  BY <1>1, <1>2 DEF ReplyMatchesRun

----------------------------------------------------------------------------
(* Theorems                                                                *)

(* The tables and the handlers of /extract keep their types.               *)
THEOREM ExtractTypes == Spec => []TypeOK
<1>1. SyncInv => TypeOK
  BY DEF SyncInv
<1>2. QED
  BY <1>1, SyncInvariance, PTL

(* For any requests, processes and failures: a 200 of /extract names a     *)
(* COMPLETED run of the document the client sent, a 422 or 502 leaves the  *)
(* run it opened FAILED, and a 500 without any failure of the database or  *)
(* a process hides a COMPLETED run.                                        *)
THEOREM RepliesMatchRuns == Spec => []ReplyMatchesRun
BY SyncReplies, SyncInvariance, PTL

(* While neither the database nor an API process has failed, each run that *)
(* history shows as PROCESSING is being processed.                         *)
THEOREM OpenRunsAreWorkedOn == Spec => []OpenRunsAreInFlight
<1>1. SyncInv /\ RunsHaveRequests => OpenRunsAreInFlight
  <2>1. SUFFICES ASSUME SyncInv, RunsHaveRequests, faults = 0, NEW r \in runs,
                        r.status = "PROCESSING"
                 PROVE  InFlight(r.id)
    BY DEF OpenRunsAreInFlight
  <2>2. PICK x \in Requests : extract[x].run = r.id
    BY <2>1 DEF RunsHaveRequests
  <2>3. /\ Handled(extract[x], sess[x], RunsOf(x), faults)
        /\ extract[x] \in Handlers
        /\ r \in RunsOf(x) /\ extract[x].run # NoRun
    BY <2>1, <2>2, Typed DEF RunsOf, SyncInv, IdsAreUnique
  <2>4. \A status : RunRow(extract[x], status).status = status
    BY DEF RunRow
  <2>5. extract[x].pc \notin {"200", "422", "502"}
    BY <2>1, <2>3, <2>4 DEF Handled
  <2>6. extract[x].pc \notin {"waiting", "500", "dropped"}
    BY <2>1, <2>3, <2>4 DEF Handled
  <2>7. x \in Busy
    BY <2>3, <2>5, <2>6 DEF Busy, Handlers, Replies
  <2>8. QED
    BY <2>2, <2>7 DEF InFlight
<1>2. Init => RunsHaveRequests
  BY DEF Init, PersistenceInit, RunsHaveRequests
<1>3. Spec => []RunsHaveRequests
  BY <1>2, SyncInvariance, RunsHaveRequestsStep, PTL DEF Spec
<1>4. QED
  BY <1>1, <1>3, SyncInvariance, PTL

(* A run changes its status only forwards and never changes its document.  *)
THEOREM RunsNeverReopen == Spec => RunsMoveForward
<1> DEFINE Forward ==
        \A r \in runs, n \in runs' : r.id = n.id =>
          /\ n.doc = r.doc
          /\ \/ n.status = r.status
             \/ r.status = "PROCESSING"
             \/ r.status = "COMPLETED" /\ n.status = "FAILED" /\ InFlight(r.id)
<1>1. SyncInv /\ [Next]_vars => [Forward]_vars
  <2>1. SUFFICES ASSUME SyncInv, Next PROVE Forward
    OBVIOUS
  <2>2. PICK x \in Requests : StepOf(x)
    BY <2>1 DEF Next, StepOf
  <2>3. QED
    BY <2>1, <2>2, RunMoves
<1>2. QED
  BY <1>1, SyncInvariance, PTL DEF Spec, RunsMoveForward
=============================================================================
