--------------------------- MODULE BatchRun_proofs ---------------------------
(***************************************************************************)
(* Proofs about BatchRun, for manifests of any length, any costs and       *)
(* limits, and any number of invocations.                                  *)
(***************************************************************************)
EXTENDS BatchRun, TLAPS

(* Where the loop is, and what it has left behind: a row for every         *)
(* document before the current one.  It is only past its look at a file    *)
(* that it may call the model and write the file.                          *)
InPlace ==
  /\ Len(batch.rows) = batch.next - 1
  /\ \A i \in 1..Len(batch.rows) : batch.rows[i].doc = i
  /\ batch.pc \in {"call", "open", "write"} =>
       /\ batch.next <= N
       /\ batch.resume => files[batch.next] \notin Modes
  /\ batch.pc \in {"loop", "call", "open", "write"} => ~batch.halted
  /\ batch.pc \in {"csv", "fill", "json"} =>
       batch.halted \/ batch.next = N + 1
  /\ batch.pc = "call" => batch.spend < Budget /\ batch.live < MaxLive

BatchInv == TypeOK /\ InPlace /\ BudgetHolds /\ AggregateCovers

(* The state of an invocation is well typed at its start, when it goes on  *)
(* to another step, and when it finishes a document.                       *)
LEMMA FreshType ==
  ASSUME NEW m \in Modes, NEW dry \in BOOLEAN, NEW r \in ResumeChoices
  PROVE  Fresh(m, dry, r) \in Batches
<1>1. 1 \in 1..(N + 1) /\ r \in BOOLEAN
  BY BatchConstants
<1>2. <<>> \in Seq(Rows) /\ {} \in SUBSET Documents /\ 0 \in Nat
  OBVIOUS
<1>3. QED
  BY <1>1, <1>2 DEF Fresh, Batches, Steps

LEMMA StepType ==
  ASSUME NEW b \in Batches, NEW pc \in Steps \cup {"off"}
  PROVE  [b EXCEPT !.pc = pc] \in Batches
BY DEF Batches

LEMMA FinishType ==
  ASSUME NEW b \in Batches, NEW mode \in Modes, b.next <= N,
         NEW status \in {"OK", "SKIPPED", "DRY_RUN", "ERROR"}
  PROVE  /\ Row(b.next, status, mode) \in Rows
         /\ Finish(b, status, mode) \in Batches
<1>1. b.next \in 1..(N + 1) /\ b.rows \in Seq(Rows)
  BY DEF Batches
<1>2. b.next + 1 \in 1..(N + 1) /\ b.next \in Documents
  BY <1>1, BatchConstants DEF Documents
<1>3. Row(b.next, status, mode) \in Rows
  BY <1>2 DEF Row, Rows
<1>4. Append(b.rows, Row(b.next, status, mode)) \in Seq(Rows)
  BY <1>1, <1>3
<1>5. "loop" \in Steps \cup {"off"}
  BY DEF Steps
<1>6. QED
  BY <1>2, <1>3, <1>4, <1>5 DEF Finish, Batches

LEMMA CalledType ==
  ASSUME batch \in Batches, batch.next <= N
  PROVE  Called \in Batches
<1>1. batch.next \in Documents /\ batch.called \subseteq Documents
  BY BatchConstants DEF Batches, Documents
<1>2. batch.called \cup {batch.next} \in SUBSET Documents
  BY <1>1
<1>3. QED
  BY <1>2 DEF Called, current, Batches

LEMMA SpentType ==
  ASSUME NEW b \in Batches, NEW c \in Nat
  PROVE  [b EXCEPT !.pc = "open", !.spend = @ + c, !.live = @ + 1] \in Batches
<1>1. b.spend + c \in Nat /\ b.live + 1 \in Nat
  BY DEF Batches
<1>2. "open" \in Steps \cup {"off"}
  BY DEF Steps
<1>3. QED
  BY <1>1, <1>2 DEF Batches

LEMMA BatchInit == Init => BatchInv
<1>1. SUFFICES ASSUME Init PROVE BatchInv
  OBVIOUS
<1>2. PICK m \in Modes, r \in ResumeChoices :
        batch = [Fresh(m, FALSE, r) EXCEPT !.pc = "off"]
  BY <1>1 DEF Init
<1>3. /\ batch.pc = "off" /\ batch.next = 1 /\ batch.rows = <<>>
      /\ batch.live = 0 /\ batch.spend = 0
      /\ batch \in Batches
  BY <1>2, FreshType, StepType DEF Fresh
<1>4. TypeOK
  BY <1>1, <1>3, BatchConstants DEF Init, TypeOK, Marks, Documents
<1>5. InPlace
  BY <1>3 DEF InPlace
<1>6. BudgetHolds /\ AggregateCovers
  <2>1. 0 <= MaxLive /\ ~aggregate.written
    BY <1>1, BatchConstants DEF Init
  <2>2. QED
    BY <1>3, <2>1 DEF BudgetHolds, AggregateCovers
<1>7. QED
  BY <1>4, <1>5, <1>6 DEF BatchInv

(* The row of the current document, and on to the next one.                *)
LEMMA Finishing ==
  ASSUME BatchInv, NEW b \in Batches, NEW status, NEW mode \in Modes,
         status \in {"OK", "SKIPPED", "DRY_RUN", "ERROR"},
         b.next = batch.next, b.rows = batch.rows, ~b.halted,
         b.live = batch.live, b.spend = batch.spend,
         batch.next <= N, batch' = Finish(b, status, mode)
  PROVE  /\ batch' \in Batches
         /\ batch'.pc = "loop"
         /\ batch'.rows = Append(batch.rows, Row(batch.next, status, mode))
         /\ InPlace' /\ BudgetHolds'
<1>1. /\ batch.next \in Nat /\ batch.rows \in Seq(Rows)
      /\ Row(batch.next, status, mode) \in Rows
  <2>1. batch \in Batches /\ b.next <= N
    BY DEF BatchInv, TypeOK
  <2>2. Row(b.next, status, mode) \in Rows
    BY <2>1, FinishType
  <2>3. QED
    BY <2>1, <2>2 DEF Batches
<1>2. /\ batch'.pc = "loop" /\ batch'.next = batch.next + 1
      /\ batch'.rows = Append(batch.rows, Row(batch.next, status, mode))
      /\ ~batch'.halted
      /\ batch'.live = batch.live /\ batch'.spend = batch.spend
      /\ batch' \in Batches
  BY <1>1, FinishType DEF Finish, Batches
<1>3. /\ Len(batch'.rows) = Len(batch.rows) + 1
      /\ batch'.rows[Len(batch.rows) + 1].doc = batch.next
      /\ \A i \in 1..Len(batch.rows) : batch'.rows[i] = batch.rows[i]
  BY <1>1, <1>2 DEF Row
<1>4. InPlace'
  BY <1>1, <1>2, <1>3 DEF BatchInv, InPlace
<1>5. QED
  BY <1>2, <1>4 DEF BatchInv, BudgetHolds

LEMMA BatchStep == BatchInv /\ [Next]_vars => BatchInv'
<1>1. SUFFICES ASSUME BatchInv, [Next]_vars PROVE BatchInv'
  OBVIOUS
<1>2. /\ TypeOK /\ InPlace /\ BudgetHolds /\ AggregateCovers
      /\ batch \in Batches
  BY <1>1 DEF BatchInv, TypeOK
<1> USE DEF outputs
<1>3. CASE UNCHANGED vars
  BY <1>2, <1>3 DEF vars, BatchInv, TypeOK, InPlace, BudgetHolds,
                    AggregateCovers
<1>4. ASSUME batch' \in Batches, UNCHANGED outputs, InPlace', BudgetHolds'
      PROVE  BatchInv'
  BY <1>2, <1>4 DEF BatchInv, TypeOK, AggregateCovers
<1>5. ASSUME NEW m \in Modes, NEW dry \in BOOLEAN, NEW r \in ResumeChoices,
             Start(m, dry, r)
      PROVE  BatchInv'
  <2>1. batch' \in Batches
    BY <1>5, FreshType DEF Start
  <2>2. InPlace' /\ BudgetHolds'
    BY <1>5, BatchConstants DEF Start, Fresh, InPlace, BudgetHolds
  <2>3. QED
    BY <1>2, <1>5, <2>1, <2>2
       DEF Start, BatchInv, TypeOK, AggregateCovers
<1>6. CASE Reuse \/ Skip \/ DryRun
  <2>1. /\ ~batch.halted /\ batch.next <= N /\ UNCHANGED outputs
        /\ batch.mode \in Modes
    BY <1>2, <1>6
       DEF Reuse, Skip, DryRun, Admitted, InLoop, InPlace, Batches
  <2>2. PICK s \in {"OK", "SKIPPED", "DRY_RUN", "ERROR"}, m \in Modes :
          batch' = Finish(batch, s, m)
    BY <1>6, <2>1 DEF Reuse, Reusable, Skip, DryRun
  <2>3. QED
    BY <1>1, <1>2, <1>4, <2>1, <2>2, Finishing
<1>7. CASE Halt \/ EndLoop
  <2>1. CASE Halt
    <3>1. batch' \in Batches /\ UNCHANGED outputs
      BY <1>2, <2>1 DEF Halt, Batches, Steps
    <3>2. InPlace' /\ BudgetHolds'
      BY <1>2, <2>1 DEF Halt, Batches, InPlace, BudgetHolds
    <3>3. QED
      BY <1>4, <3>1, <3>2
  <2>2. CASE EndLoop
    <3>1. batch' \in Batches /\ UNCHANGED outputs
      BY <1>2, <2>2 DEF EndLoop, Batches, Steps
    <3>2. batch.next = N + 1
      BY <1>2, <2>2, BatchConstants DEF EndLoop, Batches
    <3>3. InPlace' /\ BudgetHolds'
      BY <1>2, <2>2, <3>2 DEF EndLoop, Batches, InPlace, BudgetHolds
    <3>4. QED
      BY <1>4, <3>1, <3>3
  <2>3. QED
    BY <1>7, <2>1, <2>2
<1>8. CASE Accept
  <2>1. /\ batch' = [batch EXCEPT !.pc = "call"] /\ UNCHANGED outputs
        /\ batch.next <= N /\ batch.pc = "loop"
        /\ batch.resume => files[batch.next] \notin Modes
        /\ batch.spend < Budget /\ ~(batch.live >= MaxLive)
    BY <1>8 DEF Accept, Admitted, InLoop, Reusable, WithinBudget, Unwanted,
                CapReached, current
  <2>2. batch' \in Batches
    BY <1>2, <2>1, StepType DEF Steps
  <2>3. batch.live \in Nat
    BY <1>2 DEF Batches
  <2>4. InPlace' /\ BudgetHolds'
    BY <1>2, <2>1, <2>3, BatchConstants DEF Batches, InPlace, BudgetHolds
  <2>5. QED
    BY <1>4, <2>1, <2>2, <2>4
<1>9. ASSUME NEW b \in {batch, Called}, Fail(b), batch.next <= N,
             ~batch.halted
      PROVE  BatchInv'
  <2>1. /\ b \in Batches /\ ~b.halted /\ b.mode \in Modes
        /\ b.next = batch.next /\ b.rows = batch.rows
        /\ b.live = batch.live /\ b.spend = batch.spend
        /\ batch.next \in Documents
    BY <1>2, <1>9, BatchConstants DEF Called, current, Batches, Documents
  <2>2. batch' = Finish(b, "ERROR", b.mode)
    BY <1>9 DEF Fail
  <2>3. batch' \in Batches /\ InPlace' /\ BudgetHolds'
    BY <1>1, <1>9, <2>1, <2>2, Finishing
  <2>4. QED
    BY <1>2, <1>9, <2>1, <2>3 DEF Fail, BatchInv, TypeOK, AggregateCovers
<1>10. CASE FailBeforeCall \/ CallFails
  BY <1>2, <1>9, <1>10
     DEF FailBeforeCall, CallFails, Admitted, InLoop, InPlace
<1>11. ASSUME NEW c \in Costs, CallSucceeds(c) PROVE BatchInv'
  <2>1. /\ batch.pc = "call" /\ UNCHANGED outputs
        /\ batch' = [Called EXCEPT !.pc = "open", !.spend = @ + c,
                                   !.live = @ + 1]
    BY <1>11 DEF CallSucceeds
  <2>2. batch.spend \in Nat /\ batch.live \in Nat /\ c \in Nat
    BY <1>2, BatchConstants DEF Batches
  <2>3. Called \in Batches
    BY <1>2, <2>1, CalledType DEF InPlace
  <2>4. batch' \in Batches
    BY <1>2, <2>1, <2>2, <2>3, SpentType DEF Called, Batches
  <2>5. /\ batch'.pc = "open" /\ batch'.rows = batch.rows
        /\ batch'.next = batch.next /\ batch'.resume = batch.resume
        /\ batch'.halted = batch.halted
        /\ batch'.spend = batch.spend + c /\ batch'.live = batch.live + 1
    BY <1>2, <2>1 DEF Called, Batches
  <2>6. InPlace'
    BY <1>2, <2>1, <2>5 DEF InPlace
  <2>7. BudgetHolds'
    BY <1>2, <2>1, <2>2, <2>5, BatchConstants DEF InPlace, BudgetHolds
  <2>8. QED
    BY <1>4, <2>1, <2>4, <2>6, <2>7
<1>12. CASE OpenFile
  <2>1. /\ batch' = [batch EXCEPT !.pc = "write"]
        /\ files' = [files EXCEPT ![batch.next] = "torn"]
        /\ batch.pc = "open" /\ UNCHANGED <<errorLog, summary, aggregate,
                                             invocations>>
    BY <1>12 DEF OpenFile, current
  <2>2. batch' \in Batches /\ batch.next \in Documents
    <3>1. batch.next <= N /\ batch.next \in 1..(N + 1)
      BY <1>2, <2>1 DEF InPlace, Batches
    <3>2. batch.next \in Documents
      BY <3>1, BatchConstants DEF Documents
    <3>3. QED
      BY <1>2, <2>1, <3>2, StepType DEF Steps
  <2>3. files' \in [Documents -> Marks \cup Modes]
        /\ files'[batch.next] \notin Modes
    BY <1>2, <2>1, <2>2, BatchConstants DEF TypeOK, Marks
  <2>4. InPlace' /\ BudgetHolds'
    BY <1>2, <2>1, <2>3 DEF Batches, InPlace, BudgetHolds
  <2>5. QED
    BY <1>2, <2>1, <2>2, <2>3, <2>4 DEF BatchInv, TypeOK, AggregateCovers
<1>13. CASE WriteFile
  <2>1. /\ ~batch.halted /\ batch.next <= N /\ batch.mode \in Modes
        /\ batch' = Finish(batch, "OK", batch.mode)
    BY <1>2, <1>13 DEF WriteFile, InPlace, Batches
  <2>2. files' \in [Documents -> Marks \cup Modes]
    BY <1>2, <1>13, <2>1 DEF WriteFile, TypeOK
  <2>3. batch' \in Batches /\ InPlace' /\ BudgetHolds'
    BY <1>1, <1>2, <2>1, Finishing
  <2>4. QED
    BY <1>2, <1>13, <2>2, <2>3
       DEF WriteFile, BatchInv, TypeOK, AggregateCovers
<1>14. CASE OpenSummary \/ WriteSummary
  <2>1. PICK pc \in {"fill", "json"} : batch' = [batch EXCEPT !.pc = pc]
    BY <1>14 DEF OpenSummary, WriteSummary
  <2>2. batch' \in Batches /\ batch.rows \in Seq(Rows)
    BY <1>2, <2>1, StepType DEF Steps, Batches
  <2>3. /\ summary' \in Seq(Rows) /\ batch.pc \in {"csv", "fill"}
        /\ UNCHANGED <<files, errorLog, aggregate, invocations>>
    <3>1. <<>> \in Seq(Rows)
      OBVIOUS
    <3>2. QED
      BY <1>14, <2>2, <3>1 DEF OpenSummary, WriteSummary
  <2>4. InPlace' /\ BudgetHolds'
    BY <1>2, <2>1, <2>3 DEF Batches, InPlace, BudgetHolds
  <2>5. QED
    BY <1>2, <2>2, <2>3, <2>4 DEF BatchInv, TypeOK, AggregateCovers
<1>15. CASE WriteAggregate
  <2>1. /\ batch.pc = "json" /\ batch' = [batch EXCEPT !.pc = "off"]
        /\ aggregate' = [rows |-> batch.rows, halted |-> batch.halted,
                         written |-> TRUE]
        /\ UNCHANGED <<files, errorLog, summary, invocations>>
    BY <1>15 DEF WriteAggregate
  <2>2. /\ batch' \in Batches /\ batch.rows \in Seq(Rows)
        /\ batch.halted \in BOOLEAN /\ batch.next \in Nat
    BY <1>2, <2>1, StepType DEF Batches
  <2>3. InPlace' /\ BudgetHolds'
    BY <1>2, <2>1 DEF Batches, InPlace, BudgetHolds
  <2>4. AggregateCovers'
    BY <1>2, <2>1, <2>2, BatchConstants DEF InPlace, AggregateCovers
  <2>5. QED
    BY <1>2, <2>1, <2>2, <2>3, <2>4 DEF BatchInv, TypeOK
<1>16. CASE Crash
  BY <1>2, <1>4, <1>16 DEF Crash, Batches, InPlace, BudgetHolds
<1>17. QED
  BY <1>1, <1>3, <1>5, <1>6, <1>7, <1>8, <1>10, <1>11, <1>12, <1>13, <1>14,
     <1>15, <1>16 DEF Next

LEMMA BatchInvariance == Spec => []BatchInv
BY BatchInit, BatchStep, PTL DEF Spec

----------------------------------------------------------------------------
(* Summaries and files                                                     *)

(* No invocation asks for a fresh run: use_resume is on unless the         *)
(* environment turns it off (QUALIFLOW_RESUME).                            *)
AlwaysResumes == FALSE \notin ResumeChoices

BackedInv ==
  /\ AlwaysResumes
  /\ batch.resume
  /\ OkRowsBacked(batch.rows)
  /\ SummaryIsBacked

(* A step neither pays for a document with a complete file nor touches it. *)
LEMMA PaidOnce ==
  ASSUME BatchInv, [Next]_vars, NEW x \in Documents, files[x] \in Modes,
         batch.resume
  PROVE  /\ files'[x] = files[x]
         /\ x \in batch'.called => x \in batch.called
<1>1. TypeOK /\ InPlace /\ batch \in Batches
  BY DEF BatchInv, TypeOK
<1>2. /\ files \in [Documents -> Marks \cup Modes]
      /\ batch.pc \in {"call", "open", "write"} => batch.next # x
  BY <1>1 DEF TypeOK, InPlace
<1> USE DEF outputs
<1>4. CASE UNCHANGED vars
  BY <1>4 DEF vars
<1>5. ASSUME NEW m \in Modes, NEW dry \in BOOLEAN, NEW r \in ResumeChoices,
             Start(m, dry, r)
      PROVE  files' = files /\ batch'.called = {}
  BY <1>5 DEF Start, Fresh
<1>6. CASE Reuse \/ Skip \/ DryRun \/ Halt \/ Accept \/ EndLoop \/ Crash
  BY <1>1, <1>6
     DEF Reuse, Skip, DryRun, Halt, Accept, EndLoop, Crash, Finish, Batches
<1>7. CASE FailBeforeCall
  BY <1>1, <1>7 DEF FailBeforeCall, Fail, Finish, Batches
<1>8. CASE CallFails
  <2>1. batch.next # x /\ Called.called = batch.called \cup {batch.next}
    BY <1>1, <1>2, <1>8 DEF CallFails, Called, current, Batches
  <2>2. batch'.called = Called.called /\ files' = files
    BY <1>1, <1>8 DEF CallFails, Fail, Finish, Called, Batches
  <2>3. QED
    BY <2>1, <2>2
<1>9. ASSUME NEW c \in Costs, CallSucceeds(c)
      PROVE  files' = files /\ (x \in batch'.called => x \in batch.called)
  BY <1>1, <1>2, <1>9 DEF CallSucceeds, Called, current, Batches
<1>10. CASE OpenFile \/ WriteFile
  BY <1>1, <1>2, <1>10 DEF OpenFile, WriteFile, Finish, current, Batches
<1>11. CASE OpenSummary \/ WriteSummary \/ WriteAggregate
  BY <1>1, <1>11 DEF OpenSummary, WriteSummary, WriteAggregate, Batches
<1>12. QED
  BY <1>4, <1>5, <1>6, <1>7, <1>8, <1>9, <1>10, <1>11 DEF Next

(* OkRowsBacked with the files of the next state.                          *)
StayBacked(rows) ==
  \A i \in 1..Len(rows) :
    rows[i].status = "OK" =>
      rows[i].mode \in Modes /\ files'[rows[i].doc] = rows[i].mode

LEMMA RowsStayBacked ==
  ASSUME NEW rows \in Seq(Rows), OkRowsBacked(rows),
         \A x \in Documents : files[x] \in Modes => files'[x] = files[x]
  PROVE  StayBacked(rows)
<1>1. SUFFICES ASSUME NEW i \in 1..Len(rows), rows[i].status = "OK"
               PROVE  /\ rows[i].mode \in Modes
                      /\ files'[rows[i].doc] = rows[i].mode
  BY DEF StayBacked
<1>2. rows[i] \in Rows
  OBVIOUS
<1>3. rows[i].doc \in Documents
  BY <1>2 DEF Rows
<1>4. rows[i].mode \in Modes /\ files[rows[i].doc] = rows[i].mode
  BY <1>1 DEF OkRowsBacked
<1>5. QED
  BY <1>3, <1>4

(* The row of the document at hand joins those that are backed.            *)
LEMMA RowJoins ==
  ASSUME NEW rows \in Seq(Rows), StayBacked(rows), NEW row \in Rows,
         row.status = "OK" => row.mode \in Modes /\ files'[row.doc] = row.mode
  PROVE  StayBacked(Append(rows, row))
BY DEF StayBacked

LEMMA BackedStep == BatchInv /\ BackedInv /\ [Next]_vars => BackedInv'
<1>1. SUFFICES ASSUME BatchInv, BackedInv, [Next]_vars PROVE BackedInv'
  OBVIOUS
<1>2. /\ TypeOK /\ InPlace /\ batch \in Batches
      /\ batch.rows \in Seq(Rows) /\ summary \in Seq(Rows)
      /\ aggregate.rows \in Seq(Rows)
  BY <1>1 DEF BatchInv, TypeOK, Batches
<1>3. /\ StayBacked(batch.rows)
      /\ StayBacked(summary)
      /\ StayBacked(aggregate.rows)
  BY <1>1, <1>2, PaidOnce, RowsStayBacked DEF BackedInv, SummaryIsBacked
<1>4. SUFFICES /\ batch'.resume
               /\ StayBacked(batch'.rows)
               /\ StayBacked(summary')
               /\ StayBacked(aggregate'.rows)
  BY <1>1 DEF BackedInv, AlwaysResumes, SummaryIsBacked, OkRowsBacked,
              StayBacked
<1> USE DEF outputs
<1> DEFINE Goal == /\ batch'.resume
                   /\ StayBacked(batch'.rows)
                   /\ StayBacked(summary')
                   /\ StayBacked(aggregate'.rows)
<1>5. CASE UNCHANGED vars
  BY <1>1, <1>3, <1>5 DEF vars, BackedInv
<1>6. ASSUME NEW m \in Modes, NEW dry \in BOOLEAN, NEW r \in ResumeChoices,
             Start(m, dry, r)
      PROVE  Goal
  <2>1. r = TRUE
    BY <1>1, BatchConstants DEF BackedInv, AlwaysResumes
  <2>2. batch'.resume /\ batch'.rows = <<>>
    BY <1>6, <2>1 DEF Start, Fresh
  <2>3. StayBacked(batch'.rows)
    BY <2>2 DEF StayBacked
  <2>4. QED
    BY <1>3, <1>6, <2>2, <2>3 DEF Start
<1>7. ASSUME NEW b \in Batches, NEW mode \in Modes,
             NEW status \in {"OK", "SKIPPED", "DRY_RUN", "ERROR"},
             b.resume, b.rows = batch.rows, b.next <= N,
             status = "OK" => files'[b.next] = mode,
             batch' = Finish(b, status, mode),
             UNCHANGED <<summary, aggregate>>
      PROVE  Goal
  <2> DEFINE row == Row(b.next, status, mode)
  <2>1. row \in Rows
    BY <1>7, FinishType
  <2>2. row.status = status /\ row.mode = mode /\ row.doc = b.next
    BY DEF Row
  <2>3. batch'.resume /\ batch'.rows = Append(batch.rows, row)
    BY <1>7 DEF Finish, Batches
  <2> HIDE DEF row
  <2>4. StayBacked(batch'.rows)
    BY <1>2, <1>3, <1>7, <2>1, <2>2, <2>3, RowJoins
  <2>5. QED
    BY <1>3, <1>7, <2>3, <2>4
<1>8. CASE Reuse \/ Skip \/ DryRun
  <2>1. /\ batch.next <= N /\ batch.mode \in Modes /\ batch.resume
        /\ UNCHANGED <<files, summary, aggregate>>
    BY <1>1, <1>2, <1>8
       DEF Reuse, Skip, DryRun, Admitted, InLoop, Batches, BackedInv
  <2>2. PICK s \in {"OK", "SKIPPED", "DRY_RUN", "ERROR"}, m \in Modes :
          /\ batch' = Finish(batch, s, m)
          /\ s = "OK" => files[batch.next] = m
    BY <1>8, <2>1 DEF Reuse, Reusable, Skip, DryRun, current
  <2>3. QED
    BY <1>2, <1>7, <2>1, <2>2
<1>9. CASE FailBeforeCall \/ CallFails
  <2>1. batch.next <= N /\ batch.mode \in Modes /\ batch.resume
    BY <1>1, <1>2, <1>9
       DEF FailBeforeCall, CallFails, Admitted, InLoop, InPlace, Batches,
           BackedInv
  <2>2. PICK b \in {batch, Called} : Fail(b)
    BY <1>9 DEF FailBeforeCall, CallFails
  <2>3. /\ b \in Batches /\ b.resume /\ b.rows = batch.rows
        /\ b.next <= N /\ b.mode \in Modes
    BY <1>2, <2>1, CalledType DEF Called, Batches
  <2>4. QED
    BY <1>7, <2>2, <2>3 DEF Fail
<1>10. CASE WriteFile
  <2>1. /\ batch.next <= N /\ batch.mode \in Modes /\ batch.resume
        /\ batch.next \in 1..(N + 1)
    BY <1>1, <1>2, <1>10 DEF WriteFile, InPlace, Batches, BackedInv
  <2>2. batch.next \in Documents
    BY <2>1, BatchConstants DEF Documents
  <2>3. files'[batch.next] = batch.mode
    BY <1>2, <1>10, <2>2 DEF WriteFile, current, TypeOK
  <2>4. QED
    BY <1>2, <1>7, <1>10, <2>1, <2>3 DEF WriteFile
<1>11. CASE Halt \/ Accept \/ EndLoop \/ Crash \/ OpenFile
  BY <1>1, <1>2, <1>3, <1>11
     DEF Halt, Accept, EndLoop, Crash, OpenFile, Batches, BackedInv
<1>12. ASSUME NEW c \in Costs, CallSucceeds(c) PROVE Goal
  <2>1. batch'.resume = batch.resume /\ batch'.rows = batch.rows
    BY <1>2, <1>12 DEF CallSucceeds, Called, Batches
  <2>2. QED
    BY <1>1, <1>3, <1>12, <2>1 DEF CallSucceeds, BackedInv
<1>13. CASE OpenSummary \/ WriteSummary \/ WriteAggregate
  <2>1. batch'.resume = batch.resume /\ batch'.rows = batch.rows
    BY <1>2, <1>13 DEF OpenSummary, WriteSummary, WriteAggregate, Batches
  <2>2. StayBacked(<<>>)
    BY DEF StayBacked
  <2>3. summary' \in {summary, <<>>, batch.rows}
    BY <1>13 DEF OpenSummary, WriteSummary, WriteAggregate
  <2>4. aggregate' = aggregate \/ aggregate'.rows = batch.rows
    BY <1>13 DEF OpenSummary, WriteSummary, WriteAggregate
  <2>5. StayBacked(summary') /\ StayBacked(aggregate'.rows)
    BY <1>3, <2>2, <2>3, <2>4
  <2>6. QED
    BY <1>1, <1>3, <2>1, <2>5 DEF BackedInv
<1>14. QED
  BY <1>1, <1>5, <1>6, <1>8, <1>9, <1>10, <1>11, <1>12, <1>13 DEF Next

LEMMA BackedInit == Init /\ AlwaysResumes => BackedInv
<1>1. SUFFICES ASSUME Init, AlwaysResumes PROVE BackedInv
  OBVIOUS
<1>2. PICK m \in Modes, r \in ResumeChoices :
        batch = [Fresh(m, FALSE, r) EXCEPT !.pc = "off"]
  BY <1>1 DEF Init
<1>3. r = TRUE
  BY <1>1, BatchConstants DEF AlwaysResumes
<1>4. batch.resume /\ batch.rows = <<>>
  BY <1>2, <1>3 DEF Fresh
<1>5. summary = <<>> /\ aggregate.rows = <<>>
  BY <1>1 DEF Init
<1>6. OkRowsBacked(<<>>)
  BY DEF OkRowsBacked
<1>7. QED
  BY <1>1, <1>4, <1>5, <1>6 DEF BackedInv, SummaryIsBacked

----------------------------------------------------------------------------
(* Theorems                                                                *)

(* The accumulators, rows and files of a batch keep their types.           *)
THEOREM BatchTypes == Spec => []TypeOK
<1>1. BatchInv => TypeOK
  BY DEF BatchInv
<1>2. QED
  BY <1>1, BatchInvariance, PTL

(* batch_policy.py stops a run in time: for any manifest and any costs, an *)
(* invocation passes its budget by less than one extraction, and its cap   *)
(* on live documents never.                                                *)
THEOREM BudgetIsKept == Spec => []BudgetHolds
<1>1. BatchInv => BudgetHolds
  BY DEF BatchInv
<1>2. QED
  BY <1>1, BatchInvariance, PTL

(* summary.json has one row per document, in order, up to the halt.        *)
THEOREM AggregateIsComplete == Spec => []AggregateCovers
<1>1. BatchInv => AggregateCovers
  BY DEF BatchInv
<1>2. QED
  BY <1>1, BatchInvariance, PTL

(* However often a run is cut short and resumed, in whatever mode, no      *)
(* document is paid for again once its file is complete.                   *)
THEOREM PaidAtMostOnce == Spec => NothingPaidTwice
<1> DEFINE Once == \A x \in Documents : files[x] \in Modes /\ batch.resume =>
                     /\ files'[x] = files[x]
                     /\ x \in batch'.called => x \in batch.called
<1>1. BatchInv /\ [Next]_vars => [Once]_vars
  BY PaidOnce
<1>2. QED
  BY <1>1, BatchInvariance, PTL DEF Spec, NothingPaidTwice

(* A document that a summary counts as extracted has its complete file,    *)
(* made in the mode its row names, as long as every invocation resumes.    *)
THEOREM SummariesAreBacked == AlwaysResumes /\ Spec => []SummaryIsBacked
<1>1. Init /\ AlwaysResumes => BatchInv /\ BackedInv
  BY BatchInit, BackedInit
<1>2. (BatchInv /\ BackedInv) /\ [Next]_vars => (BatchInv /\ BackedInv)'
  BY BatchStep, BackedStep
<1>3. BackedInv => SummaryIsBacked
  BY DEF BackedInv
<1>4. QED
  BY <1>1, <1>2, <1>3, PTL DEF Spec
=============================================================================
