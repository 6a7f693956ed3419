------------------------------ MODULE BatchRun ------------------------------
(***************************************************************************)
(* scripts/run_batch_extraction.py: one invocation walks the manifest in   *)
(* order and leaves a JSON file per extracted document, an error log and   *)
(* two summaries in the run directory; an invocation with the timestamp of *)
(* an earlier one goes on from the files that one has left.                *)
(* app/services/batch_policy.py decides what may be spent.                 *)
(*                                                                         *)
(* Documents are numbered in manifest order.  A call of the model adds a   *)
(* member of Costs to the estimated spend; output that fails its schema is *)
(* a successful extraction of cost 0.  A process that dies, or an OSError  *)
(* of a write, which nothing catches, is Crash.                            *)
(***************************************************************************)
EXTENDS Integers, Sequences, FiniteSets

CONSTANTS
  N,             \* documents of the manifest
  SevereScans,   \* those that should_skip_document finds unreadable
  Modes,         \* experiment modes an invocation can ask for
  ResumeChoices, \* values of "resume or policy.use_resume"
  MaxLive,       \* max_new_live_docs
  Budget,        \* stop_on_estimated_budget_usd
  Costs,         \* what one extraction may add to the estimated spend
  MaxInvocations \* bound: invocations that share the timestamp

Documents == 1..N

Marks == {"missing", "torn"}

ASSUME BatchConstants ==
  /\ N \in Nat /\ SevereScans \subseteq Documents
  /\ ResumeChoices \subseteq BOOLEAN
  /\ MaxLive \in Nat /\ Budget \in Nat /\ Costs \subseteq Nat
  /\ Modes \cap Marks = {} /\ MaxInvocations \in Nat

VARIABLES
  files,       \* files[d]: the mode per_document/<d>.json was made in, or
               \* that there is none, or that its write was cut short
  errorLog,    \* documents with a line in errors.jsonl
  summary,     \* rows of summary.csv
  aggregate,   \* rows and halted flag behind summary.json
  invocations, \* invocations so far
  batch        \* the running invocation

vars == <<files, errorLog, summary, aggregate, invocations, batch>>

Row(d, status, mode) == [doc |-> d, status |-> status, mode |-> mode]

Rows == [doc : Documents, status : {"OK", "SKIPPED", "DRY_RUN", "ERROR"},
         mode : Modes]

(* spend and live are the accumulators of BatchRunPolicy, which is made    *)
(* anew by each invocation.  called is history: the documents for which    *)
(* this invocation has called the model.                                   *)
Fresh(mode, dry, resume) ==
  [pc |-> "loop", mode |-> mode, dry |-> dry, resume |-> resume, next |-> 1,
   rows |-> <<>>, live |-> 0, spend |-> 0, halted |-> FALSE, called |-> {}]

Steps == {"loop", "call", "open", "write", "csv", "fill", "json"}

Batches == [pc : Steps \cup {"off"}, mode : Modes, dry : BOOLEAN,
            resume : BOOLEAN, next : 1..(N + 1), rows : Seq(Rows), live : Nat,
            spend : Nat, halted : BOOLEAN, called : SUBSET Documents]

(* What the accumulators, files and summaries may hold.  A row has one of  *)
(* the four statuses that the script writes and the mode of an invocation, *)
(* never that of a file whose write was cut short.                         *)
TypeOK ==
  /\ files \in [Documents -> Marks \cup Modes]
  /\ errorLog \subseteq Documents
  /\ summary \in Seq(Rows)
  /\ aggregate \in [rows : Seq(Rows), halted : BOOLEAN, written : BOOLEAN]
  /\ invocations \in Nat
  /\ batch \in Batches

Init ==
  /\ files = [d \in Documents |-> "missing"]
  /\ errorLog = {}
  /\ summary = <<>>
  /\ aggregate = [rows |-> <<>>, halted |-> FALSE, written |-> FALSE]
  /\ invocations = 0
  /\ \E m \in Modes, r \in ResumeChoices :
       batch = [Fresh(m, FALSE, r) EXCEPT !.pc = "off"]

----------------------------------------------------------------------------
outputs == <<files, errorLog, summary, aggregate, invocations>>

Start(mode, dry, resume) ==
  /\ batch.pc = "off"
  /\ invocations < MaxInvocations
  /\ invocations' = invocations + 1
  /\ batch' = Fresh(mode, dry, resume)
  /\ UNCHANGED <<files, errorLog, summary, aggregate>>

InLoop == batch.pc = "loop" /\ batch.next <= N

current == batch.next

(* The summary row of the document at hand, and on to the next one.        *)
Finish(b, status, mode) ==
  [b EXCEPT !.pc = "loop", !.next = @ + 1,
            !.rows = Append(@, Row(b.next, status, mode))]

(* Mutant of Reusable: only a file of the mode that is asked for is.       *)
ReusableSameMode == batch.resume /\ files[current] = batch.mode

(* Mutant of Reusable: a file that exists is taken for one that parses.    *)
ReusableIfPresent == batch.resume /\ files[current] # "missing"

(* The file exists and json.loads accepts it.                              *)
Reusable == batch.resume /\ files[current] \in Modes

(* Mutants of Reuse: continue comes before the row is appended; the row    *)
(* names the mode of this invocation.                                      *)
ReuseWithoutRow ==
  /\ InLoop
  /\ Reusable
  /\ batch' = [batch EXCEPT !.next = @ + 1]
  /\ UNCHANGED outputs

ReuseAsAsked ==
  /\ InLoop
  /\ Reusable
  /\ batch' = Finish(batch, "OK", batch.mode)
  /\ UNCHANGED outputs

(* The row is rebuilt from the file, its mode included.                    *)
Reuse ==
  /\ InLoop
  /\ Reusable
  /\ batch' = Finish(batch, "OK", files[current])
  /\ UNCHANGED outputs

(* Mutant of WithinBudget: the threshold itself may be passed once more.   *)
WithinBudgetInclusive == batch.spend <= Budget

WithinBudget == batch.spend < Budget

Halt ==
  /\ InLoop
  /\ ~Reusable /\ ~batch.dry /\ ~WithinBudget
  /\ batch' = [batch EXCEPT !.pc = "csv", !.halted = TRUE]
  /\ UNCHANGED outputs

Admitted == InLoop /\ ~Reusable /\ (batch.dry \/ WithinBudget)

CapReached == batch.live >= MaxLive

Unwanted == CapReached \/ current \in SevereScans

(* batch_policy.py documents SKIPPED_SEVERE_SCAN as the status of a severe *)
(* scan; _run_single writes SKIPPED for it, as for the cap.                *)
Skip ==
  /\ Admitted
  /\ ~batch.dry /\ Unwanted
  /\ batch' = Finish(batch, "SKIPPED", batch.mode)
  /\ UNCHANGED outputs

DryRun ==
  /\ Admitted
  /\ batch.dry
  /\ batch' = Finish(batch, "DRY_RUN", batch.mode)
  /\ UNCHANGED outputs

(* Profiling and routing let the document through.                         *)
Accept ==
  /\ Admitted
  /\ ~batch.dry /\ ~Unwanted
  /\ batch' = [batch EXCEPT !.pc = "call"]
  /\ UNCHANGED outputs

(* Any exception of _run_single becomes an ERROR row and a line of the log.*)
Fail(b) ==
  /\ batch' = Finish(b, "ERROR", b.mode)
  /\ errorLog' = errorLog \cup {b.next}
  /\ UNCHANGED <<files, summary, aggregate, invocations>>

(* Profiling fails, or preprocessing does before the model is called.      *)
FailBeforeCall ==
  /\ Admitted \/ batch.pc = "call"
  /\ Fail(batch)

Called == [batch EXCEPT !.called = @ \cup {current}]

(* The call fails.  A 429 of the provider is no exception: mantle_client   *)
(* and run_multi_stage_extraction turn it into the 502 of any other error, *)
(* in which _run_single finds no sign of a rate limit, so that neither its *)
(* retry nor record_rate_limit is ever reached.                            *)
CallFails ==
  /\ batch.pc = "call"
  /\ Fail(Called)

(* record_usage and record_new_live_doc.                                   *)
CallSucceeds(cost) ==
  /\ batch.pc = "call"
  /\ batch' = [Called EXCEPT !.pc = "open", !.spend = @ + cost,
                             !.live = @ + 1]
  /\ UNCHANGED outputs

(* write_text truncates the file, then fills it.                           *)
OpenFile ==
  /\ batch.pc = "open"
  /\ files' = [files EXCEPT ![current] = "torn"]
  /\ batch' = [batch EXCEPT !.pc = "write"]
  /\ UNCHANGED <<errorLog, summary, aggregate, invocations>>

WriteFile ==
  /\ batch.pc = "write"
  /\ files' = [files EXCEPT ![current] = batch.mode]
  /\ batch' = Finish(batch, "OK", batch.mode)
  /\ UNCHANGED <<errorLog, summary, aggregate, invocations>>

EndLoop ==
  /\ batch.pc = "loop" /\ batch.next > N
  /\ batch' = [batch EXCEPT !.pc = "csv"]
  /\ UNCHANGED outputs

OpenSummary ==
  /\ batch.pc = "csv"
  /\ summary' = <<>>
  /\ batch' = [batch EXCEPT !.pc = "fill"]
  /\ UNCHANGED <<files, errorLog, aggregate, invocations>>

WriteSummary ==
  /\ batch.pc = "fill"
  /\ summary' = batch.rows
  /\ batch' = [batch EXCEPT !.pc = "json"]
  /\ UNCHANGED <<files, errorLog, aggregate, invocations>>

WriteAggregate ==
  /\ batch.pc = "json"
  /\ aggregate' = [rows |-> batch.rows, halted |-> batch.halted,
                   written |-> TRUE]
  /\ batch' = [batch EXCEPT !.pc = "off"]
  /\ UNCHANGED <<files, errorLog, summary, invocations>>

Crash ==
  /\ batch.pc # "off"
  /\ batch' = [batch EXCEPT !.pc = "off"]
  /\ UNCHANGED outputs

Next ==
  \/ \E m \in Modes, dry \in BOOLEAN, r \in ResumeChoices : Start(m, dry, r)
  \/ Reuse \/ Halt \/ Skip \/ DryRun \/ Accept
  \/ FailBeforeCall \/ CallFails
  \/ \E c \in Costs : CallSucceeds(c)
  \/ OpenFile \/ WriteFile \/ EndLoop
  \/ OpenSummary \/ WriteSummary \/ WriteAggregate
  \/ Crash

Spec == Init /\ [][Next]_vars

----------------------------------------------------------------------------
(* Properties                                                              *)

OkRowsBacked(rows) ==
  \A i \in 1..Len(rows) :
    rows[i].status = "OK" =>
      rows[i].mode \in Modes /\ files[rows[i].doc] = rows[i].mode

(* A document that a summary counts as extracted has a complete file, made *)
(* in the mode its row names, through crashes, resumed invocations and     *)
(* invocations in another mode.                                            *)
SummaryIsBacked ==
  OkRowsBacked(summary) /\ OkRowsBacked(aggregate.rows)

(* A resumed invocation neither calls the model again for a document whose *)
(* file is complete nor touches the file.                                  *)
NothingPaidTwice ==
  [][\A x \in Documents : files[x] \in Modes /\ batch.resume =>
       /\ files'[x] = files[x]
       /\ x \in batch'.called => x \in batch.called]_vars

(* The estimated spend an invocation admits to exceeds its budget by less  *)
(* than the cost of one extraction, and it counts no more live documents   *)
(* than max_new_live_docs.                                                 *)
BudgetHolds ==
  /\ batch.live <= MaxLive
  /\ batch.spend > 0 => \E c \in Costs : batch.spend < Budget + c

(* summary.json accounts for every document once, in manifest order; if    *)
(* the batch was halted, for those before the halt.                        *)
AggregateCovers ==
  LET rows == aggregate.rows IN
    aggregate.written =>
      /\ \A i \in 1..Len(rows) : rows[i].doc = i
      /\ ~aggregate.halted => Len(rows) = N
=============================================================================
