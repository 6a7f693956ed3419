# A verification project for QualiFlow

QualiFlow reads steel certificates (PDF), extracts their rows with a vision
model, validates them against standards and decides whether a person has to
look at the result. This directory holds TLA+ modules that model the parts of
it where order, failure and interleaving matter, TLC configurations that check
them on small instances, and proofs, checked by TLAPS, of what must hold for
every instance. Paths below are relative to `src/`.

Contents: 1 inventory, 2 hard behaviours and what correct means, 3 modules and
how they correspond to the code, 4 runs, bounds and fairness, 5 proofs,
6 disagreements found, 7 what is not modelled, 8 plan.

Run one configuration with `tlc -config job_overlap.cfg MCJobLifecycle`, check
the proofs of one component with `tlapm JobLifecycle_proofs.tla`; the other
modules with proofs are JobRefinement_proofs, SyncExtract_proofs,
Platform_proofs, BatchRun_proofs, DocumentRows_proofs, DocumentPipeline_proofs
and ReviewDecision_proofs.

## 1. Inventory

| Component | State it keeps | Operations | Talks to |
|---|---|---|---|
| Upload API `app/api/v1/routes/uploads.py` | none of its own | store PDF, create job, enqueue, 202 | object store, `jobs`, RQ |
| Job service and jobs API `app/services/jobs/service.py` | `jobs` rows | create, mark processing / succeeded / failed, store and load result, enqueue | database, object store, RQ |
| Worker `app/workers/` | one job at a time, one session | `process_document_job` | all of the above, document processing |
| Persistence `app/services/persistence.py`, `db/` | `documents`, `analysis_runs`, sessions | upsert document, open run, complete or fail run, commit | database |
| Synchronous route `app/routes/extraction.py` | one request per process | open run, process, complete or fail, answer | persistence, document processing |
| Object storage `app/services/storage` | objects | put, get | disk or S3 |
| Registration and tokens `app/routes/auth.py`, `app/security.py` | `users` | register, login, current user | database |
| Analyses history `app/routes/analyses.py` | none (reads runs) | list, get, download | database, API boundary |
| Document processing `app/services/document_processor.py` | none | profile, route, preprocess, extract, bound | everything below |
| Extraction pipeline and confidence `extraction_pipeline.py`, `confidence.py` | one extraction | parse, seed reasons, normalise, decide, finalise | policy, finalizer, gate |
| Review policy and finalizer `review_policy.py`, `extraction_finalizer.py`, `app/domain/` | status, reasons and nested review policy of the extraction | classify reasons, clear or force review, build evidence, reconcile | pipeline, boundary |
| Traceability and identifier gate `traceability.py`, `identifier_verification_guard.py` | identifiers of rows and document | verify, gate, sanitise | pipeline, persistence, boundary |
| Canonical reconciliation, row shaping `canonical_reconciler.py`, `row_shape_normalizer.py`, `identity_field_mapper.py`, `mechanical_table_mapper.py`, `semantic_normalizer.py`, `app/domain/` | header and rows of one extraction, suppressed identifiers, tokens | gate, merge, collapse, move, fill, reconcile | pipeline |
| Validation against standards `validator.py`, `numeric_parser.py`, `grade_registry.py` | deviations, outcomes and reasons of rows | parse, resolve, compare, aggregate | pipeline |
| Profiling, routing, page selection `document_profiler.py`, `extraction_router.py`, `evidence.py` | quality class of a PDF, evidence of a request | classify, route, pack | document processing, providers |
| Image preprocessing and OCR `preprocessing.py` | images of a page | render, vary, compress | document processing |
| Extraction providers `extraction_providers/` | none | two calls to a model: header, then rows | model services |
| Batch runner `scripts/run_batch_extraction.py`, `batch_policy.py` | files of the run directory, spend | manifest loop, resume, budget, halt | providers, pipeline |
| Observability, rate limiting | counters, buckets | count, limit | API |
| Configuration and start | settings | load | all |
| Evaluation tools | reports | score | batch output |
| Frontend `frontend/src` | a poll per upload | upload, poll, show | API |

A document takes one of three ways through the system. *Asynchronously*: an API
process stores the PDF, commits a `jobs` row, enqueues the id and answers 202;
a worker processes it, commits `documents` and `analysis_runs`, writes
`results/{job}.json` and updates the job; the client polls. *Synchronously*: the
API process commits a run as PROCESSING, processes the PDF itself, updates the
run and answers. *In a batch*: a script walks a manifest and leaves one file per
document. All three end in `run_multi_stage_extraction`, and the first two share
two tables with a unique key.

In all three a PDF is first profiled from its text and two sampled pages; the
quality class chooses the route, hence the views (contrast, binary, table crop)
made of each page, and whether identifiers are gated. Each view is compressed
until it fits. The model is asked twice, for the header and for the rows, each
time with as many views as a request holds. Its two answers then pass through
some fifteen functions that drop, move, split and copy values between header and
rows, before the document is validated against its standard, traced by its
identifiers, and decided about.

## 2. Hard behaviours, and what correct means

* **Asynchronous path.** Commits, object store calls and queue calls are
  separate steps of two processes; each can fail, a worker can die between any
  two, RQ can time a job out, declare it abandoned while it still runs, or
  deliver it again. Correct: a delivered job has its row and its PDF; a result
  never names an unfinished run or one of another user or PDF; a settled job
  stays as it is; a job that failed says so, and every accepted job ends, or is
  listed as failed by RQ.
* **SQLAlchemy sessions.** A failed flush or commit leaves the session unusable
  until `rollback()`, which nobody calls. Correct: an error handler can do its
  work on the session it gets. (It cannot: section 6.)
* **Synchronous path.** The run is committed before the work and again before
  the reply, and two except blocks may follow either. Correct: reply and run
  agree, runs only move forward, every request is answered.
* **Both at once.** `upsert_document` selects, then inserts. Correct: a conflict
  costs at most the request that met it.
* **Intake.** Two pages stand for the PDF, views that do not fit are left out
  without an error, and compression is a `while True` over truncated floats.
  Correct: a poor page is never averaged away, compression ends, and what is
  left out is not the tables the rows are read from.
* **From answer to document.** The functions between are each simple and tested
  alone; their order is not. Each may undo what an earlier one made sure of.
  Correct: a suppressed or conflicting value does not come back, a limit never
  becomes a result, a doubt once raised stays, a compliant row is traced.
* **The decision.** Six services write status, reasons and nested review policy
  of one extraction in turn; some run twice, the last ones again at every
  boundary, and each has its own list of reasons that block acceptance.
  Correct: nothing unsafe is accepted, no hard reason is lost on the way, and
  every client is shown the same analysis.
* **Batch.** The process may die between truncating and writing a file, and the
  next invocation trusts what it finds. Correct: summaries are backed by files,
  nothing is paid for twice, the budget holds.

PROJECT.json lists the hazards one by one, at their lines, with the properties
that would catch them.

## 3. Modules

```
Persistence ─┬─ JobLifecycle ─ JobInvariant ─┬─ JobRefinement ─┬─ MCJobLifecycle
             │                               │   │             └─ JobRefinement_proofs
             │                               │   └─(implements) JobContract
             │                               └─ JobLifecycle_proofs
             ├─ SyncExtract ─┬─ MCSyncExtract
             │               └─ SyncExtract_proofs
             └─ Platform (JobLifecycle + SyncExtract) ─┬─ MCPlatform
                                                       └─ Platform_proofs
CertificateText ─┬─ RowShaping ─ Reconciliation ─ Validation ─┐
MechanicalTable ─┘                                            ├─ DocumentPipeline ─┬─ MCDocument
                                                     Intake ──┘                    └─ DocumentInvariant ─ DocumentRows_proofs ─ DocumentPipeline_proofs
ReviewDecision ─ ReviewInvariant ─┬─ MCReviewDecision
                                  └─ ReviewDecision_proofs
BatchRun ─┬─ MCBatchRun
          └─ BatchRun_proofs
```

JobRefinement_proofs also uses the lemmas of JobLifecycle_proofs, and
Platform_proofs those of JobRefinement_proofs and SyncExtract_proofs, as instances
over the tables of Platform.

**Persistence** — `documents`, `analysis_runs` and the sessions that write them.
`sess[s]` is what session `s` has flushed and not committed, and whether it is
poisoned. `OpenRun` is `upsert_document` plus `create_processing_run`,
`UniqueViolation` the flush that meets `uq_user_file_sha256`, `WriteRun`
`update_run_completed` or `update_run_failed`, `CommitTables` the commit. An
insert waits while another transaction holds its key, as Postgres does. A
document is its unique key (user, file hash). The three statuses
`update_run_completed` can give a run are one here, COMPLETED; ReviewDecision
tells them apart.

**JobLifecycle** — the asynchronous path. An action is the code between two
points where somebody else can look, or a failure can strike: a SELECT, a
commit, an object store call, a queue call. `upload[p].pc` is where the async
handler of API process `p` is, `task[w].pc` where worker `w` is in
`process_document_job`; `task[w].view` is the status its identity map holds, for
the ORM writes a column only if it differs (`UpdatedStatus`).

| pc of a task | code in `app/workers/tasks.py` | actions |
|---|---|---|
| load | `get_job`, terminal check | SkipJob, LoadJob |
| mark | `mark_job_processing` | MarkProcessing |
| process | read the PDF, `process_pdf_bytes` | ProcessPdf |
| select, insert, complete, commit | `persist_analysis_from_extraction_result` | SelectDocument, InsertRun, InsertConflicts, CompleteRun, CommitRun |
| store, finish | `store_job_result`, `mark_job_succeeded` | StoreResult, MarkSucceeded |
| return | return to RQ, close session | TaskReturns |
| except | `mark_job_failed`, re-raise | HandleFailure, HandlerGivesUp |

`TaskRaises`, `TaskTimesOut` and `TaskDbError` enter the except block from where
the code can raise. RQ, Redis and the machines are external: `Deliver`,
`RequeueJob`, `AbandonJob`, `QueueLost`, `WorkerStops`. RQ's job timeout is an
exception raised wherever the function happens to be, and two kinds of failure stand
for it: a "timeout" strikes inside the try block between two database calls and
leaves the session usable (`TaskTimesOut`); an "interrupt" strikes in the middle of a
flush, a commit or a refresh, which then fails like one the database refused
(`TaskDbError`), or outside of the try block, in the except block, whose own handler
swallows it, or in the closing of the session, where nothing marks the job
(`WorkerStops`, as if the worker had died). Every failure counts
against `MaxFaults` and must be of a kind in `FaultKinds`, except the errors the
pipeline and the object store themselves may raise, which are always possible.

**JobContract** — what the jobs API promises a polling client, without queues,
sessions or commits: the abstract specification. `AnswersStand`, `IdsTellApart`
and `NothingIsTakenBack` there are what a client can conclude from it alone.
**JobRefinement** maps
JobLifecycle to it (`ImplementsContract`): `state` is the row's status,
`analyses` the committed finished runs, `live` the jobs in the hands of a
worker; `SoloInv` there is the invariant of the executions that run one job at a
time, `EveryRunHasItsJob` and `NothingPoisons` are those behind
OneAnalysisPerUpload and FailuresRecorded, and `NothingIsLost` says where an
accepted job is until it ends. **JobInvariant** holds the inductive
invariant, **JobLifecycle_proofs**
and **JobRefinement_proofs** the theorems.

**SyncExtract** — `extract_document` from the read of the upload to the reply,
with both except blocks; the handler never awaits in between, so `Capacity` API
processes serve at most that many requests at once. `ResponseInvalid` is what
FastAPI does after the return: a payload that does not fit `response_model` is
answered 500, out of reach of the except blocks, and its run stays COMPLETED.

**Platform** — both paths over the same tables (`INSTANCE`s that share the
variables of Persistence), with API processes that do one thing at a time.
**Platform_proofs** shows that each path keeps its invariant beside the other,
that the two together implement JobContract, and that their waits for one
another's documents rows end.

**Intake** — from a PDF to the requests: `QualityClass` is `profile_document`
with `_classify`, `Route` `choose_route`, `Views` the variants a route asks for,
`Bytes` the size of an encoded image (it grows with the square of the edge and
with the quality, and is the less the smoother the page), `Packed`
`pack_evidence`. A page is its text, whether it is one raster, its blur and
noise, its edge, and whether it shows a table; the pixels are left out.

**CertificateText, MechanicalTable** — the words and numbers of a certificate, by
what the code recognises in them: `ResolveGrade`, the labels inside a text,
standards, classes and sizes; `ParseNumber` (a decimal, a thousand, or in doubt),
the columns of a one-property-per-row table and what is read from them
(`LineValue`: digits, a value behind a slash, words).

**RowShaping, Reconciliation, Validation** — operators from header and rows to
header and rows, one per function of the code: the identifier gate, collapse and
backfill, identity mapping; labels, finalising and reconciliation; validation
and traceability. Of a row that is named after a property (`PropertyField`, by its
item or its grade, where the code falls back on the words of a label), `NamedLine`
is the line of a mechanical table it makes and `Collected` what
`collect_mechanical_table_rows` returns: the table of the answer, or, where there is
none and two rows are named after properties, these rows. All their cells count there
that are not known to describe the row, so that the digits (`Figures`) of a lot,
certificate or product may be read as a value.

**DocumentPipeline** — `process_pdf_bytes` and `run_multi_stage_extraction` up
to the traced document, where ReviewDecision begins:

| pc | code | actions |
|---|---|---|
| profile | `profile_document`, `choose_route` | Profile |
| pages, encode | `preprocess_pdf`, `_encode_variant_for_llm` | OpenPage, LowerQuality, Shrink, Encoded, RenderError, NoPages |
| stageA, askRows, stageB | the provider's two calls, pipeline 1032-1077 | AskMetadata, StageA, AskRows, StageB, OutputError, ProviderError |
| gate | `_apply_identifier_gate`, `_normalize_row_dict` | Gate |
| shape, tables, identity | collapse, backfill, `apply_mechanical_table_mapping`, `apply_identity_field_mapping` | Shape, MapTables, MapIdentity |
| semantics | `normalize_rows_semantics`, numeric parser, `propagate_to_rows` | Normalize |
| finalize, reconcile, assemble | `finalize_extraction_fields`, `apply_canonical_reconciliation`, the document | Finalize, Reconcile, Assemble |
| validate, trace | `validate_document`, `validate_traceability` | Validate, Trace |

`header` and `answer` keep what the model said, for the properties to compare
with; `guarded` holds the suppressed identifiers. What a model may answer are
the constants `Headers` and `LineItems`. Identifiers of the same kind (heat,
lot, ...) differ in nothing but their names for most of the code, so two of each
kind stand for all. ReviewDecision does not take the rows of this module but
ranges over every kind of row it can hand over (TypeOK states the one assumption
ReviewDecision makes of them, `ReviewConstants`). `AnswersAssumption` says what
the two schemas of `output_schemas.py` and the Python types admit of an answer: texts
where texts are asked for, confidences of the known kinds, numerals that
have a value. **DocumentInvariant** follows the answers through the steps.

Where the code tests conditions one after the other and they overlap, the models
write the guards of a CASE so that only one holds: TLA+ leaves the choice open
otherwise, TLC takes the first, the provers assume none. For the same reason a
UNION that is an operand stands in parentheses: SANY and TLAPS read it
differently without.

**ReviewDecision** — the decision, from the validated rows to the last client.
A reason is abstracted to the class the services tell apart (a confidence, an
audit remark, a hard reason of one of five kinds, a structural one, ...), a
confidence to its place among the thresholds 0.75 and 0.90, a row to what the
decision looks at; what is unusual about the document is the constant `odd`.

| action | code |
|---|---|
| ValidateTraceability, VerifyIdentifiers | `validate_traceability`, `apply_identifier_verification_guard` |
| NoteReadability, NormalizeConfidence | pipeline 1341-1371, `normalize_confidence` |
| ApplyReviewPolicy | `apply_review_policy`, with `evaluate_review_policy` and the evidence |
| FinalizeDecision, FinalizeAgain | `finalize_decision` |
| AggregateOutcome, SanitizeAndRenormalize | pipeline 1390-1424 |
| Explain | `_build_explanation_payload`, `apply_reconcile_to_extraction` |
| ApplyReviewInvariants | `apply_review_invariants` |
| ProcessPdfBytes, PersistJobAnalysis | the worker's way out |
| PersistSyncAnalysis, AnswerSync | the synchronous route's way out |
| ReadAnalysis | `GET /analyses/{id}` |

`Boundary` is `sanitize_result_for_api_boundary`, which every way out applies,
some twice. The nested review policy is shared between an extraction and the
payload made from it (the copy is one level deep), so `PersistSyncAnalysis` also
changes `doc`.

**BatchRun** — `run_batch_extraction.py` and `batch_policy.py`: the loop over
the manifest with resume, caps, budget, calls, and the three kinds of files it
writes, each of which a crash can tear.

Operators named in a comment as a *mutant of* another are wrong variants of it,
a dropped guard or a swapped order, that the property named in PROJECT.json must
detect; no specification uses them.

## 4. Runs, bounds, fairness

| Run | Asks | Instance |
|---|---|---|
| job_overlap | Do results stay owned, succeeded jobs backed and settled jobs settled under *every* kind of failure, two executions of one job included? Is `IndInv` an invariant? | 2 workers, 2 jobs, 2 users, 1 PDF, 4 failures |
| job_contract | Does the path implement JobContract, and do row and payload agree? | the same without overlap, 2 failures |
| job_healthy | With queue and database healthy, does every accepted job end, and is it terminal after every error, whatever timeouts strike inside the try block and between two database calls? | 1 worker, 2 jobs, 2 timeouts |
| job_resolved | Whatever fails but Redis, timeouts that interrupt a commit or the except block included: does a queued job end or get listed as failed, and is nothing analysed twice without a redelivery? | 2 workers, 2 jobs, 2 failures |
| sync_faults | Do replies match runs, runs move forward, requests get answers, and is no run left open without a failure? | 3 requests, 2 processes, 2 failures |
| platform_faults | Do both paths keep their promises side by side? | 1 worker, 2 processes, 2 jobs, 1 request, 2 failures |
| review | Can an unsafe document be accepted, a hard reason be lost, two clients be told different things? Is `ReviewInv` an invariant? | every document of up to 2 rows of 11 kinds with up to 2 of 15 oddities |
| batch | Are summaries backed, is nothing paid for twice, does the budget hold? | 3 documents, 2 modes, 3 invocations |
| document | Is a poor page ever averaged away, does compression end, are tables sent first? Do suppressed, conflicting or unobserved values come back, is a doubt or a grade conflict lost, is what is compliant traced? | 140 PDFs of up to 4 pages; 13 headers, 2 rows of 17 kinds, 5 mechanical tables, 6 answers with rows named after properties |
| platform_race, review_evidence, document_verified | one disagreement each, section 6 | platform_race and review_evidence minimal, document_verified as document |

Why these bounds suffice to see what can happen: a property of a job involves
that job, a second one that competes for worker, session or document key, and at
most two executions; two users with the same PDF and one user with two uploads
of it give equal and different keys. Four failures cover a crash, the redelivery
after it, a second failure in that delivery and one more. The decision looks at
rows only through "some row", "all rows" and, for `too many rows are
suspicious`, a proportion, so two rows suffice for the first two; oddities act
on disjoint classes of reasons, so that pairs show the interactions. The batch
needs three documents to have a reused, a fresh and a refused one, and three
invocations to resume from a file that a resumed invocation has left. The document
run uses the settings of `config/settings.py` except `max_pages_for_llm`, which
is 3 so that a PDF of four pages exceeds it. Its pages lie on both sides of every
threshold of the profile, its images fit at once, after lower quality, after a
shorter edge, or not at all, and its tables alone can exceed a request. Two rows
suffice to differ, to agree, to conflict with a header or a label, and to collapse
into one (three, for a table with a row per property); two different values of
a kind suffice to see which one survives. `MaxFaults`,
`MaxInvocations`, `MaxRows` and `MaxOddities` are the only bounds that are not
in the code, besides what `Files`, `Headers` and `LineItems` list; job, request and document numbers are constants. Workers, users
and jobs are interchangeable, which job_overlap and platform_faults use as
symmetry; runs with liveness properties do not.

`CHECK_DEADLOCK FALSE` everywhere: the system comes to rest when all uploads,
requests or invocations of the instance are done.

*Fairness.* `JobLifecycle!FairSpec` is weakly fair to each upload handler once
begun, to each worker's own steps and to delivery: processes run, and RQ's
worker loop takes the next job whenever it is idle. No client, no operator and
no failure is forced, and the error steps are not fair either: a worker may fail
but need not. `SyncExtract!FairSpec` is weakly fair to each started handler.
AcceptedSettles, QueuedIsResolved and RequestsAreAnswered need no more.

DocumentPipeline needs none: EncodingDescends is a safety property whose
measure (edge, quality) decreases, which ends the loop if only it runs.

What the runs show: all properties of the passing runs hold. SettledStays and
JobContract state the one exception they found necessary: RQ's timeout can
strike a redelivered, already terminal job while its row is being read
(SettledStays), or a succeeded one before it returns (`Fail` in the contract),
and turns it into a failed one. A timeout that interrupts a commit or the
except block leaves its job in `processing` (section 6); FailuresRecorded and
AcceptedSettles, which that would violate, are asked of "timeout" only, and what
remains true with "interrupt" is QueuedIsResolved. AnswerAgrees holds only while executions of a job do not
overlap, which is why it is in job_contract and not in job_overlap. In review,
no document with a blocking reason was found to be accepted even though the
finalizer knows fewer blocking reasons than the policy: what keeps it safe is
that it calls off a review only if *no* reason but confidence is left, and the
mutant that relies on its list of hard reasons instead (`EligibleByMaterial`)
accepts documents of unsupported type.

## 5. Proofs

JobLifecycle_proofs proves, for any sets of jobs, users, files, workers, API
processes and sessions, any kinds and any number of failures:

| Theorem | Statement |
|---|---|
| TypeCorrect | `Spec => []TypeOK` |
| JobsExist | `Spec => []DeliveredJobsExist` |
| ResultsAreOwned | `Spec => []ResultsOwned` |
| SucceededJobsAreBacked | `Spec => []SucceededIsBacked` |
| SettledJobsStay | `Spec => SettledStays` |
| Invariance | `Spec => []IndInv` |

They rest on `JobConstants` (the placeholders NoJob and NoDoc are no job and no
document, workers and API processes are different sessions) and
`FaultConstants`; TLC evaluates both on every run.

None of the properties is inductive. ResultsOwned needs to know that a worker
at `store` has a committed, finished run of its own document (TaskHoldsRun);
that needs the run it flushed to be the one it committed, under an id no other
worker and no committed run has (PendingIdsAreFresh); that the job whose row it
reads exists (RowsComeFirst, TasksHaveJobs), which needs upload handlers to own
the ids they have drawn (UploadsOwnTheirJob); and that a worker whose session is
poisoned does nothing but fail (PoisonedTasksFail). Even TypeOK needs these: a
row written from `task[w]` is well typed only for a job that is there. `IndInv`
is their conjunction; job_overlap checks it as an invariant. The proof first
establishes *who writes what* (`TablesWriters`, `JobsWriters`, `QueueWriters`,
...), then preservation of each conjunct, each from the few writers that can
disturb it. SettledJobsStay is proved from the same invariant with `SettledRow`:
the only steps that write a row belong to an execution past its load, which a
settled job does not have.

JobRefinement_proofs proves, for the same sets and restricted kinds of failures:

| Theorem | Statement |
|---|---|
| AnswersAgree | `NoOverlap /\ Spec => []AnswerAgrees` |
| ContractHolds | `NoOverlap /\ Spec => ImplementsContract` |
| UploadsAnalysedOnce | `IsFiniteSet(Jobs) /\ NoRedelivery /\ Spec => []OneAnalysisPerUpload` |
| FailuresAreRecorded | `OneHealthyWorker /\ Spec => []FailuresRecorded` |
| AcceptedJobsAreAtHand | `NoLoss /\ Spec => []NothingIsLost` |

`NoOverlap` is every kind of failure but "abandon": RQ does not give up on a
worker that is still running. It is needed: job_overlap has behaviours in which two executions of
one job store different results. Without them `SoloInv` holds beside `IndInv`. A job
is one token, which its upload handler, the queue, one worker or RQ's registry
has (OneToken); hence no row changes under the worker that holds its job, and
what that worker has in its identity map and its session is what the row says
(WorkersKnow), and so the result it has stored is the one it then writes to the
row. From the invariant each action maps to a step of the contract: CreateQueuedJob
to Accept, Deliver to Begin, MarkProcessing to Work, CommitRun to Analyse,
StoreResult to Publish, MarkSucceeded to Succeed, HandleFailure to Fail or, when
the row already says so, to PutDown, the other ends of an execution to PutDown;
everything else leaves the contract's variables alone.

`NoRedelivery` excludes "requeue" as well; workers may still crash, jobs time out,
the database fail and the queue be lost. OneAnalysisPerUpload compares two
cardinalities, which no step preserves by itself, since no variable says which
job a run came from. `EveryRunHasItsJob` asks for an injection instead: from the
rows of `analysis_runs`, committed or flushed, to jobs of the same document
whose one execution is past its insert (`Spent`). A spent job stays spent
(SpentStays); an insert makes its job spent, and the new row is given that job; a
row that `update_run_completed` replaces passes its job on. The cardinalities
follow by `FS_Injection`, hence the hypothesis that the table is finite.

`OneHealthyWorker` is what job_healthy runs with, and more: no database error, no
crash, no interrupt, no abandoned job, and one worker; requeues, failing enqueues,
queue losses and timeouts between two database calls of the try block are admitted.
It is as weak as it can be: after an interrupted flush or commit, and with a second
worker or a synchronous extraction beside it (platform_race), whose flush can
break the unique key of the other, the except block only logs; interrupted itself it
does not even get to the row.
`NothingPoisons` says that what `upsert_document` has not found is still not
there at its insert, so that the session lives and the block gets to
`mark_job_failed`; that this changes the row to "failed" is WorkersKnow's.

NothingIsLost is the safety half of AcceptedSettles: until an accepted job ends,
it is in the queue, with a worker, or in RQ's registry. `NoLoss` is `NoOverlap`
with Redis reached and not restarted; crashes, timeouts wherever they strike, database
errors and requeues are admitted. The one delicate step is `TaskReturns`, after which RQ
forgets the job: WorkersKnow says that its row has succeeded by then.

SyncExtract_proofs proves, for any numbers of requests, API processes, users,
PDFs and failures of any kind:

| Theorem | Statement |
|---|---|
| ExtractTypes | `Spec => []TypeOK` |
| RepliesMatchRuns | `Spec => []ReplyMatchesRun` |
| OpenRunsAreWorkedOn | `Spec => []OpenRunsAreInFlight` |
| RunsNeverReopen | `Spec => RunsMoveForward` |

ReplyMatchesRun asks something of each answer: a 200 names a COMPLETED run of the
request's own document; a 422 or 502 leaves the run it opened FAILED; a 500
comes from outside the except blocks or out of them, and stands for a COMPLETED run as
long as neither database nor process has failed, when only the check of the
payload can answer it. After a failure a 500 says nothing of its run, and no
property claims it does.

`SyncInv` adds to the types what a handler knows of its own run at each step
(`Handled`: which row is committed under its id, which is flushed, and that only a
failure leaves a poisoned session with a run behind), and that no two requests
and no two rows share an id (`IdsAreUnique`). A step touches no session but its
own and no row but the one under its id (OthersUntouched), so that what the
others know stays true. That every row has a request (`RunsHaveRequests`) is
needed only for OpenRunsAreWorkedOn and kept apart, for beside the other path it
is false.

Platform_proofs proves, for any numbers of jobs, requests, workers, API processes,
users, PDFs and failures of any kind:

| Theorem | Statement |
|---|---|
| PathsStayApart | `Spec => []PlatformInv` |
| AnswersStayBacked | `Spec => []AnswersAreBacked` |
| TablesStayConsistent | `Spec => []TablesAreConsistent` |
| KeysStayExclusive | `Spec => []KeysAreExclusive` |
| WaitsEndAtOnce | `Spec => [](\A s, t, u \in Sessions : WaitsFor(s, t) => ~WaitsFor(t, u))` |
| SettledJobsStay | `Spec => J!SettledStays` |
| RunsNeverReopen | `Spec => X!RunsMoveForward` |
| AnswersAgree | `NoOverlap /\ Spec => []J!AnswerAgrees` |
| AcceptedJobsAreAtHand | `JP!NoLoss /\ Spec => []JP!NothingIsLost` |
| ContractHolds | `NoOverlap /\ Spec => Contract!Spec` |
| ContractIsWorthIt | `Contract!Spec => [](Contract!AnswersStand /\ Contract!IdsTellApart) /\ Contract!NothingIsTakenBack` |

They rest on `PlatformConstants` (sessions are those of the API processes, the
workers and the requests, each of its own) and `FaultConstants`. The argument is
by rely and guarantee. Each path keeps its own invariant, `IndInv` or `SyncInv`, by
its own steps: that is proved in its module and cited here. What remains is that
the other path's steps keep it too. They write the same three variables, so each
module first says what its steps may do to them (JobWrites, RequestWrites): flush
and commit rows of the writer's session only, and rows of `analysis_runs` only under
an id that is new or that the writer has. `JobFrame`, `TaskRun` and
`RequestFrame` then say which facts of the other path such a step leaves. They hold
because the ids of the two are apart, which is the one thing neither path can
know of itself: `RunIdsApart` says that no job, result or worker, nor a row a worker
has flushed, has the id of a request or one that has not been handed out.
TablesStayConsistent needs in addition that a document found by
`upsert_document` is still there when the run that names it is flushed and
committed, by whichever path (`LookupsHold`, `FlushedRuns`,
`RunsHaveDocuments`): no step of either deletes a documents row, and a session
that loses the race for one inserts nothing. TLC checked `PlatformInv`, with Nat
cut at 12, on the instance of platform_faults before it was proved.

KeysStayExclusive and WaitsEndAtOnce are about `uq_user_file_sha256`. An INSERT waits as
long as another transaction holds its key; a transaction waits only there, and
`KeyHolders` says that one which holds a key is past its insert: a worker from
`complete` to its commit or its except block, a request at its first commit. So
no wait hangs on another wait, and the two paths cannot deadlock on this key. (Locks of
rows that are updated are not modelled: a run's row is updated by the session
that inserted it, a job's right before its commit.) TLC checked `KeyHolders` and
`KeysAreExclusive` on the instance of platform_faults with one failure and on one with two workers before
they were proved.

The rest of the table carries what was proved of each path alone over to the
service. For the settled jobs and the jobs at hand the lemmas of
JobRefinement_proofs are cited for the steps of the job path; a request
leaves what they speak of alone. For the runs it is the other way round: a
request's step is SyncExtract_proofs' (`RunMoves`), and a worker commits only
rows under new ids. The contract needs a mapping of its own. To
JobRefinement a finished analysis is any COMPLETED row, but a synchronous
request may turn its COMPLETED row FAILED, which JobContract does not allow:
analyses are never taken back. `JobAnalyses` therefore leaves out the rows
under the ids of requests. A step of the job path is already known to be a
step of the contract under the old mapping; it is one under the new mapping
because the run it finishes or publishes has no request's id
(`NewAnalysisIsOfJob`, `PublishedIsOfJob`, by `RunIdsApart`), and a step of a
request is a stutter (`ContractRequestStep`). ContractIsWorthIt says what a client can
conclude from the contract without knowing the system at all. TLC
checked these six on the instance of platform_faults with one failure, and on one with
two workers and none, before they were proved.

Of the other properties of the paths, FailuresRecorded, OpenRunsAreInFlight and
OneAnalysisPerUpload are not carried over: the first is false here (section 6), the
other two take every row for one of their own path.

BatchRun_proofs proves, for manifests of any length, any costs, limits and modes,
and any number of invocations and crashes:

| Theorem | Statement |
|---|---|
| BatchTypes | `Spec => []TypeOK` |
| BudgetIsKept | `Spec => []BudgetHolds` |
| AggregateIsComplete | `Spec => []AggregateCovers` |
| PaidAtMostOnce | `Spec => NothingPaidTwice` |
| SummariesAreBacked | `AlwaysResumes /\ Spec => []SummaryIsBacked` |

`InPlace` says where the loop is: it has left one row for each document before
the current one, and it calls the model and writes only for a document whose
file it has seen to be no use, with money left. `BackedInv` follows each OK row
to the file it stands for. `AlwaysResumes` says that use_resume is not switched off:
an invocation that does not resume truncates files which the summary of an
earlier one still counts, and may die before it writes them again.

ReviewDecision_proofs proves, for documents of any length, rows of any kind the
validator leaves and any oddities at once:

| Theorem | Statement |
|---|---|
| ReviewInvariant | `Spec => []ReviewInv` |
| ReviewTypes | `Spec => []TypeOK` |
| AcceptanceIsSafe | `Spec => []AcceptedIsSafe` |
| BlockedStaysReviewed | `Spec => []BlockedIsReviewed` |
| RunsAreNoBolder | `Spec => []RunIsNoBolder` |
| HardReasonsAreKept | `Spec => HardReasonsStay` |
| AllClientsAgree | `Spec => []ClientsAgree` |

RunIsNoBolder does not say that row and payload agree: they need not (section 6). It
bounds what a run not listed as NEEDS_REVIEW may hide: its payload may ask for a
review, but its status does not, the document is supported and no severe scan, each
row is compliant and verified, and no reason the payload carries, its policy's
included, blocks acceptance.

They rest on `ReviewConstants`: a row that is not compliant has deviations, as
the validator sees to. (Were it not so, `eligible_for_confidence_exempt_material`
could take a document with outcome COMPLIANT and a row that was not validated
for a compliant one.) `Settled`, in ReviewInvariant, is the idea of the proof.
Once the policy has judged a document, whatever may lower its review — no
request, a policy that requires none, an accepting status or decision — is there
only if the document is *clear*: all rows compliant, no severe scan, a supported
type, no blocking reason. Later services look at less than that, which is why
they are safe only because a severe scan and an unsupported type have left a
reason in the document's own list (`Marked`), because the reasons they add
again were there before (`Miscounted`, `Conflicting`), because a policy's reasons
are among the document's, and because rows that are not settled have left a
legacy reason before the policy looks (`Unsettled`). Every service has a lemma
on what it changes (`...Effect`) and one that it keeps a document settled
(`...Settles`), and every action one that cites them.

A payload passes the boundary once, twice or three times on its way to a client,
so AllClientsAgree is to say that `Boundary` is idempotent (`BoundaryTwice`), for documents
of any kind: an accepted payload whose certificate number is not verified is
sent to review by the sanitizer each time and accepted again each time, a
blocked one loses its confidence reasons once, and the policy, once overwritten,
is not changed further. `BoundaryShared` is the same for the extraction that the
synchronous route answers from after its policy has become that of the stored
payload. `FinishedFrom` says what the finalizer makes of each field, and
`Through` which payloads have been through the boundary at which stage.

DocumentPipeline_proofs proves, for any PDFs and answers and, but for the first, any settings:

| Theorem | Statement |
|---|---|
| CompressingDescends | `SmallImagesFit => (Spec => EncodingDescends)` |
| ShortImagesStartAgain | `Spec => ShortImagesStart` |
| PoorSamplesGated | `Spec => []PoorSamplesAreGated` |
| DocumentCorrect | `Spec => [](EncodingInv /\ DocumentInv)` |
| DocumentTyped | `Spec => []TypeOK` |
| IdentifiersAdmitted | `Spec => []IdentifiersAreAdmitted` |
| ResultsObserved | `Spec => []ResultsAreObserved` |
| ImplausibleDoubted | `Spec => []ImplausibleIsDoubted` |
| ConflictsEmpty | `Spec => []ConflictsStayEmpty` |
| GradeConflictsReported | `Spec => []GradeConflictIsReported` |
| ComplianceEarned | `Spec => []CompliantIsEarned` |
| TablesFirst | `Spec => []TablesComeFirst` |
| RequestsFitTheCap | `Spec => []RequestsFit` |

They rest on `AnswersAssumption` (section 3), `FilesAssumption` (a page has scores
and an edge in Nat, and has a table or not), `RequestAssumption` (the number of
pages shown and the cap of a request are in Nat) and `EncodingAssumption` (edges in Nat and not 0, quality and target in
Nat).

That the loop ends takes a hypothesis, which nothing in the code asks of the
settings: `SmallImagesFit`, an image below the smallest edge fits at low quality. It
holds of the default settings, which MCDocument assumes for its run
(`SettingsFit`), and it is needed: `_downscale_to_max_edge` truncates a float and
may land one pixel below the edge it was asked for, a smallest edge above the longest
lets every image start below it, and ShortImagesStartAgain says what happens there
without the hypothesis: such an image is not shortened, and its qualities are tried
again from the first. `EncodingInv` says that the
loop works on an image of the current page at a quality that steps of 8 lead to;
`ShrinkTypes` that no image is lengthened, and `ReducedAreLong` that, where
small images fit, only one longer than `MinEdge` is reduced; the steps
of all other actions leave the loop's state (`OtherStepsLeave`). For the gate,
`SampleOfTwo` and `WorstScores` say that the scores of a document are attained
by, and bound, those of its sampled pages, and `PoorScores` that no combination
of text and other pages takes such a document out of the gated classes.

The other theorems are about the path from the model's answers to the traced document,
for any number of rows and table lines. Their properties speak of its end
only, and none is inductive: `DocumentInv` says what holds at each step. Its
core is `RowFrom` and `HeaderFrom`: every identifier is among `Sources`
(admitted by the gate, or behind its label), every text is one whose labels tell
nothing else (`Clean`), every value is among those observed, and after the numeric parser
among their parsed forms. DocumentRows_proofs has a lemma for each function of
the code that it keeps these (`ShapedFrom`, `MappedFrom`, `WithTableFrom`,
`NormalizedFrom`, `FinalizedFrom`, `ReconciledFrom`), each resting on one for
each kind of text or cell it looks at (`NamedLineCells` and `FiguresAreNumerals` for
the rows taken for a table); DocumentPipeline_proofs has one for each
action. The texts must be followed too, for labels in a product or grade text
become identifiers two functions later. Beside that the invariant keeps what a
later function may no longer see: the header's confidences, which
reconciliation reads as a text (ConfidencesRead); that a product or grade of the
header taken from labels contradicts a label and not only itself
(TakenFromTexts); that the rows' own grades are still there while the number of
rows is (GradesInv); and that doubts once in `tokens` reach the document
(DoubtsInv). `DocumentInv` was checked by TLC on the instance of the run document
before it was proved.

TablesComeFirst and RequestsFit are about loops: `pack_evidence` adds what still
fits, `estimate_request_bytes` sums, `OfRole` filters, the pages' blocks are
joined. The model writes these as folds, and what a fold comes to for every
sequence needs an induction. The library's theorems of induction take an operator
as a parameter, so the section *folds* states one for a *set* of numbers instead
(`CountingUp`, `CountingTo`), from the fact that a nonempty set of naturals has a
least member. With it each fold is the end of a chain of values, one for each index,
in which a step leads from each to the next (`FoldExists`, `FoldChain`); after that
only steps are reasoned about. `FilledFits` says that a chain of packing stays
under the cap, `FilledKeepsFirst` that what fits as a whole at the head of the
order is kept whole, `OfRoleIsComplete` and `FlattenIsComplete` that filtering and
joining lose no block; `EvidenceInv` carries the packed request from the
preparation of the pages to the two calls. TLC checked EvidenceInv and
RequestsFit on the instance of document before they were proved.

Only model-checked: the liveness properties AcceptedSettles, QueuedIsResolved and
RequestsAreAnswered; the prover has no rule for fairness, nor for ENABLED.
NothingIsLost is the part of the first two that can be proved. No module uses
RECURSIVE operators.

## 6. Disagreements found

* **platform_race / FailuresRecorded.** A synchronous request and a worker
  insert the same document; the worker's flush violates the unique key, and its
  except block then calls `mark_job_failed` on the session that flush has
  poisoned (`app/workers/tasks.py:77`). The job stays in `processing`, though
  `tests/test_worker.py:139` expects `failed`. No failure of the infrastructure
  is needed.
* **review_evidence / AcceptanceHasEvidence.** A complete and compliant document
  traced by another identifier than a heat number: the policy decides
  `review_required`, for heat_number is mandatory there, but asks for no review;
  `app/services/extraction_finalizer.py:801` rewrites the decision to
  `auto_accept`, and no `auto_accept_evidence` is attached, which
  `README.md:49` requires.

* **document_verified / VerifiedIsBacked.** The header's heat number was read
  without confidence, a row's own and different one with confidence. In
  `apply_canonical_reconciliation` the header's value outranks the row's
  (`app/services/canonical_reconciler.py:364`), the row keeps the confidence of
  the cell it lost, and `validate_traceability` finds the header's number
  VERIFIED. Nothing is said of the conflict. `app/domain/header_propagation.py:14`
  promises never to overwrite an explicit row-level value with a weaker header
  value; for the grade, which that module handles, it is so.

Met while modelling, without a run of their own; the models do what the code does:

* A job timeout that interrupts a flush or a commit of the worker leaves its session
  without a rollback, and one that strikes in the except block is swallowed there:
  either way the job stays in `processing` while database and queue are healthy,
  and the log is all that tells of it (`app/workers/tasks.py:76-81`). For a poisoned
  session that is the disagreement of platform_race, reached another way.
* A payload that `response_model` refuses is answered 500 over a run that stays
  COMPLETED (`app/routes/extraction.py:66` and 169).
* `app/services/batch_policy.py:61` says that documents of severe scans are recorded as
  `SKIPPED_SEVERE_SCAN`; `scripts/run_batch_extraction.py:188` writes SKIPPED, and
  nothing in the repository writes the other. SummaryIsBacked speaks of OK rows and is
  silent on the name.
* `mechanical_table_mapper.py:1` aims at the observed Results column; where the model
  gave no table, lines 726-732 take rows named after a property for one, and the
  digits of a lone lot, certificate or product cell ("L1000") are then a result.
  ResultsAreObserved allows for just that.
* Nothing validates `llm_image_min_edge`: with one below which an image need not fit
  the loop of `preprocessing.py:105` does not end (ShortImagesStartAgain).

* `mark_job_failed` commits the run that `create_processing_run` has flushed: an
  error before `update_run_completed` leaves a committed PROCESSING run that
  nobody updates (`app/workers/tasks.py:79`; `app/services/persistence.py:167`
  speaks of completed extractions). ResultsOwned: it is never taken for a result.
* A 429 arrives in the batch as an HTTPException of status 502, so
  `record_rate_limit` is never called, and the halt after two limits that
  `app/services/batch_policy.py:71` describes does not happen.
* `select_pages` in the batch gets pages already cut to its cap and returns all
  of them, though `scripts/run_batch_extraction.py:222` says it picks the most
  informative ones.
* One row's heat number is promoted to the header if all rows that show one agree
  (`promote_unique_header_fields`), and reconciliation then fills the blank heat
  of the other rows with it; the prompt (`extraction_pipeline.py:291`) forbids
  the model just that.
* The words of the header's confidences are scanned as texts: `certificate_date`
  may become "0.9", and a confidence of three decimals an identifier. A labelled
  "Delivery date" may override the certificate's date.
* The doubts of table cells are dropped on the way into rows
  (`mechanical_table_mapper.py:220`), values the gate has dropped as doubtful may
  come back through the table, and the collapse of one-property-per-row tables
  loses `needs_review`, complete rows and all groups but the first.
* An unresolved grade of the header is copied to rows all the same (against
  `header_propagation.py:115`), a suppressed `item_id` survives as `pipe_id`
  (`extraction_pipeline.py:839`), and once rows were reshaped the reported number
  of rows is replaced by the counted one (`extraction_pipeline.py:1267`), so
  that the two can no longer disagree.

Two more consequences that no document denies, and which the properties
therefore allow for. A document without a verified certificate or order number
may have `status` NEEDS_REVIEW in its row and AUTO_ACCEPT in its payload
(`persistence.py:64`). And `apply_review_invariants` asks for a review without
touching the status (`review_invariants.py:69-70`), so that a run may be listed as
COMPLETED beside a payload with `needs_review` true; RunIsNoBolder says what such a
run cannot hide.

## 7. Not modelled, and why

* *What the model reads in an image, and the libraries that render, filter and
  encode it*: any answer of `Headers` and `LineItems` may come, any listed page be
  rendered. Of the preprocessing the decisions are modelled, not the pixels;
  all views of a page are taken to be alike in size, and the PNG that
  `adaptive_binary` tries first is left out. `ocr_service.py` is imported by
  nothing in the runtime.
* *Parsing of the model's JSON, chemistry, weights and lengths, alias columns,
  `table_parser.py`*: they take the same way as the mechanical values or feed
  columns to it. The registries are represented by a few grades, labels and
  shapes of text, one for each branch that tells them apart; a labelled item or
  pipe id, the specification status "unresolved" (which no entry of the registry
  reaches) and rows without mechanical properties are left out, and of the cells a row
  named after a property may be read from, batch, colata and order stand with the lot.
* *`page_selector.py`*: without effect, section 6.
* *The arithmetic of the confidence*: any confidence its caps allow may result.
* *`analysis_items` rows, `page_count`, file names, logging, metrics, rate
  limiting*: nothing modelled depends on them.
* *Registration and tokens*: one insert under a unique address; *the frontend*:
  presentation and a poll, whose promise JobContract states; *evaluation*: an
  offline comparison with gold data. A lost message between processes does not
  occur as such: all communication is by HTTP calls, Redis and Postgres, whose
  failures are modelled.

## 8. Plan

Done: Persistence, JobLifecycle with invariant, contract, refinement and proofs;
SyncExtract, BatchRun and Platform with proofs, the contract for the whole
service included; ReviewDecision with invariant and
proofs; Intake and the path from the model's answer to the traced document, with
invariant and proofs. What would come next, in this order:

1. *DocumentPipeline and ReviewDecision composed*: the rows of one as the input
   of the other, instead of an assumption that TypeOK of the first checks.
2. *An abstract specification of the decision* (a document is open, accepted or
   in review; evidence and reasons only grow) that ReviewDecision implements.
3. *The frontend's poll* and its ten minute deadline, composed with
   JobLifecycle; *registration* and its unique address.
