--------------------------- MODULE ReviewDecision ---------------------------
(***************************************************************************)
(* How a document is accepted without a person: the last part of           *)
(* run_multi_stage_extraction, from the validated rows on, then what the   *)
(* worker, the synchronous route and the history API make of the result.   *)
(*                                                                         *)
(* Six services write the same few fields one after the other, each with   *)
(* its own idea of which review reasons matter: traceability.py,           *)
(* identifier_verification_guard.py, confidence.py, review_policy.py,      *)
(* extraction_finalizer.py and review_invariants.py.  A reason is          *)
(* abstracted to the class these services tell apart, a confidence to its  *)
(* place among the two thresholds, a row to what the decision looks at.    *)
(***************************************************************************)
EXTENDS Naturals, Sequences, FiniteSets

CONSTANTS
  RowKinds,    \* rows as the validator may leave them
  MaxRows,     \* bound: rows of a document
  MaxOddities  \* bound: what is unusual about one document

RowOutcomes == {"COMPLIANT", "NON_COMPLIANT", "NEEDS_REVIEW", "NOT_VALIDATED"}

(* The traceability identifier that was verified in a row.  Rows that show *)
(* an unverified heat number beside another, verified one are left out.    *)
Identifiers == {"heat", "other"}

(* missing is a critical field of the row without a value: the weight or   *)
(* length, or the grade or a mechanical property.                          *)
Rows == [outcome : RowOutcomes, deviates : BOOLEAN, flagged : BOOLEAN,
         id : Identifiers \cup {"none"},
         missing : {"nothing", "weight", "mechanical"}]

ASSUME ReviewConstants ==
  /\ RowKinds \subseteq Rows
  /\ \A r \in RowKinds : r.outcome # "COMPLIANT" => r.deviates
  /\ MaxRows \in Nat /\ MaxOddities \in Nat

(* Classes of review reasons.                                              *)
ConfidenceOnly == {"confidence"}
Diagnostic == {"blur", "visual"}         \* dropped at high confidence
SoftAudit == Diagnostic \cup {"lowRow"}
Hard == {"identifier", "doubt", "missing", "conflict", "severe"}
PolicyBlocking == Hard \cup {"structure"} \* the finalizer lets it pass
Reasons == ConfidenceOnly \cup SoftAudit \cup PolicyBlocking
             \cup {"numeric", "legacy", "manyRows"}

(* What may be unusual about a document: unsupported type, severe scan,    *)
(* blurred pages, certificate or order number not verified, identifiers    *)
(* partly hidden, characters OCR confuses, remarks that mention noise, a   *)
(* row of low confidence, a wrong row count, numeric doubts (out of the    *)
(* category's band or not); output that fails its schema, identifiers      *)
(* suppressed while parsing, conflicting candidates, other tokens.         *)
Seeds == {"structure", "identifier", "conflict", "numeric", "legacy"}
Oddities == Seeds \cup {"unsupported", "severe", "blurred", "unnumbered",
              "occluded", "confusable", "remarks", "weakRow", "miscounted",
              "outOfBand"}

Statuses == {"none", "NEEDS_REVIEW", "COMPLETED", "AUTO_ACCEPT"}

VARIABLES
  stage,   \* how far the document has come
  odd,     \* what is unusual about it
  doc,     \* the UniversalDocumentExtraction
  run,     \* status of its analysis_runs row
  stored,  \* raw_response_json of that row
  served   \* the payload last given to a client

vars == <<stage, odd, doc, run, stored, served>>

Stages == {"validated", "traced", "guarded", "noted", "assessed", "judged",
           "finalized", "aggregated", "sanitized", "recalibrated",
           "explained", "extracted", "processed", "committed", "stored"}

(* policy is the ReviewDecision; once explained it is part of the          *)
(* extraction, as explanation.review_policy.                               *)
Policies == [decision : {"none", "auto_accept", "review_required"},
             required : BOOLEAN, reasons : SUBSET Reasons,
             evidence : BOOLEAN, explained : BOOLEAN]

NoPolicy == [decision |-> "none", required |-> FALSE, reasons |-> {},
             evidence |-> FALSE, explained |-> FALSE]

Documents == [rows : Seq(Rows), reasons : SUBSET Reasons, needs : BOOLEAN,
              status : Statuses, outcome : RowOutcomes,
              conf : {"low", "mid", "high"}, evidence : BOOLEAN,
              policy : Policies]

(* No payload yet.                                                         *)
NoPayload ==
  [rows |-> <<>>, reasons |-> {}, needs |-> FALSE, status |-> "none",
   outcome |-> "NOT_VALIDATED", conf |-> "low", evidence |-> FALSE,
   policy |-> NoPolicy]

----------------------------------------------------------------------------
(* What the services ask of a document                                     *)

(* aggregate_document_outcome.                                             *)
Aggregate(rows) ==
  LET outcomes == {rows[i].outcome : i \in DOMAIN rows} IN
  IF "NON_COMPLIANT" \in outcomes THEN "NON_COMPLIANT"
  ELSE IF "NEEDS_REVIEW" \in outcomes THEN "NEEDS_REVIEW"
  ELSE IF "COMPLIANT" \in outcomes THEN "COMPLIANT"
  ELSE "NOT_VALIDATED"

AllCompliant(d) ==
  /\ d.rows # <<>>
  /\ \A i \in DOMAIN d.rows : d.rows[i].outcome = "COMPLIANT"

RowsVerified(d) ==
  /\ d.rows # <<>>
  /\ \A i \in DOMAIN d.rows : d.rows[i].id # "none"

(* A document is verified by an identifier every row is verified by.       *)
DocumentVerified(d) ==
  /\ d.rows # <<>>
  /\ \E f \in Identifiers : \A i \in DOMAIN d.rows : d.rows[i].id = f

FlaggedRows(d) == {i \in DOMAIN d.rows : d.rows[i].flagged}

(* eligible_for_confidence_exempt_material: confidence need not matter.    *)
Material(d) ==
  /\ d.outcome = "COMPLIANT" \/ (AllCompliant(d) /\ FlaggedRows(d) = {})
  /\ RowsVerified(d)
  /\ \A i \in DOMAIN d.rows : /\ ~d.rows[i].deviates
                              /\ d.rows[i].missing = "nothing"

(* A critical field has a value if some row has one.                       *)
Somewhere(d, m) == \E i \in DOMAIN d.rows : d.rows[i].missing # m

HeatSomewhere(d) == \E i \in DOMAIN d.rows : d.rows[i].id = "heat"

(* _build_auto_accept_evidence for acceptable scan and confidence.         *)
EvidenceHolds(d) ==
  /\ Somewhere(d, "weight") /\ Somewhere(d, "mechanical")
  /\ DocumentVerified(d) /\ RowsVerified(d)
  /\ AllCompliant(d)
  /\ "unsupported" \notin odd

(* All the reasons a payload carries, nested ones included.                *)
CarriedReasons(d) ==
  d.reasons \cup (IF d.policy.explained THEN d.policy.reasons ELSE {})

(* _payload_has_hard_auto_accept_blockers.                                 *)
Blocked(d) ==
  \/ d.policy.explained /\ "severe" \in odd
  \/ CarriedReasons(d) \cap Hard # {}

(* Mutant of Eligible: only hard reasons stand in the way.                 *)
EligibleByMaterial(d) == ~Blocked(d) /\ Material(d)

(* eligible_for_confidence_exempt_reconcile: no reasons at all count as    *)
(* confidence alone if a review is asked for.                              *)
Eligible(d) ==
  /\ ~Blocked(d)
  /\ Material(d)
  /\ d.reasons \subseteq ConfidenceOnly
  /\ d.reasons = {} => d.needs

----------------------------------------------------------------------------
(* What they do to it                                                      *)

(* _ensure_review_policy_matches_auto_accept.                              *)
AutoAccepting(policy) ==
  [policy EXCEPT !.decision = "auto_accept", !.required = FALSE,
                 !.reasons = @ \ ConfidenceOnly]

EnsurePolicyMatches(d) ==
  IF Blocked(d) \/ d.needs \/ ~d.policy.explained THEN d
  ELSE [d EXCEPT !.policy = AutoAccepting(@)]

(* _attach_auto_accept_evidence.                                           *)
WithEvidence(d) ==
  IF d.status = "AUTO_ACCEPT"
  THEN [d EXCEPT !.evidence = @ \/ EvidenceHolds(d)] ELSE d

Accepted(d) ==
  WithEvidence(EnsurePolicyMatches(
    [d EXCEPT !.reasons = @ \ ConfidenceOnly, !.needs = FALSE,
              !.status = "AUTO_ACCEPT", !.outcome = "COMPLIANT"]))

(* _apply_confidence_exempt_decision.                                      *)
Calibrated(d) ==
  IF Eligible(d) THEN Accepted(d)
  ELSE IF Blocked(d) THEN [d EXCEPT !.reasons = @ \ ConfidenceOnly]
  ELSE d

(* reconcile_final_document_decision.                                      *)
Reconciled(d) ==
  EnsurePolicyMatches(IF Eligible(d) THEN Accepted(d) ELSE d)

(* The rows in S are marked as in doubt.                                   *)
Flag(r, b) == [r EXCEPT !.flagged = @ \/ b]

Flagging(d, S) ==
  [d EXCEPT !.rows = [i \in DOMAIN d.rows |-> Flag(d.rows[i], i \in S)]]

(* A row field that is not among the accepted values is suppressed when    *)
(* the row's identifiers are not all visible and a reason speaks of them.  *)
Suppressed(d, i) ==
  \/ d.rows[i].id = "none"
  \/ "occluded" \in odd /\ d.reasons \cap {"identifier", "visual"} # {}

(* sanitize_unverified_traceability_for_user.                              *)
Sanitized(d) ==
  [Flagging(d, {i \in DOMAIN d.rows : Suppressed(d, i)}) EXCEPT
     !.needs = @ \/ "unnumbered" \in odd,
     !.status = IF "unnumbered" \in odd THEN "NEEDS_REVIEW" ELSE @]

(* sanitize_result_for_api_boundary.                                       *)
Boundary(d) == WithEvidence(Reconciled(Calibrated(Sanitized(d))))

WithReasons(d, found) == [d EXCEPT !.reasons = @ \cup found]

Asking(d) == [d EXCEPT !.needs = TRUE]

(* Mutant of Ranked: the policy's words instead of the status's.           *)
RankedAsDecision(d) ==
  [d EXCEPT !.status = IF d.needs THEN "review_required" ELSE "auto_accept"]

Ranked(d) == [d EXCEPT !.status = IF d.needs THEN "NEEDS_REVIEW"
                                             ELSE "COMPLETED"]

(* The class c if the document has one of the oddities o.                  *)
If(c, o) == IF o \cap odd # {} THEN {c} ELSE {}

(* validate_traceability: a compliant row without a verified identifier is *)
(* downgraded, and so is a compliant document.                             *)
Downgraded(r) == r.outcome = "COMPLIANT" /\ r.id = "none"

Downgrade(r) ==
  IF Downgraded(r)
  THEN [r EXCEPT !.outcome = "NEEDS_REVIEW", !.deviates = TRUE,
                 !.flagged = TRUE]
  ELSE r

Traced(d) ==
  LET rows == [i \in DOMAIN d.rows |-> Downgrade(d.rows[i])]
      untraced == Aggregate(rows) = "COMPLIANT" /\ ~DocumentVerified(d)
      outcome == IF untraced THEN "NEEDS_REVIEW" ELSE Aggregate(rows)
      traced == [d EXCEPT !.rows = rows, !.outcome = outcome]
  IN IF untraced \/ \E i \in DOMAIN d.rows : Downgraded(d.rows[i])
     THEN [Asking(WithReasons(traced, {"identifier"}))
             EXCEPT !.status = "NEEDS_REVIEW"]
     ELSE traced

(* apply_identifier_verification_guard: the rows in S, or the document,    *)
(* have an identifier with characters that OCR confuses.                   *)
Guarded(d, S) ==
  Flagging(Asking(WithReasons(d, {"doubt"})), S)

(* The readability and row checks of run_multi_stage_extraction.           *)
Noted(d) ==
  LET noted == WithReasons(d,
                 If("legacy", {"remarks"}) \cup If("lowRow", {"weakRow"})
                 \cup (IF FlaggedRows(d) # {} THEN {"visual"} ELSE {})
                 \cup (IF d.rows = <<>> THEN {"structure"} ELSE {}))
  IN IF "remarks" \in odd \/ FlaggedRows(d) # {} THEN Asking(noted) ELSE noted

(* What caps the confidence below the review threshold.                    *)
CappedLow(d) ==
  d.rows = <<>> \/ odd \cap {"blurred", "miscounted", "structure"} # {}

(* Mutant of NormalReasons: the list starts empty.                         *)
NormalReasonsAfresh(d) ==
  If("blur", {"blurred"}) \cup If("conflict", {"miscounted"})
    \cup (IF d.conf = "low" THEN {"confidence"} ELSE {})

(* normalize_confidence: the reasons it returns.  It recomputes the same   *)
(* confidence whenever it is called.                                       *)
NormalReasons(d) ==
  LET unresolved == \E i \in DOMAIN d.rows :
                      d.rows[i].outcome \in {"NEEDS_REVIEW", "NOT_VALIDATED"}
      found == d.reasons \cup If("blur", {"blurred"})
                 \cup If("conflict", {"miscounted"})
                 \cup (IF unresolved \/ d.rows = <<>> THEN {"legacy"} ELSE {})
                 \cup (IF d.conf = "low" THEN {"confidence"} ELSE {})
  IN found \ ((IF d.conf = "high" THEN Diagnostic ELSE {})
                 \cup (IF Material(d) THEN {"confidence"} ELSE {}))

(* The first call, with the final confidence c.                            *)
Normalized(d, c) ==
  LET scored == [d EXCEPT !.conf = c]
      reasons == NormalReasons(scored)
  IN Ranked([scored EXCEPT !.reasons = reasons, !.needs = reasons # {}])

(* apply_review_policy, step by step.  First the tokens it derives itself. *)
Structured(d) ==
  (IF d.rows # <<>> /\ ~Somewhere(d, "mechanical") THEN {"missing"} ELSE {})
    \cup If("structure", {"unsupported"}) \cup If("severe", {"severe"})
    \cup (IF \E i \in DOMAIN d.rows : d.rows[i].outcome = "NON_COMPLIANT"
          THEN {"conflict"} ELSE {})
    \cup (IF d.rows = <<>> THEN {"conflict"} ELSE {})
    \cup (d.reasons \cap {"identifier", "doubt", "numeric"})
    \cup (IF d.conf = "low" /\ ~Material(d) THEN {"confidence"} ELSE {})

(* Numeric doubts are dropped when every value is in the category's band.  *)
WithoutInBandDoubts(d) ==
  IF d.rows # <<>> /\ "outOfBand" \notin odd
  THEN [d EXCEPT !.reasons = @ \ {"numeric"}] ELSE d

(* bypass_structured_review.                                               *)
Bypassed(d) ==
  /\ Structured(d) = {} /\ d.reasons \cap PolicyBlocking = {}
  /\ d.conf = "high" /\ AllCompliant(d) /\ FlaggedRows(d) = {}

Blockers(d) == (Structured(d) \cup d.reasons) \cap PolicyBlocking

(* The two other ways a review is called off: confidence does not matter,  *)
(* or every reason is soft.                                                *)
CalledOff(d) ==
  /\ Blockers(d) = {}
  /\ AllCompliant(d)
  /\ \/ Material(d) /\ Structured(d) = {}
     \/ /\ d.reasons \cup Structured(d) # {}
        /\ d.reasons \cup Structured(d) \subseteq SoftAudit
        /\ FlaggedRows(d) = {}
        /\ d.conf # "low"

(* The document after the policy has settled reasons and review.           *)
Reviewed(d) ==
  LET combined == d.reasons \cup Structured(d) IN
  [d EXCEPT
     !.reasons = IF Bypassed(d) THEN combined \ ConfidenceOnly ELSE combined,
     !.needs = ~Bypassed(d) /\ ~CalledOff(d)
                 /\ (d.needs \/ combined # {})]

(* evaluate_review_policy: every mandatory field has a value somewhere.    *)
PolicyAccepts(d) ==
  /\ ~d.needs
  /\ HeatSomewhere(d) /\ Somewhere(d, "mechanical")
  /\ d.conf # "low" \/ Material(d)
  /\ odd \cap {"unsupported", "severe"} = {}
  /\ d.reasons \cap PolicyBlocking = {}

(* apply_review_policy.  Without evidence the policy asks for a review.    *)
Judged(d0) ==
  LET d == WithoutInBandDoubts(d0)
      reviewed == Reviewed(d)
      accepts == PolicyAccepts(reviewed)
      backed == accepts /\ EvidenceHolds(reviewed)
      required == reviewed.needs \/ (accepts /\ ~backed)
      policy == [decision |-> IF backed THEN "auto_accept"
                                        ELSE "review_required",
                 required |-> required, evidence |-> backed,
                 reasons |-> reviewed.reasons \cup Structured(d),
                 explained |-> FALSE]
  IN Ranked([reviewed EXCEPT !.needs = required, !.policy = policy])

(* policy_auto_cleared: no review required, which leaves no structured     *)
(* reason, at high confidence.                                             *)
AutoCleared(d) == ~d.policy.required /\ d.conf = "high"

(* The document's outcome is drawn from its rows once more.                *)
Aggregated(d) ==
  LET outcome == Aggregate(d.rows) IN
  Ranked([d EXCEPT
            !.outcome = outcome,
            !.needs = @ \/ (outcome = "NEEDS_REVIEW" /\ ~AutoCleared(d))])

(* Sanitizing, the second normalize_confidence, and the status after it.   *)
Renormalized(d0) ==
  LET d == Sanitized(d0)
      reasons == NormalReasons(d)
      merged == WithReasons(d, reasons)
  IN IF AutoCleared(d)
     THEN [merged EXCEPT !.needs = FALSE, !.status = "COMPLETED"]
     ELSE IF d.needs \/ reasons # {}
     THEN [merged EXCEPT !.needs = TRUE, !.status = "NEEDS_REVIEW"]
     ELSE merged

(* _build_explanation_payload: the explanation repeats the document's      *)
(* reasons; the reconciliation follows.                                    *)
Explaining(policy, reasons) ==
  [policy EXCEPT !.explained = TRUE, !.reasons = @ \cup reasons]

Explained(d) ==
  Reconciled([d EXCEPT !.policy = Explaining(@, d.reasons)])

(* apply_review_invariants: reasons ask for a review, the status stays.    *)
Invariants(d) ==
  LET n == Len(d.rows)
      many == n >= 2 /\ 100 * Cardinality(FlaggedRows(d)) >= 35 * n
      reasons == (d.reasons \ {"manyRows"})
                   \cup (IF many THEN {"manyRows"} ELSE {})
                   \cup If("conflict", {"miscounted", "conflict"})
                   \cup (IF d.rows = <<>> THEN {"conflict"} ELSE {})
  IN [d EXCEPT !.reasons = reasons, !.needs = @ \/ reasons # {}]

----------------------------------------------------------------------------
(* The pipeline                                                            *)

Fresh(rows) ==
  [rows |-> rows, reasons |-> Seeds \cap odd, needs |-> Seeds \cap odd # {},
   status |-> "none", outcome |-> Aggregate(rows), conf |-> "low",
   evidence |-> FALSE, policy |-> NoPolicy]

Init ==
  /\ stage = "validated"
  /\ odd \in SUBSET Oddities /\ Cardinality(odd) <= MaxOddities
  /\ \E n \in 0..MaxRows : \E rows \in [1..n -> RowKinds] : doc = Fresh(rows)
  /\ run = "none"
  /\ stored = NoPayload
  /\ served = NoPayload

Step(from, to, d) ==
  /\ stage = from
  /\ stage' = to
  /\ doc' = d
  /\ UNCHANGED <<odd, run, stored, served>>

ValidateTraceability == Step("validated", "traced", Traced(doc))

VerifyIdentifiers ==
  \/ /\ "confusable" \in odd
     /\ \E S \in SUBSET {i \in DOMAIN doc.rows : doc.rows[i].id # "none"} :
          Step("traced", "guarded", Guarded(doc, S))
  \/ "confusable" \notin odd /\ Step("traced", "guarded", doc)

NoteReadability == Step("guarded", "noted", Noted(doc))

NormalizeConfidence ==
  \E c \in {"low", "mid", "high"} :
    /\ CappedLow(doc) => c = "low"
    /\ Step("noted", "assessed", Normalized(doc, c))

ApplyReviewPolicy == Step("assessed", "judged", Judged(doc))

FinalizeDecision == Step("judged", "finalized", Calibrated(doc))

AggregateOutcome == Step("finalized", "aggregated", Aggregated(doc))

SanitizeAndRenormalize == Step("aggregated", "sanitized", Renormalized(doc))

FinalizeAgain == Step("sanitized", "recalibrated", Calibrated(doc))

Explain == Step("recalibrated", "explained", Explained(doc))

ApplyReviewInvariants == Step("explained", "extracted", Invariants(doc))

----------------------------------------------------------------------------
(* What becomes of the extraction                                          *)

(* Mutant of UpdateRun: the payload is stored as the pipeline left it.     *)
UpdateRunRaw(d) ==
  /\ run' = Sanitized(d).status
  /\ stored' = d

(* Mutant of UpdateRun: the row's status is the policy's verdict.          *)
UpdateRunByPolicy(d) ==
  /\ run' = IF d.policy.required THEN "NEEDS_REVIEW" ELSE "COMPLETED"
  /\ stored' = Boundary(Sanitized(d))

(* update_run_completed: the row's status comes from the extraction, its   *)
(* payload from the boundary.                                              *)
UpdateRun(d) ==
  /\ run' = Sanitized(d).status
  /\ stored' = Boundary(Sanitized(d))

(* process_pdf_bytes hands the worker the boundary's payload.              *)
ProcessPdfBytes ==
  /\ stage = "extracted"
  /\ stage' = "processed"
  /\ served' = Boundary(Sanitized(doc))
  /\ UNCHANGED <<odd, doc, run, stored>>

(* persist_analysis_from_extraction_result reads that payload back as an   *)
(* extraction; the nested review policy stays the same object.             *)
PersistJobAnalysis ==
  /\ stage = "processed"
  /\ stage' = "stored"
  /\ UpdateRun(served)
  /\ served' = [served EXCEPT !.policy = stored'.policy]
  /\ UNCHANGED <<odd, doc>>

(* The synchronous route persists first; the extraction it answers from    *)
(* shares its nested review policy with the stored payload.                *)
PersistSyncAnalysis ==
  /\ stage = "extracted"
  /\ stage' = "committed"
  /\ UpdateRun(Sanitized(doc))
  /\ doc' = [Sanitized(doc) EXCEPT !.policy = stored'.policy]
  /\ UNCHANGED <<odd, served>>

AnswerSync ==
  /\ stage = "committed"
  /\ stage' = "stored"
  /\ served' = Boundary(doc)
  /\ UNCHANGED <<odd, doc, run, stored>>

(* GET /analyses/{id} puts the stored payload through the boundary again.  *)
ReadAnalysis ==
  /\ stage = "stored"
  /\ served' = Boundary(stored)
  /\ UNCHANGED <<stage, odd, doc, run, stored>>

Next ==
  \/ ValidateTraceability \/ VerifyIdentifiers \/ NoteReadability
  \/ NormalizeConfidence \/ ApplyReviewPolicy \/ FinalizeDecision
  \/ AggregateOutcome \/ SanitizeAndRenormalize \/ FinalizeAgain
  \/ Explain \/ ApplyReviewInvariants
  \/ ProcessPdfBytes \/ PersistJobAnalysis
  \/ PersistSyncAnalysis \/ AnswerSync \/ ReadAnalysis

Spec == Init /\ [][Next]_vars

----------------------------------------------------------------------------
(* Properties                                                              *)

TypeOK ==
  /\ stage \in Stages
  /\ odd \subseteq Oddities
  /\ doc \in Documents
  /\ run \in Statuses
  /\ stored \in Documents
  /\ served \in Documents

(* A payload a client takes for an acceptance: by its status, or by a      *)
(* policy decision that no review request contradicts.                     *)
Accepts(p) ==
  \/ p.status = "AUTO_ACCEPT"
  \/ p.policy.decision = "auto_accept" /\ ~p.needs

(* Whatever the services make of confidence, noise and legacy reasons, no  *)
(* client is told that a document was accepted when it is a severe scan,   *)
(* of an unsupported type, has a row that is not compliant or whose        *)
(* identifier was not verified, or carries a hard reason anywhere.         *)
AcceptedIsSafe ==
  served # NoPayload /\ Accepts(served) =>
    /\ odd \cap {"severe", "unsupported"} = {}
    /\ AllCompliant(served) /\ RowsVerified(served)
    /\ CarriedReasons(served) \cap Hard = {}

(* What the review policy found blocking is never called off later: the    *)
(* finalizer knows fewer blocking reasons, runs five more times and may    *)
(* clear the review, but every client still sees it asked for.             *)
BlockedIsReviewed ==
  served # NoPayload /\ served.policy.reasons \cap PolicyBlocking # {} =>
    served.needs /\ served.status # "AUTO_ACCEPT"

(* Job result, synchronous answer and history show the same analysis: the  *)
(* boundary is applied once, twice or three times to it, with the same     *)
(* outcome.                                                                *)
ClientsAgree == stage = "stored" => served = stored

(* A run that the history does not list as NEEDS_REVIEW can be left        *)
(* unopened.  The row's status is drawn from the extraction, the payload   *)
(* made afterwards, and neither has to agree with needs_review:            *)
(* apply_review_invariants asks for a review and leaves the status, so     *)
(* that a run may be COMPLETED over a payload that asks for a review.      *)
(* What such a run may hide is bounded: its payload's status does not ask  *)
(* for a review either, every row is compliant and verified, the document  *)
(* is supported and no severe scan, and no reason that blocks acceptance   *)
(* is among those the payload carries, its policy's included.              *)
RunIsNoBolder ==
  stage \in {"committed", "stored"} /\ run # "NEEDS_REVIEW" =>
    /\ stored.status # "NEEDS_REVIEW"
    /\ odd \cap {"severe", "unsupported"} = {}
    /\ AllCompliant(stored) /\ RowsVerified(stored)
    /\ CarriedReasons(stored) \cap PolicyBlocking = {}

(* A hard reason, once given, stays with the document to the end.          *)
HardReasonsStay == [][doc.reasons \cap Hard \subseteq doc'.reasons]_vars

(* README.md says that auto_accept requires an explainable                 *)
(* auto_accept_evidence object: a payload that accepts has one, its own or *)
(* the policy's.  It does not hold: EnsurePolicyMatches writes auto_accept *)
(* over the verdict of a policy that found no evidence.                    *)
AcceptanceHasEvidence ==
  served # NoPayload /\ Accepts(served) =>
    served.evidence \/ served.policy.evidence
=============================================================================
