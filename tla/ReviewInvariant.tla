-------------------------- MODULE ReviewInvariant --------------------------
(***************************************************************************)
(* Why AcceptedIsSafe and BlockedIsReviewed hold: an invariant of          *)
(* ReviewDecision that its own steps preserve.  The services lower a       *)
(* review again and again, but each of them only where the document is     *)
(* clear, and being clear is never lost: what could end it has left a      *)
(* reason among the document's own by the time the policy judges it.       *)
(***************************************************************************)
EXTENDS ReviewDecision

(* Nothing a person has to look at.                                        *)
Clear(d) ==
  /\ AllCompliant(d)
  /\ odd \cap {"severe", "unsupported"} = {}
  /\ d.reasons \cap PolicyBlocking = {}

(* Only a compliant row is free of deviations.                             *)
Deviating(d) ==
  \A i \in DOMAIN d.rows : d.rows[i].outcome = "COMPLIANT" \/ d.rows[i].deviates

(* Traceability has downgraded the compliant rows it could not verify.     *)
Downgrades(d) ==
  \A i \in DOMAIN d.rows :
    d.rows[i].outcome = "COMPLIANT" => d.rows[i].id # "none"

(* The reasons that conflicting candidates and a wrong row count leave.    *)
Conflicting(d) == "conflict" \in odd => "conflict" \in d.reasons

Miscounted(d) == "miscounted" \in odd => "conflict" \in d.reasons

(* Rows that are not settled leave a legacy reason.                        *)
Unsettled(d) ==
  (d.rows = <<>> \/ \E i \in DOMAIN d.rows :
                      d.rows[i].outcome \in {"NEEDS_REVIEW", "NOT_VALIDATED"})
    => "legacy" \in d.reasons

(* The reasons that a severe scan and an unsupported document leave.       *)
Marked(d) ==
  /\ "severe" \in odd => "severe" \in d.reasons
  /\ "unsupported" \in odd => "structure" \in d.reasons

(* One of the services has called the review off, or may do so, or the     *)
(* status says that none is needed.                                        *)
Lowered(d) ==
  \/ ~d.needs \/ ~d.policy.required
  \/ d.status # "NEEDS_REVIEW" \/ d.policy.decision = "auto_accept"

(* What every document satisfies once the policy has judged it.            *)
Settled(d) ==
  /\ Deviating(d) /\ Downgrades(d)
  /\ Conflicting(d) /\ Miscounted(d) /\ Marked(d)
  /\ d.policy.reasons \cap PolicyBlocking \subseteq d.reasons
  /\ Lowered(d) => Clear(d)

Untraced == {"validated"}

Unassessed == {"validated", "traced", "guarded", "noted"}

Unjudged == Unassessed \cup {"assessed"}

(* The inductive invariant, besides the types: of the document as it goes  *)
(* through the pipeline, and of the payloads made from it.                 *)
DocumentFollows ==
  /\ Deviating(doc) /\ Conflicting(doc)
  /\ stage \notin Untraced => Downgrades(doc)
  /\ stage = "assessed" => Miscounted(doc) /\ Unsettled(doc)
  /\ stage \notin Unjudged => Settled(doc)

PayloadsFollow ==
  /\ stage \in {"processed", "stored"} => Settled(served)
  /\ stage \in {"committed", "stored"} => Settled(stored)
  /\ served # NoPayload => stage \in {"processed", "stored"}

ReviewInv == TypeOK /\ DocumentFollows /\ PayloadsFollow
=============================================================================
