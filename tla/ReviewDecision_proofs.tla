----------------------- MODULE ReviewDecision_proofs -----------------------
(***************************************************************************)
(* Proofs about ReviewDecision, for documents of any length whose rows may *)
(* be anything a validator leaves.                                         *)
(***************************************************************************)
EXTENDS ReviewInvariant, TLAPS

(* The fields of a document, and two documents that differ in S alone.    *)
Fields == {"rows", "reasons", "needs", "status", "outcome", "conf",
           "evidence", "policy"}

SameBut(S, d, e) == \A f \in Fields \ S : e[f] = d[f]

(* Setting one field of a document leaves a document, and its other fields *)
(* alone.                                                                  *)
LEMMA SetRows ==
  ASSUME NEW d \in Documents, NEW r \in Seq(Rows)
  PROVE  LET e == [d EXCEPT !.rows = r] IN
         /\ e \in Documents
         /\ e.rows = r
         /\ SameBut({"rows"}, d, e)
BY DEF Documents, SameBut, Fields

LEMMA SetReasons ==
  ASSUME NEW d \in Documents, NEW R \in SUBSET Reasons
  PROVE  LET e == [d EXCEPT !.reasons = R] IN
         /\ e \in Documents
         /\ e.reasons = R
         /\ SameBut({"reasons"}, d, e)
BY DEF Documents, SameBut, Fields

LEMMA SetNeeds ==
  ASSUME NEW d \in Documents, NEW b \in BOOLEAN
  PROVE  LET e == [d EXCEPT !.needs = b] IN
         /\ e \in Documents
         /\ e.needs = b
         /\ SameBut({"needs"}, d, e)
BY DEF Documents, SameBut, Fields

LEMMA SetStatus ==
  ASSUME NEW d \in Documents, NEW s \in Statuses
  PROVE  LET e == [d EXCEPT !.status = s] IN
         /\ e \in Documents
         /\ e.status = s
         /\ SameBut({"status"}, d, e)
BY DEF Documents, SameBut, Fields

LEMMA SetOutcome ==
  ASSUME NEW d \in Documents, NEW o \in RowOutcomes
  PROVE  LET e == [d EXCEPT !.outcome = o] IN
         /\ e \in Documents
         /\ e.outcome = o
         /\ SameBut({"outcome"}, d, e)
BY DEF Documents, SameBut, Fields


LEMMA SetEvidence ==
  ASSUME NEW d \in Documents, NEW b \in BOOLEAN
  PROVE  LET e == [d EXCEPT !.evidence = b] IN
         /\ e \in Documents
         /\ e.evidence = b
         /\ SameBut({"evidence"}, d, e)
BY DEF Documents, SameBut, Fields

LEMMA SetPolicy ==
  ASSUME NEW d \in Documents, NEW p \in Policies
  PROVE  LET e == [d EXCEPT !.policy = p] IN
         /\ e \in Documents
         /\ e.policy = p
         /\ SameBut({"policy"}, d, e)
BY DEF Documents, SameBut, Fields

(***************************************************************************)
(* Rows                                                                    *)
(***************************************************************************)

(* The rows of a document, one at a time.                                  *)
LEMMA MapRows ==
  ASSUME NEW rows \in Seq(Rows), NEW F(_), \A i \in DOMAIN rows : F(i) \in Rows
  PROVE  [i \in DOMAIN rows |-> F(i)] \in Seq(Rows)
OBVIOUS

LEMMA EmptyRows ==
  ASSUME NEW rows \in Seq(Rows)
  PROVE  rows = <<>> <=> DOMAIN rows = {}
OBVIOUS

LEMMA RowAt ==
  ASSUME NEW d \in Documents, NEW i \in DOMAIN d.rows
  PROVE  d.rows[i] \in Rows
BY DEF Documents

(* Flagging and downgrading a row.                                         *)
LEMMA FlagType ==
  ASSUME NEW r \in Rows, NEW b \in BOOLEAN
  PROVE  /\ Flag(r, b) \in Rows
         /\ Flag(r, b).outcome = r.outcome
         /\ Flag(r, b).deviates = r.deviates
         /\ Flag(r, b).id = r.id
BY DEF Flag, Rows

LEMMA DowngradeType ==
  ASSUME NEW r \in Rows
  PROVE  /\ Downgrade(r) \in Rows
         /\ Downgrade(r).id = r.id
         /\ Downgrade(r).outcome =
              IF Downgraded(r) THEN "NEEDS_REVIEW" ELSE r.outcome
         /\ Downgraded(r) => Downgrade(r).deviates
         /\ ~Downgraded(r) => Downgrade(r) = r
BY DEF Downgrade, Rows, RowOutcomes

(* Two documents with the same rows, but for how they are flagged.         *)
SameRows(d, e) ==
  /\ DOMAIN e.rows = DOMAIN d.rows
  /\ \A i \in DOMAIN d.rows : /\ e.rows[i].outcome = d.rows[i].outcome
                              /\ e.rows[i].deviates = d.rows[i].deviates
                              /\ e.rows[i].id = d.rows[i].id

(* Flagging rows changes nothing else.                                     *)
LEMMA FlaggingEffect ==
  ASSUME NEW d \in Documents, NEW S
  PROVE  /\ Flagging(d, S) \in Documents
         /\ SameBut({"rows"}, d, Flagging(d, S))
         /\ SameRows(d, Flagging(d, S))
<1> DEFINE flagged(i) == Flag(d.rows[i], i \in S)
           rows == [i \in DOMAIN d.rows |-> flagged(i)]
<1>1. d.rows \in Seq(Rows)
  BY DEF Documents
<1>2. ASSUME NEW i \in DOMAIN d.rows
      PROVE  /\ flagged(i) \in Rows
             /\ flagged(i).outcome = d.rows[i].outcome
             /\ flagged(i).deviates = d.rows[i].deviates
             /\ flagged(i).id = d.rows[i].id
  <2>1. d.rows[i] \in Rows /\ (i \in S) \in BOOLEAN
    BY RowAt
  <2>2. QED
    BY <2>1, FlagType
<1> HIDE DEF flagged
<1>3. rows \in Seq(Rows)
  BY <1>1, <1>2, MapRows
<1>4. Flagging(d, S) = [d EXCEPT !.rows = rows]
  BY DEF Flagging, flagged
<1>5. /\ Flagging(d, S) \in Documents
      /\ Flagging(d, S).rows = rows
      /\ SameBut({"rows"}, d, Flagging(d, S))
  <2> HIDE DEF rows
  <2> QED BY <1>3, <1>4, SetRows
<1>6. SameRows(d, Flagging(d, S))
  BY <1>2, <1>5 DEF SameRows
<1>7. QED
  BY <1>5, <1>6

(***************************************************************************)
(* What settles a document stays                                           *)
(***************************************************************************)

(* The services after the policy keep the rows and the blocking reasons.   *)
Same(d, e) ==
  /\ SameRows(d, e)
  /\ e.reasons \cap PolicyBlocking = d.reasons \cap PolicyBlocking

(* Same composes.                                                          *)
LEMMA SameTransitive ==
  ASSUME NEW d, NEW e, NEW f, Same(d, e), Same(e, f)
  PROVE  Same(d, f)
BY DEF Same, SameRows

(* Being clear depends on nothing but the rows and the blocking reasons.   *)
LEMMA ClearStays ==
  ASSUME NEW d \in Documents, NEW e \in Documents, Same(d, e)
  PROVE  Clear(d) <=> Clear(e)
<1>1. d.rows \in Seq(Rows) /\ e.rows \in Seq(Rows)
  BY DEF Documents
<1>2. d.rows = <<>> <=> e.rows = <<>>
  BY <1>1, EmptyRows DEF Same, SameRows
<1>3. QED
  BY <1>2 DEF Same, SameRows, Clear, AllCompliant

(* A settled document stays settled when rows and blocking reasons stay    *)
(* and no review is called off that could not be before.                   *)
LEMMA SettledStep ==
  ASSUME NEW d \in Documents, NEW e \in Documents, Settled(d), Same(d, e),
         e.policy.reasons \cap PolicyBlocking \subseteq e.reasons,
         Lowered(e) => Lowered(d) \/ Clear(d)
  PROVE  Settled(e)
<1>1. Lowered(e) => Clear(e)
  BY ClearStays DEF Settled
<1>2. Deviating(e) /\ Downgrades(e)
  BY DEF Settled, Same, SameRows, Deviating, Downgrades
<1>3. Conflicting(e) /\ Miscounted(e) /\ Marked(e)
  BY DEF Settled, Same, Conflicting, Miscounted, Marked, PolicyBlocking, Hard
<1>4. QED
  BY <1>1, <1>2, <1>3 DEF Settled

(* Sanitizing flags rows and may ask for a review.                         *)
LEMMA SanitizedEffect ==
  ASSUME NEW d \in Documents
  PROVE  /\ Sanitized(d) \in Documents
         /\ SameBut({"rows", "needs", "status"}, d, Sanitized(d))
         /\ SameRows(d, Sanitized(d))
         /\ d.needs => Sanitized(d).needs
         /\ Sanitized(d).status =
              IF "unnumbered" \in odd THEN "NEEDS_REVIEW" ELSE d.status
<1> DEFINE e == Flagging(d, {i \in DOMAIN d.rows : Suppressed(d, i)})
           needs == e.needs \/ "unnumbered" \in odd
           status == IF "unnumbered" \in odd THEN "NEEDS_REVIEW" ELSE e.status
           f == [e EXCEPT !.needs = needs]
<1>1. /\ e \in Documents
      /\ SameBut({"rows"}, d, e)
      /\ SameRows(d, e)
  BY FlaggingEffect
<1>2. Sanitized(d) = [f EXCEPT !.status = status]
  BY DEF Sanitized
<1> HIDE DEF e
<1>3. f \in Documents /\ f.needs = needs /\ SameBut({"needs"}, e, f)
  BY <1>1, SetNeeds
<1>4. status \in Statuses
  BY <1>1 DEF Documents, Statuses
<1> HIDE DEF f, needs, status
<1>5. /\ Sanitized(d) \in Documents
      /\ Sanitized(d).status = status
      /\ SameBut({"status"}, f, Sanitized(d))
  BY <1>2, <1>3, <1>4, SetStatus
<1>6. /\ SameBut({"rows", "needs", "status"}, d, Sanitized(d))
      /\ Sanitized(d).rows = e.rows
      /\ Sanitized(d).needs = needs
      /\ e.needs = d.needs /\ e.status = d.status
  BY <1>1, <1>3, <1>5 DEF SameBut, Fields
<1>7. QED
  BY <1>1, <1>5, <1>6 DEF SameRows, needs, status

(* So it keeps a document settled.                                         *)
LEMMA SanitizedSettles ==
  ASSUME NEW d \in Documents, Settled(d)
  PROVE  Settled(Sanitized(d))
<1>1. Same(d, Sanitized(d)) /\ Sanitized(d).policy = d.policy
  BY SanitizedEffect DEF Same, SameBut, Fields
<1>2. Lowered(Sanitized(d)) => Lowered(d)
  BY <1>1, SanitizedEffect DEF Lowered
<1>3. QED
  BY <1>1, <1>2, SanitizedEffect, SettledStep DEF SameBut, Fields, Settled

(***************************************************************************)
(* The services of the finalizer                                           *)
(***************************************************************************)

(* The policy is overwritten only where no review is asked for.            *)
LEMMA EnsurePolicyMatchesEffect ==
  ASSUME NEW d \in Documents
  PROVE  /\ EnsurePolicyMatches(d) \in Documents
         /\ SameBut({"policy"}, d, EnsurePolicyMatches(d))
         /\ EnsurePolicyMatches(d).policy.reasons \subseteq d.policy.reasons
         /\ d.needs => EnsurePolicyMatches(d) = d
<1>1. d.policy \in Policies
  BY DEF Documents
<1>2. /\ AutoAccepting(d.policy) \in Policies
      /\ AutoAccepting(d.policy).reasons \subseteq d.policy.reasons
  BY <1>1 DEF Policies, AutoAccepting
<1>3. CASE EnsurePolicyMatches(d) = d
  BY <1>3 DEF SameBut
<1>4. CASE EnsurePolicyMatches(d) # d
  <2>1. ~d.needs
    BY <1>4 DEF EnsurePolicyMatches
  <2>2. EnsurePolicyMatches(d) = [d EXCEPT !.policy = AutoAccepting(d.policy)]
    BY <1>4 DEF EnsurePolicyMatches
  <2>3. QED
    BY <1>2, <2>1, <2>2, SetPolicy
<1>5. QED
  BY <1>3, <1>4

(* So a settled document, clear where no review is asked for, stays        *)
(* settled.                                                                *)
LEMMA EnsurePolicyMatchesSettles ==
  ASSUME NEW d \in Documents, Settled(d)
  PROVE  Settled(EnsurePolicyMatches(d))
<1> DEFINE e == EnsurePolicyMatches(d)
<1>1. /\ e \in Documents
      /\ SameBut({"policy"}, d, e)
      /\ e.policy.reasons \subseteq d.policy.reasons
      /\ d.needs => e = d
  BY EnsurePolicyMatchesEffect
<1> HIDE DEF e
<1>2. Same(d, e) /\ e.needs = d.needs /\ e.reasons = d.reasons
  BY <1>1 DEF Same, SameRows, SameBut, Fields
<1>3. Lowered(e) => Lowered(d)
  BY <1>1 DEF Lowered
<1>4. e.policy.reasons \cap PolicyBlocking \subseteq e.reasons
  BY <1>1, <1>2 DEF Settled
<1>5. Settled(e)
  BY <1>1, <1>2, <1>3, <1>4, SettledStep
<1>6. QED
  BY <1>5 DEF e

(* Attaching evidence touches nothing else.                                *)
LEMMA WithEvidenceEffect ==
  ASSUME NEW d \in Documents
  PROVE  /\ WithEvidence(d) \in Documents
         /\ SameBut({"evidence"}, d, WithEvidence(d))
<1>1. (d.evidence \/ EvidenceHolds(d)) \in BOOLEAN
  OBVIOUS
<1>2. CASE d.status = "AUTO_ACCEPT"
  <2>1. WithEvidence(d)
          = [d EXCEPT !.evidence = d.evidence \/ EvidenceHolds(d)]
    BY <1>2 DEF WithEvidence
  <2>2. QED
    BY <1>1, <2>1, SetEvidence
<1>3. CASE d.status # "AUTO_ACCEPT"
  BY <1>3 DEF WithEvidence, SameBut
<1>4. QED
  BY <1>2, <1>3

(* A document that differs in its evidence alone is settled all the same.  *)
LEMMA WithEvidenceSettles ==
  ASSUME NEW d \in Documents, Settled(d)
  PROVE  Settled(WithEvidence(d))
<1>1. /\ WithEvidence(d) \in Documents
      /\ SameBut({"evidence"}, d, WithEvidence(d))
  BY WithEvidenceEffect
<1>2. Same(d, WithEvidence(d))
  BY <1>1 DEF Same, SameRows, SameBut, Fields
<1>3. Lowered(WithEvidence(d)) => Lowered(d)
  BY <1>1 DEF Lowered, SameBut, Fields
<1>4. QED
  BY <1>1, <1>2, <1>3, SettledStep DEF SameBut, Fields, Settled

(* The fields that _apply_auto_accept_document_state sets.                 *)
AcceptedState(d) ==
  [d EXCEPT !.reasons = @ \ ConfidenceOnly, !.needs = FALSE,
            !.status = "AUTO_ACCEPT", !.outcome = "COMPLIANT"]

(* They leave a document with its rows and policy.                         *)
LEMMA AcceptedStateEffect ==
  ASSUME NEW d \in Documents
  PROVE  LET e == AcceptedState(d) IN
         /\ e \in Documents
         /\ SameBut({"reasons", "needs", "status", "outcome"}, d, e)
         /\ e.reasons = d.reasons \ ConfidenceOnly
         /\ e.status = "AUTO_ACCEPT"
<1> DEFINE a == [d EXCEPT !.reasons = d.reasons \ ConfidenceOnly]
           b == [a EXCEPT !.needs = FALSE]
           c == [b EXCEPT !.status = "AUTO_ACCEPT"]
<1>1. d.reasons \ ConfidenceOnly \in SUBSET Reasons
  BY DEF Documents
<1>2. AcceptedState(d) = [c EXCEPT !.outcome = "COMPLIANT"]
  BY DEF AcceptedState
<1>3. /\ a \in Documents
      /\ a.reasons = d.reasons \ ConfidenceOnly
      /\ SameBut({"reasons"}, d, a)
  BY <1>1, SetReasons
<1> HIDE DEF a
<1>4. b \in Documents /\ SameBut({"needs"}, a, b)
  BY <1>3, SetNeeds
<1> HIDE DEF b
<1>5. /\ c \in Documents /\ c.status = "AUTO_ACCEPT"
      /\ SameBut({"status"}, b, c)
  BY <1>4, SetStatus DEF Statuses
<1> HIDE DEF c
<1>6. /\ AcceptedState(d) \in Documents
      /\ SameBut({"outcome"}, c, AcceptedState(d))
  BY <1>2, <1>5, SetOutcome DEF RowOutcomes
<1>7. QED
  BY <1>3, <1>4, <1>5, <1>6 DEF SameBut, Fields

(* Where confidence is exempt, every row is compliant.                     *)
LEMMA MaterialIsCompliant ==
  ASSUME NEW d \in Documents, Deviating(d), Material(d)
  PROVE  AllCompliant(d)
BY DEF Deviating, Material, AllCompliant, RowsVerified

(* A document whose review is called off for confidence alone is clear:    *)
(* all its reasons are confidence, so none of them marks it.               *)
LEMMA EligibleIsClear ==
  ASSUME NEW d \in Documents, Deviating(d), Marked(d), Eligible(d)
  PROVE  Clear(d)
<1>1. AllCompliant(d)
  BY MaterialIsCompliant DEF Eligible
<1>2. d.reasons \cap PolicyBlocking = {}
  BY DEF Eligible, ConfidenceOnly, PolicyBlocking, Hard
<1>3. odd \cap {"severe", "unsupported"} = {}
  BY DEF Marked, Eligible, ConfidenceOnly
<1>4. QED
  BY <1>1, <1>2, <1>3 DEF Clear

(* What acceptance leaves of rows, reasons and status.                     *)
LEMMA AcceptedEffect ==
  ASSUME NEW d \in Documents
  PROVE  /\ Accepted(d) \in Documents
         /\ Accepted(d).rows = d.rows
         /\ Accepted(d).reasons = d.reasons \ ConfidenceOnly
         /\ Accepted(d).status = "AUTO_ACCEPT"
<1> DEFINE a == AcceptedState(d)
           b == EnsurePolicyMatches(a)
<1>1. Accepted(d) = WithEvidence(b)
  BY DEF Accepted, AcceptedState
<1>2. /\ a \in Documents
      /\ SameBut({"reasons", "needs", "status", "outcome"}, d, a)
      /\ a.reasons = d.reasons \ ConfidenceOnly
      /\ a.status = "AUTO_ACCEPT"
  BY AcceptedStateEffect
<1> HIDE DEF a
<1>3. b \in Documents /\ SameBut({"policy"}, a, b)
  BY <1>2, EnsurePolicyMatchesEffect
<1> HIDE DEF b
<1>4. Accepted(d) \in Documents /\ SameBut({"evidence"}, b, Accepted(d))
  BY <1>1, <1>3, WithEvidenceEffect
<1>5. QED
  BY <1>2, <1>3, <1>4 DEF SameBut, Fields

(* Acceptance of an eligible document keeps it settled.                    *)
LEMMA AcceptedSettles ==
  ASSUME NEW d \in Documents, Settled(d), Eligible(d)
  PROVE  Settled(Accepted(d))
<1> DEFINE a == AcceptedState(d)
<1>1. Accepted(d) = WithEvidence(EnsurePolicyMatches(a))
  BY DEF Accepted, AcceptedState
<1>2. /\ a \in Documents
      /\ SameBut({"reasons", "needs", "status", "outcome"}, d, a)
      /\ a.reasons = d.reasons \ ConfidenceOnly
  BY AcceptedStateEffect
<1> HIDE DEF a
<1>3. Clear(d)
  BY EligibleIsClear DEF Settled
<1>4. Same(d, a) /\ a.policy = d.policy
  BY <1>2 DEF Same, SameRows, SameBut, Fields, ConfidenceOnly, PolicyBlocking,
       Hard
<1>5. a.policy.reasons \cap PolicyBlocking \subseteq a.reasons
  BY <1>2, <1>4 DEF Settled, ConfidenceOnly, PolicyBlocking, Hard
<1>6. Settled(a)
  BY <1>2, <1>3, <1>4, <1>5, SettledStep
<1>7. Settled(EnsurePolicyMatches(a)) /\ EnsurePolicyMatches(a) \in Documents
  BY <1>2, <1>6, EnsurePolicyMatchesSettles, EnsurePolicyMatchesEffect
<1>8. QED
  BY <1>1, <1>7, WithEvidenceSettles

(* The finalizer drops confidence reasons alone.                           *)
LEMMA CalibratedEffect ==
  ASSUME NEW d \in Documents
  PROVE  /\ Calibrated(d) \in Documents
         /\ Calibrated(d).rows = d.rows
         /\ Calibrated(d).reasons \cup ConfidenceOnly
              = d.reasons \cup ConfidenceOnly
         /\ Calibrated(d).reasons \subseteq d.reasons
         /\ Calibrated(d).status \in {d.status, "AUTO_ACCEPT"}
<1>1. CASE Eligible(d)
  BY <1>1, AcceptedEffect DEF Calibrated
<1>2. CASE ~Eligible(d) /\ Blocked(d)
  <2>1. d.reasons \ ConfidenceOnly \in SUBSET Reasons
    BY DEF Documents
  <2>2. Calibrated(d) = [d EXCEPT !.reasons = d.reasons \ ConfidenceOnly]
    BY <1>2 DEF Calibrated
  <2>3. QED
    BY <2>1, <2>2, SetReasons DEF SameBut, Fields
<1>3. CASE ~Eligible(d) /\ ~Blocked(d)
  BY <1>3 DEF Calibrated
<1>4. QED
  BY <1>1, <1>2, <1>3

(* It keeps a document settled, eligible, blocked or neither.              *)
LEMMA CalibratedSettles ==
  ASSUME NEW d \in Documents, Settled(d)
  PROVE  Settled(Calibrated(d))
<1>1. CASE Eligible(d)
  BY <1>1, AcceptedSettles DEF Calibrated
<1>2. CASE ~Eligible(d) /\ Blocked(d)
  <2> DEFINE e == [d EXCEPT !.reasons = d.reasons \ ConfidenceOnly]
  <2>1. d.reasons \ ConfidenceOnly \in SUBSET Reasons
    BY DEF Documents
  <2>2. Calibrated(d) = e
    BY <1>2 DEF Calibrated
  <2>3. /\ e \in Documents
        /\ e.reasons = d.reasons \ ConfidenceOnly
        /\ SameBut({"reasons"}, d, e)
    BY <2>1, SetReasons
  <2> HIDE DEF e
  <2>4. Same(d, e) /\ e.policy.reasons \cap PolicyBlocking \subseteq e.reasons
    BY <2>3 DEF Same, SameRows, SameBut, Fields, ConfidenceOnly,
         PolicyBlocking, Hard, Settled
  <2>5. Lowered(e) => Lowered(d)
    BY <2>3 DEF Lowered, SameBut, Fields
  <2>6. Settled(e)
    BY <2>3, <2>4, <2>5, SettledStep
  <2>7. QED
    BY <2>2, <2>6
<1>3. CASE ~Eligible(d) /\ ~Blocked(d)
  BY <1>3 DEF Calibrated
<1>4. QED
  BY <1>1, <1>2, <1>3

(* The reconciliation does both.                                           *)
LEMMA ReconciledEffect ==
  ASSUME NEW d \in Documents
  PROVE  /\ Reconciled(d) \in Documents
         /\ Reconciled(d).rows = d.rows
         /\ Reconciled(d).reasons \cup ConfidenceOnly
              = d.reasons \cup ConfidenceOnly
         /\ Reconciled(d).reasons \subseteq d.reasons
         /\ Reconciled(d).status \in {d.status, "AUTO_ACCEPT"}
         /\ Settled(d) => Settled(Reconciled(d))
<1> DEFINE e == IF Eligible(d) THEN Accepted(d) ELSE d
<1>1. /\ e \in Documents
      /\ e.rows = d.rows
      /\ e.reasons \cup ConfidenceOnly = d.reasons \cup ConfidenceOnly
      /\ e.reasons \subseteq d.reasons
      /\ e.status \in {d.status, "AUTO_ACCEPT"}
  BY AcceptedEffect
<1>2. Settled(d) => Settled(e)
  BY AcceptedSettles
<1>3. Reconciled(d) = EnsurePolicyMatches(e)
  BY DEF Reconciled
<1> HIDE DEF e
<1>4. Reconciled(d) \in Documents /\ SameBut({"policy"}, e, Reconciled(d))
  BY <1>1, <1>3, EnsurePolicyMatchesEffect
<1>5. Settled(d) => Settled(Reconciled(d))
  BY <1>1, <1>2, <1>3, EnsurePolicyMatchesSettles
<1>6. QED
  BY <1>1, <1>4, <1>5 DEF SameBut, Fields

(* The boundary, the composition of these services.                        *)
LEMMA BoundaryEffect ==
  ASSUME NEW d \in Documents
  PROVE  /\ Boundary(d) \in Documents
         /\ SameRows(d, Boundary(d))
         /\ Boundary(d).reasons \cup ConfidenceOnly
              = d.reasons \cup ConfidenceOnly
         /\ Boundary(d).status \in {Sanitized(d).status, "AUTO_ACCEPT"}
         /\ Settled(d) => Settled(Boundary(d))
<1> DEFINE a == Sanitized(d)
           b == Calibrated(a)
           c == Reconciled(b)
<1>1. Boundary(d) = WithEvidence(c)
  BY DEF Boundary
<1>2. /\ a \in Documents /\ SameRows(d, a) /\ a.reasons = d.reasons
      /\ Settled(d) => Settled(a)
  BY SanitizedEffect, SanitizedSettles DEF SameBut, Fields
<1>3. /\ b \in Documents /\ b.rows = a.rows
      /\ b.reasons \cup ConfidenceOnly = a.reasons \cup ConfidenceOnly
      /\ b.status \in {a.status, "AUTO_ACCEPT"}
      /\ Settled(a) => Settled(b)
  <2> HIDE DEF a
  <2> QED BY <1>2, CalibratedEffect, CalibratedSettles
<1>4. /\ c \in Documents /\ c.rows = b.rows
      /\ c.reasons \cup ConfidenceOnly = b.reasons \cup ConfidenceOnly
      /\ c.status \in {b.status, "AUTO_ACCEPT"}
      /\ Settled(b) => Settled(c)
  <2> HIDE DEF b
  <2> QED BY <1>3, ReconciledEffect
<1>5. /\ Boundary(d) \in Documents /\ SameBut({"evidence"}, c, Boundary(d))
      /\ Settled(c) => Settled(Boundary(d))
  <2> HIDE DEF c
  <2> QED BY <1>1, <1>4, WithEvidenceEffect, WithEvidenceSettles
<1> HIDE DEF a, b, c
<1>6. Boundary(d).rows = a.rows /\ Boundary(d).status = c.status
      /\ Boundary(d).reasons = c.reasons
  BY <1>3, <1>4, <1>5 DEF SameBut, Fields
<1>7. Boundary(d).status \in {a.status, "AUTO_ACCEPT"}
  BY <1>3, <1>4, <1>6
<1>8. QED
  BY <1>2, <1>3, <1>4, <1>5, <1>6, <1>7 DEF SameRows, a

(* Two payloads of one analysis that share their nested review policy.     *)
LEMMA SharedPolicySettles ==
  ASSUME NEW d \in Documents, Settled(d),
         NEW e \in Documents, Settled(e), Same(d, e)
  PROVE  /\ [d EXCEPT !.policy = e.policy] \in Documents
         /\ Settled([d EXCEPT !.policy = e.policy])
<1> DEFINE f == [d EXCEPT !.policy = e.policy]
<1>1. e.policy \in Policies
  BY DEF Documents
<1>2. f \in Documents /\ f.policy = e.policy /\ SameBut({"policy"}, d, f)
  BY <1>1, SetPolicy
<1> HIDE DEF f
<1>3. Same(d, f)
  BY <1>2 DEF Same, SameRows, SameBut, Fields
<1>4. Lowered(f) => Lowered(d) \/ Lowered(e)
  BY <1>2 DEF Lowered, SameBut, Fields
<1>5. Lowered(f) => Lowered(d) \/ Clear(d)
  BY <1>4, ClearStays DEF Settled
<1>6. f.policy.reasons \cap PolicyBlocking \subseteq f.reasons
  BY <1>2, <1>3 DEF Settled, Same
<1>7. Settled(f)
  BY <1>2, <1>3, <1>5, <1>6, SettledStep
<1>8. QED
  BY <1>2, <1>7 DEF f

(***************************************************************************)
(* The pipeline after the policy                                           *)
(***************************************************************************)

(* The status drawn from the review request is never an acceptance.        *)
LEMMA RankedEffect ==
  ASSUME NEW d \in Documents
  PROVE  /\ Ranked(d) \in Documents
         /\ SameBut({"status"}, d, Ranked(d))
         /\ Ranked(d).needs => Ranked(d).status = "NEEDS_REVIEW"
<1> DEFINE status == IF d.needs THEN "NEEDS_REVIEW" ELSE "COMPLETED"
<1>1. status \in Statuses /\ (d.needs => status = "NEEDS_REVIEW")
  BY DEF Statuses
<1>2. Ranked(d) = [d EXCEPT !.status = status]
  BY DEF Ranked
<1> HIDE DEF status
<1>3. QED
  BY <1>1, <1>2, SetStatus DEF SameBut, Fields

(* The outcome of a document is one of the outcomes.                       *)
LEMMA AggregateType ==
  ASSUME NEW rows
  PROVE  Aggregate(rows) \in RowOutcomes
BY DEF Aggregate, RowOutcomes

(* Aggregating may ask for a review and withdraws none.                    *)
LEMMA AggregatedEffect ==
  ASSUME NEW d \in Documents
  PROVE  /\ Aggregated(d) \in Documents
         /\ SameBut({"outcome", "needs", "status"}, d, Aggregated(d))
         /\ d.needs => Aggregated(d).needs
         /\ Aggregated(d).needs => Aggregated(d).status = "NEEDS_REVIEW"
<1> DEFINE o == Aggregate(d.rows)
           needs == d.needs \/ (o = "NEEDS_REVIEW" /\ ~AutoCleared(d))
           a == [d EXCEPT !.outcome = o]
           b == [a EXCEPT !.needs = needs]
<1>1. Aggregated(d) = Ranked(b)
  BY DEF Aggregated
<1>2. o \in RowOutcomes /\ needs \in BOOLEAN
  BY AggregateType
<1> HIDE DEF o
<1>3. a \in Documents /\ SameBut({"outcome"}, d, a)
  BY <1>2, SetOutcome
<1> HIDE DEF a
<1>4. b \in Documents /\ b.needs = needs /\ SameBut({"needs"}, a, b)
  BY <1>3, SetNeeds
<1>5. d.needs => b.needs
  BY <1>4
<1> HIDE DEF b, needs
<1>6. /\ Aggregated(d) \in Documents /\ SameBut({"status"}, b, Aggregated(d))
      /\ Aggregated(d).needs => Aggregated(d).status = "NEEDS_REVIEW"
  BY <1>1, <1>4, RankedEffect
<1>7. QED
  BY <1>3, <1>4, <1>5, <1>6 DEF SameBut, Fields

(* So it keeps a document settled.                                         *)
LEMMA AggregatedSettles ==
  ASSUME NEW d \in Documents, Settled(d)
  PROVE  Settled(Aggregated(d))
<1> DEFINE e == Aggregated(d)
<1>1. /\ e \in Documents
      /\ SameBut({"outcome", "needs", "status"}, d, e)
      /\ d.needs => e.needs
      /\ e.needs => e.status = "NEEDS_REVIEW"
  BY AggregatedEffect
<1> HIDE DEF e
<1>2. Same(d, e) /\ e.policy = d.policy /\ e.reasons = d.reasons
  BY <1>1 DEF Same, SameRows, SameBut, Fields
<1>3. Lowered(e) => Lowered(d)
  BY <1>1, <1>2 DEF Lowered
<1>4. Settled(e)
  BY <1>1, <1>2, <1>3, SettledStep DEF Settled
<1>5. QED
  BY <1>4 DEF e

(* Normalizing confidence drops no blocking reason and adds none but that  *)
(* of a wrong row count; unsettled rows leave a legacy reason.             *)
LEMMA NormalReasonsEffect ==
  ASSUME NEW d \in Documents
  PROVE  /\ NormalReasons(d) \subseteq Reasons
         /\ d.reasons \cap PolicyBlocking \subseteq NormalReasons(d)
         /\ NormalReasons(d) \cap PolicyBlocking
              \subseteq d.reasons \cup If("conflict", {"miscounted"})
         /\ Miscounted([d EXCEPT !.reasons = NormalReasons(d)])
         /\ Unsettled([d EXCEPT !.reasons = NormalReasons(d)])
<1>1. d.reasons \subseteq Reasons
  BY DEF Documents
<1>2. NormalReasons(d) \subseteq Reasons
  BY <1>1 DEF NormalReasons, If, Reasons, SoftAudit, Diagnostic, PolicyBlocking,
       Hard, ConfidenceOnly
<1>3. d.reasons \cap PolicyBlocking \subseteq NormalReasons(d)
  BY DEF NormalReasons, Diagnostic, PolicyBlocking, Hard
<1>4. NormalReasons(d) \cap PolicyBlocking
        \subseteq d.reasons \cup If("conflict", {"miscounted"})
  BY DEF NormalReasons, If, PolicyBlocking, Hard
<1> DEFINE e == [d EXCEPT !.reasons = NormalReasons(d)]
<1>5. e.reasons = NormalReasons(d) /\ e.rows = d.rows
  BY <1>2, SetReasons DEF SameBut, Fields
<1> HIDE DEF e
<1>6. Miscounted(e)
  BY <1>5 DEF Miscounted, NormalReasons, If, Diagnostic
<1>7. Unsettled(e)
  BY <1>5 DEF Unsettled, NormalReasons, Diagnostic
<1>8. QED
  BY <1>2, <1>3, <1>4, <1>6, <1>7 DEF e

(* The second normalization adds reasons, and withdraws a review only      *)
(* where the policy required none.                                         *)
LEMMA RenormalizedEffect ==
  ASSUME NEW d \in Documents
  PROVE  LET s == Sanitized(d)
             e == Renormalized(d) IN
         /\ e \in Documents
         /\ SameBut({"reasons", "needs", "status"}, s, e)
         /\ e.reasons = s.reasons \cup NormalReasons(s)
         /\ e.status \in {s.status, "NEEDS_REVIEW"} \/ AutoCleared(s)
         /\ s.needs => e.needs \/ AutoCleared(s)
<1> DEFINE s == Sanitized(d)
           R == NormalReasons(s)
           m == [s EXCEPT !.reasons = s.reasons \cup R]
           cleared == [m EXCEPT !.needs = FALSE]
           asking == [m EXCEPT !.needs = TRUE]
<1>1. s \in Documents
  BY SanitizedEffect
<1>2. Renormalized(d) =
        IF AutoCleared(s) THEN [cleared EXCEPT !.status = "COMPLETED"]
        ELSE IF s.needs \/ R # {}
        THEN [asking EXCEPT !.status = "NEEDS_REVIEW"]
        ELSE m
  BY DEF Renormalized, WithReasons
<1> HIDE DEF s
<1>3. s.reasons \cup R \in SUBSET Reasons
  BY <1>1, NormalReasonsEffect DEF Documents
<1>4. /\ m \in Documents /\ m.reasons = s.reasons \cup R
      /\ SameBut({"reasons"}, s, m)
  BY <1>1, <1>3, SetReasons
<1> HIDE DEF R, m
<1>5. cleared \in Documents /\ SameBut({"needs"}, m, cleared)
  BY <1>4, SetNeeds
<1>6. /\ asking \in Documents /\ asking.needs = TRUE
      /\ SameBut({"needs"}, m, asking)
  BY <1>4, SetNeeds
<1> HIDE DEF cleared, asking
<1>7. "COMPLETED" \in Statuses /\ "NEEDS_REVIEW" \in Statuses
  BY DEF Statuses
<1> DEFINE e == Renormalized(d)
<1>8. CASE AutoCleared(s)
  <2>1. /\ e \in Documents /\ e.status = "COMPLETED"
        /\ SameBut({"status"}, cleared, e)
    BY <1>2, <1>5, <1>7, <1>8, SetStatus
  <2>2. QED
    BY <1>4, <1>5, <1>8, <2>1 DEF SameBut, Fields, R, s
<1>9. CASE ~AutoCleared(s) /\ (s.needs \/ R # {})
  <2>1. /\ e \in Documents /\ e.status = "NEEDS_REVIEW"
        /\ SameBut({"status"}, asking, e)
    BY <1>2, <1>6, <1>7, <1>9, SetStatus
  <2>2. QED
    BY <1>4, <1>6, <1>9, <2>1 DEF SameBut, Fields, R, s
<1>10. CASE ~AutoCleared(s) /\ ~(s.needs \/ R # {})
  <2>1. e = m
    BY <1>2, <1>10
  <2>2. QED
    BY <1>4, <1>10, <2>1 DEF SameBut, Fields, R, s
<1>11. QED
  BY <1>8, <1>9, <1>10

(* The blocking reasons it adds were there before, so it keeps a document  *)
(* settled.                                                                *)
LEMMA RenormalizedSettles ==
  ASSUME NEW d \in Documents, Settled(d)
  PROVE  Settled(Renormalized(d))
<1> DEFINE s == Sanitized(d)
           e == Renormalized(d)
<1>1. s \in Documents /\ Settled(s)
  BY SanitizedEffect, SanitizedSettles
<1>2. /\ e \in Documents
      /\ SameBut({"reasons", "needs", "status"}, s, e)
      /\ e.reasons = s.reasons \cup NormalReasons(s)
      /\ e.status \in {s.status, "NEEDS_REVIEW"} \/ AutoCleared(s)
      /\ s.needs => e.needs \/ AutoCleared(s)
  BY RenormalizedEffect
<1> HIDE DEF s, e
<1>3. NormalReasons(s) \cap PolicyBlocking \subseteq s.reasons
  BY <1>1, NormalReasonsEffect DEF Settled, Miscounted, If
<1>4. Same(s, e) /\ e.policy = s.policy
  BY <1>2, <1>3 DEF Same, SameRows, SameBut, Fields
<1>5. Lowered(e) => Lowered(s)
  BY <1>2, <1>4 DEF Lowered, AutoCleared
<1>6. e.policy.reasons \cap PolicyBlocking \subseteq e.reasons
  BY <1>1, <1>2, <1>4 DEF Settled
<1>7. Settled(e)
  BY <1>1, <1>2, <1>4, <1>5, <1>6, SettledStep
<1>8. QED
  BY <1>7 DEF e

(* The explanation repeats the reasons of the document.                    *)
LEMMA ExplainedEffect ==
  ASSUME NEW d \in Documents
  PROVE  /\ Explained(d) \in Documents
         /\ Explained(d).rows = d.rows
         /\ Explained(d).reasons \cup ConfidenceOnly
              = d.reasons \cup ConfidenceOnly
         /\ Settled(d) => Settled(Explained(d))
<1> DEFINE p == Explaining(d.policy, d.reasons)
           e == [d EXCEPT !.policy = p]
<1>1. Explained(d) = Reconciled(e)
  BY DEF Explained
<1>2. /\ p \in Policies
      /\ p.reasons = d.policy.reasons \cup d.reasons
      /\ p.required = d.policy.required
      /\ p.decision = d.policy.decision
  <2>1. d.policy \in Policies /\ d.reasons \in SUBSET Reasons
    BY DEF Documents
  <2>2. QED
    BY <2>1 DEF Policies, Explaining
<1> HIDE DEF p
<1>3. e \in Documents /\ e.policy = p /\ SameBut({"policy"}, d, e)
  BY <1>2, SetPolicy
<1> HIDE DEF e
<1>4. ASSUME Settled(d) PROVE Settled(e)
  <2>1. Same(d, e)
    BY <1>3 DEF Same, SameRows, SameBut, Fields
  <2>2. Lowered(e) => Lowered(d)
    BY <1>2, <1>3 DEF Lowered, SameBut, Fields
  <2>3. e.policy.reasons \cap PolicyBlocking \subseteq e.reasons
    BY <1>2, <1>3, <1>4 DEF Settled, SameBut, Fields
  <2>4. QED
    BY <1>3, <1>4, <2>1, <2>2, <2>3, SettledStep
<1>5. e.rows = d.rows /\ e.reasons = d.reasons
  BY <1>3 DEF SameBut, Fields
<1>6. QED
  BY <1>1, <1>3, <1>4, <1>5, ReconciledEffect

(* The invariants add blocking reasons only to a document that is not      *)
(* clear or has them already.                                              *)
LEMMA InvariantsEffect ==
  ASSUME NEW d \in Documents
  PROVE  /\ Invariants(d) \in Documents
         /\ d.reasons \ {"manyRows"} \subseteq Invariants(d).reasons
         /\ Settled(d) => Settled(Invariants(d))
<1> DEFINE many == Len(d.rows) >= 2
                     /\ 100 * Cardinality(FlaggedRows(d)) >= 35 * Len(d.rows)
           R == (d.reasons \ {"manyRows"})
                  \cup (IF many THEN {"manyRows"} ELSE {})
                  \cup If("conflict", {"miscounted", "conflict"})
                  \cup (IF d.rows = <<>> THEN {"conflict"} ELSE {})
           needs == d.needs \/ R # {}
           a == [d EXCEPT !.reasons = R]
           e == Invariants(d)
<1>1. e = [a EXCEPT !.needs = needs]
  BY DEF Invariants
<1> HIDE DEF many
<1>2. R \in SUBSET Reasons
  BY DEF Documents, If, Reasons, PolicyBlocking, Hard
<1>3. a \in Documents /\ a.reasons = R /\ SameBut({"reasons"}, d, a)
  <2> HIDE DEF R
  <2> QED BY <1>2, SetReasons
<1>4. /\ e \in Documents /\ e.needs = needs /\ e.reasons = R
      /\ SameBut({"reasons", "needs"}, d, e)
  <2>1. needs \in BOOLEAN
    OBVIOUS
  <2> HIDE DEF R, needs, a, e
  <2>2. e \in Documents /\ e.needs = needs /\ SameBut({"needs"}, a, e)
    BY <1>1, <1>3, <2>1, SetNeeds
  <2>3. QED
    BY <1>3, <2>2 DEF SameBut, Fields
<1>5. d.reasons \ {"manyRows"} \subseteq R
  OBVIOUS
<1>6. ASSUME Settled(d) PROVE Settled(e)
  <2>1. CASE Clear(d)
    <3>1. R \cap PolicyBlocking = d.reasons \cap PolicyBlocking
      BY <1>6, <2>1 DEF Settled, Clear, AllCompliant, Miscounted, Conflicting,
           If, PolicyBlocking, Hard
    <3> HIDE DEF R, needs, a, e
    <3>2. Same(d, e)
      BY <1>4, <3>1 DEF Same, SameRows, SameBut, Fields
    <3>3. e.policy.reasons \cap PolicyBlocking \subseteq e.reasons
      BY <1>4, <1>6, <3>1 DEF Settled, SameBut, Fields
    <3>4. QED
      BY <1>4, <1>6, <2>1, <3>2, <3>3, SettledStep
  <2>2. CASE ~Clear(d)
    <3> HIDE DEF R, a, e
    <3>1. /\ e.rows = d.rows /\ e.policy = d.policy /\ e.status = d.status
          /\ d.needs => e.needs
      BY <1>4 DEF SameBut, Fields
    <3>2. ~Lowered(e)
      BY <1>6, <2>2, <3>1 DEF Settled, Lowered
    <3>3. d.reasons \cap PolicyBlocking \subseteq e.reasons
      BY <1>4, <1>5 DEF PolicyBlocking, Hard
    <3>4. Deviating(e) /\ Downgrades(e)
      BY <1>6, <3>1 DEF Settled, Deviating, Downgrades
    <3>5. Conflicting(e) /\ Miscounted(e) /\ Marked(e)
      BY <1>6, <3>3 DEF Settled, Conflicting, Miscounted, Marked,
           PolicyBlocking, Hard
    <3>6. QED
      BY <1>6, <3>1, <3>2, <3>3, <3>4, <3>5 DEF Settled
  <2>3. QED
    BY <2>1, <2>2
<1>7. QED
  BY <1>4, <1>5, <1>6

(***************************************************************************)
(* The pipeline up to the policy                                           *)
(***************************************************************************)

(* Adding reasons and asking for a review.                                 *)
LEMMA WithReasonsEffect ==
  ASSUME NEW d \in Documents, NEW R \in SUBSET Reasons
  PROVE  /\ WithReasons(d, R) \in Documents
         /\ WithReasons(d, R).reasons = d.reasons \cup R
         /\ SameBut({"reasons"}, d, WithReasons(d, R))
<1>1. d.reasons \cup R \in SUBSET Reasons
  BY DEF Documents
<1>2. WithReasons(d, R) = [d EXCEPT !.reasons = d.reasons \cup R]
  BY DEF WithReasons
<1>3. QED
  BY <1>1, <1>2, SetReasons

LEMMA AskingEffect ==
  ASSUME NEW d \in Documents
  PROVE  /\ Asking(d) \in Documents
         /\ SameBut({"needs"}, d, Asking(d))
BY SetNeeds DEF Asking

(* The reasons that the services add by name.                              *)
LEMMA KnownReasons ==
  /\ {"identifier"} \in SUBSET Reasons
  /\ {"doubt"} \in SUBSET Reasons
  /\ {"visual"} \in SUBSET Reasons
  /\ {"structure"} \in SUBSET Reasons
BY DEF Reasons, SoftAudit, Diagnostic, PolicyBlocking, Hard

(* Traceability downgrades every compliant row it could not verify.        *)
LEMMA TracedEffect ==
  ASSUME NEW d \in Documents, Deviating(d)
  PROVE  LET e == Traced(d) IN
         /\ e \in Documents
         /\ d.reasons \subseteq e.reasons
         /\ Deviating(e) /\ Downgrades(e)
<1> DEFINE row(i) == Downgrade(d.rows[i])
           rows == [i \in DOMAIN d.rows |-> row(i)]
           untraced == Aggregate(rows) = "COMPLIANT" /\ ~DocumentVerified(d)
           outcome == IF untraced THEN "NEEDS_REVIEW" ELSE Aggregate(rows)
           a == [d EXCEPT !.rows = rows]
           b == [a EXCEPT !.outcome = outcome]
           found == untraced \/ \E i \in DOMAIN d.rows : Downgraded(d.rows[i])
           f == Asking(WithReasons(b, {"identifier"}))
           e == Traced(d)
<1>1. e = IF found THEN [f EXCEPT !.status = "NEEDS_REVIEW"] ELSE b
  BY DEF Traced
<1> HIDE DEF found, e
<1>2. \A i \in DOMAIN d.rows :
        /\ row(i) \in Rows
        /\ row(i).outcome = "COMPLIANT" \/ row(i).deviates
        /\ row(i).outcome = "COMPLIANT" => row(i).id # "none"
  BY RowAt, DowngradeType DEF Deviating, Downgraded
<1>3. rows \in Seq(Rows)
  <2>1. d.rows \in Seq(Rows)
    BY DEF Documents
  <2> HIDE DEF row
  <2>2. QED
    BY <1>2, <2>1, MapRows
<1>4. outcome \in RowOutcomes
  BY AggregateType DEF RowOutcomes
<1> HIDE DEF outcome
<1>5. a \in Documents /\ a.rows = rows /\ a.reasons = d.reasons
  <2> HIDE DEF rows
  <2> QED BY <1>3, SetRows DEF SameBut, Fields
<1> HIDE DEF row, a
<1>6. b \in Documents /\ b.rows = rows /\ b.reasons = d.reasons
  <2> HIDE DEF rows
  <2> QED BY <1>4, <1>5, SetOutcome DEF SameBut, Fields
<1> HIDE DEF b
<1>7. /\ f \in Documents /\ f.rows = b.rows
      /\ f.reasons = b.reasons \cup {"identifier"}
  BY <1>6, KnownReasons, WithReasonsEffect, AskingEffect DEF SameBut, Fields
<1> HIDE DEF f
<1>8. e \in Documents /\ e.rows = b.rows /\ b.reasons \subseteq e.reasons
  <2> DEFINE g == [f EXCEPT !.status = "NEEDS_REVIEW"]
  <2>1. "NEEDS_REVIEW" \in Statuses
    BY DEF Statuses
  <2>2. g \in Documents /\ g.rows = f.rows /\ g.reasons = f.reasons
    BY <1>7, <2>1, SetStatus DEF SameBut, Fields
  <2> HIDE DEF rows, g
  <2>3. e = g \/ e = b
    BY <1>1 DEF g
  <2>4. QED
    BY <1>6, <1>7, <2>2, <2>3
<1>9. Deviating(e) /\ Downgrades(e)
  BY <1>2, <1>6, <1>8 DEF Deviating, Downgrades
<1>10. QED
  BY <1>6, <1>8, <1>9 DEF e

(* The identifier guard keeps the rows.                                    *)
LEMMA GuardedEffect ==
  ASSUME NEW d \in Documents, NEW S
  PROVE  LET e == Guarded(d, S) IN
         /\ e \in Documents
         /\ d.reasons \subseteq e.reasons
         /\ SameRows(d, e)
<1> DEFINE a == WithReasons(d, {"doubt"})
           b == Asking(a)
<1>1. Guarded(d, S) = Flagging(b, S)
  BY DEF Guarded
<1>2. /\ a \in Documents /\ a.reasons = d.reasons \cup {"doubt"}
      /\ a.rows = d.rows
  BY KnownReasons, WithReasonsEffect DEF SameBut, Fields
<1> HIDE DEF a
<1>3. b \in Documents /\ b.reasons = a.reasons /\ b.rows = a.rows
  BY <1>2, AskingEffect DEF SameBut, Fields
<1> HIDE DEF b
<1>4. /\ Flagging(b, S) \in Documents
      /\ Flagging(b, S).reasons = b.reasons
      /\ SameRows(b, Flagging(b, S))
  BY <1>3, FlaggingEffect DEF SameBut, Fields
<1>5. QED
  BY <1>1, <1>2, <1>3, <1>4 DEF SameRows

(* So do the readability checks.                                           *)
LEMMA NotedEffect ==
  ASSUME NEW d \in Documents
  PROVE  LET e == Noted(d) IN
         /\ e \in Documents
         /\ d.reasons \subseteq e.reasons
         /\ e.rows = d.rows
<1> DEFINE R == If("legacy", {"remarks"}) \cup If("lowRow", {"weakRow"})
                  \cup (IF FlaggedRows(d) # {} THEN {"visual"} ELSE {})
                  \cup (IF d.rows = <<>> THEN {"structure"} ELSE {})
           a == WithReasons(d, R)
<1>1. Noted(d) = Asking(a) \/ Noted(d) = a
  BY DEF Noted
<1>2. R \in SUBSET Reasons
  BY DEF If, Reasons, SoftAudit, Diagnostic, PolicyBlocking
<1> HIDE DEF R
<1>3. a \in Documents /\ a.reasons = d.reasons \cup R /\ a.rows = d.rows
  BY <1>2, WithReasonsEffect DEF SameBut, Fields
<1> HIDE DEF a
<1>4. /\ Asking(a) \in Documents /\ Asking(a).reasons = a.reasons
      /\ Asking(a).rows = a.rows
  BY <1>3, AskingEffect DEF SameBut, Fields
<1>5. QED
  BY <1>1, <1>3, <1>4

(* The first normalization records a wrong row count and unsettled rows.   *)
LEMMA NormalizedEffect ==
  ASSUME NEW d \in Documents, NEW c \in {"low", "mid", "high"}
  PROVE  LET e == Normalized(d, c) IN
         /\ e \in Documents
         /\ d.reasons \cap Hard \subseteq e.reasons
         /\ e.rows = d.rows
         /\ Miscounted(e) /\ Unsettled(e)
<1> DEFINE a == [d EXCEPT !.conf = c]
           R == NormalReasons(a)
           b == [a EXCEPT !.reasons = R]
           n == R # {}
           f == [b EXCEPT !.needs = n]
           e == Normalized(d, c)
<1>1. e = Ranked(f)
  BY DEF Normalized
<1>2. a \in Documents /\ a.rows = d.rows /\ a.reasons = d.reasons
  BY DEF Documents
<1> HIDE DEF a, e
<1>3. R \in SUBSET Reasons /\ a.reasons \cap PolicyBlocking \subseteq R
      /\ Miscounted(b) /\ Unsettled(b)
  BY <1>2, NormalReasonsEffect
<1> HIDE DEF R
<1>4. b \in Documents /\ b.rows = a.rows /\ b.reasons = R
  BY <1>2, <1>3, SetReasons DEF SameBut, Fields
<1> HIDE DEF b
<1>5. f \in Documents /\ f.rows = b.rows /\ f.reasons = b.reasons
  <2>1. n \in BOOLEAN
    OBVIOUS
  <2> HIDE DEF n
  <2>2. QED
    BY <1>4, <2>1, SetNeeds DEF SameBut, Fields
<1> HIDE DEF f
<1>6. e \in Documents /\ e.rows = f.rows /\ e.reasons = f.reasons
  BY <1>1, <1>5, RankedEffect DEF SameBut, Fields
<1>7. Miscounted(e) /\ Unsettled(e)
  BY <1>3, <1>5, <1>6 DEF Miscounted, Unsettled
<1>8. QED
  BY <1>2, <1>3, <1>4, <1>5, <1>6, <1>7 DEF e, PolicyBlocking

(***************************************************************************)
(* The review policy                                                       *)
(***************************************************************************)

(* Only numeric doubts are dropped before the policy.                      *)
LEMMA WithoutInBandDoubtsEffect ==
  ASSUME NEW d \in Documents
  PROVE  LET e == WithoutInBandDoubts(d) IN
         /\ e \in Documents
         /\ SameBut({"reasons"}, d, e)
         /\ e.reasons \cup {"numeric"} = d.reasons \cup {"numeric"}
<1>1. d.reasons \ {"numeric"} \in SUBSET Reasons
  BY DEF Documents
<1>2. CASE d.rows # <<>> /\ "outOfBand" \notin odd
  <2>1. WithoutInBandDoubts(d) = [d EXCEPT !.reasons = d.reasons \ {"numeric"}]
    BY <1>2 DEF WithoutInBandDoubts
  <2>2. QED
    BY <1>1, <2>1, SetReasons
<1>3. CASE ~(d.rows # <<>> /\ "outOfBand" \notin odd)
  BY <1>3 DEF WithoutInBandDoubts, SameBut
<1>4. QED
  BY <1>2, <1>3

(* The policy derives a reason for a severe scan and an unsupported type.  *)
LEMMA StructuredReasons ==
  ASSUME NEW d \in Documents
  PROVE  /\ Structured(d) \subseteq Reasons
         /\ "severe" \in odd => "severe" \in Structured(d)
         /\ "unsupported" \in odd => "structure" \in Structured(d)
<1>1. d.reasons \subseteq Reasons
  BY DEF Documents
<1>2. QED
  BY <1>1 DEF Structured, If, Reasons, PolicyBlocking, Hard, ConfidenceOnly

(* What the policy settles: all reasons but confidence stay.               *)
LEMMA ReviewedEffect ==
  ASSUME NEW d \in Documents
  PROVE  LET e == Reviewed(d)
             combined == d.reasons \cup Structured(d) IN
         /\ e \in Documents
         /\ SameBut({"reasons", "needs"}, d, e)
         /\ e.reasons \subseteq combined
         /\ combined \ ConfidenceOnly \subseteq e.reasons
         /\ e.needs = (~Bypassed(d) /\ ~CalledOff(d)
                        /\ (d.needs \/ combined # {}))
<1> DEFINE combined == d.reasons \cup Structured(d)
           R == IF Bypassed(d) THEN combined \ ConfidenceOnly ELSE combined
           n == ~Bypassed(d) /\ ~CalledOff(d) /\ (d.needs \/ combined # {})
           a == [d EXCEPT !.reasons = R]
<1>1. Reviewed(d) = [a EXCEPT !.needs = n]
  BY DEF Reviewed
<1>2. R \in SUBSET Reasons
  BY StructuredReasons DEF Documents
<1>3. n \in BOOLEAN
  OBVIOUS
<1>4. R \subseteq combined /\ combined \ ConfidenceOnly \subseteq R
  OBVIOUS
<1> HIDE DEF R, n
<1>5. a \in Documents /\ a.reasons = R /\ SameBut({"reasons"}, d, a)
  BY <1>2, SetReasons
<1> HIDE DEF a
<1>6. /\ Reviewed(d) \in Documents /\ Reviewed(d).needs = n
      /\ SameBut({"needs"}, a, Reviewed(d))
  BY <1>1, <1>3, <1>5, SetNeeds
<1>7. Reviewed(d).reasons = R /\ SameBut({"reasons", "needs"}, d, Reviewed(d))
  BY <1>5, <1>6 DEF SameBut, Fields
<1>8. QED
  BY <1>4, <1>6, <1>7 DEF n

(* The policy asks for no review only where a document is clear.           *)
LEMMA ReviewedIsClear ==
  ASSUME NEW d \in Documents, Unsettled(d), ~Reviewed(d).needs
  PROVE  Clear(Reviewed(d))
<1> DEFINE e == Reviewed(d)
           combined == d.reasons \cup Structured(d)
<1>1. /\ e.rows = d.rows
      /\ e.reasons \subseteq combined
      /\ Bypassed(d) \/ CalledOff(d) \/ combined = {}
  BY ReviewedEffect DEF SameBut, Fields
<1> HIDE DEF e
<1>2. AllCompliant(d) /\ combined \cap PolicyBlocking = {}
  <2>1. CASE Bypassed(d)
    BY <2>1 DEF Bypassed
  <2>2. CASE CalledOff(d)
    BY <2>2 DEF CalledOff, Blockers
  <2>3. CASE combined = {}
    <3>1. d.rows # <<>>
      BY <2>3 DEF Unsettled
    <3>2. ASSUME NEW i \in DOMAIN d.rows
          PROVE  d.rows[i].outcome = "COMPLIANT"
      <4>1. d.rows[i].outcome \in RowOutcomes
        BY RowAt DEF Rows
      <4>2. d.rows[i].outcome \notin {"NEEDS_REVIEW", "NOT_VALIDATED"}
        BY <2>3 DEF Unsettled
      <4>3. d.rows[i].outcome # "NON_COMPLIANT"
        BY <2>3 DEF Structured
      <4>4. QED
        BY <4>1, <4>2, <4>3 DEF RowOutcomes
    <3>3. QED
      BY <2>3, <3>1, <3>2 DEF AllCompliant
  <2>4. QED
    BY <1>1, <2>1, <2>2, <2>3
<1>3. odd \cap {"severe", "unsupported"} = {}
  BY <1>2, StructuredReasons DEF PolicyBlocking, Hard
<1>4. AllCompliant(e)
  BY <1>1, <1>2 DEF AllCompliant
<1>5. Clear(e)
  BY <1>1, <1>2, <1>3, <1>4 DEF Clear
<1>6. QED
  BY <1>5 DEF e

(* The policy's verdict; it calls a review off only where the review       *)
(* request was already gone.                                               *)
LEMMA JudgedEffect ==
  ASSUME NEW d \in Documents
  PROVE  LET w == WithoutInBandDoubts(d)
             r == Reviewed(w)
             e == Judged(d) IN
         /\ w \in Documents /\ r \in Documents /\ e \in Documents
         /\ w.rows = d.rows /\ r.rows = d.rows /\ e.rows = d.rows
         /\ w.reasons \cup {"numeric"} = d.reasons \cup {"numeric"}
         /\ e.reasons = r.reasons
         /\ e.policy.reasons = r.reasons \cup Structured(w)
         /\ Lowered(e) => ~r.needs
<1> DEFINE w == WithoutInBandDoubts(d)
           r == Reviewed(w)
           accepts == PolicyAccepts(r)
           backed == accepts /\ EvidenceHolds(r)
           required == r.needs \/ (accepts /\ ~backed)
           policy == [decision |-> IF backed THEN "auto_accept"
                                             ELSE "review_required",
                      required |-> required, evidence |-> backed,
                      reasons |-> r.reasons \cup Structured(w),
                      explained |-> FALSE]
           a == [r EXCEPT !.needs = required]
           b == [a EXCEPT !.policy = policy]
           e == Judged(d)
<1>1. e = Ranked(b)
  BY DEF Judged
<1>2. /\ w \in Documents /\ w.rows = d.rows
      /\ w.reasons \cup {"numeric"} = d.reasons \cup {"numeric"}
  BY WithoutInBandDoubtsEffect DEF SameBut, Fields
<1> HIDE DEF w, e
<1>3. r \in Documents /\ r.rows = w.rows
  BY <1>2, ReviewedEffect DEF SameBut, Fields
<1>4. r.reasons \cup Structured(w) \in SUBSET Reasons
  BY <1>2, <1>3, StructuredReasons DEF Documents
<1>5. backed => ~r.needs
  BY DEF PolicyAccepts
<1> HIDE DEF r
<1>6. required \in BOOLEAN /\ backed \in BOOLEAN
  OBVIOUS
<1>7. r.needs => required
  OBVIOUS
<1> HIDE DEF accepts, backed, required
<1>8. /\ policy \in Policies
      /\ policy.reasons = r.reasons \cup Structured(w)
      /\ policy.required = required
      /\ policy.decision = "auto_accept" => backed
  BY <1>4, <1>6 DEF Policies
<1> HIDE DEF policy
<1>9. a \in Documents /\ a.needs = required /\ SameBut({"needs"}, r, a)
  BY <1>3, <1>6, SetNeeds
<1> HIDE DEF a
<1>10. b \in Documents /\ b.policy = policy /\ SameBut({"policy"}, a, b)
  BY <1>8, <1>9, SetPolicy
<1> HIDE DEF b
<1>11. /\ e \in Documents /\ (e.needs => e.status = "NEEDS_REVIEW")
       /\ SameBut({"status"}, b, e)
  BY <1>1, <1>10, RankedEffect
<1>12. /\ e.rows = r.rows /\ e.reasons = r.reasons
       /\ e.needs = required /\ e.policy = policy
  BY <1>9, <1>10, <1>11 DEF SameBut, Fields
<1>13. Lowered(e) => ~r.needs
  BY <1>5, <1>7, <1>8, <1>11, <1>12 DEF Lowered
<1>14. QED
  BY <1>2, <1>3, <1>8, <1>11, <1>12, <1>13 DEF w, r, e

(* The policy loses no blocking reason.                                    *)
LEMMA JudgedKeepsHard ==
  ASSUME NEW d \in Documents
  PROVE  d.reasons \cap PolicyBlocking \subseteq Judged(d).reasons
<1> DEFINE w == WithoutInBandDoubts(d)
           r == Reviewed(w)
           e == Judged(d)
<1>1. /\ w \in Documents
      /\ w.reasons \cup {"numeric"} = d.reasons \cup {"numeric"}
      /\ e.reasons = r.reasons
  BY JudgedEffect
<1> HIDE DEF w, e
<1>2. w.reasons \ ConfidenceOnly \subseteq r.reasons
  BY <1>1, ReviewedEffect
<1>3. d.reasons \cap PolicyBlocking \subseteq w.reasons \ ConfidenceOnly
  BY <1>1 DEF PolicyBlocking, Hard, ConfidenceOnly
<1>4. QED
  BY <1>1, <1>2, <1>3 DEF e

(* The policy settles the document.                                        *)
LEMMA JudgedSettles ==
  ASSUME NEW d \in Documents, Deviating(d), Downgrades(d),
         Conflicting(d), Miscounted(d), Unsettled(d)
  PROVE  Settled(Judged(d))
<1> DEFINE w == WithoutInBandDoubts(d)
           r == Reviewed(w)
           e == Judged(d)
<1>1. /\ w \in Documents /\ r \in Documents /\ e \in Documents
      /\ w.rows = d.rows /\ r.rows = d.rows /\ e.rows = d.rows
      /\ w.reasons \cup {"numeric"} = d.reasons \cup {"numeric"}
      /\ e.reasons = r.reasons
      /\ e.policy.reasons = r.reasons \cup Structured(w)
      /\ Lowered(e) => ~r.needs
  BY JudgedEffect
<1>2. d.reasons \cap PolicyBlocking \subseteq e.reasons
  BY JudgedKeepsHard
<1> HIDE DEF w, e
<1>3. Structured(w) \ ConfidenceOnly \subseteq e.reasons
  BY <1>1, ReviewedEffect
<1>4. Deviating(e) /\ Downgrades(e)
  BY <1>1 DEF Deviating, Downgrades
<1>5. Conflicting(e) /\ Miscounted(e)
  BY <1>2 DEF Conflicting, Miscounted, PolicyBlocking, Hard
<1>6. Marked(e)
  BY <1>1, <1>3, StructuredReasons DEF Marked, ConfidenceOnly
<1>7. e.policy.reasons \cap PolicyBlocking \subseteq e.reasons
  BY <1>1, <1>3 DEF PolicyBlocking, Hard, ConfidenceOnly
<1>8. Unsettled(w)
  BY <1>1 DEF Unsettled
<1>9. ASSUME Lowered(e) PROVE Clear(e)
  <2>1. Clear(r)
    BY <1>1, <1>8, <1>9, ReviewedIsClear
  <2> HIDE DEF r
  <2>2. QED
    BY <1>1, <2>1 DEF Clear, AllCompliant
<1>10. Settled(e)
  BY <1>4, <1>5, <1>6, <1>7, <1>9 DEF Settled
<1>11. QED
  BY <1>10 DEF e

(***************************************************************************)
(* The initial states                                                      *)
(***************************************************************************)

(* Before the policy there is none.                                        *)
LEMMA NoPolicyType == NoPolicy \in Policies
BY DEF NoPolicy, Policies

(* A validated document is one, its rows deviate where they should.        *)
LEMMA FreshEffect ==
  ASSUME NEW rows \in Seq(RowKinds)
  PROVE  /\ Fresh(rows) \in Documents
         /\ Deviating(Fresh(rows))
         /\ Conflicting(Fresh(rows))
<1>1. rows \in Seq(Rows)
  BY ReviewConstants DEF ReviewConstants
<1>2. Seeds \cap odd \subseteq Reasons
  BY DEF Seeds, Reasons, PolicyBlocking, Hard
<1>3. Fresh(rows) \in Documents
  BY <1>1, <1>2, NoPolicyType, AggregateType DEF Fresh, Documents, Statuses
<1>4. \A i \in DOMAIN rows :
        rows[i].outcome = "COMPLIANT" \/ rows[i].deviates
  <2> SUFFICES ASSUME NEW i \in DOMAIN rows
               PROVE  rows[i].outcome = "COMPLIANT" \/ rows[i].deviates
    OBVIOUS
  <2>1. rows[i] \in RowKinds
    OBVIOUS
  <2>2. QED
    BY <2>1, ReviewConstants DEF ReviewConstants
<1>5. Deviating(Fresh(rows))
  BY <1>4 DEF Deviating, Fresh
<1>6. Conflicting(Fresh(rows))
  BY DEF Conflicting, Fresh, Seeds
<1>7. QED
  BY <1>3, <1>5, <1>6

(* No payload is a document too.                                           *)
LEMMA NoPayloadType == NoPayload \in Documents
<1>1. <<>> \in Seq(Rows)
  OBVIOUS
<1>2. QED
  BY <1>1, NoPolicyType DEF NoPayload, Documents, Statuses, RowOutcomes

(* The invariant holds initially.                                          *)
LEMMA InitReview == Init => ReviewInv
<1>1. SUFFICES ASSUME Init PROVE ReviewInv
  OBVIOUS
<1>2. PICK n \in 0..MaxRows : \E rows \in [1..n -> RowKinds] : doc = Fresh(rows)
  BY <1>1 DEF Init
<1>3. PICK rows \in [1..n -> RowKinds] : doc = Fresh(rows)
  BY <1>2
<1>4. rows \in Seq(RowKinds)
  <2>1. n \in Nat
    BY ReviewConstants DEF ReviewConstants
  <2>2. QED
    BY <2>1
<1>5. doc \in Documents /\ Deviating(doc) /\ Conflicting(doc)
  BY <1>3, <1>4, FreshEffect
<1>6. TypeOK
  BY <1>1, <1>5, NoPayloadType DEF Init, TypeOK, Stages, Statuses
<1>7. DocumentFollows
  BY <1>1, <1>5 DEF Init, DocumentFollows, Untraced, Unjudged, Unassessed
<1>8. PayloadsFollow
  BY <1>1 DEF Init, PayloadsFollow
<1>9. QED
  BY <1>6, <1>7, <1>8 DEF ReviewInv

(***************************************************************************)
(* The steps                                                               *)
(***************************************************************************)

(* A hard reason of the document is not lost.                              *)
HardStay == doc.reasons \cap Hard \subseteq doc'.reasons

(* Whether a document is settled does not depend on where it is.           *)
LEMMA SettledNext ==
  ASSUME NEW d, odd' = odd, Settled(d)
  PROVE  /\ doc' = d => Settled(doc)'
         /\ served' = d => Settled(served)'
         /\ stored' = d => Settled(stored)'
<1>1. doc' = d => Settled(doc)'
  BY DEF Settled, Deviating, Downgrades, Conflicting, Miscounted, Marked,
     Lowered, Clear, AllCompliant
<1>2. served' = d => Settled(served)'
  BY DEF Settled, Deviating, Downgrades, Conflicting, Miscounted, Marked,
     Lowered, Clear, AllCompliant
<1>3. stored' = d => Settled(stored)'
  BY DEF Settled, Deviating, Downgrades, Conflicting, Miscounted, Marked,
     Lowered, Clear, AllCompliant
<1>4. QED
  BY <1>1, <1>2, <1>3

Payloads == {"processed", "committed", "stored"}

(* A step of the pipeline, from what it makes of the document.             *)
LEMMA PipelineStep ==
  ASSUME ReviewInv, NEW from, NEW to \in Stages \ Payloads, NEW e \in Documents,
         from \notin Payloads, Step(from, to, e),
         Deviating(e), Conflicting(e),
         to \notin Untraced => Downgrades(e),
         to = "assessed" => Miscounted(e) /\ Unsettled(e),
         to \notin Unjudged => Settled(e)
  PROVE  ReviewInv'
<1>1. /\ stage = from /\ stage' = to /\ doc' = e
      /\ odd' = odd /\ run' = run /\ stored' = stored /\ served' = served
  BY DEF Step
<1>2. TypeOK'
  BY <1>1 DEF ReviewInv, TypeOK
<1>3. DocumentFollows'
  <2>1. Deviating(doc)' /\ Conflicting(doc)'
    BY <1>1 DEF Deviating, Conflicting
  <2>2. (stage \notin Untraced => Downgrades(doc))'
    BY <1>1 DEF Downgrades, Untraced
  <2>3. (stage = "assessed" => Miscounted(doc) /\ Unsettled(doc))'
    BY <1>1 DEF Miscounted, Unsettled
  <2>4. (stage \notin Unjudged => Settled(doc))'
    BY <1>1, SettledNext DEF Unjudged, Unassessed
  <2>5. QED
    BY <2>1, <2>2, <2>3, <2>4 DEF DocumentFollows
<1>4. PayloadsFollow'
  <2>1. served = NoPayload
    BY <1>1 DEF ReviewInv, PayloadsFollow, Payloads
  <2>2. served' = NoPayload'
    BY <1>1, <2>1 DEF NoPayload, NoPolicy
  <2>3. QED
    BY <1>1, <2>2 DEF PayloadsFollow, Payloads
<1>5. QED
  BY <1>2, <1>3, <1>4 DEF ReviewInv

(* The types that the steps rely on.                                       *)
LEMMA TypeFacts ==
  ASSUME ReviewInv
  PROVE  doc \in Documents /\ served \in Documents /\ stored \in Documents
BY DEF ReviewInv, TypeOK

(* Each step keeps the invariant and the hard reasons: first the services  *)
(* before the policy.                                                      *)
LEMMA ValidateTraceabilityPreserves ==
  ASSUME ReviewInv, ValidateTraceability
  PROVE  ReviewInv' /\ HardStay
<1>1. /\ Traced(doc) \in Documents
      /\ doc.reasons \subseteq Traced(doc).reasons
      /\ Deviating(Traced(doc)) /\ Downgrades(Traced(doc))
  BY TypeFacts, TracedEffect DEF ReviewInv, DocumentFollows
<1>2. Conflicting(Traced(doc))
  BY <1>1 DEF ReviewInv, DocumentFollows, Conflicting
<1>3. ReviewInv'
  BY <1>1, <1>2, PipelineStep
     DEF ValidateTraceability, Stages, Payloads, Unjudged, Unassessed
<1>4. HardStay
  BY <1>1 DEF ValidateTraceability, Step, HardStay
<1>5. QED
  BY <1>3, <1>4

(* Services that keep the rows, before the policy.                         *)
LEMMA BeforePolicy ==
  ASSUME ReviewInv, stage # "validated", NEW e \in Documents,
         SameRows(doc, e), doc.reasons \cap Hard \subseteq e.reasons
  PROVE  Deviating(e) /\ Downgrades(e) /\ Conflicting(e)
<1>1. Deviating(doc) /\ Downgrades(doc) /\ Conflicting(doc)
  BY DEF ReviewInv, DocumentFollows, Untraced
<1>2. QED
  BY <1>1 DEF SameRows, Deviating, Downgrades, Conflicting, Hard

(* VerifyIdentifiers keeps the rows and adds a reason.                     *)
LEMMA VerifyIdentifiersPreserves ==
  ASSUME ReviewInv, VerifyIdentifiers
  PROVE  ReviewInv' /\ HardStay
<1>1. PICK e : /\ Step("traced", "guarded", e)
               /\ e = doc \/ \E S : e = Guarded(doc, S)
  BY DEF VerifyIdentifiers
<1>2. e \in Documents /\ SameRows(doc, e) /\ doc.reasons \subseteq e.reasons
  BY <1>1, TypeFacts, GuardedEffect DEF SameRows
<1>3. stage = "traced"
  BY <1>1 DEF Step
<1>4. Deviating(e) /\ Downgrades(e) /\ Conflicting(e)
  BY <1>2, <1>3, BeforePolicy
<1>5. ReviewInv'
  BY <1>1, <1>2, <1>4, PipelineStep DEF Stages, Payloads, Unjudged, Unassessed
<1>6. HardStay
  BY <1>1, <1>2 DEF Step, HardStay
<1>7. QED
  BY <1>5, <1>6

(* NoteReadability keeps the rows and adds reasons.                        *)
LEMMA NoteReadabilityPreserves ==
  ASSUME ReviewInv, NoteReadability
  PROVE  ReviewInv' /\ HardStay
<1> DEFINE e == Noted(doc)
<1>1. Step("guarded", "noted", e) /\ stage = "guarded"
  BY DEF NoteReadability, Step
<1>2. e \in Documents /\ e.rows = doc.rows /\ doc.reasons \subseteq e.reasons
  BY TypeFacts, NotedEffect
<1> HIDE DEF e
<1>3. Deviating(e) /\ Downgrades(e) /\ Conflicting(e)
  BY <1>1, <1>2, BeforePolicy DEF SameRows
<1>4. ReviewInv'
  BY <1>1, <1>2, <1>3, PipelineStep DEF Stages, Payloads, Unjudged, Unassessed
<1>5. HardStay
  BY <1>1, <1>2 DEF Step, HardStay
<1>6. QED
  BY <1>4, <1>5

(* NormalizeConfidence leaves the reasons the policy relies on.            *)
LEMMA NormalizeConfidencePreserves ==
  ASSUME ReviewInv, NormalizeConfidence
  PROVE  ReviewInv' /\ HardStay
<1>1. PICK c \in {"low", "mid", "high"} :
        Step("noted", "assessed", Normalized(doc, c))
  BY DEF NormalizeConfidence
<1> DEFINE e == Normalized(doc, c)
<1>2. Step("noted", "assessed", e) /\ stage = "noted"
  BY <1>1 DEF Step
<1>3. /\ e \in Documents
      /\ doc.reasons \cap Hard \subseteq e.reasons
      /\ e.rows = doc.rows
      /\ Miscounted(e) /\ Unsettled(e)
  <2>1. doc \in Documents
    BY TypeFacts
  <2>2. QED
    BY <1>1, <2>1, NormalizedEffect
<1> HIDE DEF e
<1>4. Deviating(e) /\ Downgrades(e) /\ Conflicting(e)
  BY <1>2, <1>3, BeforePolicy DEF SameRows
<1>5. ReviewInv'
  BY <1>2, <1>3, <1>4, PipelineStep DEF Stages, Payloads, Unjudged, Unassessed
<1>6. HardStay
  BY <1>2, <1>3 DEF Step, HardStay
<1>7. QED
  BY <1>5, <1>6

(* ApplyReviewPolicy settles the document.                                 *)
LEMMA ApplyReviewPolicyPreserves ==
  ASSUME ReviewInv, ApplyReviewPolicy
  PROVE  ReviewInv' /\ HardStay
<1> DEFINE e == Judged(doc)
<1>1. Step("assessed", "judged", e) /\ stage = "assessed"
  BY DEF ApplyReviewPolicy, Step
<1>2. e \in Documents /\ doc.reasons \cap PolicyBlocking \subseteq e.reasons
  BY TypeFacts, JudgedEffect, JudgedKeepsHard
<1>3. Settled(e)
  BY <1>1, TypeFacts, JudgedSettles
     DEF ReviewInv, DocumentFollows, Untraced
<1> HIDE DEF e
<1>4. ReviewInv'
  BY <1>1, <1>2, <1>3, PipelineStep DEF Stages, Payloads, Settled
<1>5. HardStay
  BY <1>1, <1>2 DEF Step, HardStay, PolicyBlocking
<1>6. QED
  BY <1>4, <1>5

(* The services after the policy.                                          *)
LEMMA AfterPolicy ==
  ASSUME ReviewInv, NEW from \in Stages \ (Payloads \cup Unjudged),
         NEW to \in Stages \ (Payloads \cup Unjudged), NEW e \in Documents,
         Step(from, to, e), Settled(doc) => Settled(e),
         doc.reasons \cap Hard \subseteq e.reasons
  PROVE  ReviewInv' /\ HardStay
<1>1. Settled(e)
  BY DEF ReviewInv, DocumentFollows, Step
<1>2. ReviewInv'
  BY <1>1, PipelineStep DEF Settled, Unjudged, Unassessed
<1>3. HardStay
  BY DEF Step, HardStay
<1>4. QED
  BY <1>2, <1>3

(* FinalizeDecision and FinalizeAgain are the same service.                *)
LEMMA FinalizePreserves ==
  ASSUME ReviewInv, FinalizeDecision \/ FinalizeAgain
  PROVE  ReviewInv' /\ HardStay
<1> DEFINE e == Calibrated(doc)
<1>1. \/ Step("judged", "finalized", e)
      \/ Step("sanitized", "recalibrated", e)
  BY DEF FinalizeDecision, FinalizeAgain
<1>2. /\ e \in Documents
      /\ e.reasons \cup ConfidenceOnly = doc.reasons \cup ConfidenceOnly
      /\ Settled(doc) => Settled(e)
  BY TypeFacts, CalibratedEffect, CalibratedSettles
<1> HIDE DEF e
<1>3. doc.reasons \cap Hard \subseteq e.reasons
  BY <1>2 DEF ConfidenceOnly, Hard
<1>4. QED
  BY <1>1, <1>2, <1>3, AfterPolicy DEF Stages, Payloads, Unjudged, Unassessed

(* AggregateOutcome keeps the document settled.                            *)
LEMMA AggregateOutcomePreserves ==
  ASSUME ReviewInv, AggregateOutcome
  PROVE  ReviewInv' /\ HardStay
<1> DEFINE e == Aggregated(doc)
<1>1. Step("finalized", "aggregated", e)
  BY DEF AggregateOutcome
<1>2. /\ e \in Documents /\ e.reasons = doc.reasons
      /\ Settled(doc) => Settled(e)
  BY TypeFacts, AggregatedEffect, AggregatedSettles DEF SameBut, Fields
<1> HIDE DEF e
<1>3. QED
  BY <1>1, <1>2, AfterPolicy DEF Stages, Payloads, Unjudged, Unassessed

(* SanitizeAndRenormalize only adds reasons.                               *)
LEMMA SanitizeAndRenormalizePreserves ==
  ASSUME ReviewInv, SanitizeAndRenormalize
  PROVE  ReviewInv' /\ HardStay
<1> DEFINE e == Renormalized(doc)
<1>1. Step("aggregated", "sanitized", e)
  BY DEF SanitizeAndRenormalize
<1>2. /\ e \in Documents /\ Sanitized(doc).reasons \subseteq e.reasons
      /\ Settled(doc) => Settled(e)
  BY TypeFacts, RenormalizedEffect, RenormalizedSettles
<1>3. Sanitized(doc).reasons = doc.reasons
  BY TypeFacts, SanitizedEffect DEF SameBut, Fields
<1> HIDE DEF e
<1>4. QED
  BY <1>1, <1>2, <1>3, AfterPolicy DEF Stages, Payloads, Unjudged, Unassessed

(* Explain drops confidence reasons alone.                                 *)
LEMMA ExplainPreserves ==
  ASSUME ReviewInv, Explain
  PROVE  ReviewInv' /\ HardStay
<1> DEFINE e == Explained(doc)
<1>1. Step("recalibrated", "explained", e)
  BY DEF Explain
<1>2. /\ e \in Documents
      /\ e.reasons \cup ConfidenceOnly = doc.reasons \cup ConfidenceOnly
      /\ Settled(doc) => Settled(e)
  BY TypeFacts, ExplainedEffect
<1> HIDE DEF e
<1>3. doc.reasons \cap Hard \subseteq e.reasons
  BY <1>2 DEF ConfidenceOnly, Hard
<1>4. QED
  BY <1>1, <1>2, <1>3, AfterPolicy DEF Stages, Payloads, Unjudged, Unassessed

(* ApplyReviewInvariants recomputes its own reason alone.                  *)
LEMMA ApplyReviewInvariantsPreserves ==
  ASSUME ReviewInv, ApplyReviewInvariants
  PROVE  ReviewInv' /\ HardStay
<1> DEFINE e == Invariants(doc)
<1>1. Step("explained", "extracted", e)
  BY DEF ApplyReviewInvariants
<1>2. /\ e \in Documents /\ doc.reasons \ {"manyRows"} \subseteq e.reasons
      /\ Settled(doc) => Settled(e)
  BY TypeFacts, InvariantsEffect
<1> HIDE DEF e
<1>3. doc.reasons \cap Hard \subseteq e.reasons
  BY <1>2 DEF Hard
<1>4. QED
  BY <1>1, <1>2, <1>3, AfterPolicy DEF Stages, Payloads, Unjudged, Unassessed

(***************************************************************************)
(* The payloads                                                            *)
(***************************************************************************)

(* A step of the worker, of the synchronous route or of the history API,   *)
(* from the payloads it leaves.                                            *)
LEMMA PayloadStep ==
  ASSUME ReviewInv, NEW to \in Payloads, stage' = to, stage \notin Unjudged,
         odd' = odd, run' \in Statuses,
         NEW d \in Documents, doc' = d, Settled(d),
         NEW p \in Documents, served' = p, NEW r \in Documents, stored' = r,
         to \in {"processed", "stored"} => Settled(p),
         to \in {"committed", "stored"} => Settled(r),
         to = "committed" => p = NoPayload
  PROVE  ReviewInv'
<1>1. TypeOK'
  BY DEF ReviewInv, TypeOK, Stages, Payloads
<1>2. DocumentFollows'
  <2>1. Settled(doc)'
    BY SettledNext
  <2>2. (Deviating(doc) /\ Downgrades(doc) /\ Conflicting(doc))'
    BY <2>1 DEF Settled
  <2>3. stage' # "assessed"
    BY DEF Payloads
  <2>4. QED
    BY <2>1, <2>2, <2>3 DEF DocumentFollows
<1>3. PayloadsFollow'
  <2>1. NoPayload' = NoPayload
    BY DEF NoPayload, NoPolicy
  <2>2. (stage \in {"processed", "stored"} => Settled(served))'
    BY SettledNext
  <2>3. (stage \in {"committed", "stored"} => Settled(stored))'
    BY SettledNext
  <2>4. (served # NoPayload => stage \in {"processed", "stored"})'
    BY <2>1 DEF Payloads
  <2>5. QED
    BY <2>2, <2>3, <2>4 DEF PayloadsFollow
<1>4. QED
  BY <1>1, <1>2, <1>3 DEF ReviewInv

(* After the policy the document is settled.                               *)
LEMMA SettledDocument ==
  ASSUME ReviewInv, stage \notin Unjudged
  PROVE  doc \in Documents /\ Settled(doc)
BY TypeFacts DEF ReviewInv, DocumentFollows

(* The boundary keeps rows and blocking reasons.                           *)
LEMMA BoundarySame ==
  ASSUME NEW d \in Documents
  PROVE  Same(d, Boundary(Sanitized(d))) /\ Same(d, Sanitized(d))
<1> DEFINE e == Sanitized(d)
<1>1. e \in Documents /\ SameRows(d, e) /\ e.reasons = d.reasons
  BY SanitizedEffect DEF SameBut, Fields
<1> HIDE DEF e
<1>2. /\ SameRows(e, Boundary(e))
      /\ Boundary(e).reasons \cup ConfidenceOnly = e.reasons \cup ConfidenceOnly
  BY <1>1, BoundaryEffect
<1>3. Same(d, e) /\ Same(e, Boundary(e))
  BY <1>1, <1>2 DEF Same, ConfidenceOnly, PolicyBlocking, Hard
<1>4. Same(d, Boundary(e))
  BY <1>3, SameTransitive
<1>5. QED
  BY <1>3, <1>4 DEF e

(* What update_run_completed writes about a document.                      *)
LEMMA UpdateRunEffect ==
  ASSUME NEW d \in Documents, Settled(d), UpdateRun(d)
  PROVE  /\ run' \in Statuses
         /\ stored' = Boundary(Sanitized(d))
         /\ Boundary(Sanitized(d)) \in Documents
         /\ Settled(Boundary(Sanitized(d)))
<1>1. Sanitized(d) \in Documents /\ Settled(Sanitized(d))
  BY SanitizedEffect, SanitizedSettles
<1>2. Sanitized(d).status \in Statuses
  BY <1>1 DEF Documents
<1>3. QED
  BY <1>1, <1>2, BoundaryEffect DEF UpdateRun

(* The worker's payload.                                                   *)
LEMMA ProcessPdfBytesPreserves ==
  ASSUME ReviewInv, ProcessPdfBytes
  PROVE  ReviewInv' /\ HardStay
<1>1. /\ stage = "extracted" /\ stage' = "processed"
      /\ served' = Boundary(Sanitized(doc))
      /\ odd' = odd /\ doc' = doc /\ run' = run /\ stored' = stored
  BY DEF ProcessPdfBytes
<1>2. doc \in Documents /\ Settled(doc)
  BY <1>1, SettledDocument DEF Unjudged, Unassessed
<1>3. Sanitized(doc) \in Documents /\ Settled(Sanitized(doc))
  BY <1>2, SanitizedEffect, SanitizedSettles
<1>4. /\ Boundary(Sanitized(doc)) \in Documents
      /\ Settled(Boundary(Sanitized(doc)))
  BY <1>3, BoundaryEffect
<1>5. run \in Statuses /\ stored \in Documents
  BY DEF ReviewInv, TypeOK
<1>6. ReviewInv'
  BY <1>1, <1>2, <1>4, <1>5, PayloadStep DEF Payloads, Unjudged, Unassessed
<1>7. QED
  BY <1>1, <1>6 DEF HardStay

(* The worker's row, and the payload that shares its policy.               *)
LEMMA PersistJobAnalysisPreserves ==
  ASSUME ReviewInv, PersistJobAnalysis
  PROVE  ReviewInv' /\ HardStay
<1> DEFINE r == Boundary(Sanitized(served))
           p == [served EXCEPT !.policy = r.policy]
<1>1. /\ stage = "processed" /\ stage' = "stored"
      /\ UpdateRun(served) /\ odd' = odd /\ doc' = doc
      /\ served' = [served EXCEPT !.policy = stored'.policy]
  BY DEF PersistJobAnalysis
<1>2. doc \in Documents /\ Settled(doc)
  BY <1>1, SettledDocument DEF Unjudged, Unassessed
<1>3. served \in Documents /\ Settled(served)
  BY <1>1, TypeFacts DEF ReviewInv, PayloadsFollow
<1>4. /\ run' \in Statuses /\ stored' = r
      /\ r \in Documents /\ Settled(r)
  BY <1>1, <1>3, UpdateRunEffect
<1>5. Same(served, r)
  BY <1>3, BoundarySame
<1>6. served' = p
  BY <1>1, <1>4
<1> HIDE DEF r
<1>7. p \in Documents /\ Settled(p)
  BY <1>3, <1>4, <1>5, SharedPolicySettles
<1> HIDE DEF p
<1>8. ReviewInv'
  BY <1>1, <1>2, <1>4, <1>6, <1>7, PayloadStep
     DEF Payloads, Unjudged, Unassessed
<1>9. QED
  BY <1>1, <1>8 DEF HardStay

(* The row of the synchronous route, whose extraction shares its policy.   *)
LEMMA PersistSyncAnalysisPreserves ==
  ASSUME ReviewInv, PersistSyncAnalysis
  PROVE  ReviewInv' /\ HardStay
<1> DEFINE s == Sanitized(doc)
           r == Boundary(Sanitized(s))
           d == [s EXCEPT !.policy = r.policy]
<1>1. /\ stage = "extracted" /\ stage' = "committed"
      /\ UpdateRun(s) /\ odd' = odd /\ served' = served
      /\ doc' = [s EXCEPT !.policy = stored'.policy]
  BY DEF PersistSyncAnalysis
<1>2. doc \in Documents /\ Settled(doc)
  BY <1>1, SettledDocument DEF Unjudged, Unassessed
<1>3. s \in Documents /\ Settled(s) /\ s.reasons = doc.reasons
  BY <1>2, SanitizedEffect, SanitizedSettles DEF SameBut, Fields
<1> HIDE DEF s
<1>4. /\ run' \in Statuses /\ stored' = r
      /\ r \in Documents /\ Settled(r)
  BY <1>1, <1>3, UpdateRunEffect
<1>5. Same(s, r)
  BY <1>3, BoundarySame
<1>6. doc' = d
  BY <1>1, <1>4
<1> HIDE DEF r
<1>7. d \in Documents /\ Settled(d)
  BY <1>3, <1>4, <1>5, SharedPolicySettles
<1>8. d.reasons = s.reasons
  <2>1. r.policy \in Policies
    BY <1>4 DEF Documents
  <2>2. QED
    BY <1>3, <2>1, SetPolicy DEF SameBut, Fields
<1> HIDE DEF d
<1>9. served = NoPayload /\ served \in Documents
  BY <1>1, TypeFacts DEF ReviewInv, PayloadsFollow
<1>10. ReviewInv'
  BY <1>1, <1>4, <1>6, <1>7, <1>9, PayloadStep
     DEF Payloads, Unjudged, Unassessed
<1>11. HardStay
  BY <1>3, <1>6, <1>8 DEF HardStay
<1>12. QED
  BY <1>10, <1>11

(* The answer of the synchronous route.                                    *)
LEMMA AnswerSyncPreserves ==
  ASSUME ReviewInv, AnswerSync
  PROVE  ReviewInv' /\ HardStay
<1>1. /\ stage = "committed" /\ stage' = "stored"
      /\ served' = Boundary(doc)
      /\ odd' = odd /\ doc' = doc /\ run' = run /\ stored' = stored
  BY DEF AnswerSync
<1>2. doc \in Documents /\ Settled(doc)
  BY <1>1, SettledDocument DEF Unjudged, Unassessed
<1>3. Boundary(doc) \in Documents /\ Settled(Boundary(doc))
  BY <1>2, BoundaryEffect
<1>4. run \in Statuses /\ stored \in Documents /\ Settled(stored)
  BY <1>1 DEF ReviewInv, TypeOK, PayloadsFollow
<1>5. ReviewInv'
  BY <1>1, <1>2, <1>3, <1>4, PayloadStep DEF Payloads, Unjudged, Unassessed
<1>6. QED
  BY <1>1, <1>5 DEF HardStay

(* An analysis read back.                                                  *)
LEMMA ReadAnalysisPreserves ==
  ASSUME ReviewInv, ReadAnalysis
  PROVE  ReviewInv' /\ HardStay
<1>1. /\ stage = "stored" /\ stage' = "stored"
      /\ served' = Boundary(stored)
      /\ odd' = odd /\ doc' = doc /\ run' = run /\ stored' = stored
  BY DEF ReadAnalysis
<1>2. doc \in Documents /\ Settled(doc)
  BY <1>1, SettledDocument DEF Unjudged, Unassessed
<1>3. run \in Statuses /\ stored \in Documents /\ Settled(stored)
  BY <1>1 DEF ReviewInv, TypeOK, PayloadsFollow
<1>4. Boundary(stored) \in Documents /\ Settled(Boundary(stored))
  BY <1>3, BoundaryEffect
<1>5. ReviewInv'
  BY <1>1, <1>2, <1>3, <1>4, PayloadStep DEF Payloads, Unjudged, Unassessed
<1>6. QED
  BY <1>1, <1>5 DEF HardStay

(***************************************************************************)
(* The theorems                                                            *)
(***************************************************************************)

(* Every step keeps the invariant and the hard reasons.                    *)
LEMMA NextReview ==
  ASSUME ReviewInv, Next
  PROVE  ReviewInv' /\ HardStay
<1>1. CASE \/ ValidateTraceability \/ VerifyIdentifiers \/ NoteReadability
           \/ NormalizeConfidence \/ ApplyReviewPolicy
  BY <1>1, ValidateTraceabilityPreserves, VerifyIdentifiersPreserves,
     NoteReadabilityPreserves, NormalizeConfidencePreserves,
     ApplyReviewPolicyPreserves
<1>2. CASE \/ FinalizeDecision \/ FinalizeAgain \/ AggregateOutcome
           \/ SanitizeAndRenormalize \/ Explain \/ ApplyReviewInvariants
  BY <1>2, FinalizePreserves, AggregateOutcomePreserves,
     SanitizeAndRenormalizePreserves, ExplainPreserves,
     ApplyReviewInvariantsPreserves
<1>3. CASE \/ ProcessPdfBytes \/ PersistJobAnalysis \/ PersistSyncAnalysis
           \/ AnswerSync \/ ReadAnalysis
  BY <1>3, ProcessPdfBytesPreserves, PersistJobAnalysisPreserves,
     PersistSyncAnalysisPreserves, AnswerSyncPreserves, ReadAnalysisPreserves
<1>4. QED
  BY <1>1, <1>2, <1>3 DEF Next

(* So does no step.                                                        *)
LEMMA StutterReview ==
  ASSUME ReviewInv, UNCHANGED vars
  PROVE  ReviewInv'
<1>1. /\ stage' = stage /\ odd' = odd /\ doc' = doc
      /\ run' = run /\ stored' = stored /\ served' = served
  BY DEF vars
<1>2. TypeOK'
  BY <1>1 DEF ReviewInv, TypeOK
<1>3. DocumentFollows'
  <2>1. (Deviating(doc) /\ Conflicting(doc))'
    BY <1>1 DEF ReviewInv, DocumentFollows, Deviating, Conflicting
  <2>2. (stage \notin Untraced => Downgrades(doc))'
    BY <1>1 DEF ReviewInv, DocumentFollows, Downgrades
  <2>3. (stage = "assessed" => Miscounted(doc) /\ Unsettled(doc))'
    BY <1>1 DEF ReviewInv, DocumentFollows, Miscounted, Unsettled
  <2>4. (stage \notin Unjudged => Settled(doc))'
    BY <1>1, SettledNext DEF ReviewInv, DocumentFollows
  <2>5. QED
    BY <2>1, <2>2, <2>3, <2>4 DEF DocumentFollows
<1>4. PayloadsFollow'
  <2>1. NoPayload' = NoPayload
    BY DEF NoPayload, NoPolicy
  <2>2. QED
    BY <1>1, <2>1, SettledNext DEF ReviewInv, PayloadsFollow
<1>5. QED
  BY <1>2, <1>3, <1>4 DEF ReviewInv

(* The inductive invariant: whatever rows the validator leaves and however *)
(* many, once the policy has judged a document its review is called off    *)
(* only where the document is clear, in it and in every payload.           *)
THEOREM ReviewInvariant == Spec => []ReviewInv
<1>1. ReviewInv /\ [Next]_vars => ReviewInv'
  BY NextReview, StutterReview
<1>2. QED
  BY InitReview, <1>1, PTL DEF Spec

(* Documents, payloads and statuses are what the services take them for.   *)
THEOREM ReviewTypes == Spec => []TypeOK
<1>1. ReviewInv => TypeOK
  BY DEF ReviewInv
<1>2. QED
  BY ReviewInvariant, <1>1, PTL

(* A payload that was served is settled.                                   *)
LEMMA ServedIsSettled ==
  ASSUME ReviewInv, served # NoPayload
  PROVE  served \in Documents /\ Settled(served)
BY TypeFacts DEF ReviewInv, PayloadsFollow

(* No client is told that a document was accepted when it is a severe      *)
(* scan, of an unsupported type, has a row that is not compliant or not    *)
(* verified, or carries a hard reason anywhere.                            *)
THEOREM AcceptanceIsSafe == Spec => []AcceptedIsSafe
<1>1. ReviewInv => AcceptedIsSafe
  <2>1. SUFFICES ASSUME ReviewInv, served # NoPayload, Accepts(served)
                 PROVE  /\ odd \cap {"severe", "unsupported"} = {}
                        /\ AllCompliant(served) /\ RowsVerified(served)
                        /\ CarriedReasons(served) \cap Hard = {}
    BY DEF AcceptedIsSafe
  <2>2. Settled(served)
    BY <2>1, ServedIsSettled
  <2>3. Clear(served)
    BY <2>1, <2>2 DEF Settled, Lowered, Accepts
  <2>4. RowsVerified(served)
    BY <2>2, <2>3 DEF Settled, Clear, AllCompliant, Downgrades, RowsVerified
  <2>5. CarriedReasons(served) \cap Hard = {}
    BY <2>2, <2>3 DEF Settled, Clear, CarriedReasons, PolicyBlocking
  <2>6. QED
    BY <2>3, <2>4, <2>5 DEF Clear
<1>2. QED
  BY ReviewInvariant, <1>1, PTL

(* What the policy found blocking is never called off later.               *)
THEOREM BlockedStaysReviewed == Spec => []BlockedIsReviewed
<1>1. ReviewInv => BlockedIsReviewed
  <2>1. SUFFICES ASSUME ReviewInv, served # NoPayload,
                        served.policy.reasons \cap PolicyBlocking # {}
                 PROVE  served.needs /\ served.status # "AUTO_ACCEPT"
    BY DEF BlockedIsReviewed
  <2>2. served \in Documents /\ Settled(served)
    BY <2>1, ServedIsSettled
  <2>3. ~Clear(served)
    BY <2>1, <2>2 DEF Settled, Clear
  <2>4. QED
    BY <2>2, <2>3 DEF Settled, Lowered
<1>2. QED
  BY ReviewInvariant, <1>1, PTL

(* A settled document whose status does not ask for a review is clear.     *)
LEMMA UnlistedIsClear ==
  ASSUME NEW d \in Documents, Settled(d), d.status # "NEEDS_REVIEW"
  PROVE  /\ odd \cap {"severe", "unsupported"} = {}
         /\ AllCompliant(d) /\ RowsVerified(d)
         /\ CarriedReasons(d) \cap PolicyBlocking = {}
<1>1. Clear(d)
  BY DEF Settled, Lowered
<1>2. RowsVerified(d)
  BY <1>1 DEF Clear, Settled, Downgrades, AllCompliant, RowsVerified
<1>3. CarriedReasons(d) \cap PolicyBlocking = {}
  <2>1. /\ d.reasons \cap PolicyBlocking = {}
        /\ d.policy.reasons \cap PolicyBlocking = {}
    BY <1>1 DEF Clear, Settled
  <2>2. QED
    BY <2>1 DEF CarriedReasons
<1>4. QED
  BY <1>1, <1>2, <1>3 DEF Clear

(* The row's status and the payload's come from one settled document, and  *)
(* the boundary may raise the payload's status but never lowers it.        *)
LEMMA UpdateRunIsNoBolder ==
  ASSUME NEW d \in Documents, Settled(d), UpdateRun(d),
         run' # "NEEDS_REVIEW"
  PROVE  /\ stored'.status # "NEEDS_REVIEW"
         /\ odd \cap {"severe", "unsupported"} = {}
         /\ AllCompliant(stored') /\ RowsVerified(stored')
         /\ CarriedReasons(stored') \cap PolicyBlocking = {}
<1> DEFINE s == Sanitized(d)
           r == Boundary(Sanitized(d))
<1>1. s \in Documents
  BY SanitizedEffect
<1>2. run' = s.status /\ stored' = r
  BY DEF UpdateRun
<1>3. r \in Documents /\ Settled(r)
  BY UpdateRunEffect
<1>4. r.status # "NEEDS_REVIEW"
  <2> HIDE DEF s
  <2>1. Boundary(s).status \in {Sanitized(s).status, "AUTO_ACCEPT"}
    BY <1>1, BoundaryEffect
  <2>2. Sanitized(s).status = s.status
    <3>1. s.status = IF "unnumbered" \in odd THEN "NEEDS_REVIEW" ELSE d.status
      BY SanitizedEffect DEF s
    <3>2. QED
      BY <1>1, <3>1, SanitizedEffect
  <2>3. s.status # "NEEDS_REVIEW"
    BY <1>2
  <2>4. Boundary(s) = r
    BY DEF s
  <2>5. QED
    BY <2>1, <2>2, <2>3, <2>4
<1> HIDE DEF r
<1>5. QED
  BY <1>2, <1>3, <1>4, UnlistedIsClear

(* A run not listed as NEEDS_REVIEW hides no payload that has a reason     *)
(* blocking acceptance, or a row not compliant or not verified.            *)
THEOREM RunsAreNoBolder == Spec => []RunIsNoBolder
<1>1. Init => RunIsNoBolder
  BY DEF Init, RunIsNoBolder
<1>2. ASSUME ReviewInv, RunIsNoBolder, Next PROVE RunIsNoBolder'
  <2>1. CASE \/ ValidateTraceability \/ VerifyIdentifiers \/ NoteReadability
             \/ NormalizeConfidence \/ ApplyReviewPolicy \/ FinalizeDecision
             \/ FinalizeAgain \/ AggregateOutcome \/ SanitizeAndRenormalize
             \/ Explain \/ ApplyReviewInvariants \/ ProcessPdfBytes
    BY <2>1 DEF RunIsNoBolder, Step, ValidateTraceability, VerifyIdentifiers,
       NoteReadability, NormalizeConfidence, ApplyReviewPolicy,
       FinalizeDecision, FinalizeAgain, AggregateOutcome,
       SanitizeAndRenormalize, Explain, ApplyReviewInvariants, ProcessPdfBytes
  <2>2. CASE PersistJobAnalysis
    <3>1. stage = "processed" /\ UpdateRun(served) /\ odd' = odd
      BY <2>2 DEF PersistJobAnalysis
    <3>2. served \in Documents /\ Settled(served)
      BY <1>2, <3>1, TypeFacts DEF ReviewInv, PayloadsFollow
    <3>3. QED
      BY <3>1, <3>2, UpdateRunIsNoBolder
         DEF RunIsNoBolder, AllCompliant, RowsVerified, CarriedReasons
  <2>3. CASE PersistSyncAnalysis
    <3>1. stage = "extracted" /\ UpdateRun(Sanitized(doc)) /\ odd' = odd
      BY <2>3 DEF PersistSyncAnalysis
    <3>2. doc \in Documents /\ Settled(doc)
      BY <1>2, <3>1, SettledDocument DEF Unjudged, Unassessed
    <3>3. Sanitized(doc) \in Documents /\ Settled(Sanitized(doc))
      BY <3>2, SanitizedEffect, SanitizedSettles
    <3>4. QED
      BY <3>1, <3>3, UpdateRunIsNoBolder
         DEF RunIsNoBolder, AllCompliant, RowsVerified, CarriedReasons
  <2>4. CASE AnswerSync \/ ReadAnalysis
    BY <1>2, <2>4 DEF AnswerSync, ReadAnalysis, RunIsNoBolder, AllCompliant,
       RowsVerified, CarriedReasons
  <2>5. QED
    BY <1>2, <2>1, <2>2, <2>3, <2>4 DEF Next
<1>3. RunIsNoBolder /\ UNCHANGED vars => RunIsNoBolder'
  BY DEF vars, RunIsNoBolder, AllCompliant, RowsVerified, CarriedReasons
<1>4. QED
  BY ReviewInvariant, <1>1, <1>2, <1>3, PTL DEF Spec

(* A hard reason, once given, stays with the document to the end.          *)
THEOREM HardReasonsAreKept == Spec => HardReasonsStay
<1>1. ReviewInv /\ [Next]_vars
        => [doc.reasons \cap Hard \subseteq doc'.reasons]_vars
  BY NextReview DEF HardStay
<1>2. QED
  BY ReviewInvariant, <1>1, PTL DEF Spec, HardReasonsStay

----------------------------------------------------------------------------
(* Why all clients see the same analysis: putting a payload through the    *)
(* boundary once more changes nothing.                                     *)

(* The boundary after its sanitizer.                                       *)
Finished(d) == WithEvidence(Reconciled(Calibrated(d)))

Accepting(policy) == IF policy.explained THEN AutoAccepting(policy) ELSE policy

(* What the three services of the finalizer together make of d.            *)
FinishedFrom(d, p) ==
  /\ p.rows = d.rows /\ p.conf = d.conf
  /\ p.reasons = IF Eligible(d) \/ Blocked(d)
                 THEN d.reasons \ ConfidenceOnly ELSE d.reasons
  /\ p.needs = (~Eligible(d) /\ d.needs)
  /\ p.status = IF Eligible(d) THEN "AUTO_ACCEPT" ELSE d.status
  /\ p.outcome = IF Eligible(d) THEN "COMPLIANT" ELSE d.outcome
  /\ p.policy = IF ~Blocked(d) /\ (Eligible(d) \/ ~d.needs)
                THEN Accepting(d.policy) ELSE d.policy
  /\ p.evidence = (d.evidence \/ (p.status = "AUTO_ACCEPT" /\ EvidenceHolds(d)))

(* Documents with the same fields are the same.                            *)
LEMMA SameDocument ==
  ASSUME NEW d \in Documents, NEW e \in Documents, SameBut({}, d, e)
  PROVE  d = e
BY DEF Documents, SameBut, Fields

(* Overwriting the policy and attaching evidence, a field at a time.       *)
LEMMA EnsureFields ==
  ASSUME NEW d \in Documents
  PROVE  LET e == EnsurePolicyMatches(d) IN
         /\ e \in Documents
         /\ SameBut({"policy"}, d, e)
         /\ e.policy = IF Blocked(d) \/ d.needs THEN d.policy
                                                ELSE Accepting(d.policy)
<1> DEFINE e == EnsurePolicyMatches(d)
<1>1. e \in Documents /\ SameBut({"policy"}, d, e)
  BY EnsurePolicyMatchesEffect
<1>2. e.policy = IF Blocked(d) \/ d.needs THEN d.policy
                                          ELSE Accepting(d.policy)
  BY DEF EnsurePolicyMatches, Accepting, Documents
<1>3. QED
  BY <1>1, <1>2

LEMMA EvidenceFields ==
  ASSUME NEW d \in Documents
  PROVE  LET e == WithEvidence(d) IN
         /\ e \in Documents
         /\ SameBut({"evidence"}, d, e)
         /\ e.evidence =
              (d.evidence \/ (d.status = "AUTO_ACCEPT" /\ EvidenceHolds(d)))
<1> DEFINE e == WithEvidence(d)
<1>1. e \in Documents /\ SameBut({"evidence"}, d, e)
  BY WithEvidenceEffect
<1>2. d.evidence \in BOOLEAN /\ EvidenceHolds(d) \in BOOLEAN
  BY DEF Documents, EvidenceHolds
<1>3. e.evidence =
        (d.evidence \/ (d.status = "AUTO_ACCEPT" /\ EvidenceHolds(d)))
  <2>1. CASE d.status = "AUTO_ACCEPT"
    <3> DEFINE b == d.evidence \/ EvidenceHolds(d)
    <3>1. WithEvidence(d) = [d EXCEPT !.evidence = b] /\ b \in BOOLEAN
      BY <2>1 DEF WithEvidence
    <3> HIDE DEF b
    <3>2. WithEvidence(d).evidence = b
      BY <3>1, SetEvidence
    <3>3. QED
      BY <2>1, <3>2 DEF b
  <2>2. CASE d.status # "AUTO_ACCEPT"
    BY <1>2, <2>2 DEF WithEvidence
  <2>3. QED
    BY <2>1, <2>2
<1>4. QED
  BY <1>1, <1>3

(* Evidence, material and blockers depend on a few fields only.            *)
LEMMA EvidenceOf ==
  ASSUME NEW d, NEW e, e.rows = d.rows
  PROVE  EvidenceHolds(e) <=> EvidenceHolds(d)
BY DEF EvidenceHolds, Somewhere, DocumentVerified, RowsVerified, AllCompliant

LEMMA MaterialOf ==
  ASSUME NEW d, NEW e, e.rows = d.rows,
         e.outcome = d.outcome \/ e.outcome = "COMPLIANT"
  PROVE  /\ Material(d) => Material(e)
         /\ e.outcome = d.outcome => (Material(e) <=> Material(d))
BY DEF Material, RowsVerified, AllCompliant, FlaggedRows

LEMMA BlockedOf ==
  ASSUME NEW d, NEW e,
         e.policy.explained = d.policy.explained,
         e.reasons \cup ConfidenceOnly = d.reasons \cup ConfidenceOnly,
         e.policy.reasons \cup ConfidenceOnly
           = d.policy.reasons \cup ConfidenceOnly
  PROVE  Blocked(e) <=> Blocked(d)
<1>1. \A r \in Hard : /\ r \in e.reasons <=> r \in d.reasons
                      /\ r \in e.policy.reasons <=> r \in d.policy.reasons
  BY DEF Hard, ConfidenceOnly
<1>2. QED
  BY <1>1 DEF Blocked, CarriedReasons

LEMMA AcceptingPolicy ==
  ASSUME NEW p \in Policies
  PROVE  /\ Accepting(p) \in Policies
         /\ Accepting(p).explained = p.explained
         /\ Accepting(p).reasons \cup ConfidenceOnly
              = p.reasons \cup ConfidenceOnly
         /\ Accepting(Accepting(p)) = Accepting(p)
<1> DEFINE a == AutoAccepting(p)
<1>1. /\ a \in Policies /\ a.explained = p.explained
      /\ a.reasons = p.reasons \ ConfidenceOnly
      /\ a.decision = "auto_accept" /\ a.required = FALSE
      /\ a.evidence = p.evidence
  BY DEF AutoAccepting, Policies
<1>2. AutoAccepting(a) = a
  <2> HIDE DEF a
  <2>1. a.reasons \ ConfidenceOnly = a.reasons
    BY <1>1
  <2>2. QED
    BY <1>1, <2>1 DEF AutoAccepting, Policies
<1> HIDE DEF a
<1>3. Accepting(p) = IF p.explained THEN a ELSE p
  BY DEF Accepting, a
<1>4. QED
  BY <1>1, <1>2, <1>3 DEF Accepting

(* Finishing, case by case: accepted, blocked, or neither.                 *)
LEMMA FinishedFields ==
  ASSUME NEW d \in Documents
  PROVE  Finished(d) \in Documents /\ FinishedFrom(d, Finished(d))
<1> DEFINE Goal == Finished(d) \in Documents /\ FinishedFrom(d, Finished(d))
<1>1. CASE Eligible(d)
  <2> DEFINE a == AcceptedState(d)
             b == Accepted(d)
             c == EnsurePolicyMatches(b)
             f == WithEvidence(c)
  <2>1. /\ a \in Documents
        /\ SameBut({"reasons", "needs", "status", "outcome"}, d, a)
        /\ a.reasons = d.reasons \ ConfidenceOnly /\ a.needs = FALSE
        /\ a.status = "AUTO_ACCEPT" /\ a.outcome = "COMPLIANT"
    BY AcceptedStateEffect DEF AcceptedState, Documents
  <2>2. Calibrated(d) = b /\ b = WithEvidence(EnsurePolicyMatches(a))
    BY <1>1 DEF Calibrated, Accepted, AcceptedState
  <2> HIDE DEF a
  <2>3. ~Blocked(d) /\ d.reasons \subseteq ConfidenceOnly
    BY <1>1 DEF Eligible
  <2>4. ~Blocked(a)
    BY <2>1, <2>3, BlockedOf DEF SameBut, Fields
  <2> DEFINE m == EnsurePolicyMatches(a)
  <2>5. /\ m \in Documents /\ SameBut({"policy"}, a, m)
        /\ m.policy = Accepting(d.policy)
    BY <2>1, <2>4, EnsureFields DEF SameBut, Fields
  <2> HIDE DEF m, b
  <2>6. EvidenceHolds(m) <=> EvidenceHolds(d)
    BY <2>1, <2>5, EvidenceOf DEF SameBut, Fields
  <2>7. /\ b \in Documents /\ SameBut({"evidence"}, m, b)
        /\ b.evidence = (d.evidence \/ EvidenceHolds(d))
    BY <2>1, <2>2, <2>5, <2>6, EvidenceFields DEF SameBut, Fields, m
  <2>8. /\ b.rows = d.rows /\ b.conf = d.conf
        /\ b.reasons = d.reasons \ ConfidenceOnly /\ b.needs = FALSE
        /\ b.status = "AUTO_ACCEPT" /\ b.outcome = "COMPLIANT"
        /\ b.policy = Accepting(d.policy)
    BY <2>1, <2>5, <2>7 DEF SameBut, Fields
  <2>9. ~Eligible(b)
    BY <2>3, <2>8 DEF Eligible
  <2>10. ~Blocked(b) /\ d.policy \in Policies
    BY <2>3, <2>8, BlockedOf, AcceptingPolicy DEF Documents
  <2>11. c \in Documents /\ SameBut({"policy"}, b, c) /\ c.policy = b.policy
    BY <2>7, <2>8, <2>10, EnsureFields, AcceptingPolicy
  <2>12. Reconciled(b) = c
    BY <2>9 DEF Reconciled
  <2> HIDE DEF c
  <2>13. EvidenceHolds(c) <=> EvidenceHolds(d)
    BY <2>8, <2>11, EvidenceOf DEF SameBut, Fields
  <2>14. /\ f \in Documents /\ SameBut({"evidence"}, c, f)
         /\ f.evidence = (d.evidence \/ EvidenceHolds(d))
    BY <2>7, <2>8, <2>11, <2>13, EvidenceFields DEF SameBut, Fields
  <2>15. Finished(d) = f
    BY <2>2, <2>12 DEF Finished
  <2> HIDE DEF f
  <2>16. QED
    BY <1>1, <2>3, <2>8, <2>11, <2>14, <2>15
       DEF FinishedFrom, SameBut, Fields
<1>2. CASE ~Eligible(d) /\ Blocked(d)
  <2> DEFINE b == [d EXCEPT !.reasons = d.reasons \ ConfidenceOnly]
             f == WithEvidence(b)
  <2>1. Calibrated(d) = b
    BY <1>2 DEF Calibrated
  <2>2. /\ b \in Documents /\ SameBut({"reasons"}, d, b)
        /\ b.reasons = d.reasons \ ConfidenceOnly
    <3>1. d.reasons \ ConfidenceOnly \in SUBSET Reasons
      BY DEF Documents
    <3>2. QED
      BY <3>1, SetReasons
  <2> HIDE DEF b
  <2>3. Blocked(b)
    BY <1>2, <2>2, BlockedOf DEF SameBut, Fields
  <2>4. Reconciled(b) = b
    BY <2>3 DEF Reconciled, Eligible, EnsurePolicyMatches
  <2>5. EvidenceHolds(b) <=> EvidenceHolds(d)
    BY <2>2, EvidenceOf DEF SameBut, Fields
  <2>6. /\ f \in Documents /\ SameBut({"evidence"}, b, f)
        /\ f.evidence =
             (d.evidence \/ (d.status = "AUTO_ACCEPT" /\ EvidenceHolds(d)))
    BY <2>2, <2>5, EvidenceFields DEF SameBut, Fields
  <2>7. Finished(d) = f
    BY <2>1, <2>4 DEF Finished
  <2> HIDE DEF f
  <2>8. d.needs \in BOOLEAN
    BY DEF Documents
  <2>9. QED
    BY <1>2, <2>2, <2>6, <2>7, <2>8 DEF FinishedFrom, SameBut, Fields
<1>3. CASE ~Eligible(d) /\ ~Blocked(d)
  <2> DEFINE c == EnsurePolicyMatches(d)
             f == WithEvidence(c)
  <2>1. Finished(d) = f
    BY <1>3 DEF Finished, Calibrated, Reconciled
  <2>2. /\ c \in Documents /\ SameBut({"policy"}, d, c)
        /\ c.policy = IF d.needs THEN d.policy ELSE Accepting(d.policy)
    BY <1>3, EnsureFields
  <2> HIDE DEF c
  <2>3. EvidenceHolds(c) <=> EvidenceHolds(d)
    BY <2>2, EvidenceOf DEF SameBut, Fields
  <2>4. /\ f \in Documents /\ SameBut({"evidence"}, c, f)
        /\ f.evidence =
             (d.evidence \/ (d.status = "AUTO_ACCEPT" /\ EvidenceHolds(d)))
    BY <2>2, <2>3, EvidenceFields DEF SameBut, Fields
  <2> HIDE DEF f
  <2>5. d.needs \in BOOLEAN
    BY DEF Documents
  <2>6. QED
    BY <1>3, <2>1, <2>2, <2>4, <2>5 DEF FinishedFrom, SameBut, Fields
<1>4. QED
  BY <1>1, <1>2, <1>3

(* Once flagged, the same rows are not flagged again.                      *)
LEMMA SanitizedFields ==
  ASSUME NEW d \in Documents
  PROVE  LET e == Sanitized(d) IN
         /\ e \in Documents
         /\ SameBut({"rows", "needs", "status"}, d, e)
         /\ e.needs = (d.needs \/ "unnumbered" \in odd)
         /\ e.status = IF "unnumbered" \in odd THEN "NEEDS_REVIEW" ELSE d.status
         /\ e.rows = [i \in DOMAIN d.rows |->
                        Flag(d.rows[i], Suppressed(d, i))]
<1> DEFINE S == {i \in DOMAIN d.rows : Suppressed(d, i)}
           e == Flagging(d, S)
           needs == e.needs \/ "unnumbered" \in odd
           status == IF "unnumbered" \in odd THEN "NEEDS_REVIEW" ELSE e.status
           f == [e EXCEPT !.needs = needs]
<1>1. e \in Documents /\ SameBut({"rows"}, d, e)
  BY FlaggingEffect
<1>2. e.rows = [i \in DOMAIN d.rows |-> Flag(d.rows[i], Suppressed(d, i))]
  <2>1. e.rows = [i \in DOMAIN d.rows |-> Flag(d.rows[i], i \in S)]
    BY DEF Flagging, Documents
  <2>2. ASSUME NEW i \in DOMAIN d.rows
        PROVE  Flag(d.rows[i], i \in S) = Flag(d.rows[i], Suppressed(d, i))
    <3>1. i \in S <=> Suppressed(d, i)
      OBVIOUS
    <3> HIDE DEF S
    <3>2. QED
      BY <3>1 DEF Flag
  <2> HIDE DEF S
  <2>3. QED
    BY <2>1, <2>2
<1>3. Sanitized(d) = [f EXCEPT !.status = status]
  BY DEF Sanitized
<1> HIDE DEF e
<1>4. f \in Documents /\ f.needs = needs /\ SameBut({"needs"}, e, f)
  BY <1>1, SetNeeds
<1>5. status \in Statuses
  BY <1>1 DEF Documents, Statuses
<1> HIDE DEF f
<1>6. /\ Sanitized(d) \in Documents
      /\ Sanitized(d).status = status
      /\ SameBut({"status"}, f, Sanitized(d))
  <2> HIDE DEF status
  <2> QED BY <1>3, <1>4, <1>5, SetStatus
<1>7. QED
  BY <1>1, <1>2, <1>4, <1>6 DEF SameBut, Fields

LEMMA FlagTwice ==
  ASSUME NEW r \in Rows, NEW b \in BOOLEAN, NEW c \in BOOLEAN, c => b
  PROVE  Flag(Flag(r, b), c) = Flag(r, b)
BY DEF Flag, Rows

LEMMA FlaggedAlready ==
  ASSUME NEW d \in Documents, NEW p \in Documents,
         p.rows = Sanitized(d).rows, p.reasons \subseteq d.reasons
  PROVE  Sanitized(p).rows = p.rows
<1>1. p.rows = [i \in DOMAIN d.rows |-> Flag(d.rows[i], Suppressed(d, i))]
  BY SanitizedFields
<1>2. Sanitized(p).rows
        = [i \in DOMAIN p.rows |-> Flag(p.rows[i], Suppressed(p, i))]
  BY SanitizedFields
<1>3. ASSUME NEW i \in DOMAIN d.rows
      PROVE  Flag(p.rows[i], Suppressed(p, i)) = p.rows[i]
  <2>1. d.rows[i] \in Rows
    BY RowAt
  <2>2. Suppressed(p, i) \in BOOLEAN /\ Suppressed(d, i) \in BOOLEAN
    BY DEF Suppressed
  <2>3. p.rows[i] = Flag(d.rows[i], Suppressed(d, i))
    BY <1>1
  <2>4. p.rows[i].id = d.rows[i].id
    BY <2>1, <2>2, <2>3, FlagType
  <2>5. Suppressed(p, i) => Suppressed(d, i)
    BY <2>4 DEF Suppressed
  <2>6. QED
    BY <2>1, <2>2, <2>3, <2>5, FlagTwice
<1>4. DOMAIN p.rows = DOMAIN d.rows
  BY <1>1
<1>5. Sanitized(p).rows = [i \in DOMAIN d.rows |-> p.rows[i]]
  BY <1>2, <1>3, <1>4
<1>6. p.rows = [i \in DOMAIN d.rows |-> p.rows[i]]
  BY <1>1
<1>7. QED
  BY <1>5, <1>6

LEMMA SanitizedAgain ==
  ASSUME NEW d \in Documents, NEW p \in Documents,
         p.rows = Sanitized(d).rows, p.reasons \subseteq d.reasons,
         "unnumbered" \in odd => p.needs /\ p.status = "NEEDS_REVIEW"
  PROVE  Sanitized(p) = p
<1>1. Sanitized(p).rows = p.rows
  BY FlaggedAlready
<1>2. SameBut({}, p, Sanitized(p)) /\ Sanitized(p) \in Documents
  <2> DEFINE e == Sanitized(p)
  <2>1. p.needs \in BOOLEAN
    BY DEF Documents
  <2>2. /\ e \in Documents
        /\ SameBut({"rows", "needs", "status"}, p, e)
        /\ e.needs = (p.needs \/ "unnumbered" \in odd)
        /\ e.status = IF "unnumbered" \in odd THEN "NEEDS_REVIEW" ELSE p.status
    BY SanitizedFields
  <2>3. e.rows = p.rows
    BY <1>1
  <2> HIDE DEF e
  <2>4. e.needs = p.needs /\ e.status = p.status
    BY <2>1, <2>2
  <2>5. SameBut({}, p, e)
    BY <2>2, <2>3, <2>4 DEF SameBut, Fields
  <2>6. QED
    BY <2>2, <2>5 DEF e
<1>3. QED
  BY <1>2, SameDocument

(* So sanitizing twice is sanitizing once.                                 *)
LEMMA SanitizedTwice ==
  ASSUME NEW d \in Documents
  PROVE  Sanitized(Sanitized(d)) = Sanitized(d)
<1> DEFINE p == Sanitized(d)
<1>1. /\ p \in Documents /\ SameBut({"rows", "needs", "status"}, d, p)
      /\ p.needs = (d.needs \/ "unnumbered" \in odd)
      /\ "unnumbered" \in odd => p.status = "NEEDS_REVIEW"
  BY SanitizedFields
<1>2. p.rows = Sanitized(d).rows
  OBVIOUS
<1> HIDE DEF p
<1>3. p.reasons = d.reasons
  BY <1>1 DEF SameBut, Fields
<1>4. Sanitized(p) = p
  BY <1>1, <1>2, <1>3, SanitizedAgain
<1>5. QED
  BY <1>4 DEF p

LEMMA BoundaryIs ==
  ASSUME NEW d \in Documents
  PROVE  /\ Boundary(d) = Finished(Sanitized(d))
         /\ Boundary(Sanitized(d)) = Boundary(d)
BY SanitizedTwice DEF Boundary, Finished

(* The boundary changes nothing in what it has let through.                *)
LEMMA BoundaryTwice ==
  ASSUME NEW d \in Documents
  PROVE  Boundary(Boundary(d)) = Boundary(d)
<1> DEFINE s == Sanitized(d)
           p == Boundary(d)
           t == Sanitized(p)
           q == Boundary(p)
<1>1. /\ s \in Documents /\ s.reasons = d.reasons
      /\ "unnumbered" \in odd => s.needs /\ s.status = "NEEDS_REVIEW"
      /\ s.policy \in Policies
  BY SanitizedFields DEF SameBut, Fields, Documents
<1>2. p \in Documents /\ FinishedFrom(s, p) /\ s.rows = Sanitized(d).rows
  BY <1>1, BoundaryIs, FinishedFields
<1>3. p.rows = Sanitized(d).rows /\ p.reasons \subseteq d.reasons
  BY <1>1, <1>2 DEF FinishedFrom
<1>4. t.rows = p.rows
  BY <1>2, <1>3, FlaggedAlready
<1>5. /\ t \in Documents
      /\ SameBut({"needs", "status"}, p, t)
      /\ t.needs = (p.needs \/ "unnumbered" \in odd)
      /\ t.status = IF "unnumbered" \in odd THEN "NEEDS_REVIEW" ELSE p.status
  BY <1>2, <1>4, SanitizedFields DEF SameBut, Fields
<1>6. q \in Documents /\ FinishedFrom(t, q)
  BY <1>2, <1>5, BoundaryIs, FinishedFields
<1> HIDE DEF s, p, t, q
<1>7. /\ Blocked(p) <=> Blocked(s)
      /\ Blocked(t) <=> Blocked(s)
  <2>1. /\ p.policy.explained = s.policy.explained
        /\ p.policy.reasons \cup ConfidenceOnly
             = s.policy.reasons \cup ConfidenceOnly
        /\ p.reasons \cup ConfidenceOnly = s.reasons \cup ConfidenceOnly
    BY <1>1, <1>2, AcceptingPolicy DEF FinishedFrom
  <2>2. t.policy = p.policy /\ t.reasons = p.reasons
    BY <1>5 DEF SameBut, Fields
  <2>3. QED
    BY <2>1, <2>2, BlockedOf
<1>8. /\ Material(s) => Material(t)
      /\ t.outcome = s.outcome => (Material(t) <=> Material(s))
  <2>1. /\ t.rows = s.rows /\ t.outcome = p.outcome
        /\ p.outcome = s.outcome \/ p.outcome = "COMPLIANT"
    BY <1>2, <1>5 DEF FinishedFrom, SameBut, Fields
  <2>2. QED
    BY <2>1, MaterialOf
<1>9. EvidenceHolds(t) <=> EvidenceHolds(s)
  <2>1. t.rows = s.rows
    BY <1>2, <1>5 DEF FinishedFrom, SameBut, Fields
  <2>2. QED
    BY <2>1, EvidenceOf
<1>10. /\ s.needs \in BOOLEAN /\ p.needs \in BOOLEAN
       /\ s.evidence \in BOOLEAN /\ p.evidence \in BOOLEAN
       /\ q.evidence \in BOOLEAN /\ q.needs \in BOOLEAN
  BY <1>1, <1>2, <1>6 DEF Documents
<1>11. /\ t.rows = p.rows /\ t.conf = p.conf /\ t.reasons = p.reasons
       /\ t.outcome = p.outcome /\ t.policy = p.policy
       /\ t.evidence = p.evidence
  BY <1>5 DEF SameBut, Fields
<1>12. CASE Eligible(s)
  <2>1. /\ ~Blocked(s) /\ Material(s) /\ s.reasons \subseteq ConfidenceOnly
    BY <1>12 DEF Eligible
  <2>2. /\ p.reasons = {} /\ p.needs = FALSE /\ p.status = "AUTO_ACCEPT"
        /\ p.outcome = "COMPLIANT" /\ p.policy = Accepting(s.policy)
        /\ p.evidence = (s.evidence \/ EvidenceHolds(s))
    BY <1>2, <1>12, <2>1 DEF FinishedFrom
  <2>3. Eligible(t) <=> "unnumbered" \in odd
    BY <1>5, <1>7, <1>8, <1>11, <2>1, <2>2 DEF Eligible
  <2>4. /\ q.rows = p.rows /\ q.conf = p.conf /\ q.reasons = p.reasons
        /\ q.outcome = p.outcome
    BY <1>6, <1>11, <2>2, <2>3 DEF FinishedFrom
  <2>5. q.needs = p.needs /\ q.status = p.status
    BY <1>5, <1>6, <1>10, <2>2, <2>3 DEF FinishedFrom
  <2>6. q.policy = p.policy
    <3>1. q.policy = Accepting(p.policy)
      BY <1>5, <1>6, <1>7, <1>11, <2>1, <2>2, <2>3 DEF FinishedFrom
    <3>2. QED
      BY <1>1, <2>2, <3>1, AcceptingPolicy
  <2>7. q.evidence = p.evidence
    BY <1>6, <1>9, <1>10, <1>11, <2>2, <2>5 DEF FinishedFrom
  <2>8. SameBut({}, p, q)
    BY <2>4, <2>5, <2>6, <2>7 DEF SameBut, Fields
  <2>9. QED
    BY <1>2, <1>6, <2>8, SameDocument DEF p, q
<1>13. CASE ~Eligible(s)
  <2>1. /\ p.needs = s.needs /\ p.status = s.status /\ p.outcome = s.outcome
    BY <1>2, <1>10, <1>13 DEF FinishedFrom
  <2>2. t.needs = p.needs /\ t.status = p.status
    BY <1>1, <1>5, <1>10, <2>1
  <2>3. ~Eligible(t)
    <3>1. CASE Blocked(s)
      BY <1>7, <3>1 DEF Eligible
    <3>2. CASE ~Blocked(s)
      <4>1. t.reasons = s.reasons
        BY <1>2, <1>11, <1>13, <3>2 DEF FinishedFrom
      <4>2. Material(t) <=> Material(s)
        BY <1>8, <1>11, <2>1
      <4>3. QED
        BY <1>7, <1>13, <2>1, <2>2, <4>1, <4>2 DEF Eligible
    <3>3. QED
      BY <3>1, <3>2
  <2>4. q.rows = p.rows /\ q.conf = p.conf /\ q.outcome = p.outcome
    BY <1>6, <1>11, <2>3 DEF FinishedFrom
  <2>5. q.reasons = p.reasons
    BY <1>2, <1>6, <1>7, <1>11, <1>13, <2>3 DEF FinishedFrom
  <2>6. q.needs = p.needs /\ q.status = p.status
    BY <1>6, <1>10, <2>2, <2>3 DEF FinishedFrom
  <2>7. q.policy = p.policy
    <3>1. p.policy = IF ~Blocked(s) /\ ~s.needs THEN Accepting(s.policy)
                                                ELSE s.policy
      BY <1>2, <1>13 DEF FinishedFrom
    <3>2. q.policy = IF ~Blocked(s) /\ ~s.needs THEN Accepting(p.policy)
                                                ELSE p.policy
      BY <1>6, <1>7, <1>11, <2>1, <2>2, <2>3 DEF FinishedFrom
    <3>3. QED
      BY <1>1, <3>1, <3>2, AcceptingPolicy
  <2>8. q.evidence = p.evidence
    BY <1>2, <1>6, <1>9, <1>10, <1>11, <2>6 DEF FinishedFrom
  <2>9. SameBut({}, p, q)
    BY <2>4, <2>5, <2>6, <2>7, <2>8 DEF SameBut, Fields
  <2>10. QED
    BY <1>2, <1>6, <2>9, SameDocument DEF p, q
<1>14. QED
  BY <1>12, <1>13

(* Nor does it matter that the extraction the synchronous route answers    *)
(* from already has the policy of the payload it has stored.               *)
LEMMA BoundaryShared ==
  ASSUME NEW d \in Documents
  PROVE  LET x == [Sanitized(d) EXCEPT !.policy = Boundary(d).policy] IN
         x \in Documents /\ Boundary(x) = Boundary(d)
<1> DEFINE s == Sanitized(d)
           p == Boundary(d)
           x == [s EXCEPT !.policy = p.policy]
           q == Boundary(x)
<1>1. /\ s \in Documents /\ s.reasons = d.reasons
      /\ "unnumbered" \in odd => s.needs /\ s.status = "NEEDS_REVIEW"
      /\ s.policy \in Policies
  BY SanitizedFields DEF SameBut, Fields, Documents
<1>2. p \in Documents /\ FinishedFrom(s, p) /\ p.policy \in Policies
  BY <1>1, BoundaryIs, FinishedFields DEF Documents
<1>3. x \in Documents /\ x.policy = p.policy /\ SameBut({"policy"}, s, x)
  <2> HIDE DEF s, p
  <2> QED BY <1>1, <1>2, SetPolicy
<1>4. /\ x.rows = s.rows /\ x.conf = s.conf /\ x.reasons = s.reasons
      /\ x.needs = s.needs /\ x.status = s.status
      /\ x.outcome = s.outcome /\ x.evidence = s.evidence
  BY <1>3 DEF SameBut, Fields
<1> HIDE DEF x
<1>5. Sanitized(x) = x
  BY <1>1, <1>3, <1>4, SanitizedAgain
<1>6. q \in Documents /\ FinishedFrom(x, q)
  BY <1>3, <1>5, BoundaryIs, FinishedFields
<1> HIDE DEF s, p, q
<1>7. Blocked(x) <=> Blocked(s)
  <2>1. /\ p.policy.explained = s.policy.explained
        /\ p.policy.reasons \cup ConfidenceOnly
             = s.policy.reasons \cup ConfidenceOnly
    BY <1>1, <1>2, AcceptingPolicy DEF FinishedFrom
  <2>2. QED
    BY <1>3, <1>4, <2>1, BlockedOf
<1>8. Material(x) <=> Material(s)
  BY <1>4, MaterialOf
<1>9. Eligible(x) <=> Eligible(s)
  BY <1>4, <1>7, <1>8 DEF Eligible
<1>10. EvidenceHolds(x) <=> EvidenceHolds(s)
  BY <1>4, EvidenceOf
<1>11. /\ q.rows = p.rows /\ q.conf = p.conf /\ q.reasons = p.reasons
       /\ q.needs = p.needs /\ q.status = p.status /\ q.outcome = p.outcome
  BY <1>2, <1>4, <1>6, <1>7, <1>9 DEF FinishedFrom
<1>12. q.policy = p.policy
  <2>1. p.policy = IF ~Blocked(s) /\ (Eligible(s) \/ ~s.needs)
                   THEN Accepting(s.policy) ELSE s.policy
    BY <1>2 DEF FinishedFrom
  <2>2. q.policy = IF ~Blocked(s) /\ (Eligible(s) \/ ~s.needs)
                   THEN Accepting(p.policy) ELSE p.policy
    BY <1>3, <1>4, <1>6, <1>7, <1>9 DEF FinishedFrom
  <2>3. QED
    BY <1>1, <2>1, <2>2, AcceptingPolicy
<1>13. q.evidence = p.evidence
  BY <1>2, <1>4, <1>6, <1>10, <1>11 DEF FinishedFrom
<1>14. SameBut({}, p, q)
  BY <1>11, <1>12, <1>13 DEF SameBut, Fields
<1>15. p = q
  BY <1>2, <1>6, <1>14, SameDocument
<1>16. QED
  BY <1>3, <1>15 DEF x, s, p, q

----------------------------------------------------------------------------
(* The payloads                                                            *)

(* The boundary makes p of d, said without naming its services.            *)
LetsThrough(d, p) ==
  /\ p \in Documents
  /\ \E s \in Documents : s = Sanitized(d) /\ FinishedFrom(s, p)

LEMMA LetsBoundary ==
  ASSUME NEW d \in Documents, NEW p
  PROVE  LetsThrough(d, p) <=> p = Boundary(d)
<1>1. Sanitized(d) \in Documents
  BY SanitizedFields
<1>2. /\ Boundary(d) \in Documents
      /\ FinishedFrom(Sanitized(d), Boundary(d))
  BY <1>1, BoundaryIs, FinishedFields
<1>3. ASSUME LetsThrough(d, p) PROVE p = Boundary(d)
  <2> DEFINE s == Sanitized(d)
             q == Boundary(d)
  <2>1. p \in Documents /\ FinishedFrom(s, p)
    BY <1>3 DEF LetsThrough
  <2>2. q \in Documents /\ FinishedFrom(s, q)
    BY <1>2
  <2> HIDE DEF s, q
  <2>3. SameBut({}, p, q)
    BY <2>1, <2>2 DEF FinishedFrom, SameBut, Fields
  <2>4. p = q
    BY <2>1, <2>2, <2>3, SameDocument
  <2>5. QED
    BY <2>4 DEF q
<1>4. QED
  BY <1>1, <1>2, <1>3 DEF LetsThrough

(* What a client has got, or the table holds, the boundary lets through as *)
(* it is, and what the synchronous route answers is what it has stored.    *)
Through ==
  /\ stage \in {"processed", "stored"} => LetsThrough(served, served)
  /\ stage \in {"committed", "stored"} => LetsThrough(stored, stored)
  /\ stage = "committed" => LetsThrough(doc, stored)
  /\ ClientsAgree

(* Overwriting a field with what it holds.                                 *)
LEMMA PolicyAsItWas ==
  ASSUME NEW d \in Documents
  PROVE  [d EXCEPT !.policy = d.policy] = d
BY DEF Documents

LEMMA ThroughInit == Init => Through
BY DEF Init, Through, ClientsAgree

(* The same relation of the next state's payloads, in this one's terms.    *)
LEMMA FinishedNext ==
  ASSUME NEW d, NEW p, odd' = odd
  PROVE  FinishedFrom(d, p)' <=> FinishedFrom(d, p)
<1>1. Blocked(d)' <=> Blocked(d)
  BY DEF Blocked, CarriedReasons
<1>2. Material(d)' <=> Material(d)
  BY DEF Material, AllCompliant, RowsVerified, FlaggedRows
<1>3. Eligible(d)' <=> Eligible(d)
  BY <1>1, <1>2 DEF Eligible
<1>4. EvidenceHolds(d)' <=> EvidenceHolds(d)
  BY DEF EvidenceHolds, Somewhere, DocumentVerified, RowsVerified,
         AllCompliant
<1>5. QED
  BY <1>1, <1>3, <1>4 DEF FinishedFrom, Accepting, AutoAccepting

LEMMA SanitizedNext ==
  ASSUME NEW d, odd' = odd
  PROVE  /\ doc' = d => Sanitized(doc)' = Sanitized(d)
         /\ served' = d => Sanitized(served)' = Sanitized(d)
         /\ stored' = d => Sanitized(stored)' = Sanitized(d)
<1>1. doc' = d => Sanitized(doc)' = Sanitized(d)
  BY DEF Sanitized, Flagging, Suppressed
<1>2. served' = d => Sanitized(served)' = Sanitized(d)
  BY DEF Sanitized, Flagging, Suppressed
<1>3. stored' = d => Sanitized(stored)' = Sanitized(d)
  BY DEF Sanitized, Flagging, Suppressed
<1>4. QED
  BY <1>1, <1>2, <1>3

LEMMA LetsNext ==
  ASSUME NEW d, NEW p, odd' = odd, LetsThrough(d, p)
  PROVE  /\ doc' = d /\ stored' = p => LetsThrough(doc, stored)'
         /\ served' = d /\ served' = p => LetsThrough(served, served)'
         /\ stored' = d /\ stored' = p => LetsThrough(stored, stored)'
<1>1. PICK s \in Documents : s = Sanitized(d) /\ FinishedFrom(s, p)
  BY DEF LetsThrough
<1>2. p \in Documents
  BY DEF LetsThrough
<1>3. QED
  BY <1>1, <1>2, FinishedNext, SanitizedNext DEF LetsThrough

LEMMA ThroughStep ==
  ASSUME ReviewInv, Through, [Next]_vars
  PROVE  Through'
<1>1. doc \in Documents /\ served \in Documents /\ stored \in Documents
  BY DEF ReviewInv, TypeOK
<1>2. ASSUME NEW d \in Documents
      PROVE  /\ Boundary(d) \in Documents
             /\ LetsThrough(d, Boundary(d))
             /\ LetsThrough(Boundary(d), Boundary(d))
             /\ Sanitized(d) \in Documents
             /\ Boundary(Sanitized(d)) = Boundary(d)
  <2>1. Boundary(d) \in Documents
    BY BoundaryEffect
  <2>2. QED
    BY <2>1, BoundaryTwice, LetsBoundary, BoundaryIs, SanitizedFields
<1>3. CASE ProcessPdfBytes
  <2>1. /\ stage' = "processed" /\ odd' = odd
        /\ served' = Boundary(Sanitized(doc))
    BY <1>3 DEF ProcessPdfBytes
  <2>2. LetsThrough(served, served)'
    BY <1>1, <1>2, <2>1, LetsNext
  <2>3. QED
    BY <2>1, <2>2 DEF Through, ClientsAgree
<1>4. CASE PersistJobAnalysis
  <2>1. /\ stage = "processed" /\ stage' = "stored" /\ odd' = odd
        /\ stored' = Boundary(Sanitized(served))
        /\ served' = [served EXCEPT !.policy = stored'.policy]
    BY <1>4 DEF PersistJobAnalysis, UpdateRun
  <2>2. LetsThrough(served, served) /\ Boundary(served) = served
    BY <1>1, <2>1, LetsBoundary DEF Through
  <2>3. stored' = served
    BY <1>1, <1>2, <2>1, <2>2
  <2>4. served' = served
    BY <1>1, <2>1, <2>3, PolicyAsItWas
  <2>5. LetsThrough(served, served)' /\ LetsThrough(stored, stored)'
    BY <2>1, <2>2, <2>3, <2>4, LetsNext
  <2>6. QED
    BY <2>1, <2>3, <2>4, <2>5 DEF Through, ClientsAgree
<1>5. CASE PersistSyncAnalysis
  <2> DEFINE p == Boundary(doc)
             x == [Sanitized(doc) EXCEPT !.policy = p.policy]
  <2>1. /\ stage' = "committed" /\ odd' = odd
        /\ stored' = Boundary(Sanitized(Sanitized(doc)))
        /\ doc' = [Sanitized(doc) EXCEPT !.policy = stored'.policy]
    BY <1>5 DEF PersistSyncAnalysis, UpdateRun
  <2>2. stored' = p
    BY <1>1, <1>2, <2>1
  <2>3. doc' = x
    BY <2>1, <2>2
  <2>4. x \in Documents /\ Boundary(x) = p
    BY <1>1, BoundaryShared
  <2>5. LetsThrough(p, p)
    BY <1>1, <1>2
  <2> HIDE DEF p, x
  <2>6. LetsThrough(x, p)
    BY <2>4, LetsBoundary
  <2>7. LetsThrough(stored, stored)' /\ LetsThrough(doc, stored)'
    BY <2>1, <2>2, <2>3, <2>5, <2>6, LetsNext
  <2>8. QED
    BY <2>1, <2>7 DEF Through, ClientsAgree
<1>6. CASE AnswerSync
  <2>1. /\ stage = "committed" /\ stage' = "stored" /\ odd' = odd
        /\ served' = Boundary(doc) /\ stored' = stored
    BY <1>6 DEF AnswerSync
  <2>2. LetsThrough(doc, stored) /\ LetsThrough(stored, stored)
    BY <2>1 DEF Through
  <2>3. served' = stored
    BY <1>1, <2>1, <2>2, LetsBoundary
  <2>4. LetsThrough(served, served)' /\ LetsThrough(stored, stored)'
    BY <2>1, <2>2, <2>3, LetsNext
  <2>5. QED
    BY <2>1, <2>3, <2>4 DEF Through, ClientsAgree
<1>7. CASE ReadAnalysis
  <2>1. /\ stage = "stored" /\ stage' = "stored" /\ odd' = odd
        /\ served' = Boundary(stored) /\ stored' = stored
    BY <1>7 DEF ReadAnalysis
  <2>2. LetsThrough(stored, stored)
    BY <2>1 DEF Through
  <2>3. served' = stored
    BY <1>1, <2>1, <2>2, LetsBoundary
  <2>4. LetsThrough(served, served)' /\ LetsThrough(stored, stored)'
    BY <2>1, <2>2, <2>3, LetsNext
  <2>5. QED
    BY <2>1, <2>3, <2>4 DEF Through, ClientsAgree
<1>8. CASE stage' \notin {"processed", "committed", "stored"}
  BY <1>8 DEF Through, ClientsAgree
<1>9. CASE UNCHANGED vars
  <2>1. /\ stage' = stage /\ odd' = odd /\ doc' = doc
        /\ stored' = stored /\ served' = served
    BY <1>9 DEF vars
  <2>2. QED
    BY <2>1, LetsNext DEF Through, ClientsAgree
<1>10. QED
  <2>1. CASE \/ ValidateTraceability \/ VerifyIdentifiers \/ NoteReadability
             \/ NormalizeConfidence \/ ApplyReviewPolicy \/ FinalizeDecision
             \/ AggregateOutcome \/ SanitizeAndRenormalize \/ FinalizeAgain
             \/ Explain \/ ApplyReviewInvariants
    <3>1. stage' \notin {"processed", "committed", "stored"}
      BY <2>1 DEF ValidateTraceability, VerifyIdentifiers, NoteReadability,
           NormalizeConfidence, ApplyReviewPolicy, FinalizeDecision,
           AggregateOutcome, SanitizeAndRenormalize, FinalizeAgain, Explain,
           ApplyReviewInvariants, Step
    <3>2. QED
      BY <1>8, <3>1
  <2>2. QED
    BY <1>3, <1>4, <1>5, <1>6, <1>7, <1>9, <2>1 DEF Next

(* Job result, synchronous answer and history show the same analysis, for  *)
(* documents of any length and any oddities: the boundary, however often   *)
(* it is applied, changes nothing in what it has once let through.         *)
THEOREM AllClientsAgree == Spec => []ClientsAgree
<1>1. ReviewInv /\ Through /\ [Next]_vars => Through'
  BY ThroughStep
<1>2. Through => ClientsAgree
  BY DEF Through
<1>3. QED
  BY ThroughInit, ReviewInvariant, <1>1, <1>2, PTL DEF Spec

=============================================================================
