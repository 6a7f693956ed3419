-------------------------- MODULE MCReviewDecision --------------------------
(* ReviewDecision with a dozen of the rows a validator leaves.             *)
EXTENDS ReviewInvariant

Row(outcome, id, missing, deviates, flagged) ==
  [outcome |-> outcome, id |-> id, missing |-> missing,
   deviates |-> deviates, flagged |-> flagged]

MCRowKinds ==
  {Row("COMPLIANT", id, "nothing", FALSE, FALSE) :
     id \in {"heat", "other", "none"}}
  \cup {Row("COMPLIANT", id, "weight", FALSE, FALSE) : id \in {"heat", "other"}}
  \cup {Row("COMPLIANT", "heat", "mechanical", TRUE, FALSE),
        Row("COMPLIANT", "heat", "nothing", FALSE, TRUE),
        Row("COMPLIANT", "other", "nothing", TRUE, TRUE),
        Row("NON_COMPLIANT", "heat", "nothing", TRUE, FALSE),
        Row("NEEDS_REVIEW", "heat", "nothing", TRUE, FALSE),
        Row("NOT_VALIDATED", "heat", "mechanical", TRUE, FALSE)}
=============================================================================
