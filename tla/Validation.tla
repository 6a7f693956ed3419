------------------------------ MODULE Validation ------------------------------
(***************************************************************************)
(* services/validator.py against domain/spec_registry.py, and              *)
(* validate_traceability of services/traceability.py: what is said of      *)
(* every row of the document and of the document as a whole.               *)
(*                                                                         *)
(* Structural steel has limits, the austenitic grades are known without    *)
(* any.  An identifier is a value of its own; the few of them that look    *)
(* alike or have an odd length are listed.                                 *)
(***************************************************************************)
EXTENDS Reconciliation

Outcomes ==
  {"COMPLIANT", "NON_COMPLIANT", "NEEDS_REVIEW", "NOT_VALIDATED",
   "UNSUPPORTED_SPEC_FAMILY", "EXPLICIT_UNMAPPED_GRADE",
   "MISSING_CRITICAL_FIELD_GRADE"}

(* _CARBON_SPECS *)
Spec355 == [yield |-> 355000, tensile |-> 470000, most |-> 630000,
            elongation |-> 22000]

(* resolve_spec *)
SpecStatus(grade) ==
  LET r == ResolveGrade(grade)
  IN IF grade = None THEN "empty"
     ELSE CASE r.status = "unknown"   -> "unknown_grade"
            [] r.status = "ambiguous" -> "ambiguous_grade"
            [] r.canonical = "s355jr" -> "resolved"
            [] OTHER                  -> "unsupported_spec_family"

(* Heats whose characters OCR confuses (_heat_numbers_confusably_similar). *)
LooksLike(a, b) == {a, b} = {"15006", "1500G"}

(* _canonical_heat_pattern: length and digits of an identifier.            *)
Pattern(v) ==
  CASE v \in {"heatConf", "lotConf"} -> <<4, 4>>
    [] v = "T9"                      -> <<2, 1>>
    [] v = "TBD"                     -> <<3, 0>>
    [] v = "15006"                   -> <<5, 5>>
    [] OTHER                         -> <<5, 4>>

Heats(rows) == {i \in DOMAIN rows : rows[i].heat # None}

(* The more frequent one, the smaller one of two that are as frequent.     *)
Dominant(rows, part) ==
  LET Seen(n) ==
        Cardinality({i \in Heats(rows) : Pattern(rows[i].heat)[part] = n})
      all == {Pattern(rows[i].heat)[part] : i \in Heats(rows)}
  IN Min({n \in all : \A o \in all : Seen(n) >= Seen(o)})

Distance(a, b) == IF a > b THEN a - b ELSE b - a

(* _infer_dominant_heat_pattern and its use.                               *)
OddHeat(rows, i) ==
  /\ Cardinality(Heats(rows)) >= 2 /\ i \in Heats(rows)
  /\ \E part \in 1..2 :
       Distance(Pattern(rows[i].heat)[part], Dominant(rows, part)) >= 3

(* _validate_against_spec: a breach of the limits, a value that is missing *)
(* and one that is suspicious.                                             *)
Breaches(mech) ==
  \/ \E k \in Kinds : mech[k] # Blank /\ mech[k] < Spec355[k]
  \/ mech.tensile # Blank /\ mech.tensile > Spec355.most

Suspicious(mech) == \E k \in Kinds : mech[k] # Blank /\ ~Plausible(mech[k], k)

Incomplete(mech) == \E k \in Kinds : mech[k] = Blank

(* _grade_spec_inconsistent: every grade that resolves to it names S355.   *)
Inconsistent(row) == row.mech.yield # Blank /\ row.mech.yield < 250000

Duplicated(row) == row.heat # None /\ row.heat = row.item

(* What is odd about a row of a resolved specification, by the reason that *)
(* is given for it.                                                        *)
Remarkable(rows, i) ==
  (IF OddHeat(rows, i)
   THEN {<<"heat number format inconsistency", None>>} ELSE {})
    \cup (IF Inconsistent(rows[i])
          THEN {<<"inconsistent grade/spec combinations", None>>} ELSE {})
    \cup (IF Duplicated(rows[i])
          THEN {<<"suspicious_duplication", "heat_and_item_id">>} ELSE {})

RowReasons(rows, i) ==
  LET row == rows[i]
      status == SpecStatus(row.grade)
      odd == Remarkable(rows, i)
  IN CASE status = "empty" -> {<<"missing_critical_field", "grade">>}
       [] status = "unknown_grade" -> {<<"explicit_unmapped_grade", None>>}
       [] status = "ambiguous_grade" -> {<<"ambiguous_grade", row.grade>>}
       [] status = "unsupported_spec_family" -> {<<status, None>>}
       [] OTHER -> odd \cup (IF odd # {} \/ Suspicious(row.mech)
                             THEN {<<"numeric fields are suspicious", None>>}
                             ELSE {})

RowOutcome(row) ==
  LET status == SpecStatus(row.grade)
  IN CASE status = "empty"           -> "MISSING_CRITICAL_FIELD_GRADE"
       [] status = "unknown_grade"   -> "EXPLICIT_UNMAPPED_GRADE"
       [] status = "ambiguous_grade" -> "NEEDS_REVIEW"
       [] status = "unsupported_spec_family" -> "UNSUPPORTED_SPEC_FAMILY"
       [] status = "resolved"        ->
            IF Breaches(row.mech) THEN "NON_COMPLIANT" ELSE "COMPLIANT"

(* A row of a wire rope is compliant whatever else it holds; only its      *)
(* tensile strength is looked at.                                          *)
RopeDoubt(row) ==
  row.mech.tensile # Blank
    /\ (row.mech.tensile < 1200000 \/ row.mech.tensile > 2500000)

RopeRow(row) ==
  [row EXCEPT !.outcome = "COMPLIANT",
              !.deviates = row.mech.tensile = Blank \/ RopeDoubt(row),
              !.review = @ \/ RopeDoubt(row)]

SteelRow(rows, i) ==
  [rows[i] EXCEPT
     !.outcome = RowOutcome(rows[i]),
     !.deviates = \/ RowOutcome(rows[i]) # "COMPLIANT"
                  \/ RowReasons(rows, i) # {}
                  \/ Incomplete(rows[i].mech),
     !.review = @ \/ RowReasons(rows, i) # {}]

(* aggregate_document_outcome *)
DocumentOutcome(rows) ==
  LET seen == {rows[i].outcome : i \in DOMAIN rows}
  IN CASE seen = {}                -> "NOT_VALIDATED"
       [] "NON_COMPLIANT" \in seen -> "NON_COMPLIANT"
       [] seen = {"COMPLIANT"}     -> "COMPLIANT"
       [] OTHER                    -> "NEEDS_REVIEW"

ConfusedHeats(rows) ==
  \E i, j \in Heats(rows) : LooksLike(rows[i].heat, rows[j].heat)

(* Reasons about all the rows: their number, heats that look alike, and a  *)
(* remark that the heat number is hard to read.                            *)
DocumentReasons(doc) ==
  (IF doc.reported # Len(doc.rows)
   THEN {<<"row_count_inconsistent", None>>} ELSE {})
    \cup (IF ConfusedHeats(doc.rows)
          THEN {<<"validation_conflict", "confusable_heat_numbers">>} ELSE {})
    \cup (IF doc.metadata.unclear /\ Heats(doc.rows) # {}
          THEN {<<"contradictory_audit", "heat_number_guessed">>} ELSE {})

(* validate_document; a heat that the remarks call unreadable is removed.  *)
Validated(doc) ==
  LET rope == doc.metadata.rope
      RopeReasons(row) ==
        IF RopeDoubt(row)
        THEN {<<"numeric fields are suspicious", None>>} ELSE {}
      rows == [i \in DOMAIN doc.rows |->
                 IF rope THEN RopeRow(doc.rows[i]) ELSE SteelRow(doc.rows, i)]
      found == DocumentReasons(doc)
      unsure == ConfusedHeats(rows) \/ doc.metadata.unclear
  IN [doc EXCEPT
        !.rows = [i \in DOMAIN rows |->
                    [rows[i] EXCEPT
                       !.heat = IF doc.metadata.unclear THEN None ELSE @,
                       !.review = @ \/ (unsure /\ i \in Heats(rows))]],
        !.outcome = DocumentOutcome(rows),
        !.reported = Len(rows),
        !.reasons = @ \cup found
          \cup UNION {IF rope THEN RopeReasons(rows[i]) ELSE RowReasons(doc.rows, i)
                        : i \in DOMAIN rows},
        !.review = @ \/ found # {}]

(* ---------------------------- traceability ------------------------------ *)

(* Identifiers by which material is traced (item and pipe ids count only   *)
(* under a label of their own).                                            *)
Group == {"heat", "lot"}

(* _decide_identifier: a value with a sure confidence under its name.      *)
OwnVerified(row) == {f \in RowIds : row[f] # None /\ Sure(row.known[f])}

(* _document_identifier_decision, of the fields a document has itself.     *)
HeaderVerified(md) ==
  {f \in {"lot", "cert"} : md[f] # None /\ Sure(md.confs[f])}

(* _combine_with_document_identifier *)
VerifiedIds(row, md) == OwnVerified(row) \cup HeaderVerified(md)

(* Mutant of TracedRow: the row fails without a word about it.             *)
TracedRowSilent(row, md) ==
  LET sure == VerifiedIds(row, md)
      fails == row.outcome = "COMPLIANT" /\ sure \cap Group = {}
  IN [row EXCEPT !.verified = sure,
                 !.outcome = IF fails THEN "NEEDS_REVIEW" ELSE @]

(* Mutant of TracedRow: any identifier will do, a certificate number too.  *)
TracedRowByAny(row, md) ==
  LET sure == VerifiedIds(row, md)
      traced == sure # {}
      Shown(f) == IF traced \/ f \in sure THEN row[f] ELSE None
      fails == row.outcome = "COMPLIANT" /\ ~traced
  IN [row EXCEPT
        !.verified = sure,
        !.heat = Shown("heat"), !.lot = Shown("lot"),
        !.item = Shown("item"), !.pipe = Shown("pipe"),
        !.outcome = IF fails THEN "NEEDS_REVIEW" ELSE @,
        !.deviates = @ \/ fails,
        !.review = @ \/ fails]

(* A row that nothing traces shows none of the identifiers of that group,  *)
(* and does not pass.                                                      *)
TracedRow(row, md) ==
  LET sure == VerifiedIds(row, md)
      traced == sure \cap Group # {}
      Shown(f) == IF traced \/ f \in sure THEN row[f] ELSE None
      fails == row.outcome = "COMPLIANT" /\ ~traced
  IN [row EXCEPT
        !.verified = sure,
        !.heat = Shown("heat"), !.lot = Shown("lot"),
        !.item = Shown("item"), !.pipe = Shown("pipe"),
        !.outcome = IF fails THEN "NEEDS_REVIEW" ELSE @,
        !.deviates = @ \/ fails,
        !.review = @ \/ fails]

(* _aggregate_document_row_identifier: verified in every row.              *)
DocumentTraced(rows) ==
  /\ rows # <<>>
  /\ \E f \in Group : \A i \in DOMAIN rows : f \in rows[i].verified

UntracedReasons ==
  {<<"traceability_unverified", None>>,
   <<"critical_identifier_unverified", None>>}

(* validate_traceability *)
Traced(doc) ==
  LET rows == [i \in DOMAIN doc.rows |-> TracedRow(doc.rows[i], doc.metadata)]
      traced == DocumentTraced(rows)
      fails == \/ \E i \in DOMAIN rows : rows[i].outcome # doc.rows[i].outcome
               \/ DocumentOutcome(rows) = "COMPLIANT" /\ ~traced
      gone == ~traced /\ ~ \A i \in DOMAIN rows : "lot" \in rows[i].verified
  IN [doc EXCEPT
        !.rows = rows,
        !.metadata.lot = IF gone \/ rows = <<>> THEN None ELSE @,
        !.outcome = IF DocumentOutcome(rows) = "COMPLIANT" /\ ~traced
                    THEN "NEEDS_REVIEW" ELSE DocumentOutcome(rows),
        !.reasons = IF fails THEN @ \cup UntracedReasons ELSE @,
        !.review = @ \/ fails]
===============================================================================
