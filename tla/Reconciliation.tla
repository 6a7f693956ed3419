--------------------------- MODULE Reconciliation ----------------------------
(***************************************************************************)
(* From shaped rows to the rows and the metadata that are validated:       *)
(* services/semantic_normalizer.py, domain/header_propagation.py,          *)
(* domain/document_context.py, finalize_extraction_fields of               *)
(* services/extraction_finalizer.py with                                   *)
(* domain/labeled_identifier_extractor.py, and                             *)
(* services/canonical_reconciler.py.                                       *)
(***************************************************************************)
EXTENDS RowShaping

(* Labels of the dates of a header that say it is the certificate's, best  *)
(* first, and one that says it is not.                                     *)
DateLabels == <<"Date", "Certificate date", "Test date">>

OtherDate == "Delivery date"

(* md is the metadata of a document: Stage A's answer, and the product and *)
(* the grade that a labelled text may add to it.  dates maps the labels of *)
(* labeled_dates to their dates.                                           *)
IdOrDate == Ids \cup {"date"}

(* A value that field f shows when its own confidence is read as text.     *)
ConfidenceText(f) == IF f = "heat" THEN "heatConf"
                     ELSE IF f = "lot" THEN "lotConf" ELSE "certConf"

(* ----------------------- semantics and propagation ---------------------- *)

(* normalize_rows_semantics: a row that has a grade by now has it from a   *)
(* column called grade.                                                    *)
Labelling(rows) ==
  [i \in DOMAIN rows |->
     IF rows[i].grade = None THEN rows[i]
     ELSE [rows[i] EXCEPT !.provenance = "labeled_field"]]

(* propagate_to_rows: a header grade that resolves fills the rows without  *)
(* a grade and is in conflict with a row that resolves to another.         *)
PropagatedGrade(md) == Or(HeaderGrade(md), md.remark)

Propagates(grade) == grade # None /\ Resolves(grade)

(* Mutant of GradeConflicts: grades of one family agree.                   *)
GradeConflictsOfFamilies(rows, grade) ==
  IF ~Propagates(grade) THEN {}
  ELSE {i \in DOMAIN rows :
          /\ rows[i].grade # None
          /\ Resolves(rows[i].grade)
          /\ Family(ResolveGrade(rows[i].grade).canonical)
               # Family(ResolveGrade(grade).canonical)}

GradeConflicts(rows, grade) ==
  IF ~Propagates(grade) THEN {}
  ELSE {i \in DOMAIN rows :
          /\ rows[i].grade # None
          /\ Resolves(rows[i].grade)
          /\ ResolveGrade(rows[i].grade).canonical # ResolveGrade(grade).canonical}

Propagated(rows, grade, provenance) ==
  IF ~Propagates(grade) THEN rows
  ELSE [i \in DOMAIN rows |->
          IF rows[i].grade # None THEN rows[i]
          ELSE [rows[i] EXCEPT
                  !.grade = ResolveGrade(grade).canonical,
                  !.provenance = Or(@, provenance)]]

(* -------------------------- labelled texts ------------------------------ *)

(* A labelled value read in a text of the header.  The confidences and the *)
(* labelled dates are read as text as well: "certificate_number': 0.9" is  *)
(* a certificate of the date 0.9, 'heat_number': 0.875 a heat called 0.875,*)
(* and the word Date in "Delivery date" a label of its own.                *)
ConfidenceLabels(confs) ==
  {<<f, ConfidenceText(f)>> : f \in {g \in Ids : confs[g] \in {"low3", "sure3"}}}
    \cup (IF confs.cert \in {"low2", "sure2", "set"}
          THEN {<<"date", "confidence">>} ELSE {})
    \cup (IF confs.date = "set" THEN {<<"date", "confidence">>} ELSE {})

DateTexts(md) == {<<"date", md.dates[l]>> : l \in DOMAIN md.dates}

(* The model's remarks name a grade after the word grade.                  *)
RemarkLabels(md) == {<<"grade", g>> : g \in {md.remark} \ {None}}

HeaderTexts(md) == {md.headerGrade, md.description, md.product, md.grade}

(* A product or a grade that a labelled text gave has a confidence as      *)
(* well, so that its own name in the text of the confidences contradicts   *)
(* it.                                                                     *)
TakenLabels(md) ==
  {<<f, "confidence">> : f \in {g \in {"product", "grade"} : md[g] # None}}

HeaderLabels(md) ==
  (UNION {Labelled(t) : t \in HeaderTexts(md)})
    \cup RemarkLabels(md) \cup DateTexts(md)
    \cup ConfidenceLabels(md.confs) \cup TakenLabels(md)

RowLabels(row) == Labelled(row.product) \cup Labelled(row.grade)

ValuesOf(labels, f) == {l[2] : l \in {k \in labels : k[1] = f}}

(* Fields whose labelled values differ.                                    *)
Conflicting(labels) ==
  {f \in {l[1] : l \in labels} : Cardinality(ValuesOf(labels, f)) > 1}

(* A labelled value is taken where the field is empty, or holds a line of  *)
(* several labelled fields; a lot is not taken beside another heat.        *)
Takes(payload, l) ==
  /\ \/ payload[l[1]] = None
     \/ l[1] \in {"product", "grade"} /\ Combined(payload[l[1]])
  /\ l[1] = "lot" => payload.heat \in {None, l[2]}

Taken(payload, labels) ==
  [f \in DOMAIN payload |->
     LET usable == {l \in labels : l[1] = f /\ Takes(payload, l)}
     IN IF usable = {} THEN payload[f] ELSE (CHOOSE l \in usable : TRUE)[2]]

(* apply_labeled_identifiers on one text: conflicting fields are cleared.  *)
ApplyText(payload, labels) ==
  LET bad == Conflicting(labels)
      cleared == [f \in DOMAIN payload |-> IF f \in bad THEN None ELSE payload[f]]
  IN Taken(cleared, {l \in labels : l[1] \notin bad})

(* A text of the header, and the confidence of what it clears or gives.    *)
ApplyHeaderText(md, labels) ==
  LET new == ApplyText(md, labels)
  IN [new EXCEPT
        !.confs = [f \in IdOrDate |->
                     IF f \in Conflicting(labels) THEN None
                     ELSE IF md[f] = None /\ new[f] # None THEN "set" ELSE @[f]]]

(* The texts are read before the first of them is applied, in the order of *)
(* Stage A's schema; a later one may fill what an earlier one cleared.     *)
AppliedToHeader(md) ==
  LET dated == ApplyHeaderText(md, DateTexts(md))
      graded == ApplyHeaderText(dated, Labelled(md.headerGrade))
      described == ApplyHeaderText(graded, Labelled(md.description))
      remarked == ApplyHeaderText(described, RemarkLabels(md))
  IN ApplyHeaderText(remarked, ConfidenceLabels(md.confs))

AppliedToRow(row) == ApplyText(row, RowLabels(row))

(* ------------------------- finalization --------------------------------- *)

(* _resolve_certificate_date: the best label decides, else Stage A's date. *)
CertificateDate(md) ==
  LET seen == {i \in DOMAIN DateLabels : DateLabels[i] \in DOMAIN md.dates}
  IN IF seen = {} THEN md.date ELSE md.dates[DateLabels[Min(seen)]]

(* promote_unique_header_fields: an identifier that all rows that have one *)
(* agree on becomes the document's, if that has none.                      *)
RowValues(rows, f) == {rows[i][f] : i \in DOMAIN rows} \ {None}

Promoted(md, rows) ==
  [f \in DOMAIN md |->
     IF f \in Ids /\ md[f] = None /\ Cardinality(RowValues(rows, f)) = 1
     THEN CHOOSE v \in RowValues(rows, f) : TRUE
     ELSE md[f]]

(* _assign_sequential_item_ids: the pipe id stands in for the item id.     *)
Numbered(rows) ==
  [i \in DOMAIN rows |->
     [rows[i] EXCEPT !.item = Or(@, Or(rows[i].pipe, "sequential"))]]

(* finalize_extraction_fields *)
FinalPair(head, mapped) ==
  [metadata |-> Promoted(head, mapped), rows |-> Numbered(mapped)]

FinalizedWith(head, rows) ==
  FinalPair(head, Mapped([i \in DOMAIN rows |-> AppliedToRow(rows[i])], head))

Finalized(md, rows) ==
  FinalizedWith(AppliedToHeader([md EXCEPT !.date = CertificateDate(md)]), rows)

(* ------------------------- reconciliation ------------------------------- *)

(* The dates among labeled_dates whose label resolves to certificate_date. *)
StructuredDates(md) ==
  {<<"date", md.dates[l]>> :
     l \in DOMAIN md.dates \cap {"Date", "Certificate date"}}

(* Mutant of Chosen: a conflict falls back to what Stage A or B said.      *)
ChosenAnyway(labels, bad, f, stageA, stageB, alias) ==
  IF f \notin bad /\ ValuesOf(labels, f) # {}
  THEN CHOOSE v \in ValuesOf(labels, f) : TRUE
  ELSE Or(stageA, Or(stageB, alias))

(* _choose: a labelled value before Stage A's, that before Stage B's, and  *)
(* none at all where labelled values conflict.                             *)
Chosen(labels, bad, f, stageA, stageB, alias) ==
  IF f \in bad THEN None
  ELSE IF ValuesOf(labels, f) # {} THEN CHOOSE v \in ValuesOf(labels, f) : TRUE
       ELSE Or(stageA, Or(stageB, alias))

ReconciledHeader(md) ==
  LET labels == HeaderLabels(md) \cup StructuredDates(md)
      bad == Conflicting(labels)
  IN [f \in DOMAIN md |->
        IF f \in IdOrDate \cup {"product"}
        THEN Chosen(labels, bad, f, md[f], None,
                    IF f = "product" THEN md.description ELSE None)
        ELSE md[f]]

(* _separate_product_and_details, _separate_grade_from_classification *)
Separated(row) ==
  LET p == row.product
      g == row.grade
      one == IF p \in SpecLines \cup Classes
             THEN [WithSpecs(row, {p}) EXCEPT !.product = None]
             ELSE row
  IN IF g \in Classes THEN [WithSpecs(one, {g}) EXCEPT !.grade = None]
     ELSE IF g \in SpecLines
          THEN [WithSpecs(one, {g}) EXCEPT !.grade = DomainGrade(g, TRUE)]
          ELSE one

ReconciledRow(row, md, head) ==
  LET labels == HeaderLabels(md) \cup RowLabels(row)
      bad == Conflicting(labels)
               \cup Conflicting(HeaderLabels(md) \cup StructuredDates(md))
      Pick(f, a) == Chosen(labels, bad, f, a, row[f],
                           IF f = "product" THEN md.description ELSE None)
      scalars == [f \in DOMAIN row |->
                    IF f \in Ids \cup {"product", "dims"} THEN Pick(f, head[f])
                    ELSE IF f = "grade" THEN Pick(f, head.grade)
                    ELSE row[f]]
      specs == WithSpecs([scalars EXCEPT
                            !.norms = IF head.norms # {} THEN head.norms ELSE @],
                         {})
  IN Separated(specs)

(* The fields that apply_canonical_reconciliation reports for review.      *)
ReviewFields(md, rows) ==
  Conflicting(HeaderLabels(md) \cup StructuredDates(md))
    \cup UNION {Conflicting(HeaderLabels(md) \cup RowLabels(rows[i]))
                  : i \in DOMAIN rows}

(* apply_canonical_reconciliation *)
Reconciled(md, rows) ==
  LET head == ReconciledHeader(md)
  IN [metadata |-> head,
      rows |-> [i \in DOMAIN rows |-> ReconciledRow(rows[i], md, head)],
      review |-> ReviewFields(md, rows)]
==============================================================================
