----------------------------- MODULE RowShaping ------------------------------
(***************************************************************************)
(* The rows of a certificate, from what the model answered to rows of      *)
(* material: the identifier gate of services/extraction_pipeline.py, then  *)
(* services/row_shape_normalizer.py and services/identity_field_mapper.py. *)
(*                                                                         *)
(* "lot" stands for batch, lot, colata, cast and charge number, "cert" for *)
(* certificate and order number, which the code treats alike.  Weights,    *)
(* chemistry, product details and item ids with a hyphen are left out;     *)
(* standards and classes are sets of texts, the mechanical properties are  *)
(* an object that may be empty, and a confidence is how sure it is and     *)
(* whether it reads as a date ("2", at most two decimals) or as a number   *)
(* ("3") in print.                                                         *)
(***************************************************************************)
EXTENDS CertificateText, MechanicalTable, SequencesExt

Ids == {"heat", "lot", "cert"}

NoMechanicals == [k \in Kinds |-> Blank]

Confidences == {None, "low2", "low3", "sure2", "sure3"}

Low(c) == c \in {"low2", "low3"}

Sure(c) == c \in {"sure2", "sure3"}

RowIds == Ids \cup {"item", "pipe"}

NoRowConfidence == [f \in RowIds |-> None]

(* known is the _identifier_confidence that a row keeps of what the model  *)
(* said of its own cells; outcome, deviates and verified are for the       *)
(* validator and the traceability check to say.                            *)
BlankRow ==
  [item |-> None, pipe |-> None, heat |-> None, lot |-> None, cert |-> None,
   product |-> None, grade |-> None, dims |-> None, norms |-> {},
   classes |-> {}, mech |-> NoMechanicals, review |-> FALSE,
   provenance |-> None, known |-> NoRowConfidence, outcome |-> None,
   deviates |-> FALSE, verified |-> {}]

(* ------------------------------ the gate ------------------------------- *)

(* A field with a confidence below the threshold is suppressed, and so is  *)
(* one without a confidence when the scan is poor.                         *)
IssueReason(conf, gateRequired) ==
  CASE Low(conf)                       -> "low_identifier_confidence"
    [] conf = None /\ gateRequired     -> "missing_identifier_confidence"
    [] OTHER                           -> None

SuppressedIds(printed, confs, gateRequired) ==
  {f \in Ids : /\ printed[f] # None
               /\ IssueReason(confs[f], gateRequired) # None}

Gated(printed, confs, gateRequired) ==
  LET out == SuppressedIds(printed, confs, gateRequired)
  IN [f \in DOMAIN printed |-> IF f \in out THEN None ELSE printed[f]]

(* Stage B has no pipe_id, so the gate reads the item id under that name   *)
(* too, without a confidence: on a clean scan it becomes the pipe id even  *)
(* if the item id is suppressed, on a poor scan both are suppressed.       *)
ItemReason(answer, gateRequired) ==
  IF answer.row.item = None THEN None
  ELSE IF gateRequired THEN "missing_identifier_confidence"
       ELSE IssueReason(answer.confs.item, gateRequired)

SuppressedInRow(answer, gateRequired) ==
  SuppressedIds(answer.row, answer.confs, gateRequired)
    \cup {f \in {"item"} : ItemReason(answer, gateRequired) # None}

(* A mechanical value that the model doubts is dropped; one that it says   *)
(* nothing of is kept.                                                     *)
KeptMechanicals(mech, doubted) ==
  [k \in Kinds |-> IF k \in doubted THEN Blank ELSE mech[k]]

(* Mutant of NormalizedRow: identifiers are taken past the gate.           *)
NormalizedRowUngated(answer, gateRequired) ==
  [answer.row EXCEPT
     !.mech = KeptMechanicals(@, answer.doubted),
     !.review = @ \/ SuppressedInRow(answer, gateRequired) # {}]

(* _normalize_row_dict *)
NormalizedRow(answer, gateRequired) ==
  LET row == Gated(answer.row, answer.confs, gateRequired)
  IN [row EXCEPT
        !.item = IF ItemReason(answer, gateRequired) = None THEN @ ELSE None,
        !.pipe = IF gateRequired THEN None ELSE answer.row.item,
        !.mech = KeptMechanicals(@, answer.doubted),
        !.known = [f \in RowIds |-> IF f = "pipe" THEN None ELSE answer.confs[f]],
        !.review = @ \/ SuppressedInRow(answer, gateRequired) # {}]

(* --------------------------- row shape ---------------------------------- *)

Or(a, b) == IF a # None THEN a ELSE b

Populated(row) == {k \in Kinds : row.mech[k] # Blank}

(* The properties that the item id or the grade of a row is the name of.   *)
NamedKinds(row) == {KindOf(l) : l \in {row.item, row.grade} \cap Labels}

(* _property_field: the one property of a row, by its value or its name.   *)
PropertyField(row) ==
  LET named == NamedKinds(row)
  IN CASE Cardinality(Populated(row)) = 1 -> CHOOSE k \in Populated(row) : TRUE
       [] named = {} /\ Cardinality(Populated(row)) # 1 -> None
       [] OTHER -> IF "yield" \in named THEN "yield"
                   ELSE IF "tensile" \in named THEN "tensile" ELSE "elongation"

PropertyRows(rows) == {i \in DOMAIN rows : PropertyField(rows[i]) # None}

GroupKey(row) == IF row.grade # None THEN row.grade ELSE "default"

FirstPresent(rows, f) ==
  LET some == {i \in DOMAIN rows : rows[i][f] # None}
  IN IF some = {} THEN None ELSE rows[Min(some)][f]

FirstNorms(rows) ==
  LET some == {i \in DOMAIN rows : rows[i].norms # {}}
  IN IF some = {} THEN {} ELSE rows[Min(some)].norms

(* _classification_label: of the item or else of the grade.                *)
ClassLabel(row) ==
  IF row.item \in Classes THEN row.item
  ELSE IF row.grade \in Classes THEN row.grade ELSE None

ClassLabels(rows) == {ClassLabel(rows[i]) : i \in DOMAIN rows} \ {None}

UsableGrade(g) == g # None /\ g \notin Classes /\ ~StandardsOnly(g)

(* The header's fields that Stage A fills come first or last: a labelled   *)
(* grade is looked at after header_grade, a labelled product before the    *)
(* description.                                                            *)
HeaderGrade(md) == Or(md.headerGrade, md.grade)

HeaderProduct(md) == Or(md.product, md.description)

(* _grade_hint: of the header, or resolved from its product description.   *)
GradeHint(md) ==
  IF UsableGrade(HeaderGrade(md)) THEN HeaderGrade(md)
  ELSE DomainGrade(HeaderProduct(md), TRUE)

(* Values of a property in the rows of a group, the first one first.       *)
GroupMechanicals(rows, key) ==
  [k \in Kinds |->
     LET some == {i \in PropertyRows(rows) :
                    /\ GroupKey(rows[i]) = key /\ PropertyField(rows[i]) = k
                    /\ rows[i].mech[k] # Blank}
     IN IF some = {} THEN Blank ELSE rows[Min(some)].mech[k]]

CompleteGroups(rows) ==
  {i \in PropertyRows(rows) :
     \A k \in Kinds : GroupMechanicals(rows, GroupKey(rows[i]))[k] # Blank}

VerticalTable(rows) ==
  /\ Cardinality(PropertyRows(rows)) >= 2
  /\ \A i \in PropertyRows(rows) : rows[i].heat = None
  /\ CompleteGroups(rows) # {}

(* collapse_vertical_mechanical_rows: one property per row becomes one     *)
(* row, the other rows disappear and needs_review is not carried over.     *)
Vertical(rows, md) ==
  LET group == GroupKey(rows[Min(CompleteGroups(rows))])
      found == Or(GradeHint(md), FirstPresent(rows, "grade"))
      grade == IF UsableGrade(found) THEN found ELSE GradeHint(md)
      spare == FirstPresent(rows, "grade")
  IN <<[BlankRow EXCEPT
          !.heat = Or(md.heat, FirstPresent(rows, "heat")),
          !.lot = FirstPresent(rows, "lot"),
          !.cert = FirstPresent(rows, "cert"),
          !.product = Or(HeaderProduct(md), FirstPresent(rows, "product")),
          !.grade = IF grade = None /\ UsableGrade(spare) THEN spare ELSE grade,
          !.dims = Or(md.dims, FirstPresent(rows, "dims")),
          !.norms = FirstNorms(rows) \cup md.norms \cup ClassLabels(rows),
          !.mech = GroupMechanicals(rows, group)]>>

AlternativeClasses(rows) ==
  /\ Len(rows) \in 2..4
  /\ Cardinality({rows[i].heat : i \in DOMAIN rows} \ {None}) <= 1
  /\ \A i \in DOMAIN rows : /\ Populated(rows[i]) = Kinds
                            /\ ClassLabel(rows[i]) # None

(* collapse_alternative_classification_rows: the first row stands for all. *)
Alternative(rows, md) ==
  LET hint == GradeHint(md)
      own == {rows[i].grade : i \in DOMAIN rows} \ (Classes \cup {None})
      heat == Or(md.heat, FirstPresent(rows, "heat"))
      first == rows[1]
  IN <<[first EXCEPT
          !.item = None,
          !.grade = Or(hint, IF Cardinality(own) = 1
                             THEN CHOOSE g \in own : TRUE ELSE None),
          !.product = Or(@, HeaderProduct(md)),
          !.dims = Or(@, md.dims),
          !.norms = @ \cup ClassLabels(rows) \cup md.norms,
          !.heat = Or(heat, @),
          !.lot = Or(@, md.lot),
          !.cert = Or(@, md.cert)]>>

(* _looks_like_heat_number: a digit and four characters.                   *)
HeatLike(v) == v \notin {None, "TBD", "T77"}

(* _copy_metadata_confidence *)
KnownFromHeader(row, md) ==
  [f \in RowIds |->
     IF f \in Ids /\ row[f] = None /\ row.known[f] = None
          /\ md[f] # None /\ (f = "cert" \/ HeatLike(md[f]))
     THEN md.confs[f] ELSE row.known[f]]

(* backfill_single_item_context: the header of a one-row document.         *)
Backfilled(rows, md) ==
  IF Len(rows) # 1 THEN rows
  ELSE LET row == rows[1]
       IN <<[row EXCEPT
               !.known = KnownFromHeader(row, md),
               !.heat = IF @ = None /\ HeatLike(md.heat) THEN md.heat ELSE @,
               !.lot = IF @ = None /\ HeatLike(md.lot) THEN md.lot ELSE @,
               !.cert = Or(@, md.cert),
               !.grade = IF @ = None /\ UsableGrade(HeaderGrade(md))
                         THEN HeaderGrade(md) ELSE @,
               !.product = IF StandardsOnly(HeaderProduct(md)) THEN @
                           ELSE Or(@, HeaderProduct(md)),
               !.dims = Or(@, md.dims),
               !.norms = IF @ = {} THEN md.norms ELSE @]>>

(* The row-shape steps of run_multi_stage_extraction, in its order.        *)
CollapsedTable(rows, md) ==
  IF VerticalTable(rows) THEN Vertical(rows, md) ELSE rows

OneRow(rows, md) ==
  IF AlternativeClasses(rows) THEN Alternative(rows, md) ELSE rows

Shaped(rows, md) == Backfilled(OneRow(CollapsedTable(rows, md), md), md)

Collapsed(rows, md) == Len(Shaped(rows, md)) < Len(rows)

(* ------------------- rows that are taken for a table -------------------- *)

(* The digits of a cell, all that parse_numeric keeps of it.  A standard's *)
(* number and year do not make one number, which is read as 0.             *)
Figures(t) ==
  CASE t \in {"L1000", "T1000", "heatLine"} -> Digits(1000)
    [] t \in {"L2000", "T2000", "heatLine2"} -> Digits(2000)
    [] t = "T3000" -> Digits(3000)
    [] t = "T77"   -> Digits(77)
    [] t = "T9"    -> Digits(9)
    [] t = "1500G" -> Digits(1500)
    [] t = "15006" -> Digits(15006)
    [] t = "size"  -> Digits(10)
    [] t = "class" -> Digits(21)
    [] t \in {"s355jr", "bare", "plateGrade"} -> Digits(355)
    [] t \in {"304", "304l", "gradeLine"} -> Digits(304)
    [] t \in SpecLines -> Digits(0)
    [] t = "headLine"   -> Digits(100077)
    [] t = "dual"       -> Slashed(304, 304304)
    [] t = "mixed"      -> Slashed(355, 355304)
    [] t = "gradeClass" -> Slashed(355, 35521)
    [] OTHER            -> Words

(* _property_label: the item id, or else the grade.                        *)
PropertyLabel(row) == Or(row.item, row.grade)

NamedRows(rows) == {i \in DOMAIN rows : PropertyLabel(rows[i]) \in Labels}

Cell(t) == IF t = None THEN <<>> ELSE <<Figures(t)>>

(* _extract_result_candidates of a row of the model: the row's own values, *)
(* its heat number, grade and size are known columns, all others are not.  *)
NamedLine(row) ==
  Line(PropertyLabel(row), <<>>, <<>>,
       Cell(row.lot) \o Cell(row.cert) \o Cell(row.product))

(* collect_mechanical_table_rows: without a table, two or more rows named  *)
(* after properties are taken for its lines.                               *)
DerivedTable(rows) ==
  IF Cardinality(NamedRows(rows)) >= 2
  THEN [i \in NamedRows(rows) |-> NamedLine(rows[i])] ELSE <<>>

Collected(table, rows) == IF table # <<>> THEN table ELSE DerivedTable(rows)

(* --------------------------- identity fields ---------------------------- *)

(* _assign_spec_tokens *)
WithSpecs(row, texts) ==
  LET all == row.norms \cup row.classes \cup texts
  IN [row EXCEPT !.norms = NormTokens(all), !.classes = ClassTokens(all)]

(* _reclassify_item_id *)
ItemSeparated(row) ==
  CASE row.item \in Classes -> [WithSpecs(row, {row.item}) EXCEPT !.item = None]
    [] row.item \in Sizes /\ row.dims = None ->
         [row EXCEPT !.dims = row.item, !.item = None]
    [] OTHER -> row

(* _reclassify_product_value *)
ProductSeparated(row) ==
  LET p == row.product
  IN CASE p = None -> row
       [] StandardsOnly(p) -> [WithSpecs(row, {p}) EXCEPT !.product = None]
       [] p \in Sizes -> [row EXCEPT !.dims = Or(@, p), !.product = None]
       [] OTHER -> [row EXCEPT !.grade = Or(@, DomainGrade(p, TRUE))]

(* _reclassify_grade_value *)
GradeSeparated(row) ==
  LET g == row.grade
      named == DomainGrade(g, TRUE)
  IN CASE g = None -> row
       [] StandardsOnly(g) -> [WithSpecs(row, {g}) EXCEPT !.grade = named]
       [] g \in Sizes -> [row EXCEPT !.dims = Or(@, g), !.grade = None]
       [] ProductIdentity(g) ->
            [row EXCEPT !.product = Or(@, g), !.grade = named]
       [] g = "gradeClass" -> [WithSpecs(row, {"class"}) EXCEPT !.grade = named]
       [] OTHER -> row

(* _usable_product_text and _usable_grade_text: a labelled value is taken  *)
(* out of its line; a line of other labelled fields is of no use.          *)
UsableProduct(t) ==
  IF LabelledValues(t, "product") # {} THEN "plate"
  ELSE IF Combined(t) \/ StandardsOnly(t) \/ t \in Sizes THEN None ELSE t

UsableGradeText(t) ==
  IF LabelledValues(t, "grade") # {} THEN "304l"
  ELSE IF Combined(t) THEN None ELSE t

(* _backfill_from_metadata: the header's identifiers go to every row, and  *)
(* its product, grade, size and standards where the row has none.          *)
WithIds(row, md) ==
  [row EXCEPT !.heat = Or(@, md.heat), !.lot = Or(@, md.lot), !.cert = Or(@, md.cert)]

WithProduct(row, product) ==
  IF product = None THEN row
  ELSE [row EXCEPT !.product = Or(@, product),
                   !.grade = Or(@, DomainGrade(product, TRUE))]

WithGrade(row, grade) ==
  CASE grade = None -> row
    [] StandardsOnly(grade) ->
         [WithSpecs(row, {grade}) EXCEPT !.grade = Or(@, DomainGrade(grade, FALSE))]
    [] ProductIdentity(grade) -> WithProduct(row, grade)
    [] OTHER -> [row EXCEPT !.grade = Or(@, grade)]

WithSize(row, dims) ==
  IF Combined(dims) THEN row ELSE [row EXCEPT !.dims = Or(@, dims)]

WithNorms(row, norms) == IF norms = {} THEN row ELSE WithSpecs(row, norms)

FromHeader(row, md) ==
  LET product == Or(UsableProduct(md.product), UsableProduct(md.description))
      grade == Or(UsableGradeText(md.headerGrade), UsableGradeText(md.grade))
  IN WithNorms(WithSize(WithGrade(WithProduct(WithIds(row, md), product), grade),
                        md.dims),
               md.norms)

WithoutLines(row) ==
  [row EXCEPT !.product = IF Combined(@) THEN None ELSE @,
              !.grade = IF Combined(@) THEN None ELSE @]

(* A product that only repeats the grade is dropped.                       *)
Echoes(p, grade) ==
  /\ p # None /\ grade # None
  /\ p = grade \/ (~ProductIdentity(p) /\ DomainGrade(p, FALSE) = grade)

WithoutEcho(row) ==
  [row EXCEPT !.product = IF Combined(@) \/ Echoes(@, row.grade) THEN None ELSE @]

(* _map_row: fields are separated before and after the header is used.     *)
MappedRow(row, md) ==
  LET split == GradeSeparated(ProductSeparated(ItemSeparated(WithoutLines(row))))
      joined == GradeSeparated(ProductSeparated(FromHeader(split, md)))
  IN WithoutEcho(WithSpecs(joined, {}))

(* The mapping leaves a trace when it gave a row something (its date as    *)
(* well), when the row had standards or when it refused one of its lines.  *)
Gained(row, new) ==
  \/ new.norms \cup new.classes # {}
  \/ \E f \in Ids \cup {"product", "grade", "dims"} :
        new[f] # None /\ new[f] # row[f]

Remapped(row, md) ==
  \/ md.date # None
  \/ row.norms \cup row.classes # {}
  \/ Combined(row.product) \/ Combined(row.grade)
  \/ Gained(row, MappedRow(row, md))

(* apply_identity_field_mapping *)
Mapped(rows, md) == [i \in DOMAIN rows |-> MappedRow(rows[i], md)]
==============================================================================
