-------------------------- MODULE DocumentInvariant --------------------------
(***************************************************************************)
(* Why the invariants of DocumentPipeline hold: an invariant that its      *)
(* steps preserve.  It follows what the model answered through the         *)
(* pipeline: where the identifiers, the texts and the values of the header *)
(* and of every row come from, what is kept of the rows' grades, and which *)
(* doubts have left a token.                                               *)
(***************************************************************************)
EXTENDS DocumentPipeline

(* ------------------------- where values come from ----------------------- *)

(* The values that an identifier may have, by its name.                    *)
Sources == [f \in Ids |-> Admitted(f) \cup BehindLabel(f) \cup {None}]

(* The values of a property before and after they are parsed as numbers.   *)
OwnValues(k) ==
  {said.row.mech[k] : said \in {r \in Range(answer.rows) : k \notin r.doubted}}

ReadValues(k) == {ParseText(n, k).value : n \in TableCells(k)}

Observed == [k \in Kinds |-> OwnValues(k) \cup ReadValues(k) \cup {Blank}]

ParsedObserved ==
  [k \in Kinds |->
     {Blank} \cup {ParseNumber(w, k).value : w \in Observed[k] \ {Blank}}]

(* Texts whose labels tell nothing that is not among the sources.          *)
Clean(sources) ==
  {t \in Texts \cup {None} :
     \A f \in Ids : LabelledValues(t, f) \subseteq sources[f]}

(* A row with its identifiers from these sources and values from those.    *)
RowFrom(r, sources, values) ==
  /\ IsRow(r)
  /\ \A f \in Ids : r[f] \in sources[f]
  /\ r.product \in Clean(sources) /\ r.grade \in Clean(sources)
  /\ \A k \in Kinds : r.mech[k] \in values[k]

RowsFrom(rs, sources, values) ==
  /\ rs \in Seq(Range(rs))
  /\ \A i \in DOMAIN rs : RowFrom(rs[i], sources, values)

(* Likewise for a header; its confidences are read as a text as well.      *)
HeaderFrom(md, sources) ==
  /\ DOMAIN md = DOMAIN BlankHeader
  /\ \A f \in Ids : md[f] \in sources[f]
  /\ \A f \in {"headerGrade", "description", "product", "grade"} :
       md[f] \in Clean(sources)
  /\ md.dims \in Texts \cup {None}
  /\ md.norms \subseteq Texts
  /\ md.remark \in Grades \cup {None}
  /\ DOMAIN md.confs = IdOrDate

ConfidencesRead(md, sources) ==
  \A f \in Ids : md.confs[f] \in {"low3", "sure3"} => ConfidenceText(f) \in sources[f]

(* What finalization adds to a header stands behind a label of one of its  *)
(* texts, so that TakenLabels contradicts a label and not only itself.     *)
TakenFromTexts(md) ==
  LET texts == Labelled(md.headerGrade) \cup Labelled(md.description)
  IN /\ md.product # None => ValuesOf(texts, "product") # {}
     /\ md.grade # None =>
          ValuesOf(texts \cup RemarkLabels(md), "grade") # {}

(* ---------------------------- the invariant ----------------------------- *)

Asking ==
  {"profile", "pages", "encode", "stageA", "askRows", "stageB", "gate", "failed"}

Shaping == {"shape", "tables", "identity", "semantics"}

Completing == {"finalize", "reconcile", "assemble"}

ControlInv ==
  /\ pc \in Asking \cup Shaping \cup Completing \cup {"validate", "trace", "decide"}
  /\ gateRequired \in BOOLEAN
  /\ canvas.edge <= MaxEdge

(* Both stages answer what their schemas admit; until then there are no    *)
(* rows and no document, and if either does not there is no header.        *)
AnswerInv ==
  /\ IsHeader(header) /\ IsAnswer(answer)
  /\ pc \in Asking => /\ rows = <<>> /\ guarded = {}
                      /\ metadata \in {header, BlankHeader}
  /\ ~Assembled => document = NoDocument
  /\ pc \in {"profile", "pages", "encode", "stageA", "askRows", "stageB"} =>
       answer = Unasked
  /\ pc \in {"askRows", "stageB"} => metadata = header
  /\ pc = "gate" /\ answer # Unasked => metadata = header
  /\ guarded \subseteq (0..Len(answer.rows)) \X RowIds

(* The header on its way; validation is left the identifiers of it.        *)
HeaderInv ==
  /\ pc \in Shaping \cup Completing =>
       /\ HeaderFrom(metadata, Sources)
       /\ metadata.rope => header.rope
       /\ answer # Unasked => /\ metadata.headerGrade = header.headerGrade
                              /\ metadata.description = header.description
  /\ pc \in Shaping \cup {"finalize"} =>
       /\ ConfidencesRead(metadata, Sources)
       /\ metadata.product = None /\ metadata.grade = None
       /\ \A f \in Ids : metadata.confs[f] \in Confidences
  /\ pc = "reconcile" =>
       /\ ConfidencesRead(metadata, Sources)
       /\ TakenFromTexts(metadata)
  /\ Assembled =>
       /\ DOMAIN document = DOMAIN NoDocument
       /\ DOMAIN document.metadata = DOMAIN BlankHeader
       /\ document.metadata.rope => header.rope
       /\ \A f \in Ids : document.metadata[f] \in Sources[f]

RowsInv ==
  /\ pc \in Shaping => RowsFrom(rows, Sources, Observed)
  /\ pc \in Completing => RowsFrom(rows, Sources, ParsedObserved)
  /\ Assembled => /\ RowsFrom(rows, Sources, ParsedObserved)
                  /\ RowsFrom(document.rows, Sources, ParsedObserved)

(* Values that are not plausible are doubted once they are parsed.         *)
DoubtsReported(rs, found) ==
  \A i \in DOMAIN rs, k \in Kinds :
    rs[i].mech[k] # Blank /\ ~Plausible(rs[i].mech[k], k) =>
      <<"numeric_uncertain", k>> \in found

DoubtsInv ==
  /\ pc \in Completing => DoubtsReported(rows, tokens)
  /\ ImplausibleIsDoubted

(* Steps that keep the number of rows keep the grades they came with.      *)
GradesKept(rs) ==
  \A i \in DOMAIN answer.rows :
    answer.rows[i].row.grade \in Grades =>
      rs[i].grade = answer.rows[i].row.grade

GradesDiffer ==
  \E i \in DOMAIN answer.rows :
    LET own == answer.rows[i].row.grade
    IN own \in Grades /\ header.headerGrade \in Grades \ {own}

GradesInv ==
  /\ pc \in Shaping =>
       \/ Len(rows) = Len(answer.rows) /\ GradesKept(rows)
       \/ Len(answer.rows) = 0
       \/ Len(answer.rows) >= 2 /\ Len(rows) = 1
  /\ pc \in Completing /\ answer # Unasked /\ Len(rows) = Len(answer.rows) /\ GradesDiffer =>
       <<"header_row_conflict", "grade">> \in tokens
  /\ Assembled /\ answer # Unasked /\ Len(document.rows) = Len(answer.rows) /\ GradesDiffer =>
       <<"header_row_conflict", "grade">> \in document.reasons

(* Labels of the header that differ, from their reconciliation on.         *)
Contradicted(f) ==
  Cardinality(LabelledValues(header.headerGrade, f)
                \cup LabelledValues(header.description, f)) > 1

LeftEmpty(md, rs, f) ==
  md[f] = None /\ \A i \in DOMAIN rs : rs[i][f] = None

ConflictsInv ==
  \A f \in Ids :
    answer # Unasked /\ Contradicted(f) =>
      /\ pc = "assemble" =>
           LeftEmpty(metadata, rows, f)
             /\ <<"conflicting_labeled_candidates", f>> \in tokens
      /\ Assembled =>
           LeftEmpty(document.metadata, document.rows, f) /\ document.review

(* What the validator says, and what the traceability check makes of it.   *)
OutcomesInv ==
  /\ Assembled => document.outcome \in Outcomes
  /\ pc \in {"trace", "decide"} =>
       \A i \in DOMAIN document.rows :
         LET row == document.rows[i]
         IN /\ row.outcome \in Outcomes
            /\ row.outcome # "COMPLIANT" => row.deviates
            /\ row.outcome = "COMPLIANT" /\ ~document.metadata.rope =>
                 ~Breaches(row.mech)
  /\ CompliantIsEarned

DocumentInv ==
  /\ ControlInv /\ AnswerInv /\ HeaderInv /\ RowsInv /\ DoubtsInv
  /\ GradesInv /\ ConflictsInv /\ OutcomesInv
==============================================================================
