--------------------------- MODULE DocumentPipeline ---------------------------
(***************************************************************************)
(* run_multi_stage_extraction of services/extraction_pipeline.py, from the *)
(* first model call to the document that is validated: what the model      *)
(* answers in Stage A (the header) and Stage B (the rows), and what the    *)
(* pipeline makes of it, one action per step of the function.              *)
(*                                                                         *)
(* header and answer keep what the model said; every other variable is a   *)
(* local of the function or a key of preprocessing_meta.                   *)
(***************************************************************************)
EXTENDS Validation, Intake

CONSTANTS
  Files,        \* PDFs that may be uploaded
  Headers,      \* what Stage A may answer
  LineItems     \* what Stage B may answer: [rows, table, reported]

ASSUME FilesAssumption ==
  \A f \in Files :
    /\ DOMAIN f.pages = 1..Len(f.pages) /\ Len(f.pages) \in Nat
    /\ \A i \in DOMAIN f.pages :
         /\ f.pages[i].table \in BOOLEAN
         /\ f.pages[i].edge \in Nat /\ f.pages[i].smooth \in Nat \ {0}
         /\ f.pages[i].blur \in Nat /\ f.pages[i].noise \in Nat

ASSUME EncodingAssumption ==
  /\ MinEdge \in Nat \ {0} /\ MaxEdge \in Nat \ {0}
  /\ JpegQuality \in Nat /\ TargetBytes \in Nat

(* Settings with which an image below the smallest edge fits once its      *)
(* quality is low: at the default ones it has fewer pixels than the target *)
(* has bytes.  Nothing in the code asks this of the settings.              *)
SmallImagesFit ==
  \A f \in Files : \A i \in DOMAIN f.pages :
    \A e \in 0..(MinEdge - 1), q \in Qualities :
      q <= LowQuality => Bytes(f.pages[i].smooth, e, q) <= TargetBytes

ASSUME RequestAssumption == MaxPages \in Nat /\ MaxRequest \in Nat

VARIABLES
  pc,           \* the next step
  file,         \* the PDF
  class,        \* profile.quality_class
  canvas,       \* the image that _encode_variant_for_llm works on
  pages,        \* processed_pages
  request,      \* the images of the model call under way
  gateRequired, \* _profile_requires_identifier_gate
  header,       \* Stage A's answer
  answer,       \* Stage B's answer
  metadata, rows,
  guarded,      \* suppression_events: <<0 or the row, field>>
  reshaped,     \* row_shape_tokens is not empty
  tokens,       \* reasons gathered before validation
  document      \* the UniversalDocumentExtraction that is validated

intakeVars == <<file, class, canvas, pages, request, gateRequired>>

rowVars ==
  <<header, answer, metadata, rows, guarded, reshaped, tokens, document>>

pipeVars == <<pc, intakeVars, rowVars>>

Unasked == [rows |-> <<>>, table |-> <<>>, reported |-> 0]

NoConfidence == [f \in IdOrDate |-> None]

BlankHeader ==
  [heat |-> None, lot |-> None, cert |-> None, headerGrade |-> None,
   grade |-> None, description |-> None, product |-> None, dims |-> None,
   norms |-> {}, remark |-> None, confs |-> NoConfidence, date |-> None,
   dates |-> <<>>, rope |-> FALSE, unclear |-> FALSE]

(* What the schemas of the two stages admit.                               *)
IsRow(r) ==
  /\ DOMAIN r = DOMAIN BlankRow
  /\ \A f \in {"product", "grade", "dims"} : r[f] \in Texts \cup {None}
  /\ r.norms \cup r.classes \subseteq Texts
  /\ DOMAIN r.mech = Kinds
  /\ \A k \in Kinds : r.mech[k] \in Nat \cup {Blank}
  /\ r.known \in [RowIds -> Confidences]
  /\ r.verified \subseteq RowIds
  /\ r.outcome \in Outcomes \cup {None}

(* A numeral reads as whole thousandths, whichever way it is read.         *)
IsNumeral(n) ==
  n.whole \in Nat /\ \A i \in DOMAIN Candidates(n) : Candidates(n)[i] \in Nat

IsLine(line) ==
  /\ line.label \in Labels
  /\ \A cells \in {line.results, line.others} :
       /\ cells \in Seq(Range(cells))
       /\ \A n \in Range(cells) : IsNumeral(n)

(* StageBLineItems *)
IsAnswer(a) ==
  /\ a.rows \in Seq(Range(a.rows))
  /\ \A said \in Range(a.rows) :
       /\ IsRow(said.row)
       /\ said.confs \in [Ids \cup {"item"} -> Confidences]
  /\ a.table \in Seq(Range(a.table))
  /\ \A line \in Range(a.table) : IsLine(line)

(* StageAMetadata: the product and the grade of a header are not asked for.*)
IsHeader(h) ==
  /\ DOMAIN h = DOMAIN BlankHeader
  /\ \A f \in {"headerGrade", "description", "dims"} : h[f] \in Texts \cup {None}
  /\ h.product = None /\ h.grade = None
  /\ h.remark \in Grades \cup {None}
  /\ h.norms \subseteq Texts
  /\ DOMAIN h.confs = IdOrDate
  /\ \A f \in Ids : h.confs[f] \in Confidences

ASSUME AnswersAssumption ==
  /\ \A h \in Headers : IsHeader(h)
  /\ \A a \in LineItems : IsAnswer(a)

NoDocument ==
  [metadata |-> BlankHeader, rows |-> <<>>, reported |-> 0, reasons |-> {},
   review |-> FALSE, outcome |-> "NOT_VALIDATED"]

NoFile == [pages |-> <<>>, opens |-> FALSE, renders |-> FALSE]

NoCanvas == [edge |-> 0, quality |-> 0]

Init ==
  /\ pc = "profile"
  /\ file \in Files
  /\ class = None /\ canvas = NoCanvas /\ pages = <<>> /\ request = <<>>
  /\ gateRequired = FALSE
  /\ header = BlankHeader /\ answer = Unasked
  /\ metadata = BlankHeader /\ rows = <<>>
  /\ guarded = {} /\ reshaped = FALSE /\ tokens = {}
  /\ document = NoDocument

Goto(step) == pc' = step

Token(t) == <<t, None>>

SchemaFailureTokens == {"extraction_schema_invalid", "model_output_unusable"}

(* ------------------------------ the pages ------------------------------- *)

Stop(pcs) == pc \in pcs /\ Goto("failed") /\ UNCHANGED <<intakeVars, rowVars>>

(* profile_document and choose_route.                                      *)
Profile ==
  /\ pc = "profile"
  /\ class' = QualityClass(file)
  /\ gateRequired' = (class' \in PoorClasses)
  /\ Goto("pages")
  /\ UNCHANGED <<file, canvas, pages, request, rowVars>>

CurrentPage == file.pages[Len(pages) + 1]

(* preprocess_pdf takes the next page and begins to compress its images.   *)
OpenPage ==
  /\ pc = "pages" /\ Len(pages) < Len(file.pages)
  /\ \E e \in Downscaled(CurrentPage.edge, MaxEdge) :
       canvas' = [edge |-> e, quality |-> JpegQuality]
  /\ Goto("encode")
  /\ UNCHANGED <<file, class, pages, request, gateRequired, rowVars>>

CanvasBytes == Bytes(CurrentPage.smooth, canvas.edge, canvas.quality)

TooLarge == pc = "encode" /\ CanvasBytes > TargetBytes

LowersQuality == TooLarge /\ canvas.quality > LowQuality

LowerQuality ==
  /\ LowersQuality
  /\ canvas' = [canvas EXCEPT !.quality = @ - 8]
  /\ UNCHANGED <<pc, file, class, pages, request, gateRequired, rowVars>>

(* Mutant of Shrinks: the smallest edge is not taken for the end.          *)
ShrinksAlways == TooLarge /\ canvas.quality <= LowQuality

Shrinks ==
  /\ TooLarge /\ canvas.quality <= LowQuality
  /\ NextEdge(canvas.edge) >= MinEdge /\ NextEdge(canvas.edge) # canvas.edge

Shrink ==
  /\ Shrinks
  /\ \E e \in Downscaled(canvas.edge, NextEdge(canvas.edge)) :
       canvas' = [edge |-> e, quality |-> JpegQuality]
  /\ UNCHANGED <<pc, file, class, pages, request, gateRequired, rowVars>>

(* The image fits, or nothing more can be done about it.                   *)
Encoded ==
  /\ pc = "encode" /\ ~LowersQuality /\ ~Shrinks
  /\ pages' = Append(pages,
                 [table |-> CurrentPage.table,
                  views |-> Views(Route(class), CurrentPage.table),
                  main |-> MainView(Route(class)),
                  size |-> CanvasBytes])
  /\ canvas' = NoCanvas
  /\ Goto("pages")
  /\ UNCHANGED <<file, class, request, gateRequired, rowVars>>

(* A PDF that cannot be rendered is an error, and so is one that renders   *)
(* to no page.                                                             *)
RenderError == file.pages # <<>> /\ Stop({"pages", "encode"})

NoPages == file.pages = <<>> /\ Stop({"pages"})

(* ------------------------------ the stages ------------------------------ *)

(* extract_metadata sends the pages.                                       *)
AskMetadata ==
  /\ pc = "pages" /\ pages # <<>> /\ Len(pages) = Len(file.pages)
  /\ request' = Packed(MetadataEvidence(pages))
  /\ Goto("stageA")
  /\ UNCHANGED <<file, class, canvas, pages, gateRequired, rowVars>>

(* _run_metadata_extraction *)
StageA ==
  /\ pc = "stageA"
  /\ header' \in Headers
  /\ metadata' = header'
  /\ request' = <<>>
  /\ Goto("askRows")
  /\ UNCHANGED <<file, class, canvas, pages, gateRequired, answer, rows,
                 guarded, reshaped, tokens, document>>

(* extract_line_items sends them again, the tables first.                  *)
AskRows ==
  /\ pc = "askRows"
  /\ request' = Packed(RowEvidence(pages))
  /\ Goto("stageB")
  /\ UNCHANGED <<file, class, canvas, pages, gateRequired, rowVars>>

(* Nothing reads the file and its pages after the second answer.           *)
ForgetPages ==
  /\ file' = NoFile /\ class' = None /\ pages' = <<>> /\ request' = <<>>
  /\ UNCHANGED <<canvas, gateRequired>>

(* _run_row_extraction *)
StageB ==
  /\ pc = "stageB"
  /\ answer' \in LineItems
  /\ Goto("gate")
  /\ ForgetPages
  /\ UNCHANGED <<header, metadata, rows, guarded, reshaped, tokens, document>>

(* ExtractionOutputError of either stage: an answer that is not what the   *)
(* schema says leaves a document without rows, and nothing of Stage A.     *)
OutputError ==
  /\ pc \in {"stageA", "stageB"}
  /\ metadata' = BlankHeader
  /\ answer' = Unasked
  /\ tokens' = {Token(t) : t \in SchemaFailureTokens}
  /\ Goto("gate")
  /\ ForgetPages
  /\ UNCHANGED <<header, rows, guarded, reshaped, document>>

(* Any other error of a stage ends the request with 502.                   *)
ProviderError == Stop({"stageA", "stageB"})

(* ------------------------- identifiers and rows -------------------------- *)

HeaderEvents ==
  {<<0, f>> : f \in SuppressedIds(metadata, metadata.confs, gateRequired)}

RowEvents ==
  UNION {{<<i, f>> : f \in SuppressedInRow(answer.rows[i], gateRequired)}
           : i \in DOMAIN answer.rows}

(* _apply_identifier_gate on the header, _normalize_row_dict on the rows.  *)
Gate ==
  /\ pc = "gate"
  /\ metadata' = Gated(metadata, metadata.confs, gateRequired)
  /\ rows' = [i \in DOMAIN answer.rows |->
                NormalizedRow(answer.rows[i], gateRequired)]
  /\ guarded' = HeaderEvents \cup RowEvents
  /\ Goto("shape")
  /\ UNCHANGED <<intakeVars, header, answer, reshaped, tokens, document>>

(* The three steps of row_shape_normalizer.                                *)
Shape ==
  /\ pc = "shape"
  /\ rows' = Shaped(rows, metadata)
  /\ reshaped' = (rows' # rows)
  /\ Goto("tables")
  /\ UNCHANGED <<intakeVars, header, answer, metadata, guarded, tokens,
                 document>>

(* The rows of Stage B, as the model gave them.                            *)
RawRows == [i \in DOMAIN answer.rows |-> answer.rows[i].row]

Table == Collected(answer.table, RawRows)

(* apply_mechanical_table_mapping; a row that only the table gave is given *)
(* the header's fields.                                                    *)
MapTables ==
  /\ pc = "tables"
  /\ LET read == WithTable(rows, Table, BlankRow)
         made == Len(rows) = 0 /\ Len(read) = 1
     IN /\ rows' = IF made THEN Backfilled(read, metadata) ELSE read
        /\ reshaped' = (reshaped \/ (made /\ rows' # read))
        /\ tokens' = tokens \cup
             (IF TableUncertain(Table)
              THEN {Token("mechanical_table_alignment_uncertain")} ELSE {})
  /\ Goto("identity")
  /\ UNCHANGED <<intakeVars, header, answer, metadata, guarded, document>>

(* apply_identity_field_mapping *)
MapIdentity ==
  /\ pc = "identity"
  /\ rows' = Mapped(rows, metadata)
  /\ reshaped' = 
       (reshaped \/ \E i \in DOMAIN rows : Remapped(rows[i], metadata))
  /\ Goto("semantics")
  /\ UNCHANGED <<intakeVars, header, answer, metadata, guarded, tokens,
                 document>>

(* normalize_rows_semantics, _apply_numeric_parser, propagate_to_rows, and *)
(* what the document's context then still adds to a grade.                 *)
Normalize ==
  /\ pc = "semantics"
  /\ LET read == Labelling(rows)
         grade == PropagatedGrade(metadata)
         parsed == [i \in DOMAIN read |->
                      [read[i] EXCEPT !.mech = ParsedMechanicals(@)]]
     IN /\ rows' = Propagated(parsed, grade, "header_propagated")
        /\ tokens' = tokens
             \cup (UNION {NumericTokens(rows[i].mech) : i \in DOMAIN rows})
             \cup {<<"header_row_conflict", "grade">> :
                      i \in GradeConflicts(read, grade)}
  /\ Goto("finalize")
  /\ UNCHANGED <<intakeVars, header, answer, metadata, guarded, reshaped,
                 document>>

(* finalize_extraction_fields *)
Finalize ==
  /\ pc = "finalize"
  /\ LET final == Finalized(metadata, rows)
     IN metadata' = final.metadata /\ rows' = final.rows
  /\ Goto("reconcile")
  /\ UNCHANGED <<intakeVars, header, answer, guarded, reshaped, tokens,
                 document>>

(* apply_canonical_reconciliation *)
Reconcile ==
  /\ pc = "reconcile"
  /\ LET final == Reconciled(metadata, rows)
     IN /\ metadata' = final.metadata
        /\ rows' = final.rows
        /\ tokens' = tokens \cup {<<"conflicting_labeled_candidates", f>> :
                                    f \in final.review}
  /\ Goto("assemble")
  /\ UNCHANGED <<intakeVars, header, answer, guarded, reshaped, document>>

(* The document, its count of rows (Stage B's, unless the rows were worked *)
(* on) and the reasons it takes to validation.                             *)
Assemble ==
  /\ pc = "assemble"
  /\ LET reasons ==
           tokens \cup (IF guarded = {} THEN {}
                        ELSE {Token("critical_identifier_unverified")})
         Sourced(row) == IF row.grade # None THEN Or(row.provenance, "row")
                         ELSE row.provenance
     IN document' = [metadata |-> metadata,
                     rows |->
                       [i \in DOMAIN rows |->
                          [rows[i] EXCEPT !.provenance = Sourced(rows[i])]],
                     reported |-> IF reshaped THEN Len(rows)
                                  ELSE answer.reported,
                     reasons |-> reasons,
                     review |-> reasons # {},
                     outcome |-> "NOT_VALIDATED"]
  /\ Goto("validate")
  /\ UNCHANGED <<intakeVars, header, answer, metadata, rows, guarded,
                 reshaped, tokens>>

(* validate_document *)
Validate ==
  /\ pc = "validate"
  /\ document' = Validated(document)
  /\ Goto("trace")
  /\ UNCHANGED <<intakeVars, header, answer, metadata, rows, guarded,
                 reshaped, tokens>>

(* validate_traceability; ReviewDecision has what follows.                 *)
Trace ==
  /\ pc = "trace"
  /\ document' = Traced(document)
  /\ Goto("decide")
  /\ UNCHANGED <<intakeVars, header, answer, metadata, rows, guarded,
                 reshaped, tokens>>

Pipeline ==
  \/ Profile \/ OpenPage \/ LowerQuality \/ Shrink \/ Encoded
  \/ RenderError \/ NoPages
  \/ AskMetadata \/ StageA \/ AskRows \/ StageB \/ OutputError \/ ProviderError
  \/ Gate \/ Shape \/ MapTables \/ MapIdentity \/ Normalize \/ Finalize
  \/ Reconcile \/ Assemble \/ Validate \/ Trace

Spec == Init /\ [][Pipeline]_pipeVars

(* ----------------------------- properties ------------------------------- *)

Steps ==
  {"profile", "pages", "encode", "stageA", "askRows", "stageB", "gate",
   "shape", "tables", "identity", "semantics", "finalize", "reconcile",
   "assemble", "validate", "trace", "decide", "failed"}

Assembled == pc \in {"validate", "trace", "decide"}

(* Every step leaves rows, tokens and document in their domains; a row of  *)
(* the document has an outcome once it is validated, and one that is not   *)
(* compliant has deviations, as ReviewDecision assumes of its rows.        *)
TypeOK ==
  /\ pc \in Steps /\ gateRequired \in BOOLEAN /\ canvas.edge \in 0..MaxEdge
  /\ \A i \in DOMAIN rows : IsRow(rows[i])
  /\ \A i \in DOMAIN document.rows : IsRow(document.rows[i])
  /\ guarded \subseteq (0..Len(answer.rows)) \X RowIds
  /\ document.outcome \in Outcomes
  /\ pc \in {"trace", "decide"} =>
       \A i \in DOMAIN document.rows :
         /\ document.rows[i].outcome \in Outcomes
         /\ document.rows[i].outcome # "COMPLIANT" => document.rows[i].deviates

(* What the model printed under the name f in cells that passed the gate.  *)
Admitted(f) ==
  {header[f] : i \in {0} \ {e[1] : e \in {g \in guarded : g[2] = f}}}
    \cup {answer.rows[i].row[f] :
            i \in {j \in DOMAIN answer.rows : <<j, f>> \notin guarded}}

(* What stands behind the label f in a text of header or rows.  The words  *)
(* of the confidences are such a text to the code.                         *)
BehindLabel(f) ==
  (UNION {LabelledValues(t, f) : t \in {header.headerGrade, header.description}})
    \cup (UNION {LabelledValues(answer.rows[i].row.product, f)
                   \cup LabelledValues(answer.rows[i].row.grade, f)
                     : i \in DOMAIN answer.rows})
    \cup (IF header.confs[f] \in {"low3", "sure3"}
          THEN {ConfidenceText(f)} ELSE {})

(* Fifteen functions fill, move, promote and override identifiers, but no  *)
(* heat, lot or certificate of the document comes from elsewhere than a    *)
(* cell of that name that passed the identifier gate or its label in a     *)
(* text: nothing is invented, moved to another field, or let back in after *)
(* it was suppressed (run_multi_stage_extraction, _apply_identifier_gate). *)
IdentifiersAreAdmitted ==
  Assembled =>
    \A f \in Ids :
      {document.metadata[f]}
        \cup {document.rows[i][f] : i \in DOMAIN document.rows}
          \subseteq Admitted(f) \cup BehindLabel(f) \cup {None}

(* Cells of a table that may hold an observed value of a property.         *)
ObservedCells(k) ==
  UNION {Range(line.results) \cup Range(line.others) :
           line \in {l \in Range(answer.table) : KindOf(l.label) = k}}

(* Cells that the code takes for such: without a table, where two rows are *)
(* named after properties, one of lot, certificate and product of a row    *)
(* that is named after this one, if no other of them reads differently.    *)
StrayCells(k) ==
  UNION {Range(Selected(NamedLine(RawRows[i]))) :
           i \in {j \in NamedRows(RawRows) : KindOf(PropertyLabel(RawRows[j])) = k}}

TableCells(k) ==
  ObservedCells(k) \cup
    (IF answer.table = <<>> /\ Cardinality(NamedRows(RawRows)) >= 2
     THEN StrayCells(k) ELSE {})

(* A mechanical value of the document was observed: it stands in a row of  *)
(* the model that does not doubt it, or in a column of the table that is   *)
(* not one of limits.  A minimum or a specified value never becomes a      *)
(* result (mechanical_table_mapper, _normalize_row_dict).  One other way   *)
(* is left, though the module speaks of an observed Results column: the    *)
(* digits of a stray cell, and of no cell beside it, where the model gave  *)
(* no table and named two rows after properties.                           *)
ResultsAreObserved ==
  Assembled =>
    \A i \in DOMAIN document.rows, k \in Kinds :
      LET v == document.rows[i].mech[k]
          own == {said.row.mech[k] :
                    said \in {r \in Range(answer.rows) : k \notin r.doubted}}
          read == {ParseText(n, k).value : n \in TableCells(k)}
          observed == (own \cup read) \ {Blank}
      IN v = Blank \/ v \in {ParseNumber(w, k).value : w \in observed}

(* A value outside of what such a value can be is in the document only     *)
(* with a doubt about it in the reasons, wherever it came from and however *)
(* often it was parsed (numeric_parser, apply_mechanical_table_mapping).   *)
ImplausibleIsDoubted ==
  Assembled =>
    \A i \in DOMAIN document.rows, k \in Kinds :
      LET v == document.rows[i].mech[k]
      IN v # Blank /\ ~Plausible(v, k) =>
           <<"numeric_uncertain", k>> \in document.reasons /\ document.review

(* Labels of one field in two texts of the header that differ leave the    *)
(* field empty, in the header as in all rows, and the document in review:  *)
(* neither an earlier value nor a row's nor a later pass fills it again    *)
(* (labeled_identifier_extractor, canonical_reconciler).                   *)
ConflictsStayEmpty ==
  Assembled /\ answer # Unasked =>
    \A f \in Ids :
      Cardinality(LabelledValues(header.headerGrade, f)
                    \cup LabelledValues(header.description, f)) > 1 =>
        /\ document.metadata[f] = None
        /\ \A i \in DOMAIN document.rows : document.rows[i][f] = None
        /\ document.review

(* A header grade and the grade of a row's own cell that are of different  *)
(* kinds are reported, unless the rows were collapsed into one, in which   *)
(* the header's grade takes the place of theirs (propagate_to_rows; six    *)
(* steps before it may have moved either grade).                           *)
GradeConflictIsReported ==
  Assembled /\ answer # Unasked /\ Len(document.rows) = Len(answer.rows) =>
    \A i \in DOMAIN answer.rows :
      LET own == answer.rows[i].row.grade
      IN own \in Grades /\ header.headerGrade \in Grades \ {own} =>
           <<"header_row_conflict", "grade">> \in document.reasons

(* What ends as compliant has earned it: such a row of steel breaks no     *)
(* limit and shows a verified heat or lot, its own or the document's, and  *)
(* in a compliant document all rows do, by an identifier of one kind       *)
(* (validate_document, then validate_traceability, which takes the         *)
(* identifiers of other rows away and may lower the outcome of any).       *)
ShowsTrace(row, f) ==
  f \in row.verified /\ (row[f] # None \/ document.metadata[f] # None)

CompliantIsEarned ==
  pc = "decide" /\ ~header.rope =>
    /\ \A i \in DOMAIN document.rows :
         LET row == document.rows[i]
         IN row.outcome = "COMPLIANT" =>
              ~Breaches(row.mech) /\ \E f \in Group : ShowsTrace(row, f)
    /\ document.outcome = "COMPLIANT" =>
         /\ \A i \in DOMAIN document.rows :
              document.rows[i].outcome = "COMPLIANT"
         /\ \E f \in Group :
              \A i \in DOMAIN document.rows : ShowsTrace(document.rows[i], f)

(* A page that cannot be read puts its whole document under the identifier *)
(* gate, as does an OCR text over a scan that looks sharp: when one of the *)
(* two sampled pages is blurred or noisy, no other page and no text layer  *)
(* makes up for it (profile_document, _classify).                          *)
PoorSamplesAreGated ==
  pc # "profile" /\ file # NoFile =>
    \/ gateRequired
    \/ /\ \A p \in Sample(file) : p.blur >= 80 /\ p.noise < 25
       /\ Sample(file) # {}
       /\ ~(NoisyText(file) /\ FullPageRaster(file))

(* The rows are asked for with the table of every page that a model is     *)
(* shown, unless the tables alone are too large for a request: no picture  *)
(* of an earlier page takes the room of the table of a later one           *)
(* (select_row_evidence, pack_evidence).                                   *)
TablesComeFirst ==
  pc = "stageB" =>
    LET tables == {i \in 1..Min({Len(pages), MaxPages}) : pages[i].table}
        Shows(b, i) == b.page = i /\ b.role = "table_crop"
        sent == {i \in tables : \E k \in DOMAIN request : Shows(request[k], i)}
        crops == OfRole(RowEvidence(pages), "table_crop")
    IN sent = tables \/ RequestBytes(crops) > MaxRequest

(* Every attempt to compress an image is smaller than the one before, at a *)
(* lower quality or with a shorter edge, so that compressing it ends       *)
(* (_encode_variant_for_llm: while True), with settings like the default   *)
(* ones: SmallImagesFit.                                                   *)
EncodingDescends ==
  [][pc = "encode" /\ pc' = "encode" =>
       \/ canvas'.edge < canvas.edge
       \/ /\ canvas'.edge = canvas.edge
          /\ canvas'.quality < canvas.quality]_pipeVars

(* A heat number of a row is verified only if some cell gave that heat     *)
(* number with a sure confidence.                                          *)
VerifiedIsBacked ==
  pc = "decide" =>
    \A i \in DOMAIN document.rows :
      "heat" \in document.rows[i].verified =>
        \/ Sure(header.confs.heat) /\ header.heat = document.rows[i].heat
        \/ \E j \in DOMAIN answer.rows :
             /\ Sure(answer.rows[j].confs.heat)
             /\ answer.rows[j].row.heat = document.rows[i].heat
==============================================================================
