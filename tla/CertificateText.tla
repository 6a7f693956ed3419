--------------------------- MODULE CertificateText ---------------------------
(***************************************************************************)
(* What the document pipeline sees in a piece of text of a certificate:    *)
(* domain/grade_registry.py, domain/value_typing.py,                       *)
(* domain/labeled_identifier_extractor.py and the predicates of            *)
(* services/identity_field_mapper.py.                                      *)
(*                                                                         *)
(* A text is one of a few kinds; the regular expressions are replaced by   *)
(* what they answer for it.  "s355jr", "304" and "304l" name themselves    *)
(* in the registry, the last two being one family.  An example of every    *)
(* other kind stands beside it.                                            *)
(***************************************************************************)
EXTENDS Naturals, Sequences, FiniteSets

None == "none"

Grades == {"s355jr", "304", "304l"}

Family(g) == IF g = "s355jr" THEN "structural" ELSE "austenitic"

Texts == Grades \cup
  {"dual",       \* 304/304L
   "mixed",      \* S355JR/304L
   "bare",       \* S355, a grade without its sub-grade
   "class",      \* M21
   "norm",       \* EN 10025-2
   "normGrade",  \* EN 10025-2 S355JR
   "gradeClass", \* S355JR / M21
   "size",       \* 10 mm
   "plate",      \* Hot rolled plate
   "plateGrade", \* Hot rolled plate S355JR
   "tensile",    \* Tensile strength, the name of a property
   "heatLine",   \* Heat No: T1000
   "heatLine2",  \* Heat No: T2000
   "headLine",   \* Heat No: T1000 Cert No: T77
   "gradeLine"}  \* Grade: 304L Product: Hot rolled plate

(* The parts a text is split into at a slash or a comma: the registry      *)
(* entry that a part is an alias of, if any, and those it contains.        *)
Part(is, has) == [is |-> is, has |-> has]

Parts(t) ==
  CASE t \in Grades     -> <<Part(t, {t})>>
    [] t = "dual"       -> <<Part("304", {"304"}), Part("304l", {"304l"})>>
    [] t = "mixed"      ->
         <<Part("s355jr", {"s355jr"}), Part("304l", {"304l"})>>
    [] t = "normGrade"  -> <<Part(None, {"s355jr"})>>
    [] t = "plateGrade" -> <<Part(None, {"s355jr"})>>
    [] t = "gradeClass" -> <<Part("s355jr", {"s355jr"}), Part(None, {})>>
    [] t = "gradeLine"  -> <<Part(None, {"304l", "304"})>>
    [] OTHER            -> <<Part(None, {})>>

PartGrades(p) == IF p.is # None THEN {p.is} ELSE p.has

(* The registry lists 304 before 304L. *)
FirstOf(gs) == IF "304" \in gs THEN "304"
               ELSE IF "304l" \in gs THEN "304l" ELSE "s355jr"

Resolution(status, canonical, contained) ==
  [status |-> status, canonical |-> canonical, contained |-> contained]

(* resolve_grade: one part is matched whole before the aliases inside it   *)
(* are looked for; several parts must agree on a grade or on a family.     *)
Found(parts) == UNION {PartGrades(parts[i]) : i \in DOMAIN parts}

Inside(parts) == Len(parts) = 1 /\ parts[1].is = None

Resolved(found, inside) ==
  CASE found = {}             -> Resolution("unknown", None, FALSE)
    [] Cardinality(found) = 1 -> Resolution("resolved", FirstOf(found), inside)
    [] Cardinality({Family(g) : g \in found}) = 1 /\ Cardinality(found) > 1 ->
         Resolution("resolved_dual", FirstOf(found), inside)
    [] OTHER                  -> Resolution("ambiguous", None, inside)

ResolveGrade(t) ==
  IF t = "bare" THEN Resolution("ambiguous", None, FALSE)
  ELSE Resolved(Found(Parts(t)), Inside(Parts(t)))

Resolutions == {"resolved", "resolved_dual"}

Resolves(t) == ResolveGrade(t).status \in Resolutions

(* _domain_grade: allowing for a grade named inside a longer text or not.  *)
Canonical(r, allowContained) ==
  IF r.status \in Resolutions /\ (allowContained \/ ~r.contained)
  THEN r.canonical
  ELSE None

DomainGrade(t, allowContained) == Canonical(ResolveGrade(t), allowContained)

Classes == {"bare", "class"}        \* looks_like_classification_token

SpecLines == {"norm", "normGrade"}  \* looks_like_spec_line

(* is_standards_only *)
StandardsOnly(t) ==
  t \in Classes \/ (t \in SpecLines /\ DomainGrade(t, FALSE) = None)

Sizes == {"size"}                   \* looks_like_dimension

(* What a text carries under a printed label. *)
Labelled(t) ==
  CASE t = "heatLine"  -> {<<"heat", "T1000">>}
    [] t = "heatLine2" -> {<<"heat", "T2000">>}
    [] t = "headLine"  -> {<<"heat", "T1000">>, <<"cert", "T77">>}
    [] t = "gradeLine" -> {<<"grade", "304l">>, <<"product", "plate">>}
    [] OTHER           -> {}

LabelledValues(t, field) == {c[2] : c \in {l \in Labelled(t) : l[1] = field}}

(* is_combined_identity_line: two or more labelled fields. *)
Combined(t) == Cardinality({l[1] : l \in Labelled(t)}) >= 2

(* _looks_like_product_identity: words, apart from a grade, a standard, a  *)
(* size or a labelled identifier.                                          *)
ProductIdentity(t) ==
  /\ t \in {"plate", "plateGrade", "tensile", "gradeLine"}
  /\ ~StandardsOnly(t) /\ t \notin Sizes
  /\ \A l \in Labelled(t) : l[1] \notin {"heat", "lot", "cert"}

(* partition_standard_and_classification of the parts of a set of texts.   *)
SpecTokens(ts) ==
  (ts \ {"gradeClass", "dual", "mixed"})
    \cup (IF "gradeClass" \in ts THEN {"s355jr", "class"} ELSE {})
    \cup (IF "dual" \in ts THEN {"304", "304l"} ELSE {})
    \cup (IF "mixed" \in ts THEN {"s355jr", "304l"} ELSE {})

ClassTokens(ts) == SpecTokens(ts) \cap Classes

NormTokens(ts) == SpecTokens(ts) \ Classes
==============================================================================
