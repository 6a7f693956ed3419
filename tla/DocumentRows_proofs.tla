-------------------------- MODULE DocumentRows_proofs --------------------------
(***************************************************************************)
(* What the operators of the pipeline do with a header and its rows, for   *)
(* headers and rows of any content and number: each takes identifiers only *)
(* from where they were (a field of the same name, or a label in a text),  *)
(* keeps texts clean of anything else, leaves values as they are or parses *)
(* them, and empties what contradicting labels leave open.                 *)
(*                                                                         *)
(* One lemma per operator; DocumentPipeline_proofs cites them, a step at a *)
(* time.                                                                   *)
(***************************************************************************)
EXTENDS DocumentInvariant, SequenceTheorems, FiniteSetTheorems,
        WellFoundedInduction, TLAPS

(* ------------------------- least and greatest ---------------------------- *)

(* Every set of naturals that is not empty has a least element: no initial *)
(* segment 0..x of it contains another one for ever.                       *)
LEMMA LeastNatural ==
  ASSUME NEW S, S \subseteq Nat, S # {}
  PROVE  \E x \in S : \A y \in S : x <= y
  <1> DEFINE below == {0..x : x \in S}
  <1>1. below \subseteq FiniteSubsetsOf(Nat) /\ below # {}
    <2>1. ASSUME NEW x \in S PROVE 0..x \in FiniteSubsetsOf(Nat)
      <3>1. IsFiniteSet(0..x)
        BY FS_Interval
      <3> QED BY <3>1 DEF FiniteSubsetsOf
    <2> QED BY <2>1
  <1>2. PICK m \in below :
               \A s \in below : ~ (<<s, m>> \in StrictSubsetOrdering(Nat))
    <2> HIDE DEF below
    <2> QED BY <1>1, FS_StrictSubsetOrderingWellFounded, WFMin
  <1>3. PICK x \in S : m = 0..x
    OBVIOUS
  <1>4. ASSUME NEW y \in S, ~ (x <= y) PROVE FALSE
    <2>1. 0..y \in below /\ 0..y \subseteq Nat /\ 0..x \subseteq Nat
      OBVIOUS
    <2>2. 0..y \subseteq 0..x /\ 0..y # 0..x
      <3>1. x \in Nat /\ y \in Nat /\ y < x
        BY <1>4
      <3>2. x \in 0..x /\ x \notin 0..y
        BY <3>1
      <3> QED BY <3>1, <3>2
    <2>3. <<0..y, 0..x>> \in StrictSubsetOrdering(Nat)
      BY <2>1, <2>2 DEF StrictSubsetOrdering
    <2> QED BY <1>2, <1>3, <2>1, <2>3
  <1> QED BY <1>4

LEMMA MinIsLeast ==
  ASSUME NEW S, S \subseteq Nat, S # {}
  PROVE  Min(S) \in S /\ \A y \in S : Min(S) <= y
  BY LeastNatural DEF Min

LEMMA MaxIsGreatest ==
  ASSUME NEW n \in Nat, NEW S, S \subseteq 0..n, S # {}
  PROVE  Max(S) \in S /\ \A y \in S : Max(S) >= y
  <1> DEFINE rest == {n - x : x \in S}
  <1>1. PICK u \in rest : \A y \in rest : u <= y
    <2>1. \A x \in S : n - x \in Nat
      OBVIOUS
    <2>2. rest \subseteq Nat /\ rest # {}
      BY <2>1
    <2> QED BY <2>2, LeastNatural
  <1>2. PICK x \in S : u = n - x
    OBVIOUS
  <1>3. \A y \in S : x >= y
    <2>1. \A y \in S : n - y \in rest
      OBVIOUS
    <2> QED BY <1>1, <1>2, <2>1
  <1> QED BY <1>3 DEF Max

(* ----------------------------- sequences -------------------------------- *)

(* A function on 1..n is a sequence of its own values.                     *)
LEMMA OwnSequence ==
  ASSUME NEW n \in Nat, NEW q, q = [i \in 1..n |-> q[i]]
  PROVE  q \in Seq(Range(q)) /\ Len(q) = n /\ DOMAIN q = 1..n
  <1>1. q \in [1..n -> Range(q)]
    BY DEF Range
  <1>2. q \in Seq(Range(q))
    BY <1>1, SeqDef
  <1> QED BY <1>1, <1>2

LEMMA OwnDomain ==
  ASSUME NEW q, q \in Seq(Range(q))
  PROVE  /\ Len(q) \in Nat /\ DOMAIN q = 1..Len(q)
         /\ q = [i \in 1..Len(q) |-> q[i]]
  <1>1. DOMAIN q = 1..Len(q) /\ Len(q) \in Nat
    OBVIOUS
  <1>2. q = [i \in DOMAIN q |-> q[i]]
    OBVIOUS
  <1> QED BY <1>1, <1>2

(* -------------------------------- texts --------------------------------- *)

LineTexts == {"heatLine", "heatLine2", "headLine"}

(* Most texts tell nothing of identifiers.                                 *)
LEMMA OtherTextsAreClean ==
  ASSUME NEW sources, NEW t \in (Texts \cup {None}) \ LineTexts
  PROVE  t \in Clean(sources)
  <1>1. ASSUME NEW f \in Ids PROVE LabelledValues(t, f) = {}
    BY DEF LabelledValues, Labelled, LineTexts, Ids, Texts, Grades, None
  <1> QED BY <1>1 DEF Clean

LEMMA SomeCleanTexts ==
  ASSUME NEW sources
  PROVE  /\ Grades \cup {None} \subseteq Clean(sources)
         /\ "plate" \in Clean(sources) /\ "304l" \in Clean(sources)
         /\ Clean(sources) \subseteq Texts \cup {None}
  <1>1. Grades \cup {None, "plate"} \subseteq (Texts \cup {None}) \ LineTexts
    BY DEF Texts, Grades, None, LineTexts
  <1>2. "304l" \in Grades
    BY DEF Grades
  <1>3. Clean(sources) \subseteq Texts \cup {None}
    BY DEF Clean
  <1> QED BY <1>1, <1>2, <1>3, OtherTextsAreClean

GradePart(p) == p.has \subseteq Grades /\ p.is \in Grades \cup {None}

LEMMA PartsOfTexts ==
  ASSUME NEW t
  PROVE  \E a, b : /\ GradePart(a) /\ GradePart(b)
                   /\ Parts(t) = <<a>> \/ Parts(t) = <<a, b>>
  <1>1. ASSUME NEW is \in Grades \cup {None}, NEW has, has \subseteq Grades
        PROVE  GradePart(Part(is, has))
    BY <1>1 DEF GradePart, Part
  <1>2. {"304", "304l", "s355jr"} \subseteq Grades
    BY DEF Grades
  <1>3. CASE t \in Grades
    <2>1. Parts(t) = <<Part(t, {t})>>
      BY <1>3 DEF Parts, Grades
    <2> QED BY <1>1, <1>3, <2>1
  <1>4. CASE t \notin Grades
    <2>1. Parts(t) \in {<<Part("304", {"304"}), Part("304l", {"304l"})>>,
                        <<Part("s355jr", {"s355jr"}), Part("304l", {"304l"})>>,
                        <<Part(None, {"s355jr"})>>,
                        <<Part("s355jr", {"s355jr"}), Part(None, {})>>,
                        <<Part(None, {"304l", "304"})>>,
                        <<Part(None, {})>>}
      BY <1>4 DEF Parts
    <2>2. /\ GradePart(Part("304", {"304"})) /\ GradePart(Part("304l", {"304l"}))
          /\ GradePart(Part("s355jr", {"s355jr"}))
          /\ GradePart(Part(None, {"s355jr"})) /\ GradePart(Part(None, {}))
          /\ GradePart(Part(None, {"304l", "304"}))
      BY <1>1, <1>2
    <2> QED BY <2>1, <2>2
  <1> QED BY <1>3, <1>4

LEMMA FoundAreGrades ==
  ASSUME NEW t
  PROVE  Found(Parts(t)) \subseteq Grades
  <1>1. ASSUME NEW p, GradePart(p) PROVE PartGrades(p) \subseteq Grades
    BY <1>1 DEF PartGrades, GradePart
  <1>2. PICK a, b : /\ GradePart(a) /\ GradePart(b)
                    /\ Parts(t) = <<a>> \/ Parts(t) = <<a, b>>
    BY PartsOfTexts
  <1>3. ASSUME NEW i \in DOMAIN Parts(t)
        PROVE  PartGrades(Parts(t)[i]) \subseteq Grades
    <2>1. Parts(t)[i] = a \/ Parts(t)[i] = b
      BY <1>2
    <2> QED BY <1>1, <1>2, <2>1
  <1> QED BY <1>3 DEF Found

LEMMA CanonicalIsGrade ==
  ASSUME NEW t
  PROVE  ResolveGrade(t).canonical \in Grades \cup {None}
  <1>1. ASSUME NEW gs, gs \subseteq Grades, gs # {} PROVE FirstOf(gs) \in Grades
    BY <1>1 DEF FirstOf, Grades
  <1>2. ASSUME NEW found, found \subseteq Grades, NEW inside
        PROVE  Resolved(found, inside).canonical \in Grades \cup {None}
    <2>1. CASE found = {}
      <3>1. Resolved(found, inside) = Resolution("unknown", None, FALSE)
        <4>1. Cardinality(found) = 0
          BY <2>1, FS_EmptySet
        <4>2. Cardinality(found) # 1 /\ ~(Cardinality(found) > 1)
          BY <4>1
        <4> QED BY <2>1, <4>2 DEF Resolved
      <3> QED BY <3>1 DEF Resolution
    <2>2. CASE found # {}
      <3>1. Resolved(found, inside) \in
              {Resolution("resolved", FirstOf(found), inside),
               Resolution("resolved_dual", FirstOf(found), inside),
               Resolution("ambiguous", None, inside)}
        <4>1. ~(Cardinality(found) = 1 /\ Cardinality(found) > 1)
          OBVIOUS
        <4> QED BY <2>2, <4>1 DEF Resolved
      <3> QED BY <1>1, <1>2, <2>2, <3>1 DEF Resolution
    <2> QED BY <2>1, <2>2
  <1> QED BY <1>2, FoundAreGrades DEF ResolveGrade, Resolution

LEMMA DomainGradeIsGrade ==
  ASSUME NEW t, NEW b
  PROVE  DomainGrade(t, b) \in Grades \cup {None}
  BY CanonicalIsGrade DEF DomainGrade, Canonical

(* A grade of the registry names itself.                                   *)
LEMMA GradesNameThemselves ==
  ASSUME NEW g \in Grades
  PROVE  Resolves(g) /\ ResolveGrade(g).canonical = g
  <1>1. Parts(g) = <<Part(g, {g})>>
    BY DEF Parts, Grades
  <1>2. Found(Parts(g)) = {g}
    <2>1. PartGrades(Part(g, {g})) = {g}
      BY DEF PartGrades, Part
    <2>2. DOMAIN Parts(g) = {1} /\ Parts(g)[1] = Part(g, {g})
      BY <1>1
    <2> QED BY <2>1, <2>2 DEF Found
  <1>3. Cardinality({g}) = 1
    BY FS_Singleton
  <1>4. FirstOf({g}) = g
    BY DEF FirstOf, Grades
  <1>5. g # "bare"
    BY DEF Grades
  <1>6. ResolveGrade(g) = Resolution("resolved", g, Inside(Parts(g)))
    BY <1>2, <1>3, <1>4, <1>5 DEF ResolveGrade, Resolved
  <1> QED BY <1>6 DEF Resolution, Resolves, Resolutions

LEMMA SpecTokensAreTexts ==
  ASSUME NEW ts, ts \subseteq Texts
  PROVE  NormTokens(ts) \subseteq Texts /\ ClassTokens(ts) \subseteq Texts
  <1>1. {"s355jr", "class", "304", "304l"} \subseteq Texts
    BY DEF Texts, Grades
  <1>2. SpecTokens(ts) \subseteq Texts
    BY <1>1 DEF SpecTokens
  <1> QED BY <1>2 DEF NormTokens, ClassTokens, SpecTokens

(* A grade is no class, standard, size, line or product.                   *)
LEMMA GradesArePlain ==
  ASSUME NEW g \in Grades
  PROVE  /\ g # None /\ g \notin Classes /\ g \notin Sizes /\ ~StandardsOnly(g)
         /\ ~ProductIdentity(g) /\ g # "gradeClass" /\ ~Combined(g)
  <1>1. g # None /\ g \notin Classes /\ g \notin Sizes /\ g \notin SpecLines
        /\ g # "gradeClass" /\ g \notin {"plate", "plateGrade", "tensile", "gradeLine"}
    BY DEF Grades, None, Classes, Sizes, SpecLines
  <1>2. {l[1] : l \in Labelled(g)} = {}
    BY DEF Labelled, Grades
  <1>3. Cardinality({}) = 0
    BY FS_EmptySet
  <1>4. ~Combined(g)
    <2>1. Cardinality({l[1] : l \in Labelled(g)}) = 0
      BY <1>2, <1>3
    <2> QED BY <2>1 DEF Combined
  <1> QED BY <1>1, <1>4 DEF StandardsOnly, ProductIdentity

(* --------------------------- texts of a row ------------------------------ *)

RowFields ==
  {"item", "pipe", "heat", "lot", "cert", "product", "grade", "dims", "norms",
   "classes", "mech", "review", "provenance", "known", "outcome", "deviates",
   "verified"}

LEMMA BlankRowFields == DOMAIN BlankRow = RowFields
  BY DEF BlankRow, RowFields

(* A row whose texts tell of nothing but the sources.                      *)
Reads(r, sources) ==
  /\ DOMAIN r = RowFields
  /\ r.product \in Clean(sources) /\ r.grade \in Clean(sources)
  /\ r.dims \in Texts \cup {None}
  /\ r.norms \subseteq Texts /\ r.classes \subseteq Texts

(* A step that separates and completes such texts leaves the rest of the   *)
(* row alone, and a grade that is one of the registry's.                   *)
Retells(new, r, sources) ==
  /\ Reads(new, sources)
  /\ \A f \in {"heat", "lot", "cert", "mech", "known", "outcome", "verified"} :
       new[f] = r[f]
  /\ r.grade \in Grades => new.grade = r.grade

LEMMA RetellsAgain ==
  ASSUME NEW a, NEW b, NEW c, NEW sources,
         Retells(b, a, sources), Retells(c, b, sources)
  PROVE  Retells(c, a, sources)
  BY DEF Retells

LEMMA Tokens ==
  /\ Classes \subseteq Texts /\ SpecLines \subseteq Texts /\ Sizes \subseteq Texts
  /\ \A t : StandardsOnly(t) => t \in Texts
  /\ None \notin Texts /\ "class" \in Texts
  BY DEF Classes, SpecLines, Sizes, Texts, StandardsOnly, Grades, None

LEMMA WithSpecsReads ==
  ASSUME NEW sources, NEW r, Reads(r, sources), NEW texts, texts \subseteq Texts
  PROVE  Retells(WithSpecs(r, texts), r, sources)
         /\ WithSpecs(r, texts).item = r.item
         /\ WithSpecs(r, texts).product = r.product
         /\ WithSpecs(r, texts).grade = r.grade
  <1> DEFINE all == r.norms \cup r.classes \cup texts
  <1>1. NormTokens(all) \subseteq Texts /\ ClassTokens(all) \subseteq Texts
    BY SpecTokensAreTexts DEF Reads
  <1>2. WithSpecs(r, texts) =
          [r EXCEPT !.norms = NormTokens(all), !.classes = ClassTokens(all)]
    BY DEF WithSpecs
  <1> HIDE DEF all
  <1> QED BY <1>1, <1>2 DEF Retells, Reads, RowFields

LEMMA ItemSeparatedReads ==
  ASSUME NEW sources, NEW r, Reads(r, sources)
  PROVE  Retells(ItemSeparated(r), r, sources)
  <1>1. CASE r.item \in Classes
    <2>1. Retells(WithSpecs(r, {r.item}), r, sources)
      BY <1>1, Tokens, WithSpecsReads
    <2>2. ItemSeparated(r) = [WithSpecs(r, {r.item}) EXCEPT !.item = None]
      BY <1>1 DEF ItemSeparated, Classes, Sizes
    <2> QED BY <2>1, <2>2 DEF Retells, Reads, RowFields
  <1>2. CASE r.item \notin Classes
    BY <1>2, Tokens DEF ItemSeparated, Retells, Reads, RowFields
  <1> QED BY <1>1, <1>2

LEMMA ProductSeparatedReads ==
  ASSUME NEW sources, NEW r, Reads(r, sources)
  PROVE  Retells(ProductSeparated(r), r, sources)
  <1> DEFINE p == r.product
  <1>1. None \in Clean(sources) /\ Grades \subseteq Clean(sources)
    BY SomeCleanTexts
  <1>2. CASE p = None
    BY <1>2, Tokens DEF ProductSeparated, Retells, Reads, StandardsOnly, Sizes, None
  <1>3. CASE p # None /\ StandardsOnly(p)
    <2>1. Retells(WithSpecs(r, {p}), r, sources)
      BY <1>3, Tokens, WithSpecsReads
    <2>2. ProductSeparated(r) = [WithSpecs(r, {p}) EXCEPT !.product = None]
      BY <1>3 DEF ProductSeparated, StandardsOnly, Sizes, Classes, SpecLines
    <2> QED BY <1>1, <2>1, <2>2 DEF Retells, Reads, RowFields
  <1>4. CASE p # None /\ ~StandardsOnly(p) /\ p \in Sizes
    <2>1. ProductSeparated(r) = [r EXCEPT !.dims = Or(@, p), !.product = None]
      BY <1>4 DEF ProductSeparated
    <2> QED BY <1>1, <1>4, <2>1, Tokens DEF Retells, Reads, RowFields, Or
  <1>5. CASE p # None /\ ~StandardsOnly(p) /\ p \notin Sizes
    <2>1. ProductSeparated(r) = [r EXCEPT !.grade = Or(@, DomainGrade(p, TRUE))]
      BY <1>5 DEF ProductSeparated
    <2>2. DomainGrade(p, TRUE) \in Clean(sources)
      BY <1>1, DomainGradeIsGrade
    <2>3. r.grade \in Grades => r.grade # None
      BY DEF Grades, None
    <2> QED BY <2>1, <2>2, <2>3 DEF Retells, Reads, RowFields, Or
  <1> QED BY <1>2, <1>3, <1>4, <1>5

LEMMA GradeSeparatedReads ==
  ASSUME NEW sources, NEW r, Reads(r, sources)
  PROVE  Retells(GradeSeparated(r), r, sources)
  <1> DEFINE g == r.grade
             named == DomainGrade(g, TRUE)
  <1>1. None \in Clean(sources) /\ Grades \subseteq Clean(sources)
        /\ named \in Clean(sources)
    BY SomeCleanTexts, DomainGradeIsGrade
  <1>2. g \in Grades => g # None /\ ~StandardsOnly(g) /\ g \notin Sizes
                        /\ ~ProductIdentity(g) /\ g # "gradeClass"
    BY GradesArePlain
  <1>3. CASE g = None
    BY <1>2, <1>3, Tokens
    DEF GradeSeparated, Retells, Reads, Sizes, None, ProductIdentity
  <1>4. CASE g # None /\ StandardsOnly(g)
    <2>1. Retells(WithSpecs(r, {g}), r, sources)
      BY <1>4, Tokens, WithSpecsReads
    <2>2. GradeSeparated(r) = [WithSpecs(r, {g}) EXCEPT !.grade = named]
      BY <1>4 DEF GradeSeparated, StandardsOnly, Sizes, Classes, SpecLines,
         ProductIdentity
    <2> HIDE DEF named
    <2> QED BY <1>1, <1>2, <1>4, <2>1, <2>2 DEF Retells, Reads, RowFields
  <1>5. CASE g # None /\ ~StandardsOnly(g) /\ g \in Sizes
    <2>1. GradeSeparated(r) = [r EXCEPT !.dims = Or(@, g), !.grade = None]
      BY <1>5 DEF GradeSeparated, ProductIdentity, Sizes
    <2> QED BY <1>1, <1>2, <1>5, <2>1, Tokens DEF Retells, Reads, RowFields, Or
  <1>6. CASE g # None /\ ~StandardsOnly(g) /\ g \notin Sizes /\ ProductIdentity(g)
    <2>1. GradeSeparated(r) = [r EXCEPT !.product = Or(@, g), !.grade = named]
      BY <1>6 DEF GradeSeparated, ProductIdentity
    <2> HIDE DEF named
    <2> QED BY <1>1, <1>2, <1>6, <2>1 DEF Retells, Reads, RowFields, Or
  <1>7. CASE g # None /\ ~StandardsOnly(g) /\ g \notin Sizes /\ ~ProductIdentity(g)
    <2>1. CASE g = "gradeClass"
      <3>1. Retells(WithSpecs(r, {"class"}), r, sources)
        BY Tokens, WithSpecsReads
      <3>2. GradeSeparated(r) = [WithSpecs(r, {"class"}) EXCEPT !.grade = named]
        BY <1>7, <2>1 DEF GradeSeparated
      <3> HIDE DEF named
      <3> QED BY <1>1, <1>2, <2>1, <3>1, <3>2 DEF Retells, Reads, RowFields
    <2>2. CASE g # "gradeClass"
      <3>1. GradeSeparated(r) = r
        BY <1>7, <2>2 DEF GradeSeparated
      <3> QED BY <3>1 DEF Retells
    <2> QED BY <2>1, <2>2
  <1> QED BY <1>3, <1>4, <1>5, <1>6, <1>7

LEMMA WithoutLinesReads ==
  ASSUME NEW sources, NEW r, Reads(r, sources)
  PROVE  Retells(WithoutLines(r), r, sources)
  <1>1. None \in Clean(sources)
    BY SomeCleanTexts
  <1>2. r.grade \in Grades => ~Combined(r.grade)
    BY GradesArePlain
  <1>3. /\ DOMAIN WithoutLines(r) = RowFields
        /\ \A f \in RowFields \ {"product", "grade"} : WithoutLines(r)[f] = r[f]
        /\ WithoutLines(r).product \in {None, r.product}
        /\ WithoutLines(r).grade = IF Combined(r.grade) THEN None ELSE r.grade
    BY DEF WithoutLines, Reads, RowFields
  <1> QED BY <1>1, <1>2, <1>3 DEF Retells, Reads, RowFields

LEMMA WithoutEchoReads ==
  ASSUME NEW sources, NEW r, Reads(r, sources)
  PROVE  Retells(WithoutEcho(r), r, sources)
  <1>1. None \in Clean(sources)
    BY SomeCleanTexts
  <1>2. /\ DOMAIN WithoutEcho(r) = RowFields
        /\ \A f \in RowFields \ {"product"} : WithoutEcho(r)[f] = r[f]
        /\ WithoutEcho(r).product \in {None, r.product}
    BY DEF WithoutEcho, Reads, RowFields
  <1> QED BY <1>1, <1>2 DEF Retells, Reads, RowFields

LEMMA WithProductReads ==
  ASSUME NEW sources, NEW r, Reads(r, sources), NEW p \in Clean(sources)
  PROVE  Retells(WithProduct(r, p), r, sources)
  <1>1. DomainGrade(p, TRUE) \in Clean(sources)
    BY SomeCleanTexts, DomainGradeIsGrade
  <1>2. r.grade \in Grades => r.grade # None
    BY DEF Grades, None
  <1> QED BY <1>1, <1>2 DEF WithProduct, Retells, Reads, RowFields, Or

LEMMA WithGradeReads ==
  ASSUME NEW sources, NEW r, Reads(r, sources), NEW g \in Clean(sources)
  PROVE  Retells(WithGrade(r, g), r, sources)
  <1>1. DomainGrade(g, FALSE) \in Clean(sources)
    BY SomeCleanTexts, DomainGradeIsGrade
  <1>2. r.grade \in Grades => r.grade # None
    BY DEF Grades, None
  <1>3. CASE g = None
    <2>1. WithGrade(r, g) = r
      BY <1>3, Tokens DEF WithGrade, ProductIdentity, None
    <2> QED BY <2>1 DEF Retells
  <1>4. CASE g # None /\ StandardsOnly(g)
    <2> DEFINE known == WithSpecs(r, {g})
    <2>1. Retells(known, r, sources) /\ known.grade = r.grade
      BY <1>4, Tokens, WithSpecsReads
    <2>2. WithGrade(r, g) = [known EXCEPT !.grade = Or(@, DomainGrade(g, FALSE))]
      BY <1>4 DEF WithGrade, ProductIdentity
    <2> HIDE DEF known
    <2>3. DOMAIN known = RowFields
      BY <2>1 DEF Retells, Reads
    <2>4. /\ DOMAIN WithGrade(r, g) = RowFields
          /\ WithGrade(r, g).grade = Or(r.grade, DomainGrade(g, FALSE))
          /\ \A f \in RowFields \ {"grade"} : WithGrade(r, g)[f] = known[f]
      BY <2>1, <2>2, <2>3 DEF RowFields
    <2>5. Or(r.grade, DomainGrade(g, FALSE)) \in Clean(sources)
      BY <1>1 DEF Reads, Or
    <2> QED BY <1>2, <2>1, <2>4, <2>5 DEF Retells, Reads, RowFields, Or
  <1>5. CASE g # None /\ ~StandardsOnly(g) /\ ProductIdentity(g)
    <2>1. WithGrade(r, g) = WithProduct(r, g)
      BY <1>5 DEF WithGrade
    <2> QED BY <2>1, WithProductReads
  <1>6. CASE g # None /\ ~StandardsOnly(g) /\ ~ProductIdentity(g)
    <2>1. WithGrade(r, g) = [r EXCEPT !.grade = Or(@, g)]
      BY <1>6 DEF WithGrade
    <2> QED BY <1>2, <2>1 DEF Retells, Reads, RowFields, Or
  <1> QED BY <1>3, <1>4, <1>5, <1>6

LEMMA WithSizeReads ==
  ASSUME NEW sources, NEW r, Reads(r, sources), NEW d \in Texts \cup {None}
  PROVE  Retells(WithSize(r, d), r, sources)
  BY DEF WithSize, Retells, Reads, RowFields, Or

LEMMA WithNormsReads ==
  ASSUME NEW sources, NEW r, Reads(r, sources), NEW ns, ns \subseteq Texts
  PROVE  Retells(WithNorms(r, ns), r, sources)
  <1>1. Retells(r, r, sources)
    BY DEF Retells
  <1> QED BY <1>1, WithSpecsReads DEF WithNorms

(* ------------------------ rows and their sources ------------------------- *)

LEMMA RowReads ==
  ASSUME NEW sources, NEW values, NEW r, RowFrom(r, sources, values)
  PROVE  Reads(r, sources)
  BY BlankRowFields DEF RowFrom, IsRow, Reads

LEMMA RetoldRow ==
  ASSUME NEW sources, NEW values, NEW r, NEW new,
         RowFrom(r, sources, values), Retells(new, r, sources)
  PROVE  RowFrom(new, sources, values)
  <1>1. \A f \in Ids : new[f] = r[f]
    BY DEF Retells, Ids
  <1>2. new.product \in Texts \cup {None} /\ new.grade \in Texts \cup {None}
    BY SomeCleanTexts DEF Retells, Reads
  <1>3. IsRow(new)
    BY <1>2, BlankRowFields DEF RowFrom, IsRow, Retells, Reads
  <1> QED BY <1>1, <1>3 DEF RowFrom, Retells, Reads

(* Other identifiers from the same sources.                                *)
LEMMA OtherIds ==
  ASSUME NEW sources, NEW values, NEW r, NEW new, RowFrom(r, sources, values),
         DOMAIN new = RowFields,
         \A f \in RowFields \ Ids : new[f] = r[f],
         \A f \in Ids : new[f] \in sources[f]
  PROVE  RowFrom(new, sources, values)
  <1>1. \A f \in {"product", "grade", "dims", "norms", "classes", "mech", "known",
                  "verified", "outcome"} : new[f] = r[f]
    BY DEF RowFields, Ids
  <1>2. IsRow(new)
    BY <1>1, BlankRowFields DEF RowFrom, IsRow
  <1> QED BY <1>1, <1>2 DEF RowFrom

LEMMA OrIn ==
  ASSUME NEW S, NEW a \in S, NEW b \in S
  PROVE  Or(a, b) \in S
  BY DEF Or

LEMMA UsableTextsAreClean ==
  ASSUME NEW sources, NEW t \in Clean(sources)
  PROVE  UsableProduct(t) \in Clean(sources) /\ UsableGradeText(t) \in Clean(sources)
  BY SomeCleanTexts DEF UsableProduct, UsableGradeText

LEMMA WithIdsFrom ==
  ASSUME NEW sources, NEW values, NEW md, HeaderFrom(md, sources),
         NEW r, RowFrom(r, sources, values)
  PROVE  RowFrom(WithIds(r, md), sources, values)
         /\ WithIds(r, md).mech = r.mech /\ WithIds(r, md).grade = r.grade
  <1>1. DOMAIN r = RowFields
    BY BlankRowFields DEF RowFrom, IsRow
  <1>2. /\ DOMAIN WithIds(r, md) = RowFields
        /\ \A f \in RowFields \ Ids : WithIds(r, md)[f] = r[f]
        /\ \A f \in Ids : WithIds(r, md)[f] \in {r[f], md[f]}
    BY <1>1 DEF WithIds, RowFields, Ids, Or
  <1>3. ASSUME NEW f \in Ids PROVE WithIds(r, md)[f] \in sources[f]
    <2>1. r[f] \in sources[f] /\ md[f] \in sources[f]
      BY DEF HeaderFrom, RowFrom
    <2> QED BY <1>2, <2>1
  <1>4. WithIds(r, md).mech = r.mech /\ WithIds(r, md).grade = r.grade
    BY <1>2 DEF RowFields, Ids
  <1> QED BY <1>2, <1>3, <1>4, OtherIds

(* apply_identity_field_mapping of one row.                                *)
LEMMA MappedRowFrom ==
  ASSUME NEW sources, NEW values, NEW md, HeaderFrom(md, sources),
         NEW r, RowFrom(r, sources, values)
  PROVE  /\ RowFrom(MappedRow(r, md), sources, values)
         /\ MappedRow(r, md).mech = r.mech
         /\ r.grade \in Grades => MappedRow(r, md).grade = r.grade
  <1> DEFINE a == WithoutLines(r)
             b == ItemSeparated(a)
             c == ProductSeparated(b)
             d == GradeSeparated(c)
             e == WithIds(d, md)
             product == Or(UsableProduct(md.product), UsableProduct(md.description))
             grade == Or(UsableGradeText(md.headerGrade), UsableGradeText(md.grade))
             f == WithProduct(e, product)
             g == WithGrade(f, grade)
             h == WithSize(g, md.dims)
             i == WithNorms(h, md.norms)
             j == ProductSeparated(i)
             k == GradeSeparated(j)
             l == WithSpecs(k, {})
  <1>1. Retells(a, r, sources)
    BY RowReads, WithoutLinesReads
  <1>2. Retells(b, a, sources)
    BY <1>1, ItemSeparatedReads DEF Retells
  <1>3. Retells(c, b, sources)
    BY <1>2, ProductSeparatedReads DEF Retells
  <1>4. Retells(d, c, sources)
    BY <1>3, GradeSeparatedReads DEF Retells
  <1>5. Retells(d, r, sources)
    BY <1>1, <1>2, <1>3, <1>4, RetellsAgain
  <1>6. RowFrom(e, sources, values) /\ e.mech = d.mech /\ e.grade = d.grade
    BY <1>5, RetoldRow, WithIdsFrom
  <1>7. product \in Clean(sources) /\ grade \in Clean(sources)
    BY UsableTextsAreClean, OrIn DEF HeaderFrom
  <1> HIDE DEF product, grade
  <1>8. Retells(f, e, sources)
    BY <1>6, <1>7, RowReads, WithProductReads
  <1>9. Retells(g, f, sources)
    BY <1>7, <1>8, WithGradeReads DEF Retells
  <1>10. Retells(h, g, sources)
    BY <1>9, WithSizeReads DEF Retells, HeaderFrom
  <1>11. Retells(i, h, sources)
    BY <1>10, WithNormsReads DEF Retells, HeaderFrom
  <1>12. Retells(j, i, sources)
    BY <1>11, ProductSeparatedReads DEF Retells
  <1>13. Retells(k, j, sources)
    BY <1>12, GradeSeparatedReads DEF Retells
  <1>14. Retells(l, k, sources)
    BY <1>13, WithSpecsReads DEF Retells
  <1>15. Retells(WithoutEcho(l), l, sources)
    BY <1>14, WithoutEchoReads DEF Retells
  <1>16. Retells(i, e, sources)
    BY <1>8, <1>9, <1>10, <1>11, RetellsAgain
  <1>17. Retells(WithoutEcho(l), i, sources)
    BY <1>12, <1>13, <1>14, <1>15, RetellsAgain
  <1>18. Retells(WithoutEcho(l), e, sources)
    BY <1>16, <1>17, RetellsAgain
  <1>19. MappedRow(r, md) = WithoutEcho(l)
    BY DEF MappedRow, FromHeader, product, grade
  <1> HIDE DEF a, b, c, d, e, f, g, h, i, j, k, l
  <1>20. RowFrom(WithoutEcho(l), sources, values)
    BY <1>6, <1>18, RetoldRow
  <1>21. WithoutEcho(l).mech = r.mech
    BY <1>5, <1>6, <1>18 DEF Retells
  <1>22. r.grade \in Grades => WithoutEcho(l).grade = r.grade
    BY <1>5, <1>6, <1>18 DEF Retells
  <1> QED BY <1>19, <1>20, <1>21, <1>22

(* A function of every row of a sequence.                                  *)
LEMMA RowByRow ==
  ASSUME NEW sources, NEW values, NEW rs, NEW new,
         rs \in Seq(Range(rs)),
         new = [i \in DOMAIN rs |-> new[i]],
         \A i \in DOMAIN rs : RowFrom(new[i], sources, values)
  PROVE  RowsFrom(new, sources, values) /\ Len(new) = Len(rs) /\ DOMAIN new = DOMAIN rs
  <1>1. DOMAIN rs = 1..Len(rs) /\ Len(rs) \in Nat
    BY OwnDomain
  <1>2. new = [i \in 1..Len(rs) |-> new[i]]
    BY <1>1
  <1>3. new \in Seq(Range(new)) /\ Len(new) = Len(rs) /\ DOMAIN new = 1..Len(rs)
    BY <1>1, <1>2, OwnSequence
  <1> QED BY <1>1, <1>3 DEF RowsFrom

LEMMA MappedFrom ==
  ASSUME NEW sources, NEW values, NEW md, HeaderFrom(md, sources),
         NEW rs, RowsFrom(rs, sources, values)
  PROVE  /\ RowsFrom(Mapped(rs, md), sources, values)
         /\ Len(Mapped(rs, md)) = Len(rs) /\ DOMAIN Mapped(rs, md) = DOMAIN rs
         /\ \A i \in DOMAIN rs :
              /\ Mapped(rs, md)[i].mech = rs[i].mech
              /\ rs[i].grade \in Grades => Mapped(rs, md)[i].grade = rs[i].grade
  <1>1. \A i \in DOMAIN rs : Mapped(rs, md)[i] = MappedRow(rs[i], md)
    BY DEF Mapped
  <1>2. ASSUME NEW i \in DOMAIN rs
        PROVE  /\ RowFrom(MappedRow(rs[i], md), sources, values)
               /\ MappedRow(rs[i], md).mech = rs[i].mech
               /\ rs[i].grade \in Grades => MappedRow(rs[i], md).grade = rs[i].grade
    BY MappedRowFrom DEF RowsFrom
  <1>3. Mapped(rs, md) = [i \in DOMAIN rs |-> Mapped(rs, md)[i]]
    BY DEF Mapped
  <1>4. rs \in Seq(Range(rs))
    BY DEF RowsFrom
  <1>5. \A i \in DOMAIN rs : RowFrom(Mapped(rs, md)[i], sources, values)
    BY <1>1, <1>2
  <1>6. RowsFrom(Mapped(rs, md), sources, values)
         /\ Len(Mapped(rs, md)) = Len(rs) /\ DOMAIN Mapped(rs, md) = DOMAIN rs
    BY <1>3, <1>4, <1>5, RowByRow
  <1> QED BY <1>1, <1>2, <1>6

(* ------------------------------- shaping --------------------------------- *)

(* What every set of sources and values has.                               *)
Given(sources, values) ==
  /\ \A f \in Ids : None \in sources[f]
  /\ \A k \in Kinds : Blank \in values[k] /\ values[k] \subseteq Nat \cup {Blank}

LEMMA FirstPresentIsSome ==
  ASSUME NEW rs, rs \in Seq(Range(rs)), NEW f
  PROVE  FirstPresent(rs, f) = None \/ \E i \in DOMAIN rs : FirstPresent(rs, f) = rs[i][f]
  <1> DEFINE some == {i \in DOMAIN rs : rs[i][f] # None}
  <1>1. some \subseteq DOMAIN rs /\ some \subseteq Nat
    BY OwnDomain
  <1>2. CASE some # {}
    <2>1. Min(some) \in some
      BY <1>1, <1>2, MinIsLeast
    <2> QED BY <1>1, <1>2, <2>1 DEF FirstPresent
  <1>3. CASE some = {}
    BY <1>3 DEF FirstPresent
  <1> QED BY <1>2, <1>3

LEMMA FirstNormsAreTexts ==
  ASSUME NEW rs, rs \in Seq(Range(rs)), \A i \in DOMAIN rs : rs[i].norms \subseteq Texts
  PROVE  FirstNorms(rs) \subseteq Texts
  <1> DEFINE some == {i \in DOMAIN rs : rs[i].norms # {}}
  <1>1. some \subseteq DOMAIN rs /\ some \subseteq Nat
    BY OwnDomain
  <1>2. CASE some # {}
    <2>1. Min(some) \in some
      BY <1>1, <1>2, MinIsLeast
    <2> QED BY <1>1, <1>2, <2>1 DEF FirstNorms
  <1>3. CASE some = {}
    BY <1>3 DEF FirstNorms
  <1> QED BY <1>2, <1>3

LEMMA GroupMechanicalsFrom ==
  ASSUME NEW sources, NEW values, Given(sources, values), NEW key,
         NEW rs, RowsFrom(rs, sources, values)
  PROVE  DOMAIN GroupMechanicals(rs, key) = Kinds
         /\ \A k \in Kinds : GroupMechanicals(rs, key)[k] \in values[k]
  <1>1. ASSUME NEW k \in Kinds
        PROVE  GroupMechanicals(rs, key)[k] \in values[k]
    <2> DEFINE some == {i \in PropertyRows(rs) :
                          /\ GroupKey(rs[i]) = key /\ PropertyField(rs[i]) = k
                          /\ rs[i].mech[k] # Blank}
    <2>1. some \subseteq DOMAIN rs /\ some \subseteq Nat
      BY OwnDomain DEF PropertyRows, RowsFrom
    <2>2. GroupMechanicals(rs, key)[k] =
            IF some = {} THEN Blank ELSE rs[Min(some)].mech[k]
      BY DEF GroupMechanicals
    <2>3. some # {} => Min(some) \in some
      BY <2>1, MinIsLeast
    <2> HIDE DEF some
    <2>4. some # {} => rs[Min(some)].mech[k] \in values[k]
      BY <2>1, <2>3 DEF RowsFrom, RowFrom
    <2> QED BY <2>2, <2>4 DEF Given
  <1> QED BY <1>1 DEF GroupMechanicals

LEMMA ClassLabelsAreTexts ==
  ASSUME NEW rs
  PROVE  ClassLabels(rs) \subseteq Texts
  BY Tokens DEF ClassLabels, ClassLabel

LEMMA HeaderTextsAreClean ==
  ASSUME NEW sources, NEW md, HeaderFrom(md, sources)
  PROVE  HeaderGrade(md) \in Clean(sources) /\ HeaderProduct(md) \in Clean(sources)
         /\ GradeHint(md) \in Clean(sources)
  <1>1. HeaderGrade(md) \in Clean(sources) /\ HeaderProduct(md) \in Clean(sources)
    BY DEF HeaderFrom, HeaderGrade, HeaderProduct, Or
  <1>2. DomainGrade(HeaderProduct(md), TRUE) \in Clean(sources)
    BY DomainGradeIsGrade, SomeCleanTexts
  <1> QED BY <1>1, <1>2 DEF GradeHint

LEMMA BlankRowFrom ==
  ASSUME NEW sources, NEW values, Given(sources, values)
  PROVE  RowFrom(BlankRow, sources, values)
  <1>1. None \in Clean(sources)
    BY SomeCleanTexts
  <1>2. IsRow(BlankRow)
    BY DEF BlankRow, IsRow, NoMechanicals, NoRowConfidence, Confidences, Kinds
  <1>3. \A f \in Ids : BlankRow[f] = None
    BY DEF BlankRow, Ids
  <1>4. BlankRow.product = None /\ BlankRow.grade = None
        /\ \A k \in Kinds : BlankRow.mech[k] = Blank
    BY DEF BlankRow, NoMechanicals
  <1> QED BY <1>1, <1>2, <1>3, <1>4 DEF RowFrom, Given

LEMMA SingleRow ==
  ASSUME NEW sources, NEW values, NEW r, RowFrom(r, sources, values)
  PROVE  RowsFrom(<<r>>, sources, values) /\ Len(<<r>>) = 1 /\ DOMAIN <<r>> = {1}
         /\ <<r>>[1] = r
  <1>1. /\ <<r>> = [i \in 1..1 |-> <<r>>[i]] /\ DOMAIN <<r>> = {1} /\ <<r>>[1] = r
    OBVIOUS
  <1>2. <<r>> \in Seq(Range(<<r>>)) /\ Len(<<r>>) = 1
    BY <1>1, OwnSequence
  <1> QED BY <1>1, <1>2 DEF RowsFrom

(* The row that stands for a table with one property in every row.         *)
LEMMA VerticalFrom ==
  ASSUME NEW sources, NEW values, Given(sources, values),
         NEW md, HeaderFrom(md, sources),
         NEW rs, RowsFrom(rs, sources, values)
  PROVE  RowsFrom(Vertical(rs, md), sources, values) /\ Len(Vertical(rs, md)) = 1
  <1> DEFINE First(f) == FirstPresent(rs, f)
             group == GroupKey(rs[Min(CompleteGroups(rs))])
             found == Or(GradeHint(md), First("grade"))
             grade == IF UsableGrade(found) THEN found ELSE GradeHint(md)
             named == IF grade = None /\ UsableGrade(First("grade"))
                      THEN First("grade") ELSE grade
             row == [BlankRow EXCEPT
                       !.heat = Or(md.heat, First("heat")),
                       !.lot = First("lot"),
                       !.cert = First("cert"),
                       !.product = Or(HeaderProduct(md), First("product")),
                       !.grade = named,
                       !.dims = Or(md.dims, First("dims")),
                       !.norms = FirstNorms(rs) \cup md.norms \cup ClassLabels(rs),
                       !.mech = GroupMechanicals(rs, group)]
  <1>1. rs \in Seq(Range(rs)) /\ \A i \in DOMAIN rs : RowFrom(rs[i], sources, values)
    BY DEF RowsFrom
  <1>2. \A f : First(f) = None \/ \E i \in DOMAIN rs : First(f) = rs[i][f]
    BY <1>1, FirstPresentIsSome
  <1>3. None \in Clean(sources) /\ Clean(sources) \subseteq Texts \cup {None}
    BY SomeCleanTexts
  <1>4. \A f \in Ids : First(f) \in sources[f]
    BY <1>1, <1>2 DEF RowFrom, Given
  <1>5. First("product") \in Clean(sources) /\ First("grade") \in Clean(sources)
        /\ First("dims") \in Texts \cup {None}
    BY <1>1, <1>2, <1>3 DEF RowFrom, IsRow
  <1>6. FirstNorms(rs) \subseteq Texts /\ ClassLabels(rs) \subseteq Texts
    BY <1>1, FirstNormsAreTexts, ClassLabelsAreTexts DEF RowFrom, IsRow
  <1>7. DOMAIN GroupMechanicals(rs, group) = Kinds
        /\ \A k \in Kinds : GroupMechanicals(rs, group)[k] \in values[k]
    BY GroupMechanicalsFrom
  <1>8. named \in Clean(sources)
    BY <1>5, HeaderTextsAreClean DEF Or
  <1>9. Or(HeaderProduct(md), First("product")) \in Clean(sources)
    BY <1>5, HeaderTextsAreClean DEF Or
  <1>10. /\ Or(md.heat, First("heat")) \in sources["heat"]
         /\ Or(md.dims, First("dims")) \in Texts \cup {None}
         /\ md.norms \subseteq Texts
    BY <1>4, <1>5 DEF Or, HeaderFrom, Ids
  <1>11. Vertical(rs, md) = <<row>>
    BY DEF Vertical
  <1> HIDE DEF First, group, found, grade, named
  <1>12. /\ DOMAIN row = DOMAIN BlankRow
         /\ row.heat = Or(md.heat, First("heat"))
         /\ row.lot = First("lot") /\ row.cert = First("cert")
         /\ row.product = Or(HeaderProduct(md), First("product"))
         /\ row.grade = named
         /\ row.dims = Or(md.dims, First("dims"))
         /\ row.norms = FirstNorms(rs) \cup md.norms \cup ClassLabels(rs)
         /\ row.mech = GroupMechanicals(rs, group)
         /\ \A f \in {"classes", "known", "verified", "outcome"} : row[f] = BlankRow[f]
    BY BlankRowFields DEF RowFields
  <1> HIDE DEF row
  <1>13. \A f \in Ids : row[f] \in sources[f]
    BY <1>4, <1>10, <1>12 DEF Ids
  <1>14. IsRow(BlankRow)
    BY BlankRowFrom DEF RowFrom
  <1>15. IsRow(row)
    <2>1. row.product \in Texts \cup {None} /\ row.grade \in Texts \cup {None}
      BY <1>3, <1>8, <1>9, <1>12
    <2>2. row.norms \cup row.classes \subseteq Texts
      BY <1>6, <1>10, <1>12, <1>14 DEF IsRow
    <2>3. \A k \in Kinds : row.mech[k] \in Nat \cup {Blank}
      BY <1>7, <1>12 DEF Given
    <2> QED BY <1>7, <1>10, <1>12, <1>14, <2>1, <2>2, <2>3 DEF IsRow
  <1>16. RowFrom(row, sources, values)
    BY <1>7, <1>8, <1>9, <1>12, <1>13, <1>15 DEF RowFrom
  <1> QED BY <1>11, <1>16, SingleRow

(* Property rows are at least two rows.                                    *)
LEMMA VerticalTablesAreLong ==
  ASSUME NEW rs, rs \in Seq(Range(rs)), VerticalTable(rs)
  PROVE  Len(rs) >= 2
  <1>1. DOMAIN rs = 1..Len(rs) /\ Len(rs) \in Nat
    BY OwnDomain
  <1>2. IsFiniteSet(1..Len(rs)) /\ Cardinality(1..Len(rs)) = Len(rs)
    <2>1. 1 \in Int /\ Len(rs) \in Int
      BY <1>1
    <2> QED BY <1>1, <2>1, FS_Interval
  <1>3. PropertyRows(rs) \subseteq 1..Len(rs)
    BY <1>1 DEF PropertyRows
  <1>4. Cardinality(PropertyRows(rs)) <= Len(rs) /\ Cardinality(PropertyRows(rs)) \in Nat
    BY <1>2, <1>3, FS_Subset, FS_CardinalityType
  <1> QED BY <1>1, <1>4 DEF VerticalTable

(* One row for alternative classes keeps the identifiers of the first.     *)
LEMMA AlternativeFrom ==
  ASSUME NEW sources, NEW values, Given(sources, values),
         NEW md, HeaderFrom(md, sources),
         NEW rs, RowsFrom(rs, sources, values), AlternativeClasses(rs)
  PROVE  RowsFrom(Alternative(rs, md), sources, values)
         /\ Len(Alternative(rs, md)) = 1 /\ Len(rs) >= 2
  <1> DEFINE own == {rs[i].grade : i \in DOMAIN rs} \ (Classes \cup {None})
             grade == Or(GradeHint(md), IF Cardinality(own) = 1
                                        THEN CHOOSE g \in own : TRUE ELSE None)
             first == rs[1]
             heat == Or(Or(md.heat, FirstPresent(rs, "heat")), first.heat)
             row == [first EXCEPT
                       !.item = None,
                       !.grade = grade,
                       !.product = Or(@, HeaderProduct(md)),
                       !.dims = Or(@, md.dims),
                       !.norms = @ \cup ClassLabels(rs) \cup md.norms,
                       !.heat = Or(Or(md.heat, FirstPresent(rs, "heat")), @),
                       !.lot = Or(@, md.lot),
                       !.cert = Or(@, md.cert)]
  <1>1. rs \in Seq(Range(rs)) /\ \A i \in DOMAIN rs : RowFrom(rs[i], sources, values)
    BY DEF RowsFrom
  <1>2. Len(rs) \in 2..4 /\ 1 \in DOMAIN rs
    BY <1>1, OwnDomain DEF AlternativeClasses
  <1>3. RowFrom(first, sources, values)
    BY <1>1, <1>2
  <1>4. None \in Clean(sources) /\ Clean(sources) \subseteq Texts \cup {None}
    BY SomeCleanTexts
  <1>5. grade \in Clean(sources)
    <2>1. own \subseteq Clean(sources)
      BY <1>1 DEF RowFrom
    <2> HIDE DEF own
    <2>2. Cardinality(own) = 1 => own # {}
      BY FS_EmptySet
    <2>3. (IF Cardinality(own) = 1 THEN CHOOSE g \in own : TRUE ELSE None)
             \in Clean(sources)
      BY <1>4, <2>1, <2>2
    <2> QED BY <2>3, HeaderTextsAreClean DEF Or
  <1>6. heat \in sources["heat"]
    <2>1. FirstPresent(rs, "heat") = None
          \/ \E i \in DOMAIN rs : FirstPresent(rs, "heat") = rs[i].heat
      BY <1>1, FirstPresentIsSome
    <2>2. FirstPresent(rs, "heat") \in sources["heat"]
      BY <1>1, <2>1 DEF RowFrom, Given, Ids
    <2> QED BY <1>3, <2>2 DEF Or, HeaderFrom, RowFrom, Ids
  <1>7. Alternative(rs, md) = <<row>>
    BY DEF Alternative
  <1> HIDE DEF grade
  <1>8. DOMAIN first = RowFields
    BY <1>3, BlankRowFields DEF RowFrom, IsRow
  <1>9. /\ DOMAIN row = RowFields
        /\ row.grade = grade /\ row.product = Or(first.product, HeaderProduct(md))
        /\ row.dims = Or(first.dims, md.dims)
        /\ row.norms = first.norms \cup ClassLabels(rs) \cup md.norms
        /\ row.heat = heat /\ row.lot = Or(first.lot, md.lot)
        /\ row.cert = Or(first.cert, md.cert)
        /\ \A f \in {"classes", "mech", "known", "verified", "outcome"} :
             row[f] = first[f]
    BY <1>8 DEF RowFields
  <1> HIDE DEF row, heat
  <1>10. \A f \in Ids : row[f] \in sources[f]
    BY <1>3, <1>6, <1>9 DEF Ids, RowFrom, HeaderFrom, Or
  <1>11. row.product \in Clean(sources)
    BY <1>3, <1>9, HeaderTextsAreClean DEF RowFrom, Or
  <1>12. row.dims \in Texts \cup {None} /\ row.norms \subseteq Texts
    BY <1>3, <1>9, ClassLabelsAreTexts DEF RowFrom, IsRow, HeaderFrom, Or
  <1>13. IsRow(row)
    <2>1. row.product \in Texts \cup {None} /\ row.grade \in Texts \cup {None}
      BY <1>4, <1>5, <1>9, <1>11
    <2> HIDE DEF first
    <2> QED BY <1>3, <1>9, <1>12, <2>1, BlankRowFields DEF RowFrom, IsRow
  <1>14. RowFrom(row, sources, values)
    BY <1>3, <1>5, <1>9, <1>10, <1>11, <1>13 DEF RowFrom
  <1> QED BY <1>2, <1>7, <1>14, SingleRow

(* The header's fields in a document of one row.                           *)
LEMMA BackfilledFrom ==
  ASSUME NEW sources, NEW values, NEW md, HeaderFrom(md, sources),
         \A f \in Ids : md.confs[f] \in Confidences,
         NEW rs, RowsFrom(rs, sources, values)
  PROVE  /\ RowsFrom(Backfilled(rs, md), sources, values)
         /\ Len(Backfilled(rs, md)) = Len(rs)
         /\ DOMAIN Backfilled(rs, md) = DOMAIN rs
         /\ \A i \in DOMAIN rs :
              rs[i].grade \in Grades => Backfilled(rs, md)[i].grade = rs[i].grade
  <1> DEFINE row == rs[1]
             Header(f) == IF row[f] = None /\ HeatLike(md[f]) THEN md[f] ELSE row[f]
             grade == IF row.grade = None /\ UsableGrade(HeaderGrade(md))
                      THEN HeaderGrade(md) ELSE row.grade
             product == IF StandardsOnly(HeaderProduct(md)) THEN row.product
                        ELSE Or(row.product, HeaderProduct(md))
             new == [row EXCEPT
                       !.known = KnownFromHeader(row, md),
                       !.heat = IF @ = None /\ HeatLike(md.heat) THEN md.heat ELSE @,
                       !.lot = IF @ = None /\ HeatLike(md.lot) THEN md.lot ELSE @,
                       !.cert = Or(@, md.cert),
                       !.grade = IF @ = None /\ UsableGrade(HeaderGrade(md))
                                 THEN HeaderGrade(md) ELSE @,
                       !.product = IF StandardsOnly(HeaderProduct(md)) THEN @
                                   ELSE Or(@, HeaderProduct(md)),
                       !.dims = Or(@, md.dims),
                       !.norms = IF @ = {} THEN md.norms ELSE @]
  <1>1. CASE Len(rs) # 1
    BY <1>1 DEF Backfilled
  <1>2. CASE Len(rs) = 1
    <2>1. DOMAIN rs = {1} /\ RowFrom(row, sources, values)
      BY <1>2, OwnDomain DEF RowsFrom
    <2>2. Backfilled(rs, md) = <<new>>
      BY <1>2 DEF Backfilled
    <2>3. DOMAIN row = RowFields
      BY <2>1, BlankRowFields DEF RowFrom, IsRow
    <2>4. /\ DOMAIN new = RowFields
          /\ new.known = KnownFromHeader(row, md)
          /\ new.heat = Header("heat") /\ new.lot = Header("lot")
          /\ new.cert = Or(row.cert, md.cert)
          /\ new.grade = grade /\ new.product = product
          /\ new.dims = Or(row.dims, md.dims)
          /\ new.norms = IF row.norms = {} THEN md.norms ELSE row.norms
          /\ \A f \in {"classes", "mech", "verified", "outcome"} : new[f] = row[f]
      BY <2>3 DEF RowFields
    <2>5. \A f \in Ids : new[f] \in sources[f]
      BY <2>1, <2>4 DEF Ids, RowFrom, HeaderFrom, Or
    <2>6. new.grade \in Clean(sources) /\ new.product \in Clean(sources)
      <3>1. row.grade \in Clean(sources) /\ row.product \in Clean(sources)
        BY <2>1 DEF RowFrom
      <3>2. grade \in Clean(sources) /\ product \in Clean(sources)
        BY <3>1, HeaderTextsAreClean DEF Or
      <3> HIDE DEF new, grade, product
      <3> QED BY <2>4, <3>2
    <2>7. row.grade \in Grades => new.grade = row.grade
      BY <2>4 DEF Grades, None
    <2> HIDE DEF new, row
    <2>8. new.known \in [RowIds -> Confidences]
      <3>1. row.known \in [RowIds -> Confidences]
        BY <2>1 DEF RowFrom, IsRow
      <3> QED BY <2>4, <3>1 DEF KnownFromHeader
    <2>9. new.dims \in Texts \cup {None} /\ new.norms \subseteq Texts
      BY <2>1, <2>4 DEF RowFrom, IsRow, HeaderFrom, Or
    <2>10. new.product \in Texts \cup {None} /\ new.grade \in Texts \cup {None}
      BY <2>6, SomeCleanTexts
    <2>11. IsRow(new)
      BY <2>1, <2>4, <2>8, <2>9, <2>10, BlankRowFields DEF RowFrom, IsRow
    <2>12. RowFrom(new, sources, values)
      BY <2>1, <2>4, <2>5, <2>6, <2>11 DEF RowFrom
    <2>13. row = rs[1]
      BY DEF row
    <2> QED BY <1>2, <2>1, <2>2, <2>7, <2>12, <2>13, SingleRow
  <1> QED BY <1>1, <1>2

(* Shaping makes one row of several or keeps them all with their grades.   *)
LEMMA ShapedFrom ==
  ASSUME NEW sources, NEW values, Given(sources, values),
         NEW md, HeaderFrom(md, sources),
         \A f \in Ids : md.confs[f] \in Confidences,
         NEW rs, RowsFrom(rs, sources, values)
  PROVE  /\ RowsFrom(Shaped(rs, md), sources, values)
         /\ \/ /\ Len(Shaped(rs, md)) = Len(rs)
               /\ \A i \in DOMAIN rs :
                    rs[i].grade \in Grades => Shaped(rs, md)[i].grade = rs[i].grade
            \/ Len(rs) >= 2 /\ Len(Shaped(rs, md)) = 1
  <1> DEFINE one == CollapsedTable(rs, md)
             two == OneRow(one, md)
  <1>1. RowsFrom(one, sources, values)
        /\ (one = rs \/ (Len(rs) >= 2 /\ Len(one) = 1))
    BY VerticalFrom, VerticalTablesAreLong DEF CollapsedTable, RowsFrom
  <1> HIDE DEF one
  <1>2. RowsFrom(two, sources, values)
        /\ (two = one \/ (Len(one) >= 2 /\ Len(two) = 1))
    BY <1>1, AlternativeFrom DEF OneRow
  <1> HIDE DEF two
  <1>3. two = rs \/ (Len(rs) >= 2 /\ Len(two) = 1)
    BY <1>1, <1>2
  <1> DEFINE new == Backfilled(two, md)
  <1>4. Shaped(rs, md) = new
    BY DEF Shaped, one, two
  <1>5. /\ RowsFrom(two, sources, values)
        /\ \A f \in Ids : md.confs[f] \in Confidences
    BY <1>2
  <1>6. /\ RowsFrom(new, sources, values) /\ Len(new) = Len(two)
        /\ \A i \in DOMAIN two : two[i].grade \in Grades => new[i].grade = two[i].grade
    BY ONLY <1>5, HeaderFrom(md, sources), BackfilledFrom
  <1> HIDE DEF new
  <1> QED BY <1>3, <1>4, <1>6

(* ------------------------------- tables ---------------------------------- *)

LEMMA CandidatesOfNumerals ==
  ASSUME NEW n, IsNumeral(n)
  PROVE  \/ Candidates(n) = <<>>
         \/ \E a, b \in Nat : Candidates(n) = <<a>> \/ Candidates(n) = <<a, b>>
  <1>1. Candidates(n) \in {<<>>, <<n.whole * 1000>>, <<n.part * 1000>>,
                           <<AsThousands(n)>>, <<AsDecimal(n)>>,
                           <<AsDecimal(n), AsThousands(n)>>}
    BY DEF Candidates
  <1>2. \A a : 1 \in DOMAIN <<a>> /\ <<a>>[1] = a
    OBVIOUS
  <1>3. \A a, b : {1, 2} \subseteq DOMAIN <<a, b>> /\ <<a, b>>[1] = a /\ <<a, b>>[2] = b
    OBVIOUS
  <1> QED BY <1>1, <1>2, <1>3 DEF IsNumeral

(* What is read of a numeral is one as well.                               *)
LEMMA ReadingIsNumeral ==
  ASSUME NEW n, IsNumeral(n), NEW kind
  PROVE  IsNumeral(ReadingOf(n, kind))
  <1>1. Candidates(Digits(n.whole)) = <<n.whole * 1000>>
    BY DEF Candidates, Digits, Numeral
  <1>2. Digits(n.whole).whole = n.whole /\ n.whole \in Nat
    BY DEF Digits, Numeral, IsNumeral
  <1>3. n.whole * 1000 \in Nat
    BY <1>2
  <1>4. IsNumeral(Digits(n.whole))
    BY <1>1, <1>2, <1>3 DEF IsNumeral
  <1> QED BY <1>4 DEF ReadingOf

(* However a numeral is read, it is read as a number or not at all.        *)
LEMMA ParseTextIsNumber ==
  ASSUME NEW n, IsNumeral(n), NEW kind
  PROVE  ParseText(n, kind).value \in Nat \cup {Blank}
  <1> DEFINE cs == Candidates(ReadingOf(n, kind))
             good == {i \in DOMAIN cs : Plausible(cs[i], kind)}
  <1>1. cs = <<>> \/ \E a, b \in Nat : cs = <<a>> \/ cs = <<a, b>>
    BY ReadingIsNumeral, CandidatesOfNumerals
  <1> DEFINE read == IF cs = <<>> THEN Parsed(Blank, TRUE, FALSE)
                     ELSE ReadAs(n, cs, good)
  <1>0. ParseText(n, kind) = read
    BY DEF ParseText
  <1>2. CASE cs = <<>>
    <2>1. read = Parsed(Blank, TRUE, FALSE)
      BY <1>2
    <2>2. Parsed(Blank, TRUE, FALSE).value = Blank
      BY DEF Parsed
    <2> HIDE DEF read
    <2> QED BY <1>0, <2>1, <2>2
  <1>3. CASE cs # <<>>
    <2>1. PICK a, b \in Nat : cs = <<a>> \/ cs = <<a, b>>
      BY <1>1, <1>3
    <2>2. /\ DOMAIN cs \subseteq Nat /\ 1 \in DOMAIN cs
          /\ \A i \in DOMAIN cs : cs[i] \in Nat
      BY <2>1
    <2>4. good \subseteq DOMAIN cs
      OBVIOUS
    <2> HIDE DEF cs, good
    <2>3. read = ReadAs(n, cs, good)
      BY <1>3
    <2>5. Best(good) \in DOMAIN cs
      BY <2>2, <2>4, MinIsLeast DEF Best
    <2>6. ReadAs(n, cs, good).value = cs[Best(good)]
      BY DEF ReadAs, Parsed
    <2> QED BY <1>0, <2>2, <2>3, <2>5, <2>6
  <1> QED BY <1>2, <1>3

(* A table whose selected cells read as values.                            *)
TableFrom(table, values) ==
  /\ \E n \in Nat : DOMAIN table \subseteq 0..n
  /\ \A i \in DOMAIN table :
       LineValue(table[i]) \in values[KindOf(table[i].label)] \cup {Blank}

LEMMA FirstOfCells ==
  ASSUME NEW cells, cells \in Seq(Range(cells)), cells # <<>>
  PROVE  cells[1] \in Range(cells)
  BY DEF Range

(* What is selected of a line stands in a column of results or another.    *)
LEMMA SelectedIsObserved ==
  ASSUME NEW line, line.results \in Seq(Range(line.results)),
         line.others \in Seq(Range(line.others)),
         Selected(line) # <<>>
  PROVE  Selected(line)[1] \in Range(line.results) \cup Range(line.others)
  <1>1. CASE line.results # <<>>
    <2>1. Selected(line)[1] = line.results[1]
      BY <1>1 DEF Selected
    <2> QED BY <1>1, <2>1, FirstOfCells
  <1>2. CASE line.results = <<>>
    <2>1. Selected(line) = IF line.others # <<>> /\ Cardinality(Readings(line.others)) <= 1
                           THEN <<line.others[1]>> ELSE <<>>
      BY <1>2 DEF Selected
    <2>2. line.others # <<>>
      BY <2>1
    <2>3. Selected(line)[1] = line.others[1]
      BY <2>1
    <2> QED BY <2>2, <2>3, FirstOfCells
  <1> QED BY <1>1, <1>2

LEMMA LastValueFrom ==
  ASSUME NEW values, NEW table, TableFrom(table, values), NEW label,
         Blank \in values[KindOf(label)]
  PROVE  LastValue(table, label) \in values[KindOf(label)]
  <1> DEFINE mine == {i \in DOMAIN table :
                        table[i].label = label /\ LineValue(table[i]) # Blank}
             vs == LineValues(table, label)
  <1>1. /\ DOMAIN vs = mine
        /\ \A i \in mine : vs[i] = LineValue(table[i])
    BY DEF LineValues
  <1>2. \A i \in mine : vs[i] \in values[KindOf(label)]
    BY <1>1 DEF TableFrom
  <1>3. PICK n \in Nat : mine \subseteq 0..n
    BY DEF TableFrom
  <1> HIDE DEF mine, vs
  <1>4. mine # {} => Max(mine) \in mine
    BY <1>3, MaxIsGreatest
  <1>5. LastValue(table, label) = Newest(vs)
    BY DEF LastValue, vs
  <1> QED BY <1>1, <1>2, <1>4, <1>5 DEF Newest

LEMMA TableMechanicalsFrom ==
  ASSUME NEW sources, NEW values, Given(sources, values),
         NEW table, TableFrom(table, values), NEW k \in Kinds
  PROVE  TableMechanicals(table)[k] \in values[k]
  <1>1. \A l \in {"yield_rp02", "yield", "tensile", "elongation"} :
          KindOf(l) \in Kinds
    BY DEF KindOf, Kinds
  <1>2. \A l \in {"yield_rp02", "yield", "tensile", "elongation"} :
          LastValue(table, l) \in values[KindOf(l)]
    BY <1>1, LastValueFrom DEF Given
  <1>3. /\ KindOf("yield_rp02") = "yield" /\ KindOf("yield") = "yield"
        /\ KindOf("tensile") = "tensile" /\ KindOf("elongation") = "elongation"
    BY DEF KindOf
  <1>4. /\ LastValue(table, "yield_rp02") \in values["yield"]
        /\ LastValue(table, "yield") \in values["yield"]
        /\ LastValue(table, "tensile") \in values["tensile"]
        /\ LastValue(table, "elongation") \in values["elongation"]
    BY <1>2, <1>3
  <1> QED BY <1>4 DEF TableMechanicals, Known, Kinds

LEMMA OverRowFrom ==
  ASSUME NEW sources, NEW values, Given(sources, values),
         NEW r, RowFrom(r, sources, values),
         NEW found, \A k \in Kinds : found[k] \in values[k], NEW doubt
  PROVE  RowFrom(OverRow(r, found, doubt), sources, values)
         /\ OverRow(r, found, doubt).grade = r.grade
  <1> DEFINE new == OverRow(r, found, doubt)
  <1>1. DOMAIN r = RowFields
    BY BlankRowFields DEF RowFrom, IsRow
  <1>2. /\ DOMAIN new = RowFields
        /\ new.mech = [k \in Kinds |-> Known(found[k], r.mech[k])]
        /\ \A f \in RowFields \ {"mech", "review"} : new[f] = r[f]
    BY <1>1 DEF OverRow, RowFields
  <1> HIDE DEF new
  <1>3. \A k \in Kinds : new.mech[k] \in values[k]
    BY <1>2 DEF Known, RowFrom
  <1>4. /\ new.heat = r.heat /\ new.lot = r.lot /\ new.cert = r.cert
        /\ new.product = r.product /\ new.grade = r.grade /\ new.dims = r.dims
        /\ new.norms = r.norms /\ new.classes = r.classes /\ new.known = r.known
        /\ new.verified = r.verified /\ new.outcome = r.outcome
    BY <1>2 DEF RowFields
  <1>5. IsRow(new)
    <2>1. \A k \in Kinds : new.mech[k] \in Nat \cup {Blank}
      BY <1>3 DEF Given
    <2>2. DOMAIN new.mech = Kinds
      BY <1>2
    <2> QED BY <1>2, <1>4, <2>1, <2>2, BlankRowFields DEF RowFrom, IsRow
  <1>6. RowFrom(new, sources, values)
    BY <1>3, <1>4, <1>5 DEF RowFrom, Ids
  <1> QED BY <1>4, <1>6 DEF new

(* The first row takes the values of the table.                            *)
LEMMA WithTableFrom ==
  ASSUME NEW sources, NEW values, Given(sources, values),
         NEW table, TableFrom(table, values),
         NEW rs, RowsFrom(rs, sources, values)
  PROVE  /\ RowsFrom(WithTable(rs, table, BlankRow), sources, values)
         /\ Len(rs) # 0 =>
              /\ Len(WithTable(rs, table, BlankRow)) = Len(rs)
              /\ \A i \in DOMAIN rs :
                   WithTable(rs, table, BlankRow)[i].grade = rs[i].grade
  <1> DEFINE found == TableMechanicals(table)
             doubt == TableUncertain(table)
  <1>1. \A k \in Kinds : found[k] \in values[k]
    BY TableMechanicalsFrom
  <1>2. /\ rs \in Seq(Range(rs)) /\ DOMAIN rs = 1..Len(rs) /\ Len(rs) \in Nat
        /\ \A i \in DOMAIN rs : RowFrom(rs[i], sources, values)
    BY OwnDomain DEF RowsFrom
  <1>3. WithTable(rs, table, BlankRow) = WithFound(rs, found, doubt, BlankRow)
    BY DEF WithTable
  <1> HIDE DEF found, doubt
  <1>4. CASE rs = <<>>
    <2>1. \/ WithTable(rs, table, BlankRow) = <<OverRow(BlankRow, found, doubt)>>
          \/ WithTable(rs, table, BlankRow) = rs
      BY <1>3, <1>4 DEF WithFound
    <2>2. RowFrom(OverRow(BlankRow, found, doubt), sources, values)
      BY <1>1, BlankRowFrom, OverRowFrom
    <2>3. Len(rs) = 0
      BY <1>4
    <2> QED BY <2>1, <2>2, <2>3, SingleRow
  <1>5. CASE rs # <<>>
    <2> DEFINE new == [rs EXCEPT ![1] = OverRow(@, found, doubt)]
    <2>1. WithTable(rs, table, BlankRow) = new
      BY <1>3, <1>5 DEF WithFound
    <2>2. 1 \in DOMAIN rs
      BY <1>2, <1>5
    <2>3. ASSUME NEW i \in DOMAIN rs
          PROVE  RowFrom(new[i], sources, values) /\ new[i].grade = rs[i].grade
      <3>1. new[i] = IF i = 1 THEN OverRow(rs[1], found, doubt) ELSE rs[i]
        BY <2>2
      <3>2. RowFrom(OverRow(rs[1], found, doubt), sources, values)
            /\ OverRow(rs[1], found, doubt).grade = rs[1].grade
        BY <1>1, <1>2, <2>2, OverRowFrom
      <3> HIDE DEF new
      <3> QED BY <1>2, <3>1, <3>2
    <2>4. new = [i \in DOMAIN rs |-> new[i]]
      OBVIOUS
    <2> HIDE DEF new
    <2>5. RowsFrom(new, sources, values) /\ Len(new) = Len(rs) /\ DOMAIN new = DOMAIN rs
      BY <1>2, <2>3, <2>4, RowByRow
    <2> QED BY <2>1, <2>3, <2>5
  <1> QED BY <1>4, <1>5

(* ------------------------- numbers and grades ---------------------------- *)

LEMMA ParseNumberIsNumber ==
  ASSUME NEW v \in Nat, NEW kind
  PROVE  /\ ParseNumber(v, kind).value \in Nat
         /\ ~Plausible(ParseNumber(v, kind).value, kind) =>
              ParseNumber(v, kind).uncertain
  <1>1. v * 1000 \in Nat
    OBVIOUS
  <1>2. CASE Plausible(v, kind) /\ ~(v % 1000 # 0 /\ Plausible(v * 1000, kind))
    BY <1>1, <1>2 DEF ParseNumber, Parsed
  <1>3. CASE ~Plausible(v, kind) /\ v % 1000 # 0 /\ Plausible(v * 1000, kind)
    BY <1>1, <1>3 DEF ParseNumber, Parsed
  <1>4. CASE Plausible(v, kind) /\ v % 1000 # 0 /\ Plausible(v * 1000, kind)
    <2>1. ParseNumber(v, kind) \in {Parsed(v, FALSE, FALSE), Parsed(v * 1000, FALSE, TRUE)}
      BY <1>4 DEF ParseNumber
    <2> QED BY <1>1, <1>4, <2>1 DEF Parsed
  <1>5. CASE ~Plausible(v, kind) /\ ~(v % 1000 # 0 /\ Plausible(v * 1000, kind))
    BY <1>1, <1>5 DEF ParseNumber, Parsed
  <1> QED BY <1>2, <1>3, <1>4, <1>5

ParsedValues(values) ==
  [k \in Kinds |-> {Blank} \cup {ParseNumber(w, k).value : w \in values[k] \ {Blank}}]

LEMMA GivenParsed ==
  ASSUME NEW sources, NEW values, Given(sources, values)
  PROVE  Given(sources, ParsedValues(values))
  <1>1. ASSUME NEW k \in Kinds
        PROVE  /\ Blank \in ParsedValues(values)[k]
               /\ ParsedValues(values)[k] \subseteq Nat \cup {Blank}
    <2>1. \A w \in values[k] \ {Blank} : ParseNumber(w, k).value \in Nat
      BY ParseNumberIsNumber DEF Given
    <2> QED BY <2>1 DEF ParsedValues
  <1> QED BY <1>1 DEF Given

(* What is made of a row when its values are parsed.                       *)
Read(rs) ==
  [i \in DOMAIN rs |->
     [Labelling(rs)[i] EXCEPT !.mech = ParsedMechanicals(@)]]

LEMMA LabellingKeeps ==
  ASSUME NEW rs, NEW i \in DOMAIN rs, DOMAIN rs[i] = RowFields
  PROVE  DOMAIN Labelling(rs) = DOMAIN rs /\ DOMAIN Labelling(rs)[i] = RowFields
         /\ \A f \in RowFields \ {"provenance"} : Labelling(rs)[i][f] = rs[i][f]
  BY DEF Labelling, RowFields

LEMMA ReadRow ==
  ASSUME NEW sources, NEW values, Given(sources, values),
         NEW rs, RowsFrom(rs, sources, values), NEW i \in DOMAIN rs
  PROVE  /\ RowFrom(Read(rs)[i], sources, ParsedValues(values))
         /\ Read(rs)[i].grade = rs[i].grade
         /\ \A k \in Kinds :
              Read(rs)[i].mech[k] # Blank /\ ~Plausible(Read(rs)[i].mech[k], k) =>
                <<"numeric_uncertain", k>> \in NumericTokens(rs[i].mech)
  <1> DEFINE row == rs[i]
             new == Read(rs)[i]
  <1>1. RowFrom(row, sources, values)
    BY DEF RowsFrom
  <1>2. DOMAIN row = RowFields
    BY <1>1, BlankRowFields DEF RowFrom, IsRow
  <1>3. /\ DOMAIN Labelling(rs)[i] = RowFields
        /\ \A f \in RowFields \ {"provenance"} : Labelling(rs)[i][f] = row[f]
    BY <1>2, LabellingKeeps
  <1>4. /\ DOMAIN new = RowFields
        /\ new.mech = ParsedMechanicals(row.mech)
        /\ \A f \in RowFields \ {"mech", "provenance"} : new[f] = row[f]
    <2>1. new = [Labelling(rs)[i] EXCEPT !.mech = ParsedMechanicals(@)]
      BY DEF Read
    <2> HIDE DEF new, row
    <2> QED BY <1>3, <2>1 DEF RowFields
  <1> HIDE DEF new, row
  <1>5. /\ new.heat = row.heat /\ new.lot = row.lot /\ new.cert = row.cert
        /\ new.product = row.product /\ new.grade = row.grade /\ new.dims = row.dims
        /\ new.norms = row.norms /\ new.classes = row.classes
        /\ new.known = row.known /\ new.verified = row.verified
        /\ new.outcome = row.outcome
    BY <1>4 DEF RowFields
  <1>6. ASSUME NEW k \in Kinds
        PROVE  /\ new.mech[k] \in ParsedValues(values)[k]
               /\ new.mech[k] # Blank /\ ~Plausible(new.mech[k], k) =>
                    <<"numeric_uncertain", k>> \in NumericTokens(row.mech)
    <2>1. new.mech[k] = IF row.mech[k] = Blank THEN Blank
                        ELSE ParseNumber(row.mech[k], k).value
      BY <1>4 DEF ParsedMechanicals
    <2>2. row.mech[k] \in values[k]
      BY <1>1 DEF RowFrom
    <2>3. CASE row.mech[k] = Blank
      BY <2>1, <2>3 DEF ParsedValues
    <2>4. CASE row.mech[k] # Blank
      <3>1. row.mech[k] \in Nat
        BY <2>2, <2>4 DEF Given
      <3>2. ~Plausible(new.mech[k], k) => ParseNumber(row.mech[k], k).uncertain
        BY <2>1, <2>4, <3>1, ParseNumberIsNumber
      <3>3. ParseNumber(row.mech[k], k).uncertain =>
              <<"numeric_uncertain", k>> \in NumericTokens(row.mech)
        BY <2>4 DEF NumericTokens
      <3>4. new.mech[k] \in ParsedValues(values)[k]
        BY <2>1, <2>2, <2>4 DEF ParsedValues
      <3> QED BY <3>2, <3>3, <3>4
    <2> QED BY <2>3, <2>4
  <1>7. IsRow(new)
    <2>1. \A k \in Kinds : new.mech[k] \in Nat \cup {Blank}
      BY <1>6, GivenParsed DEF Given
    <2>2. DOMAIN new.mech = Kinds
      BY <1>4 DEF ParsedMechanicals
    <2> QED BY <1>1, <1>4, <1>5, <2>1, <2>2, BlankRowFields DEF RowFrom, IsRow
  <1>8. RowFrom(new, sources, ParsedValues(values))
    BY <1>1, <1>5, <1>6, <1>7 DEF RowFrom, Ids
  <1> QED BY <1>5, <1>6, <1>8 DEF new, row

LEMMA PropagatedRow ==
  ASSUME NEW sources, NEW values, NEW rs, RowsFrom(rs, sources, values),
         NEW grade, NEW p, NEW i \in DOMAIN rs
  PROVE  /\ RowFrom(Propagated(rs, grade, p)[i], sources, values)
         /\ Propagated(rs, grade, p)[i].mech = rs[i].mech
  <1> DEFINE row == rs[i]
             new == [row EXCEPT !.grade = ResolveGrade(grade).canonical,
                                !.provenance = Or(@, p)]
  <1>1. RowFrom(row, sources, values)
    BY DEF RowsFrom
  <1>2. Reads(row, sources)
    BY <1>1, RowReads
  <1>3. CASE Propagated(rs, grade, p)[i] = row
    BY <1>1, <1>3
  <1>4. CASE Propagated(rs, grade, p)[i] # row
    <2>1. Propagated(rs, grade, p)[i] = new /\ row.grade = None
      BY <1>4 DEF Propagated
    <2>2. ResolveGrade(grade).canonical \in Clean(sources)
      BY CanonicalIsGrade, SomeCleanTexts
    <2>3. row.grade \notin Grades
      BY <2>1 DEF Grades, None
    <2> HIDE DEF row
    <2>4. Retells(new, row, sources)
      BY <1>2, <2>2, <2>3 DEF Retells, Reads, RowFields
    <2> HIDE DEF new
    <2>5. new.mech = row.mech
      BY <2>4 DEF Retells
    <2>6. RowFrom(new, sources, values)
      BY <1>1, <2>4, RetoldRow
    <2> QED BY <2>1, <2>5, <2>6 DEF row
  <1> QED BY <1>3, <1>4

(* _apply_numeric_parser and propagate_to_rows: no value gets through      *)
(* implausible and undoubted.                                              *)
LEMMA NormalizedFrom ==
  ASSUME NEW sources, NEW values, Given(sources, values),
         NEW rs, RowsFrom(rs, sources, values), NEW grade, NEW p
  PROVE  /\ RowsFrom(Propagated(Read(rs), grade, p), sources, ParsedValues(values))
         /\ Len(Propagated(Read(rs), grade, p)) = Len(rs)
         /\ DoubtsReported(Propagated(Read(rs), grade, p),
                           UNION {NumericTokens(rs[i].mech) : i \in DOMAIN rs})
  <1> DEFINE read == Read(rs)
             new == Propagated(read, grade, p)
  <1>1. rs \in Seq(Range(rs)) /\ DOMAIN read = DOMAIN rs
    BY DEF RowsFrom, Read
  <1>2. read = [i \in DOMAIN rs |-> read[i]]
    BY DEF Read
  <1>3. \A i \in DOMAIN rs : RowFrom(read[i], sources, ParsedValues(values))
    BY ReadRow
  <1> HIDE DEF read
  <1>4. RowsFrom(read, sources, ParsedValues(values)) /\ Len(read) = Len(rs)
    BY <1>1, <1>2, <1>3, RowByRow
  <1>5. \A i \in DOMAIN rs :
          RowFrom(new[i], sources, ParsedValues(values)) /\ new[i].mech = read[i].mech
    BY <1>1, <1>4, PropagatedRow
  <1>6. new = [i \in DOMAIN read |-> new[i]]
    BY <1>1, <1>2 DEF Propagated
  <1>7. read \in Seq(Range(read))
    BY <1>4 DEF RowsFrom
  <1> HIDE DEF new
  <1>8. RowsFrom(new, sources, ParsedValues(values)) /\ Len(new) = Len(rs)
        /\ DOMAIN new = DOMAIN rs
    <2>1. \A i \in DOMAIN read : RowFrom(new[i], sources, ParsedValues(values))
      BY <1>1, <1>5
    <2>2. /\ RowsFrom(new, sources, ParsedValues(values))
          /\ Len(new) = Len(read) /\ DOMAIN new = DOMAIN read
      BY <1>6, <1>7, <2>1, RowByRow
    <2> QED BY <1>1, <1>4, <2>2
  <1>9. ASSUME NEW i \in DOMAIN rs, NEW k \in Kinds,
               new[i].mech[k] # Blank, ~Plausible(new[i].mech[k], k)
        PROVE  <<"numeric_uncertain", k>> \in
                 UNION {NumericTokens(rs[j].mech) : j \in DOMAIN rs}
    <2>1. new[i].mech[k] = Read(rs)[i].mech[k]
      BY <1>5 DEF read
    <2>2. <<"numeric_uncertain", k>> \in NumericTokens(rs[i].mech)
      BY <1>9, <2>1, ReadRow
    <2> QED BY <2>2
  <1>10. DoubtsReported(new, UNION {NumericTokens(rs[i].mech) : i \in DOMAIN rs})
    BY <1>8, <1>9 DEF DoubtsReported
  <1> QED BY <1>8, <1>10 DEF new, read

(* A grade of the header that differs from a row's own is found.           *)
LEMMA ConflictIsFound ==
  ASSUME NEW md, md.headerGrade \in Grades,
         NEW rs, NEW i \in DOMAIN rs, DOMAIN rs[i] = RowFields,
         rs[i].grade \in Grades, rs[i].grade # md.headerGrade
  PROVE  i \in GradeConflicts(Labelling(rs), PropagatedGrade(md))
  <1>1. md.headerGrade # None /\ rs[i].grade # None
    BY DEF Grades, None
  <1>2. PropagatedGrade(md) = md.headerGrade
    BY <1>1 DEF PropagatedGrade, HeaderGrade, Or
  <1>3. Propagates(md.headerGrade) /\ Resolves(rs[i].grade)
        /\ ResolveGrade(md.headerGrade).canonical = md.headerGrade
        /\ ResolveGrade(rs[i].grade).canonical = rs[i].grade
    BY <1>1, GradesNameThemselves DEF Propagates
  <1>4. DOMAIN Labelling(rs) = DOMAIN rs /\ Labelling(rs)[i].grade = rs[i].grade
    BY LabellingKeeps DEF RowFields
  <1> QED BY <1>1, <1>2, <1>3, <1>4 DEF GradeConflicts

(* --------------------------- labelled texts ------------------------------ *)

HeaderFields ==
  {"heat", "lot", "cert", "headerGrade", "grade", "description", "product", "dims",
   "norms", "remark", "confs", "date", "dates", "rope", "unclear"}

LEMMA BlankHeaderFields == DOMAIN BlankHeader = HeaderFields
  BY DEF BlankHeader, HeaderFields

(* Labels that tell of the sources, of a product or a grade, or of a date. *)
TellsOf(l, sources) ==
  \/ l[1] \in Ids /\ l[2] \in sources[l[1]]
  \/ l[1] = "product" /\ l[2] = "plate"
  \/ l[1] = "grade" /\ l[2] \in Grades
  \/ l[1] = "date"

LEMMA CleanTextsTell ==
  ASSUME NEW sources, NEW t \in Clean(sources), NEW l \in Labelled(t)
  PROVE  TellsOf(l, sources)
  <1>1. CASE l[1] \in Ids
    <2>1. l[2] \in LabelledValues(t, l[1])
      BY DEF LabelledValues
    <2> QED BY <1>1, <2>1 DEF Clean, TellsOf
  <1>2. CASE l[1] \notin Ids
    <2>1. l \in {<<"grade", "304l">>, <<"product", "plate">>}
      BY <1>2 DEF Labelled, Ids
    <2> QED BY <2>1 DEF TellsOf, Grades
  <1> QED BY <1>1, <1>2

(* apply_labeled_identifiers of one text.                                  *)
LEMMA ApplyTextFrom ==
  ASSUME NEW p, NEW labels, NEW f \in DOMAIN p
  PROVE  /\ ApplyText(p, labels)[f] \in {None, p[f]} \cup ValuesOf(labels, f)
         /\ ValuesOf(labels, f) = {} => ApplyText(p, labels)[f] = p[f]
  <1> DEFINE bad == Conflicting(labels)
             cleared == [g \in DOMAIN p |-> IF g \in bad THEN None ELSE p[g]]
             left == {l \in labels : l[1] \notin bad}
             usable == {l \in left : l[1] = f /\ Takes(cleared, l)}
  <1>1. ApplyText(p, labels) = Taken(cleared, left)
    BY DEF ApplyText
  <1>2. Taken(cleared, left)[f] =
          IF usable = {} THEN cleared[f] ELSE (CHOOSE l \in usable : TRUE)[2]
    BY DEF Taken
  <1>3. cleared[f] \in {None, p[f]}
    OBVIOUS
  <1>4. \A l \in usable : l[2] \in ValuesOf(labels, f)
    BY DEF ValuesOf
  <1>5. ValuesOf(labels, f) = {} => cleared[f] = p[f]
    BY DEF Conflicting, ValuesOf
  <1> HIDE DEF cleared, left, usable
  <1>6. usable # {} => (CHOOSE l \in usable : TRUE) \in usable
    OBVIOUS
  <1> QED BY <1>1, <1>2, <1>3, <1>4, <1>5, <1>6

LEMMA ApplyTextFields ==
  ASSUME NEW p, NEW labels
  PROVE  DOMAIN ApplyText(p, labels) = DOMAIN p
  BY DEF ApplyText, Taken

LEMMA ToldValues ==
  ASSUME NEW sources, NEW labels, \A l \in labels : TellsOf(l, sources)
  PROVE  /\ \A f \in Ids : ValuesOf(labels, f) \subseteq sources[f]
         /\ ValuesOf(labels, "product") \subseteq {"plate"}
         /\ ValuesOf(labels, "grade") \subseteq Grades
         /\ \A f \in HeaderFields \cup RowFields :
              f \notin Ids \cup {"product", "grade", "date"} =>
                ValuesOf(labels, f) = {}
  <1>1. ASSUME NEW l \in labels
        PROVE  l[1] \in Ids \cup {"product", "grade", "date"}
               /\ (l[1] \in Ids => l[2] \in sources[l[1]])
               /\ (l[1] = "product" => l[2] = "plate")
               /\ (l[1] = "grade" => l[2] \in Grades)
    BY DEF TellsOf, Ids
  <1> QED BY <1>1 DEF ValuesOf

(* A text of the header and the header after it.                           *)
LEMMA HeaderTextFrom ==
  ASSUME NEW sources, \A f \in Ids : None \in sources[f],
         NEW md, HeaderFrom(md, sources),
         NEW labels, \A l \in labels : TellsOf(l, sources)
  PROVE  LET new == ApplyHeaderText(md, labels)
         IN /\ HeaderFrom(new, sources)
            /\ \A f \in HeaderFields :
                 f \notin Ids \cup {"product", "grade", "date", "confs"} =>
                   new[f] = md[f]
            /\ ConfidencesRead(md, sources) => ConfidencesRead(new, sources)
            /\ \A f \in {"product", "grade"} :
                 new[f] # None => md[f] # None \/ ValuesOf(labels, f) # {}
  <1> DEFINE text == ApplyText(md, labels)
             new == ApplyHeaderText(md, labels)
             confs == [f \in IdOrDate |->
                         IF f \in Conflicting(labels) THEN None
                         ELSE IF md[f] = None /\ text[f] # None THEN "set"
                              ELSE text.confs[f]]
  <1>1. DOMAIN md = HeaderFields
    BY BlankHeaderFields DEF HeaderFrom
  <1>2. DOMAIN text = HeaderFields
    BY <1>1, ApplyTextFields
  <1>3. \A f \in HeaderFields :
          /\ text[f] \in {None, md[f]} \cup ValuesOf(labels, f)
          /\ ValuesOf(labels, f) = {} => text[f] = md[f]
    BY <1>1, ApplyTextFrom
  <1>4. \A f \in HeaderFields :
          f \notin Ids \cup {"product", "grade", "date"} => text[f] = md[f]
    BY <1>3, ToldValues
  <1>5. new = [text EXCEPT !.confs = confs]
    BY DEF ApplyHeaderText
  <1> HIDE DEF new, text
  <1>6. DOMAIN new = HeaderFields /\ new.confs = confs
        /\ \A f \in HeaderFields \ {"confs"} : new[f] = text[f]
    BY <1>2, <1>5 DEF HeaderFields
  <1>7. ASSUME NEW f \in Ids PROVE new[f] \in sources[f]
    <2>1. f \in HeaderFields \ {"confs"}
      BY DEF Ids, HeaderFields
    <2>2. md[f] \in sources[f] /\ None \in sources[f] /\ ValuesOf(labels, f) \subseteq sources[f]
      BY ToldValues DEF HeaderFrom
    <2> QED BY <1>3, <1>6, <2>1, <2>2
  <1>8. new.product \in Clean(sources) /\ new.grade \in Clean(sources)
    <2>1. md.product \in Clean(sources) /\ md.grade \in Clean(sources)
      BY DEF HeaderFrom
    <2>2. {None, "plate"} \cup Grades \subseteq Clean(sources)
      BY SomeCleanTexts
    <2>3. new.product = text.product /\ new.grade = text.grade
      BY <1>6 DEF HeaderFields
    <2> QED BY <1>3, <2>1, <2>2, <2>3, ToldValues DEF HeaderFields
  <1>9. \A f \in HeaderFields :
          f \notin Ids \cup {"product", "grade", "date", "confs"} => new[f] = md[f]
    BY <1>4, <1>6
  <1>10. /\ new.headerGrade = md.headerGrade /\ new.description = md.description
         /\ new.dims = md.dims /\ new.norms = md.norms /\ new.remark = md.remark
    BY <1>9 DEF HeaderFields, Ids
  <1>11. DOMAIN new.confs = IdOrDate
    BY <1>6
  <1>12. HeaderFrom(new, sources)
    BY <1>6, <1>7, <1>8, <1>10, <1>11, BlankHeaderFields DEF HeaderFrom
  <1>13. ASSUME ConfidencesRead(md, sources) PROVE ConfidencesRead(new, sources)
    <2>1. text.confs = md.confs
      BY <1>4 DEF HeaderFields, Ids
    <2>2. \A f \in Ids : new.confs[f] \in {None, "set", md.confs[f]}
      BY <1>6, <2>1 DEF IdOrDate
    <2> QED BY <1>13, <2>2 DEF ConfidencesRead, None
  <1>14. \A f \in {"product", "grade"} :
           new[f] # None => md[f] # None \/ ValuesOf(labels, f) # {}
    <2>1. new.product = text.product /\ new.grade = text.grade
      BY <1>6 DEF HeaderFields
    <2> QED BY <1>3, <2>1 DEF HeaderFields
  <1> QED BY <1>9, <1>12, <1>13, <1>14 DEF new

(* ----------------------------- finalization ------------------------------ *)

LEMMA ConfidencesTell ==
  ASSUME NEW sources, NEW md, ConfidencesRead(md, sources),
         NEW l \in ConfidenceLabels(md.confs)
  PROVE  TellsOf(l, sources) /\ l[1] # "product" /\ l[1] # "grade"
  <1>1. l = <<"date", "confidence">>
        \/ \E f \in Ids : l = <<f, ConfidenceText(f)>>
                          /\ ConfidenceText(f) \in sources[f]
    BY DEF ConfidenceLabels, ConfidencesRead
  <1> QED BY <1>1 DEF TellsOf, Ids

(* The texts of a header, one after the other.                             *)
LEMMA AppliedHeaderFrom ==
  ASSUME NEW sources, \A f \in Ids : None \in sources[f],
         NEW md, HeaderFrom(md, sources), ConfidencesRead(md, sources),
         md.product = None, md.grade = None
  PROVE  LET new == AppliedToHeader(md)
         IN /\ HeaderFrom(new, sources) /\ ConfidencesRead(new, sources)
            /\ TakenFromTexts(new)
            /\ new.headerGrade = md.headerGrade
            /\ new.description = md.description /\ new.rope = md.rope
  <1> DEFINE kept(new) ==
               /\ new.headerGrade = md.headerGrade
               /\ new.description = md.description
               /\ new.remark = md.remark /\ new.rope = md.rope
             good(new) == HeaderFrom(new, sources) /\ ConfidencesRead(new, sources)
                            /\ kept(new)
             texts == Labelled(md.headerGrade) \cup Labelled(md.description)
             taken(new) == /\ new.product # None => ValuesOf(texts, "product") # {}
                           /\ new.grade # None =>
                                ValuesOf(texts \cup RemarkLabels(md), "grade") # {}
             a == ApplyHeaderText(md, DateTexts(md))
             b == ApplyHeaderText(a, Labelled(md.headerGrade))
             c == ApplyHeaderText(b, Labelled(md.description))
             d == ApplyHeaderText(c, RemarkLabels(md))
             e == ApplyHeaderText(d, ConfidenceLabels(md.confs))
  <1>1. ASSUME NEW old, good(old), taken(old),
               NEW labels, \A l \in labels : TellsOf(l, sources),
               ValuesOf(labels, "product") # {} => ValuesOf(texts, "product") # {},
               ValuesOf(labels, "grade") # {} =>
                 ValuesOf(texts \cup RemarkLabels(md), "grade") # {}
        PROVE  good(ApplyHeaderText(old, labels)) /\ taken(ApplyHeaderText(old, labels))
    <2> DEFINE new == ApplyHeaderText(old, labels)
    <2>1. /\ HeaderFrom(new, sources) /\ ConfidencesRead(new, sources)
          /\ \A f \in HeaderFields :
               f \notin Ids \cup {"product", "grade", "date", "confs"} =>
                 new[f] = old[f]
          /\ \A f \in {"product", "grade"} :
               new[f] # None => old[f] # None \/ ValuesOf(labels, f) # {}
      BY <1>1, HeaderTextFrom
    <2> HIDE DEF new
    <2>2. kept(new)
      BY <1>1, <2>1 DEF HeaderFields, Ids
    <2>3. taken(new)
      BY <1>1, <2>1
    <2> QED BY <2>1, <2>2, <2>3 DEF new
  <1>2. good(md) /\ taken(md)
    OBVIOUS
  <1>3. ASSUME NEW labels, NEW f, NEW more, labels \subseteq more,
               ValuesOf(labels, f) # {}
        PROVE  ValuesOf(more, f) # {}
    BY <1>3 DEF ValuesOf
  <1>4. md.headerGrade \in Clean(sources) /\ md.description \in Clean(sources)
        /\ md.remark \in Grades \cup {None}
    BY DEF HeaderFrom
  <1>5. Labelled(md.headerGrade) \subseteq texts /\ Labelled(md.description) \subseteq texts
        /\ texts \subseteq texts \cup RemarkLabels(md)
        /\ RemarkLabels(md) \subseteq texts \cup RemarkLabels(md)
    OBVIOUS
  <1>6. \A l \in Labelled(md.headerGrade) \cup Labelled(md.description) : TellsOf(l, sources)
    BY <1>4, CleanTextsTell
  <1>7. /\ \A l \in DateTexts(md) : TellsOf(l, sources)
        /\ ValuesOf(DateTexts(md), "product") = {} /\ ValuesOf(DateTexts(md), "grade") = {}
    BY DEF DateTexts, TellsOf, ValuesOf
  <1>8. /\ \A l \in RemarkLabels(md) : TellsOf(l, sources)
        /\ ValuesOf(RemarkLabels(md), "product") = {}
    BY <1>4 DEF RemarkLabels, TellsOf, ValuesOf
  <1>9. /\ \A l \in ConfidenceLabels(md.confs) : TellsOf(l, sources)
        /\ ValuesOf(ConfidenceLabels(md.confs), "product") = {}
        /\ ValuesOf(ConfidenceLabels(md.confs), "grade") = {}
    BY ConfidencesTell DEF ValuesOf
  <1> HIDE DEF good, taken, texts
  <1>10. good(a) /\ taken(a)
    BY <1>1, <1>2, <1>7
  <1>11. good(b) /\ taken(b)
    <2>1. ValuesOf(Labelled(md.headerGrade), "product") # {} =>
            ValuesOf(texts, "product") # {}
      BY <1>3, <1>5
    <2>2. ValuesOf(Labelled(md.headerGrade), "grade") # {} =>
            ValuesOf(texts \cup RemarkLabels(md), "grade") # {}
      BY <1>3, <1>5
    <2> HIDE DEF a
    <2> QED BY <1>1, <1>6, <1>10, <2>1, <2>2
  <1>12. good(c) /\ taken(c)
    <2>1. ValuesOf(Labelled(md.description), "product") # {} =>
            ValuesOf(texts, "product") # {}
      BY <1>3, <1>5
    <2>2. ValuesOf(Labelled(md.description), "grade") # {} =>
            ValuesOf(texts \cup RemarkLabels(md), "grade") # {}
      BY <1>3, <1>5
    <2> HIDE DEF b
    <2> QED BY <1>1, <1>6, <1>11, <2>1, <2>2
  <1>13. good(d) /\ taken(d)
    <2>1. ValuesOf(RemarkLabels(md), "grade") # {} =>
            ValuesOf(texts \cup RemarkLabels(md), "grade") # {}
      BY <1>3, <1>5
    <2> HIDE DEF c
    <2> QED BY <1>1, <1>8, <1>12, <2>1
  <1>14. good(e) /\ taken(e)
    <2> HIDE DEF d
    <2> QED BY <1>1, <1>9, <1>13
  <1>15. AppliedToHeader(md) = e
    BY DEF AppliedToHeader
  <1> HIDE DEF e
  <1>16. TakenFromTexts(e)
    <2>1. RemarkLabels(e) = RemarkLabels(md)
      BY <1>14 DEF good, RemarkLabels
    <2> QED BY <1>14, <2>1 DEF good, taken, texts, TakenFromTexts
  <1> QED BY <1>14, <1>15, <1>16 DEF good

LEMMA AppliedRowFrom ==
  ASSUME NEW sources, NEW values, Given(sources, values),
         NEW r, RowFrom(r, sources, values)
  PROVE  RowFrom(AppliedToRow(r), sources, values) /\ AppliedToRow(r).mech = r.mech
  <1> DEFINE new == AppliedToRow(r)
             labels == RowLabels(r)
  <1>1. DOMAIN r = RowFields /\ DOMAIN new = RowFields
    BY BlankRowFields, ApplyTextFields DEF RowFrom, IsRow, AppliedToRow
  <1>2. \A l \in labels : TellsOf(l, sources)
    BY CleanTextsTell DEF RowFrom, RowLabels
  <1>3. \A f \in RowFields :
          /\ new[f] \in {None, r[f]} \cup ValuesOf(labels, f)
          /\ ValuesOf(labels, f) = {} => new[f] = r[f]
    BY <1>1, ApplyTextFrom DEF AppliedToRow
  <1>4. \A f \in RowFields :
          f \notin Ids \cup {"product", "grade", "date"} => new[f] = r[f]
    BY <1>2, <1>3, ToldValues
  <1> HIDE DEF new, labels
  <1>5. /\ new.dims = r.dims /\ new.norms = r.norms /\ new.classes = r.classes
        /\ new.mech = r.mech /\ new.known = r.known /\ new.verified = r.verified
        /\ new.outcome = r.outcome
    BY <1>4 DEF RowFields, Ids
  <1>6. ASSUME NEW f \in Ids PROVE new[f] \in sources[f]
    <2>1. f \in RowFields
      BY DEF Ids, RowFields
    <2>2. r[f] \in sources[f] /\ None \in sources[f] /\ ValuesOf(labels, f) \subseteq sources[f]
      BY <1>2, ToldValues DEF RowFrom, Given
    <2> QED BY <1>3, <2>1, <2>2
  <1>7. new.product \in Clean(sources) /\ new.grade \in Clean(sources)
    <2>1. r.product \in Clean(sources) /\ r.grade \in Clean(sources)
      BY DEF RowFrom
    <2>2. {None, "plate"} \cup Grades \subseteq Clean(sources)
      BY SomeCleanTexts
    <2> QED BY <1>2, <1>3, <2>1, <2>2, ToldValues DEF RowFields
  <1>8. IsRow(new)
    BY <1>1, <1>5, <1>7, SomeCleanTexts, BlankRowFields DEF RowFrom, IsRow
  <1> QED BY <1>5, <1>6, <1>7, <1>8 DEF RowFrom, new

(* promote_unique_header_fields *)
LEMMA PromotedFrom ==
  ASSUME NEW sources, NEW values, NEW md, HeaderFrom(md, sources),
         NEW rs, RowsFrom(rs, sources, values)
  PROVE  /\ HeaderFrom(Promoted(md, rs), sources)
         /\ \A f \in HeaderFields \ Ids : Promoted(md, rs)[f] = md[f]
  <1> DEFINE new == Promoted(md, rs)
  <1>1. DOMAIN md = HeaderFields /\ DOMAIN new = HeaderFields
    BY BlankHeaderFields DEF HeaderFrom, Promoted
  <1>2. \A f \in HeaderFields \ Ids : new[f] = md[f]
    BY <1>1 DEF Promoted
  <1>3. ASSUME NEW f \in Ids PROVE new[f] \in sources[f]
    <2>1. f \in HeaderFields
      BY DEF Ids, HeaderFields
    <2>2. CASE md[f] = None /\ Cardinality(RowValues(rs, f)) = 1
      <3>1. RowValues(rs, f) # {}
        BY <2>2, FS_EmptySet
      <3>2. RowValues(rs, f) \subseteq sources[f]
        BY DEF RowValues, RowsFrom, RowFrom
      <3>3. new[f] = CHOOSE v \in RowValues(rs, f) : TRUE
        BY <1>1, <2>1, <2>2 DEF Promoted
      <3> QED BY <3>1, <3>2, <3>3
    <2>3. CASE ~ (md[f] = None /\ Cardinality(RowValues(rs, f)) = 1)
      <3>1. new[f] = md[f]
        BY <1>1, <2>1, <2>3 DEF Promoted
      <3> QED BY <3>1 DEF HeaderFrom
    <2> QED BY <2>2, <2>3
  <1> HIDE DEF new
  <1>4. /\ new.headerGrade = md.headerGrade /\ new.description = md.description
        /\ new.product = md.product /\ new.grade = md.grade /\ new.dims = md.dims
        /\ new.norms = md.norms /\ new.remark = md.remark /\ new.confs = md.confs
    BY <1>2 DEF HeaderFields, Ids
  <1>5. HeaderFrom(new, sources)
    BY <1>1, <1>3, <1>4, BlankHeaderFields DEF HeaderFrom
  <1> QED BY <1>2, <1>5 DEF new

(* _assign_sequential_item_ids *)
LEMMA NumberedFields ==
  ASSUME NEW rs, NEW i \in DOMAIN rs, DOMAIN rs[i] = RowFields
  PROVE  DOMAIN Numbered(rs)[i] = RowFields
         /\ \A f \in RowFields \ {"item"} : Numbered(rs)[i][f] = rs[i][f]
  BY DEF Numbered, RowFields

LEMMA NumberedFrom ==
  ASSUME NEW sources, NEW values, NEW rs, RowsFrom(rs, sources, values)
  PROVE  /\ RowsFrom(Numbered(rs), sources, values)
         /\ Len(Numbered(rs)) = Len(rs) /\ DOMAIN Numbered(rs) = DOMAIN rs
  <1>1. ASSUME NEW i \in DOMAIN rs PROVE RowFrom(Numbered(rs)[i], sources, values)
    <2>1. RowFrom(rs[i], sources, values)
      BY DEF RowsFrom
    <2>2. DOMAIN rs[i] = RowFields
      BY <2>1, BlankRowFields DEF RowFrom, IsRow
    <2>3. /\ DOMAIN Numbered(rs)[i] = RowFields
          /\ \A f \in RowFields \ {"item"} : Numbered(rs)[i][f] = rs[i][f]
      BY <2>2, NumberedFields
    <2>4. /\ \A f \in Ids : Numbered(rs)[i][f] = rs[i][f]
          /\ Numbered(rs)[i].mech = rs[i].mech
      BY <2>3 DEF RowFields, Ids
    <2>5. IsRow(Numbered(rs)[i])
      BY <2>1, <2>3, BlankRowFields DEF RowFrom, IsRow, RowFields
    <2>6. /\ Numbered(rs)[i].product = rs[i].product /\ Numbered(rs)[i].grade = rs[i].grade
      BY <2>3 DEF RowFields
    <2> QED BY <2>1, <2>4, <2>5, <2>6 DEF RowFrom
  <1>2. Numbered(rs) = [i \in DOMAIN rs |-> Numbered(rs)[i]]
    BY DEF Numbered
  <1>3. rs \in Seq(Range(rs))
    BY DEF RowsFrom
  <1> QED BY <1>1, <1>2, <1>3, RowByRow

(* finalize_extraction_fields *)
LEMMA FinalizedFrom ==
  ASSUME NEW sources, NEW values, Given(sources, values),
         NEW md, HeaderFrom(md, sources), ConfidencesRead(md, sources),
         md.product = None, md.grade = None,
         NEW rs, RowsFrom(rs, sources, values)
  PROVE  LET final == Finalized(md, rs)
         IN /\ HeaderFrom(final.metadata, sources)
            /\ ConfidencesRead(final.metadata, sources)
            /\ TakenFromTexts(final.metadata)
            /\ final.metadata.headerGrade = md.headerGrade
            /\ final.metadata.description = md.description
            /\ final.metadata.rope = md.rope
            /\ RowsFrom(final.rows, sources, values)
            /\ Len(final.rows) = Len(rs) /\ DOMAIN final.rows = DOMAIN rs
            /\ \A i \in DOMAIN rs : final.rows[i].mech = rs[i].mech
  <1> DEFINE dated == [md EXCEPT !.date = CertificateDate(md)]
             head == AppliedToHeader(dated)
             applied == [i \in DOMAIN rs |-> AppliedToRow(rs[i])]
             mapped == Mapped(applied, head)
             final == Finalized(md, rs)
  <1>1. /\ HeaderFrom(dated, sources) /\ ConfidencesRead(dated, sources)
        /\ dated.product = None /\ dated.grade = None
        /\ dated.headerGrade = md.headerGrade /\ dated.description = md.description
        /\ dated.rope = md.rope
    <2>1. DOMAIN md = HeaderFields
      BY BlankHeaderFields DEF HeaderFrom
    <2>2. /\ DOMAIN dated = HeaderFields
          /\ \A f \in HeaderFields \ {"date"} : dated[f] = md[f]
      BY <2>1
    <2> HIDE DEF dated
    <2>3. /\ dated.product = md.product /\ dated.grade = md.grade
          /\ dated.headerGrade = md.headerGrade /\ dated.description = md.description
          /\ dated.rope = md.rope /\ dated.dims = md.dims /\ dated.norms = md.norms
          /\ dated.remark = md.remark /\ dated.confs = md.confs
          /\ \A f \in Ids : dated[f] = md[f]
      BY <2>2 DEF HeaderFields, Ids
    <2> QED BY <2>1, <2>2, <2>3, BlankHeaderFields DEF HeaderFrom, ConfidencesRead
  <1> HIDE DEF dated
  <1>2. /\ HeaderFrom(head, sources) /\ ConfidencesRead(head, sources)
        /\ TakenFromTexts(head)
        /\ head.headerGrade = md.headerGrade /\ head.description = md.description
        /\ head.rope = md.rope
    BY <1>1, AppliedHeaderFrom DEF Given
  <1> HIDE DEF head
  <1>3. rs \in Seq(Range(rs)) /\ \A i \in DOMAIN rs : RowFrom(rs[i], sources, values)
    BY DEF RowsFrom
  <1>4. \A i \in DOMAIN rs : RowFrom(applied[i], sources, values)
                             /\ applied[i].mech = rs[i].mech
    BY <1>3, AppliedRowFrom
  <1>5. applied = [i \in DOMAIN rs |-> applied[i]]
    OBVIOUS
  <1> HIDE DEF applied
  <1>6. RowsFrom(applied, sources, values) /\ Len(applied) = Len(rs)
        /\ DOMAIN applied = DOMAIN rs
    BY <1>3, <1>4, <1>5, RowByRow
  <1>7. /\ RowsFrom(mapped, sources, values)
        /\ Len(mapped) = Len(rs) /\ DOMAIN mapped = DOMAIN rs
        /\ \A i \in DOMAIN rs : mapped[i].mech = rs[i].mech
    BY <1>2, <1>4, <1>6, MappedFrom
  <1> HIDE DEF mapped
  <1>8. final = [metadata |-> Promoted(head, mapped), rows |-> Numbered(mapped)]
    BY DEF Finalized, FinalizedWith, FinalPair, mapped, applied, head, dated
  <1>9. final.metadata = Promoted(head, mapped) /\ final.rows = Numbered(mapped)
    BY <1>8
  <1> HIDE DEF final
  <1>10. /\ RowsFrom(final.rows, sources, values)
         /\ Len(final.rows) = Len(rs) /\ DOMAIN final.rows = DOMAIN rs
         /\ \A i \in DOMAIN rs : final.rows[i].mech = rs[i].mech
    <2>1. /\ RowsFrom(final.rows, sources, values)
          /\ Len(final.rows) = Len(rs) /\ DOMAIN final.rows = DOMAIN rs
      BY <1>7, <1>9, NumberedFrom
    <2>2. ASSUME NEW i \in DOMAIN rs PROVE final.rows[i].mech = rs[i].mech
      <3> DEFINE row == mapped[i]
                 new == Numbered(mapped)[i]
      <3>1. DOMAIN mapped[i] = RowFields
        BY <1>7, BlankRowFields DEF RowsFrom, RowFrom, IsRow
      <3>2. \A f \in RowFields \ {"item"} : new[f] = row[f]
        BY <1>7, <3>1, NumberedFields
      <3>3. row.mech = rs[i].mech
        BY <1>7
      <3>4. final.rows[i] = new
        BY <1>9
      <3> HIDE DEF row, new
      <3>5. new.mech = row.mech
        BY <3>2 DEF RowFields
      <3> QED BY <3>3, <3>4, <3>5
    <2> QED BY <2>1, <2>2
  <1>11. /\ HeaderFrom(final.metadata, sources)
         /\ \A f \in HeaderFields \ Ids : final.metadata[f] = head[f]
    BY <1>2, <1>7, <1>9, PromotedFrom
  <1>12. /\ final.metadata.headerGrade = head.headerGrade
         /\ final.metadata.description = head.description
         /\ final.metadata.rope = head.rope /\ final.metadata.product = head.product
         /\ final.metadata.grade = head.grade /\ final.metadata.remark = head.remark
         /\ final.metadata.confs = head.confs
    BY <1>11 DEF HeaderFields, Ids
  <1>13. ConfidencesRead(final.metadata, sources) /\ TakenFromTexts(final.metadata)
    BY <1>2, <1>12 DEF ConfidencesRead, TakenFromTexts, RemarkLabels
  <1> QED BY <1>2, <1>10, <1>11, <1>12, <1>13 DEF final

(* ---------------------------- reconciliation ----------------------------- *)

LEMMA SeveralElements ==
  ASSUME NEW S, IsFiniteSet(S), NEW a \in S, NEW b \in S, a # b
  PROVE  Cardinality(S) > 1
  <1>1. Cardinality(S) \in Nat
    BY FS_CardinalityType
  <1>2. Cardinality(S) # 0
    BY FS_EmptySet
  <1>3. Cardinality(S) # 1
    BY FS_Singleton
  <1> QED BY <1>1, <1>2, <1>3

LEMMA ChosenIn ==
  ASSUME NEW labels, NEW bad, NEW f, NEW a, NEW b, NEW c, NEW S,
         None \in S, a \in S, b \in S, c \in S,
         f \in bad \/ ValuesOf(labels, f) \subseteq S
  PROVE  Chosen(labels, bad, f, a, b, c) \in S
  BY DEF Chosen, Or

LEMMA ChosenNone ==
  ASSUME NEW labels, NEW bad, NEW f \in bad, NEW a, NEW b, NEW c
  PROVE  Chosen(labels, bad, f, a, b, c) = None
  BY DEF Chosen

LEMMA RemarksTell ==
  ASSUME NEW sources, NEW md, HeaderFrom(md, sources), NEW l \in RemarkLabels(md)
  PROVE  TellsOf(l, sources)
  <1>1. PICK g \in {md.remark} \ {None} : l = <<"grade", g>>
    BY DEF RemarkLabels
  <1>2. g \in Grades
    BY DEF HeaderFrom
  <1> QED BY <1>1, <1>2 DEF TellsOf

(* What the texts of a header are labelled with.                           *)
LEMMA HeaderTells ==
  ASSUME NEW sources, NEW md, HeaderFrom(md, sources), ConfidencesRead(md, sources),
         NEW l \in HeaderLabels(md) \cup StructuredDates(md)
  PROVE  TellsOf(l, sources) \/ l \in TakenLabels(md)
  <1>1. ASSUME NEW t \in HeaderTexts(md), l \in Labelled(t) PROVE TellsOf(l, sources)
    <2>1. t \in Clean(sources)
      BY DEF HeaderTexts, HeaderFrom
    <2> QED BY <1>1, <2>1, CleanTextsTell
  <1>2. ASSUME l \in RemarkLabels(md) PROVE TellsOf(l, sources)
    BY <1>2, RemarksTell
  <1>3. ASSUME l \in DateTexts(md) \cup StructuredDates(md) PROVE TellsOf(l, sources)
    <2>1. \E d : l = <<"date", d>>
      BY <1>3 DEF DateTexts, StructuredDates
    <2> QED BY <2>1 DEF TellsOf
  <1>4. ASSUME l \in ConfidenceLabels(md.confs) PROVE TellsOf(l, sources)
    BY <1>4, ConfidencesTell
  <1>5. \/ \E t \in HeaderTexts(md) : l \in Labelled(t)
        \/ l \in RemarkLabels(md)
        \/ l \in DateTexts(md) \cup StructuredDates(md)
        \/ l \in ConfidenceLabels(md.confs)
        \/ l \in TakenLabels(md)
    BY DEF HeaderLabels
  <1> QED BY <1>1, <1>2, <1>3, <1>4, <1>5

LEMMA TakenValues ==
  ASSUME NEW md, NEW f
  PROVE  /\ ValuesOf(TakenLabels(md), f) \subseteq {"confidence"}
         /\ ValuesOf(TakenLabels(md), f) # {} => f \in {"product", "grade"} /\ md[f] # None
  BY DEF TakenLabels, ValuesOf

(* A product or a grade that is chosen is one that a label tells: the name *)
(* of a confidence is never the only value.                                *)
LEMMA ConfidencesAreNotChosen ==
  ASSUME NEW sources, NEW md, HeaderFrom(md, sources), ConfidencesRead(md, sources),
         TakenFromTexts(md),
         NEW more, \A l \in more : TellsOf(l, sources)
  PROVE  LET labels == HeaderLabels(md) \cup StructuredDates(md) \cup more
         IN /\ \A f \in Ids : ValuesOf(labels, f) \subseteq sources[f]
            /\ ValuesOf(labels, "dims") = {}
            /\ \/ "product" \in Conflicting(HeaderLabels(md) \cup more)
               \/ ValuesOf(labels, "product") \subseteq {"plate"}
            /\ \/ "grade" \in Conflicting(HeaderLabels(md) \cup more)
               \/ ValuesOf(labels, "grade") \subseteq Grades
  <1> DEFINE labels == HeaderLabels(md) \cup StructuredDates(md) \cup more
             mine == HeaderLabels(md) \cup more
             told == {l \in labels : TellsOf(l, sources)}
             texts == Labelled(md.headerGrade) \cup Labelled(md.description)
             small == {"plate", "confidence"} \cup Grades
  <1>1. labels \subseteq told \cup TakenLabels(md)
    BY HeaderTells
  <1>2. \A f : ValuesOf(labels, f) \subseteq ValuesOf(told, f) \cup ValuesOf(TakenLabels(md), f)
    BY <1>1 DEF ValuesOf
  <1>3. /\ \A f \in Ids : ValuesOf(told, f) \subseteq sources[f]
        /\ ValuesOf(told, "product") \subseteq {"plate"}
        /\ ValuesOf(told, "grade") \subseteq Grades
        /\ ValuesOf(told, "dims") = {}
    BY ToldValues DEF HeaderFields, Ids
  <1>4. \A f \in Ids : ValuesOf(labels, f) \subseteq sources[f]
    <2>1. \A f \in Ids : f \notin {"product", "grade"}
      BY DEF Ids
    <2> QED BY <1>2, <1>3, <2>1, TakenValues
  <1>5. ValuesOf(labels, "dims") = {}
    <2>1. ValuesOf(TakenLabels(md), "dims") = {}
      BY TakenValues
    <2> QED BY <1>2, <1>3, <2>1
  <1>6. IsFiniteSet(small)
    <2>1. small = {"plate", "confidence", "s355jr", "304", "304l"}
      BY DEF Grades
    <2>2. /\ IsFiniteSet({}) /\ IsFiniteSet({} \cup {"plate"})
      BY FS_EmptySet, FS_AddElement
    <2>3. IsFiniteSet(({} \cup {"plate"}) \cup {"confidence"})
      BY <2>2, FS_AddElement
    <2>4. IsFiniteSet((({} \cup {"plate"}) \cup {"confidence"}) \cup {"s355jr"})
      BY <2>3, FS_AddElement
    <2>5. IsFiniteSet(((({} \cup {"plate"}) \cup {"confidence"}) \cup {"s355jr"}) \cup {"304"})
      BY <2>4, FS_AddElement
    <2>6. IsFiniteSet((((({} \cup {"plate"}) \cup {"confidence"}) \cup {"s355jr"})
                        \cup {"304"}) \cup {"304l"})
      BY <2>5, FS_AddElement
    <2>7. small = (((({} \cup {"plate"}) \cup {"confidence"}) \cup {"s355jr"})
                        \cup {"304"}) \cup {"304l"}
      BY <2>1
    <2> QED BY <2>6, <2>7
  <1>7. ASSUME NEW f \in {"product", "grade"}, md[f] # None,
               NEW v \in ValuesOf(mine, f), v # "confidence",
               ValuesOf(mine, f) \subseteq small
        PROVE  f \in Conflicting(mine)
    <2>1. <<f, "confidence">> \in mine
      <3>1. <<f, "confidence">> \in TakenLabels(md)
        BY <1>7 DEF TakenLabels
      <3>2. TakenLabels(md) \subseteq mine
        BY DEF HeaderLabels
      <3> QED BY <3>1, <3>2
    <2>2. "confidence" \in ValuesOf(mine, f) /\ f \in {l[1] : l \in mine}
      BY <2>1 DEF ValuesOf
    <2>3. IsFiniteSet(ValuesOf(mine, f))
      BY <1>6, <1>7, FS_Subset
    <2>4. Cardinality(ValuesOf(mine, f)) > 1
      BY <1>7, <2>2, <2>3, SeveralElements
    <2> QED BY <2>2, <2>4 DEF Conflicting
  <1>8. ASSUME NEW f \in {"product", "grade"} PROVE ValuesOf(mine, f) \subseteq small
    <2>1. ValuesOf(mine, f) \subseteq ValuesOf(labels, f)
      BY DEF ValuesOf
    <2>2. ValuesOf(TakenLabels(md), f) \subseteq {"confidence"}
      BY TakenValues
    <2> QED BY <1>2, <1>3, <2>1, <2>2
  <1>9. texts \subseteq mine /\ texts \cup RemarkLabels(md) \subseteq mine
    <2>1. \A t \in HeaderTexts(md) : Labelled(t) \subseteq HeaderLabels(md)
      BY DEF HeaderLabels
    <2>2. md.headerGrade \in HeaderTexts(md) /\ md.description \in HeaderTexts(md)
      BY DEF HeaderTexts
    <2>3. RemarkLabels(md) \subseteq HeaderLabels(md)
      BY DEF HeaderLabels
    <2> QED BY <2>1, <2>2, <2>3
  <1>10. \A f : ValuesOf(texts, f) \subseteq ValuesOf(mine, f)
                /\ ValuesOf(texts \cup RemarkLabels(md), f) \subseteq ValuesOf(mine, f)
    BY <1>9 DEF ValuesOf
  <1>11. \A l \in texts \cup RemarkLabels(md) : TellsOf(l, sources)
    <2>1. \A l \in texts : TellsOf(l, sources)
      BY CleanTextsTell DEF HeaderFrom
    <2>2. \A l \in RemarkLabels(md) : TellsOf(l, sources)
      BY RemarksTell
    <2> QED BY <2>1, <2>2
  <1> HIDE DEF texts, labels, mine, told, small
  <1>12. "product" \in Conflicting(mine) \/ ValuesOf(labels, "product") \subseteq {"plate"}
    <2>1. CASE md.product = None
      <3>1. ValuesOf(TakenLabels(md), "product") = {}
        BY <2>1, TakenValues
      <3> QED BY <1>2, <1>3, <3>1
    <2>2. CASE md.product # None
      <3>1. PICK v : v \in ValuesOf(texts, "product")
        BY <2>2 DEF TakenFromTexts, texts
      <3>2. v = "plate"
        BY <1>11, <3>1, ToldValues
      <3> QED BY <1>7, <1>8, <1>10, <2>2, <3>1, <3>2
    <2> QED BY <2>1, <2>2
  <1>13. "grade" \in Conflicting(mine) \/ ValuesOf(labels, "grade") \subseteq Grades
    <2>1. CASE md.grade = None
      <3>1. ValuesOf(TakenLabels(md), "grade") = {}
        BY <2>1, TakenValues
      <3> QED BY <1>2, <1>3, <3>1
    <2>2. CASE md.grade # None
      <3>1. PICK v : v \in ValuesOf(texts \cup RemarkLabels(md), "grade")
        BY <2>2 DEF TakenFromTexts, texts
      <3>2. v \in Grades
        BY <1>11, <3>1, ToldValues
      <3>3. v # "confidence"
        BY <3>2 DEF Grades
      <3> QED BY <1>7, <1>8, <1>10, <2>2, <3>1, <3>3
    <2> QED BY <2>1, <2>2
  <1> QED BY <1>4, <1>5, <1>12, <1>13 DEF labels, mine

LEMMA SeparatedReads ==
  ASSUME NEW sources, NEW r, Reads(r, sources)
  PROVE  Retells(Separated(r), r, sources)
  <1> DEFINE p == r.product
             g == r.grade
             one == IF p \in SpecLines \cup Classes
                    THEN [WithSpecs(r, {p}) EXCEPT !.product = None] ELSE r
             named == DomainGrade(g, TRUE)
  <1>1. None \in Clean(sources) /\ named \in Clean(sources)
    BY SomeCleanTexts, DomainGradeIsGrade
  <1> HIDE DEF named
  <1>2. Retells(one, r, sources) /\ one.grade = g
    <2>1. CASE p \in SpecLines \cup Classes
      <3>1. Retells(WithSpecs(r, {p}), r, sources) /\ WithSpecs(r, {p}).grade = g
        BY <2>1, Tokens, WithSpecsReads
      <3> QED BY <1>1, <2>1, <3>1 DEF Retells, Reads, RowFields
    <2>2. CASE p \notin SpecLines \cup Classes
      BY <2>2 DEF Retells
    <2> QED BY <2>1, <2>2
  <1>3. g \in Grades => g \notin SpecLines \cup Classes
    BY DEF Grades, SpecLines, Classes
  <1> HIDE DEF one, g
  <1>4. ASSUME NEW new \in {None, named}, g \in SpecLines \cup Classes
        PROVE  Retells([WithSpecs(one, {g}) EXCEPT !.grade = new], r, sources)
    <2>1. Retells(WithSpecs(one, {g}), one, sources)
      BY <1>2, <1>4, Tokens, WithSpecsReads DEF Retells
    <2> HIDE DEF one
    <2>2. Retells(WithSpecs(one, {g}), r, sources)
      BY <1>2, <2>1, RetellsAgain
    <2> QED BY <1>1, <1>3, <1>4, <2>2 DEF Retells, Reads, RowFields, g
  <1>5. \/ Separated(r) = one
        \/ g \in SpecLines \cup Classes
           /\ \E new \in {None, named} :
                Separated(r) = [WithSpecs(one, {g}) EXCEPT !.grade = new]
    BY DEF Separated, one, named, g
  <1> QED BY <1>2, <1>4, <1>5

LEMMA ReconciledHeaderFrom ==
  ASSUME NEW sources, \A f \in Ids : None \in sources[f],
         NEW md, HeaderFrom(md, sources), ConfidencesRead(md, sources),
         TakenFromTexts(md)
  PROVE  /\ HeaderFrom(ReconciledHeader(md), sources)
         /\ ReconciledHeader(md).headerGrade = md.headerGrade
         /\ ReconciledHeader(md).description = md.description
         /\ ReconciledHeader(md).rope = md.rope
         /\ \A f \in Ids \cap Conflicting(HeaderLabels(md) \cup StructuredDates(md)) :
              ReconciledHeader(md)[f] = None
  <1> DEFINE new == ReconciledHeader(md)
             labels == HeaderLabels(md) \cup StructuredDates(md)
             bad == Conflicting(labels)
  <1>1. DOMAIN md = HeaderFields /\ DOMAIN new = HeaderFields
    BY BlankHeaderFields DEF HeaderFrom, ReconciledHeader
  <1>2. \A f \in HeaderFields \ (IdOrDate \cup {"product"}) : new[f] = md[f]
    BY <1>1 DEF ReconciledHeader
  <1>3. /\ \A f \in Ids : new[f] = Chosen(labels, bad, f, md[f], None, None)
        /\ new.product = Chosen(labels, bad, "product", md.product, None, md.description)
    BY <1>1 DEF ReconciledHeader, Ids, IdOrDate, HeaderFields
  <1>4. /\ \A f \in Ids : ValuesOf(labels, f) \subseteq sources[f]
        /\ "product" \in bad \/ ValuesOf(labels, "product") \subseteq {"plate"}
    <2>1. \A l \in StructuredDates(md) : TellsOf(l, sources)
      <3>1. \A l \in StructuredDates(md) : \E d : l = <<"date", d>>
        BY DEF StructuredDates
      <3> QED BY <3>1 DEF TellsOf
    <2>2. HeaderLabels(md) \cup StructuredDates(md) \cup StructuredDates(md) = labels
      OBVIOUS
    <2> QED BY <2>1, <2>2, ConfidencesAreNotChosen
  <1> HIDE DEF new, labels, bad
  <1>5. ASSUME NEW f \in Ids PROVE new[f] \in sources[f]
    <2>1. md[f] \in sources[f] /\ None \in sources[f]
      BY DEF HeaderFrom
    <2> QED BY <1>3, <1>4, <2>1, ChosenIn
  <1>6. new.product \in Clean(sources)
    <2>1. md.product \in Clean(sources) /\ md.description \in Clean(sources)
      BY DEF HeaderFrom
    <2>2. {None, "plate"} \subseteq Clean(sources)
      BY SomeCleanTexts
    <2>3. "product" \in bad \/ ValuesOf(labels, "product") \subseteq Clean(sources)
      BY <1>4, <2>2
    <2> QED BY <1>3, <2>1, <2>2, <2>3, ChosenIn
  <1>7. /\ new.headerGrade = md.headerGrade /\ new.description = md.description
        /\ new.grade = md.grade /\ new.dims = md.dims /\ new.rope = md.rope
        /\ new.norms = md.norms /\ new.remark = md.remark /\ new.confs = md.confs
    BY <1>2 DEF HeaderFields, Ids, IdOrDate
  <1>8. HeaderFrom(new, sources)
    BY <1>1, <1>5, <1>6, <1>7, BlankHeaderFields DEF HeaderFrom
  <1>9. \A f \in Ids \cap bad : new[f] = None
    BY <1>3, ChosenNone
  <1> QED BY <1>7, <1>8, <1>9 DEF new, labels, bad

LEMMA ReconciledRowFrom ==
  ASSUME NEW sources, NEW values, Given(sources, values),
         NEW md, HeaderFrom(md, sources), ConfidencesRead(md, sources),
         TakenFromTexts(md),
         NEW head, HeaderFrom(head, sources),
         NEW r, RowFrom(r, sources, values)
  PROVE  /\ RowFrom(ReconciledRow(r, md, head), sources, values)
         /\ ReconciledRow(r, md, head).mech = r.mech
         /\ \A f \in Ids \cap Conflicting(HeaderLabels(md) \cup StructuredDates(md)) :
              ReconciledRow(r, md, head)[f] = None
  <1> DEFINE labels == HeaderLabels(md) \cup RowLabels(r)
             bad == Conflicting(labels)
                      \cup Conflicting(HeaderLabels(md) \cup StructuredDates(md))
             alias(f) == IF f = "product" THEN md.description ELSE None
             scalars == [f \in DOMAIN r |->
                           IF f \in Ids \cup {"product", "dims"}
                           THEN Chosen(labels, bad, f, head[f], r[f], alias(f))
                           ELSE IF f = "grade"
                           THEN Chosen(labels, bad, f, head.grade, r[f], alias(f))
                           ELSE r[f]]
             named == [scalars EXCEPT
                         !.norms = IF head.norms # {} THEN head.norms ELSE @]
             all == HeaderLabels(md) \cup StructuredDates(md) \cup RowLabels(r)
  <1>1. DOMAIN r = RowFields
    BY BlankRowFields DEF RowFrom, IsRow
  <1>2. ReconciledRow(r, md, head) = Separated(WithSpecs(named, {}))
    BY DEF ReconciledRow
  <1>3. \A l \in RowLabels(r) : TellsOf(l, sources)
    BY CleanTextsTell DEF RowFrom, RowLabels
  <1>4. /\ \A f \in Ids : ValuesOf(all, f) \subseteq sources[f]
        /\ ValuesOf(all, "dims") = {}
        /\ "product" \in Conflicting(labels) \/ ValuesOf(all, "product") \subseteq {"plate"}
        /\ "grade" \in Conflicting(labels) \/ ValuesOf(all, "grade") \subseteq Grades
    BY <1>3, ConfidencesAreNotChosen
  <1>5. \A f : ValuesOf(labels, f) \subseteq ValuesOf(all, f)
    BY DEF ValuesOf
  <1>6. /\ \A f \in Ids : ValuesOf(labels, f) \subseteq sources[f]
        /\ ValuesOf(labels, "dims") = {}
        /\ "product" \in bad \/ ValuesOf(labels, "product") \subseteq {"plate"}
        /\ "grade" \in bad \/ ValuesOf(labels, "grade") \subseteq Grades
    BY <1>4, <1>5
  <1>7. /\ DOMAIN scalars = RowFields
        /\ \A f \in Ids : scalars[f] = Chosen(labels, bad, f, head[f], r[f], None)
        /\ scalars.product =
             Chosen(labels, bad, "product", head.product, r.product, md.description)
        /\ scalars.dims = Chosen(labels, bad, "dims", head.dims, r.dims, None)
        /\ scalars.grade = Chosen(labels, bad, "grade", head.grade, r.grade, None)
        /\ \A f \in RowFields \ (Ids \cup {"product", "dims", "grade"}) :
             scalars[f] = r[f]
    BY <1>1 DEF RowFields, Ids
  <1> HIDE DEF labels, bad, scalars
  <1>8. /\ DOMAIN named = RowFields
        /\ \A f \in RowFields \ {"norms"} : named[f] = scalars[f]
        /\ named.norms \in {head.norms, r.norms}
    <2>1. scalars.norms = r.norms
      BY <1>7 DEF RowFields, Ids
    <2> QED BY <1>7, <2>1 DEF RowFields
  <1> HIDE DEF named
  <1>9. ASSUME NEW f \in Ids
        PROVE  /\ named[f] \in sources[f]
               /\ f \in Conflicting(HeaderLabels(md) \cup StructuredDates(md)) =>
                    named[f] = None
    <2>1. head[f] \in sources[f] /\ r[f] \in sources[f] /\ None \in sources[f]
      BY DEF HeaderFrom, RowFrom, Given
    <2>2. named[f] = scalars[f]
      BY <1>8 DEF Ids, RowFields
    <2>3. named[f] \in sources[f]
      BY <1>6, <1>7, <2>1, <2>2, ChosenIn
    <2>4. f \in bad => named[f] = None
      BY <1>7, <2>2, ChosenNone
    <2> QED BY <2>3, <2>4 DEF bad
  <1>10. named.product \in Clean(sources)
    <2>1. head.product \in Clean(sources) /\ r.product \in Clean(sources)
          /\ md.description \in Clean(sources)
      BY DEF HeaderFrom, RowFrom
    <2>2. {None, "plate"} \subseteq Clean(sources)
      BY SomeCleanTexts
    <2>3. "product" \in bad \/ ValuesOf(labels, "product") \subseteq Clean(sources)
      BY <1>6, <2>2
    <2>4. scalars.product \in Clean(sources)
      BY <1>7, <2>1, <2>2, <2>3, ChosenIn
    <2> QED BY <1>8, <2>4 DEF RowFields
  <1>11. named.grade \in Clean(sources)
    <2>1. head.grade \in Clean(sources) /\ r.grade \in Clean(sources)
      BY DEF HeaderFrom, RowFrom
    <2>2. {None} \cup Grades \subseteq Clean(sources)
      BY SomeCleanTexts
    <2>3. "grade" \in bad \/ ValuesOf(labels, "grade") \subseteq Clean(sources)
      BY <1>6, <2>2
    <2>4. scalars.grade \in Clean(sources)
      BY <1>7, <2>1, <2>2, <2>3, ChosenIn
    <2> QED BY <1>8, <2>4 DEF RowFields
  <1>12. named.dims \in Texts \cup {None}
    <2>1. head.dims \in Texts \cup {None} /\ r.dims \in Texts \cup {None}
      BY DEF HeaderFrom, RowFrom, IsRow
    <2>2. None \in Texts \cup {None}
          /\ ValuesOf(labels, "dims") \subseteq Texts \cup {None}
      BY <1>6
    <2>3. scalars.dims \in Texts \cup {None}
      <3> HIDE DEF scalars
      <3> DEFINE S == Texts \cup {None}
      <3> HIDE DEF S
      <3>1. None \in S /\ head.dims \in S /\ r.dims \in S
            /\ ValuesOf(labels, "dims") \subseteq S
        BY <2>1, <2>2 DEF S
      <3>2. scalars.dims \in S
        BY <1>7, <3>1, ChosenIn
      <3> QED BY <3>2 DEF S
    <2> QED BY <1>8, <2>3 DEF RowFields
  <1>13. /\ named.classes = r.classes /\ named.mech = r.mech /\ named.known = r.known
         /\ named.verified = r.verified /\ named.outcome = r.outcome
    BY <1>7, <1>8 DEF RowFields, Ids
  <1>14. named.norms \cup named.classes \subseteq Texts
    BY <1>8, <1>13 DEF RowFrom, IsRow, HeaderFrom
  <1>15. IsRow(named)
    BY <1>8, <1>10, <1>11, <1>12, <1>13, <1>14, SomeCleanTexts, BlankRowFields
    DEF RowFrom, IsRow
  <1>16. RowFrom(named, sources, values)
    BY <1>9, <1>10, <1>11, <1>13, <1>15 DEF RowFrom
  <1>17. Retells(WithSpecs(named, {}), named, sources)
    BY <1>16, RowReads, WithSpecsReads
  <1>18. Retells(Separated(WithSpecs(named, {})), WithSpecs(named, {}), sources)
    BY <1>17, SeparatedReads DEF Retells
  <1>19. Retells(Separated(WithSpecs(named, {})), named, sources)
    BY <1>17, <1>18, RetellsAgain
  <1>20. RowFrom(Separated(WithSpecs(named, {})), sources, values)
    BY <1>16, <1>19, RetoldRow
  <1>21. /\ Separated(WithSpecs(named, {})).mech = named.mech
         /\ \A f \in Ids : Separated(WithSpecs(named, {}))[f] = named[f]
    BY <1>19 DEF Retells, Ids
  <1> QED BY <1>2, <1>9, <1>13, <1>20, <1>21

(* apply_canonical_reconciliation *)
LEMMA ReconciledFrom ==
  ASSUME NEW sources, NEW values, Given(sources, values),
         NEW md, HeaderFrom(md, sources), ConfidencesRead(md, sources),
         TakenFromTexts(md),
         NEW rs, RowsFrom(rs, sources, values)
  PROVE  LET final == Reconciled(md, rs)
         IN /\ HeaderFrom(final.metadata, sources)
            /\ final.metadata.headerGrade = md.headerGrade
            /\ final.metadata.description = md.description
            /\ final.metadata.rope = md.rope
            /\ RowsFrom(final.rows, sources, values)
            /\ Len(final.rows) = Len(rs) /\ DOMAIN final.rows = DOMAIN rs
            /\ \A i \in DOMAIN rs : final.rows[i].mech = rs[i].mech
            /\ \A f \in Ids \cap Conflicting(HeaderLabels(md) \cup StructuredDates(md)) :
                 LeftEmpty(final.metadata, final.rows, f) /\ f \in final.review
  <1> DEFINE head == ReconciledHeader(md)
             new == [i \in DOMAIN rs |-> ReconciledRow(rs[i], md, head)]
             final == Reconciled(md, rs)
             bad == Conflicting(HeaderLabels(md) \cup StructuredDates(md))
  <1>1. /\ HeaderFrom(head, sources)
        /\ head.headerGrade = md.headerGrade /\ head.description = md.description
        /\ head.rope = md.rope
        /\ \A f \in Ids \cap bad : head[f] = None
    BY ReconciledHeaderFrom DEF Given
  <1> HIDE DEF head
  <1>2. rs \in Seq(Range(rs)) /\ \A i \in DOMAIN rs : RowFrom(rs[i], sources, values)
    BY DEF RowsFrom
  <1>3. \A i \in DOMAIN rs : /\ RowFrom(new[i], sources, values)
                             /\ new[i].mech = rs[i].mech
                             /\ \A f \in Ids \cap bad : new[i][f] = None
    BY <1>1, <1>2, ReconciledRowFrom
  <1>4. new = [i \in DOMAIN rs |-> new[i]]
    OBVIOUS
  <1>5. final.metadata = head /\ final.rows = new /\ final.review = ReviewFields(md, rs)
    BY DEF Reconciled, head
  <1> HIDE DEF new, final
  <1>6. RowsFrom(new, sources, values) /\ Len(new) = Len(rs) /\ DOMAIN new = DOMAIN rs
    BY <1>2, <1>3, <1>4, RowByRow
  <1>7. bad \subseteq ReviewFields(md, rs)
    BY DEF ReviewFields
  <1>8. \A f \in Ids \cap bad :
          LeftEmpty(final.metadata, final.rows, f) /\ f \in final.review
    BY <1>1, <1>3, <1>5, <1>6, <1>7 DEF LeftEmpty
  <1> QED BY <1>1, <1>3, <1>5, <1>6, <1>8 DEF final, bad

(* Labels of the header's texts that differ are in conflict among all.     *)
LEMMA ContradictionsConflict ==
  ASSUME NEW md, NEW f \in Ids,
         Cardinality(LabelledValues(md.headerGrade, f)
                       \cup LabelledValues(md.description, f)) > 1
  PROVE  f \in Conflicting(HeaderLabels(md) \cup StructuredDates(md))
  <1> DEFINE labels == HeaderLabels(md) \cup StructuredDates(md)
             some == LabelledValues(md.headerGrade, f)
                       \cup LabelledValues(md.description, f)
             most == {"T1000", "T2000", "T77", ConfidenceText(f)}
  <1>1. IsFiniteSet(most)
    <2>1. IsFiniteSet({}) /\ IsFiniteSet({} \cup {"T1000"})
      BY FS_EmptySet, FS_AddElement
    <2>2. IsFiniteSet(({} \cup {"T1000"}) \cup {"T2000"})
      BY <2>1, FS_AddElement
    <2>3. IsFiniteSet((({} \cup {"T1000"}) \cup {"T2000"}) \cup {"T77"})
      BY <2>2, FS_AddElement
    <2>4. IsFiniteSet(((({} \cup {"T1000"}) \cup {"T2000"}) \cup {"T77"})
                        \cup {ConfidenceText(f)})
      BY <2>3, FS_AddElement
    <2>5. most = ((({} \cup {"T1000"}) \cup {"T2000"}) \cup {"T77"})
                        \cup {ConfidenceText(f)}
      OBVIOUS
    <2> QED BY <2>4, <2>5
  <1>2. ASSUME NEW l \in labels, l[1] = f PROVE l[2] \in most
    <2>1. f \notin {"product", "grade", "date"}
      BY DEF Ids
    <2>2. \/ \E t \in HeaderTexts(md) : l \in Labelled(t)
          \/ l \in RemarkLabels(md)
          \/ l \in DateTexts(md) \cup StructuredDates(md)
          \/ l \in ConfidenceLabels(md.confs)
          \/ l \in TakenLabels(md)
      BY DEF HeaderLabels
    <2>3. ASSUME NEW t, l \in Labelled(t) PROVE l[2] \in most
      BY <1>2, <2>1, <2>3 DEF Labelled
    <2>4. /\ l \in RemarkLabels(md) => \E g : l = <<"grade", g>>
          /\ l \in DateTexts(md) \cup StructuredDates(md) => \E d : l = <<"date", d>>
          /\ l \in TakenLabels(md) => \E g \in {"product", "grade"} : l = <<g, "confidence">>
      BY DEF RemarkLabels, DateTexts, StructuredDates, TakenLabels
    <2>5. ASSUME l \in ConfidenceLabels(md.confs) PROVE l[2] = ConfidenceText(f)
      BY <1>2, <2>1, <2>5 DEF ConfidenceLabels
    <2> QED BY <1>2, <2>1, <2>2, <2>3, <2>4, <2>5
  <1>3. ValuesOf(labels, f) \subseteq most
    BY <1>2 DEF ValuesOf
  <1>4. some \subseteq ValuesOf(labels, f)
    <2>1. \A t \in HeaderTexts(md) : Labelled(t) \subseteq labels
      BY DEF HeaderLabels
    <2>2. md.headerGrade \in HeaderTexts(md) /\ md.description \in HeaderTexts(md)
      BY DEF HeaderTexts
    <2> HIDE DEF labels
    <2> QED BY <2>1, <2>2 DEF ValuesOf, LabelledValues
  <1> HIDE DEF most, labels
  <1>5. IsFiniteSet(ValuesOf(labels, f))
    BY <1>1, <1>3, FS_Subset
  <1>6. Cardinality(some) <= Cardinality(ValuesOf(labels, f)) /\ IsFiniteSet(some)
    BY <1>4, <1>5, FS_Subset
  <1>7. Cardinality(some) \in Nat /\ Cardinality(ValuesOf(labels, f)) \in Nat
    BY <1>5, <1>6, FS_CardinalityType
  <1>8. Cardinality(some) > 1
    OBVIOUS
  <1>9. Cardinality(ValuesOf(labels, f)) > 1
    <2> HIDE DEF some
    <2> QED BY <1>6, <1>7, <1>8
  <1>10. ValuesOf(labels, f) # {}
    BY <1>9, FS_EmptySet
  <1>11. f \in {l[1] : l \in labels}
    BY <1>10 DEF ValuesOf
  <1> QED BY <1>9, <1>11 DEF Conflicting, labels
================================================================================
