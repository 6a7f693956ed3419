------------------------ MODULE DocumentPipeline_proofs ------------------------
(***************************************************************************)
(* For every set of files, every answer that the schemas admit and every   *)
(* setting: compressing an image ends, a document with an unreadable page  *)
(* among those sampled has its identifiers gated, and the invariant of     *)
(* DocumentInvariant holds, with what follows from it about the document.  *)
(***************************************************************************)
EXTENDS DocumentRows_proofs

(* ------------------------------ compressing ----------------------------- *)

(* The loop of _encode_variant_for_llm works on an image of a page of an   *)
(* uploaded file, at a quality that steps of 8 lead to.                    *)
EncodingInv ==
  /\ pages \in Seq(Range(pages))
  /\ canvas \in [edge : Nat, quality : Nat]
  /\ pc \in {"profile", "pages", "encode"} => file \in Files
  /\ pc = "encode" =>
       /\ Len(pages) + 1 \in DOMAIN file.pages
       /\ canvas.quality \in Qualities

(* A sequence is a sequence of its own elements.                           *)
LEMMA OwnElements ==
  ASSUME NEW S, NEW q \in Seq(S)
  PROVE  q \in Seq(Range(q))
  <1>1. Len(q) \in Nat /\ DOMAIN q = 1..Len(q)
    OBVIOUS
  <1>2. q \in [1..Len(q) -> Range(q)]
    BY <1>1 DEF Range
  <1> QED BY <1>1, <1>2, SeqDef

(* Adding an element keeps a sequence one of its own elements.             *)
LEMMA OwnElementsAppend ==
  ASSUME NEW q, NEW x, q \in Seq(Range(q))
  PROVE  Append(q, x) \in Seq(Range(Append(q, x)))
  <1> DEFINE T == Range(q) \cup {x}
  <1>1. q \in [1..Len(q) -> T] /\ Len(q) \in Nat
    BY DEF Range
  <1>2. q \in Seq(T)
    BY <1>1, SeqDef
  <1>3. x \in T
    OBVIOUS
  <1> HIDE DEF T
  <1>4. Append(q, x) \in Seq(T)
    BY <1>2, <1>3
  <1> QED BY <1>4, OwnElements

(* A longest edge after a reduction: most, or one below it.                *)
LEMMA DownscaledTypes ==
  ASSUME NEW edge \in Nat, NEW most \in Nat, NEW e \in Downscaled(edge, most)
  PROVE  e \in Nat /\ (edge > most /\ most > 0 => e <= most)
  BY DEF Downscaled, Larger

(* The edge that is tried next is a number.                                *)
LEMMA NextEdgeType ==
  ASSUME NEW edge \in Nat
  PROVE  NextEdge(edge) \in Nat /\ NextEdge(edge) >= MinEdge
  <1>1. (edge * 82) \div 100 \in Nat
    OBVIOUS
  <1> QED BY <1>1, EncodingAssumption DEF NextEdge, Larger

(* Above the smallest edge the next edge is a shorter one.                 *)
LEMMA NextEdgeShorter ==
  ASSUME NEW edge \in Nat, edge > MinEdge
  PROVE  NextEdge(edge) < edge
  <1>1. (edge * 82) \div 100 \in Nat /\ (edge * 82) \div 100 < edge
    BY EncodingAssumption
  <1> QED BY <1>1, EncodingAssumption DEF NextEdge, Larger

(* At the smallest edge there is no next one.                              *)
LEMMA NextEdgeStays == NextEdge(MinEdge) = MinEdge
  <1>1. (MinEdge * 82) \div 100 \in Nat /\ (MinEdge * 82) \div 100 < MinEdge
    BY EncodingAssumption
  <1> QED BY <1>1, EncodingAssumption DEF NextEdge, Larger

(* A reduced image is no longer than it was, and starts at the quality of  *)
(* the settings.                                                           *)
LEMMA ShrinkTypes ==
  ASSUME EncodingInv, Shrink
  PROVE  /\ canvas' = [edge |-> canvas'.edge, quality |-> JpegQuality]
         /\ canvas'.edge \in Nat /\ canvas'.edge <= canvas.edge
         /\ canvas.edge > NextEdge(canvas.edge) => canvas'.edge < canvas.edge
         /\ canvas.edge <= NextEdge(canvas.edge) => canvas'.edge = canvas.edge
  <1>1. canvas.edge \in Nat
    BY DEF EncodingInv
  <1>2. NextEdge(canvas.edge) \in Nat /\ NextEdge(canvas.edge) > 0
    BY <1>1, NextEdgeType, EncodingAssumption
  <1>3. PICK e \in Downscaled(canvas.edge, NextEdge(canvas.edge)) :
               canvas' = [edge |-> e, quality |-> JpegQuality]
    BY DEF Shrink
  <1>4. e \in Nat /\ (canvas.edge > NextEdge(canvas.edge) => e <= NextEdge(canvas.edge))
    BY <1>1, <1>2, DownscaledTypes
  <1>5. ~(canvas.edge > NextEdge(canvas.edge)) => e = canvas.edge
    BY DEF Downscaled
  <1>6. canvas'.edge = e
    BY <1>3
  <1> QED BY <1>1, <1>2, <1>3, <1>4, <1>5, <1>6

(* Where short images fit, one that is reduced is longer than the smallest *)
(* edge: for one of just that edge nothing more is tried.                  *)
LEMMA ReducedAreLong ==
  ASSUME SmallImagesFit, EncodingInv, Shrinks
  PROVE  canvas.edge > MinEdge
  <1>1. /\ pc = "encode" /\ CanvasBytes > TargetBytes
        /\ canvas.quality <= LowQuality
        /\ NextEdge(canvas.edge) # canvas.edge
    BY DEF Shrinks, TooLarge
  <1>2. /\ file \in Files /\ Len(pages) + 1 \in DOMAIN file.pages
        /\ canvas.edge \in Nat /\ canvas.quality \in Qualities
    BY <1>1 DEF EncodingInv
  <1>3. canvas.edge # MinEdge
    BY <1>1, NextEdgeStays
  <1>4. ASSUME canvas.edge < MinEdge PROVE FALSE
    <2>1. canvas.edge \in 0..(MinEdge - 1)
      BY <1>2, <1>4, EncodingAssumption
    <2>2. CanvasBytes <= TargetBytes
      BY <1>1, <1>2, <2>1 DEF CanvasBytes, CurrentPage, SmallImagesFit
    <2>3. CanvasBytes \in Int
      <3>1. CurrentPage.smooth \in Nat \ {0}
        BY <1>2, FilesAssumption DEF CurrentPage
      <3>2. canvas.edge * canvas.edge * canvas.quality \in Nat
        BY <1>2 DEF Qualities
      <3> QED BY <3>1, <3>2 DEF CanvasBytes, Bytes
    <2> QED BY <1>1, <2>2, <2>3, EncodingAssumption
  <1> QED BY <1>2, <1>3, <1>4, EncodingAssumption

(* Such an image becomes shorter than it was.                              *)
LEMMA ShrinkDescends ==
  ASSUME SmallImagesFit, EncodingInv, Shrink
  PROVE  canvas'.edge < canvas.edge
  <1>1. canvas.edge > MinEdge /\ canvas.edge \in Nat
    BY ReducedAreLong DEF Shrink, Shrinks, TooLarge, EncodingInv
  <1>2. NextEdge(canvas.edge) < canvas.edge
    BY <1>1, NextEdgeShorter
  <1>3. NextEdge(canvas.edge) \in Nat
    BY <1>1, NextEdgeType
  <1> QED BY <1>1, <1>2, <1>3, ShrinkTypes

(* A lower quality is one of the qualities.                                *)
LEMMA LowerQualityDescends ==
  ASSUME EncodingInv, LowerQuality
  PROVE  canvas'.edge = canvas.edge /\ canvas'.quality < canvas.quality
         /\ canvas'.quality \in Qualities
  <1>1. canvas.quality \in Qualities /\ canvas.quality > 55
    BY DEF EncodingInv, LowerQuality, LowersQuality, TooLarge, LowQuality
  <1>2. canvas'.edge = canvas.edge /\ canvas'.quality = canvas.quality - 8
    BY DEF LowerQuality
  <1>3. canvas.quality - 8 \in Qualities
    BY <1>1, EncodingAssumption DEF Qualities
  <1> QED BY <1>1, <1>2, <1>3 DEF Qualities

(* Every step that is not one of compressing leaves that state.            *)
LEMMA OtherStepsLeave ==
  ASSUME [Pipeline]_pipeVars, pc = "encode", pc' = "encode"
  PROVE  Shrink \/ LowerQuality \/ UNCHANGED pipeVars
  BY DEF Pipeline, Profile, OpenPage, Encoded, RenderError, NoPages,
     AskMetadata, StageA, AskRows, StageB, OutputError, ProviderError, Gate,
     Shape, MapTables, MapIdentity, Normalize, Finalize, Reconcile, Assemble,
     Validate, Trace, Stop, Goto

LEMMA EncodingInit == Init => EncodingInv
  <1>1. <<>> \in Seq({})
    OBVIOUS
  <1> QED BY <1>1, OwnElements DEF Init, EncodingInv, NoCanvas

LEMMA EncodingOpenPage == EncodingInv /\ OpenPage => EncodingInv'
  <1> SUFFICES ASSUME EncodingInv, OpenPage PROVE EncodingInv'
    OBVIOUS
  <1>1. file \in Files /\ pages \in Seq(Range(pages))
    BY DEF EncodingInv, OpenPage
  <1>2. Len(pages) + 1 \in DOMAIN file.pages
    BY <1>1, FilesAssumption DEF OpenPage
  <1>3. CurrentPage.edge \in Nat
    BY <1>1, <1>2, FilesAssumption DEF CurrentPage
  <1>4. PICK e \in Downscaled(CurrentPage.edge, MaxEdge) :
               canvas' = [edge |-> e, quality |-> JpegQuality]
    BY DEF OpenPage
  <1>5. e \in Nat
    BY <1>3, DownscaledTypes, EncodingAssumption
  <1>6. JpegQuality \in Nat /\ JpegQuality \in Qualities
    BY EncodingAssumption DEF Qualities
  <1>7. pc' = "encode" /\ UNCHANGED <<file, pages>>
    BY DEF OpenPage, Goto
  <1> QED BY <1>1, <1>2, <1>4, <1>5, <1>6, <1>7 DEF EncodingInv

LEMMA EncodingCompress ==
  EncodingInv /\ (Shrink \/ LowerQuality) => EncodingInv'
  <1>1. ASSUME EncodingInv, Shrink PROVE EncodingInv'
    <2>1. canvas' = [edge |-> canvas'.edge, quality |-> JpegQuality]
      BY <1>1, ShrinkTypes
    <2>2. /\ canvas'.edge \in Nat
          /\ JpegQuality \in Nat /\ JpegQuality \in Qualities
      BY <1>1, ShrinkTypes, EncodingAssumption DEF Qualities
    <2>3. UNCHANGED <<pc, file, pages>>
      BY <1>1 DEF Shrink
    <2> QED BY <1>1, <2>1, <2>2, <2>3 DEF EncodingInv
  <1>2. ASSUME EncodingInv, LowerQuality PROVE EncodingInv'
    <2>1. canvas'.quality \in Qualities /\ canvas'.edge = canvas.edge
      BY <1>2, LowerQualityDescends
    <2>2. canvas' \in [edge : Nat, quality : Nat]
      BY <1>2, <2>1 DEF LowerQuality, EncodingInv, Qualities
    <2>3. UNCHANGED <<pc, file, pages>>
      BY <1>2 DEF LowerQuality
    <2> QED BY <1>2, <2>1, <2>2, <2>3 DEF EncodingInv
  <1> QED BY <1>1, <1>2

LEMMA EncodingEncoded == EncodingInv /\ Encoded => EncodingInv'
  <1> SUFFICES ASSUME EncodingInv, Encoded PROVE EncodingInv'
    OBVIOUS
  <1>1. pages' \in Seq(Range(pages'))
    <2>1. PICK page : pages' = Append(pages, page)
      BY DEF Encoded
    <2>2. pages \in Seq(Range(pages))
      BY DEF EncodingInv
    <2>3. Append(pages, page) \in Seq(Range(Append(pages, page)))
      BY <2>2, OwnElementsAppend
    <2> QED BY <2>1, <2>3
  <1>2. pc' = "pages" /\ canvas' \in [edge : Nat, quality : Nat]
        /\ file' = file /\ file \in Files
    BY DEF Encoded, Goto, NoCanvas, EncodingInv
  <1> QED BY <1>1, <1>2 DEF EncodingInv

LEMMA EncodingOthers ==
  ASSUME EncodingInv, [Pipeline]_pipeVars,
         ~(OpenPage \/ Shrink \/ LowerQuality \/ Encoded)
  PROVE  EncodingInv'
  <1>1. CASE Profile
    BY <1>1 DEF Profile, Goto, rowVars, EncodingInv
  <1>2. CASE RenderError \/ NoPages \/ ProviderError
    BY <1>2 DEF RenderError, NoPages, ProviderError, Stop, Goto, intakeVars,
       EncodingInv
  <1>3. CASE AskMetadata \/ StageA \/ AskRows
    BY <1>3 DEF AskMetadata, StageA, AskRows, Goto, EncodingInv
  <1>4. CASE StageB \/ OutputError
    <2>1. pages' = <<>> /\ canvas' = canvas /\ pc' = "gate"
      BY <1>4 DEF StageB, OutputError, ForgetPages, Goto
    <2>2. <<>> \in Seq({})
      OBVIOUS
    <2> QED BY <2>1, <2>2, OwnElements DEF EncodingInv
  <1>5. CASE Gate \/ Shape \/ MapTables \/ MapIdentity \/ Normalize \/ Finalize
    <2>1. UNCHANGED <<pages, canvas>>
          /\ pc' \in {"shape", "tables", "identity", "semantics", "finalize",
                      "reconcile"}
      BY <1>5 DEF Gate, Shape, MapTables, MapIdentity, Normalize, Finalize, Goto,
         intakeVars
    <2> QED BY <2>1 DEF EncodingInv
  <1>6. CASE Reconcile \/ Assemble \/ Validate \/ Trace
    <2>1. UNCHANGED <<pages, canvas>>
          /\ pc' \in {"assemble", "validate", "trace", "decide"}
      BY <1>6 DEF Reconcile, Assemble, Validate, Trace, Goto, intakeVars
    <2> QED BY <2>1 DEF EncodingInv
  <1>7. CASE UNCHANGED pipeVars
    BY <1>7 DEF pipeVars, intakeVars, EncodingInv
  <1> QED BY <1>1, <1>2, <1>3, <1>4, <1>5, <1>6, <1>7 DEF Pipeline

LEMMA EncodingStep == EncodingInv /\ [Pipeline]_pipeVars => EncodingInv'
  BY EncodingOpenPage, EncodingCompress, EncodingEncoded, EncodingOthers

(* Every attempt to compress an image is smaller than the one before, for  *)
(* all files and settings with which an image shorter than the smallest    *)
(* edge fits at a low quality.                                             *)
THEOREM CompressingDescends == SmallImagesFit => (Spec => EncodingDescends)
  <1> SUFFICES ASSUME SmallImagesFit
               PROVE  Spec => EncodingDescends
    OBVIOUS
  <1>1. ASSUME EncodingInv, [Pipeline]_pipeVars
        PROVE  pc = "encode" /\ pc' = "encode" =>
                 \/ UNCHANGED pipeVars
                 \/ canvas'.edge < canvas.edge
                 \/ /\ canvas'.edge = canvas.edge
                    /\ canvas'.quality < canvas.quality
    BY <1>1, OtherStepsLeave, ShrinkDescends, LowerQualityDescends
  <1> QED BY <1>1, EncodingInit, EncodingStep, PTL DEF Spec, EncodingDescends

(* Settings with which it does not fit are not refused, and then the loop  *)
(* does not end: next_max_edge is the smallest edge, to which a shorter    *)
(* image is not reduced, and all its qualities are tried once more         *)
(* (_encode_variant_for_llm).                                              *)
ShortImagesStart ==
  [][Shrink /\ canvas.edge < MinEdge =>
       canvas' = [edge |-> canvas.edge, quality |-> JpegQuality]]_pipeVars

THEOREM ShortImagesStartAgain == Spec => ShortImagesStart
  <1>1. ASSUME EncodingInv, Shrink, canvas.edge < MinEdge
        PROVE  canvas' = [edge |-> canvas.edge, quality |-> JpegQuality]
    <2>1. canvas.edge \in Nat
      BY <1>1 DEF EncodingInv
    <2>2. canvas.edge <= NextEdge(canvas.edge)
      BY <1>1, <2>1, NextEdgeType, EncodingAssumption
    <2> QED BY <1>1, <2>2, ShrinkTypes
  <1>2. EncodingInv => (Shrink /\ canvas.edge < MinEdge =>
                          canvas' = [edge |-> canvas.edge, quality |-> JpegQuality])
    BY <1>1
  <1> QED BY <1>2, EncodingInit, EncodingStep, PTL DEF Spec, ShortImagesStart

(* ------------------------------ profiling ------------------------------- *)

(* The sample holds no more than the first two pages.                      *)
LEMMA SampleOfTwo ==
  ASSUME NEW f \in Files, Sample(f) # {}
  PROVE  \E a, b \in Sample(f) :
           Sample(f) = {a, b} /\ a.blur \in Nat /\ a.noise \in Nat
                              /\ b.blur \in Nat /\ b.noise \in Nat
  <1> DEFINE seen == {j \in DOMAIN f.pages : f.renders /\ j <= 2}
  <1>1. Sample(f) = {f.pages[i] : i \in seen}
    BY DEF Sample
  <1>2. /\ DOMAIN f.pages = 1..Len(f.pages) /\ Len(f.pages) \in Nat
        /\ \A i \in DOMAIN f.pages : f.pages[i].blur \in Nat /\ f.pages[i].noise \in Nat
    BY FilesAssumption
  <1>3. seen = {1} \/ seen = {1, 2}
    BY <1>1, <1>2
  <1>4. seen \subseteq DOMAIN f.pages
    OBVIOUS
  <1> HIDE DEF seen
  <1>5. CASE seen = {1}
    BY <1>1, <1>2, <1>4, <1>5
  <1>6. CASE seen = {1, 2}
    <2>1. Sample(f) = {f.pages[1], f.pages[2]}
      BY <1>1, <1>6
    <2> QED BY <2>1, <1>2, <1>4, <1>6
  <1> QED BY <1>3, <1>5, <1>6

(* The scores of a document are those of its worst sampled pages.          *)
LEMMA WorstScores ==
  ASSUME NEW f \in Files, Sample(f) # {}, NEW p \in Sample(f)
  PROVE  /\ WorstBlur(f) \in Nat /\ WorstBlur(f) <= p.blur /\ p.blur \in Nat
         /\ WorstNoise(f) \in Nat /\ p.noise <= WorstNoise(f) /\ p.noise \in Nat
  <1>1. PICK a, b \in Sample(f) :
               Sample(f) = {a, b} /\ a.blur \in Nat /\ a.noise \in Nat
                                  /\ b.blur \in Nat /\ b.noise \in Nat
    BY SampleOfTwo
  <1>2. {q.blur : q \in Sample(f)} = {a.blur, b.blur}
    BY <1>1
  <1>3. {q.noise : q \in Sample(f)} = {a.noise, b.noise}
    BY <1>1
  <1>4. Min({a.blur, b.blur}) \in {a.blur, b.blur}
        /\ Min({a.blur, b.blur}) <= a.blur /\ Min({a.blur, b.blur}) <= b.blur
    <2>1. \E x \in {a.blur, b.blur} : \A y \in {a.blur, b.blur} : x <= y
      BY <1>1
    <2> QED BY <2>1 DEF Min
  <1>5. Max({a.noise, b.noise}) \in {a.noise, b.noise}
        /\ a.noise <= Max({a.noise, b.noise}) /\ b.noise <= Max({a.noise, b.noise})
    <2>1. \E x \in {a.noise, b.noise} : \A y \in {a.noise, b.noise} : x >= y
      BY <1>1
    <2>2. \A y \in {a.noise, b.noise} : Max({a.noise, b.noise}) >= y
      BY <2>1 DEF Max
    <2>3. Max({a.noise, b.noise}) \in {a.noise, b.noise}
      BY <2>1 DEF Max
    <2> QED BY <2>2, <2>3, <1>1
  <1>6. WorstBlur(f) = Min({a.blur, b.blur})
    BY <1>2 DEF WorstBlur
  <1>7. WorstNoise(f) = Max({a.noise, b.noise})
    BY <1>3 DEF WorstNoise
  <1>8. p = a \/ p = b
    BY <1>1
  <1> QED BY <1>1, <1>4, <1>5, <1>6, <1>7, <1>8

(* A blurred or a noisy document is a poor scan, and so is one with a      *)
(* corrupted text over a raster: text density and layer decide only        *)
(* between the two classes of poor scans.                                  *)
LEMMA PoorScores ==
  ASSUME NEW f,
         \/ WorstBlur(f) < 80
         \/ WorstNoise(f) >= 25
         \/ NoisyText(f) /\ FullPageRaster(f)
  PROVE  QualityClass(f) \in PoorClasses
  BY DEF QualityClass, PoorClasses

(* What is the case for a page that the profile was taken of.              *)
Readable(f) ==
  /\ \A p \in Sample(f) : p.blur >= 80 /\ p.noise < 25
  /\ Sample(f) # {}
  /\ ~(NoisyText(f) /\ FullPageRaster(f))

LEMMA PoorOrReadable ==
  ASSUME NEW f \in Files
  PROVE  QualityClass(f) \in PoorClasses \/ Readable(f)
  <1>1. CASE Sample(f) = {}
    <2>1. WorstBlur(f) < 80
      BY <1>1 DEF WorstBlur
    <2> QED BY <2>1, PoorScores
  <1>2. CASE Sample(f) # {}
    <2>1. SUFFICES ASSUME ~(QualityClass(f) \in PoorClasses) PROVE Readable(f)
      OBVIOUS
    <2>2. ~(WorstBlur(f) < 80) /\ ~(WorstNoise(f) >= 25)
          /\ ~(NoisyText(f) /\ FullPageRaster(f))
      BY <2>1, PoorScores
    <2>3. ASSUME NEW p \in Sample(f) PROVE p.blur >= 80 /\ p.noise < 25
      BY <1>2, <2>2, <2>3, WorstScores
    <2> QED BY <1>2, <2>2, <2>3 DEF Readable
  <1> QED BY <1>1, <1>2

(* The gate is decided before the first page is prepared, and for good.    *)
GateInv ==
  /\ pc = "profile" => file \in Files
  /\ pc # "profile" /\ file # NoFile => gateRequired \/ Readable(file)

LEMMA GateStep == GateInv /\ [Pipeline]_pipeVars => GateInv'
  <1> SUFFICES ASSUME GateInv, [Pipeline]_pipeVars PROVE GateInv'
    OBVIOUS
  <1>1. CASE Profile
    BY <1>1, PoorOrReadable DEF Profile, GateInv, Goto
  <1>2. CASE OpenPage \/ Encoded \/ AskMetadata \/ StageA \/ AskRows
    BY <1>2 DEF OpenPage, Encoded, AskMetadata, StageA, AskRows, Goto, GateInv
  <1>3. CASE LowerQuality \/ Shrink
    BY <1>3 DEF LowerQuality, Shrink, GateInv
  <1>4. CASE RenderError \/ NoPages \/ ProviderError
    BY <1>4 DEF RenderError, NoPages, ProviderError, Stop, Goto, intakeVars, GateInv
  <1>5. CASE StageB \/ OutputError
    BY <1>5 DEF StageB, OutputError, ForgetPages, Goto, GateInv
  <1>6. CASE Gate \/ Shape \/ MapTables \/ MapIdentity \/ Normalize \/ Finalize
    BY <1>6 DEF Gate, Shape, MapTables, MapIdentity, Normalize, Finalize, Goto,
       intakeVars, GateInv
  <1>7. CASE Reconcile \/ Assemble \/ Validate \/ Trace
    BY <1>7 DEF Reconcile, Assemble, Validate, Trace, Goto, intakeVars, GateInv
  <1>8. CASE UNCHANGED pipeVars
    BY <1>8 DEF pipeVars, intakeVars, GateInv
  <1> QED BY <1>1, <1>2, <1>3, <1>4, <1>5, <1>6, <1>7, <1>8 DEF Pipeline

(* A document with an unreadable page among those sampled has its          *)
(* identifiers gated, whatever the other pages and its text are like.      *)
THEOREM PoorSamplesGated == Spec => []PoorSamplesAreGated
  <1>1. Init => GateInv
    BY DEF Init, GateInv
  <1>2. GateInv => PoorSamplesAreGated
    BY DEF GateInv, PoorSamplesAreGated, Readable
  <1> QED BY <1>1, <1>2, GateStep, PTL DEF Spec

(* -------------------------------- folds --------------------------------- *)

(* What holds of zero and of the successor of every number that it holds   *)
(* of, holds of all: there is no least number that it fails for.           *)
LEMMA CountingUp ==
  ASSUME NEW T \in SUBSET Nat, 0 \in T, \A k \in T : k + 1 \in T
  PROVE  T = Nat
  <1>1. SUFFICES ASSUME Nat \ T # {} PROVE FALSE
    OBVIOUS
  <1>2. PICK x \in Nat \ T : \A y \in Nat \ T : x <= y
    BY <1>1, LeastNatural
  <1> QED BY <1>2

(* The same up to a number.                                                *)
CountsTo(n, T) ==
  T \in SUBSET (0..n) /\ 0 \in T /\ \A k \in T : k + 1 <= n => k + 1 \in T

LEMMA CountingTo ==
  ASSUME NEW n \in Nat, NEW T, CountsTo(n, T)
  PROVE  \A k \in 0..n : k \in T
  <1> DEFINE U == {k \in Nat : k <= n => k \in T}
  <1>1. 0 \in U
    BY DEF CountsTo
  <1>2. ASSUME NEW k \in U PROVE k + 1 \in U
    BY DEF CountsTo
  <1>3. U = Nat
    <2>1. U \in SUBSET Nat
      OBVIOUS
    <2> HIDE DEF U
    <2> QED BY <1>1, <1>2, <2>1, CountingUp
  <1> QED BY <1>3

(* A fold over 1..n is a table of what each set of indices comes to.       *)
FoldTable(it, n, base, step) ==
  \A s \in SUBSET (1..n) :
    it[s] = IF s = {} THEN base ELSE step[<<Max(s), it[s \ {Max(s)}]>>]

(* What the first k indices come to, for any k.                            *)
Unfolds(it, V, n, base, step) ==
  /\ it[{}] = base
  /\ \A k \in 1..n :
       it[1..(k-1)] \in V => it[1..k] = step[<<k, it[1..(k-1)]>>]

(* The values that a loop over 1..n goes through.                          *)
Chain(g, n, base, step) ==
  /\ g[0] = base
  /\ \A k \in 1..n : g[k] = step[<<k, g[k-1]>>]

(* That loop ends with what the fold comes to.                             *)
EndsAs(it, V, n, base, step) ==
  \E g \in [0..n -> V] : Chain(g, n, base, step) /\ it[1..n] = g[n]

(* Every fold has such a table.                                            *)
LEMMA FoldExists ==
  ASSUME NEW V, NEW base \in V, NEW n \in Nat,
         NEW step \in [(1..n) \X V -> V]
  PROVE  \E it \in [SUBSET (1..n) -> V] : FoldTable(it, n, base, step)
  <1> DEFINE Next(it, s) == IF s = {} THEN base
                            ELSE step[<<Max(s), it[s \ {Max(s)}]>>]
             Folds(k) == \E it \in [SUBSET (1..k) -> V] :
                           \A s \in SUBSET (1..k) : it[s] = Next(it, s)
             T == {k \in Nat : k <= n => Folds(k)}
  <1>1. Folds(0)
    <2> DEFINE it == [s \in SUBSET (1..0) |-> base]
    <2>1. /\ it \in [SUBSET (1..0) -> V]
          /\ \A s \in SUBSET (1..0) : it[s] = Next(it, s)
      OBVIOUS
    <2> QED BY <2>1
  <1>2. ASSUME NEW k \in Nat, k + 1 <= n, Folds(k) PROVE Folds(k + 1)
    <2>1. PICK g \in [SUBSET (1..k) -> V] :
                 \A s \in SUBSET (1..k) : g[s] = Next(g, s)
      BY <1>2
    <2> DEFINE it == [s \in SUBSET (1..(k+1)) |-> Next(g, s)]
    <2>2. ASSUME NEW s \in SUBSET (1..(k+1)), s # {}
          PROVE  s \ {Max(s)} \in SUBSET (1..k) /\ Max(s) \in 1..n
      <3>1. k + 1 \in Nat /\ s \subseteq 0..(k+1)
        OBVIOUS
      <3>2. Max(s) \in s /\ \A y \in s : Max(s) >= y
        BY <2>2, <3>1, MaxIsGreatest
      <3>3. Max(s) \in 1..(k+1) /\ Max(s) \in 1..n
        <4>1. Max(s) \in 1..(k+1)
          BY <3>2
        <4> QED BY <1>2, <4>1
      <3>4. \A y \in s \ {Max(s)} : y \in 1..(k+1) /\ Max(s) >= y /\ y # Max(s)
        BY <3>2
      <3>5. \A y \in s \ {Max(s)} : y \in 1..k
        BY <3>3, <3>4
      <3> QED BY <3>3, <3>5
    <2>3. \A s \in SUBSET (1..k) : it[s] = g[s]
      BY <2>1
    <2>4. it \in [SUBSET (1..(k+1)) -> V]
      BY <2>2
    <2>5. \A s \in SUBSET (1..(k+1)) : it[s] = Next(it, s)
      BY <2>2, <2>3
    <2> QED BY <2>4, <2>5
  <1>3. T = Nat
    <2> HIDE DEF Folds
    <2>1. 0 \in T /\ \A k \in T : k + 1 \in T
      BY <1>1, <1>2
    <2> HIDE DEF T
    <2>2. T \in SUBSET Nat
      BY DEF T
    <2> QED BY <2>1, <2>2, CountingUp
  <1>4. Folds(n)
    <2> HIDE DEF Folds
    <2> QED BY <1>3
  <1> QED BY <1>4 DEF FoldTable

(* The greatest of 1..k is k, and what is below it is 1..(k-1).            *)
LEMMA MaxOfInterval ==
  ASSUME NEW n \in Nat, NEW k \in 1..n
  PROVE  /\ 1..k \in SUBSET (1..n) /\ 1..k # {}
         /\ Max(1..k) = k
         /\ (1..k) \ {k} = 1..(k-1) /\ 1..(k-1) \in SUBSET (1..n)
  <1> DEFINE s == 1..k
             m == Max(s)
  <1>1. k \in Nat /\ s \in SUBSET (1..n) /\ s \subseteq 0..k /\ k \in s
    OBVIOUS
  <1>2. m \in s /\ \A y \in s : m >= y
    <2> HIDE DEF s
    <2> QED BY <1>1, MaxIsGreatest
  <1>3. m = k
    <2> HIDE DEF m
    <2>1. m \in 1..k /\ m >= k
      BY <1>1, <1>2
    <2> QED BY <2>1
  <1>4. (1..k) \ {k} = 1..(k-1) /\ 1..(k-1) \in SUBSET (1..n)
    OBVIOUS
  <1> QED BY <1>1, <1>3, <1>4

(* Some of the numbers 1..n have a greatest among them.                    *)
LEMMA MaxOfSome ==
  ASSUME NEW n \in Nat, NEW s \in SUBSET (1..n), s # {}
  PROVE  Max(s) \in 1..n
  <1>1. s \subseteq 0..n
    OBVIOUS
  <1> QED BY <1>1, MaxIsGreatest

(* What a fold comes to is what a loop over its indices ends with.         *)
LEMMA FoldChain ==
  ASSUME NEW V, NEW base \in V, NEW n \in Nat,
         NEW step \in [(1..n) \X V -> V],
         NEW c, Unfolds(c, V, n, base, step)
  PROVE  EndsAs(c, V, n, base, step)
  <1> DEFINE g == [k \in 0..n |-> c[1..k]]
             T == {k \in Nat : k <= n => c[1..k] \in V}
  <1>1. T = Nat
    <2>1. 0 \in T
      BY DEF Unfolds
    <2>2. ASSUME NEW k \in T PROVE k + 1 \in T
      <3>1. CASE k + 1 <= n
        <4>1. k + 1 \in 1..n /\ (k + 1) - 1 = k /\ c[1..k] \in V
          BY <3>1
        <4>2. c[1..(k+1)] = step[<<k + 1, c[1..k]>>]
          BY <4>1 DEF Unfolds
        <4> QED BY <4>1, <4>2
      <3> QED BY <3>1
    <2> HIDE DEF T
    <2>3. T \in SUBSET Nat
      BY DEF T
    <2> QED BY <2>1, <2>2, <2>3, CountingUp
  <1>2. \A k \in 0..n : c[1..k] \in V
    BY <1>1
  <1>3. g \in [0..n -> V] /\ g[0] = base /\ c[1..n] = g[n]
    BY <1>2 DEF Unfolds
  <1>4. ASSUME NEW k \in 1..n PROVE g[k] = step[<<k, g[k-1]>>]
    <2>1. k - 1 \in 0..n /\ k \in 0..n
      OBVIOUS
    <2> QED BY <1>2, <2>1 DEF Unfolds
  <1> QED BY <1>3, <1>4 DEF Chain, EndsAs

(* ------------------------------ evidence -------------------------------- *)

ViewNames ==
  {"denoised", "adaptive_binary", "contrast", "sharpened", "table_crop",
   "full_gray"}

EvidenceBlocks ==
  [page : Nat, view : ViewNames, role : {"table_crop", "binary", "full_page"},
   size : Nat]

PreparedPages ==
  [table : BOOLEAN, views : Seq(ViewNames), main : ViewNames, size : Nat]

(* An image adds a number of bytes to a request.                           *)
LEMMA EncodedBytesType ==
  ASSUME NEW b \in EvidenceBlocks
  PROVE  EncodedBytes(b) \in Nat
  BY DEF EncodedBytes, EvidenceBlocks

(* estimate_request_bytes adds block after block.                          *)
RequestChain(g, bs) ==
  /\ g \in [0..Len(bs) -> Nat]
  /\ g[0] = PromptBytes
  /\ \A k \in 1..Len(bs) : g[k] = g[k-1] + EncodedBytes(bs[k])
  /\ RequestBytes(bs) = g[Len(bs)]

LEMMA RequestFold ==
  ASSUME NEW bs \in Seq(EvidenceBlocks)
  PROVE  \E g : RequestChain(g, bs)
  <1> DEFINE n == Len(bs)
             V == Nat
             base == PromptBytes
             Add(v, k) == v + EncodedBytes(bs[k])
             Next(it, s) == IF s = {} THEN base
                            ELSE LET x == Max(s) IN Add(it[s \ {x}], x)
             F(it) == [s \in SUBSET DOMAIN bs |-> Next(it, s)]
             step == [p \in (1..n) \X V |-> Add(p[2], p[1])]
             c == CHOOSE it : it = F(it)
  <1>1. RequestBytes(bs) = c[DOMAIN bs]
    BY DEF RequestBytes, FoldLeft, MapThenFoldSet
  <1>2. n \in Nat /\ DOMAIN bs = 1..n /\ base \in V
    BY DEF PromptBytes
  <1>3. ASSUME NEW k \in 1..n, NEW v \in V PROVE Add(v, k) \in V
    BY EncodedBytesType
  <1> HIDE DEF n, V, base, Add
  <1>4. /\ step \in [(1..n) \X V -> V]
        /\ \A k \in 1..n, v \in V : step[<<k, v>>] = Add(v, k)
    BY <1>3
  <1> HIDE DEF step
  <1>5. \E it : it = F(it)
    <2>1. PICK it \in [SUBSET (1..n) -> V] : FoldTable(it, n, base, step)
      BY <1>2, <1>4, FoldExists
    <2>2. ASSUME NEW s \in SUBSET (1..n), s # {}
          PROVE  it[s] = Add(it[s \ {Max(s)}], Max(s))
      BY <1>2, <1>4, <2>1, <2>2, MaxOfSome DEF FoldTable
    <2>3. it[{}] = base
      BY <2>1 DEF FoldTable
    <2> QED BY <1>2, <2>2, <2>3
  <1>6. c = F(c)
    <2> HIDE DEF F
    <2> QED BY <1>5
  <1> HIDE DEF c
  <1>7. Unfolds(c, V, n, base, step)
    <2>1. ASSUME NEW k \in 1..n, c[1..(k-1)] \in V
          PROVE  c[1..k] = step[<<k, c[1..(k-1)]>>]
      <3>1. /\ 1..k \in SUBSET DOMAIN bs /\ 1..k # {} /\ Max(1..k) = k
            /\ (1..k) \ {k} = 1..(k-1)
        BY <1>2, MaxOfInterval
      <3>2. c[1..k] = Next(c, 1..k)
        BY <1>6, <3>1
      <3> QED BY <1>4, <2>1, <3>1, <3>2
    <2> QED BY <1>6, <2>1 DEF Unfolds
  <1> HIDE DEF F, Next
  <1>8. EndsAs(c, V, n, base, step)
    <2>1. n \in Nat /\ base \in V /\ step \in [(1..n) \X V -> V]
      BY <1>2, <1>4
    <2> QED BY <1>7, <2>1, FoldChain
  <1>9. PICK g \in [0..n -> V] : Chain(g, n, base, step) /\ c[1..n] = g[n]
    BY <1>8 DEF EndsAs
  <1>10. \A k \in 1..n : g[k] = Add(g[k-1], k)
    <2>1. \A k \in 1..n : k - 1 \in 0..n
      BY <1>2
    <2> QED BY <1>4, <1>9, <2>1 DEF Chain
  <1> QED BY <1>1, <1>2, <1>9, <1>10 DEF Chain, n, V, base, Add, RequestChain

(* Blocks of one role are picked one after the other.                      *)
RoleChain(g, bs, role) ==
  /\ g \in [0..Len(bs) -> Seq(EvidenceBlocks)]
  /\ g[0] = <<>>
  /\ \A k \in 1..Len(bs) :
       g[k] = IF bs[k].role = role THEN Append(g[k-1], bs[k]) ELSE g[k-1]
  /\ OfRole(bs, role) = g[Len(bs)]

LEMMA OfRoleFold ==
  ASSUME NEW bs \in Seq(EvidenceBlocks), NEW role
  PROVE  \E g : RoleChain(g, bs, role)
  <1> DEFINE n == Len(bs)
             V == Seq(EvidenceBlocks)
             base == <<>>
             Add(v, k) == IF bs[k].role = role THEN Append(v, bs[k]) ELSE v
             Next(it, s) == IF s = {} THEN base
                            ELSE LET x == Max(s) IN Add(it[s \ {x}], x)
             F(it) == [s \in SUBSET DOMAIN bs |-> Next(it, s)]
             step == [p \in (1..n) \X V |-> Add(p[2], p[1])]
             c == CHOOSE it : it = F(it)
  <1>1. OfRole(bs, role) = c[DOMAIN bs]
    BY DEF OfRole, FoldLeft, MapThenFoldSet
  <1>2. n \in Nat /\ DOMAIN bs = 1..n /\ base \in V
    OBVIOUS
  <1>3. ASSUME NEW k \in 1..n, NEW v \in V PROVE Add(v, k) \in V
    OBVIOUS
  <1> HIDE DEF n, V, base, Add
  <1>4. /\ step \in [(1..n) \X V -> V]
        /\ \A k \in 1..n, v \in V : step[<<k, v>>] = Add(v, k)
    BY <1>3
  <1> HIDE DEF step
  <1>5. \E it : it = F(it)
    <2>1. PICK it \in [SUBSET (1..n) -> V] : FoldTable(it, n, base, step)
      BY <1>2, <1>4, FoldExists
    <2>2. ASSUME NEW s \in SUBSET (1..n), s # {}
          PROVE  it[s] = Add(it[s \ {Max(s)}], Max(s))
      BY <1>2, <1>4, <2>1, <2>2, MaxOfSome DEF FoldTable
    <2>3. it[{}] = base
      BY <2>1 DEF FoldTable
    <2> QED BY <1>2, <2>2, <2>3
  <1>6. c = F(c)
    <2> HIDE DEF F
    <2> QED BY <1>5
  <1> HIDE DEF c
  <1>7. Unfolds(c, V, n, base, step)
    <2>1. ASSUME NEW k \in 1..n, c[1..(k-1)] \in V
          PROVE  c[1..k] = step[<<k, c[1..(k-1)]>>]
      <3>1. /\ 1..k \in SUBSET DOMAIN bs /\ 1..k # {} /\ Max(1..k) = k
            /\ (1..k) \ {k} = 1..(k-1)
        BY <1>2, MaxOfInterval
      <3>2. c[1..k] = Next(c, 1..k)
        BY <1>6, <3>1
      <3> QED BY <1>4, <2>1, <3>1, <3>2
    <2> QED BY <1>6, <2>1 DEF Unfolds
  <1> HIDE DEF F, Next
  <1>8. EndsAs(c, V, n, base, step)
    <2>1. n \in Nat /\ base \in V /\ step \in [(1..n) \X V -> V]
      BY <1>2, <1>4
    <2> QED BY <1>7, <2>1, FoldChain
  <1>9. PICK g \in [0..n -> V] : Chain(g, n, base, step) /\ c[1..n] = g[n]
    BY <1>8 DEF EndsAs
  <1>10. \A k \in 1..n : g[k] = Add(g[k-1], k)
    <2>1. \A k \in 1..n : k - 1 \in 0..n
      BY <1>2
    <2> QED BY <1>4, <1>9, <2>1 DEF Chain
  <1> QED BY <1>1, <1>2, <1>9, <1>10 DEF Chain, n, V, base, Add, RoleChain

(* select_row_evidence adds the views of a page that it has not added yet. *)
ViewChain(g, page) ==
  /\ g \in [0..Len(page.views) -> Seq(ViewNames)]
  /\ g[0] = IF page.table THEN TableViews ELSE <<>>
  /\ \A k \in 1..Len(page.views) :
       g[k] = IF page.views[k] \in Range(g[k-1]) THEN g[k-1]
              ELSE Append(g[k-1], page.views[k])
  /\ RowViews(page) = g[Len(page.views)]

LEMMA RowViewsFold ==
  ASSUME NEW page \in PreparedPages
  PROVE  \E g : ViewChain(g, page)
  <1> DEFINE bs == page.views
  <1>0. bs \in Seq(ViewNames)
    BY DEF PreparedPages
  <1> DEFINE n == Len(bs)
             V == Seq(ViewNames)
             base == IF page.table THEN TableViews ELSE <<>>
             Add(v, k) == IF bs[k] \in Range(v) THEN v ELSE Append(v, bs[k])
             Next(it, s) == IF s = {} THEN base
                            ELSE LET x == Max(s) IN Add(it[s \ {x}], x)
             F(it) == [s \in SUBSET DOMAIN bs |-> Next(it, s)]
             step == [p \in (1..n) \X V |-> Add(p[2], p[1])]
             c == CHOOSE it : it = F(it)
  <1>1. RowViews(page) = c[DOMAIN bs]
    BY DEF RowViews, FoldLeft, MapThenFoldSet
  <1>2. n \in Nat /\ DOMAIN bs = 1..n /\ base \in V
    <2>1. TableViews \in Seq(ViewNames) /\ <<>> \in Seq(ViewNames)
      BY DEF TableViews, ViewNames
    <2> HIDE DEF bs
    <2> QED BY <1>0, <2>1
  <1>3. ASSUME NEW k \in 1..n, NEW v \in V PROVE Add(v, k) \in V
    <2>1. bs[k] \in ViewNames
      BY <1>0
    <2> HIDE DEF bs
    <2> QED BY <2>1
  <1> HIDE DEF n, V, base, Add
  <1>4. /\ step \in [(1..n) \X V -> V]
        /\ \A k \in 1..n, v \in V : step[<<k, v>>] = Add(v, k)
    BY <1>3
  <1> HIDE DEF step
  <1>5. \E it : it = F(it)
    <2>1. PICK it \in [SUBSET (1..n) -> V] : FoldTable(it, n, base, step)
      BY <1>2, <1>4, FoldExists
    <2>2. ASSUME NEW s \in SUBSET (1..n), s # {}
          PROVE  it[s] = Add(it[s \ {Max(s)}], Max(s))
      BY <1>2, <1>4, <2>1, <2>2, MaxOfSome DEF FoldTable
    <2>3. it[{}] = base
      BY <2>1 DEF FoldTable
    <2> QED BY <1>2, <2>2, <2>3
  <1>6. c = F(c)
    <2> HIDE DEF F
    <2> QED BY <1>5
  <1> HIDE DEF c
  <1>7. Unfolds(c, V, n, base, step)
    <2>1. ASSUME NEW k \in 1..n, c[1..(k-1)] \in V
          PROVE  c[1..k] = step[<<k, c[1..(k-1)]>>]
      <3>1. /\ 1..k \in SUBSET DOMAIN bs /\ 1..k # {} /\ Max(1..k) = k
            /\ (1..k) \ {k} = 1..(k-1)
        BY <1>2, MaxOfInterval
      <3>2. c[1..k] = Next(c, 1..k)
        BY <1>6, <3>1
      <3> QED BY <1>4, <2>1, <3>1, <3>2
    <2> QED BY <1>6, <2>1 DEF Unfolds
  <1> HIDE DEF F, Next
  <1>8. EndsAs(c, V, n, base, step)
    <2>1. n \in Nat /\ base \in V /\ step \in [(1..n) \X V -> V]
      BY <1>2, <1>4
    <2> QED BY <1>7, <2>1, FoldChain
  <1>9. PICK g \in [0..n -> V] : Chain(g, n, base, step) /\ c[1..n] = g[n]
    BY <1>8 DEF EndsAs
  <1>10. \A k \in 1..n : g[k] = Add(g[k-1], k)
    <2>1. \A k \in 1..n : k - 1 \in 0..n
      BY <1>2
    <2> QED BY <1>4, <1>9, <2>1 DEF Chain
  <1> QED BY <1>1, <1>2, <1>9, <1>10 DEF Chain, n, V, base, Add, ViewChain

(* What pack_evidence adds of a sequence of blocks.                        *)
Filled(all) ==
  FoldLeft(LAMBDA packed, b :
             IF RequestBytes(Append(packed, b)) <= MaxRequest
             THEN Append(packed, b) ELSE packed, <<>>, all)

PackChain(g, bs) ==
  /\ g \in [0..Len(bs) -> Seq(EvidenceBlocks)]
  /\ g[0] = <<>>
  /\ \A k \in 1..Len(bs) :
       g[k] = IF RequestBytes(Append(g[k-1], bs[k])) <= MaxRequest
              THEN Append(g[k-1], bs[k]) ELSE g[k-1]
  /\ Filled(bs) = g[Len(bs)]

LEMMA PackFold ==
  ASSUME NEW bs \in Seq(EvidenceBlocks)
  PROVE  \E g : PackChain(g, bs)
  <1> DEFINE n == Len(bs)
             V == Seq(EvidenceBlocks)
             base == <<>>
             Add(v, k) == IF RequestBytes(Append(v, bs[k])) <= MaxRequest
                          THEN Append(v, bs[k]) ELSE v
             Next(it, s) == IF s = {} THEN base
                            ELSE LET x == Max(s) IN Add(it[s \ {x}], x)
             F(it) == [s \in SUBSET DOMAIN bs |-> Next(it, s)]
             step == [p \in (1..n) \X V |-> Add(p[2], p[1])]
             c == CHOOSE it : it = F(it)
  <1>1. Filled(bs) = c[DOMAIN bs]
    BY DEF Filled, FoldLeft, MapThenFoldSet
  <1>2. n \in Nat /\ DOMAIN bs = 1..n /\ base \in V
    OBVIOUS
  <1>3. ASSUME NEW k \in 1..n, NEW v \in V PROVE Add(v, k) \in V
    OBVIOUS
  <1> HIDE DEF n, V, base, Add
  <1>4. /\ step \in [(1..n) \X V -> V]
        /\ \A k \in 1..n, v \in V : step[<<k, v>>] = Add(v, k)
    BY <1>3
  <1> HIDE DEF step
  <1>5. \E it : it = F(it)
    <2>1. PICK it \in [SUBSET (1..n) -> V] : FoldTable(it, n, base, step)
      BY <1>2, <1>4, FoldExists
    <2>2. ASSUME NEW s \in SUBSET (1..n), s # {}
          PROVE  it[s] = Add(it[s \ {Max(s)}], Max(s))
      BY <1>2, <1>4, <2>1, <2>2, MaxOfSome DEF FoldTable
    <2>3. it[{}] = base
      BY <2>1 DEF FoldTable
    <2> QED BY <1>2, <2>2, <2>3
  <1>6. c = F(c)
    <2> HIDE DEF F
    <2> QED BY <1>5
  <1> HIDE DEF c
  <1>7. Unfolds(c, V, n, base, step)
    <2>1. ASSUME NEW k \in 1..n, c[1..(k-1)] \in V
          PROVE  c[1..k] = step[<<k, c[1..(k-1)]>>]
      <3>1. /\ 1..k \in SUBSET DOMAIN bs /\ 1..k # {} /\ Max(1..k) = k
            /\ (1..k) \ {k} = 1..(k-1)
        BY <1>2, MaxOfInterval
      <3>2. c[1..k] = Next(c, 1..k)
        BY <1>6, <3>1
      <3> QED BY <1>4, <2>1, <3>1, <3>2
    <2> QED BY <1>6, <2>1 DEF Unfolds
  <1> HIDE DEF F, Next
  <1>8. EndsAs(c, V, n, base, step)
    <2>1. n \in Nat /\ base \in V /\ step \in [(1..n) \X V -> V]
      BY <1>2, <1>4
    <2> QED BY <1>7, <2>1, FoldChain
  <1>9. PICK g \in [0..n -> V] : Chain(g, n, base, step) /\ c[1..n] = g[n]
    BY <1>8 DEF EndsAs
  <1>10. \A k \in 1..n : g[k] = Add(g[k-1], k)
    <2>1. \A k \in 1..n : k - 1 \in 0..n
      BY <1>2
    <2> QED BY <1>4, <1>9, <2>1 DEF Chain
  <1> QED BY <1>1, <1>2, <1>9, <1>10 DEF Chain, n, V, base, Add, PackChain

(* What a sequence shows once a block is appended.                         *)
LEMMA AppendedRange ==
  ASSUME NEW S, NEW q \in Seq(S), NEW x \in S
  PROVE  Range(q) \subseteq Range(Append(q, x)) /\ x \in Range(Append(q, x))
  <1>1. /\ Len(q) \in Nat /\ DOMAIN q = 1..Len(q)
        /\ DOMAIN Append(q, x) = 1..(Len(q) + 1)
        /\ \A i \in 1..Len(q) : Append(q, x)[i] = q[i]
        /\ Append(q, x)[Len(q) + 1] = x
    OBVIOUS
  <1> QED BY <1>1 DEF Range

(* A request is at least as large as the requests with its first blocks.   *)
LEMMA RequestGrows ==
  ASSUME NEW bs \in Seq(EvidenceBlocks), NEW k \in 0..Len(bs)
  PROVE  /\ RequestBytes(bs) \in Nat
         /\ RequestBytes(SubSeq(bs, 1, k)) <= RequestBytes(bs)
  <1> DEFINE n == Len(bs)
             ps == SubSeq(bs, 1, k)
  <1>1. /\ n \in Nat /\ k \in Nat /\ k <= n
        /\ ps \in Seq(EvidenceBlocks) /\ Len(ps) = k
        /\ \A j \in 1..k : ps[j] = bs[j]
        /\ \A j \in 1..n : bs[j] \in EvidenceBlocks
    OBVIOUS
  <1> HIDE DEF ps
  <1>2. PICK g : RequestChain(g, bs)
    BY RequestFold
  <1>3. PICK h : RequestChain(h, ps)
    BY <1>1, RequestFold
  <1>4. /\ \A j \in 0..n : g[j] \in Nat
        /\ g[0] = PromptBytes /\ RequestBytes(bs) = g[n]
        /\ \A j \in 1..n : g[j] = g[j-1] + EncodedBytes(bs[j])
    <2> HIDE DEF n
    <2>1. /\ g \in [0..n -> Nat] /\ g[0] = PromptBytes /\ RequestBytes(bs) = g[n]
          /\ \A j \in 1..n : g[j] = g[j-1] + EncodedBytes(bs[j])
      BY <1>2, Zenon DEF RequestChain, n
    <2>2. \A j \in 0..n : g[j] \in Nat
      BY <2>1
    <2> QED BY <2>1, <2>2, Zenon
  <1>5. /\ h[0] = PromptBytes /\ RequestBytes(ps) = h[k]
        /\ \A j \in 1..k : h[j] = h[j-1] + EncodedBytes(bs[j])
    BY <1>1, <1>3 DEF RequestChain
  <1> HIDE DEF n
  <1>6. h[k] = g[k]
    <2> DEFINE T == {j \in 0..k : h[j] = g[j]}
    <2>1. 0 \in T /\ T \in SUBSET (0..k)
      BY <1>1, <1>4, <1>5
    <2>2. ASSUME NEW j \in T, j + 1 <= k PROVE j + 1 \in T
      <3>1. j + 1 \in 1..k /\ j + 1 \in 1..n /\ (j + 1) - 1 = j /\ h[j] = g[j]
        BY <1>1, <2>2
      <3>2. h[j+1] = h[j] + EncodedBytes(bs[j+1])
        BY <1>5, <3>1
      <3>3. g[j+1] = g[j] + EncodedBytes(bs[j+1])
        BY <1>4, <3>1
      <3> QED BY <3>1, <3>2, <3>3
    <2> HIDE DEF T
    <2>3. CountsTo(k, T)
      BY <2>1, <2>2 DEF CountsTo
    <2>4. k \in T
      BY <1>1, <2>3, CountingTo
    <2> QED BY <2>4 DEF T
  <1>7. g[k] <= g[n]
    <2> DEFINE T == {j \in 0..n : k <= j => g[k] <= g[j]}
    <2>1. 0 \in T /\ T \in SUBSET (0..n)
      BY <1>1, <1>4
    <2>2. ASSUME NEW j \in T, j + 1 <= n PROVE j + 1 \in T
      <3>1. j + 1 \in 1..n /\ (j + 1) - 1 = j /\ j \in 0..n /\ k \in 0..n
        BY <1>1, <2>2
      <3>2. EncodedBytes(bs[j+1]) \in Nat
        BY <1>1, <3>1, EncodedBytesType
      <3>3. g[j] \in Nat /\ g[k] \in Nat /\ g[j+1] = g[j] + EncodedBytes(bs[j+1])
        BY <1>4, <3>1
      <3> QED BY <2>2, <3>1, <3>2, <3>3
    <2> HIDE DEF T
    <2>3. CountsTo(n, T)
      BY <2>1, <2>2 DEF CountsTo
    <2>4. n \in T
      BY <1>1, <2>3, CountingTo
    <2> QED BY <1>1, <2>4 DEF T
  <1>8. g[n] \in Nat
    BY <1>1, <1>4
  <1> QED BY <1>4, <1>5, <1>6, <1>7, <1>8 DEF ps

(* No block of a role is left out.                                         *)
LEMMA OfRoleIsComplete ==
  ASSUME NEW bs \in Seq(EvidenceBlocks), NEW role
  PROVE  /\ OfRole(bs, role) \in Seq(EvidenceBlocks)
         /\ \A i \in 1..Len(bs) :
              bs[i].role = role => bs[i] \in Range(OfRole(bs, role))
  <1> DEFINE n == Len(bs)
             Holds(g, k) == \A i \in 1..k : bs[i].role = role => bs[i] \in Range(g[k])
  <1>1. PICK g : RoleChain(g, bs, role)
    BY OfRoleFold
  <1>2. /\ n \in Nat /\ g \in [0..n -> Seq(EvidenceBlocks)]
        /\ \A k \in 1..n : bs[k] \in EvidenceBlocks
        /\ \A k \in 1..n :
             g[k] = IF bs[k].role = role THEN Append(g[k-1], bs[k]) ELSE g[k-1]
        /\ OfRole(bs, role) = g[n]
    <2>1. n \in Nat /\ \A k \in 1..n : bs[k] \in EvidenceBlocks
      OBVIOUS
    <2> QED BY <1>1, <2>1, Zenon DEF RoleChain
  <1> HIDE DEF n
  <1> DEFINE T == {k \in 0..n : Holds(g, k)}
  <1>3. 0 \in T /\ T \in SUBSET (0..n)
    BY <1>2
  <1>4. ASSUME NEW k \in T, k + 1 <= n PROVE k + 1 \in T
    <2>1. /\ k + 1 \in 1..n /\ k + 1 \in 0..n /\ (k + 1) - 1 = k /\ k \in 0..n
          /\ Holds(g, k)
      BY <1>2, <1>4
    <2>2. g[k] \in Seq(EvidenceBlocks) /\ bs[k+1] \in EvidenceBlocks
      BY <1>2, <2>1
    <2>3. g[k+1] = IF bs[k+1].role = role THEN Append(g[k], bs[k+1]) ELSE g[k]
      BY <1>2, <2>1
    <2>4. Range(g[k]) \subseteq Range(g[k+1])
      BY <2>2, <2>3, AppendedRange
    <2>5. bs[k+1].role = role => bs[k+1] \in Range(g[k+1])
      BY <2>2, <2>3, AppendedRange
    <2>6. ASSUME NEW i \in 1..(k+1), bs[i].role = role
          PROVE  bs[i] \in Range(g[k+1])
      <3>1. i \in 1..k \/ i = k + 1
        BY <2>1
      <3> QED BY <2>1, <2>4, <2>5, <2>6, <3>1
    <2> QED BY <2>1, <2>6
  <1>5. n \in T
    <2> HIDE DEF T
    <2>1. CountsTo(n, T)
      BY <1>3, <1>4 DEF CountsTo
    <2> QED BY <1>2, <2>1, CountingTo
  <1> QED BY <1>2, <1>5 DEF n

(* The views of a page with a table show the table.                        *)
LEMMA TableIsShown ==
  ASSUME NEW page \in PreparedPages
  PROVE  /\ RowViews(page) \in Seq(ViewNames)
         /\ page.table => "table_crop" \in Range(RowViews(page))
  <1> DEFINE vs == page.views
             n == Len(vs)
             Holds(g, k) == page.table => "table_crop" \in Range(g[k])
  <1>1. PICK g : ViewChain(g, page)
    BY RowViewsFold
  <1>2. vs \in Seq(ViewNames)
    BY DEF PreparedPages
  <1>3. /\ n \in Nat /\ g \in [0..n -> Seq(ViewNames)]
        /\ \A k \in 1..n : vs[k] \in ViewNames
        /\ g[0] = IF page.table THEN TableViews ELSE <<>>
        /\ \A k \in 1..n :
             g[k] = IF vs[k] \in Range(g[k-1]) THEN g[k-1]
                    ELSE Append(g[k-1], vs[k])
        /\ RowViews(page) = g[n]
    <2>1. n \in Nat /\ \A k \in 1..n : vs[k] \in ViewNames
      BY <1>2
    <2> QED BY <1>1, <2>1, Zenon DEF ViewChain
  <1> HIDE DEF vs, n
  <1> DEFINE T == {k \in 0..n : Holds(g, k)}
  <1>4. 0 \in T /\ T \in SUBSET (0..n)
    <2>1. "table_crop" \in Range(TableViews)
      BY DEF TableViews, Range
    <2> QED BY <1>3, <2>1
  <1>5. ASSUME NEW k \in T, k + 1 <= n PROVE k + 1 \in T
    <2>1. /\ k + 1 \in 1..n /\ k + 1 \in 0..n /\ (k + 1) - 1 = k /\ k \in 0..n
          /\ Holds(g, k)
      BY <1>3, <1>5
    <2>2. g[k] \in Seq(ViewNames) /\ vs[k+1] \in ViewNames
      BY <1>3, <2>1
    <2>3. g[k+1] = IF vs[k+1] \in Range(g[k]) THEN g[k] ELSE Append(g[k], vs[k+1])
      BY <1>3, <2>1
    <2>4. Range(g[k]) \subseteq Range(g[k+1])
      BY <2>2, <2>3, AppendedRange
    <2> QED BY <2>1, <2>4
  <1>6. n \in T
    <2> HIDE DEF T
    <2>1. CountsTo(n, T)
      BY <1>4, <1>5 DEF CountsTo
    <2> QED BY <1>3, <2>1, CountingTo
  <1> QED BY <1>3, <1>6

(* Putting sequences one behind the other loses no element of any.         *)
LEMMA JoinedRange ==
  ASSUME NEW S, NEW p \in Seq(S), NEW q \in Seq(S)
  PROVE  /\ p \o q \in Seq(S)
         /\ Range(p) \subseteq Range(p \o q) /\ Range(q) \subseteq Range(p \o q)
  <1>1. /\ Len(p) \in Nat /\ Len(q) \in Nat /\ DOMAIN p = 1..Len(p)
        /\ DOMAIN q = 1..Len(q) /\ DOMAIN (p \o q) = 1..(Len(p) + Len(q))
        /\ \A i \in 1..Len(p) : (p \o q)[i] = p[i]
        /\ \A i \in 1..Len(q) : (p \o q)[Len(p) + i] = q[i]
    OBVIOUS
  <1>2. \A i \in 1..Len(q) : Len(p) + i \in 1..(Len(p) + Len(q))
    BY <1>1
  <1>3. \A i \in 1..Len(p) : i \in 1..(Len(p) + Len(q))
    BY <1>1
  <1>4. Range(p) \subseteq Range(p \o q)
    BY <1>1, <1>3 DEF Range
  <1>5. Range(q) \subseteq Range(p \o q)
    BY <1>1, <1>2 DEF Range
  <1> QED BY <1>4, <1>5

FlatChain(g, seqs) ==
  /\ g \in [1..Len(seqs) -> Seq(EvidenceBlocks)]
  /\ \A i \in 1..Len(seqs) :
       g[i] = IF i = 1 THEN seqs[i] ELSE g[i-1] \o seqs[i]
  /\ FlattenSeq(seqs) = g[Len(seqs)]

(* Joining the pages' blocks is a chain of joinings.                       *)
LEMMA FlattenFold ==
  ASSUME NEW seqs \in Seq(Seq(EvidenceBlocks)), Len(seqs) # 0
  PROVE  \E g : FlatChain(g, seqs)
  <1> DEFINE n == Len(seqs)
             V == Seq(EvidenceBlocks)
             Add(v, k) == IF k = 1 THEN seqs[k] ELSE v \o seqs[k]
             F(it) == [k \in 1..n |-> IF k = 1 THEN seqs[k] ELSE it[k-1] \o seqs[k]]
             step == [p \in (1..n) \X V |-> Add(p[2], p[1])]
             c == CHOOSE it : it = F(it)
  <1>1. FlattenSeq(seqs) = c[n]
    BY DEF FlattenSeq
  <1>2. n \in Nat /\ n \in 1..n /\ <<>> \in V
    OBVIOUS
  <1>3. ASSUME NEW k \in 1..n, NEW v \in V PROVE Add(v, k) \in V
    <2>1. seqs[k] \in V
      OBVIOUS
    <2> HIDE DEF n
    <2> QED BY <2>1
  <1> HIDE DEF n, V, Add
  <1>4. /\ step \in [(1..n) \X V -> V]
        /\ \A k \in 1..n, v \in V : step[<<k, v>>] = Add(v, k)
    BY <1>3
  <1> HIDE DEF step
  <1>5. PICK it \in [SUBSET (1..n) -> V] : FoldTable(it, n, <<>>, step)
    BY <1>2, <1>4, FoldExists
  <1>6. ASSUME NEW k \in 1..n PROVE it[1..k] = Add(it[1..(k-1)], k)
    <2>1. /\ 1..k \in SUBSET (1..n) /\ 1..k # {} /\ Max(1..k) = k
          /\ (1..k) \ {k} = 1..(k-1) /\ 1..(k-1) \in SUBSET (1..n)
      BY <1>2, MaxOfInterval
    <2>2. it[1..k] = step[<<k, it[1..(k-1)]>>]
      BY <1>5, <2>1 DEF FoldTable
    <2> QED BY <1>4, <2>1, <2>2
  <1>7. \E g : g = F(g)
    <2> DEFINE g == [k \in 1..n |-> it[1..k]]
    <2>1. ASSUME NEW k \in 1..n
          PROVE  g[k] = IF k = 1 THEN seqs[k] ELSE g[k-1] \o seqs[k]
      <3>1. CASE k = 1
        BY <1>6, <3>1 DEF Add
      <3>2. CASE k # 1
        <4>1. k - 1 \in 1..n
          BY <1>2, <3>2
        <4> QED BY <1>6, <3>2, <4>1 DEF Add
      <3> QED BY <3>1, <3>2
    <2>2. g = F(g)
      BY <2>1
    <2> QED BY <2>2
  <1>8. c = F(c)
    <2> HIDE DEF F
    <2> QED BY <1>7
  <1> HIDE DEF c
  <1>9. \A k \in 1..n : c[k] = IF k = 1 THEN seqs[k] ELSE c[k-1] \o seqs[k]
    BY <1>8
  <1> HIDE DEF F
  <1> DEFINE T == {k \in 0..n : k # 0 => c[k] \in V}
  <1>10. n \in T /\ \A k \in 0..n : k \in T
    <2>1. 0 \in T /\ T \in SUBSET (0..n)
      BY <1>2
    <2>2. ASSUME NEW k \in T, k + 1 <= n PROVE k + 1 \in T
      <3>1. k + 1 \in 1..n /\ (k + 1) - 1 = k /\ k + 1 \in 0..n
        BY <1>2, <2>2
      <3>2. seqs[k+1] \in V
        BY <3>1 DEF n, V
      <3>3. CASE k = 0
        BY <1>9, <3>1, <3>2, <3>3
      <3>4. CASE k # 0
        <4>1. k + 1 # 1 /\ c[k] \in V
          BY <2>2, <3>4
        <4>2. c[k+1] = c[k] \o seqs[k+1]
          BY <1>9, <3>1, <4>1
        <4>3. c[k+1] \in V
          BY <3>2, <4>1, <4>2 DEF V
        <4> QED BY <3>1, <4>3
      <3> QED BY <3>3, <3>4
    <2> HIDE DEF T
    <2>3. CountsTo(n, T)
      BY <2>1, <2>2 DEF CountsTo
    <2> QED BY <1>2, <2>3, CountingTo
  <1>11. c \in [1..n -> V]
    <2>1. \A k \in 1..n : c[k] \in V
      BY <1>10
    <2>2. c = [k \in 1..n |-> c[k]]
      BY <1>8 DEF F
    <2> QED BY <2>1, <2>2
  <1>12. FlatChain(c, seqs)
    BY <1>1, <1>9, <1>11, Zenon DEF FlatChain, n, V
  <1> QED BY <1>12

(* Every block of every page is in the joined sequence.                    *)
LEMMA FlattenIsComplete ==
  ASSUME NEW seqs \in Seq(Seq(EvidenceBlocks))
  PROVE  /\ FlattenSeq(seqs) \in Seq(EvidenceBlocks)
         /\ \A i \in 1..Len(seqs) : Range(seqs[i]) \subseteq Range(FlattenSeq(seqs))
  <1>1. CASE Len(seqs) = 0
    BY <1>1 DEF FlattenSeq
  <1>2. CASE Len(seqs) # 0
    <2> DEFINE n == Len(seqs)
    <2>1. PICK g : FlatChain(g, seqs)
      BY <1>2, FlattenFold
    <2>2. /\ n \in Nat /\ n # 0 /\ \A k \in 1..n : seqs[k] \in Seq(EvidenceBlocks)
      BY <1>2
    <2>3. /\ g \in [1..n -> Seq(EvidenceBlocks)]
          /\ \A i \in 1..n : g[i] = IF i = 1 THEN seqs[i] ELSE g[i-1] \o seqs[i]
          /\ FlattenSeq(seqs) = g[n]
      BY <2>1, Zenon DEF FlatChain
    <2> HIDE DEF n
    <2> DEFINE Holds(k) == \A i \in 1..k : Range(seqs[i]) \subseteq Range(g[k])
               T == {k \in 0..n : Holds(k)}
    <2>4. 0 \in T /\ T \in SUBSET (0..n)
      BY <2>2
    <2>5. ASSUME NEW k \in T, k + 1 <= n PROVE k + 1 \in T
      <3>1. k + 1 \in 1..n /\ k + 1 \in 0..n /\ (k + 1) - 1 = k /\ k \in 0..n
            /\ Holds(k)
        BY <2>2, <2>5
      <3>2. seqs[k+1] \in Seq(EvidenceBlocks)
        BY <2>2, <3>1
      <3>3. CASE k = 0
        <4>1. g[k+1] = seqs[k+1]
          <5>1. k + 1 = 1
            BY <3>3
          <5> QED BY <2>3, <3>1, <5>1
        <4>2. 1..(k+1) = {k + 1}
          BY <3>3
        <4>3. Holds(k + 1)
          BY <4>1, <4>2
        <4> QED BY <3>1, <4>3
      <3>4. CASE k # 0
        <4>1. k \in 1..n /\ k + 1 # 1
          BY <3>1, <3>4
        <4>2. g[k] \in Seq(EvidenceBlocks) /\ g[k+1] = g[k] \o seqs[k+1]
          BY <2>3, <3>1, <4>1
        <4>3. /\ Range(g[k]) \subseteq Range(g[k+1])
              /\ Range(seqs[k+1]) \subseteq Range(g[k+1])
          BY <3>2, <4>2, JoinedRange
        <4>4. ASSUME NEW i \in 1..(k+1)
              PROVE  Range(seqs[i]) \subseteq Range(g[k+1])
          <5>1. i \in 1..k \/ i = k + 1
            BY <3>1
          <5> QED BY <3>1, <4>3, <5>1
        <4> QED BY <3>1, <4>4
      <3> QED BY <3>3, <3>4
    <2>6. n \in T
      <3> HIDE DEF T
      <3>1. CountsTo(n, T)
        BY <2>4, <2>5 DEF CountsTo
      <3> QED BY <2>2, <3>1, CountingTo
    <2>7. g[n] \in Seq(EvidenceBlocks)
      BY <2>2, <2>3
    <2> QED BY <2>3, <2>6, <2>7 DEF n
  <1> QED BY <1>1, <1>2

(* Every view that a page is to be shown by is among the blocks.           *)
LEMMA BlocksShow ==
  ASSUME NEW shown \in Seq(PreparedPages),
         NEW views \in [DOMAIN shown -> Seq(ViewNames)]
  PROVE  /\ Blocks(shown, views) \in Seq(EvidenceBlocks)
         /\ \A i \in 1..Min({Len(shown), MaxPages}) : \A k \in DOMAIN views[i] :
              Block(shown, i, views[i][k]) \in Range(Blocks(shown, views))
  <1> DEFINE m == Min({Len(shown), MaxPages})
             blocks(i) == [k \in DOMAIN views[i] |-> Block(shown, i, views[i][k])]
             seqs == [i \in 1..m |-> blocks(i)]
  <1>1. m \in Nat /\ m <= Len(shown)
    <2>1. {Len(shown), MaxPages} \subseteq Nat
      BY RequestAssumption
    <2> QED BY <2>1, MinIsLeast
  <1>2. ASSUME NEW i \in 1..m PROVE blocks(i) \in Seq(EvidenceBlocks)
    <2>1. i \in Nat /\ i \in DOMAIN shown
      BY <1>1
    <2>2. views[i] \in Seq(ViewNames) /\ shown[i] \in PreparedPages
      BY <2>1
    <2>3. ASSUME NEW k \in DOMAIN views[i]
          PROVE  Block(shown, i, views[i][k]) \in EvidenceBlocks
      <3>1. views[i][k] \in ViewNames /\ shown[i].size \in Nat
        BY <2>2 DEF PreparedPages
      <3>2. RoleOf(views[i][k]) \in {"table_crop", "binary", "full_page"}
        BY DEF RoleOf
      <3> QED BY <2>1, <3>1, <3>2 DEF Block, EvidenceBlocks
    <2>4. DOMAIN views[i] = 1..Len(views[i]) /\ Len(views[i]) \in Nat
      BY <2>2
    <2>5. blocks(i) \in [1..Len(views[i]) -> EvidenceBlocks]
      BY <2>3, <2>4
    <2> QED BY <2>4, <2>5, SeqDef
  <1>3. Blocks(shown, views) = FlattenSeq(seqs)
    BY DEF Blocks
  <1>4. seqs \in Seq(Seq(EvidenceBlocks)) /\ Len(seqs) = m
    <2> HIDE DEF m, blocks
    <2> QED BY <1>1, <1>2
  <1>5. /\ FlattenSeq(seqs) \in Seq(EvidenceBlocks)
        /\ \A i \in 1..m : Range(seqs[i]) \subseteq Range(FlattenSeq(seqs))
    <2> HIDE DEF seqs
    <2> QED BY <1>4, FlattenIsComplete
  <1>6. ASSUME NEW i \in 1..m, NEW k \in DOMAIN views[i]
        PROVE  Block(shown, i, views[i][k]) \in Range(FlattenSeq(seqs))
    <2>1. Block(shown, i, views[i][k]) \in Range(seqs[i])
      BY DEF Range
    <2> QED BY <1>5, <2>1
  <1> QED BY <1>3, <1>5, <1>6

(* A table of every page that is shown is among the evidence for rows.     *)
LEMMA RowEvidenceShows ==
  ASSUME NEW shown \in Seq(PreparedPages)
  PROVE  /\ RowEvidence(shown) \in Seq(EvidenceBlocks)
         /\ \A i \in 1..Min({Len(shown), MaxPages}) :
              shown[i].table =>
                \E b \in Range(RowEvidence(shown)) :
                  b.page = i /\ b.role = "table_crop"
  <1> DEFINE views == [i \in DOMAIN shown |-> RowViews(shown[i])]
             m == Min({Len(shown), MaxPages})
  <1>1. views \in [DOMAIN shown -> Seq(ViewNames)]
    BY TableIsShown
  <1>2. m \in Nat /\ m <= Len(shown)
    <2>1. {Len(shown), MaxPages} \subseteq Nat
      BY RequestAssumption
    <2> QED BY <2>1, MinIsLeast
  <1>3. RowEvidence(shown) = Blocks(shown, views)
    BY DEF RowEvidence
  <1>4. ASSUME NEW i \in 1..m, shown[i].table
        PROVE  \E b \in Range(RowEvidence(shown)) :
                 b.page = i /\ b.role = "table_crop"
    <2>1. i \in DOMAIN shown /\ shown[i] \in PreparedPages
      BY <1>2
    <2>2. "table_crop" \in Range(views[i])
      BY <1>4, <2>1, TableIsShown
    <2>3. PICK k \in DOMAIN views[i] : views[i][k] = "table_crop"
      BY <2>2 DEF Range
    <2> DEFINE b == Block(shown, i, views[i][k])
    <2>4. b.page = i /\ b.role = "table_crop"
      BY <2>3 DEF Block, RoleOf
    <2>5. b \in Range(Blocks(shown, views))
      <3> HIDE DEF views
      <3> QED BY <1>1, <2>3, BlocksShow
    <2> QED BY <1>3, <2>4, <2>5
  <1>5. Blocks(shown, views) \in Seq(EvidenceBlocks)
    <2> HIDE DEF views
    <2> QED BY <1>1, BlocksShow
  <1> QED BY <1>3, <1>4, <1>5

(* The first call's evidence is made of blocks.                            *)
LEMMA MetadataEvidenceType ==
  ASSUME NEW shown \in Seq(PreparedPages)
  PROVE  MetadataEvidence(shown) \in Seq(EvidenceBlocks)
  <1> DEFINE views == [i \in DOMAIN shown |->
                         IF i = 1 THEN <<shown[i].main, "full_gray">>
                         ELSE <<shown[i].main>>]
  <1>1. ASSUME NEW i \in DOMAIN shown
        PROVE  /\ <<shown[i].main, "full_gray">> \in Seq(ViewNames)
               /\ <<shown[i].main>> \in Seq(ViewNames)
    <2>1. shown[i].main \in ViewNames
      <3>1. shown[i] \in PreparedPages
        OBVIOUS
      <3> QED BY <3>1 DEF PreparedPages
    <2>2. "full_gray" \in ViewNames
      BY DEF ViewNames
    <2> HIDE DEF ViewNames
    <2> QED BY <2>1, <2>2
  <1>2. views \in [DOMAIN shown -> Seq(ViewNames)]
    BY <1>1
  <1>3. MetadataEvidence(shown) = Blocks(shown, views)
    BY DEF MetadataEvidence
  <1> HIDE DEF views
  <1> QED BY <1>2, <1>3, BlocksShow

(* ------------------------------- packing -------------------------------- *)

(* What is added to an empty request fits.                                 *)
LEMMA FilledFits ==
  ASSUME NEW bs \in Seq(EvidenceBlocks)
  PROVE  /\ Filled(bs) \in Seq(EvidenceBlocks)
         /\ Filled(bs) = <<>> \/ RequestBytes(Filled(bs)) <= MaxRequest
  <1> DEFINE n == Len(bs)
  <1>1. PICK g : PackChain(g, bs)
    BY PackFold
  <1>2. /\ n \in Nat /\ g \in [0..n -> Seq(EvidenceBlocks)] /\ g[0] = <<>>
        /\ \A k \in 1..n :
             g[k] = IF RequestBytes(Append(g[k-1], bs[k])) <= MaxRequest
                    THEN Append(g[k-1], bs[k]) ELSE g[k-1]
        /\ Filled(bs) = g[n]
    <2>1. n \in Nat
      OBVIOUS
    <2> QED BY <1>1, <2>1, Zenon DEF PackChain
  <1> HIDE DEF n
  <1> DEFINE T == {k \in 0..n : g[k] = <<>> \/ RequestBytes(g[k]) <= MaxRequest}
  <1>3. 0 \in T /\ T \in SUBSET (0..n)
    BY <1>2
  <1>4. ASSUME NEW k \in T, k + 1 <= n PROVE k + 1 \in T
    <2>1. k + 1 \in 1..n /\ k + 1 \in 0..n /\ (k + 1) - 1 = k
      BY <1>2, <1>4
    <2>2. g[k+1] = IF RequestBytes(Append(g[k], bs[k+1])) <= MaxRequest
                   THEN Append(g[k], bs[k+1]) ELSE g[k]
      BY <1>2, <2>1
    <2> QED BY <2>1, <2>2
  <1>5. n \in T
    <2> HIDE DEF T
    <2>1. CountsTo(n, T)
      BY <1>3, <1>4 DEF CountsTo
    <2> QED BY <1>2, <2>1, CountingTo
  <1>6. g[n] \in Seq(EvidenceBlocks)
    BY <1>2
  <1> QED BY <1>2, <1>5, <1>6

(* If the first blocks fit into one request, all of them are added, and    *)
(* what comes after them takes none of them out again.                     *)
LEMMA FilledKeepsFirst ==
  ASSUME NEW first \in Seq(EvidenceBlocks), NEW rest \in Seq(EvidenceBlocks),
         RequestBytes(first) <= MaxRequest
  PROVE  Range(first) \subseteq Range(Filled(first \o rest))
  <1> DEFINE bs == first \o rest
             m == Len(first)
             n == Len(bs)
             pre(k) == SubSeq(first, 1, k)
  <1>1. /\ bs \in Seq(EvidenceBlocks) /\ m \in Nat /\ n \in Nat /\ m <= n
        /\ \A k \in 1..m : bs[k] = first[k]
        /\ \A k \in 1..n : bs[k] \in EvidenceBlocks
    OBVIOUS
  <1>2. PICK g : PackChain(g, bs)
    BY <1>1, PackFold
  <1>3. /\ g \in [0..n -> Seq(EvidenceBlocks)] /\ g[0] = <<>>
        /\ \A k \in 1..n :
             g[k] = IF RequestBytes(Append(g[k-1], bs[k])) <= MaxRequest
                    THEN Append(g[k-1], bs[k]) ELSE g[k-1]
        /\ Filled(bs) = g[n]
    BY <1>2, Zenon DEF PackChain
  <1>4. /\ pre(0) = <<>> /\ pre(m) = first
        /\ \A k \in 0..m : k + 1 <= m => pre(k+1) = Append(pre(k), first[k+1])
    <2>1. pre(0) = <<>>
      OBVIOUS
    <2>2. pre(m) = first
      OBVIOUS
    <2>3. ASSUME NEW k \in 0..m, k + 1 <= m
          PROVE  pre(k+1) = Append(pre(k), first[k+1])
      BY <2>3
    <2> QED BY <2>1, <2>2, <2>3
  <1>5. \A k \in 0..m : RequestBytes(pre(k)) <= MaxRequest
    <2>1. ASSUME NEW k \in 0..m PROVE RequestBytes(pre(k)) <= MaxRequest
      <3>1. /\ RequestBytes(first) \in Nat /\ RequestBytes(pre(k)) <= RequestBytes(first)
        BY RequestGrows
      <3>2. RequestBytes(pre(k)) \in Nat
        <4>1. pre(k) \in Seq(EvidenceBlocks)
          BY <1>1
        <4>2. 0 \in 0..Len(pre(k))
          BY <4>1
        <4> HIDE DEF pre
        <4> QED BY <4>1, <4>2, RequestGrows
      <3> QED BY <3>1, <3>2, RequestAssumption
    <2> QED BY <2>1
  <1> HIDE DEF bs, m, n, pre
  <1>6. g[m] = first
    <2> DEFINE T == {k \in 0..m : g[k] = pre(k)}
    <2>1. 0 \in T /\ T \in SUBSET (0..m)
      BY <1>1, <1>3, <1>4
    <2>2. ASSUME NEW k \in T, k + 1 <= m PROVE k + 1 \in T
      <3>1. /\ k + 1 \in 1..n /\ k + 1 \in 1..m /\ k + 1 \in 0..m
            /\ (k + 1) - 1 = k /\ k \in 0..m /\ g[k] = pre(k)
        BY <1>1, <2>2
      <3>2. Append(g[k], bs[k+1]) = pre(k+1)
        BY <1>1, <1>4, <2>2, <3>1
      <3>3. RequestBytes(pre(k+1)) <= MaxRequest
        BY <1>5, <3>1
      <3>4. g[k+1] = IF RequestBytes(Append(g[k], bs[k+1])) <= MaxRequest
                     THEN Append(g[k], bs[k+1]) ELSE g[k]
        BY <1>3, <3>1
      <3> QED BY <3>1, <3>2, <3>3, <3>4
    <2>3. m \in T
      <3> HIDE DEF T
      <3>1. CountsTo(m, T)
        BY <2>1, <2>2 DEF CountsTo
      <3> QED BY <1>1, <3>1, CountingTo
    <2> QED BY <1>4, <2>3
  <1>7. Range(first) \subseteq Range(g[n])
    <2> DEFINE T == {k \in 0..n : m <= k => Range(first) \subseteq Range(g[k])}
    <2>1. 0 \in T /\ T \in SUBSET (0..n)
      <3>1. m <= 0 => m = 0
        BY <1>1
      <3> QED BY <1>1, <1>6, <3>1
    <2>2. ASSUME NEW k \in T, k + 1 <= n PROVE k + 1 \in T
      <3>1. k + 1 \in 1..n /\ k + 1 \in 0..n /\ (k + 1) - 1 = k /\ k \in 0..n
        BY <1>1, <2>2
      <3>2. g[k+1] = IF RequestBytes(Append(g[k], bs[k+1])) <= MaxRequest
                     THEN Append(g[k], bs[k+1]) ELSE g[k]
        BY <1>3, <3>1
      <3>3. g[k] \in Seq(EvidenceBlocks) /\ bs[k+1] \in EvidenceBlocks
        BY <1>1, <1>3, <3>1
      <3>4. Range(g[k]) \subseteq Range(g[k+1])
        BY <3>2, <3>3, AppendedRange
      <3>5. CASE m <= k
        BY <2>2, <3>1, <3>4, <3>5
      <3>6. CASE ~(m <= k)
        <4>1. m <= k + 1 => m = k + 1
          BY <1>1, <3>1, <3>6
        <4> QED BY <1>6, <3>1, <4>1
      <3> QED BY <3>5, <3>6
    <2>3. n \in T
      <3> HIDE DEF T
      <3>1. CountsTo(n, T)
        BY <2>1, <2>2 DEF CountsTo
      <3> QED BY <1>1, <3>1, CountingTo
    <2> QED BY <1>1, <2>3
  <1> QED BY <1>3, <1>7 DEF bs

(* pack_evidence sends what fits, or one image if nothing does.            *)
LEMMA PackedIsFilled ==
  ASSUME NEW bs
  PROVE  \/ Packed(bs) = Filled(Preferred(bs))
         \/ /\ Filled(Preferred(bs)) = <<>> /\ Preferred(bs) # <<>>
            /\ Len(Packed(bs)) = 1
  <1> DEFINE all == Preferred(bs)
  <1>1. Packed(bs) = Filled(all)
        \/ /\ Filled(all) = <<>> /\ all # <<>>
           /\ \E i : Packed(bs) = <<all[i]>>
    BY DEF Packed, Filled
  <1> QED BY <1>1

(* A table is left out only if the tables alone do not fit.                *)
LEMMA TablesArePacked ==
  ASSUME NEW bs \in Seq(EvidenceBlocks),
         NEW i \in DOMAIN bs, bs[i].role = "table_crop",
         RequestBytes(OfRole(bs, "table_crop")) <= MaxRequest
  PROVE  bs[i] \in Range(Packed(bs))
  <1> DEFINE crops == OfRole(bs, "table_crop")
             rest == OfRole(bs, "full_page") \o OfRole(bs, "binary")
  <1>1. /\ crops \in Seq(EvidenceBlocks) /\ rest \in Seq(EvidenceBlocks)
        /\ OfRole(bs, "full_page") \in Seq(EvidenceBlocks)
        /\ OfRole(bs, "binary") \in Seq(EvidenceBlocks)
    BY OfRoleIsComplete
  <1>2. bs[i] \in Range(crops)
    BY OfRoleIsComplete
  <1>3. Preferred(bs) = crops \o rest
    <2>1. Preferred(bs) = (crops \o OfRole(bs, "full_page")) \o OfRole(bs, "binary")
      BY DEF Preferred
    <2> HIDE DEF crops
    <2> QED BY <1>1, <2>1
  <1> HIDE DEF crops, rest
  <1>4. bs[i] \in Range(Filled(Preferred(bs)))
    BY <1>1, <1>2, <1>3, FilledKeepsFirst DEF crops
  <1>5. Filled(Preferred(bs)) # <<>>
    BY <1>4 DEF Range
  <1> QED BY <1>4, <1>5, PackedIsFilled

(* A request fits, unless it is a single image that is sent in any case.   *)
LEMMA PackedFits ==
  ASSUME NEW bs \in Seq(EvidenceBlocks)
  PROVE  RequestBytes(Packed(bs)) <= MaxRequest \/ Len(Packed(bs)) <= 1
  <1>1. Preferred(bs) \in Seq(EvidenceBlocks)
    BY OfRoleIsComplete DEF Preferred
  <1>2. Filled(Preferred(bs)) = <<>>
        \/ RequestBytes(Filled(Preferred(bs))) <= MaxRequest
    BY <1>1, FilledFits
  <1>3. CASE Packed(bs) = Filled(Preferred(bs))
    <2>1. Len(<<>>) <= 1
      OBVIOUS
    <2> QED BY <1>2, <1>3, <2>1
  <1>4. CASE Len(Packed(bs)) = 1
    BY <1>4
  <1> QED BY <1>3, <1>4, PackedIsFilled

(* ------------------------------ the requests ---------------------------- *)

QualityClasses == {"digital_clean", "scan_clean", "noisy_scan", "severe_scan"}

(* The pages are prepared as the evidence is selected from them, and what  *)
(* is sent at each stage is packed from that evidence.                     *)
EvidenceInv ==
  /\ pages \in Seq(PreparedPages)
  /\ pc \in {"pages", "encode"} => class \in QualityClasses
  /\ pc = "stageA" => request = Packed(MetadataEvidence(pages))
  /\ pc = "stageB" => request = Packed(RowEvidence(pages))

(* Every profile has one of the quality classes.                           *)
LEMMA QualityClassType ==
  ASSUME NEW f
  PROVE  QualityClass(f) \in QualityClasses
  BY DEF QualityClass, QualityClasses

(* The views of a page are among those that preprocessing.py makes.        *)
LEMMA ViewsType ==
  ASSUME NEW quality \in QualityClasses, NEW table \in BOOLEAN
  PROVE  /\ Views(Route(quality), table) \in Seq(ViewNames)
         /\ MainView(Route(quality)) \in ViewNames
  <1> DEFINE crop == IF table THEN <<"table_crop">> ELSE <<>>
  <1>1. Route(quality) \in {"native_multimodal", "rendered_multimodal",
                            "preprocessed_multimodal"}
    BY DEF Route, QualityClasses, PoorClasses
  <1>2. crop \in Seq(ViewNames)
    <2>1. <<>> \in Seq(ViewNames) /\ <<"table_crop">> \in Seq(ViewNames)
      BY DEF ViewNames
    <2> QED BY <2>1
  <1>3. /\ <<"denoised", "adaptive_binary", "contrast", "sharpened">> \in Seq(ViewNames)
        /\ <<"full_gray">> \in Seq(ViewNames)
        /\ <<"full_gray", "contrast">> \in Seq(ViewNames)
        /\ <<"adaptive_binary">> \in Seq(ViewNames)
        /\ <<"adaptive_binary", "sharpened">> \in Seq(ViewNames)
    BY DEF ViewNames
  <1>4. MainView(Route(quality)) \in ViewNames
    BY <1>1 DEF MainView, ViewNames
  <1>5. \A p, q \in Seq(ViewNames) : p \o q \in Seq(ViewNames)
    OBVIOUS
  <1> HIDE DEF crop
  <1>6. Views(Route(quality), table) =
          CASE Route(quality) = "preprocessed_multimodal" ->
                 <<"denoised", "adaptive_binary", "contrast", "sharpened">>
                   \o crop \o <<"full_gray">>
            [] Route(quality) = "native_multimodal" ->
                 <<"full_gray", "contrast">> \o crop \o <<"adaptive_binary">>
            [] Route(quality) = "rendered_multimodal" ->
                 <<"full_gray", "contrast">> \o crop \o <<"adaptive_binary", "sharpened">>
    BY DEF Views, crop
  <1>7. Views(Route(quality), table) \in Seq(ViewNames)
    <2>1. CASE Route(quality) = "preprocessed_multimodal"
      <3>1. Views(Route(quality), table) =
              (<<"denoised", "adaptive_binary", "contrast", "sharpened">>
                   \o crop) \o <<"full_gray">>
        BY <1>6, <2>1
      <3> QED BY <1>2, <1>3, <1>5, <3>1
    <2>2. CASE Route(quality) = "native_multimodal"
      <3>1. Views(Route(quality), table) =
              (<<"full_gray", "contrast">> \o crop) \o <<"adaptive_binary">>
        BY <1>6, <2>2
      <3> QED BY <1>2, <1>3, <1>5, <3>1
    <2>3. CASE Route(quality) = "rendered_multimodal"
      <3>1. Views(Route(quality), table) =
              (<<"full_gray", "contrast">> \o crop) \o <<"adaptive_binary", "sharpened">>
        BY <1>6, <2>3
      <3> QED BY <1>2, <1>3, <1>5, <3>1
    <2> QED BY <1>1, <2>1, <2>2, <2>3
  <1> QED BY <1>4, <1>7

(* An image has a size.                                                    *)
LEMMA CanvasBytesType ==
  ASSUME EncodingInv, pc = "encode"
  PROVE  CanvasBytes \in Nat /\ CurrentPage.table \in BOOLEAN
  <1>1. file \in Files /\ Len(pages) + 1 \in DOMAIN file.pages
        /\ canvas.edge \in Nat /\ canvas.quality \in Nat
    BY DEF EncodingInv
  <1>2. CurrentPage.smooth \in Nat \ {0} /\ CurrentPage.table \in BOOLEAN
    BY <1>1, FilesAssumption DEF CurrentPage
  <1>3. canvas.edge * canvas.edge * canvas.quality \in Nat
    BY <1>1
  <1>4. \A a \in Nat, b \in Nat \ {0} : a \div b \in Nat
    OBVIOUS
  <1>5. (canvas.edge * canvas.edge * canvas.quality) \div CurrentPage.smooth \in Nat
    BY <1>2, <1>3, <1>4
  <1> QED BY <1>2, <1>5 DEF CanvasBytes, Bytes

(* An encoded page is one that evidence can be taken from.                 *)
LEMMA EvidenceEncoded == EncodingInv /\ EvidenceInv /\ Encoded => EvidenceInv'
  <1> SUFFICES ASSUME EncodingInv, EvidenceInv, Encoded PROVE EvidenceInv'
    OBVIOUS
  <1> DEFINE page == [table |-> CurrentPage.table,
                      views |-> Views(Route(class), CurrentPage.table),
                      main |-> MainView(Route(class)),
                      size |-> CanvasBytes]
  <1>1. pc = "encode" /\ pc' = "pages" /\ pages' = Append(pages, page)
        /\ class' = class /\ class \in QualityClasses
    BY DEF Encoded, Goto, EvidenceInv
  <1>2. CanvasBytes \in Nat /\ CurrentPage.table \in BOOLEAN
    BY <1>1, CanvasBytesType
  <1>3. page \in PreparedPages
    BY <1>1, <1>2, ViewsType DEF PreparedPages
  <1>4. pages' \in Seq(PreparedPages)
    <2> HIDE DEF page
    <2>1. pages \in Seq(PreparedPages)
      BY DEF EvidenceInv
    <2> QED BY <1>1, <1>3, <2>1
  <1> QED BY <1>1, <1>4 DEF EvidenceInv

(* Each request is packed from the pages prepared so far.                  *)
LEMMA EvidenceStep ==
  EncodingInv /\ EvidenceInv /\ [Pipeline]_pipeVars => EvidenceInv'
  <1> SUFFICES ASSUME EncodingInv, EvidenceInv, [Pipeline]_pipeVars
               PROVE  EvidenceInv'
    OBVIOUS
  <1>1. CASE Profile
    BY <1>1, QualityClassType DEF Profile, Goto, EvidenceInv
  <1>2. CASE OpenPage \/ LowerQuality \/ Shrink
    BY <1>2 DEF OpenPage, LowerQuality, Shrink, LowersQuality, Shrinks, TooLarge,
       Goto, EvidenceInv
  <1>3. CASE Encoded
    BY <1>3, EvidenceEncoded
  <1>4. CASE RenderError \/ NoPages \/ ProviderError
    BY <1>4 DEF RenderError, NoPages, ProviderError, Stop, Goto, intakeVars,
       EvidenceInv
  <1>5. CASE AskMetadata \/ StageA \/ AskRows
    BY <1>5 DEF AskMetadata, StageA, AskRows, Goto, EvidenceInv
  <1>6. CASE StageB \/ OutputError
    <2>1. pages' = <<>> /\ pc' = "gate"
      BY <1>6 DEF StageB, OutputError, ForgetPages, Goto
    <2> QED BY <2>1 DEF EvidenceInv
  <1>7. CASE Gate \/ Shape \/ MapTables \/ MapIdentity \/ Normalize \/ Finalize
    <2>1. pages' = pages
          /\ pc' \in {"shape", "tables", "identity", "semantics", "finalize",
                      "reconcile"}
      BY <1>7 DEF Gate, Shape, MapTables, MapIdentity, Normalize, Finalize, Goto,
         intakeVars
    <2> QED BY <2>1 DEF EvidenceInv
  <1>8. CASE Reconcile \/ Assemble \/ Validate \/ Trace
    <2>1. pages' = pages /\ pc' \in {"assemble", "validate", "trace", "decide"}
      BY <1>8 DEF Reconcile, Assemble, Validate, Trace, Goto, intakeVars
    <2> QED BY <2>1 DEF EvidenceInv
  <1>9. CASE UNCHANGED pipeVars
    BY <1>9 DEF pipeVars, intakeVars, EvidenceInv
  <1> QED BY <1>1, <1>2, <1>3, <1>4, <1>5, <1>6, <1>7, <1>8, <1>9 DEF Pipeline

(* At every step the evidence is what pack_evidence makes of the pages.    *)
LEMMA EvidenceCorrect == Spec => []EvidenceInv
  <1>1. Init => EncodingInv /\ EvidenceInv
    <2>1. Init => EvidenceInv
      BY DEF Init, EvidenceInv
    <2> QED BY <2>1, EncodingInit
  <1>2. EncodingInv /\ EvidenceInv /\ [Pipeline]_pipeVars
          => (EncodingInv /\ EvidenceInv)'
    BY EncodingStep, EvidenceStep
  <1> QED BY <1>1, <1>2, PTL DEF Spec

(* What was filled in order of preference shows the tables first.          *)
LEMMA EvidenceTables == EvidenceInv => TablesComeFirst
  <1> SUFFICES ASSUME EvidenceInv, pc = "stageB",
                      ~(RequestBytes(OfRole(RowEvidence(pages), "table_crop")) > MaxRequest),
                      NEW i \in 1..Min({Len(pages), MaxPages}), pages[i].table
               PROVE  \E k \in DOMAIN request :
                        request[k].page = i /\ request[k].role = "table_crop"
    BY DEF TablesComeFirst
  <1> DEFINE bs == RowEvidence(pages)
             crops == OfRole(bs, "table_crop")
  <1>1. pages \in Seq(PreparedPages) /\ request = Packed(bs)
    BY DEF EvidenceInv
  <1>2. /\ bs \in Seq(EvidenceBlocks)
        /\ \E b \in Range(bs) : b.page = i /\ b.role = "table_crop"
    BY <1>1, RowEvidenceShows
  <1>3. PICK j \in DOMAIN bs : bs[j].page = i /\ bs[j].role = "table_crop"
    BY <1>2 DEF Range
  <1>4. RequestBytes(crops) <= MaxRequest
    <2>1. crops \in Seq(EvidenceBlocks)
      BY <1>2, OfRoleIsComplete
    <2>2. 0 \in 0..Len(crops)
      BY <2>1
    <2> HIDE DEF crops, bs
    <2>3. RequestBytes(crops) \in Nat
      BY <2>1, <2>2, RequestGrows
    <2>4. ~(RequestBytes(crops) > MaxRequest)
      BY DEF crops, bs
    <2> QED BY <2>3, <2>4, RequestAssumption
  <1> HIDE DEF bs
  <1>5. bs[j] \in Range(Packed(bs))
    BY <1>2, <1>3, <1>4, TablesArePacked
  <1> QED BY <1>1, <1>3, <1>5 DEF Range

(* For any number of pages, images of any size and any cap on a request:   *)
(* pack_evidence leaves no table of a page out of the request for the      *)
(* rows, unless the tables alone are too large for it.                     *)
THEOREM TablesFirst == Spec => []TablesComeFirst
  BY EvidenceCorrect, EvidenceTables, PTL

(* A request is no larger than the cap, or a single image.                 *)
RequestsFit ==
  pc \in {"stageA", "stageB"} =>
    RequestBytes(request) <= MaxRequest \/ Len(request) <= 1

(* Whatever the pages are, estimate_request_bytes stays below the cap of   *)
(* the provider for what is sent at either stage, but for the one smallest *)
(* image that pack_evidence sends when none fits.                          *)
THEOREM RequestsFitTheCap == Spec => []RequestsFit
  <1>1. EvidenceInv => RequestsFit
    BY MetadataEvidenceType, RowEvidenceShows, PackedFits DEF EvidenceInv, RequestsFit
  <1> QED BY <1>1, EvidenceCorrect, PTL

(* ------------------------ until the model answers ------------------------ *)

LEMMA BlankAnswers == IsHeader(BlankHeader) /\ IsAnswer(Unasked)
  <1>1. IsHeader(BlankHeader)
    BY DEF IsHeader, BlankHeader, NoConfidence, IdOrDate, Ids, Confidences
  <1>2. <<>> \in Seq(Range(<<>>)) /\ Range(<<>>) = {}
    BY DEF Range
  <1> QED BY <1>1, <1>2 DEF IsAnswer, Unasked

(* Until the rows are shaped there is little to say.                       *)
LEMMA AskingIsFree ==
  ASSUME pc \in Asking
  PROVE  HeaderInv /\ RowsInv /\ DoubtsInv /\ GradesInv /\ ConflictsInv /\ OutcomesInv
  <1>1. pc \notin Shaping \cup Completing /\ pc # "finalize" /\ pc # "reconcile"
        /\ pc # "assemble" /\ ~Assembled /\ pc \notin {"trace", "decide"}
    BY DEF Asking, Shaping, Completing, Assembled
  <1> QED BY <1>1 DEF HeaderInv, RowsInv, DoubtsInv, GradesInv, ConflictsInv,
         OutcomesInv, ImplausibleIsDoubted, CompliantIsEarned

LEMMA AskingStaysFree ==
  ASSUME pc' \in Asking
  PROVE  HeaderInv' /\ RowsInv' /\ DoubtsInv' /\ GradesInv' /\ ConflictsInv'
         /\ OutcomesInv'
  <1>1. pc' \notin Shaping \cup Completing /\ pc' # "finalize" /\ pc' # "reconcile"
        /\ pc' # "assemble" /\ ~Assembled' /\ pc' \notin {"trace", "decide"}
    BY DEF Asking, Shaping, Completing, Assembled
  <1> QED BY <1>1 DEF HeaderInv, RowsInv, DoubtsInv, GradesInv, ConflictsInv,
         OutcomesInv, ImplausibleIsDoubted, CompliantIsEarned

LEMMA DocumentInit == Init => DocumentInv
  <1> SUFFICES ASSUME Init PROVE DocumentInv
    OBVIOUS
  <1>1. pc \in Asking
    BY DEF Init, Asking
  <1>2. ControlInv
    <2>1. canvas.edge = 0 /\ 0 <= MaxEdge
      BY EncodingAssumption DEF Init, NoCanvas
    <2> QED BY <1>1, <2>1 DEF Init, ControlInv
  <1>3. AnswerInv
    <2>1. /\ pc = "profile" /\ header = BlankHeader /\ metadata = BlankHeader
          /\ answer = Unasked /\ rows = <<>> /\ guarded = {} /\ document = NoDocument
      BY DEF Init
    <2>2. guarded \subseteq (0..Len(answer.rows)) \X RowIds
      BY <2>1
    <2> QED BY <2>1, <2>2, BlankAnswers DEF AnswerInv
  <1> QED BY <1>1, <1>2, <1>3, AskingIsFree DEF DocumentInv

(* No image is larger than the largest edge.                               *)
LEMMA CanvasFits ==
  ASSUME EncodingInv, ControlInv, OpenPage \/ LowerQuality \/ Shrink \/ Encoded
  PROVE  canvas'.edge <= MaxEdge
  <1>1. MaxEdge \in Nat /\ MaxEdge > 0 /\ canvas.edge \in Nat /\ canvas.edge <= MaxEdge
    BY EncodingAssumption DEF EncodingInv, ControlInv
  <1>2. ASSUME OpenPage PROVE canvas'.edge <= MaxEdge
    <2>1. PICK e \in Downscaled(CurrentPage.edge, MaxEdge) :
                 canvas' = [edge |-> e, quality |-> JpegQuality]
      BY <1>2 DEF OpenPage
    <2>2. CurrentPage.edge \in Nat
      <3>1. Len(pages) \in Nat
        <4>1. pages \in Seq(Range(pages))
          BY DEF EncodingInv
        <4> QED BY <4>1
      <3>2. file \in Files /\ Len(pages) < Len(file.pages)
        BY <1>2 DEF OpenPage, EncodingInv
      <3>3. Len(pages) + 1 \in DOMAIN file.pages
        BY <3>1, <3>2, FilesAssumption
      <3> QED BY <3>2, <3>3, FilesAssumption DEF CurrentPage
    <2>3. CASE CurrentPage.edge > MaxEdge
      BY <1>1, <2>1, <2>2, <2>3, DownscaledTypes
    <2>4. CASE ~(CurrentPage.edge > MaxEdge)
      <3>1. e <= MaxEdge
        BY <1>1, <2>2, <2>4 DEF Downscaled
      <3> QED BY <2>1, <3>1
    <2> QED BY <2>3, <2>4
  <1>3. ASSUME LowerQuality PROVE canvas'.edge <= MaxEdge
    BY <1>1, <1>3, LowerQualityDescends
  <1>4. ASSUME Shrink PROVE canvas'.edge <= MaxEdge
    <2>1. canvas'.edge \in Nat /\ canvas'.edge <= canvas.edge
      BY <1>4, ShrinkTypes
    <2> QED BY <1>1, <2>1
  <1>5. ASSUME Encoded PROVE canvas'.edge <= MaxEdge
    BY <1>1, <1>5 DEF Encoded, NoCanvas
  <1> QED BY <1>2, <1>3, <1>4, <1>5

(* The steps of the intake say nothing of header and rows.                 *)
LEMMA IntakeKeeps ==
  ASSUME DocumentInv, UNCHANGED rowVars, pc \in Asking \ {"gate", "failed"},
         gateRequired' \in BOOLEAN, canvas'.edge <= MaxEdge,
         \/ pc' = "failed"
         \/ pc \in {"profile", "pages", "encode"}
              /\ pc' \in {"profile", "pages", "encode", "stageA"}
         \/ pc = "askRows" /\ pc' = "stageB"
  PROVE  DocumentInv'
  <1>1. pc' \in Asking \ {"gate"}
    BY DEF Asking
  <1>2. UNCHANGED <<header, answer, metadata, rows, guarded, document>>
    BY DEF rowVars
  <1>3. ControlInv'
    BY <1>1 DEF ControlInv
  <1>4. AnswerInv /\ pc \in Asking
    BY DEF DocumentInv
  <1>5. pc \in {"profile", "pages", "encode", "stageA", "askRows", "stageB"}
    BY DEF Asking
  <1>6. AnswerInv'
    BY <1>1, <1>2, <1>4, <1>5 DEF AnswerInv, Assembled
  <1> QED BY <1>1, <1>3, <1>6, AskingStaysFree DEF DocumentInv

LEMMA IntakeStep ==
  ASSUME EncodingInv, DocumentInv,
         \/ Profile \/ OpenPage \/ LowerQuality \/ Shrink \/ Encoded
         \/ RenderError \/ NoPages \/ AskMetadata \/ AskRows \/ ProviderError
  PROVE  DocumentInv'
  <1>1. gateRequired \in BOOLEAN /\ canvas.edge <= MaxEdge /\ ControlInv
    BY DEF DocumentInv, ControlInv
  <1>2. CASE Profile
    <2>1. gateRequired' \in BOOLEAN /\ canvas' = canvas /\ UNCHANGED rowVars
          /\ pc = "profile" /\ pc' = "pages"
      BY <1>2 DEF Profile, Goto
    <2> QED BY <1>1, <2>1, IntakeKeeps DEF Asking
  <1>3. CASE OpenPage \/ LowerQuality \/ Shrink \/ Encoded
    <2>1. gateRequired' = gateRequired /\ UNCHANGED rowVars
          /\ pc \in {"pages", "encode"} /\ pc' \in {"pages", "encode"}
      BY <1>3 DEF OpenPage, LowerQuality, Shrink, Encoded, LowersQuality, Shrinks,
         TooLarge, Goto
    <2>2. canvas'.edge <= MaxEdge
      BY <1>1, <1>3, CanvasFits
    <2> QED BY <1>1, <2>1, <2>2, IntakeKeeps DEF Asking
  <1>4. CASE RenderError \/ NoPages \/ ProviderError
    <2>1. UNCHANGED <<gateRequired, canvas, rowVars>> /\ pc' = "failed"
          /\ pc \in {"pages", "encode", "stageA", "stageB"}
      BY <1>4 DEF RenderError, NoPages, ProviderError, Stop, Goto, intakeVars
    <2> QED BY <1>1, <2>1, IntakeKeeps DEF Asking
  <1>5. CASE AskMetadata
    <2>1. UNCHANGED <<gateRequired, canvas, rowVars>> /\ pc = "pages" /\ pc' = "stageA"
      BY <1>5 DEF AskMetadata, Goto
    <2> QED BY <1>1, <2>1, IntakeKeeps DEF Asking
  <1>6. CASE AskRows
    <2>1. UNCHANGED <<gateRequired, canvas, rowVars>> /\ pc = "askRows" /\ pc' = "stageB"
      BY <1>6 DEF AskRows, Goto
    <2> QED BY <1>1, <2>1, IntakeKeeps DEF Asking
  <1> QED BY <1>2, <1>3, <1>4, <1>5, <1>6

LEMMA AnswerStep ==
  ASSUME DocumentInv, StageA \/ StageB \/ OutputError
  PROVE  DocumentInv'
  <1>1. ControlInv /\ AnswerInv
    BY DEF DocumentInv
  <1>2. pc \in {"stageA", "stageB"} /\ pc' \in {"askRows", "gate"}
    BY DEF StageA, StageB, OutputError, Goto
  <1>3. pc' \in Asking
    BY <1>2 DEF Asking
  <1>4. UNCHANGED <<canvas, gateRequired, rows, guarded, document>>
    BY DEF StageA, StageB, OutputError, ForgetPages
  <1>5. ControlInv'
    BY <1>1, <1>3, <1>4 DEF ControlInv
  <1>6. /\ answer = Unasked /\ rows = <<>> /\ guarded = {} /\ document = NoDocument
        /\ IsHeader(header)
    BY <1>1, <1>2 DEF AnswerInv, Asking, Assembled
  <1>7. IsHeader(header') /\ IsAnswer(answer')
    <2>1. CASE StageA
      BY <1>6, <2>1, BlankAnswers, AnswersAssumption DEF StageA
    <2>2. CASE StageB
      BY <1>6, <2>2, AnswersAssumption DEF StageB
    <2>3. CASE OutputError
      BY <1>6, <2>3, BlankAnswers DEF OutputError
    <2> QED BY <2>1, <2>2, <2>3
  <1>8. /\ metadata' \in {header', BlankHeader}
        /\ pc' = "askRows" => metadata' = header' /\ answer' = Unasked
        /\ answer' # Unasked => metadata' = header'
    <2>1. CASE StageA
      BY <1>6, <2>1 DEF StageA, Goto
    <2>2. CASE StageB
      BY <1>1, <2>2 DEF StageB, Goto, AnswerInv
    <2>3. CASE OutputError
      BY <2>3 DEF OutputError, Goto
    <2> QED BY <2>1, <2>2, <2>3
  <1>9. AnswerInv'
    BY <1>2, <1>4, <1>6, <1>7, <1>8 DEF AnswerInv
  <1> QED BY <1>3, <1>5, <1>9, AskingStaysFree DEF DocumentInv

(* ------------------------ what the answers are --------------------------- *)

LEMMA SourcesStay ==
  ASSUME UNCHANGED <<header, answer, guarded>>
  PROVE  /\ Sources' = Sources /\ Observed' = Observed
         /\ ParsedObserved' = ParsedObserved
         /\ \A f : Contradicted(f)' = Contradicted(f)
         /\ GradesDiffer' = GradesDiffer
  <1>1. \A f : Admitted(f)' = Admitted(f) /\ BehindLabel(f)' = BehindLabel(f)
    BY DEF Admitted, BehindLabel
  <1>2. Sources' = Sources
    BY <1>1 DEF Sources
  <1>3. \A k : OwnValues(k)' = OwnValues(k) /\ ReadValues(k)' = ReadValues(k)
    BY DEF OwnValues, ReadValues, TableCells, ObservedCells, StrayCells, RawRows
  <1>4. Observed' = Observed
    BY <1>3 DEF Observed
  <1>5. ParsedObserved' = ParsedObserved
    BY <1>4 DEF ParsedObserved
  <1>6. \A f : Contradicted(f)' = Contradicted(f)
    BY DEF Contradicted
  <1>7. GradesDiffer' = GradesDiffer
    BY DEF GradesDiffer
  <1> QED BY <1>2, <1>4, <1>5, <1>6, <1>7

(* The digits of a text of a row are read as a number or not at all.       *)
LEMMA FiguresAreNumerals ==
  ASSUME NEW t
  PROVE  IsNumeral(Figures(t))
  <1>1. ASSUME NEW w \in Nat PROVE IsNumeral(Digits(w))
    <2>1. Digits(w).whole = w /\ Digits(w).form = "digits"
      BY DEF Digits, Numeral
    <2>2. Candidates(Digits(w)) = <<w * 1000>>
      BY <2>1 DEF Candidates
    <2>3. w * 1000 \in Nat
      OBVIOUS
    <2> QED BY <2>1, <2>2, <2>3 DEF IsNumeral
  <1>2. ASSUME NEW w \in Nat, NEW p \in Nat PROVE IsNumeral(Slashed(w, p))
    <2>1. /\ Slashed(w, p).whole = w /\ Slashed(w, p).form = "slash"
          /\ Slashed(w, p).part = p
      BY DEF Slashed, Numeral
    <2>2. Candidates(Slashed(w, p)) = <<p * 1000>>
      BY <2>1 DEF Candidates
    <2>3. p * 1000 \in Nat
      OBVIOUS
    <2> QED BY <2>1, <2>2, <2>3 DEF IsNumeral
  <1>3. IsNumeral(Words)
    <2>1. Words.whole = 0 /\ Words.form = "words"
      BY DEF Words, Numeral
    <2>2. Candidates(Words) = <<>>
      BY <2>1 DEF Candidates
    <2> QED BY <2>1, <2>2 DEF IsNumeral
  <1>4. \/ \E w \in Nat : Figures(t) = Digits(w)
        \/ \E w, p \in Nat : Figures(t) = Slashed(w, p)
        \/ Figures(t) = Words
    BY DEF Figures
  <1> QED BY <1>1, <1>2, <1>3, <1>4

(* The line of a row that is named after a property has cells of numerals. *)
LEMMA NamedLineCells ==
  ASSUME NEW row
  PROVE  /\ NamedLine(row).label = PropertyLabel(row)
         /\ NamedLine(row).results = <<>>
         /\ \A n \in Range(Selected(NamedLine(row))) : IsNumeral(n)
  <1> DEFINE figures == {Figures(row.lot), Figures(row.cert), Figures(row.product)}
             line == NamedLine(row)
  <1>1. /\ line.label = PropertyLabel(row) /\ line.results = <<>>
        /\ line.others = Cell(row.lot) \o Cell(row.cert) \o Cell(row.product)
    BY DEF NamedLine, Line
  <1>2. /\ Cell(row.lot) \in Seq(figures) /\ Cell(row.cert) \in Seq(figures)
        /\ Cell(row.product) \in Seq(figures)
    <2>1. ASSUME NEW t, Figures(t) \in figures PROVE Cell(t) \in Seq(figures)
      <3> HIDE DEF figures
      <3>1. <<>> \in Seq(figures) /\ <<Figures(t)>> \in Seq(figures)
        BY <2>1
      <3> QED BY <3>1 DEF Cell
    <2>2. {Figures(row.lot), Figures(row.cert), Figures(row.product)} \subseteq figures
      OBVIOUS
    <2> HIDE DEF figures
    <2> QED BY <2>1, <2>2
  <1> HIDE DEF figures
  <1>3. Cell(row.lot) \o Cell(row.cert) \in Seq(figures)
    BY <1>2
  <1>4. line.others \in Seq(figures)
    BY <1>1, <1>2, <1>3
  <1> HIDE DEF line
  <1>5. Selected(line) = <<>> \/ (Selected(line) = <<line.others[1]>> /\ line.others # <<>>)
    BY <1>1 DEF Selected
  <1>6. line.others # <<>> => line.others[1] \in figures
    BY <1>4
  <1>7. \A n \in figures : IsNumeral(n)
    BY FiguresAreNumerals DEF figures
  <1>8. ASSUME NEW n \in Range(Selected(line)) PROVE IsNumeral(n)
    <2>1. CASE Selected(line) = <<>>
      BY <1>8, <2>1 DEF Range
    <2>2. CASE Selected(line) = <<line.others[1]>> /\ line.others # <<>>
      <3>1. n = line.others[1]
        BY <1>8, <2>2 DEF Range
      <3> QED BY <1>6, <1>7, <2>2, <3>1
    <2> QED BY <1>5, <2>1, <2>2
  <1> QED BY <1>1, <1>8 DEF line

(* What was observed is a number, in the rows as in the table.             *)
LEMMA ObservedIsGiven ==
  ASSUME IsAnswer(answer)
  PROVE  Given(Sources, Observed) /\ TableFrom(Table, Observed)
         /\ Given(Sources, ParsedObserved) /\ ParsedObserved = ParsedValues(Observed)
  <1>1. \A f \in Ids : None \in Sources[f]
    BY DEF Sources
  <1>2. ASSUME NEW k \in Kinds PROVE OwnValues(k) \subseteq Nat \cup {Blank}
    <2>1. ASSUME NEW said \in Range(answer.rows)
          PROVE  said.row.mech[k] \in Nat \cup {Blank}
      <3>1. IsRow(said.row)
        BY DEF IsAnswer
      <3> QED BY <3>1 DEF IsRow
    <2> QED BY <2>1 DEF OwnValues
  <1>3. ASSUME NEW line \in Range(answer.table)
        PROVE  /\ line.results \in Seq(Range(line.results))
               /\ line.others \in Seq(Range(line.others))
               /\ \A n \in Range(line.results) \cup Range(line.others) : IsNumeral(n)
               /\ KindOf(line.label) \in Kinds
    <2>1. IsLine(line)
      BY DEF IsAnswer
    <2>2. KindOf(line.label) \in Kinds
      BY <2>1 DEF IsLine, KindOf, Labels, Kinds
    <2> QED BY <2>1, <2>2 DEF IsLine
  <1>4. ASSUME NEW k \in Kinds PROVE ReadValues(k) \subseteq Nat \cup {Blank}
    <2>1. \A n \in ObservedCells(k) : IsNumeral(n)
      BY <1>3 DEF ObservedCells
    <2>2. \A n \in StrayCells(k) : IsNumeral(n)
      BY NamedLineCells DEF StrayCells
    <2>3. \A n \in TableCells(k) : IsNumeral(n)
      BY <2>1, <2>2 DEF TableCells
    <2> QED BY <2>3, ParseTextIsNumber DEF ReadValues
  <1>5. \A k \in Kinds : Observed[k] = OwnValues(k) \cup ReadValues(k) \cup {Blank}
    BY DEF Observed
  <1>6. Given(Sources, Observed)
    BY <1>1, <1>2, <1>4, <1>5 DEF Given
  <1>7. \A k \in Kinds : \A n \in TableCells(k) : ParseText(n, k).value \in Observed[k]
    BY <1>5 DEF ReadValues
  <1>8. ASSUME answer.table # <<>>
        PROVE  TableFrom(Table, Observed)
    <2>1. Table = answer.table
      BY <1>8 DEF Table, Collected
    <2>2. DOMAIN answer.table \subseteq 0..Len(answer.table) /\ Len(answer.table) \in Nat
      BY OwnDomain DEF IsAnswer
    <2>3. ASSUME NEW i \in DOMAIN answer.table, Selected(answer.table[i]) # <<>>
          PROVE  LineValue(answer.table[i]) \in Observed[KindOf(answer.table[i].label)]
      <3> DEFINE line == answer.table[i]
                 k == KindOf(line.label)
                 n == Selected(line)[1]
      <3>1. line \in Range(answer.table)
        BY DEF Range
      <3>2. k \in Kinds
        BY <1>3, <3>1
      <3>3. n \in Range(line.results) \cup Range(line.others)
        BY <1>3, <2>3, <3>1, SelectedIsObserved
      <3>4. n \in TableCells(k)
        BY <3>1, <3>3 DEF TableCells, ObservedCells
      <3>5. LineValue(line) = ParseText(n, k).value
        BY <2>3 DEF LineValue
      <3> QED BY <1>7, <3>2, <3>4, <3>5
    <2>4. \A i \in DOMAIN answer.table :
            LineValue(answer.table[i])
              \in Observed[KindOf(answer.table[i].label)] \cup {Blank}
      BY <2>3 DEF LineValue
    <2>5. \E n \in Nat : DOMAIN Table \subseteq 0..n
      BY <2>1, <2>2
    <2>6. \A i \in DOMAIN Table :
            LineValue(Table[i]) \in Observed[KindOf(Table[i].label)] \cup {Blank}
      BY <2>1, <2>4
    <2> QED BY <2>5, <2>6 DEF TableFrom
  <1>9. ASSUME answer.table = <<>> /\ Cardinality(NamedRows(RawRows)) >= 2
        PROVE  TableFrom(Table, Observed)
    <2>1. Table = [i \in NamedRows(RawRows) |-> NamedLine(RawRows[i])]
      BY <1>9 DEF Table, Collected, DerivedTable
    <2>2. NamedRows(RawRows) \subseteq 0..Len(answer.rows) /\ Len(answer.rows) \in Nat
      BY OwnDomain DEF NamedRows, RawRows, IsAnswer
    <2>3. ASSUME NEW i \in NamedRows(RawRows), Selected(NamedLine(RawRows[i])) # <<>>
          PROVE  LineValue(Table[i]) \in Observed[KindOf(Table[i].label)]
      <3> DEFINE line == NamedLine(RawRows[i])
                 k == KindOf(line.label)
                 n == Selected(line)[1]
      <3>1. Table[i] = line
        BY <2>1
      <3>2. line.label = PropertyLabel(RawRows[i]) /\ line.results = <<>>
        BY NamedLineCells
      <3>3. k \in Kinds
        BY <3>2 DEF NamedRows, Labels, KindOf, Kinds
      <3> HIDE DEF line
      <3>4. n \in Range(Selected(line))
        <4>1. Selected(line) = <<line.others[1]>>
          BY <2>3, <3>2 DEF Selected, line
        <4> QED BY <4>1 DEF Range
      <3>5. n \in StrayCells(k)
        BY <3>2, <3>4 DEF StrayCells, line
      <3>6. n \in TableCells(k)
        BY <1>9, <3>5 DEF TableCells
      <3>7. LineValue(line) = ParseText(n, k).value
        BY <2>3 DEF LineValue, line
      <3> QED BY <1>7, <3>1, <3>3, <3>6, <3>7
    <2>4. \A i \in NamedRows(RawRows) :
            LineValue(Table[i]) \in Observed[KindOf(Table[i].label)] \cup {Blank}
      BY <2>1, <2>3 DEF LineValue
    <2>5. DOMAIN Table = NamedRows(RawRows)
      BY <2>1
    <2>6. \E n \in Nat : DOMAIN Table \subseteq 0..n
      BY <2>2, <2>5
    <2>7. \A i \in DOMAIN Table :
            LineValue(Table[i]) \in Observed[KindOf(Table[i].label)] \cup {Blank}
      BY <2>4, <2>5
    <2> QED BY <2>6, <2>7 DEF TableFrom
  <1>10. ASSUME answer.table = <<>> /\ ~(Cardinality(NamedRows(RawRows)) >= 2)
         PROVE  TableFrom(Table, Observed)
    <2>1. Table = <<>>
      BY <1>10 DEF Table, Collected, DerivedTable
    <2>2. DOMAIN Table = {}
      BY <2>1
    <2>3. \E n \in Nat : DOMAIN Table \subseteq 0..n
      <3>1. 0 \in Nat /\ {} \subseteq 0..0
        OBVIOUS
      <3> QED BY <2>2, <3>1
    <2> QED BY <2>2, <2>3 DEF TableFrom
  <1>11. TableFrom(Table, Observed)
    BY <1>8, <1>9, <1>10
  <1>12. ParsedObserved = ParsedValues(Observed)
    BY DEF ParsedObserved, ParsedValues
  <1> QED BY <1>6, <1>11, <1>12, GivenParsed

(* --------------------------- the gate ------------------------------------ *)

LEMMA GatedFields ==
  ASSUME NEW printed, NEW confs, NEW required
  PROVE  /\ DOMAIN Gated(printed, confs, required) = DOMAIN printed
         /\ \A f \in DOMAIN printed :
              /\ f \notin Ids => Gated(printed, confs, required)[f] = printed[f]
              /\ f \in SuppressedIds(printed, confs, required) =>
                   Gated(printed, confs, required)[f] = None
              /\ f \notin SuppressedIds(printed, confs, required) =>
                   Gated(printed, confs, required)[f] = printed[f]
  BY DEF Gated, SuppressedIds

(* What the gate lets through of the header, and of a row.                 *)
LEMMA GatedHeaderFrom ==
  ASSUME AnswerInv, pc = "gate", Gate
  PROVE  /\ HeaderFrom(metadata', Sources') /\ ConfidencesRead(metadata', Sources')
         /\ metadata'.rope => header.rope
         /\ answer # Unasked => /\ metadata'.headerGrade = header.headerGrade
                                /\ metadata'.description = header.description
         /\ metadata'.product = None /\ metadata'.grade = None
         /\ \A f \in Ids : metadata'.confs[f] \in Confidences
  <1> DEFINE out == SuppressedIds(metadata, metadata.confs, gateRequired)
  <1>1. /\ metadata' = Gated(metadata, metadata.confs, gateRequired)
        /\ guarded' = HeaderEvents \cup RowEvents
        /\ header' = header /\ answer' = answer
    BY DEF Gate
  <1>2. /\ metadata \in {header, BlankHeader}
        /\ answer # Unasked => metadata = header
        /\ IsHeader(header) /\ IsHeader(metadata) /\ IsAnswer(answer)
    BY BlankAnswers DEF AnswerInv, Asking
  <1>3. DOMAIN metadata = HeaderFields
    BY <1>2, BlankHeaderFields DEF IsHeader
  <1>4. /\ DOMAIN metadata' = HeaderFields
        /\ \A f \in HeaderFields :
             /\ f \notin Ids => metadata'[f] = metadata[f]
             /\ f \in out => metadata'[f] = None
             /\ f \notin out => metadata'[f] = metadata[f]
    BY <1>1, <1>3, GatedFields
  <1>5. /\ metadata'.headerGrade = metadata.headerGrade
        /\ metadata'.description = metadata.description
        /\ metadata'.product = metadata.product /\ metadata'.grade = metadata.grade
        /\ metadata'.dims = metadata.dims /\ metadata'.norms = metadata.norms
        /\ metadata'.remark = metadata.remark /\ metadata'.confs = metadata.confs
        /\ metadata'.rope = metadata.rope
    BY <1>4 DEF HeaderFields, Ids
  <1>6. ASSUME NEW f \in Ids
        PROVE  LabelledValues(metadata.headerGrade, f)
                 \cup LabelledValues(metadata.description, f) \subseteq Sources'[f]
    <2>1. CASE metadata = header
      <3>1. LabelledValues(header.headerGrade, f)
              \cup LabelledValues(header.description, f) \subseteq BehindLabel(f)'
        BY <1>1 DEF BehindLabel
      <3>2. BehindLabel(f)' \subseteq Sources'[f]
        BY DEF Sources
      <3> QED BY <2>1, <3>1, <3>2
    <2>2. CASE metadata = BlankHeader
      <3>1. Labelled(None) = {}
        BY DEF Labelled, None
      <3>2. metadata.headerGrade = None /\ metadata.description = None
        BY <2>2 DEF BlankHeader
      <3> QED BY <3>1, <3>2 DEF LabelledValues
    <2> QED BY <1>2, <2>1, <2>2
  <1>7. \A f \in {"headerGrade", "description", "product", "grade"} :
          metadata'[f] \in Clean(Sources')
    <2>1. metadata.headerGrade \in Texts \cup {None}
          /\ metadata.description \in Texts \cup {None}
          /\ metadata.product = None /\ metadata.grade = None
      BY <1>2 DEF IsHeader
    <2>2. metadata.headerGrade \in Clean(Sources')
          /\ metadata.description \in Clean(Sources')
      BY <1>6, <2>1 DEF Clean
    <2>3. None \in Clean(Sources')
      BY SomeCleanTexts
    <2> QED BY <1>5, <2>1, <2>2, <2>3
  <1>8. ASSUME NEW f \in Ids PROVE metadata'[f] \in Sources'[f]
    <2>1. Sources'[f] = Admitted(f)' \cup BehindLabel(f)' \cup {None}
      BY DEF Sources
    <2>2. CASE f \in out
      BY <1>4, <2>1, <2>2 DEF Ids, HeaderFields
    <2>3. CASE f \notin out
      <3>1. metadata'[f] = metadata[f]
        BY <1>4, <2>3 DEF Ids, HeaderFields
      <3>2. CASE metadata = BlankHeader
        BY <2>1, <3>1, <3>2 DEF BlankHeader, Ids
      <3>3. CASE metadata = header
        <4>1. <<0, f>> \notin guarded'
          <5>1. <<0, f>> \notin HeaderEvents
            BY <2>3 DEF HeaderEvents
          <5>2. 0 \notin DOMAIN answer.rows
            BY <1>2, OwnDomain DEF IsAnswer
          <5>3. <<0, f>> \notin RowEvents
            BY <5>2 DEF RowEvents
          <5> QED BY <1>1, <5>1, <5>3
        <4>2. 0 \notin {e[1] : e \in {g \in guarded' : g[2] = f}}
          <5>1. ASSUME NEW e \in guarded', e[2] = f, e[1] = 0 PROVE FALSE
            <6>1. \E i, g : e = <<i, g>>
              BY <1>1 DEF HeaderEvents, RowEvents
            <6>2. e = <<0, f>>
              BY <5>1, <6>1
            <6> QED BY <4>1, <6>2
          <5> QED BY <5>1
        <4>3. header[f] \in Admitted(f)'
          BY <1>1, <4>2 DEF Admitted
        <4> QED BY <2>1, <3>1, <3>3, <4>3
      <3> QED BY <1>2, <3>2, <3>3
    <2> QED BY <2>2, <2>3
  <1>9. HeaderFrom(metadata', Sources')
    <2>1. /\ metadata.dims \in Texts \cup {None} /\ metadata.norms \subseteq Texts
          /\ metadata.remark \in Grades \cup {None} /\ DOMAIN metadata.confs = IdOrDate
      BY <1>2 DEF IsHeader
    <2> QED BY <1>4, <1>5, <1>7, <1>8, <2>1, BlankHeaderFields DEF HeaderFrom
  <1>10. ConfidencesRead(metadata', Sources')
    <2>1. ASSUME NEW f \in Ids, metadata.confs[f] \in {"low3", "sure3"}
          PROVE  ConfidenceText(f) \in Sources'[f]
      <3>1. metadata = header
        BY <1>2, <2>1 DEF BlankHeader, NoConfidence, IdOrDate, None
      <3>2. ConfidenceText(f) \in BehindLabel(f)'
        BY <1>1, <2>1, <3>1 DEF BehindLabel
      <3> QED BY <3>2 DEF Sources
    <2> QED BY <1>5, <2>1 DEF ConfidencesRead
  <1>11. metadata'.rope => header.rope
    <2>1. BlankHeader.rope = FALSE
      BY DEF BlankHeader
    <2>2. CASE metadata = header
      BY <1>5, <2>2
    <2>3. CASE metadata = BlankHeader
      <3>1. metadata'.rope = FALSE
        BY <1>5, <2>1, <2>3
      <3> QED BY <3>1
    <2> QED BY <1>2, <2>2, <2>3
  <1>12. /\ metadata'.product = None /\ metadata'.grade = None
         /\ \A f \in Ids : metadata'.confs[f] \in Confidences
    BY <1>2, <1>5 DEF IsHeader
  <1> QED BY <1>2, <1>5, <1>9, <1>10, <1>11, <1>12

LEMMA NormalizedRowFrom ==
  ASSUME AnswerInv, Gate, NEW i \in DOMAIN answer.rows
  PROVE  /\ RowFrom(rows'[i], Sources', Observed')
         /\ rows'[i].grade = answer.rows[i].row.grade
  <1> DEFINE said == answer.rows[i]
             row == said.row
             out == SuppressedIds(row, said.confs, gateRequired)
             new == NormalizedRow(said, gateRequired)
             gated == Gated(row, said.confs, gateRequired)
  <1>1. /\ rows'[i] = new
        /\ guarded' = HeaderEvents \cup RowEvents
        /\ header' = header /\ answer' = answer
    BY DEF Gate
  <1>2. said \in Range(answer.rows) /\ i \in 1..Len(answer.rows)
    BY OwnDomain DEF Range, AnswerInv, IsAnswer
  <1>3. IsRow(row) /\ said.confs \in [Ids \cup {"item"} -> Confidences]
    BY <1>2 DEF AnswerInv, IsAnswer
  <1>4. DOMAIN row = RowFields
    BY <1>3, BlankRowFields DEF IsRow
  <1>5. /\ DOMAIN gated = RowFields
        /\ \A f \in RowFields :
             /\ f \notin Ids => gated[f] = row[f]
             /\ f \in out => gated[f] = None
             /\ f \notin out => gated[f] = row[f]
    BY <1>4, GatedFields
  <1>6. /\ DOMAIN new = RowFields
        /\ new.mech = KeptMechanicals(row.mech, said.doubted)
        /\ new.known = [f \in RowIds |-> IF f = "pipe" THEN None ELSE said.confs[f]]
        /\ \A f \in RowFields \ {"item", "pipe", "mech", "known", "review"} :
             new[f] = gated[f]
    <2>1. gated.mech = row.mech
      BY <1>5 DEF RowFields, Ids
    <2> HIDE DEF gated
    <2>2. new = [gated EXCEPT
                   !.item = IF ItemReason(said, gateRequired) = None THEN @ ELSE None,
                   !.pipe = IF gateRequired THEN None ELSE said.row.item,
                   !.mech = KeptMechanicals(@, said.doubted),
                   !.known = [f \in RowIds |-> IF f = "pipe" THEN None ELSE said.confs[f]],
                   !.review = @ \/ SuppressedInRow(said, gateRequired) # {}]
      BY DEF NormalizedRow, gated
    <2> HIDE DEF new
    <2> QED BY <1>5, <2>1, <2>2 DEF RowFields
  <1> HIDE DEF gated, new, out
  <1>7. /\ new.product = row.product /\ new.grade = row.grade /\ new.dims = row.dims
        /\ new.norms = row.norms /\ new.classes = row.classes
        /\ new.verified = row.verified /\ new.outcome = row.outcome
    BY <1>5, <1>6 DEF RowFields, Ids
  <1>8. ASSUME NEW k \in Kinds
        PROVE  new.mech[k] \in Observed'[k] /\ new.mech[k] \in Nat \cup {Blank}
    <2>1. new.mech[k] = IF k \in said.doubted THEN Blank ELSE row.mech[k]
      BY <1>6 DEF KeptMechanicals
    <2>2. Observed'[k] = OwnValues(k)' \cup ReadValues(k)' \cup {Blank}
      BY DEF Observed
    <2>3. CASE k \in said.doubted
      BY <2>1, <2>2, <2>3
    <2>4. CASE k \notin said.doubted
      <3>1. row.mech[k] \in OwnValues(k)'
        BY <1>1, <1>2, <2>4 DEF OwnValues
      <3>2. row.mech[k] \in Nat \cup {Blank}
        BY <1>3 DEF IsRow
      <3> QED BY <2>1, <2>2, <2>4, <3>1, <3>2
    <2> QED BY <2>3, <2>4
  <1>9. new.known \in [RowIds -> Confidences]
    <2>1. ASSUME NEW f \in RowIds
          PROVE  (IF f = "pipe" THEN None ELSE said.confs[f]) \in Confidences
      BY <1>3 DEF RowIds, Confidences
    <2> QED BY <1>6, <2>1
  <1>10. ASSUME NEW f \in Ids PROVE new[f] \in Sources'[f]
    <2>1. Sources'[f] = Admitted(f)' \cup BehindLabel(f)' \cup {None}
      BY DEF Sources
    <2>2. new[f] = gated[f] /\ f \in RowFields
      BY <1>6 DEF Ids, RowFields
    <2>3. CASE f \in out
      BY <1>5, <2>1, <2>2, <2>3
    <2>4. CASE f \notin out
      <3>1. f \notin SuppressedInRow(said, gateRequired)
        BY <2>4 DEF SuppressedInRow, out, Ids
      <3>2. <<i, f>> \notin HeaderEvents
        BY <1>2 DEF HeaderEvents
      <3>3. <<i, f>> \notin RowEvents
        BY <3>1 DEF RowEvents
      <3>4. row[f] \in Admitted(f)'
        BY <1>1, <3>2, <3>3 DEF Admitted
      <3> QED BY <1>5, <2>1, <2>2, <2>4, <3>4
    <2> QED BY <2>3, <2>4
  <1>11. row.product \in Clean(Sources') /\ row.grade \in Clean(Sources')
    <2>1. \A f \in Ids : LabelledValues(row.product, f) \cup LabelledValues(row.grade, f)
                           \subseteq BehindLabel(f)'
      BY <1>1 DEF BehindLabel
    <2>2. \A f \in Ids : LabelledValues(row.product, f) \cup LabelledValues(row.grade, f)
                           \subseteq Sources'[f]
      BY <2>1 DEF Sources
    <2>3. row.product \in Texts \cup {None} /\ row.grade \in Texts \cup {None}
      BY <1>3 DEF IsRow
    <2> QED BY <2>2, <2>3 DEF Clean
  <1>12. IsRow(new)
    <2>1. DOMAIN new.mech = Kinds
      BY <1>6 DEF KeptMechanicals
    <2> QED BY <1>3, <1>6, <1>7, <1>8, <1>9, <2>1, BlankRowFields DEF IsRow
  <1>13. RowFrom(new, Sources', Observed')
    BY <1>7, <1>8, <1>10, <1>11, <1>12 DEF RowFrom
  <1> QED BY <1>1, <1>7, <1>13

LEMMA GatedStep ==
  ASSUME DocumentInv, Gate
  PROVE  DocumentInv'
  <1>1. /\ ControlInv /\ AnswerInv /\ pc = "gate" /\ pc' = "shape"
        /\ UNCHANGED <<canvas, gateRequired, header, answer, document>>
    BY DEF DocumentInv, Gate, Goto, intakeVars
  <1>2. pc' \in Shaping /\ pc' \notin Asking \cup Completing /\ ~Assembled'
        /\ pc' \notin {"reconcile", "assemble", "trace", "decide"}
    BY <1>1 DEF Shaping, Asking, Completing, Assembled
  <1>3. ControlInv'
    BY <1>1, <1>2 DEF ControlInv
  <1>4. /\ rows' = [i \in DOMAIN answer.rows |-> rows'[i]]
        /\ guarded' = HeaderEvents \cup RowEvents
    BY DEF Gate
  <1>5. Len(answer.rows) \in Nat /\ DOMAIN answer.rows = 1..Len(answer.rows)
    BY <1>1, OwnDomain DEF AnswerInv, IsAnswer
  <1>6. AnswerInv'
    <2>1. HeaderEvents \subseteq (0..Len(answer.rows)) \X RowIds
      BY <1>5 DEF HeaderEvents, SuppressedIds, RowIds
    <2>2. ASSUME NEW e \in RowEvents PROVE e \in (0..Len(answer.rows)) \X RowIds
      <3>1. PICK i \in DOMAIN answer.rows :
                   e \in {<<i, f>> : f \in SuppressedInRow(answer.rows[i], gateRequired)}
        BY DEF RowEvents
      <3>2. SuppressedInRow(answer.rows[i], gateRequired) \subseteq RowIds
        BY DEF SuppressedInRow, SuppressedIds, RowIds
      <3>3. i \in 0..Len(answer.rows)
        BY <1>5
      <3> QED BY <3>1, <3>2, <3>3
    <2>3. guarded' \subseteq (0..Len(answer.rows)) \X RowIds
      BY <1>4, <2>1, <2>2
    <2>4. pc' \notin Asking /\ pc' # "gate" /\ document = NoDocument
      BY <1>1 DEF Asking, AnswerInv, Assembled
    <2> QED BY <1>1, <2>3, <2>4 DEF AnswerInv, Asking
  <1>7. HeaderInv'
    BY <1>1, <1>2, GatedHeaderFrom DEF HeaderInv
  <1>8. RowsFrom(rows', Sources', Observed') /\ Len(rows') = Len(answer.rows)
    <2>1. rows' \in Seq(Range(rows')) /\ Len(rows') = Len(answer.rows)
          /\ DOMAIN rows' = 1..Len(answer.rows)
      <3>1. rows' = [i \in 1..Len(answer.rows) |-> rows'[i]]
        BY <1>4, <1>5
      <3> QED BY <1>5, <3>1, OwnSequence
    <2>2. \A i \in DOMAIN answer.rows : RowFrom(rows'[i], Sources', Observed')
      BY <1>1, NormalizedRowFrom
    <2> QED BY <1>5, <2>1, <2>2 DEF RowsFrom
  <1>9. RowsInv' /\ DoubtsInv' /\ ConflictsInv' /\ OutcomesInv'
    BY <1>2, <1>8 DEF RowsInv, DoubtsInv, ConflictsInv, OutcomesInv,
       ImplausibleIsDoubted, CompliantIsEarned
  <1>10. GradesInv'
    <2>1. GradesKept(rows)'
      BY <1>1, NormalizedRowFrom DEF GradesKept
    <2> QED BY <1>1, <1>2, <1>8, <2>1 DEF GradesInv
  <1> QED BY <1>3, <1>6, <1>7, <1>9, <1>10 DEF DocumentInv

(* --------------------------- the steps on rows --------------------------- *)

(* What shaping and mapping leave to be shown: new rows of the same        *)
(* sources, and what became of their grades.                               *)
LEMMA ShapingKeeps ==
  ASSUME DocumentInv, pc \in Shaping, pc' \in Shaping,
         UNCHANGED <<canvas, gateRequired, header, answer, metadata, guarded, document>>,
         RowsFrom(rows', Sources, Observed),
         \/ Len(rows') = Len(rows) /\
              \A i \in DOMAIN rows : rows[i].grade \in Grades =>
                                       rows'[i].grade = rows[i].grade
         \/ Len(rows) >= 2 /\ Len(rows') = 1
         \/ Len(rows) = 0
  PROVE  DocumentInv'
  <1>1. pc' \notin Asking \cup Completing /\ ~Assembled'
        /\ pc' \notin {"reconcile", "assemble", "trace", "decide", "gate"}
    BY DEF Shaping, Asking, Completing, Assembled
  <1>2. Sources' = Sources /\ Observed' = Observed
    BY SourcesStay
  <1>3. ControlInv' /\ AnswerInv'
    BY <1>1 DEF DocumentInv, ControlInv, AnswerInv, Asking, Assembled, Shaping
  <1>4. HeaderInv'
    <2>1. HeaderInv
      BY DEF DocumentInv
    <2> QED BY <1>1, <1>2, <2>1 DEF HeaderInv, ConfidencesRead
  <1>5. RowsInv' /\ DoubtsInv' /\ ConflictsInv' /\ OutcomesInv'
    BY <1>1, <1>2 DEF RowsInv, DoubtsInv, ConflictsInv, OutcomesInv,
       ImplausibleIsDoubted, CompliantIsEarned
  <1>6. \/ Len(rows) = Len(answer.rows) /\ GradesKept(rows)
        \/ Len(answer.rows) = 0
        \/ Len(answer.rows) >= 2 /\ Len(rows) = 1
    BY DEF DocumentInv, GradesInv
  <1>7. \/ Len(rows') = Len(answer.rows) /\ GradesKept(rows')
        \/ Len(answer.rows) = 0
        \/ Len(answer.rows) >= 2 /\ Len(rows') = 1
    <2>1. ASSUME Len(rows) = Len(answer.rows), GradesKept(rows), Len(rows') = Len(rows),
                 \A i \in DOMAIN rows : rows[i].grade \in Grades =>
                                          rows'[i].grade = rows[i].grade
          PROVE  GradesKept(rows')
      <3>1. rows \in Seq(Range(rows))
        BY DEF DocumentInv, RowsInv, RowsFrom
      <3>2. DOMAIN rows = DOMAIN answer.rows
        BY <2>1, <3>1, OwnDomain DEF DocumentInv, AnswerInv, IsAnswer
      <3> QED BY <2>1, <3>2 DEF GradesKept
    <2> QED BY <1>6, <2>1
  <1>8. GradesInv'
    BY <1>1, <1>7 DEF GradesInv, GradesKept
  <1> QED BY <1>3, <1>4, <1>5, <1>8 DEF DocumentInv

(* What is known of header and rows while the rows are shaped.             *)
LEMMA WhileShaping ==
  ASSUME DocumentInv, pc \in Shaping
  PROVE  /\ Given(Sources, Observed) /\ TableFrom(Table, Observed)
         /\ HeaderFrom(metadata, Sources) /\ ConfidencesRead(metadata, Sources)
         /\ metadata.product = None /\ metadata.grade = None
         /\ \A f \in Ids : metadata.confs[f] \in Confidences
         /\ RowsFrom(rows, Sources, Observed)
         /\ rows \in Seq(Range(rows))
  BY ObservedIsGiven DEF DocumentInv, AnswerInv, HeaderInv, RowsInv, RowsFrom

LEMMA ShapeStep ==
  ASSUME DocumentInv, Shape
  PROVE  DocumentInv'
  <1>1. /\ pc \in Shaping /\ pc' \in Shaping /\ rows' = Shaped(rows, metadata)
        /\ UNCHANGED <<canvas, gateRequired, header, answer, metadata, guarded, document>>
    BY DEF Shape, Goto, Shaping, intakeVars
  <1>2. /\ RowsFrom(rows', Sources, Observed)
        /\ \/ /\ Len(rows') = Len(rows)
              /\ \A i \in DOMAIN rows :
                   rows[i].grade \in Grades => rows'[i].grade = rows[i].grade
           \/ Len(rows) >= 2 /\ Len(rows') = 1
    BY <1>1, WhileShaping, ShapedFrom
  <1> QED BY <1>1, <1>2, ShapingKeeps

LEMMA MapTablesStep ==
  ASSUME DocumentInv, MapTables
  PROVE  DocumentInv'
  <1> DEFINE read == WithTable(rows, Table, BlankRow)
  <1>1. /\ pc \in Shaping /\ pc' \in Shaping
        /\ rows' = IF Len(rows) = 0 /\ Len(read) = 1
                   THEN Backfilled(read, metadata) ELSE read
        /\ UNCHANGED <<canvas, gateRequired, header, answer, metadata, guarded, document>>
    BY DEF MapTables, Goto, Shaping, intakeVars
  <1>2. /\ RowsFrom(read, Sources, Observed)
        /\ Len(rows) # 0 => /\ Len(read) = Len(rows)
                            /\ \A i \in DOMAIN rows : read[i].grade = rows[i].grade
    BY <1>1, WhileShaping, WithTableFrom
  <1>3. RowsFrom(Backfilled(read, metadata), Sources, Observed)
    BY <1>1, <1>2, WhileShaping, BackfilledFrom
  <1> HIDE DEF read
  <1>4. RowsFrom(rows', Sources, Observed)
    BY <1>1, <1>2, <1>3
  <1>5. CASE Len(rows) = 0
    BY <1>1, <1>4, <1>5, ShapingKeeps
  <1>6. CASE Len(rows) # 0
    <2>1. rows' = read
      BY <1>1, <1>6
    <2>2. /\ Len(rows') = Len(rows)
          /\ \A i \in DOMAIN rows :
               rows[i].grade \in Grades => rows'[i].grade = rows[i].grade
      BY <1>2, <1>6, <2>1
    <2> HIDE <2>1
    <2> QED BY <1>1, <1>4, <2>2, ShapingKeeps
  <1> QED BY <1>5, <1>6

LEMMA MapIdentityStep ==
  ASSUME DocumentInv, MapIdentity
  PROVE  DocumentInv'
  <1> DEFINE new == Mapped(rows, metadata)
  <1>1. /\ pc \in Shaping /\ pc' \in Shaping /\ rows' = new
        /\ UNCHANGED <<canvas, gateRequired, header, answer, metadata, guarded, document>>
    BY DEF MapIdentity, Goto, Shaping, intakeVars
  <1>2. /\ HeaderFrom(metadata, Sources) /\ RowsFrom(rows, Sources, Observed)
    BY <1>1, WhileShaping
  <1>3. /\ RowsFrom(new, Sources, Observed) /\ Len(new) = Len(rows)
        /\ \A i \in DOMAIN rows :
             rows[i].grade \in Grades => new[i].grade = rows[i].grade
    BY <1>2, MappedFrom
  <1> HIDE DEF new
  <1>4. /\ RowsFrom(rows', Sources, Observed) /\ Len(rows') = Len(rows)
        /\ \A i \in DOMAIN rows :
             rows[i].grade \in Grades => rows'[i].grade = rows[i].grade
    BY <1>1, <1>3
  <1> QED BY <1>1, <1>4, ShapingKeeps

(* ---------------------- header and rows are completed --------------------- *)

(* What completing the document leaves to be shown.                        *)
LEMMA CompletingKeeps ==
  ASSUME DocumentInv, pc \in Shaping \cup Completing, pc' \in Completing,
         UNCHANGED <<canvas, gateRequired, header, answer, guarded, document>>
  PROVE  /\ Sources' = Sources /\ ParsedObserved' = ParsedObserved
         /\ \A f : Contradicted(f)' = Contradicted(f)
         /\ GradesDiffer' = GradesDiffer
         /\ ControlInv' /\ AnswerInv' /\ OutcomesInv'
         /\ ~Assembled' /\ pc' \notin Shaping
         /\ Given(Sources, ParsedObserved)
  <1>1. pc' \notin Asking \cup Shaping /\ ~Assembled' /\ pc' \notin {"trace", "decide", "gate"}
    BY DEF Shaping, Asking, Completing, Assembled
  <1>2. /\ Sources' = Sources /\ ParsedObserved' = ParsedObserved
        /\ \A f : Contradicted(f)' = Contradicted(f)
        /\ GradesDiffer' = GradesDiffer
    BY SourcesStay
  <1>3. ControlInv' /\ AnswerInv'
    BY <1>1 DEF DocumentInv, ControlInv, AnswerInv, Asking, Assembled, Shaping, Completing
  <1>4. OutcomesInv'
    BY <1>1 DEF OutcomesInv, CompliantIsEarned
  <1>5. Given(Sources, ParsedObserved)
    BY ObservedIsGiven DEF DocumentInv, AnswerInv
  <1> QED BY <1>1, <1>2, <1>3, <1>4, <1>5

LEMMA NormalizeStep ==
  ASSUME DocumentInv, Normalize
  PROVE  DocumentInv'
  <1> DEFINE grade == PropagatedGrade(metadata)
             new == Propagated(Read(rows), grade, "header_propagated")
             doubts == UNION {NumericTokens(rows[i].mech) : i \in DOMAIN rows}
             found == GradeConflicts(Labelling(rows), grade)
  <1>1. /\ pc = "semantics" /\ pc' = "finalize" /\ rows' = new
        /\ tokens' = (tokens \cup doubts)
                       \cup {<<"header_row_conflict", "grade">> : i \in found}
        /\ UNCHANGED <<canvas, gateRequired, header, answer, metadata, guarded, document>>
    <2> DEFINE read == Labelling(rows)
    <2>1. DOMAIN read = DOMAIN rows
      BY DEF Labelling
    <2>2. Read(rows) = [i \in DOMAIN read |->
                          [read[i] EXCEPT !.mech = ParsedMechanicals(@)]]
      BY <2>1 DEF Read
    <2> QED BY <2>2 DEF Normalize, Goto, intakeVars
  <1>2. pc \in Shaping /\ pc' \in Completing /\ pc' \notin {"reconcile", "assemble"}
    BY <1>1 DEF Shaping, Completing
  <1>3. /\ Sources' = Sources /\ ParsedObserved' = ParsedObserved
        /\ GradesDiffer' = GradesDiffer
        /\ ControlInv' /\ AnswerInv' /\ OutcomesInv'
        /\ ~Assembled' /\ pc' \notin Shaping
    BY <1>1, <1>2, CompletingKeeps
  <1>4. /\ Given(Sources, Observed) /\ ParsedObserved = ParsedValues(Observed)
        /\ RowsFrom(rows, Sources, Observed)
    BY <1>2, ObservedIsGiven DEF DocumentInv, AnswerInv, RowsInv
  <1>5. /\ RowsFrom(new, Sources, ParsedObserved)
        /\ Len(new) = Len(rows)
        /\ DoubtsReported(new, doubts)
    BY <1>4, NormalizedFrom
  <1> HIDE DEF new, doubts
  <1>6. HeaderInv'
    <2>1. HeaderInv
      BY DEF DocumentInv
    <2> QED BY <1>1, <1>2, <1>3, <2>1 DEF HeaderInv, ConfidencesRead
  <1>7. RowsInv'
    BY <1>1, <1>3, <1>5 DEF RowsInv
  <1>8. DoubtsInv'
    <2>1. doubts \subseteq tokens'
      BY <1>1
    <2>2. DoubtsReported(rows', tokens')
      BY <1>1, <1>5, <2>1 DEF DoubtsReported
    <2> QED BY <1>3, <2>2 DEF DoubtsInv, ImplausibleIsDoubted
  <1>9. ASSUME answer # Unasked, Len(new) = Len(answer.rows), GradesDiffer
        PROVE  <<"header_row_conflict", "grade">> \in tokens'
    <2>1. PICK i \in DOMAIN answer.rows :
                 /\ answer.rows[i].row.grade \in Grades
                 /\ header.headerGrade \in Grades \ {answer.rows[i].row.grade}
      BY <1>9 DEF GradesDiffer
    <2>2. DOMAIN answer.rows = 1..Len(answer.rows) /\ Len(answer.rows) \in Nat
      BY OwnDomain DEF DocumentInv, AnswerInv, IsAnswer
    <2>3. DOMAIN rows = 1..Len(rows)
      BY <1>4, OwnDomain DEF RowsFrom
    <2>4. Len(rows) = Len(answer.rows)
      BY <1>5, <1>9
    <2>5. GradesKept(rows)
      <3>1. \/ Len(rows) = Len(answer.rows) /\ GradesKept(rows)
            \/ Len(answer.rows) = 0
            \/ Len(answer.rows) >= 2 /\ Len(rows) = 1
        BY <1>2 DEF DocumentInv, GradesInv
      <3>2. Len(answer.rows) # 0
        BY <2>1, <2>2
      <3>3. ASSUME Len(answer.rows) >= 2, Len(rows) = 1 PROVE FALSE
        <4>1. Len(answer.rows) = 1
          BY <2>4, <3>3
        <4> QED BY <3>3, <4>1
      <3> QED BY <3>1, <3>2, <3>3
    <2>6. i \in DOMAIN rows /\ rows[i].grade = answer.rows[i].row.grade
      BY <2>1, <2>2, <2>3, <2>4, <2>5 DEF GradesKept
    <2>7. metadata.headerGrade = header.headerGrade
      BY <1>2, <1>9 DEF DocumentInv, HeaderInv
    <2>8. DOMAIN rows[i] = RowFields
      BY <1>4, <2>6, BlankRowFields DEF RowsFrom, RowFrom, IsRow
    <2>9. i \in found
      BY <2>1, <2>6, <2>7, <2>8, ConflictIsFound
    <2> QED BY <1>1, <2>9
  <1>10. GradesInv'
    BY <1>1, <1>3, <1>9 DEF GradesInv
  <1>11. ConflictsInv'
    BY <1>2, <1>3 DEF ConflictsInv
  <1> QED BY <1>3, <1>6, <1>7, <1>8, <1>10, <1>11 DEF DocumentInv

LEMMA FinalizeStep ==
  ASSUME DocumentInv, Finalize
  PROVE  DocumentInv'
  <1> DEFINE final == Finalized(metadata, rows)
  <1>1. /\ pc = "finalize" /\ pc' = "reconcile"
        /\ metadata' = final.metadata /\ rows' = final.rows /\ tokens' = tokens
        /\ UNCHANGED <<canvas, gateRequired, header, answer, guarded, document>>
    BY DEF Finalize, Goto, intakeVars
  <1>2. pc \in Completing /\ pc' \in Completing
    BY <1>1 DEF Completing
  <1>3. /\ Sources' = Sources /\ ParsedObserved' = ParsedObserved
        /\ GradesDiffer' = GradesDiffer
        /\ ControlInv' /\ AnswerInv' /\ OutcomesInv'
        /\ ~Assembled' /\ pc' \notin Shaping
        /\ Given(Sources, ParsedObserved)
    BY <1>1, <1>2, CompletingKeeps
  <1>4. /\ HeaderFrom(metadata, Sources) /\ ConfidencesRead(metadata, Sources)
        /\ metadata.product = None /\ metadata.grade = None
        /\ metadata.rope => header.rope
        /\ answer # Unasked => /\ metadata.headerGrade = header.headerGrade
                               /\ metadata.description = header.description
    BY <1>1, <1>2 DEF DocumentInv, HeaderInv
  <1>5. RowsFrom(rows, Sources, ParsedObserved) /\ DoubtsReported(rows, tokens)
    BY <1>2 DEF DocumentInv, RowsInv, DoubtsInv
  <1>6. /\ HeaderFrom(final.metadata, Sources)
        /\ ConfidencesRead(final.metadata, Sources)
        /\ TakenFromTexts(final.metadata)
        /\ final.metadata.headerGrade = metadata.headerGrade
        /\ final.metadata.description = metadata.description
        /\ final.metadata.rope = metadata.rope
        /\ RowsFrom(final.rows, Sources, ParsedObserved)
        /\ Len(final.rows) = Len(rows) /\ DOMAIN final.rows = DOMAIN rows
        /\ \A i \in DOMAIN rows : final.rows[i].mech = rows[i].mech
    BY <1>3, <1>4, <1>5, FinalizedFrom
  <1> HIDE DEF final
  <1>7. HeaderInv'
    BY <1>1, <1>3, <1>4, <1>6 DEF HeaderInv, ConfidencesRead, TakenFromTexts
  <1>8. RowsInv'
    BY <1>1, <1>3, <1>6 DEF RowsInv
  <1>9. DoubtsInv'
    <2>1. DoubtsReported(rows', tokens')
      BY <1>1, <1>5, <1>6 DEF DoubtsReported
    <2> QED BY <1>3, <2>1 DEF DoubtsInv, ImplausibleIsDoubted
  <1>10. GradesInv'
    BY <1>1, <1>2, <1>3, <1>6 DEF DocumentInv, GradesInv
  <1>11. ConflictsInv'
    BY <1>1, <1>3 DEF ConflictsInv
  <1> QED BY <1>3, <1>7, <1>8, <1>9, <1>10, <1>11 DEF DocumentInv

LEMMA ReconcileStep ==
  ASSUME DocumentInv, Reconcile
  PROVE  DocumentInv'
  <1> DEFINE final == Reconciled(metadata, rows)
             clash == Conflicting(HeaderLabels(metadata) \cup StructuredDates(metadata))
  <1>1. /\ pc = "reconcile" /\ pc' = "assemble"
        /\ metadata' = final.metadata /\ rows' = final.rows
        /\ tokens' = tokens \cup {<<"conflicting_labeled_candidates", f>> :
                                    f \in final.review}
        /\ UNCHANGED <<canvas, gateRequired, header, answer, guarded, document>>
    BY DEF Reconcile, Goto, intakeVars
  <1>2. pc \in Completing /\ pc' \in Completing
    BY <1>1 DEF Completing
  <1>3. /\ Sources' = Sources /\ ParsedObserved' = ParsedObserved
        /\ \A f : Contradicted(f)' = Contradicted(f)
        /\ GradesDiffer' = GradesDiffer
        /\ ControlInv' /\ AnswerInv' /\ OutcomesInv'
        /\ ~Assembled' /\ pc' \notin Shaping
        /\ Given(Sources, ParsedObserved)
    BY <1>1, <1>2, CompletingKeeps
  <1>4. /\ HeaderFrom(metadata, Sources) /\ ConfidencesRead(metadata, Sources)
        /\ TakenFromTexts(metadata)
        /\ metadata.rope => header.rope
        /\ answer # Unasked => /\ metadata.headerGrade = header.headerGrade
                               /\ metadata.description = header.description
    BY <1>1, <1>2 DEF DocumentInv, HeaderInv
  <1>5. RowsFrom(rows, Sources, ParsedObserved) /\ DoubtsReported(rows, tokens)
    BY <1>2 DEF DocumentInv, RowsInv, DoubtsInv
  <1>6. /\ HeaderFrom(final.metadata, Sources)
        /\ final.metadata.headerGrade = metadata.headerGrade
        /\ final.metadata.description = metadata.description
        /\ final.metadata.rope = metadata.rope
        /\ RowsFrom(final.rows, Sources, ParsedObserved)
        /\ Len(final.rows) = Len(rows) /\ DOMAIN final.rows = DOMAIN rows
        /\ \A i \in DOMAIN rows : final.rows[i].mech = rows[i].mech
        /\ \A f \in Ids \cap clash :
             LeftEmpty(final.metadata, final.rows, f) /\ f \in final.review
    BY <1>3, <1>4, <1>5, ReconciledFrom
  <1>7. ASSUME NEW f \in Ids, answer # Unasked, Contradicted(f)
        PROVE  f \in clash
    <2>1. Cardinality(LabelledValues(metadata.headerGrade, f)
                        \cup LabelledValues(metadata.description, f)) > 1
      BY <1>4, <1>7 DEF Contradicted
    <2> QED BY <2>1, ContradictionsConflict
  <1> HIDE DEF final, clash
  <1>8. HeaderInv'
    BY <1>1, <1>3, <1>4, <1>6 DEF HeaderInv
  <1>9. RowsInv'
    BY <1>1, <1>3, <1>6 DEF RowsInv
  <1>10. DoubtsInv'
    <2>1. DoubtsReported(rows', tokens')
      BY <1>1, <1>5, <1>6 DEF DoubtsReported
    <2> QED BY <1>3, <2>1 DEF DoubtsInv, ImplausibleIsDoubted
  <1>11. GradesInv'
    <2>1. tokens \subseteq tokens'
      BY <1>1
    <2> QED BY <1>1, <1>2, <1>3, <1>6, <2>1 DEF DocumentInv, GradesInv
  <1>12. ConflictsInv'
    <2>1. ASSUME NEW f \in Ids, answer # Unasked, Contradicted(f)
          PROVE  LeftEmpty(metadata, rows, f)'
                   /\ <<"conflicting_labeled_candidates", f>> \in tokens'
      BY <1>1, <1>6, <1>7, <2>1 DEF LeftEmpty
    <2> QED BY <1>1, <1>3, <2>1 DEF ConflictsInv
  <1> QED BY <1>3, <1>8, <1>9, <1>10, <1>11, <1>12 DEF DocumentInv

(* --------------------- the document and what is said ---------------------- *)

(* Assembling and judging a row leaves its texts and values, and at most   *)
(* takes its identifiers away.                                             *)
Judged(new, row) ==
  /\ DOMAIN new = RowFields
  /\ \A f \in {"cert", "product", "grade", "dims", "norms", "classes", "mech", "known"} :
       new[f] = row[f]
  /\ \A f \in {"heat", "lot"} : new[f] \in {row[f], None}
  /\ new.verified \subseteq RowIds
  /\ new.outcome \in Outcomes \cup {None}

LEMMA JudgedFrom ==
  ASSUME NEW sources, NEW values, Given(sources, values),
         NEW row, RowFrom(row, sources, values), NEW new, Judged(new, row)
  PROVE  RowFrom(new, sources, values)
  <1>1. /\ new.cert = row.cert /\ new.product = row.product /\ new.grade = row.grade
        /\ new.dims = row.dims /\ new.norms = row.norms /\ new.classes = row.classes
        /\ new.mech = row.mech /\ new.known = row.known
        /\ new.heat \in {row.heat, None} /\ new.lot \in {row.lot, None}
    BY DEF Judged
  <1>2. IsRow(new)
    BY <1>1, BlankRowFields DEF Judged, RowFrom, IsRow
  <1>3. new.heat \in sources["heat"] /\ new.lot \in sources["lot"]
        /\ new.cert \in sources["cert"]
    BY <1>1 DEF RowFrom, Ids, Given
  <1>4. \A f \in Ids : new[f] \in sources[f]
    BY <1>3 DEF Ids
  <1> QED BY <1>1, <1>2, <1>4 DEF RowFrom

(* Likewise for all rows.                                                  *)
LEMMA JudgedRowsFrom ==
  ASSUME NEW sources, NEW values, Given(sources, values),
         NEW rs, RowsFrom(rs, sources, values),
         NEW new, new = [i \in DOMAIN rs |-> new[i]],
         \A i \in DOMAIN rs : Judged(new[i], rs[i])
  PROVE  /\ RowsFrom(new, sources, values)
         /\ Len(new) = Len(rs) /\ DOMAIN new = DOMAIN rs
  <1>1. rs \in Seq(Range(rs))
    BY DEF RowsFrom
  <1>2. \A i \in DOMAIN rs : RowFrom(new[i], sources, values)
    BY JudgedFrom DEF RowsFrom
  <1> QED BY <1>1, <1>2, RowByRow

LEMMA RowIsJudged ==
  ASSUME NEW sources, NEW values, NEW row, RowFrom(row, sources, values)
  PROVE  /\ DOMAIN row = RowFields /\ row.verified \subseteq RowIds
         /\ row.outcome \in Outcomes \cup {None}
  BY BlankRowFields DEF RowFrom, IsRow

LEMMA AssembleStep ==
  ASSUME DocumentInv, Assemble
  PROVE  DocumentInv'
  <1> DEFINE new == [i \in DOMAIN rows |-> document'.rows[i]]
             reasons == tokens \cup (IF guarded = {} THEN {}
                                     ELSE {Token("critical_identifier_unverified")})
  <1>1. /\ pc = "assemble" /\ pc' = "validate"
        /\ UNCHANGED <<canvas, gateRequired, header, answer, metadata, rows, guarded, tokens>>
    BY DEF Assemble, Goto, intakeVars
  <1>2. /\ DOMAIN document' = {"metadata", "rows", "reported", "reasons", "review", "outcome"}
        /\ document'.metadata = metadata
        /\ document'.reasons = reasons
        /\ document'.review = (reasons # {})
        /\ document'.outcome = "NOT_VALIDATED"
        /\ document'.rows = new
        /\ \A i \in DOMAIN rows : \E p :
             document'.rows[i] = [rows[i] EXCEPT !.provenance = p]
    BY DEF Assemble
  <1>3. /\ pc \in Completing /\ pc # "reconcile" /\ pc' \notin Asking \cup Shaping \cup Completing
        /\ Assembled' /\ pc' \notin {"gate", "reconcile", "assemble", "trace", "decide"}
    BY <1>1 DEF Asking, Shaping, Completing, Assembled
  <1>4. /\ Sources' = Sources /\ ParsedObserved' = ParsedObserved
        /\ \A f : Contradicted(f)' = Contradicted(f)
        /\ GradesDiffer' = GradesDiffer
    BY <1>1, SourcesStay
  <1>5. Given(Sources, ParsedObserved)
    BY ObservedIsGiven DEF DocumentInv, AnswerInv
  <1>6. /\ HeaderFrom(metadata, Sources)
        /\ metadata.rope => header.rope
        /\ RowsFrom(rows, Sources, ParsedObserved) /\ DoubtsReported(rows, tokens)
    BY <1>3 DEF DocumentInv, HeaderInv, RowsInv, DoubtsInv
  <1>7. ASSUME NEW i \in DOMAIN rows PROVE Judged(new[i], rows[i])
    <2>1. PICK p : new[i] = [rows[i] EXCEPT !.provenance = p]
      BY <1>2
    <2>2. /\ DOMAIN rows[i] = RowFields /\ rows[i].verified \subseteq RowIds
          /\ rows[i].outcome \in Outcomes \cup {None}
      BY <1>6, RowIsJudged DEF RowsFrom
    <2> HIDE DEF new
    <2> QED BY <2>1, <2>2 DEF Judged, RowFields
  <1>8. new = [i \in DOMAIN rows |-> new[i]]
    OBVIOUS
  <1> HIDE DEF new, reasons
  <1>9. /\ RowsFrom(new, Sources, ParsedObserved)
        /\ Len(new) = Len(rows) /\ DOMAIN new = DOMAIN rows
    BY <1>5, <1>6, <1>7, <1>8, JudgedRowsFrom
  <1>10. tokens \subseteq reasons
    BY DEF reasons
  <1>11. ControlInv' /\ AnswerInv'
    BY <1>1, <1>3 DEF DocumentInv, ControlInv, AnswerInv
  <1>12. HeaderInv'
    <2>1. DOMAIN document' = DOMAIN NoDocument
      BY <1>2 DEF NoDocument
    <2>2. /\ DOMAIN document'.metadata = DOMAIN BlankHeader
          /\ document'.metadata.rope => header.rope
          /\ \A f \in Ids : document'.metadata[f] \in Sources'[f]
      <3>1. document'.metadata = metadata
        BY <1>2
      <3>2. /\ DOMAIN metadata = DOMAIN BlankHeader
            /\ \A f \in Ids : metadata[f] \in Sources[f]
        BY <1>6 DEF HeaderFrom
      <3> QED BY <1>4, <1>6, <3>1, <3>2
    <2>3. header' = header /\ pc' \notin Shaping \cup Completing
          /\ pc' \notin Shaping \cup {"finalize"} /\ pc' # "reconcile"
      BY <1>1, <1>3
    <2> QED BY <2>1, <2>2, <2>3 DEF HeaderInv
  <1>13. RowsInv'
    BY <1>1, <1>2, <1>3, <1>4, <1>6, <1>9 DEF RowsInv
  <1>14. DoubtsInv'
    <2>1. ASSUME NEW i \in DOMAIN document'.rows, NEW k \in Kinds,
                 document'.rows[i].mech[k] # Blank,
                 ~Plausible(document'.rows[i].mech[k], k)
          PROVE  <<"numeric_uncertain", k>> \in document'.reasons /\ document'.review
      <3>1. i \in DOMAIN rows /\ document'.rows[i].mech = rows[i].mech
        BY <1>2, <1>7, <1>9, <2>1 DEF Judged
      <3>2. <<"numeric_uncertain", k>> \in tokens
        BY <1>6, <2>1, <3>1 DEF DoubtsReported
      <3> QED BY <1>2, <1>10, <3>2
    <2> QED BY <1>3, <2>1 DEF DoubtsInv, ImplausibleIsDoubted
  <1>15. GradesInv'
    BY <1>1, <1>2, <1>3, <1>4, <1>9, <1>10 DEF DocumentInv, GradesInv
  <1>16. ConflictsInv'
    <2>1. ASSUME NEW f \in Ids, answer # Unasked, Contradicted(f)
          PROVE  LeftEmpty(document'.metadata, document'.rows, f) /\ document'.review
      <3>1. LeftEmpty(metadata, rows, f)
            /\ <<"conflicting_labeled_candidates", f>> \in tokens
        BY <1>1, <2>1 DEF DocumentInv, ConflictsInv
      <3>2. document'.review
        BY <1>2, <1>10, <3>1
      <3>3. ASSUME NEW i \in DOMAIN new PROVE new[i][f] = None
        <4>1. Judged(new[i], rows[i]) /\ rows[i][f] = None
          BY <1>7, <1>9, <3>1 DEF LeftEmpty
        <4> QED BY <4>1 DEF Judged, Ids
      <3> QED BY <1>2, <3>1, <3>2, <3>3 DEF LeftEmpty
    <2> QED BY <1>1, <1>3, <1>4, <2>1 DEF ConflictsInv
  <1>17. OutcomesInv'
    <2>1. document'.outcome \in Outcomes
      BY <1>2 DEF Outcomes
    <2> QED BY <1>3, <2>1 DEF OutcomesInv, CompliantIsEarned
  <1> QED BY <1>11, <1>12, <1>13, <1>14, <1>15, <1>16, <1>17 DEF DocumentInv

LEMMA RowOutcomes ==
  ASSUME NEW row
  PROVE  /\ RowOutcome(row) \in Outcomes
         /\ RowOutcome(row) = "COMPLIANT" => ~Breaches(row.mech)
  <1>1. SpecStatus(row.grade) \in {"empty", "unknown_grade", "ambiguous_grade", "resolved",
                                  "unsupported_spec_family"}
    BY DEF SpecStatus
  <1> DEFINE status == SpecStatus(row.grade)
  <1> HIDE DEF status
  <1>2. CASE status = "resolved"
    <2>1. RowOutcome(row) = IF Breaches(row.mech) THEN "NON_COMPLIANT" ELSE "COMPLIANT"
      BY <1>2 DEF RowOutcome, status
    <2> QED BY <2>1 DEF Outcomes
  <1>3. CASE status # "resolved"
    <2>1. RowOutcome(row) \in Outcomes \ {"COMPLIANT"}
      BY <1>1, <1>3 DEF RowOutcome, status, Outcomes
    <2> QED BY <2>1
  <1> QED BY <1>2, <1>3

LEMMA DocumentOutcomes ==
  ASSUME NEW rs
  PROVE  /\ DocumentOutcome(rs) \in Outcomes
         /\ DocumentOutcome(rs) = "COMPLIANT" =>
              \A i \in DOMAIN rs : rs[i].outcome = "COMPLIANT"
  <1> DEFINE seen == {rs[i].outcome : i \in DOMAIN rs}
  <1>1. DocumentOutcome(rs) \in Outcomes
    BY DEF DocumentOutcome, Outcomes
  <1>2. DocumentOutcome(rs) = "COMPLIANT" => seen = {"COMPLIANT"}
    BY DEF DocumentOutcome
  <1> QED BY <1>1, <1>2

(* What validation makes of a row.                                         *)
LEMMA ValidatedRow ==
  ASSUME NEW doc, DOMAIN doc = DOMAIN NoDocument, NEW i \in DOMAIN doc.rows,
         DOMAIN doc.rows[i] = RowFields, doc.rows[i].verified \subseteq RowIds
  PROVE  LET row == doc.rows[i]
             new == Validated(doc).rows[i]
         IN /\ Judged(new, row)
            /\ new.outcome \in Outcomes
            /\ new.outcome # "COMPLIANT" => new.deviates
            /\ new.outcome = "COMPLIANT" /\ ~doc.metadata.rope => ~Breaches(new.mech)
  <1> DEFINE row == doc.rows[i]
             said == IF doc.metadata.rope THEN RopeRow(row) ELSE SteelRow(doc.rows, i)
             new == Validated(doc).rows[i]
  <1>1. /\ DOMAIN said = RowFields
        /\ \A f \in RowFields \ {"outcome", "deviates", "review"} : said[f] = row[f]
    BY DEF RopeRow, SteelRow, RowFields
  <1>2. /\ said.outcome \in Outcomes
        /\ said.outcome # "COMPLIANT" => said.deviates
        /\ said.outcome = "COMPLIANT" /\ ~doc.metadata.rope => ~Breaches(row.mech)
    <2>1. CASE doc.metadata.rope
      <3>1. said.outcome = "COMPLIANT"
        BY <2>1 DEF RopeRow, RowFields
      <3> QED BY <2>1, <3>1 DEF Outcomes
    <2>2. CASE ~doc.metadata.rope
      <3>1. /\ said.outcome = RowOutcome(row)
            /\ RowOutcome(row) # "COMPLIANT" => said.deviates
        BY <2>2 DEF SteelRow, RowFields
      <3> QED BY <3>1, RowOutcomes
    <2> QED BY <2>1, <2>2
  <1>3. \E r : new = [said EXCEPT !.heat = IF doc.metadata.unclear THEN None ELSE said.heat,
                                   !.review = r]
    BY DEF Validated, NoDocument
  <1> HIDE DEF said, new
  <1>4. /\ DOMAIN new = RowFields
        /\ new.heat \in {said.heat, None}
        /\ \A f \in RowFields \ {"heat", "review"} : new[f] = said[f]
    BY <1>1, <1>3 DEF RowFields
  <1>5. Judged(new, row)
    BY <1>1, <1>2, <1>4 DEF Judged, RowFields
  <1>6. new.outcome = said.outcome /\ new.deviates = said.deviates /\ new.mech = row.mech
    BY <1>1, <1>4 DEF RowFields
  <1> QED BY <1>2, <1>5, <1>6 DEF new

LEMMA ValidatedFields ==
  ASSUME NEW doc, DOMAIN doc = DOMAIN NoDocument
  PROVE  LET new == Validated(doc)
         IN /\ DOMAIN new = DOMAIN NoDocument /\ new.metadata = doc.metadata
            /\ new.rows = [i \in DOMAIN doc.rows |-> new.rows[i]]
            /\ doc.reasons \subseteq new.reasons
            /\ doc.review => new.review
            /\ new.outcome \in Outcomes
  <1> DEFINE new == Validated(doc)
  <1>1. /\ DOMAIN new = DOMAIN NoDocument /\ new.metadata = doc.metadata
        /\ new.rows = [i \in DOMAIN doc.rows |-> new.rows[i]]
        /\ doc.reasons \subseteq new.reasons
        /\ doc.review => new.review
    BY DEF Validated, NoDocument
  <1>2. \E rs : new.outcome = DocumentOutcome(rs)
    BY DEF Validated, NoDocument
  <1> QED BY <1>1, <1>2, DocumentOutcomes

(* What judging the rows of a document leaves to be shown.                 *)
LEMMA JudgedDocument ==
  ASSUME DocumentInv, Assembled, Assembled', pc' \in {"trace", "decide"},
         UNCHANGED <<canvas, gateRequired, header, answer, metadata, rows, guarded, tokens>>,
         DOMAIN document' = DOMAIN NoDocument,
         DOMAIN document'.metadata = DOMAIN BlankHeader,
         document'.metadata.rope = document.metadata.rope,
         \A f \in Ids : document'.metadata[f] \in {document.metadata[f], None},
         document'.rows = [i \in DOMAIN document.rows |-> document'.rows[i]],
         \A i \in DOMAIN document.rows : Judged(document'.rows[i], document.rows[i]),
         document.reasons \subseteq document'.reasons,
         document.review => document'.review
  PROVE  ControlInv' /\ AnswerInv' /\ HeaderInv' /\ RowsInv' /\ DoubtsInv'
         /\ GradesInv' /\ ConflictsInv'
  <1>1. pc' \notin Asking \cup Shaping \cup Completing
        /\ pc' \notin Shaping \cup {"finalize"}
        /\ pc' \notin {"gate", "reconcile", "assemble"}
    BY DEF Asking, Shaping, Completing
  <1>2. /\ Sources' = Sources /\ ParsedObserved' = ParsedObserved
        /\ \A f : Contradicted(f)' = Contradicted(f)
        /\ GradesDiffer' = GradesDiffer
    BY SourcesStay
  <1>3. Given(Sources, ParsedObserved)
    BY ObservedIsGiven DEF DocumentInv, AnswerInv
  <1>4. /\ document.metadata.rope => header.rope
        /\ \A f \in Ids : document.metadata[f] \in Sources[f]
        /\ RowsFrom(rows, Sources, ParsedObserved)
        /\ RowsFrom(document.rows, Sources, ParsedObserved)
        /\ ImplausibleIsDoubted
    BY DEF DocumentInv, HeaderInv, RowsInv, DoubtsInv
  <1> DEFINE old == document.rows
             new == document'.rows
  <1> HIDE DEF old, new
  <1>5. /\ RowsFrom(new, Sources, ParsedObserved)
        /\ Len(new) = Len(old) /\ DOMAIN new = DOMAIN old
    <2>1. /\ RowsFrom(old, Sources, ParsedObserved)
          /\ new = [i \in DOMAIN old |-> new[i]]
          /\ \A i \in DOMAIN old : Judged(new[i], old[i])
      BY <1>4 DEF old, new
    <2> QED BY <1>3, <2>1, JudgedRowsFrom
  <1>6. ControlInv'
    BY DEF DocumentInv, ControlInv
  <1>7. AnswerInv'
    BY <1>1 DEF DocumentInv, AnswerInv
  <1>8. HeaderInv'
    <2>1. ASSUME NEW f \in Ids PROVE document'.metadata[f] \in Sources'[f]
      BY <1>2, <1>3, <1>4 DEF Given
    <2>2. document'.metadata.rope => header'.rope
      BY <1>4
    <2> QED BY <1>1, <2>1, <2>2 DEF HeaderInv
  <1>9. RowsInv'
    BY <1>1, <1>2, <1>4, <1>5 DEF RowsInv, new
  <1>10. DoubtsInv'
    <2>1. ASSUME NEW i \in DOMAIN new, NEW k \in Kinds,
                 new[i].mech[k] # Blank, ~Plausible(new[i].mech[k], k)
          PROVE  <<"numeric_uncertain", k>> \in document'.reasons /\ document'.review
      <3>1. i \in DOMAIN old /\ new[i].mech = old[i].mech
        BY <1>5 DEF Judged, old, new
      <3>2. <<"numeric_uncertain", k>> \in document.reasons /\ document.review
        BY <1>4, <2>1, <3>1 DEF ImplausibleIsDoubted, old
      <3> QED BY <3>2
    <2> QED BY <1>1, <2>1 DEF DoubtsInv, ImplausibleIsDoubted, new
  <1>11. GradesInv'
    BY <1>1, <1>2, <1>5 DEF DocumentInv, GradesInv, old, new
  <1>12. ConflictsInv'
    <2>1. ASSUME NEW f \in Ids, answer # Unasked, Contradicted(f)
          PROVE  LeftEmpty(document'.metadata, new, f) /\ document'.review
      <3>1. LeftEmpty(document.metadata, old, f) /\ document.review
        BY <2>1 DEF DocumentInv, ConflictsInv, old
      <3>2. ASSUME NEW i \in DOMAIN new PROVE new[i][f] = None
        <4>1. Judged(new[i], old[i]) /\ old[i][f] = None
          BY <1>5, <3>1 DEF LeftEmpty, old, new
        <4> QED BY <4>1 DEF Judged, Ids
      <3>3. document'.metadata[f] = None
        BY <3>1 DEF LeftEmpty
      <3> QED BY <3>1, <3>2, <3>3 DEF LeftEmpty
    <2> QED BY <1>1, <1>2, <2>1 DEF ConflictsInv, new
  <1> QED BY <1>6, <1>7, <1>8, <1>9, <1>10, <1>11, <1>12

LEMMA ValidateStep ==
  ASSUME DocumentInv, Validate
  PROVE  DocumentInv'
  <1>1. /\ pc = "validate" /\ pc' = "trace" /\ document' = Validated(document)
        /\ UNCHANGED <<canvas, gateRequired, header, answer, metadata, rows, guarded, tokens>>
    BY DEF Validate, Goto, intakeVars
  <1>2. Assembled /\ Assembled' /\ pc' \in {"trace", "decide"} /\ pc' # "decide"
    BY <1>1 DEF Assembled
  <1>3. /\ DOMAIN document = DOMAIN NoDocument
        /\ DOMAIN document.metadata = DOMAIN BlankHeader
        /\ RowsFrom(document.rows, Sources, ParsedObserved)
    BY <1>2 DEF DocumentInv, HeaderInv, RowsInv
  <1>4. /\ DOMAIN document' = DOMAIN NoDocument /\ document'.metadata = document.metadata
        /\ document'.rows = [i \in DOMAIN document.rows |-> document'.rows[i]]
        /\ document.reasons \subseteq document'.reasons
        /\ document.review => document'.review
        /\ document'.outcome \in Outcomes
    BY <1>1, <1>3, ValidatedFields
  <1>5. ASSUME NEW i \in DOMAIN document.rows
        PROVE  /\ Judged(document'.rows[i], document.rows[i])
               /\ document'.rows[i].outcome \in Outcomes
               /\ document'.rows[i].outcome # "COMPLIANT" => document'.rows[i].deviates
               /\ document'.rows[i].outcome = "COMPLIANT" /\ ~document.metadata.rope =>
                    ~Breaches(document'.rows[i].mech)
    <2>1. DOMAIN document.rows[i] = RowFields /\ document.rows[i].verified \subseteq RowIds
      BY <1>3, RowIsJudged DEF RowsFrom
    <2> QED BY <1>1, <1>3, <2>1, ValidatedRow
  <1>6. ControlInv' /\ AnswerInv' /\ HeaderInv' /\ RowsInv' /\ DoubtsInv'
        /\ GradesInv' /\ ConflictsInv'
    BY <1>1, <1>2, <1>3, <1>4, <1>5, JudgedDocument
  <1>7. OutcomesInv'
    <2>1. DOMAIN document'.rows = DOMAIN document.rows
      BY <1>4
    <2> QED BY <1>2, <1>4, <1>5, <2>1 DEF OutcomesInv, CompliantIsEarned
  <1> QED BY <1>6, <1>7 DEF DocumentInv

(* What the traceability check makes of a row.                             *)
LEMMA TracedRowFields ==
  ASSUME NEW row, NEW md, DOMAIN row = RowFields, row.outcome \in Outcomes,
         row.outcome # "COMPLIANT" => row.deviates
  PROVE  LET new == TracedRow(row, md)
         IN /\ Judged(new, row)
            /\ new.outcome \in Outcomes
            /\ new.outcome # "COMPLIANT" => new.deviates
            /\ new.outcome = "COMPLIANT" =>
                 row.outcome = "COMPLIANT" /\ \E f \in Group : f \in new.verified
            /\ HeaderVerified(md) \subseteq new.verified
            /\ \A f \in Group \cap new.verified :
                 new[f] # None \/ f \in HeaderVerified(md)
  <1> DEFINE sure == VerifiedIds(row, md)
             new == TracedRow(row, md)
             traced == sure \cap Group # {}
             Shown(f) == IF traced \/ f \in sure THEN row[f] ELSE None
             fails == row.outcome = "COMPLIANT" /\ ~traced
  <1>1. /\ DOMAIN new = RowFields
        /\ \A f \in RowFields \ {"verified", "heat", "lot", "item", "pipe", "outcome",
                                 "deviates", "review"} : new[f] = row[f]
        /\ new.verified = sure
        /\ new.heat = Shown("heat") /\ new.lot = Shown("lot")
        /\ new.outcome = IF fails THEN "NEEDS_REVIEW" ELSE row.outcome
        /\ new.deviates = (row.deviates \/ fails)
    BY DEF TracedRow, RowFields
  <1>2. sure \subseteq RowIds
    BY DEF VerifiedIds, OwnVerified, HeaderVerified, RowIds, Ids
  <1>3. ASSUME NEW f \in Group \cap sure
        PROVE  new[f] # None \/ f \in HeaderVerified(md)
    <2>1. CASE f \in OwnVerified(row)
      <3>1. row[f] # None /\ traced
        BY <1>3, <2>1 DEF OwnVerified
      <3>2. new[f] = row[f]
        BY <1>1, <3>1 DEF Group
      <3> QED BY <3>1, <3>2
    <2>2. CASE f \in HeaderVerified(md)
      BY <2>2
    <2> QED BY <2>1, <2>2 DEF VerifiedIds
  <1>8. HeaderVerified(md) \subseteq sure
    BY DEF VerifiedIds
  <1> HIDE DEF new, sure
  <1>4. new.outcome \in Outcomes
    BY <1>1 DEF Outcomes
  <1>5. Judged(new, row)
    BY <1>1, <1>2, <1>4 DEF Judged, RowFields
  <1>6. new.outcome = "COMPLIANT" =>
          row.outcome = "COMPLIANT" /\ \E f \in Group : f \in new.verified
    BY <1>1
  <1>7. new.outcome # "COMPLIANT" => new.deviates
    BY <1>1
  <1> QED BY <1>1, <1>3, <1>4, <1>5, <1>6, <1>7, <1>8 DEF new

(* What it makes of the document: the lot stays where a row needs it.      *)
LEMMA TracedFields ==
  ASSUME NEW doc, DOMAIN doc = DOMAIN NoDocument,
         DOMAIN doc.metadata = DOMAIN BlankHeader,
         NEW new, new = Traced(doc)
  PROVE  /\ DOMAIN new = DOMAIN NoDocument
         /\ DOMAIN new.metadata = DOMAIN BlankHeader
         /\ new.metadata.rope = doc.metadata.rope
         /\ \A f \in Ids : new.metadata[f] \in {doc.metadata[f], None}
         /\ new.rows = [i \in DOMAIN doc.rows |-> new.rows[i]]
         /\ \A i \in DOMAIN doc.rows : new.rows[i] = TracedRow(doc.rows[i], doc.metadata)
         /\ doc.reasons \subseteq new.reasons
         /\ doc.review => new.review
         /\ new.outcome \in Outcomes
         /\ new.outcome = "COMPLIANT" =>
              /\ DocumentOutcome(new.rows) = "COMPLIANT"
              /\ DocumentTraced(new.rows)
         /\ DOMAIN doc.rows # {} /\ DocumentTraced(new.rows) =>
              new.metadata.lot = doc.metadata.lot
         /\ DOMAIN doc.rows # {} /\ (\A i \in DOMAIN doc.rows :
                                        "lot" \in new.rows[i].verified) =>
              new.metadata.lot = doc.metadata.lot
  <1> DEFINE rs == [i \in DOMAIN doc.rows |-> TracedRow(doc.rows[i], doc.metadata)]
             traced == DocumentTraced(rs)
             gone == ~traced /\ ~ \A i \in DOMAIN rs : "lot" \in rs[i].verified
  <1>1. DOMAIN new = DOMAIN NoDocument /\ new.rows = rs
    BY DEF Traced, NoDocument
  <1>2. doc.reasons \subseteq new.reasons /\ (doc.review => new.review)
    BY DEF Traced, NoDocument
  <1>3. new.outcome = IF DocumentOutcome(rs) = "COMPLIANT" /\ ~traced
                      THEN "NEEDS_REVIEW" ELSE DocumentOutcome(rs)
    BY DEF Traced, NoDocument
  <1>4. new.metadata = [doc.metadata EXCEPT
                          !.lot = IF gone \/ rs = <<>> THEN None ELSE @]
    BY DEF Traced, NoDocument
  <1>5. /\ DOMAIN rs = DOMAIN doc.rows
        /\ rs = [i \in DOMAIN doc.rows |-> rs[i]]
        /\ \A i \in DOMAIN doc.rows : rs[i] = TracedRow(doc.rows[i], doc.metadata)
    OBVIOUS
  <1>6. rs = <<>> => DOMAIN doc.rows = {}
    <2>1. rs = <<>> => DOMAIN rs = {}
      OBVIOUS
    <2> QED BY <1>5, <2>1
  <1> HIDE DEF rs
  <1>7. /\ DOMAIN new.metadata = DOMAIN BlankHeader
        /\ new.metadata.rope = doc.metadata.rope
        /\ new.metadata.heat = doc.metadata.heat /\ new.metadata.cert = doc.metadata.cert
        /\ new.metadata.lot = IF gone \/ rs = <<>> THEN None ELSE doc.metadata.lot
    <2> HIDE DEF gone
    <2> QED BY <1>4, BlankHeaderFields DEF HeaderFields
  <1>8. \A f \in Ids : new.metadata[f] \in {doc.metadata[f], None}
    BY <1>7 DEF Ids
  <1>9. /\ new.outcome \in Outcomes
        /\ new.outcome = "COMPLIANT" => DocumentOutcome(rs) = "COMPLIANT" /\ traced
    BY <1>3, DocumentOutcomes DEF Outcomes
  <1>10. ASSUME DOMAIN doc.rows # {}, ~gone
         PROVE  new.metadata.lot = doc.metadata.lot
    <2> HIDE DEF gone
    <2> QED BY <1>6, <1>7, <1>10
  <1>11. new.outcome = "COMPLIANT" => /\ DocumentOutcome(new.rows) = "COMPLIANT"
                                      /\ DocumentTraced(new.rows)
    BY <1>1, <1>9
  <1>12. /\ DOMAIN doc.rows # {} /\ DocumentTraced(new.rows) =>
               new.metadata.lot = doc.metadata.lot
         /\ DOMAIN doc.rows # {} /\ (\A i \in DOMAIN doc.rows :
                                         "lot" \in new.rows[i].verified) =>
               new.metadata.lot = doc.metadata.lot
    <2>1. /\ DocumentTraced(new.rows) => ~gone
          /\ (\A i \in DOMAIN doc.rows : "lot" \in new.rows[i].verified) => ~gone
      BY <1>1, <1>5
    <2> HIDE DEF gone
    <2> QED BY <1>10, <2>1
  <1>13. /\ new.rows = [i \in DOMAIN doc.rows |-> new.rows[i]]
         /\ \A i \in DOMAIN doc.rows :
              new.rows[i] = TracedRow(doc.rows[i], doc.metadata)
    BY <1>1, <1>5
  <1> QED BY <1>1, <1>2, <1>7, <1>8, <1>9, <1>11, <1>12, <1>13

LEMMA TraceStep ==
  ASSUME DocumentInv, Trace
  PROVE  DocumentInv'
  <1>1. /\ pc = "trace" /\ pc' = "decide" /\ document' = Traced(document)
        /\ UNCHANGED <<canvas, gateRequired, header, answer, metadata, rows, guarded, tokens>>
    BY DEF Trace, Goto, intakeVars
  <1>2. Assembled /\ Assembled' /\ pc' \in {"trace", "decide"}
    BY <1>1 DEF Assembled
  <1> DEFINE old == document.rows
             new == document'.rows
             md == document.metadata
  <1>3. /\ DOMAIN document = DOMAIN NoDocument /\ DOMAIN md = DOMAIN BlankHeader
        /\ md.rope => header.rope
        /\ RowsFrom(old, Sources, ParsedObserved)
    BY <1>2 DEF DocumentInv, HeaderInv, RowsInv
  <1>4. ASSUME NEW i \in DOMAIN old
        PROVE  /\ old[i].outcome \in Outcomes
               /\ old[i].outcome # "COMPLIANT" => old[i].deviates
               /\ old[i].outcome = "COMPLIANT" /\ ~md.rope => ~Breaches(old[i].mech)
               /\ DOMAIN old[i] = RowFields
    <2>1. DOMAIN old[i] = RowFields
      BY <1>3, RowIsJudged DEF RowsFrom
    <2> QED BY <1>1, <2>1 DEF DocumentInv, OutcomesInv
  <1>5. /\ DOMAIN document' = DOMAIN NoDocument
        /\ DOMAIN document'.metadata = DOMAIN BlankHeader
        /\ document'.metadata.rope = md.rope
        /\ \A f \in Ids : document'.metadata[f] \in {md[f], None}
        /\ new = [i \in DOMAIN old |-> new[i]]
        /\ \A i \in DOMAIN old : new[i] = TracedRow(old[i], md)
        /\ document.reasons \subseteq document'.reasons
        /\ document.review => document'.review
        /\ document'.outcome \in Outcomes
        /\ document'.outcome = "COMPLIANT" =>
              /\ DocumentOutcome(new) = "COMPLIANT"
              /\ DocumentTraced(new)
        /\ DOMAIN old # {} /\ DocumentTraced(new) => document'.metadata.lot = md.lot
        /\ DOMAIN old # {} /\ (\A i \in DOMAIN old : "lot" \in new[i].verified) =>
              document'.metadata.lot = md.lot
    BY <1>1, <1>3, TracedFields
  <1>6. DOMAIN new = DOMAIN old
    BY <1>5
  <1>7. ASSUME NEW i \in DOMAIN old
        PROVE  /\ Judged(new[i], old[i])
               /\ new[i].outcome \in Outcomes
               /\ new[i].outcome # "COMPLIANT" => new[i].deviates
               /\ new[i].outcome = "COMPLIANT" =>
                    old[i].outcome = "COMPLIANT" /\ \E f \in Group : f \in new[i].verified
               /\ HeaderVerified(md) \subseteq new[i].verified
               /\ \A f \in Group \cap new[i].verified :
                    new[i][f] # None \/ f \in HeaderVerified(md)
    <2> HIDE DEF old, new, md
    <2>1. new[i] = TracedRow(old[i], md)
      BY <1>5
    <2> QED BY <1>4, <2>1, TracedRowFields
  <1>8. ControlInv' /\ AnswerInv' /\ HeaderInv' /\ RowsInv' /\ DoubtsInv'
        /\ GradesInv' /\ ConflictsInv'
    BY <1>1, <1>2, <1>5, <1>7, JudgedDocument
  <1>9. ASSUME NEW i \in DOMAIN new, new[i].outcome = "COMPLIANT", ~document'.metadata.rope
        PROVE  ~Breaches(new[i].mech)
    <2>1. old[i].outcome = "COMPLIANT" /\ new[i].mech = old[i].mech
      BY <1>6, <1>7, <1>9 DEF Judged
    <2> QED BY <1>4, <1>5, <1>6, <1>9, <2>1
  (* A lot of the header that traces one row traces all, and stays.        *)
  <1>10. ASSUME NEW i \in DOMAIN new, NEW f \in Group, f \in new[i].verified
         PROVE  new[i][f] # None \/ document'.metadata[f] # None
    <2>1. CASE new[i][f] # None
      BY <2>1
    <2>2. CASE f \in HeaderVerified(md)
      <3>1. f = "lot" /\ md.lot # None
        BY <2>2 DEF HeaderVerified, Group
      <3>2. \A j \in DOMAIN old : "lot" \in new[j].verified
        BY <1>7, <2>2, <3>1
      <3>3. document'.metadata.lot = md.lot
        BY <1>5, <1>6, <3>2
      <3> QED BY <3>1, <3>3
    <2> QED BY <1>6, <1>7, <1>10, <2>1, <2>2
  <1>11. CompliantIsEarned'
    <2>1. SUFFICES ASSUME ~header'.rope PROVE CompliantIsEarned'
      BY DEF CompliantIsEarned
    <2>2. ~document'.metadata.rope
      BY <1>1, <1>3, <1>5, <2>1
    <2>3. ASSUME NEW i \in DOMAIN new, new[i].outcome = "COMPLIANT"
          PROVE  ~Breaches(new[i].mech) /\ \E f \in Group : ShowsTrace(document.rows[i], f)'
      <3>1. PICK f \in Group : f \in new[i].verified
        BY <1>6, <1>7, <2>3
      <3>2. ShowsTrace(document.rows[i], f)'
        BY <1>10, <3>1 DEF ShowsTrace
      <3> QED BY <1>9, <2>2, <2>3, <3>2
    <2>4. ASSUME document'.outcome = "COMPLIANT"
          PROVE  /\ \A i \in DOMAIN new : new[i].outcome = "COMPLIANT"
                 /\ \E f \in Group : \A i \in DOMAIN new : ShowsTrace(document.rows[i], f)'
      <3>1. DocumentOutcome(new) = "COMPLIANT" /\ DocumentTraced(new)
        BY <1>5, <2>4
      <3>2. \A i \in DOMAIN new : new[i].outcome = "COMPLIANT"
        BY <3>1, DocumentOutcomes
      <3>3. PICK f \in Group : \A i \in DOMAIN new : f \in new[i].verified
        BY <3>1 DEF DocumentTraced
      <3>4. ASSUME NEW i \in DOMAIN new PROVE ShowsTrace(document.rows[i], f)'
        BY <1>10, <3>3 DEF ShowsTrace
      <3> QED BY <3>2, <3>4
    <2> QED BY <2>3, <2>4 DEF CompliantIsEarned
  <1>12. OutcomesInv'
    <2>1. \A i \in DOMAIN new :
            /\ new[i].outcome \in Outcomes
            /\ new[i].outcome # "COMPLIANT" => new[i].deviates
            /\ new[i].outcome = "COMPLIANT" /\ ~document'.metadata.rope =>
                 ~Breaches(new[i].mech)
      BY <1>6, <1>7, <1>9
    <2> QED BY <1>5, <1>11, <2>1 DEF OutcomesInv
  <1> QED BY <1>8, <1>12 DEF DocumentInv

LEMMA DocumentStutters == DocumentInv /\ UNCHANGED pipeVars => DocumentInv'
  <1> SUFFICES ASSUME DocumentInv, UNCHANGED pipeVars PROVE DocumentInv'
    OBVIOUS
  <1>1. UNCHANGED <<pc, canvas, gateRequired, header, answer, metadata, rows, guarded,
                    tokens, document>>
    BY DEF pipeVars, intakeVars, rowVars
  <1>2. /\ Sources' = Sources /\ Observed' = Observed /\ ParsedObserved' = ParsedObserved
        /\ \A f : Contradicted(f)' = Contradicted(f)
        /\ GradesDiffer' = GradesDiffer
    BY <1>1, SourcesStay
  <1>3. ControlInv' /\ AnswerInv'
    BY <1>1 DEF DocumentInv, ControlInv, AnswerInv, Assembled
  <1>4. HeaderInv' /\ RowsInv'
    BY <1>1, <1>2 DEF DocumentInv, HeaderInv, RowsInv, ConfidencesRead, TakenFromTexts,
       Assembled
  <1>5. DoubtsInv'
    BY <1>1 DEF DocumentInv, DoubtsInv, ImplausibleIsDoubted, Assembled
  <1>6. GradesInv'
    BY <1>1, <1>2 DEF DocumentInv, GradesInv, GradesKept, Assembled
  <1>7. ConflictsInv'
    BY <1>1, <1>2 DEF DocumentInv, ConflictsInv, LeftEmpty, Assembled
  <1>8. OutcomesInv'
    BY <1>1 DEF DocumentInv, OutcomesInv, CompliantIsEarned, ShowsTrace, Assembled
  <1> QED BY <1>3, <1>4, <1>5, <1>6, <1>7, <1>8 DEF DocumentInv

LEMMA DocumentStep == EncodingInv /\ DocumentInv /\ [Pipeline]_pipeVars => DocumentInv'
  <1> SUFFICES ASSUME EncodingInv, DocumentInv, [Pipeline]_pipeVars PROVE DocumentInv'
    OBVIOUS
  <1>1. CASE \/ Profile \/ OpenPage \/ LowerQuality \/ Shrink \/ Encoded
             \/ RenderError \/ NoPages \/ AskMetadata \/ AskRows \/ ProviderError
    BY <1>1, IntakeStep
  <1>2. CASE StageA \/ StageB \/ OutputError
    BY <1>2, AnswerStep
  <1>3. CASE Gate
    BY <1>3, GatedStep
  <1>4. CASE Shape \/ MapTables \/ MapIdentity
    BY <1>4, ShapeStep, MapTablesStep, MapIdentityStep
  <1>5. CASE Normalize \/ Finalize \/ Reconcile
    BY <1>5, NormalizeStep, FinalizeStep, ReconcileStep
  <1>6. CASE Assemble \/ Validate \/ Trace
    BY <1>6, AssembleStep, ValidateStep, TraceStep
  <1>7. CASE UNCHANGED pipeVars
    BY <1>7, DocumentStutters
  <1> QED BY <1>1, <1>2, <1>3, <1>4, <1>5, <1>6, <1>7 DEF Pipeline

(* ------------------------- what follows from it -------------------------- *)

LEMMA DocumentTypes == EncodingInv /\ DocumentInv => TypeOK
  <1> SUFFICES ASSUME EncodingInv, DocumentInv PROVE TypeOK
    OBVIOUS
  <1>1. pc \in Steps /\ gateRequired \in BOOLEAN
    BY DEF DocumentInv, ControlInv, Asking, Shaping, Completing, Steps
  <1>2. canvas.edge \in 0..MaxEdge
    BY EncodingAssumption DEF EncodingInv, DocumentInv, ControlInv
  <1>3. \A i \in DOMAIN rows : IsRow(rows[i])
    <2>1. CASE pc \in Asking
      <3>1. rows = <<>>
        BY <2>1 DEF DocumentInv, AnswerInv
      <3> QED BY <3>1
    <2>2. CASE pc \notin Asking
      <3>1. RowsFrom(rows, Sources, Observed) \/ RowsFrom(rows, Sources, ParsedObserved)
        BY <2>2 DEF DocumentInv, ControlInv, RowsInv, Assembled
      <3> QED BY <3>1 DEF RowsFrom, RowFrom
    <2> QED BY <2>1, <2>2
  <1>4. /\ \A i \in DOMAIN document.rows : IsRow(document.rows[i])
        /\ document.outcome \in Outcomes
    <2>1. CASE Assembled
      <3>1. RowsFrom(document.rows, Sources, ParsedObserved) /\ document.outcome \in Outcomes
        BY <2>1 DEF DocumentInv, RowsInv, OutcomesInv
      <3> QED BY <3>1 DEF RowsFrom, RowFrom
    <2>2. CASE ~Assembled
      <3>1. document.rows = <<>> /\ document.outcome = "NOT_VALIDATED"
        BY <2>2 DEF DocumentInv, AnswerInv, NoDocument
      <3> QED BY <3>1 DEF Outcomes
    <2> QED BY <2>1, <2>2
  <1>5. guarded \subseteq (0..Len(answer.rows)) \X RowIds
    BY DEF DocumentInv, AnswerInv
  <1>6. pc \in {"trace", "decide"} =>
          \A i \in DOMAIN document.rows :
            /\ document.rows[i].outcome \in Outcomes
            /\ document.rows[i].outcome # "COMPLIANT" => document.rows[i].deviates
    BY DEF DocumentInv, OutcomesInv
  <1> QED BY <1>1, <1>2, <1>3, <1>4, <1>5, <1>6 DEF TypeOK

LEMMA DocumentIdentifiers == DocumentInv => IdentifiersAreAdmitted
  <1> SUFFICES ASSUME DocumentInv, Assembled, NEW f \in Ids
               PROVE  {document.metadata[f]}
                        \cup {document.rows[i][f] : i \in DOMAIN document.rows}
                          \subseteq Admitted(f) \cup BehindLabel(f) \cup {None}
    BY DEF IdentifiersAreAdmitted
  <1>1. Sources[f] = Admitted(f) \cup BehindLabel(f) \cup {None}
    BY DEF Sources
  <1>2. document.metadata[f] \in Sources[f]
    BY DEF DocumentInv, HeaderInv
  <1>3. \A i \in DOMAIN document.rows : document.rows[i][f] \in Sources[f]
    BY DEF DocumentInv, RowsInv, RowsFrom, RowFrom
  <1> HIDE DEF Sources
  <1> QED BY <1>1, <1>2, <1>3

LEMMA DocumentResults == DocumentInv => ResultsAreObserved
  <1> SUFFICES ASSUME DocumentInv, Assembled,
                      NEW i \in DOMAIN document.rows, NEW k \in Kinds
               PROVE  LET v == document.rows[i].mech[k]
                          own == {said.row.mech[k] :
                                    said \in {r \in Range(answer.rows) : k \notin r.doubted}}
                          read == {ParseText(n, k).value : n \in TableCells(k)}
                          observed == (own \cup read) \ {Blank}
                      IN v = Blank \/ v \in {ParseNumber(w, k).value : w \in observed}
    BY DEF ResultsAreObserved
  <1>1. document.rows[i].mech[k] \in ParsedObserved[k]
    BY DEF DocumentInv, RowsInv, RowsFrom, RowFrom
  <1>2. Observed[k] = OwnValues(k) \cup ReadValues(k) \cup {Blank}
    BY DEF Observed
  <1>3. ParsedObserved[k] =
          {Blank} \cup {ParseNumber(w, k).value : w \in Observed[k] \ {Blank}}
    BY DEF ParsedObserved
  <1>4. Observed[k] \ {Blank} = (OwnValues(k) \cup ReadValues(k)) \ {Blank}
    BY <1>2
  <1> QED BY <1>1, <1>3, <1>4 DEF OwnValues, ReadValues

LEMMA DocumentConflicts == DocumentInv => ConflictsStayEmpty
  BY DEF DocumentInv, ConflictsInv, ConflictsStayEmpty, Contradicted, LeftEmpty

LEMMA DocumentGrades == DocumentInv => GradeConflictIsReported
  BY DEF DocumentInv, GradesInv, GradeConflictIsReported, GradesDiffer

(* For any PDFs, answers and settings, extraction_pipeline.py, the domain  *)
(* functions it calls and validator.py keep what DocumentInvariant says of *)
(* header, rows, tokens and document at each of their steps.               *)
THEOREM DocumentCorrect == Spec => [](EncodingInv /\ DocumentInv)
  <1>1. Init => EncodingInv /\ DocumentInv
    BY EncodingInit, DocumentInit
  <1>2. EncodingInv /\ DocumentInv /\ [Pipeline]_pipeVars => (EncodingInv /\ DocumentInv)'
    BY EncodingStep, DocumentStep
  <1> QED BY <1>1, <1>2, PTL DEF Spec

(* Every step leaves a header, rows and a document of the shape that the   *)
(* next one, and at last the review decision, expects.                     *)
THEOREM DocumentTyped == Spec => []TypeOK
  BY DocumentCorrect, DocumentTypes, PTL

(* An identifier of the document is one the gate admitted, or one that     *)
(* stands behind its label in a text: none of the functions that map,      *)
(* label, finalize and reconcile brings a suppressed value back.           *)
THEOREM IdentifiersAdmitted == Spec => []IdentifiersAreAdmitted
  BY DocumentCorrect, DocumentIdentifiers, PTL

(* Each mechanical value of a row was read as that property by the model   *)
(* or stands in a result column of the table: mechanical_table_mapper.py   *)
(* and numeric_parser.py never take a limit, or a value of another         *)
(* property, for a result.                                                 *)
THEOREM ResultsObserved == Spec => []ResultsAreObserved
  BY DocumentCorrect, DocumentResults, PTL

(* A value outside the plausible range of its property leaves a token, and *)
(* a document with such a token is one a person reviews: no later step of  *)
(* the pipeline drops it.                                                  *)
THEOREM ImplausibleDoubted == Spec => []ImplausibleIsDoubted
  <1>1. DocumentInv => ImplausibleIsDoubted
    BY DEF DocumentInv, DoubtsInv
  <1> QED BY DocumentCorrect, <1>1, PTL

(* Identifiers whose labels in the header contradict each other end up     *)
(* empty in header and rows, and the document is in review: no row's value *)
(* fills what canonical_reconciler.py has left open.                       *)
THEOREM ConflictsEmpty == Spec => []ConflictsStayEmpty
  BY DocumentCorrect, DocumentConflicts, PTL

(* A row of another grade than the header's is reported, unless the number *)
(* of rows has changed on the way: header_propagation.py sees the grades   *)
(* before reconciliation makes them agree.                                 *)
THEOREM GradeConflictsReported == Spec => []GradeConflictIsReported
  BY DocumentCorrect, DocumentGrades, PTL

(* A steel row that ends as compliant breaks no limit and shows a verified *)
(* heat or lot, and in a compliant document all rows do, by one kind:      *)
(* validator.py and traceability.py together never call anything less so.  *)
THEOREM ComplianceEarned == Spec => []CompliantIsEarned
  <1>1. DocumentInv => CompliantIsEarned
    BY DEF DocumentInv, OutcomesInv
  <1> QED BY DocumentCorrect, <1>1, PTL
===============================================================================
