-------------------------------- MODULE Intake --------------------------------
(***************************************************************************)
(* What becomes of a PDF before a model is asked about it:                 *)
(* services/document_profiler.py, extraction_router.py, preprocessing.py,  *)
(* preprocessing_strategy.py and evidence.py.                              *)
(*                                                                         *)
(* A page is the text pypdf finds on it, whether it is one large raster,   *)
(* its blur and noise scores, whether it shows a table, the longest edge   *)
(* of its images and how smooth they are: how well they compress.  All     *)
(* images of a page are alike in this, and square.                         *)
(***************************************************************************)
EXTENDS Integers, Sequences, FiniteSets, FiniteSetsExt, SequencesExt

CONSTANTS
  MaxPages,     \* settings.max_pages_for_llm
  MaxEdge,      \* settings.llm_image_max_edge
  MinEdge,      \* settings.llm_image_min_edge
  TargetBytes,  \* settings.llm_image_target_bytes
  JpegQuality,  \* settings.llm_jpeg_quality
  MaxRequest    \* settings.bedrock_max_request_bytes

(* ------------------------------ profile --------------------------------- *)

(* A file opens if pypdf can read it, and renders if its first pages can   *)
(* be rasterised for the profile.                                          *)
PagesRead(file) == IF file.opens THEN DOMAIN file.pages ELSE {}

(* Half of the pages, at least one: _extract_text_stats.                   *)
OnHalf(file, found) ==
  LET half == Len(file.pages) \div 2
  IN Cardinality(found) >= (IF half = 0 THEN 1 ELSE half)

PagesOfText(file) == {i \in PagesRead(file) : file.pages[i].chars >= 40}

HasTextLayer(file) == OnHalf(file, PagesOfText(file))

NoisyText(file) ==
  OnHalf(file, {i \in PagesOfText(file) : file.pages[i].garbled})

FullPageRaster(file) ==
  OnHalf(file, {i \in PagesRead(file) : file.pages[i].raster})

(* A text density of 0.02 or more.                                         *)
DenseText(file) ==
  /\ file.opens /\ file.pages # <<>>
  /\ FoldSeq(LAMBDA p, n : n + p.chars, 0, file.pages) >= 40 * Len(file.pages)

(* PROFILE_MAX_SAMPLE_PAGES *)
Sample(file) ==
  {file.pages[i] : i \in {j \in DOMAIN file.pages : file.renders /\ j <= 2}}

(* Mutant of WorstBlur: the sharpest page of the sample decides.           *)
BestBlur(file) ==
  IF Sample(file) = {} THEN 0 ELSE Max({p.blur : p \in Sample(file)})

WorstBlur(file) ==
  IF Sample(file) = {} THEN 0 ELSE Min({p.blur : p \in Sample(file)})

WorstNoise(file) ==
  IF Sample(file) = {} THEN 0 ELSE Max({p.noise : p \in Sample(file)})

(* _classify *)
QualityClass(file) ==
  LET blur == WorstBlur(file)
      noise == WorstNoise(file)
      text == HasTextLayer(file) /\ DenseText(file)
      blurry == blur < 80
      noisy == noise >= 25
      corrupt == NoisyText(file) /\ FullPageRaster(file)
      severe == /\ ~corrupt
                /\ \/ blurry /\ noisy /\ (blur < 25 \/ noise >= 45)
                   \/ ~DenseText(file) /\ blur < 25 /\ ~noisy
                   \/ ~DenseText(file) /\ noise >= 45 /\ ~blurry
      noisyScan == \/ corrupt \/ blurry \/ noisy
                   \/ text /\ (NoisyText(file) \/ FullPageRaster(file))
                   \/ ~text /\ blur < 150 /\ noise >= 14
  IN CASE severe                         -> "severe_scan"
       [] noisyScan /\ ~severe           -> "noisy_scan"
       [] text /\ ~noisyScan /\ ~severe  -> "digital_clean"
       [] ~text /\ ~noisyScan /\ ~severe -> "scan_clean"

(* DEGRADED_IDENTIFIER_QUALITY_CLASSES *)
PoorClasses == {"noisy_scan", "severe_scan"}

(* choose_route *)
Route(class) ==
  CASE class = "digital_clean"   -> "native_multimodal"
    [] class = "scan_clean"      -> "rendered_multimodal"
    [] class \in PoorClasses     -> "preprocessed_multimodal"

(* ------------------------------- images --------------------------------- *)

(* variants_for_route: the views of a page, in the order of preference.    *)
Views(route, table) ==
  LET crop == IF table THEN <<"table_crop">> ELSE <<>>
  IN CASE route = "preprocessed_multimodal" ->
            <<"denoised", "adaptive_binary", "contrast", "sharpened">>
              \o crop \o <<"full_gray">>
       [] route = "native_multimodal" ->
            <<"full_gray", "contrast">> \o crop \o <<"adaptive_binary">>
       [] route = "rendered_multimodal" ->
            <<"full_gray", "contrast">> \o crop \o <<"adaptive_binary", "sharpened">>

MainView(route) ==
  IF route = "preprocessed_multimodal" THEN "sharpened" ELSE "contrast"

(* The bytes of a JPEG: its header, and more the larger its area and its   *)
(* quality are.                                                            *)
Bytes(smooth, edge, quality) == 600 + (edge * edge * quality) \div smooth

LowQuality == 55

(* The qualities that steps of 8 down from JpegQuality come to.            *)
Qualities == {q \in 0..JpegQuality : (JpegQuality - q) % 8 = 0}

Larger(a, b) == IF a > b THEN a ELSE b

(* The next longest edge of an image that is too large at low quality.     *)
NextEdge(edge) ==
  LET next == Larger(MinEdge, (edge * 82) \div 100)
  IN IF next >= edge THEN Larger(MinEdge, edge - 120) ELSE next

(* _downscale_to_max_edge: int(edge * (most / edge)), which floating point *)
(* may leave one below most.                                               *)
Downscaled(edge, most) ==
  IF edge > most THEN {most, Larger(1, most - 1)} ELSE {edge}

(* ------------------------------ evidence -------------------------------- *)

RoleOf(view) ==
  CASE view = "table_crop"      -> "table_crop"
    [] view = "adaptive_binary" -> "binary"
    [] OTHER                    -> "full_page"

(* A page that is prepared for a model: _block_from_variant.               *)
Block(pages, i, view) ==
  [page |-> i, view |-> view, role |-> RoleOf(view), size |-> pages[i].size]

Blocks(pages, views) ==
  FlattenSeq([i \in 1..Min({Len(pages), MaxPages}) |->
                [k \in DOMAIN views[i] |-> Block(pages, i, views[i][k])]])

(* select_metadata_evidence: one view of a page and a second of the first. *)
MetadataEvidence(pages) ==
  Blocks(pages, [i \in DOMAIN pages |->
                   IF i = 1 THEN <<pages[i].main, "full_gray">>
                   ELSE <<pages[i].main>>])

(* select_row_evidence: a table and its page in black and white first.     *)
TableViews == <<"table_crop", "adaptive_binary">>

RowViews(page) ==
  LET Add(seen, v) == IF v \in Range(seen) THEN seen ELSE Append(seen, v)
  IN FoldLeft(Add, IF page.table THEN TableViews ELSE <<>>, page.views)

RowEvidence(pages) ==
  Blocks(pages, [i \in DOMAIN pages |-> RowViews(pages[i])])

(* encoded_request_bytes: base64 in a data URL.                            *)
EncodedBytes(b) == (b.size * 4 + 2) \div 3 + 183

(* _PROMPT_OVERHEAD_BYTES *)
PromptBytes == 80000

(* estimate_request_bytes, with the prompt.                                *)
RequestBytes(blocks) ==
  FoldLeft(LAMBDA n, b : n + EncodedBytes(b), PromptBytes, blocks)

OfRole(blocks, role) ==
  FoldLeft(LAMBDA some, b : IF b.role = role THEN Append(some, b) ELSE some,
           <<>>, blocks)

(* Mutant of Preferred: page by page.                                      *)
PreferredAsGiven(blocks) == blocks

Preferred(blocks) ==
  OfRole(blocks, "table_crop")
    \o OfRole(blocks, "full_page") \o OfRole(blocks, "binary")

(* pack_evidence: what still fits is added, one image is sent in any case. *)
Packed(blocks) ==
  LET Add(packed, b) ==
        IF RequestBytes(Append(packed, b)) <= MaxRequest THEN Append(packed, b)
        ELSE packed
      all == Preferred(blocks)
      packed == FoldLeft(Add, <<>>, all)
      Least(i) == \A j \in DOMAIN all : all[i].size <= all[j].size
  IN IF packed # <<>> \/ all = <<>> THEN packed
     ELSE <<all[Min({i \in DOMAIN all : Least(i)})]>>
===============================================================================
