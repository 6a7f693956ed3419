------------------------------ MODULE MCDocument ------------------------------
(* Small answers of the model that meet every branch of the pipeline.      *)
EXTENDS DocumentPipeline

Said ==
  [row |-> BlankRow,
   confs |-> [f \in Ids \cup {"item"} |-> IF f = "item" THEN "sure2" ELSE None],
   doubted |-> {}]

Sound == [yield |-> 355000, tensile |-> 500000, elongation |-> 22000]

Plate == [Said EXCEPT !.row.heat = "T1000", !.confs.heat = "sure2",
                      !.row.grade = "s355jr", !.row.product = "plate",
                      !.row.mech = Sound]

OtherPlate == [Plate EXCEPT !.row.heat = "T2000", !.row.grade = "304l"]

HeatMissing == [Plate EXCEPT !.row.heat = None, !.row.grade = None]

HeatDoubted == [Plate EXCEPT !.confs.heat = "low3"]

HeatUnsure == [Plate EXCEPT !.row.heat = "1500G", !.confs.heat = None,
                            !.row.grade = "mixed"]

Lot == [Said EXCEPT !.row.lot = "L1000", !.confs.lot = "sure3",
                    !.row.product = "heatLine2", !.row.mech = Sound]

ItemDoubted == [OtherPlate EXCEPT !.row.item = "A1", !.confs.item = "low2"]

Lines == [Said EXCEPT !.row.grade = "gradeLine", !.row.product = "norm",
                      !.row.item = "size"]

Doubted == [Plate EXCEPT !.doubted = {"yield"}, !.row.grade = "normGrade",
                         !.row.mech.tensile = 1250, !.row.mech.elongation = 99500]

Alternatives ==
  {[Said EXCEPT !.row.item = c, !.row.mech = Sound, !.row.lot = l,
                !.confs.lot = "sure3"]
     : c \in {"class", "bare"}, l \in {None, "L1000", "L2000"}}

Twin == [Plate EXCEPT !.row.heat = "15006", !.row.item = "15006"]

Short == [Plate EXCEPT !.row.heat = "T9", !.row.mech.yield = 240000]

Property(k) == [Said EXCEPT !.row.mech[k] = Sound[k], !.row.grade = "bare"]

Upright ==
  {<<Property("yield"), Property("tensile"), Property("elongation")>>,
   <<Property("yield"), Property("tensile")>>,
   <<Property("yield"), Property("tensile"), Property("elongation"),
     OtherPlate>>}

Named(l) == [Said EXCEPT !.row.item = l]

(* Rows named after properties: without values, with a stray cell or two   *)
(* that agree or do not, beside others, or a row per property after all.   *)
NamedAfterProperties ==
  {<<[Named("tensile") EXCEPT !.row.lot = "L1000", !.confs.lot = "sure3"],
     [Named("yield") EXCEPT !.row.product = "plate"]>>,
   <<[Named("elongation") EXCEPT !.row.product = "dual"],
     [Named("yield_rp02") EXCEPT !.row.lot = "L1000", !.row.cert = "T77"]>>,
   <<Plate, [Named("yield") EXCEPT !.row.cert = "T77", !.row.product = "plate"],
     [Said EXCEPT !.row.grade = "tensile", !.row.lot = "L2000"]>>,
   <<[Named("yield_rp10") EXCEPT !.row.cert = "T77"], Named("elongation"), Lot>>,
   [k \in 1..3 |->
      [Named(<<"yield", "tensile", "elongation">>[k]) EXCEPT
         !.row.mech[<<"yield", "tensile", "elongation">>[k]] =
            Sound[<<"yield", "tensile", "elongation">>[k]],
         !.row.lot = "L1000"]],
   <<[Named("yield") EXCEPT !.row.mech = Sound, !.row.product = "norm"],
     [Named("tensile") EXCEPT !.row.mech = Sound],
     [Named("elongation") EXCEPT !.row.mech = Sound]>>}

Rows == {Plate, OtherPlate, HeatMissing, HeatDoubted, HeatUnsure, Lot,
         ItemDoubted, Lines, Doubted, Twin, Short}

Dot(w, p) == Numeral(w, "dot", p, 3)

Result(label, r) == Line(label, r, <<Digits(345)>>, <<>>)

Tables ==
  {<<>>,
   <<Result("yield_rp02", <<Digits(361)>>), Result("tensile", <<Digits(520)>>),
     Line("elongation", <<>>, <<Digits(20)>>, <<Digits(25)>>)>>,
   <<Result("yield", <<Digits(361), Digits(371)>>)>>,
   <<Result("tensile", <<Dot(1, 250)>>),
     Line("yield", <<>>, <<Digits(345)>>, <<>>)>>,
   <<Result("yield_rp02", <<Digits(361)>>), Result("yield", <<Digits(380)>>),
     Result("yield_rp10", <<Digits(400)>>)>>}

Answer(rs, t, n) == [rows |-> rs, table |-> t, reported |-> n]

MCLineItems ==
  {Answer(<<a, b>>, <<>>, 2) : a, b \in Rows \cup Alternatives}
    \cup {Answer(<<a>>, t, n) : a \in Rows, t \in Tables, n \in 1..2}
    \cup {Answer(rs, t, Len(rs)) : rs \in Upright \cup NamedAfterProperties \cup {<<>>}, t \in Tables}

Scan == [chars |-> 0, garbled |-> FALSE, raster |-> TRUE, blur |-> 300,
         noise |-> 5, table |-> FALSE, edge |-> 1600, smooth |-> 200]

Digital == [Scan EXCEPT !.chars = 2000, !.raster = FALSE, !.table = TRUE]

Large == [Scan EXCEPT !.noise = 30, !.smooth = 45, !.table = TRUE]

Pages ==
  {Scan, Digital,
   [Digital EXCEPT !.chars = 40, !.edge = 700],
   [Digital EXCEPT !.garbled = TRUE, !.table = FALSE],
   [Digital EXCEPT !.garbled = TRUE, !.raster = TRUE],
   [Digital EXCEPT !.noise = 50], [Digital EXCEPT !.blur = 20],
   [Scan EXCEPT !.blur = 100, !.noise = 20],
   [Scan EXCEPT !.blur = 20, !.noise = 30, !.table = TRUE],
   [Scan EXCEPT !.blur = 60, !.edge = 3000, !.smooth = 90],
   Large}

Pdf(ps) == [pages |-> ps, opens |-> TRUE, renders |-> TRUE]

MCFiles ==
  {Pdf(<<>>), Pdf(<<Scan, Scan, Digital, Digital>>),
   Pdf(<<Large, Large, Large>>),
   Pdf(<<Digital, Large, Scan, Large>>)}
    \cup {Pdf(<<a>>) : a \in Pages}
    \cup {Pdf(<<a, b>>) : a, b \in Pages}
    \cup {[Pdf(<<a>>) EXCEPT !.opens = FALSE] : a \in {Scan, Digital}}
    \cup {[Pdf(<<a>>) EXCEPT !.renders = FALSE] : a \in {Scan, Digital}}

Certificate == [BlankHeader EXCEPT !.confs.cert = "sure2", !.cert = "T77",
                            !.date = "9 September",
                            !.dates = [l \in {"Test date"} |-> "9 September"]]

MCHeaders ==
  {BlankHeader, Certificate,
   [Certificate EXCEPT !.heat = "T1000", !.confs.heat = "sure2",
                       !.headerGrade = "s355jr"],
   [Certificate EXCEPT !.heat = "T3000", !.confs.heat = "low3",
                       !.headerGrade = "304"],
   [Certificate EXCEPT !.heat = "T3000", !.confs.heat = "sure3",
                       !.confs.cert = None],
   [Certificate EXCEPT !.headerGrade = "mixed", !.norms = {"norm"},
                       !.dims = "size"],
   [Certificate EXCEPT !.description = "heatLine", !.headerGrade = "heatLine2"],
   [Certificate EXCEPT !.description = "headLine", !.remark = "s355jr"],
   [Certificate EXCEPT !.description = "plateGrade", !.headerGrade = "normGrade"],
   [Certificate EXCEPT !.description = "gradeLine", !.headerGrade = "class",
                !.confs.date = "set", !.unclear = TRUE],
   [Certificate EXCEPT !.rope = TRUE, !.lot = "L1000", !.confs.lot = "sure2"],
   [Certificate EXCEPT !.dates = [l \in {"Date", "Delivery date"} |->
                             IF l = "Date" THEN "9 September" ELSE "4 February"]],
   [Certificate EXCEPT !.dates = [l \in {"Delivery date"} |-> "4 February"]]}

(* The runs have the default settings, with which small images fit.        *)
ASSUME SettingsFit == SmallImagesFit

===============================================================================
