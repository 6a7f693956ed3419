--------------------------- MODULE MechanicalTable ---------------------------
(***************************************************************************)
(* Mechanical values: domain/numeric_parser.py reads a number as a         *)
(* supplier may have printed it, services/mechanical_table_mapper.py takes *)
(* the observed values out of a table with a line per property.            *)
(*                                                                         *)
(* Values are whole thousandths.  A numeral has a whole part and a part of *)
(* some digits behind its last separator; the forms are those that         *)
(* _classify_pattern tells apart.  A cell may also hold a text of another  *)
(* kind: words without a digit, digits among letters, which are read as if *)
(* they stood alone, or two such texts with a slash between them.          *)
(***************************************************************************)
EXTENDS Integers, Sequences, FiniteSets, FiniteSetsExt

Blank == -1   \* no value

Kinds == {"yield", "tensile", "elongation"}

(* DEFAULT_YIELD_RANGE, DEFAULT_TENSILE_RANGE, DEFAULT_ELONGATION_RANGE    *)
Plausible(v, kind) ==
  CASE kind = "yield"      -> v >= 80000 /\ v <= 1500000
    [] kind = "tensile"    -> v >= 120000 /\ v <= 1800000
    [] kind = "elongation" -> v >= 1000 /\ v <= 80000

Numeral(whole, form, part, digits) ==
  [whole |-> whole, form |-> form, part |-> part, digits |-> digits]

AsDecimal(n) == n.whole * 1000 + n.part * 10^(3 - n.digits)

AsThousands(n) == (n.whole * 10^n.digits + n.part) * 1000

(* Digits alone have no other part; of a slashed text, the part is what    *)
(* the digits of both sides make together.                                 *)
Digits(whole) == Numeral(whole, "digits", 0, 0)

Slashed(whole, together) == Numeral(whole, "slash", together, 0)

Words == Numeral(0, "words", 0, 0)

(* _candidates_from_string in the locale "auto", preferred reading first.  *)
Candidates(n) ==
  CASE n.form = "words"                 -> <<>>
    [] n.form = "digits"                -> <<n.whole * 1000>>
    [] n.form = "slash"                 -> <<n.part * 1000>>
    [] n.form = "grouped"               -> <<AsThousands(n)>>
    [] n.form = "mixed"                 -> <<AsDecimal(n)>>
    [] n.form \in {"dot", "comma"} /\ n.digits = 3 ->
         <<AsDecimal(n), AsThousands(n)>>
    [] OTHER                            -> <<AsDecimal(n)>>

Parsed(value, uncertain, promoted) ==
  [value |-> value, uncertain |-> uncertain, promoted |-> promoted]

(* parse_numeric of a text: the one plausible reading, else the first one  *)
(* and a doubt; three digits behind a separator are in doubt as decimals.  *)
Best(good) == IF good = {} THEN 1 ELSE Min(good)

Grouping(n) == n.form \in {"dot", "comma"} /\ n.digits = 3

ReadAs(n, cs, good) ==
  Parsed(cs[Best(good)],
         Cardinality(good) # 1 \/ (Grouping(n) /\ Best(good) = 1),
         n.form = "grouped" \/ Best(good) = 2)

(* Of an elongation, what stands before a slash is read.                   *)
ReadingOf(n, kind) ==
  IF n.form = "slash" /\ kind = "elongation" THEN Digits(n.whole) ELSE n

ParseText(n, kind) ==
  LET cs == Candidates(ReadingOf(n, kind))
  IN IF cs = <<>> THEN Parsed(Blank, TRUE, FALSE)
     ELSE ReadAs(n, cs, {i \in DOMAIN cs : Plausible(cs[i], kind)})

(* Mutant of ParseNumber: any implausible fraction is promoted.            *)
ParseNumberPromoting(v, kind) ==
  CASE Plausible(v, kind) -> Parsed(v, FALSE, FALSE)
    [] v % 1000 # 0 /\ ~Plausible(v, kind) -> Parsed(v * 1000, FALSE, TRUE)
    [] OTHER              -> Parsed(v, TRUE, FALSE)

(* parse_numeric of a number: an implausible one with decimals is taken    *)
(* for one that lost its thousands separator.                              *)
ParseNumber(v, kind) ==
  CASE Plausible(v, kind) -> Parsed(v, FALSE, FALSE)
    [] v % 1000 # 0 /\ Plausible(v * 1000, kind) -> Parsed(v * 1000, FALSE, TRUE)
    [] OTHER -> Parsed(v, TRUE, FALSE)

(* parse_mechanical_properties and the tokens of _apply_numeric_parser     *)
NumericTokens(mech) ==
  LET got == {k \in Kinds : mech[k] # Blank}
  IN {<<"numeric_uncertain", k>> :
        k \in {g \in got : ParseNumber(mech[g], g).uncertain}}
     \cup {<<"numeric_promoted_thousands", k>> :
             k \in {g \in got : ParseNumber(mech[g], g).promoted}}

ParsedMechanicals(mech) ==
  [k \in Kinds |->
     IF mech[k] = Blank THEN Blank ELSE ParseNumber(mech[k], k).value]

(* ----------------------------- the table -------------------------------- *)

(* A line of a table: the property its label names and the numerals below  *)
(* columns of results, of limits (specified, minimum, maximum) and others. *)
(* The labels read Proof strength Rp0.2 or Rp1.0, Yield strength, Tensile  *)
(* strength and Elongation A%.                                             *)
Labels == {"yield_rp02", "yield_rp10", "yield", "tensile", "elongation"}

KindOf(label) == IF label \in {"tensile", "elongation"} THEN label ELSE "yield"

Line(label, results, limits, others) ==
  [label |-> label, results |-> results, limits |-> limits, others |-> others]

(* _coerce_numeric_values tries a text as a tensile strength first.        *)
Readings(cells) ==
  {ParseText(cells[i], "tensile").value : i \in DOMAIN cells} \ {Blank}

(* Mutant of Selected: a limit is better than nothing.                     *)
SelectedOrLimit(line) ==
  LET cells == line.results \o line.others \o line.limits
  IN IF cells = <<>> THEN <<>> ELSE <<cells[1]>>

(* _select_result_value: a column of results, else the only other column;  *)
(* several other columns must not differ.  A limit is never selected.      *)
Selected(line) ==
  IF line.results # <<>> THEN <<line.results[1]>>
  ELSE IF line.others # <<>> /\ Cardinality(Readings(line.others)) <= 1
       THEN <<line.others[1]>> ELSE <<>>

Doubtful(line) ==
  IF line.results # <<>> THEN Cardinality(Readings(line.results)) > 1
  ELSE Len(line.others) > 1

LineValue(line) ==
  IF Selected(line) = <<>> THEN Blank
  ELSE ParseText(Selected(line)[1], KindOf(line.label)).value

(* Values of a label's lines in the table's order; the last one is kept.   *)
LineValues(table, label) ==
  LET mine == {i \in DOMAIN table :
                 table[i].label = label /\ LineValue(table[i]) # Blank}
  IN [i \in mine |-> LineValue(table[i])]

Newest(vs) == IF DOMAIN vs = {} THEN Blank ELSE vs[Max(DOMAIN vs)]

LastValue(table, label) == Newest(LineValues(table, label))

Known(a, b) == IF a # Blank THEN a ELSE b

(* map_mechanical_table_rows: the 0.2% proof strength is the yield; a      *)
(* 1.0% one is kept aside.                                                 *)
TableMechanicals(table) ==
  [yield |-> Known(LastValue(table, "yield_rp02"), LastValue(table, "yield")),
   tensile |-> LastValue(table, "tensile"),
   elongation |-> LastValue(table, "elongation")]

FieldCandidates(table, kind) ==
  LET labels == IF kind = "yield" THEN {"yield", "yield_rp02"} ELSE {kind}
  IN UNION {{LineValues(table, l)[i] : i \in DOMAIN LineValues(table, l)}
              : l \in labels}

TableUncertain(table) ==
  \/ \E i \in DOMAIN table : Doubtful(table[i])
  \/ \E k \in Kinds : Cardinality(FieldCandidates(table, k)) > 1

(* apply_mechanical_table_mapping: the first row takes the table's values, *)
(* whatever values it had; without a row the table makes one.              *)
OverRow(row, found, doubt) ==
  [row EXCEPT !.mech = [k \in Kinds |-> Known(found[k], @[k])],
              !.review = @ \/ doubt]

WithFound(rows, found, doubt, blank) ==
  IF rows # <<>> THEN [rows EXCEPT ![1] = OverRow(@, found, doubt)]
  ELSE IF \E k \in Kinds : found[k] # Blank
       THEN <<OverRow(blank, found, doubt)>> ELSE rows

WithTable(rows, table, blank) ==
  WithFound(rows, TableMechanicals(table), TableUncertain(table), blank)
==============================================================================
