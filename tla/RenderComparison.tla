---------------------------- MODULE RenderComparison ----------------------------
(***************************************************************************)
(* compare_renders: what the release gate finds when it lays the converted *)
(* report beside the original. A render is its pages; a page is the lines  *)
(* the text layer yields and what the page looks like. A line is what the  *)
(* checks can tell about a line of a statement run: whether it names a     *)
(* customer, states the amount due in prose, is a row, a total or a piece  *)
(* of page furniture, whose it is, and the amount it prints.               *)
(***************************************************************************)
EXTENDS Integers, FiniteSets, Sequences, Functions

CONSTANTS
  Customers,      (* the values of the innermost group                     *)
  Longer,         (* the customers whose name contains that of a customer  *)
  Amounts,        (* what the lines print                                  *)
  NoCustomer, NoAmount,
  GroupCap,       (* _innermost_group_values stops at this many            *)
  SparseLines,    (* at most this much content makes a page near-empty     *)
  SparseSlack,    (* this many more near-empty pages are let pass          *)
  FurnitureLines, (* fewer distinct lines make a spill page                *)
  OrphanLines,    (* more content makes a page a page of its own           *)
  DriftSlack      (* this many groups may drift, or a tenth of them        *)

ASSUME ComparisonAssumption ==
  /\ Longer \in [Customers -> SUBSET Customers]
  /\ NoCustomer \notin Customers /\ NoAmount \notin Amounts
  /\ Customers \cap (Amounts \cup {NoAmount}) = {}
  /\ GroupCap \in Nat /\ SparseSlack \in Nat /\ DriftSlack \in Nat

Kinds == {"name", "letter", "row", "total", "legal"}
Lines == [kind : Kinds, of : Customers \cup {NoCustomer}, amount : Amounts \cup {NoAmount}]
Pages == [lines : Seq(Lines), look : Nat]      \* what looks the same has the same number

(* The text a line is compared by: digits are masked, so two rows read the *)
(* same whatever they print.                                               *)
Text(l) == IF l.kind = "name" THEN <<l.kind, l.of>> ELSE <<l.kind>>

Texts(p) == {Text(p.lines[i]) : i \in DOMAIN p.lines}
Says(p, v) == \E i \in DOMAIN p.lines : LET l == p.lines[i] IN
                l.kind = "name" /\ (l.of = v \/ l.of \in Longer[v])

Places(d) == UNION {{<<p, i>> : i \in DOMAIN d.pages[p].lines} : p \in DOMAIN d.pages}
At(d, x) == d.pages[x[1]].lines[x[2]]
Count(d, n) == Cardinality({x \in Places(d) : At(d, x).amount = n})
Amount(p, kinds) ==
  {p.lines[i].amount : i \in {j \in DOMAIN p.lines : p.lines[j].kind \in kinds}} \ {NoAmount}
Figures(d) == Cardinality({x \in Places(d) : At(d, x).amount # NoAmount})

Finding(severity, code, holds) ==
  IF holds THEN {[severity |-> severity, code |-> code]} ELSE {}

Exceeds(n, m) == IF n > m THEN n - m ELSE 0
Share(part, whole) == 100 * part > 10 * (IF whole = 0 THEN 1 ELSE whole)
Apart(o, c) == Exceeds(Len(o.pages), Len(c.pages)) + Exceeds(Len(c.pages), Len(o.pages))

(* compare_numbers: the multisets of the two documents. What the           *)
(* conversion misses of n is each occurrence beyond those it has.          *)
NumbersVerdict(o, c) ==
  LET ref == Figures(o)
      missing == Cardinality(UNION {{<<n, k>> : k \in (Count(c, n) + 1)..Count(o, n)} : n \in Amounts})
  IN  IF ref = 0 THEN "FAIL"
      ELSE IF missing = 0 THEN "PASS"
      ELSE IF 10 * (ref - missing) >= 9 * ref THEN "NEAR" ELSE "FAIL"

(* A line is there when its text is, or when the stream of the whole       *)
(* document contains it: a name is part of a longer one.                   *)
IsPrinted(d, l) ==
  \E p \in DOMAIN d.pages : \/ Text(l) \in Texts(d.pages[p])
                            \/ l.kind = "name" /\ Says(d.pages[p], l.of)
MissingLines(o, c) == {Text(At(o, x)) : x \in {y \in Places(o) : ~IsPrinted(c, At(o, y))}}

PagesWith(d, t) == {p \in DOMAIN d.pages : t \in Texts(d.pages[p])}
FirstPage(d, t) == CHOOSE p \in PagesWith(d, t) : \A q \in PagesWith(d, t) : p <= q
AllTexts(d) == UNION {Texts(d.pages[p]) : p \in DOMAIN d.pages}
MovedLines(o, c) == {t \in AllTexts(o) \cap AllTexts(c) : FirstPage(o, t) # FirstPage(c, t)}

(* _boilerplate: what most populated pages carry.                          *)
Furniture(d) ==
  LET populated == {p \in DOMAIN d.pages : Cardinality(Texts(d.pages[p])) >= FurnitureLines}
      sixty == (6 * Cardinality(populated)) \div 10
      enough == IF sixty > 2 THEN sixty ELSE 2
  IN  {t \in AllTexts(d) : Cardinality(populated \cap PagesWith(d, t)) >= enough}

(* The content of a page, by place: masked rows are alike but each counts. *)
Content(d, p) == {i \in DOMAIN d.pages[p].lines : Text(d.pages[p].lines[i]) \notin Furniture(d)}
Sparse(d) == {p \in DOMAIN d.pages : Cardinality(Content(d, p)) <= SparseLines}

(* _pages_of: the longest run of pages that say the value and no longer    *)
(* value that contains it.                                                 *)
PagesOf(d, v, values) ==
  LET hits == {p \in DOMAIN d.pages : Says(d.pages[p], v)
                 /\ \A w \in values \cap Longer[v] : ~Says(d.pages[p], w)}
      runs == {r \in {a..b : a, b \in hits} : r # {} /\ r \subseteq hits}
  IN  IF runs = {} THEN {}
      ELSE CHOOSE r \in runs : \A s \in runs :
             \/ Cardinality(s) < Cardinality(r)
             \/ Cardinality(s) = Cardinality(r) /\ \E p \in r : \A q \in s : p <= q
Span(d, v, values) == Cardinality(PagesOf(d, v, values))

(* The first GroupCap distinct values of the rows saved with the report,   *)
(* each at the row it is first seen in.                                    *)
GroupValues(saved) ==
  LET new == {i \in DOMAIN saved : saved[i] # NoCustomer /\ \A j \in 1..(i - 1) : saved[j] # saved[i]}
  IN  [i \in {j \in new : Cardinality({k \in new : k < j}) < GroupCap} |-> saved[i]]

(* owners: of two values on a page the later one has it.                   *)
Owner(d, p, order) ==
  LET on == {i \in DOMAIN order : p \in PagesOf(d, order[i], Range(order))}
  IN  IF on = {} THEN NoCustomer ELSE order[CHOOSE i \in on : \A j \in on : j <= i]

Stated(d, p) == Amount(d.pages[p], {"letter"})
Totals(d, p) == Amount(d.pages[p], {"total"})
Claims(d, p) == IF Stated(d, p) # {} THEN Stated(d, p)
                ELSE Amount(d.pages[p], Kinds)

(* A statement that says what is due, its total printed on the next page.  *)
CarriedOver(d) ==
  {p \in DOMAIN d.pages : p > 1 /\ Stated(d, p - 1) # {}
     /\ Stated(d, p - 1) \cap Totals(d, p - 1) = {}
     /\ Stated(d, p - 1) \cap Totals(d, p) # {}}
(* A near-empty page with a total that the statement before it may claim.  *)
Stranded(d, p, order) ==
  /\ Cardinality(Content(d, p)) <= OrphanLines
  /\ \E i \in Content(d, p) : d.pages[p].lines[i].kind = "total"
  /\ Owner(d, p, order) = NoCustomer
  /\ p > 1 /\ Owner(d, p - 1, order) # NoCustomer
  /\ Totals(d, p) = {} \/ Claims(d, p - 1) = {} \/ Claims(d, p - 1) \cap Totals(d, p) # {}

(* Mutant of Orphans: only the near-empty pages are looked at.             *)
StrandedOnly(d, order) ==
  {Owner(d, p - 1, order) : p \in {q \in DOMAIN d.pages : Stranded(d, q, order)}}

(* _orphan_totals, as the statements blamed: the owner of the page before, *)
(* or the amount when nobody owns it.                                      *)
Orphans(d, order) ==
  LET carried == CarriedOver(d)
      Blamed(p) == IF Owner(d, p, order) # NoCustomer THEN Owner(d, p, order)
                   ELSE CHOOSE n \in Stated(d, p) : TRUE
  IN  {Blamed(p - 1) : p \in carried}
      \cup {Owner(d, p - 1, order) : p \in {q \in DOMAIN d.pages \ carried : Stranded(d, q, order)}}

(* What each page a group spans ends with, its last page left out.         *)
Breaks(d, v, values) ==
  LET on == PagesOf(d, v, values)
      Mark(p) == {Text(d.pages[p].lines[i]) : i \in {j \in Content(d, p) : \A k \in Content(d, p) : k <= j}}
  IN  {<<p - (CHOOSE q \in on : \A r \in on : q <= r), Mark(p)>> :
         p \in {q \in on : q + 1 \in on}}

Drifted(o, c, values) ==
  {v \in values : Span(o, v, values) # 0 /\ Span(c, v, values) # 0
                    /\ Span(o, v, values) # Span(c, v, values)}
Rebroken(o, c, values) ==
  {v \in values : Span(o, v, values) > 1 /\ Span(c, v, values) > 1
                    /\ Breaks(o, v, values) # Breaks(c, v, values)}

(* Mutant of GroupFindings: a split the original makes too is blamed.       *)
GroupFindingsOfConversion(o, c, order) ==
  IF DOMAIN order = {} THEN {} ELSE Finding("error", "orphaned-total", Orphans(c, order) # {})

GroupFindings(o, c, order) ==
  LET values == Range(order)
      tenth == Cardinality(DOMAIN order) \div 10
  IN  IF values = {} THEN {}
      ELSE Finding("warning", "group-spans",
                   Cardinality(Drifted(o, c, values)) > (IF tenth > DriftSlack THEN tenth ELSE DriftSlack))
           \cup Finding("error", "orphaned-total", Orphans(c, order) \ Orphans(o, order) # {})
           \cup Finding("warning", "group-breaks", Rebroken(o, c, values) # {})

(* A page count that differs is context when every group still spans what  *)
(* it did and the conversion is the shorter one.                           *)
PageFindings(o, c, order) ==
  LET compact == DOMAIN order # {} /\ Drifted(o, c, Range(order)) = {} /\ Len(c.pages) < Len(o.pages)
      differs == Share(Apart(o, c), Len(o.pages))
  IN  Finding("info", "pages", differs /\ compact) \cup Finding("warning", "pages", differs /\ ~compact)

-----------------------------------------------------------------------------
(* visual_diff: pages are paired by their text, then compared by eye.      *)
Overlap(a, b) ==
  LET least == IF Cardinality(a) < Cardinality(b) THEN Cardinality(a) ELSE Cardinality(b)
  IN  IF least = 0 THEN 0 ELSE (100 * Cardinality(a \cap b)) \div least

(* The pages of a conversion matched with those of the original: the best  *)
(* overlap at or after the previous match, the first of equals.            *)
PairPages(o, c) ==
  LET Score(p, q) == Overlap(Texts(c.pages[q]), Texts(o.pages[p]))
      match[q \in 0..Len(c.pages)] ==
        IF q = 0 THEN [start |-> 1, pairs |-> {}]
        ELSE LET before == match[q - 1]
                 ahead == before.start..Len(o.pages)
                 best == {p \in ahead : /\ Score(p, q) >= 40
                                        /\ \A r \in ahead : \/ Score(r, q) < Score(p, q)
                                                            \/ Score(r, q) = Score(p, q) /\ p <= r}
             IN  IF best = {} THEN before
                 ELSE LET p == CHOOSE r \in best : TRUE
                      IN  [start |-> p, pairs |-> before.pairs \cup {<<p, q>>}]
  IN  match[Len(c.pages)].pairs

(* The pixels of a pair differ when the looks do; without Pillow, or when  *)
(* a page cannot be rasterised, nothing is compared.                       *)
Appearance(o, c, sees) ==
  LET pairs == IF sees THEN PairPages(o, c) ELSE {}
      differ == {x \in pairs : o.pages[x[1]].look # c.pages[x[2]].look}
  IN  Finding("warning", "appearance", differ # {}) \cup Finding("info", "appearance", pairs = {})

Findings(o, c, order, sees) ==
  Finding("error", "numbers", NumbersVerdict(o, c) = "FAIL")
  \cup Finding("warning", "numbers", NumbersVerdict(o, c) = "NEAR")
  \cup Finding("error", "missing-content", MissingLines(o, c) # {})
  \cup Finding("warning", "moved-content", MovedLines(o, c) # {} /\ ~Share(Apart(o, c), Len(o.pages)))
  \cup Finding("warning", "widowed-pages",
               Cardinality(Sparse(c)) > Cardinality(Sparse(o)) + SparseSlack)
  \cup GroupFindings(o, c, order)
  \cup PageFindings(o, c, order)
  \cup Finding("info", "paper-size", o.paper # c.paper)
  \cup Appearance(o, c, sees)

Verdict(found) == IF \E f \in found : f.severity \in {"error", "warning"} THEN "REVIEW" ELSE "SHIP"
=============================================================================
