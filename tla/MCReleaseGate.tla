----------------------------- MODULE MCReleaseGate -----------------------------
(* Instances of ReleaseGate for TLC: two statements printed one after the  *)
(* other, the pages broken in every way in both renders; and three checks  *)
(* of a plain report that share the slots.                                 *)
EXTENDS ReleaseGate, SequencesExt, TLC

CONSTANTS ann, annex,              (* customers; one name contains ann's   *)
          first, second, third     (* threads                              *)

MCCustomers == {ann, annex}
MCLonger == [v \in MCCustomers |-> IF v = ann THEN {annex} ELSE {}]
MCChecks == {first, second, third}
MCAmounts == 1..4
Due(v) == IF v = ann THEN 1 ELSE 2

L(kind, v, n) == [kind |-> kind, of |-> v, amount |-> n]
Legal == L("legal", NoCustomer, NoAmount)
Statement(v) == <<L("name", v, NoAmount), L("letter", v, Due(v)),
                  L("row", v, Due(v) + 2), L("total", v, Due(v))>>
Whole == Statement(ann) \o Statement(annex)
NoName == Tail(Statement(ann)) \o Statement(annex)
NoRow == Statement(ann) \o <<L("name", annex, NoAmount), L("letter", annex, 2), L("total", annex, 2)>>
OneOnly == Statement(annex)

(* Pages broken after the lines of cuts, each with a legal footer or not.  *)
Broken(lines, cuts, legal) ==
  LET ends == SetToSortSeq((cuts \cap 1..(Len(lines) - 1)) \cup {Len(lines)}, <)
      From(i) == IF i = 1 THEN 1 ELSE ends[i - 1] + 1
  IN  [pages |-> [i \in DOMAIN ends |->
                    [lines |-> SubSeq(lines, From(i), ends[i]) \o (IF legal THEN <<Legal>> ELSE << >>),
                     look |-> ends[i]]],
       paper |-> "letter"]

Cuts == {k \in SUBSET (1..7) : Cardinality(k) <= 3}
FewCuts == {{4}, {1, 4}, {2, 4}, {3, 4}, {4, 7}, {2, 4, 6}}

Idle == [how |-> "idle"]
On2(o, c, how, saved, sees) ==
  [how |-> how, original |-> o, converted |-> c, saved |-> saved, sees |-> sees]
Rows == <<ann, NoCustomer, annex, ann>>

Pairs ==
  {On2(Broken(Whole, k, g), Broken(Whole, m, g), "job", Rows, TRUE) :
     k \in FewCuts, m \in Cuts, g \in BOOLEAN}
  \cup {On2(Broken(Whole, k, FALSE), Broken(w, m, FALSE), "job", r, s) :
     k \in {{4}, {2, 4, 6}}, w \in {Whole, NoName, NoRow, OneOnly}, m \in FewCuts,
     r \in {<< >>, Rows}, s \in BOOLEAN}
  \cup {On2(Broken(Whole, k, g), Broken(Whole, k, g), "call", Rows, TRUE) : k \in Cuts, g \in BOOLEAN}

Plain == Broken(Whole, {4}, FALSE)
Solo(pairs) == {[c \in MCChecks |-> IF c = first THEN k ELSE Idle] : k \in pairs}
MCCases ==
  Solo(Pairs)
  \cup {[c \in MCChecks |-> On2(Plain, Plain, IF c = third THEN "call" ELSE "job", Rows, TRUE)]}
=============================================================================
