------------------------------- MODULE ParityDiff -------------------------------
(***************************************************************************)
(* compare_csv: the original's output against the converted pipeline's,    *)
(* row by row, on the columns both files have.  With a key column the rows *)
(* are matched by the key as it is spelled, otherwise by position; cells   *)
(* are the same when they are alike - trimmed, or within the tolerance -   *)
(* which is not transitive.                                                *)
(***************************************************************************)
EXTENDS Naturals, Sequences, FiniteSets

CONSTANTS Columns, Cells,
          NoCell,     (* what a row too short has for a column: None       *)
          NoKey,
          Alike,      (* the pairs of cells that _values_equal accepts     *)
          Outputs     (* the pairs of outputs that are compared            *)

(* A file as csv reads it: its header, and rows that have a cell for each  *)
(* of its columns, or None past the end of the row.                        *)
IsFile(file) ==
  /\ file.header \subseteq Columns
  /\ file.rows \in Seq([file.header -> Cells \cup {NoCell}])

ASSUME OutputsAssumption ==
  \A o \in Outputs : IsFile(o.expected) /\ IsFile(o.actual)

ASSUME CellsAssumption ==
  /\ Alike \subseteq Cells \X Cells
  /\ \A c \in Cells : <<c, c>> \in Alike
  /\ NoCell \notin Cells

VARIABLES
  outputs,    (* what is compared                                          *)
  at,         (* rows of the expected output compared so far               *)
  matching, mismatched, missing, extra,
  parity,     (* of the DiffReport, in ten thousandths                     *)
  verdict     (* of the DiffReport; "refused" for a DiffError, "raised"    *)
              (* for any other exception, "none" before                    *)

diffVars == <<outputs, at, matching, mismatched, missing, extra, parity, verdict>>

Expected == outputs.expected.rows
Actual == outputs.actual.rows
Key == outputs.key
Keyed == Key # NoKey

Shared == outputs.expected.header \cap outputs.actual.header

(* What compare_csv takes; an empty file has no column to share.           *)
Comparable == Shared # {} /\ (Keyed => Key \in Shared)

DiffInit ==
  /\ outputs \in Outputs
  /\ at = 0
  /\ matching = 0
  /\ mismatched = 0
  /\ missing = 0
  /\ extra = 0
  /\ parity = 0
  /\ verdict = "none"

LeastOf(m, n) == IF m <= n THEN m ELSE n
MostOf(m, n) == IF m <= n THEN n ELSE m

(* actual_by_key: the last row with the key, spelled alike.                *)
RowsWith(k) == {i \in DOMAIN Actual : Actual[i][Key] = k}
ByKey(k) == Actual[CHOOSE i \in RowsWith(k) : \A j \in RowsWith(k) : j <= i]

(* _compare_row: the columns of one file only are not looked at.           *)
SameRow(e, a) == \A c \in Shared : <<e[c], a[c]>> \in Alike
(* A cell that is None cannot be trimmed.                                  *)
TooShort(e, a) == \E c \in Shared : NoCell \in {e[c], a[c]}

(* The rows the loop goes over.                                            *)
Compared == IF Keyed THEN Len(Expected) ELSE LeastOf(Len(Expected), Len(Actual))

Stop(outcome) ==
  /\ verdict' = outcome
  /\ UNCHANGED <<outputs, at, matching, mismatched, missing, extra, parity>>

Refuse ==
  /\ verdict = "none"
  /\ ~Comparable
  /\ Stop("refused")

Count(same) ==
  /\ matching' = matching + (IF same THEN 1 ELSE 0)
  /\ mismatched' = mismatched + (IF same THEN 0 ELSE 1)
  /\ UNCHANGED missing

RowIsNext ==
  /\ verdict = "none"
  /\ Comparable
  /\ at < Compared

NextRow ==
  /\ RowIsNext
  /\ at' = at + 1
  /\ UNCHANGED <<outputs, extra, parity, verdict>>

Miss ==
  /\ Keyed
  /\ NextRow
  /\ RowsWith(Expected[at + 1][Key]) = {}
  /\ missing' = missing + 1
  /\ UNCHANGED <<matching, mismatched>>

(* The row that the next expected one is compared with, where there is one. *)
Other == IF Keyed THEN ByKey(Expected[at + 1][Key]) ELSE Actual[at + 1]
OtherIsThere == Keyed => RowsWith(Expected[at + 1][Key]) # {}

Match ==
  /\ NextRow
  /\ OtherIsThere
  /\ ~TooShort(Expected[at + 1], Other)
  /\ Count(SameRow(Expected[at + 1], Other))

(* AttributeError of None.strip(), which no caller expects.                *)
Raise ==
  /\ RowIsNext
  /\ OtherIsThere
  /\ TooShort(Expected[at + 1], Other)
  /\ Stop("raised")

(* Mutant of Denominator: parity among the rows that were compared.      *)
ComparedRows == MostOf(1, matching + mismatched)

(* parity is matching / denominator, against 0.999 and 0.95.               *)
Denominator == MostOf(1, MostOf(Len(Expected), Len(Actual)))

AtLeast(part, whole) == matching * whole >= part * Denominator

Verdict ==
  IF AtLeast(999, 1000) /\ Len(Expected) = Len(Actual) THEN "PASS"
  ELSE IF AtLeast(95, 100) THEN "NEAR" ELSE "FAIL"

(* round(parity, 4): two values are possible on a tie.                     *)
Rounded ==
  {(20000 * matching + half) \div (2 * Denominator) : half \in {Denominator - 1, Denominator}}

KeysOf(rows) == {rows[i][Key] : i \in DOMAIN rows}

Conclude ==
  /\ verdict = "none"
  /\ Comparable
  /\ at = Compared
  /\ extra' = IF Keyed THEN Cardinality(KeysOf(Actual) \ KeysOf(Expected)) ELSE 0
  /\ parity' \in Rounded
  /\ verdict' = Verdict
  /\ UNCHANGED <<outputs, at, matching, mismatched, missing>>

DiffNext == Refuse \/ Miss \/ Match \/ Raise \/ Conclude

DiffSpec == DiffInit /\ [][DiffNext]_diffVars

-----------------------------------------------------------------------------
(* There is a DiffReport.                                                  *)
Reported == verdict \in {"PASS", "NEAR", "FAIL"}

DiffTypeOK ==
  /\ outputs \in Outputs
  /\ at \in 0..Len(Expected)
  /\ {matching, mismatched, missing, extra, parity} \subseteq Nat
  /\ Reported \/ verdict \in {"none", "refused", "raised"}

IsKeyed(rows) == \A i, j \in DOMAIN rows : rows[i][Key] = rows[j][Key] => i = j
KeyIsOne == Keyed => IsKeyed(Expected) /\ IsKeyed(Actual)

(* Rows of one key, alike in every column the files share.                 *)
Matches(i, j) == Expected[i][Key] = Actual[j][Key] /\ SameRow(Expected[i], Actual[j])

SameRows ==
  IF Keyed
  THEN /\ \A i \in DOMAIN Expected : \E j \in DOMAIN Actual : Matches(i, j)
       /\ \A j \in DOMAIN Actual : \E i \in DOMAIN Expected : Matches(i, j)
  ELSE /\ Len(Expected) = Len(Actual)
       /\ \A i \in DOMAIN Expected : SameRow(Expected[i], Actual[i])

(* "PASS - outputs are equivalent on this data": they pass exactly when,   *)
(* on the columns they share, they are the same rows in the same order or, *)
(* matched by a column that is a key of both, the same rows with keys      *)
(* spelled alike.  Columns of one file only are not looked at.  Two        *)
(* outputs without rows fail, for none matches, and of a thousand rows one *)
(* may differ.                                                             *)
PassIsEquivalent ==
  Reported /\ KeyIsOne /\ Expected # << >> /\ Denominator < 1000
    => (verdict = "PASS" <=> SameRows)

(* The same said without the key being one: what the report says of any    *)
(* column the user names.                                                  *)
PassIsAlwaysEquivalent ==
  verdict = "PASS" => SameRows

(* Every row is accounted for: compared or missing on the one side,        *)
(* compared or extra on the other, when the key is a key.                  *)
RowsAddUp ==
  Reported /\ Keyed /\ IsKeyed(Expected) /\ IsKeyed(Actual) =>
    /\ matching + mismatched + missing = Len(Expected)
    /\ matching + mismatched + extra = Len(Actual)

(* What the parity report says: PASS on outputs equivalent in the columns  *)
(* they share and on no others, and counts that account for every row.     *)
DiffIsHonest == PassIsEquivalent /\ RowsAddUp

=============================================================================
