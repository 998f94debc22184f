------------------------------ MODULE MCConversion ------------------------------
(* Instances of Conversion for TLC: every small mapping of two steps ahead *)
(* of a step that needs sorted input, every small Talend job, every small  *)
(* pair of outputs, each with the plainest of the other two.               *)
EXTENDS Conversion, TLC

CONSTANTS lead, side, join, gone,      (* steps                            *)
          load, check, mail,           (* components                       *)
          start, one, uno, two, id, sum, more

MCSteps == {lead, side, join}
MCGhosts == {gone}
MCComponents == {load, check, mail}
MCColumns == {id, sum, more}
MCCells == {one, uno, two}
(* The tolerance is not transitive.                                        *)
MCAlike == {<<c, c>> : c \in MCCells} \cup {<<one, uno>>, <<uno, one>>, <<uno, two>>, <<two, uno>>}

UpTo(n, S) == UNION {[1..i -> S] : i \in 0..n}
Differing(seqs) == {s \in seqs : \A i, j \in DOMAIN s : s[i] = s[j] => i = j}

(* Hops of a cycle, of a dangling name, into the target twice, and back.   *)
MCHops == {[from |-> lead, to |-> side], [from |-> side, to |-> lead],
           [from |-> lead, to |-> join], [from |-> side, to |-> join],
           [from |-> gone, to |-> join], [from |-> join, to |-> side]}

MCTypings == {[s \in MCSteps |-> IF s = join THEN t ELSE IF s = lead THEN l ELSE d] :
                t \in {"GroupBy", "MergeJoin"},
                l \in {"Mapped", "Unmapped", "MergeJoin"},
                d \in {"SortRows", "Mapped"}}

MCMappings == {[type |-> t, keyed |-> k, hops |-> h] :
                 t \in MCTypings, k \in {{}, {join}, MCSteps}, h \in Differing(UpTo(3, MCHops))}

MCLinks == {l \in Links :
              \/ <<l.from, l.to>> \in {<<load, check>>, <<check, mail>>, <<load, mail>>}
              \/ l.to = load /\ l.from # load /\ l.kind = "OK"}
MCCallers == {[calls |-> c, links |-> l] :
                c \in {{load, mail}, MCComponents}, l \in UpTo(3, MCLinks)}

File(h, rows) == [header |-> h, rows |-> rows]
RowsOver(h, cells) == UNION {[1..n -> [h -> cells]] : n \in 0..1}

(* Two columns of both files: up to two rows, keys that repeat or are      *)
(* spelled differently, sums alike by the tolerance, a row cut short.      *)
Row(k, v) == [c \in {id, sum} |-> IF c = id THEN k ELSE v]
SameColumns ==
  {[expected |-> File({id, sum}, e), actual |-> File({id, sum}, a), key |-> k] :
     e \in UpTo(2, {Row(i, v) : i \in {one, uno}, v \in {one, uno}}),
     a \in UpTo(2, {Row(i, v) : i \in MCCells, v \in {uno, two}} \cup {Row(one, NoCell)}),
     k \in {NoKey, id}}

(* Columns of one file only, of neither, and any key.                      *)
MCHeaders == {{}, {id}, {sum}, {id, sum}, {id, sum, more}}
Files == UNION {{File(h, r) : r \in RowsOver(h, {one, two})} : h \in MCHeaders}
OtherColumns ==
  {[expected |-> e, actual |-> a, key |-> k] :
     e \in Files, a \in Files, k \in {NoKey, id, more}}

MCOutputs == SameColumns \cup OtherColumns

Plain == [type |-> [s \in MCSteps |-> "Mapped"], keyed |-> {},
          hops |-> <<[from |-> lead, to |-> side], [from |-> side, to |-> join]>>]
NoCalls == [calls |-> {}, links |-> << >>]
Once == File({id, sum}, <<Row(one, two)>>)
Twins == [expected |-> Once, actual |-> Once, key |-> NoKey]

OutputSources == {[mapping |-> Plain, caller |-> NoCalls, outputs |-> o] : o \in MCOutputs}

MCSources ==
  {[mapping |-> m, caller |-> NoCalls, outputs |-> Twins] : m \in MCMappings}
  \cup {[mapping |-> Plain, caller |-> c, outputs |-> Twins] : c \in MCCallers}
  \cup OutputSources

OneMapping == {Plain}
OneCaller == {NoCalls}
AllMappings == MCMappings \cup {Plain}
AllCallers == MCCallers \cup {NoCalls}
AllOutputs == MCOutputs \cup {Twins}
=============================================================================
