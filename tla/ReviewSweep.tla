------------------------------ MODULE ReviewSweep ------------------------------
(***************************************************************************)
(* The ETL review sweep (src/pentaho_migration/api/main.py,                *)
(* project_etl_review_start): every stored mapping whose export still      *)
(* exists is parsed and reviewed again, and the verdict stamped on its row.*)
(***************************************************************************)
EXTENDS ProjectStore

CONSTANTS
  Sweeps,  (* the sweeps of a run of the server                            *)
  Ships    (* the (content, mapping) pairs review_pipeline finds clean     *)

ASSUME ShipsAssumption == Ships \subseteq Contents \X Names

VARIABLES
  sweepAt,    (* where each sweep is                                       *)
  sweepItems, (* the rows listed when it was requested                     *)
  judging,    (* the row reviewed but not stamped yet, with its verdict    *)
  bySource,   (* the export parsed, or Torn for its error, by source       *)
  stamped,    (* the rows it is through with                               *)
  touched     (* history: has a source changed since it was requested?     *)

sweepVars == <<sweepAt, sweepItems, judging, bySource, stamped, touched>>

SweepItems == [file : Files, name : Names, place : Places]
Judgements == [item : SweepItems, verdict : {"SHIP", "REVIEW"}]

SweepInit ==
  /\ sweepAt = [w \in Sweeps |-> "idle"]
  /\ sweepItems = [w \in Sweeps |-> {}]
  /\ judging = [w \in Sweeps |-> {}]
  /\ bySource = [w \in Sweeps |-> [s \in Places \X Files |-> Nothing]]
  /\ stamped = [w \in Sweeps |-> {}]
  /\ touched = [w \in Sweeps |-> FALSE]

(* The rows are listed by the request, the worker gets to them later.      *)
StartSweep(w) ==
  /\ sweepAt[w] = "idle"
  /\ ListMappings
  /\ sweepItems' = [sweepItems EXCEPT ![w] =
                     {[file |-> k[1], name |-> k[2], place |-> RepairedMappings[k].place] :
                        k \in Recorded(mappings)}]
  /\ sweepAt' = [sweepAt EXCEPT ![w] = "next"]
  /\ touched' = [touched EXCEPT ![w] = FALSE]
  /\ UNCHANGED <<estate, reports, judging, bySource, stamped>>

Unstamped(w) == sweepItems[w] \ stamped[w]

SourceOf(i) == <<Resolve(i.place, i.file), i.file>>

(* What by_source holds for a source, read now if it never was.            *)
Held(w, s) ==
  IF bySource[w][s] # Nothing THEN bySource[w][s]
  ELSE IF Parses(FileAt(s[1], s[2])) THEN FileAt(s[1], s[2]) ELSE Torn

(* Mutant of Verdict: a mapping the export no longer has is not noticed.   *)
VerdictOfRow(c, n) ==
  IF c # Torn /\ (<<c, n>> \in Ships \/ n \notin NamesIn(c)) THEN "SHIP" ELSE "REVIEW"

Verdict(c, n) ==
  IF c # Torn /\ n \in NamesIn(c) /\ <<c, n>> \in Ships THEN "SHIP" ELSE "REVIEW"

JudgeMissing(w, i) ==
  /\ sweepAt[w] = "next"
  /\ judging[w] = {}
  /\ i \in Unstamped(w)
  /\ SourceOf(i)[1] = "nowhere"
  /\ judging' = [judging EXCEPT ![w] = {[item |-> i, verdict |-> "REVIEW"]}]
  /\ UNCHANGED <<storeVars, sweepAt, sweepItems, bySource, stamped, touched>>

Judge(w, i) ==
  /\ sweepAt[w] = "next"
  /\ judging[w] = {}
  /\ i \in Unstamped(w)
  /\ SourceOf(i)[1] # "nowhere"
  /\ LET held == Held(w, SourceOf(i))
     IN /\ bySource' = [bySource EXCEPT ![w][SourceOf(i)] = held]
        /\ judging' = [judging EXCEPT ![w] =
                        {[item |-> i, verdict |-> Verdict(held, i.name)]}]
  /\ UNCHANGED <<storeVars, sweepAt, sweepItems, stamped, touched>>

(* review_pipeline raises: the sweep fails, the other rows unstamped.      *)
ReviewRaises(w, i) ==
  /\ sweepAt[w] = "next"
  /\ judging[w] = {}
  /\ i \in Unstamped(w)
  /\ SourceOf(i)[1] # "nowhere"
  /\ LET held == Held(w, SourceOf(i))
     IN /\ held # Torn
        /\ i.name \in NamesIn(held)
        /\ bySource' = [bySource EXCEPT ![w][SourceOf(i)] = held]
  /\ sweepAt' = [sweepAt EXCEPT ![w] = "error"]
  /\ UNCHANGED <<storeVars, sweepItems, judging, stamped, touched>>

Stamp(w) ==
  \E j \in judging[w] :
    /\ SetMappingReview(<<j.item.file, j.item.name>>, j.verdict)
    /\ stamped' = [stamped EXCEPT ![w] = @ \cup {j.item}]
    /\ judging' = [judging EXCEPT ![w] = {}]
    /\ UNCHANGED <<estate, reports, sweepAt, sweepItems, bySource, touched>>

FinishSweep(w) ==
  /\ sweepAt[w] = "next"
  /\ Unstamped(w) = {}
  /\ ListMappings
  /\ sweepAt' = [sweepAt EXCEPT ![w] = "done"]
  /\ UNCHANGED <<estate, reports, sweepItems, judging, bySource, stamped, touched>>

SweepStep(w) ==
  \/ Stamp(w) \/ FinishSweep(w)
  \/ \E i \in sweepItems[w] : JudgeMissing(w, i) \/ Judge(w, i) \/ ReviewRaises(w, i)

SweepTypeOK ==
  /\ sweepAt \in [Sweeps -> {"idle", "next", "error", "done"}]
  /\ sweepItems \in [Sweeps -> SUBSET SweepItems]
  /\ judging \in [Sweeps -> SUBSET Judgements]
  /\ bySource \in [Sweeps -> [Places \X Files -> Contents \cup {Nothing, Torn}]]
  /\ stamped \in [Sweeps -> SUBSET SweepItems]
  /\ touched \in [Sweeps -> BOOLEAN]

=============================================================================
