----------------------------- MODULE ProjectStore -----------------------------
(***************************************************************************)
(* The state the estate's jobs share (src/pentaho_migration/project.py):   *)
(* the rows of the sqlite store and the source files they were converted   *)
(* from.  Each operator below is one sqlite transaction, which is the unit *)
(* of atomicity: jobs run in threads and take no lock between two of them. *)
(*                                                                         *)
(* A file is its base name; a content is a version of a file, abstracted   *)
(* to what the jobs tell apart: what kind of source it is, the mappings an *)
(* export holds, the name a report carries.                                *)
(***************************************************************************)
EXTENDS Integers, Sequences

CONSTANTS
  Files,      (* base names of sources                                     *)
  Contents,   (* versions of sources                                       *)
  Names,      (* mapping names                                             *)
  Kind,       (* a content is a "report", an "etl" export, "broken" (taken *)
              (* for an export, but it does not parse), or "unknown"       *)
  Pipelines,  (* the mappings of an export, in file order                  *)
  Shipped,    (* the files of the repository's samples/ directories        *)
  Nothing,    (* no file, no row                                           *)
  Torn        (* a file truncated, half written, or a mixture of two       *)

ASSUME ContentsAssumption ==
  /\ Kind \in [Contents -> {"etl", "broken", "report", "unknown"}]
  /\ Pipelines \in [Contents -> Seq(Names)]
  /\ Shipped \in [Files -> Contents \cup {Nothing}]
  /\ Nothing \notin Contents \cup {Torn}
  /\ Torn \notin Contents

VARIABLES
  estate,    (* config/estate/: what each file holds                       *)
  mappings,  (* table mappings, by (file, mapping)                         *)
  reports    (* table reports, by file                                     *)

storeVars == <<estate, mappings, reports>>

Keys     == Files \X Names
Places   == {"estate", "samples"}
Verdicts == {"none", "SHIP", "REVIEW"}

NamesIn(c) == {Pipelines[c][i] : i \in DOMAIN Pipelines[c]}

(* A row is there when it has a content: the version it was recorded from. *)
NoRow == [content |-> Nothing, place |-> "estate", verdict |-> "none"]

Rows == [content : Contents \cup {Nothing}, place : Places, verdict : Verdicts]

Recorded(rows) == {k \in DOMAIN rows : rows[k].content # Nothing}

StoreInit ==
  /\ estate = [f \in Files |-> Nothing]
  /\ mappings = [k \in Keys |-> NoRow]
  /\ reports = [f \in Files |-> NoRow]

(* resolve_source_path: the exact path, else a sample of the same name.    *)
Resolve(place, f) ==
  IF place = "estate" /\ estate[f] # Nothing THEN "estate"
  ELSE IF Shipped[f] # Nothing THEN "samples"
  ELSE "nowhere"

(* What a job finds there; Nothing when there is no file.                  *)
FileAt(place, f) == IF place = "estate" THEN estate[f] ELSE Shipped[f]

(* A content from which parse_file returns pipelines.                      *)
Parses(c) == c \in Contents /\ Kind[c] = "etl"

(* _repair_paths, on every list: a row whose file is gone is pointed at    *)
(* the sample of the same name, for good.                                  *)
Repair(row, f) ==
  IF row.content # Nothing /\ Resolve(row.place, f) = "samples"
  THEN [row EXCEPT !.place = "samples"]
  ELSE row

RepairedMappings == [k \in Keys |-> Repair(mappings[k], k[1])]
RepairedReports  == [f \in Files |-> Repair(reports[f], f)]

ListMappings == mappings' = RepairedMappings
ListReports  == reports' = RepairedReports

(* The upserts leave the verdict columns of a row that is there alone.     *)
RecordMapping(f, n, c) ==
  mappings' = [mappings EXCEPT ![<<f, n>>] = [content |-> c, place |-> "estate",
                                              verdict |-> mappings[<<f, n>>].verdict]]

RecordReport(f, c) ==
  reports' = [reports EXCEPT ![f] = [content |-> c, place |-> "estate",
                                     verdict |-> reports[f].verdict]]

(* An UPDATE: it never makes a row.                                        *)
SetMappingReview(k, v) ==
  mappings' = IF mappings[k].content = Nothing THEN mappings
              ELSE [mappings EXCEPT ![k].verdict = v]

StoreTypeOK ==
  /\ estate \in [Files -> Contents \cup {Nothing, Torn}]
  /\ mappings \in [Keys -> Rows]
  /\ reports \in [Files -> Rows]

=============================================================================
