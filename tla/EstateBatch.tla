------------------------------ MODULE EstateBatch ------------------------------
(***************************************************************************)
(* Batch conversion (src/pentaho_migration/estate.py,                      *)
(* batch_convert_files): a list of uploads, each saved under               *)
(* config/estate/, converted, and recorded in the project store.           *)
(***************************************************************************)
EXTENDS ProjectStore

CONSTANTS
  Batches,  (* the batch jobs of a run of the server                       *)
  Uploads   (* what each was given: a sequence of files with their content *)

ASSUME UploadsAssumption ==
  Uploads \in [Batches -> Seq([file : Files, content : Contents])]

VARIABLES
  batchAt,    (* where each batch is                                       *)
  turn,       (* the number of the upload it is at                         *)
  parsed,     (* the content parse_file read for each upload               *)
  unrecorded, (* the parsed mappings still to record                       *)
  converted, failed, skipped, (* the uploads by outcome                    *)
  etlMappings (* done["etl_mappings"]                                      *)

batchVars == <<batchAt, turn, parsed, unrecorded, converted, failed, skipped, etlMappings>>

Turns(b)  == DOMAIN Uploads[b]
Attempts  == UNION {{b} \X Turns(b) : b \in Batches}
Upload(b) == Uploads[b][turn[b]]
Parsed(b) == parsed[<<b, turn[b]>>]

BatchInit ==
  /\ batchAt = [b \in Batches |-> "idle"]
  /\ turn = [b \in Batches |-> 1]
  /\ parsed = [a \in Attempts |-> Nothing]
  /\ unrecorded = [b \in Batches |-> << >>]
  /\ converted = [b \in Batches |-> {}]
  /\ failed = [b \in Batches |-> {}]
  /\ skipped = [b \in Batches |-> {}]
  /\ etlMappings = [b \in Batches |-> 0]

(* The endpoint; it refuses a batch with an upload above the limit (413),  *)
(* which then stays idle.                                                  *)
StartBatch(b) ==
  /\ batchAt[b] = "idle"
  /\ batchAt' = [batchAt EXCEPT ![b] = "next"]
  /\ UNCHANGED <<storeVars, turn, parsed, unrecorded, converted, failed, skipped,
                 etlMappings>>

(* On to the next upload, this one's outcome written down.                 *)
Proceed(b) ==
  /\ batchAt' = [batchAt EXCEPT ![b] = "next"]
  /\ turn' = [turn EXCEPT ![b] = @ + 1]
  /\ unrecorded' = [unrecorded EXCEPT ![b] = << >>]
  /\ UNCHANGED parsed

SkipUpload(b) ==
  /\ batchAt[b] = "next"
  /\ turn[b] \in Turns(b)
  /\ Kind[Upload(b).content] = "unknown"
  /\ skipped' = [skipped EXCEPT ![b] = @ \cup {turn[b]}]
  /\ Proceed(b)
  /\ UNCHANGED <<storeVars, converted, failed, etlMappings>>

(* _save_source: write_bytes opens the file truncated, then writes.        *)
OpenSource(b) ==
  /\ batchAt[b] = "next"
  /\ turn[b] \in Turns(b)
  /\ Kind[Upload(b).content] # "unknown"
  /\ estate' = [estate EXCEPT ![Upload(b).file] = Torn]
  /\ batchAt' = [batchAt EXCEPT ![b] = "write"]
  /\ UNCHANGED <<mappings, reports, turn, parsed, unrecorded, converted, failed, skipped,
                 etlMappings>>

(* When another batch wrote the file since it was truncated, the tail of   *)
(* the longer version may remain.                                          *)
WriteSource(b) ==
  /\ batchAt[b] = "write"
  /\ \E c \in {Upload(b).content}
               \cup (IF estate[Upload(b).file] = Torn THEN {} ELSE {Torn}) :
       estate' = [estate EXCEPT ![Upload(b).file] = c]
  /\ batchAt' = [batchAt EXCEPT ![b] = "convert"]
  /\ UNCHANGED <<mappings, reports, turn, parsed, unrecorded, converted, failed, skipped,
                 etlMappings>>

(* _convert_etl reads the file back: by now it may be another's.           *)
ParseExport(b) ==
  LET c == estate[Upload(b).file]
  IN /\ batchAt[b] = "convert"
     /\ Kind[Upload(b).content] \in {"etl", "broken"}
     /\ Parses(c)
     /\ parsed' = [parsed EXCEPT ![<<b, turn[b]>>] = c]
     /\ unrecorded' = [unrecorded EXCEPT ![b] = Pipelines[c]]
     /\ batchAt' = [batchAt EXCEPT ![b] = "record"]
     /\ UNCHANGED <<storeVars, turn, converted, failed, skipped, etlMappings>>

RecordNext(b) ==
  /\ batchAt[b] = "record"
  /\ unrecorded[b] # << >>
  /\ RecordMapping(Upload(b).file, Head(unrecorded[b]), Parsed(b))
  /\ unrecorded' = [unrecorded EXCEPT ![b] = Tail(@)]
  /\ UNCHANGED <<estate, reports, batchAt, turn, parsed, converted, failed, skipped,
                 etlMappings>>

(* Mutant of ExportConverted: counted while mappings are still unrecorded. *)
ExportConvertedEarly(b) ==
  /\ batchAt[b] = "record"
  /\ converted' = [converted EXCEPT ![b] = @ \cup {turn[b]}]
  /\ etlMappings' = [etlMappings EXCEPT ![b] = @ + Len(Pipelines[Parsed(b)])]
  /\ Proceed(b)
  /\ UNCHANGED <<storeVars, failed, skipped>>

ExportConverted(b) ==
  /\ batchAt[b] = "record"
  /\ unrecorded[b] = << >>
  /\ converted' = [converted EXCEPT ![b] = @ \cup {turn[b]}]
  /\ etlMappings' = [etlMappings EXCEPT ![b] = @ + Len(Pipelines[Parsed(b)])]
  /\ Proceed(b)
  /\ UNCHANGED <<storeVars, failed, skipped>>

(* _convert_report loads the report from the upload, not from the file.    *)
ConvertReport(b) ==
  /\ batchAt[b] = "convert"
  /\ Kind[Upload(b).content] = "report"
  /\ RecordReport(Upload(b).file, Upload(b).content)
  /\ converted' = [converted EXCEPT ![b] = @ \cup {turn[b]}]
  /\ Proceed(b)
  /\ UNCHANGED <<estate, mappings, failed, skipped, etlMappings>>

(* Mutant of ConvertFails: what failed is tried again.                     *)
ConvertFailsAndRetries(b) ==
  /\ batchAt[b] \in {"next", "write", "convert", "record"}
  /\ turn[b] \in Turns(b)
  /\ Kind[Upload(b).content] # "unknown"
  /\ batchAt' = [batchAt EXCEPT ![b] = "next"]
  /\ failed' = [failed EXCEPT ![b] = @ \cup {turn[b]}]
  /\ unrecorded' = [unrecorded EXCEPT ![b] = << >>]
  /\ UNCHANGED <<storeVars, turn, parsed, converted, skipped, etlMappings>>

(* Anything the saving, parsing, scoring or recording of one upload raises *)
(* - an unreadable file always does.  What was done stays done.            *)
ConvertFails(b) ==
  /\ batchAt[b] \in {"next", "write", "convert", "record"}
  /\ turn[b] \in Turns(b)
  /\ Kind[Upload(b).content] # "unknown"
  /\ failed' = [failed EXCEPT ![b] = @ \cup {turn[b]}]
  /\ Proceed(b)
  /\ UNCHANGED <<storeVars, converted, skipped, etlMappings>>

(* The rows of the summary.                                                *)
SummariseMappings(b) ==
  /\ batchAt[b] = "next"
  /\ turn[b] \notin Turns(b)
  /\ ListMappings
  /\ batchAt' = [batchAt EXCEPT ![b] = "reportRows"]
  /\ UNCHANGED <<estate, reports, turn, parsed, unrecorded, converted, failed, skipped,
                 etlMappings>>

SummariseReports(b) ==
  /\ batchAt[b] = "reportRows"
  /\ ListReports
  /\ batchAt' = [batchAt EXCEPT ![b] = "done"]
  /\ UNCHANGED <<estate, mappings, turn, parsed, unrecorded, converted, failed, skipped,
                 etlMappings>>

(* A listing raises, so that the job ends with an error: its summary is    *)
(* lost, what was recorded stays.                                          *)
SummaryFails(b) ==
  /\ \/ batchAt[b] = "next" /\ turn[b] \notin Turns(b)
     \/ batchAt[b] = "reportRows"
  /\ batchAt' = [batchAt EXCEPT ![b] = "done"]
  /\ UNCHANGED <<storeVars, turn, parsed, unrecorded, converted, failed, skipped,
                 etlMappings>>

BatchStep(b) ==
  \/ SkipUpload(b)
  \/ OpenSource(b) \/ WriteSource(b)
  \/ ParseExport(b) \/ RecordNext(b) \/ ExportConverted(b)
  \/ ConvertReport(b)
  \/ ConvertFails(b)
  \/ SummariseMappings(b) \/ SummariseReports(b) \/ SummaryFails(b)

BatchTypeOK ==
  /\ batchAt \in [Batches -> {"idle", "next", "write", "convert", "record", "reportRows",
                              "done"}]
  /\ turn \in [Batches -> Nat]
  /\ \A b \in Batches : turn[b] \in 1..(Len(Uploads[b]) + 1)
  /\ parsed \in [Attempts -> Contents \cup {Nothing}]
  /\ unrecorded \in [Batches -> Seq(Names)]
  /\ converted \in [Batches -> SUBSET Nat]
  /\ failed \in [Batches -> SUBSET Nat]
  /\ skipped \in [Batches -> SUBSET Nat]
  /\ etlMappings \in [Batches -> Nat]

=============================================================================
