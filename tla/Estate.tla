--------------------------------- MODULE Estate ---------------------------------
(***************************************************************************)
(* Estate mode: batches, packs and review sweeps over one project store    *)
(* and one config/estate/ directory, while pages list the store.  Each job *)
(* is a daemon thread of its own; nothing keeps two of them apart.         *)
(***************************************************************************)
EXTENDS EstateBatch, DeliverablePack, ReviewSweep, ProjectPage, FiniteSets

CONSTANT Removable  (* the sources someone deletes from config/estate/     *)

ASSUME RemovableAssumption == Removable \subseteq Files

vars == <<storeVars, batchVars, packVars, sweepVars, pageVars>>

Init == StoreInit /\ BatchInit /\ PackInit /\ SweepInit /\ PageInit

(* Every running sweep's history notes that a source changed.              *)
NoteChange ==
  touched' = [w \in Sweeps |-> touched[w] \/ estate' # estate]

OthersThanBatches ==
  /\ NoteChange
  /\ UNCHANGED <<packVars, sweepAt, sweepItems, judging, bySource, stamped, pageVars>>

BatchRuns(b) == BatchStep(b) /\ OthersThanBatches
PackRuns(p)  == PackStep(p) /\ UNCHANGED <<batchVars, sweepVars, pageVars>>
SweepRuns(w) == SweepStep(w) /\ UNCHANGED <<batchVars, packVars, pageVars>>
PageRuns     == PageStep /\ UNCHANGED <<batchVars, packVars, sweepVars>>

(* The requests that start the jobs.                                       *)
Requests ==
  \/ \E b \in Batches : StartBatch(b) /\ OthersThanBatches
  \/ \E p \in Packs : StartPack(p) /\ UNCHANGED <<batchVars, sweepVars, pageVars>>
  \/ \E w \in Sweeps : StartSweep(w) /\ UNCHANGED <<batchVars, packVars, pageVars>>

RemoveSource(f) ==
  /\ f \in Removable
  /\ estate[f] \in Contents
  /\ estate' = [estate EXCEPT ![f] = Nothing]
  /\ NoteChange
  /\ UNCHANGED <<mappings, reports, batchVars, packVars, sweepAt, sweepItems, judging,
                 bySource, stamped, pageVars>>

Next ==
  \/ Requests
  \/ \E b \in Batches : BatchRuns(b)
  \/ \E p \in Packs : PackRuns(p)
  \/ \E w \in Sweeps : SweepRuns(w)
  \/ PageRuns
  \/ \E f \in Files : RemoveSource(f)

Spec == Init /\ [][Next]_vars

(* The worker threads run on; nobody has to start a job.                   *)
Fairness ==
  /\ \A b \in Batches : WF_vars(BatchRuns(b))
  /\ \A p \in Packs : WF_vars(PackRuns(p))
  /\ \A w \in Sweeps : WF_vars(SweepRuns(w))

FairSpec == Spec /\ Fairness

-----------------------------------------------------------------------------
(* Properties.                                                             *)

(* The type invariant.                                                     *)
TypeOK == StoreTypeOK /\ BatchTypeOK /\ PackTypeOK /\ SweepTypeOK /\ PageTypeOK

(* "Per-file failures are findings in the summary, never a crash that      *)
(* loses the rest of the estate": every upload of a batch is converted,    *)
(* failed or skipped, exactly one of them, before the batch reports.       *)
BatchLedger ==
  INSTANCE Ledger WITH
    Workers <- Batches,
    Items <- Nat,
    items <- [b \in Batches |-> IF batchAt[b] = "idle" THEN {} ELSE Turns(b)],
    good <- converted,
    bad <- [b \in Batches |-> failed[b] \cup skipped[b]],
    closed <- [b \in Batches |-> batchAt[b] \in {"reportRows", "done"}]

BatchKeepsLedger == BatchLedger!Spec

(* "What fails to convert is listed in the manifest rather than silently   *)
(* dropped": the same for every record a pack listed.                      *)
PackLedger ==
  INSTANCE Ledger WITH
    Workers <- Packs,
    Items <- PackItems,
    items <- packItems,
    good <- packed,
    bad <- packFailures,
    closed <- [p \in Packs |-> packAt[p] = "done"]

PackKeepsLedger == PackLedger!Spec

(* What may lie under a file's name.                                       *)
Versions(f) ==
  {c \in Contents :
     \/ c = Shipped[f]
     \/ \E b \in Batches : \E t \in Turns(b) : Uploads[b][t] = [file |-> f, content |-> c]}

(* What a batch counts as converted it parsed from one version of the      *)
(* export - its own or another batch's, never a torn file - and all the    *)
(* mappings of that version are in the store, although other batches       *)
(* write and record over them.                                             *)
ConvertedIsRecorded ==
  \A b \in Batches : \A t \in converted[b] :
    LET f == Uploads[b][t].file
        c == parsed[<<b, t>>]
    IN IF Kind[Uploads[b][t].content] = "report"
       THEN f \in Recorded(reports)
       ELSE /\ c \in Versions(f) /\ Parses(c)
            /\ \A n \in NamesIn(c) : <<f, n>> \in Recorded(mappings)

(* All that a pack takes from one export is taken from one version of it,  *)
(* however often the export is uploaded again meanwhile.                   *)
OneVersionPerExport ==
  \A p \in Packs : \A d, e \in UNION {artifact[p][x] : x \in Bases} :
    d.item.kind = "etl" /\ e.item.kind = "etl" /\ d.source = e.source
      => d.content = e.content

(* "A manifest that says exactly what is inside": every record counted as  *)
(* packed has its own artifact in the zip, beside its own documents.       *)
ManifestIsExact ==
  \A p \in Packs : packAt[p] = "done" =>
    \A i \in packed[p] : \E x \in Bases :
      \E e \in artifact[p][x] : e.item = i /\ document[p][x] = {e}

(* What the paths of a zip must tell apart for that: any two mappings, and *)
(* the reports that different files may hold.                              *)
PathsApart ==
  /\ \A k, l \in Keys : EtlBase[k] = EtlBase[l] => k = l
  /\ \A k \in Keys, c \in Contents : EtlBase[k] # ReportBase[c]
  /\ \A f, g \in Files : \A c \in Versions(f), d \in Versions(g) :
       f # g /\ Kind[c] = "report" /\ Kind[d] = "report" => ReportBase[c] # ReportBase[d]

(* A sweep that ran while no source changed leaves every row it listed     *)
(* with the verdict its source deserves now.                               *)
Alone(w) == \A v \in Sweeps \ {w} : sweepAt[v] = "idle"

FreshSweepIsCurrent ==
  \A w \in Sweeps : sweepAt[w] = "done" /\ ~touched[w] /\ Alone(w) =>
    \A i \in sweepItems[w] :
      LET c == FileAt(SourceOf(i)[1], i.file)
      IN mappings[<<i.file, i.name>>].verdict =
           IF SourceOf(i)[1] # "nowhere" /\ Parses(c) /\ i.name \in NamesIn(c)
              /\ <<c, i.name>> \in Ships
           THEN "SHIP" ELSE "REVIEW"

(* A row is never lost, whatever fails.                                    *)
RowsAreKept ==
  [][/\ Recorded(mappings) \subseteq Recorded(mappings')
     /\ Recorded(reports) \subseteq Recorded(reports')]_vars

(* A batch and a sweep end, although what they read changes under them.    *)
JobsEnd ==
  /\ \A b \in Batches : batchAt[b] = "next" ~> batchAt[b] = "done"
  /\ \A w \in Sweeps : sweepAt[w] = "next" ~> sweepAt[w] \in {"done", "error"}

(* The account of the estate: what is uploaded or packed is settled once,  *)
(* and no row of the store goes missing.                                   *)
NothingIsLost == BatchKeepsLedger /\ PackKeepsLedger /\ RowsAreKept

=============================================================================
