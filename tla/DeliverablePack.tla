---------------------------- MODULE DeliverablePack ----------------------------
(***************************************************************************)
(* The engagement hand-over (src/pentaho_migration/estate.py,              *)
(* build_deliverable_pack): every stored mapping and report converted      *)
(* again from its source into one zip, each artifact beside its consultant *)
(* report, and a manifest of what is inside and what failed.               *)
(***************************************************************************)
EXTENDS ProjectStore

CONSTANTS
  Packs,      (* the pack jobs of a run of the server                      *)
  Bases,      (* paths inside a zip, without the extension                 *)
  EtlBase,    (* etl/<file stem>/<mapping>, both made safe                 *)
  ReportBase  (* reports/<report name>, made safe                          *)

ASSUME BasesAssumption ==
  /\ EtlBase \in [Keys -> Bases]
  /\ ReportBase \in [Contents -> Bases]

VARIABLES
  packAt,       (* where each pack is                                      *)
  packItems,    (* the records it has listed                               *)
  packing,      (* the record it is writing entries for                    *)
  cache,        (* by_source: the export parsed, by source                 *)
  artifact,     (* the entry base.ktr or base.prpt                         *)
  document,     (* the entries base.consultant.html, ...                   *)
  packed,       (* the records counted as packed                           *)
  packFailures  (* the records listed under failures                       *)

packVars == <<packAt, packItems, packing, cache, artifact, document, packed, packFailures>>

Sources   == Places \X Files
PackItems == [kind : {"etl", "report"}, file : Files, name : Names \cup {Nothing},
              place : Places]

(* Who wrote an entry, and from what.                                      *)
Entries == [item : PackItems, source : Sources, content : Contents]

PackInit ==
  /\ packAt = [p \in Packs |-> "idle"]
  /\ packItems = [p \in Packs |-> {}]
  /\ packing = [p \in Packs |-> {}]
  /\ cache = [p \in Packs |-> [s \in Sources |-> Nothing]]
  /\ artifact = [p \in Packs |-> [b \in Bases |-> {}]]
  /\ document = [p \in Packs |-> [b \in Bases |-> {}]]
  /\ packed = [p \in Packs |-> {}]
  /\ packFailures = [p \in Packs |-> {}]

(* 404 when the store is empty.  The job lists both tables again for its   *)
(* totals, which repairs nothing that ListPackMappings would not.          *)
StartPack(p) ==
  /\ packAt[p] = "idle"
  /\ Recorded(mappings) # {} \/ Recorded(reports) # {}
  /\ ListMappings
  /\ ListReports
  /\ packAt' = [packAt EXCEPT ![p] = "start"]
  /\ UNCHANGED <<estate, packItems, packing, cache, artifact, document, packed,
                 packFailures>>

MappingItems ==
  {[kind |-> "etl", file |-> k[1], name |-> k[2], place |-> RepairedMappings[k].place] :
     k \in Recorded(mappings)}

ReportItems ==
  {[kind |-> "report", file |-> f, name |-> Nothing, place |-> RepairedReports[f].place] :
     f \in Recorded(reports)}

ListPackMappings(p) ==
  /\ packAt[p] = "start"
  /\ ListMappings
  /\ packItems' = [packItems EXCEPT ![p] = MappingItems]
  /\ packAt' = [packAt EXCEPT ![p] = "etl"]
  /\ UNCHANGED <<estate, reports, packing, cache, artifact, document, packed, packFailures>>

Unpacked(p) == packItems[p] \ (packed[p] \cup packFailures[p])

(* The loop is at its head, and i is a record it may take next.            *)
Takes(p, i, where) ==
  /\ packAt[p] = where
  /\ packing[p] = {}
  /\ i \in Unpacked(p)

Fails(p, i) ==
  /\ packFailures' = [packFailures EXCEPT ![p] = @ \cup {i}]
  /\ packing' = [packing EXCEPT ![p] = {}]

(* Mutant of MissingExport: continue without a word.                       *)
MissingExportDropped(p, i) ==
  /\ Takes(p, i, "etl")
  /\ Resolve(i.place, i.file) = "nowhere"
  /\ packItems' = [packItems EXCEPT ![p] = @ \ {i}]
  /\ UNCHANGED <<storeVars, packAt, packing, cache, artifact, document, packed,
                 packFailures>>

MissingExport(p, i) ==
  /\ Takes(p, i, "etl")
  /\ Resolve(i.place, i.file) = "nowhere"
  /\ Fails(p, i)
  /\ UNCHANGED <<storeVars, packAt, packItems, cache, artifact, document, packed>>

Source(i) == <<Resolve(i.place, i.file), i.file>>

(* Mutant of Export: every record parses its source again.                 *)
ExportUncached(p, s) == FileAt(s[1], s[2])

(* The export a record is looked up in: read once per source and pack.     *)
Export(p, s) == IF cache[p][s] # Nothing THEN cache[p][s] ELSE FileAt(s[1], s[2])

HasExport(p, i) ==
  /\ Source(i)[1] \in Places
  /\ Parses(Export(p, Source(i)))

Remember(p, i) ==
  cache' = [cache EXCEPT ![p][Source(i)] = Export(p, Source(i))]

AbsentMapping(p, i) ==
  /\ Takes(p, i, "etl")
  /\ HasExport(p, i)
  /\ i.name \notin NamesIn(Export(p, Source(i)))
  /\ Remember(p, i)
  /\ Fails(p, i)
  /\ UNCHANGED <<storeVars, packAt, packItems, artifact, document, packed>>

(* Parsing, generating or reviewing raises before any entry is written: an *)
(* export that does not parse always does.  It is remembered once parsed.  *)
ConvertAgainFails(p, i) ==
  /\ Takes(p, i, "etl")
  /\ Resolve(i.place, i.file) # "nowhere"
  /\ UNCHANGED cache \/ (HasExport(p, i) /\ Remember(p, i))
  /\ Fails(p, i)
  /\ UNCHANGED <<storeVars, packAt, packItems, artifact, document, packed>>

(* Mutant of Base: the mapping's name left out of the path.                *)
BaseWithoutMapping(i, c) ==
  IF i.kind = "etl" THEN EtlBase[<<i.file, CHOOSE n \in Names : TRUE>>] ELSE ReportBase[c]

Base(i, c) == IF i.kind = "etl" THEN EtlBase[<<i.file, i.name>>] ELSE ReportBase[c]

(* The first writestr of a record.                                         *)
WriteArtifact(p, i, s, c) ==
  LET entry == [item |-> i, source |-> s, content |-> c]
  IN /\ artifact' = [artifact EXCEPT ![p][Base(i, c)] = {entry}]
     /\ packing' = [packing EXCEPT ![p] = {entry}]

WriteKtr(p, i) ==
  /\ Takes(p, i, "etl")
  /\ HasExport(p, i)
  /\ i.name \in NamesIn(Export(p, Source(i)))
  /\ Remember(p, i)
  /\ WriteArtifact(p, i, Source(i), Export(p, Source(i)))
  /\ UNCHANGED <<storeVars, packAt, packItems, document, packed, packFailures>>

(* The other writestrs, and the record counts as packed.                   *)
WriteDocuments(p) ==
  \E e \in packing[p] :
    /\ document' = [document EXCEPT ![p][Base(e.item, e.content)] = {e}]
    /\ packed' = [packed EXCEPT ![p] = @ \cup {e.item}]
    /\ packing' = [packing EXCEPT ![p] = {}]
    /\ UNCHANGED <<storeVars, packAt, packItems, cache, artifact, packFailures>>

(* Building a document raises: the artifact is in the zip already.         *)
DocumentsFail(p) ==
  \E e \in packing[p] :
    /\ Fails(p, e.item)
    /\ UNCHANGED <<storeVars, packAt, packItems, cache, artifact, document, packed>>

ListPackReports(p) ==
  /\ packAt[p] = "etl"
  /\ Unpacked(p) = {}
  /\ ListReports
  /\ packItems' = [packItems EXCEPT ![p] = @ \cup ReportItems]
  /\ packAt' = [packAt EXCEPT ![p] = "reports"]
  /\ UNCHANGED <<estate, mappings, packing, cache, artifact, document, packed, packFailures>>

MissingDump(p, i) ==
  /\ Takes(p, i, "reports")
  /\ FileAt(i.place, i.file) = Nothing
  /\ Fails(p, i)
  /\ UNCHANGED <<storeVars, packAt, packItems, cache, artifact, document, packed>>

LoadAgainFails(p, i) ==
  /\ Takes(p, i, "reports")
  /\ FileAt(i.place, i.file) # Nothing
  /\ Fails(p, i)
  /\ UNCHANGED <<storeVars, packAt, packItems, cache, artifact, document, packed>>

WritePrpt(p, i) ==
  LET c == FileAt(i.place, i.file)
  IN /\ Takes(p, i, "reports")
     /\ c \in Contents /\ Kind[c] = "report"
     /\ WriteArtifact(p, i, <<i.place, i.file>>, c)
     /\ UNCHANGED <<storeVars, packAt, packItems, cache, document, packed, packFailures>>

(* The portfolio reports (which may fail unheard), the manifest, the end.  *)
ClosePack(p) ==
  /\ packAt[p] = "reports"
  /\ Unpacked(p) = {}
  /\ packAt' = [packAt EXCEPT ![p] = "done"]
  /\ UNCHANGED <<storeVars, packItems, packing, cache, artifact, document, packed,
                 packFailures>>

PackStep(p) ==
  \/ ListPackMappings(p) \/ ListPackReports(p) \/ ClosePack(p)
  \/ WriteDocuments(p) \/ DocumentsFail(p)
  \/ \E i \in packItems[p] :
       \/ MissingExport(p, i) \/ AbsentMapping(p, i) \/ ConvertAgainFails(p, i)
       \/ WriteKtr(p, i)
       \/ MissingDump(p, i) \/ LoadAgainFails(p, i)
       \/ WritePrpt(p, i)

PackTypeOK ==
  /\ packAt \in [Packs -> {"idle", "start", "etl", "reports", "done"}]
  /\ packItems \in [Packs -> SUBSET PackItems]
  /\ packing \in [Packs -> SUBSET Entries]
  /\ cache \in [Packs -> [Sources -> Contents \cup {Nothing}]]
  /\ artifact \in [Packs -> [Bases -> SUBSET Entries]]
  /\ document \in [Packs -> [Bases -> SUBSET Entries]]
  /\ packed \in [Packs -> SUBSET PackItems]
  /\ packFailures \in [Packs -> SUBSET PackItems]

=============================================================================
