----------------------------- MODULE EstateProofs -----------------------------
(***************************************************************************)
(* What Estate guarantees for any number of batches, packs, sweeps and     *)
(* listings over any files, contents and mappings, proved.                 *)
(***************************************************************************)
EXTENDS Estate, TLAPS

USE DEF vars, storeVars, batchVars, packVars, sweepVars, pageVars

-----------------------------------------------------------------------------
(* The transactions of the store keep its type and never empty a row.      *)

LEMMA RepairKeepsRow ==
  ASSUME NEW row \in Rows, NEW f \in Files
  PROVE  /\ Repair(row, f) \in Rows
         /\ Repair(row, f).content = row.content
         /\ Repair(row, f).place \in Places
  BY DEF Repair, Rows, Places

LEMMA ListMappingsKeeps ==
  ASSUME StoreTypeOK, ListMappings
  PROVE  /\ mappings' \in [Keys -> Rows]
         /\ Recorded(mappings') = Recorded(mappings)
<1>1. \A k \in Keys : mappings[k] \in Rows /\ k[1] \in Files
  BY DEF StoreTypeOK, Keys
<1>2. \A k \in Keys : /\ Repair(mappings[k], k[1]) \in Rows
                      /\ Repair(mappings[k], k[1]).content = mappings[k].content
  BY <1>1, RepairKeepsRow
<1>3. QED BY <1>2 DEF StoreTypeOK, ListMappings, RepairedMappings, Recorded

LEMMA ListReportsKeeps ==
  ASSUME StoreTypeOK, ListReports
  PROVE  /\ reports' \in [Files -> Rows]
         /\ Recorded(reports') = Recorded(reports)
<1>1. \A f \in Files : /\ Repair(reports[f], f) \in Rows
                       /\ Repair(reports[f], f).content = reports[f].content
  BY RepairKeepsRow DEF StoreTypeOK
<1>2. QED BY <1>1 DEF StoreTypeOK, ListReports, RepairedReports, Recorded

LEMMA RecordMappingKeeps ==
  ASSUME StoreTypeOK, NEW f \in Files, NEW n \in Names, NEW c \in Contents,
         RecordMapping(f, n, c)
  PROVE  /\ mappings' \in [Keys -> Rows]
         /\ Recorded(mappings') = Recorded(mappings) \cup {<<f, n>>}
<1>1. <<f, n>> \in Keys
  BY DEF Keys
<1>2. c # Nothing
  BY ContentsAssumption
<1>3. mappings[<<f, n>>].verdict \in Verdicts
  BY <1>1 DEF StoreTypeOK, Rows
<1>4. QED BY <1>1, <1>2, <1>3 DEF StoreTypeOK, RecordMapping, Recorded, Rows, Places

LEMMA RecordReportKeeps ==
  ASSUME StoreTypeOK, NEW f \in Files, NEW c \in Contents, RecordReport(f, c)
  PROVE  /\ reports' \in [Files -> Rows]
         /\ Recorded(reports') = Recorded(reports) \cup {f}
<1>1. c # Nothing
  BY ContentsAssumption
<1>2. reports[f].verdict \in Verdicts
  BY DEF StoreTypeOK, Rows
<1>3. QED BY <1>1, <1>2 DEF StoreTypeOK, RecordReport, Recorded, Rows, Places

LEMMA SetMappingReviewKeeps ==
  ASSUME StoreTypeOK, NEW k \in Keys, NEW v \in Verdicts, SetMappingReview(k, v)
  PROVE  /\ mappings' \in [Keys -> Rows]
         /\ Recorded(mappings') = Recorded(mappings)
<1>1. CASE mappings[k].content = Nothing
  BY <1>1 DEF StoreTypeOK, SetMappingReview
<1>2. CASE mappings[k].content # Nothing
  <2>1. mappings' = [mappings EXCEPT ![k] = [mappings[k] EXCEPT !.verdict = v]]
    BY <1>2 DEF SetMappingReview, StoreTypeOK
  <2>2. [mappings[k] EXCEPT !.verdict = v] \in Rows
    BY DEF StoreTypeOK, Rows
  <2>3. [mappings[k] EXCEPT !.verdict = v].content = mappings[k].content
    BY DEF StoreTypeOK, Rows
  <2>4. QED BY <2>1, <2>2, <2>3 DEF StoreTypeOK, Recorded
<1>3. QED BY <1>1, <1>2

LEMMA HealMappingKeeps ==
  ASSUME StoreTypeOK, PageTypeOK, HealMapping
  PROVE  /\ mappings' \in [Keys -> Rows]
         /\ Recorded(mappings') = Recorded(mappings)
<1>1. PICK k \in staleMappings : mappings' = [mappings EXCEPT ![k].place = "samples"]
  BY DEF HealMapping
<1>2. k \in Keys
  BY DEF PageTypeOK
<1>3. mappings' = [mappings EXCEPT ![k] = [mappings[k] EXCEPT !.place = "samples"]]
  BY <1>1, <1>2 DEF StoreTypeOK
<1>4. /\ [mappings[k] EXCEPT !.place = "samples"] \in Rows
      /\ [mappings[k] EXCEPT !.place = "samples"].content = mappings[k].content
  BY <1>2 DEF StoreTypeOK, Rows, Places
<1>5. QED BY <1>2, <1>3, <1>4 DEF StoreTypeOK, Recorded

LEMMA HealReportKeeps ==
  ASSUME StoreTypeOK, PageTypeOK, HealReport
  PROVE  /\ reports' \in [Files -> Rows]
         /\ Recorded(reports') = Recorded(reports)
<1>1. PICK f \in staleReports : reports' = [reports EXCEPT ![f].place = "samples"]
  BY DEF HealReport
<1>2. f \in Files
  BY DEF PageTypeOK
<1>3. reports' = [reports EXCEPT ![f] = [reports[f] EXCEPT !.place = "samples"]]
  BY <1>1, <1>2 DEF StoreTypeOK
<1>4. /\ [reports[f] EXCEPT !.place = "samples"] \in Rows
      /\ [reports[f] EXCEPT !.place = "samples"].content = reports[f].content
  BY <1>2 DEF StoreTypeOK, Rows, Places
<1>5. QED BY <1>2, <1>3, <1>4 DEF StoreTypeOK, Recorded

-----------------------------------------------------------------------------
(* Where a batch is, and which uploads it has settled.                     *)

BatchPlaces ==
  \A b \in Batches :
    /\ batchAt[b] \in {"write", "convert", "record"} => turn[b] \in Turns(b)
    /\ batchAt[b] = "record" => Parsed(b) \in Contents
    /\ batchAt[b] = "idle" => turn[b] = 1
    /\ batchAt[b] \in {"reportRows", "done"} => turn[b] \notin Turns(b)

(* The uploads behind a batch are those with an outcome.                   *)
Settled ==
  \A b \in Batches : converted[b] \cup failed[b] \cup skipped[b] = 1..(turn[b] - 1)

BatchInv == BatchTypeOK /\ BatchPlaces /\ Settled

LEMMA TurnsOf ==
  ASSUME NEW b \in Batches
  PROVE  /\ Len(Uploads[b]) \in Nat
         /\ Turns(b) = 1..Len(Uploads[b])
         /\ \A t \in Turns(b) : /\ Uploads[b][t].file \in Files
                                /\ Uploads[b][t].content \in Contents
<1> DEFINE Given == [file : Files, content : Contents]
<1>1. Uploads[b] \in Seq(Given)
  BY UploadsAssumption
<1> HIDE DEF Given
<1>2. /\ Len(Uploads[b]) \in Nat
      /\ DOMAIN Uploads[b] = 1..Len(Uploads[b])
      /\ \A t \in 1..Len(Uploads[b]) : Uploads[b][t] \in Given
  BY <1>1
<1>3. QED BY <1>2 DEF Turns, Given

LEMMA AttemptsOf ==
  ASSUME NEW b \in Batches, NEW t \in Turns(b)
  PROVE  <<b, t>> \in Attempts
BY DEF Attempts

LEMMA PipelinesOf ==
  ASSUME NEW c \in Contents
  PROVE  /\ Pipelines[c] \in Seq(Names)
         /\ Len(Pipelines[c]) \in Nat
<1>1. Pipelines[c] \in Seq(Names)
  BY ContentsAssumption
<1>2. QED BY <1>1

LEMMA BatchInit_Inv == BatchInit => BatchInv
<1> SUFFICES ASSUME BatchInit PROVE BatchInv
  OBVIOUS
<1>1. \A b \in Batches : Len(Uploads[b]) \in Nat
  BY TurnsOf
<1>2. << >> \in Seq(Names)
  OBVIOUS
<1>3. BatchTypeOK
  BY <1>1, <1>2 DEF BatchInit, BatchTypeOK
<1>4. BatchPlaces /\ Settled
  BY DEF BatchInit, BatchPlaces, Settled
<1>5. QED BY <1>3, <1>4 DEF BatchInv

(* An upload is settled: the lists grow by the turn, the turn by one.      *)
LEMMA ProceedKeeps ==
  ASSUME BatchInv, NEW b \in Batches, turn[b] \in Turns(b), Proceed(b),
         batchAt[b] \in {"next", "write", "convert", "record"},
         converted' \in [Batches -> SUBSET Nat],
         failed' \in [Batches -> SUBSET Nat],
         skipped' \in [Batches -> SUBSET Nat],
         etlMappings' \in [Batches -> Nat],
         \A x \in Batches \ {b} : /\ converted'[x] = converted[x]
                                  /\ failed'[x] = failed[x]
                                  /\ skipped'[x] = skipped[x],
         converted'[b] \cup failed'[b] \cup skipped'[b]
           = converted[b] \cup failed[b] \cup skipped[b] \cup {turn[b]}
  PROVE  BatchInv'
<1>1. /\ batchAt \in [Batches -> {"idle", "next", "write", "convert", "record",
                                  "reportRows", "done"}]
      /\ turn \in [Batches -> Nat]
      /\ \A x \in Batches : turn[x] \in 1..(Len(Uploads[x]) + 1)
      /\ parsed \in [Attempts -> Contents \cup {Nothing}]
      /\ unrecorded \in [Batches -> Seq(Names)]
  BY DEF BatchInv, BatchTypeOK
<1>2. /\ batchAt' = [batchAt EXCEPT ![b] = "next"]
      /\ turn' = [turn EXCEPT ![b] = turn[b] + 1]
      /\ parsed' = parsed
      /\ unrecorded' = [unrecorded EXCEPT ![b] = << >>]
  BY <1>1 DEF Proceed
<1>3. turn[b] \in 1..Len(Uploads[b]) /\ Len(Uploads[b]) \in Nat
  BY TurnsOf
<1>4. << >> \in Seq(Names)
  OBVIOUS
<1>5. BatchTypeOK'
  <2>1. \A x \in Batches : turn'[x] \in 1..(Len(Uploads[x]) + 1)
    BY <1>1, <1>2, <1>3
  <2>2. unrecorded' \in [Batches -> Seq(Names)]
    BY <1>1, <1>2, <1>4
  <2>3. batchAt' \in [Batches -> {"idle", "next", "write", "convert", "record",
                                  "reportRows", "done"}]
    BY <1>1, <1>2
  <2>4. turn' \in [Batches -> Nat] /\ parsed' \in [Attempts -> Contents \cup {Nothing}]
    BY <1>1, <1>2
  <2>5. QED BY <2>1, <2>2, <2>3, <2>4 DEF BatchTypeOK
<1>6. BatchPlaces'
  BY <1>1, <1>2 DEF BatchInv, BatchPlaces, Turns, Parsed
<1>7. Settled'
  <2>1. ASSUME NEW x \in Batches
        PROVE  converted'[x] \cup failed'[x] \cup skipped'[x] = 1..(turn'[x] - 1)
    <3>1. converted[x] \cup failed[x] \cup skipped[x] = 1..(turn[x] - 1)
      BY DEF BatchInv, Settled
    <3>2. CASE x = b
      <4>1. turn'[b] - 1 = turn[b] /\ turn[b] \in Nat \ {0}
        BY <1>1, <1>2, <1>3
      <4>2. 1..turn[b] = 1..(turn[b] - 1) \cup {turn[b]}
        BY <4>1
      <4>3. converted'[b] \cup failed'[b] \cup skipped'[b] = 1..(turn[b] - 1) \cup {turn[b]}
        BY <3>1, <3>2
      <4>4. QED BY <3>2, <4>1, <4>2, <4>3
    <3>3. CASE x # b
      <4>1. turn'[x] = turn[x]
        BY <1>1, <1>2, <3>3
      <4>2. QED BY <3>1, <3>3, <4>1
    <3>4. QED BY <3>2, <3>3
  <2>2. QED BY <2>1 DEF Settled
<1>8. QED BY <1>5, <1>6, <1>7 DEF BatchInv

(* A step within an upload, or out of the loop.                            *)
LEMMA MoveKeeps ==
  ASSUME BatchInv, NEW b \in Batches,
         NEW to \in {"next", "write", "convert", "reportRows", "done"},
         batchAt' = [batchAt EXCEPT ![b] = to],
         UNCHANGED <<turn, parsed, unrecorded, converted, failed, skipped, etlMappings>>,
         to \in {"write", "convert"} => turn[b] \in Turns(b),
         to \in {"reportRows", "done"} => turn[b] \notin Turns(b)
  PROVE  BatchInv'
<1>1. BatchTypeOK'
  BY DEF BatchInv, BatchTypeOK
<1>2. BatchPlaces'
  BY DEF BatchInv, BatchTypeOK, BatchPlaces, Turns, Parsed
<1>3. Settled'
  BY DEF BatchInv, Settled
<1>4. QED BY <1>1, <1>2, <1>3 DEF BatchInv

LEMMA SourceTyped ==
  ASSUME StoreTypeOK, NEW f \in Files, NEW c \in Contents \cup {Nothing, Torn},
         estate' = [estate EXCEPT ![f] = c]
  PROVE  estate' \in [Files -> Contents \cup {Nothing, Torn}]
  BY DEF StoreTypeOK

(* What a step may do to the rows: it keeps their type, and loses none.    *)
StoreKept ==
  /\ StoreTypeOK'
  /\ Recorded(mappings) \subseteq Recorded(mappings')
  /\ Recorded(reports) \subseteq Recorded(reports')

LEMMA UnchangedKept ==
  ASSUME StoreTypeOK, UNCHANGED storeVars
  PROVE  StoreKept
  BY DEF StoreTypeOK, StoreKept, Recorded

LEMMA BatchStepKeeps ==
  ASSUME BatchInv, StoreTypeOK, NEW b \in Batches, BatchStep(b)
  PROVE  BatchInv' /\ StoreKept
<1>1. /\ batchAt \in [Batches -> {"idle", "next", "write", "convert", "record",
                                  "reportRows", "done"}]
      /\ turn \in [Batches -> Nat]
      /\ parsed \in [Attempts -> Contents \cup {Nothing}]
      /\ unrecorded \in [Batches -> Seq(Names)]
      /\ converted \in [Batches -> SUBSET Nat]
      /\ failed \in [Batches -> SUBSET Nat]
      /\ skipped \in [Batches -> SUBSET Nat]
      /\ etlMappings \in [Batches -> Nat]
  BY DEF BatchInv, BatchTypeOK
<1>2. /\ batchAt[b] \in {"write", "convert", "record"} => turn[b] \in Turns(b)
      /\ batchAt[b] = "record" => Parsed(b) \in Contents
      /\ batchAt[b] \in {"reportRows", "done"} => turn[b] \notin Turns(b)
  BY DEF BatchInv, BatchPlaces
<1>3. turn[b] \in Turns(b) => Upload(b).file \in Files /\ Upload(b).content \in Contents
  BY TurnsOf DEF Upload
<1>4. CASE SkipUpload(b)
  <2>1. /\ turn[b] \in Turns(b) /\ turn[b] \in Nat
        /\ batchAt[b] \in {"next", "write", "convert", "record"}
        /\ Proceed(b)
        /\ skipped' = [skipped EXCEPT ![b] = skipped[b] \cup {turn[b]}]
        /\ UNCHANGED <<converted, failed, etlMappings>>
    BY <1>1, <1>2, <1>4 DEF SkipUpload
  <2>2. /\ skipped' \in [Batches -> SUBSET Nat]
        /\ skipped'[b] = skipped[b] \cup {turn[b]}
        /\ \A x \in Batches \ {b} : skipped'[x] = skipped[x]
    BY <1>1, <2>1
  <2>3. BatchInv'
    BY <1>1, <2>1, <2>2, ProceedKeeps
  <2>4. QED BY <1>4, <2>3, UnchangedKept DEF SkipUpload
<1>5. CASE OpenSource(b)
  <2>1. BatchInv'
    BY <1>5, MoveKeeps DEF OpenSource
  <2>2. estate' \in [Files -> Contents \cup {Nothing, Torn}]
    BY <1>3, <1>5, SourceTyped DEF OpenSource
  <2>3. QED BY <1>5, <2>1, <2>2 DEF OpenSource, StoreKept, StoreTypeOK, Recorded
<1>6. CASE WriteSource(b)
  <2>1. BatchInv'
    BY <1>2, <1>6, MoveKeeps DEF WriteSource
  <2>2. PICK c \in Contents \cup {Torn} : estate' = [estate EXCEPT ![Upload(b).file] = c]
    BY <1>2, <1>3, <1>6 DEF WriteSource
  <2>3. estate' \in [Files -> Contents \cup {Nothing, Torn}]
    BY <1>2, <1>3, <1>6, <2>2, SourceTyped DEF WriteSource
  <2>4. QED BY <1>6, <2>1, <2>3 DEF WriteSource, StoreKept, StoreTypeOK, Recorded
<1>7. CASE ParseExport(b)
  <2> DEFINE c == estate[Upload(b).file]
  <2>1. c \in Contents
    BY <1>7 DEF ParseExport, Parses
  <2>2. Pipelines[c] \in Seq(Names)
    BY <2>1, PipelinesOf
  <2>3. turn[b] \in Turns(b)
    BY <1>2, <1>7 DEF ParseExport
  <2>4. /\ batchAt' = [batchAt EXCEPT ![b] = "record"]
        /\ parsed' = [parsed EXCEPT ![<<b, turn[b]>>] = c]
        /\ unrecorded' = [unrecorded EXCEPT ![b] = Pipelines[c]]
        /\ UNCHANGED <<turn, converted, failed, skipped, etlMappings, storeVars>>
    BY <1>7 DEF ParseExport
  <2> HIDE DEF c
  <2>5. BatchTypeOK'
    BY <2>1, <2>2, <2>4 DEF BatchInv, BatchTypeOK
  <2>6. BatchPlaces'
    <3>1. ASSUME NEW x \in Batches, batchAt'[x] = "record" PROVE Parsed(x)' \in Contents
      <4>1. turn[x] \in Turns(x) /\ <<x, turn[x]>> \in Attempts
        BY <1>1, <2>3, <2>4, <3>1, AttemptsOf DEF BatchInv, BatchPlaces
      <4>2. x # b => Parsed(x) \in Contents
        BY <1>1, <2>4, <3>1 DEF BatchInv, BatchPlaces
      <4>3. QED BY <1>1, <2>1, <2>4, <4>1, <4>2 DEF Parsed
    <3>2. QED BY <1>1, <2>3, <2>4, <3>1 DEF BatchInv, BatchPlaces, Turns
  <2>7. Settled'
    BY <2>4 DEF BatchInv, Settled
  <2>8. QED BY <2>4, <2>5, <2>6, <2>7, UnchangedKept DEF BatchInv
<1>8. CASE RecordNext(b)
  <2>1. /\ turn[b] \in Turns(b)
        /\ Parsed(b) \in Contents
        /\ unrecorded[b] \in Seq(Names) /\ unrecorded[b] # << >>
    BY <1>1, <1>2, <1>8 DEF RecordNext
  <2>2. Head(unrecorded[b]) \in Names /\ Tail(unrecorded[b]) \in Seq(Names)
    BY <2>1
  <2>3. /\ unrecorded' = [unrecorded EXCEPT ![b] = Tail(unrecorded[b])]
        /\ UNCHANGED <<batchAt, turn, parsed, converted, failed, skipped, etlMappings>>
        /\ UNCHANGED <<estate, reports>>
        /\ RecordMapping(Upload(b).file, Head(unrecorded[b]), Parsed(b))
    BY <1>8 DEF RecordNext
  <2>4. BatchTypeOK'
    BY <1>1, <2>2, <2>3 DEF BatchInv, BatchTypeOK
  <2>5. BatchPlaces' /\ Settled'
    BY <2>3 DEF BatchInv, BatchPlaces, Settled, Turns, Parsed
  <2>6. /\ mappings' \in [Keys -> Rows]
        /\ Recorded(mappings) \subseteq Recorded(mappings')
    BY <1>3, <2>1, <2>2, <2>3, RecordMappingKeeps
  <2>7. StoreKept
    BY <2>3, <2>6 DEF StoreKept, StoreTypeOK, Recorded
  <2>8. QED BY <2>4, <2>5, <2>7 DEF BatchInv
<1>9. CASE ExportConverted(b)
  <2>1. turn[b] \in Turns(b) /\ Parsed(b) \in Contents
    BY <1>2, <1>9 DEF ExportConverted
  <2>2. Len(Pipelines[Parsed(b)]) \in Nat
    BY <2>1, PipelinesOf
  <2>3. etlMappings' \in [Batches -> Nat]
    BY <1>1, <1>9, <2>2 DEF ExportConverted
  <2>4. BatchInv'
    BY <1>1, <1>9, <2>1, <2>3, ProceedKeeps DEF ExportConverted
  <2>5. QED BY <1>9, <2>4, UnchangedKept DEF ExportConverted
<1>10. CASE ConvertReport(b)
  <2>1. /\ turn[b] \in Turns(b) /\ turn[b] \in Nat
        /\ batchAt[b] \in {"next", "write", "convert", "record"}
        /\ Proceed(b)
        /\ converted' = [converted EXCEPT ![b] = converted[b] \cup {turn[b]}]
        /\ UNCHANGED <<failed, skipped, etlMappings>>
    BY <1>1, <1>2, <1>10 DEF ConvertReport
  <2>2. /\ converted' \in [Batches -> SUBSET Nat]
        /\ converted'[b] = converted[b] \cup {turn[b]}
        /\ \A x \in Batches \ {b} : converted'[x] = converted[x]
    BY <1>1, <2>1
  <2>3. BatchInv'
    BY <1>1, <2>1, <2>2, ProceedKeeps
  <2>4. /\ reports' \in [Files -> Rows]
        /\ Recorded(reports) \subseteq Recorded(reports')
    BY <1>3, <1>10, <2>1, RecordReportKeeps DEF ConvertReport
  <2>5. QED BY <1>10, <2>3, <2>4 DEF ConvertReport, StoreKept, StoreTypeOK, Recorded
<1>11. CASE ConvertFails(b)
  <2>1. /\ turn[b] \in Turns(b) /\ turn[b] \in Nat
        /\ batchAt[b] \in {"next", "write", "convert", "record"}
        /\ Proceed(b)
        /\ failed' = [failed EXCEPT ![b] = failed[b] \cup {turn[b]}]
        /\ UNCHANGED <<converted, skipped, etlMappings>>
    BY <1>1, <1>2, <1>11 DEF ConvertFails
  <2>2. /\ failed' \in [Batches -> SUBSET Nat]
        /\ failed'[b] = failed[b] \cup {turn[b]}
        /\ \A x \in Batches \ {b} : failed'[x] = failed[x]
    BY <1>1, <2>1
  <2>3. BatchInv'
    BY <1>1, <2>1, <2>2, ProceedKeeps
  <2>4. QED BY <1>11, <2>3, UnchangedKept DEF ConvertFails
<1>12. CASE SummariseMappings(b)
  <2>1. BatchInv'
    BY <1>12, MoveKeeps DEF SummariseMappings
  <2>2. QED
    BY <1>12, <2>1, ListMappingsKeeps
    DEF SummariseMappings, StoreKept, StoreTypeOK, Recorded
<1>13. CASE SummariseReports(b)
  <2>1. BatchInv'
    BY <1>2, <1>13, MoveKeeps DEF SummariseReports
  <2>2. QED
    BY <1>13, <2>1, ListReportsKeeps
    DEF SummariseReports, StoreKept, StoreTypeOK, Recorded
<1>14. CASE SummaryFails(b)
  <2>1. BatchInv'
    BY <1>2, <1>14, MoveKeeps DEF SummaryFails
  <2>2. QED BY <1>14, <2>1, UnchangedKept DEF SummaryFails
<1>15. QED
  BY <1>4, <1>5, <1>6, <1>7, <1>8, <1>9, <1>10, <1>11, <1>12, <1>13, <1>14 DEF BatchStep

-----------------------------------------------------------------------------
(* Where a pack is, what it still owes, and what it took from the cache.   *)

PackPlaces ==
  \A p \in Packs :
    /\ packed[p] \cup packFailures[p] \subseteq packItems[p]
    /\ packAt[p] \in {"idle", "start"} => packItems[p] = {} /\ packing[p] = {}
    /\ packAt[p] = "etl" => \A i \in packItems[p] : i.kind = "etl"
    /\ packAt[p] = "reports" => \A i \in Unpacked(p) : i.kind = "report"
    /\ packAt[p] = "done" => Unpacked(p) = {}
    /\ \A e \in packing[p] : e.item \in Unpacked(p)

TakenFromCache ==
  \A p \in Packs : \A x \in Bases : \A d \in artifact[p][x] :
    d.item.kind = "etl" => cache[p][d.source] = d.content

PackInv == PackTypeOK /\ PackPlaces /\ TakenFromCache

LEMMA PackInit_Inv == PackInit => PackInv
<1> SUFFICES ASSUME PackInit PROVE PackInv
  OBVIOUS
<1>1. PackTypeOK
  BY DEF PackInit, PackTypeOK
<1>2. PackPlaces
  BY DEF PackInit, PackPlaces, Unpacked
<1>3. TakenFromCache
  BY DEF PackInit, TakenFromCache
<1>4. QED BY <1>1, <1>2, <1>3 DEF PackInv

LEMMA ListedItems ==
  ASSUME StoreTypeOK
  PROVE  /\ MappingItems \subseteq PackItems
         /\ \A i \in MappingItems : i.kind = "etl"
         /\ ReportItems \subseteq PackItems
         /\ \A i \in ReportItems : i.kind = "report"
<1>1. \A k \in Recorded(mappings) :
        k[1] \in Files /\ k[2] \in Names /\ RepairedMappings[k].place \in Places
  <2>1. \A k \in Keys : mappings[k] \in Rows /\ k[1] \in Files /\ k[2] \in Names
    BY DEF StoreTypeOK, Keys
  <2>2. \A k \in Keys : Repair(mappings[k], k[1]).place \in Places
    BY <2>1, RepairKeepsRow
  <2>3. Recorded(mappings) \subseteq Keys
    BY DEF StoreTypeOK, Recorded
  <2>4. QED BY <2>1, <2>2, <2>3 DEF RepairedMappings
<1>2. \A f \in Recorded(reports) : f \in Files /\ RepairedReports[f].place \in Places
  <2>1. \A f \in Files : Repair(reports[f], f).place \in Places
    BY RepairKeepsRow DEF StoreTypeOK
  <2>2. Recorded(reports) \subseteq Files
    BY DEF StoreTypeOK, Recorded
  <2>3. QED BY <2>1, <2>2 DEF RepairedReports
<1>3. MappingItems \subseteq PackItems /\ \A i \in MappingItems : i.kind = "etl"
  BY <1>1 DEF MappingItems, PackItems
<1>4. ReportItems \subseteq PackItems /\ \A i \in ReportItems : i.kind = "report"
  BY <1>2 DEF ReportItems, PackItems
<1>5. QED BY <1>3, <1>4

LEMMA NamesOf ==
  ASSUME NEW c \in Contents
  PROVE  NamesIn(c) \subseteq Names
<1>1. Pipelines[c] \in Seq(Names)
  BY PipelinesOf
<1>2. \A i \in DOMAIN Pipelines[c] : Pipelines[c][i] \in Names
  BY <1>1
<1>3. QED BY <1>2 DEF NamesIn

(* An export remembered is a content, and what was remembered before stays.*)
LEMMA RememberKeeps ==
  ASSUME PackInv, NEW p \in Packs, NEW i \in PackItems, HasExport(p, i), Remember(p, i)
  PROVE  /\ Source(i) \in Sources
         /\ Export(p, Source(i)) \in Contents
         /\ cache' \in [Packs -> [Sources -> Contents \cup {Nothing}]]
         /\ cache'[p][Source(i)] = Export(p, Source(i))
         /\ \A q \in Packs : \A s \in Sources :
              cache[q][s] # Nothing => cache'[q][s] = cache[q][s]
<1>1. Source(i) \in Sources
  BY DEF HasExport, Source, Sources, PackItems
<1>2. Export(p, Source(i)) \in Contents
  BY DEF HasExport, Parses
<1>3. cache \in [Packs -> [Sources -> Contents \cup {Nothing}]]
  BY DEF PackInv, PackTypeOK
<1>4. cache' = [cache EXCEPT ![p] = [cache[p] EXCEPT ![Source(i)] = Export(p, Source(i))]]
  BY <1>3 DEF Remember
<1>5. [cache[p] EXCEPT ![Source(i)] = Export(p, Source(i))]
        \in [Sources -> Contents \cup {Nothing}]
  BY <1>1, <1>2, <1>3
<1>6. cache[p][Source(i)] # Nothing => Export(p, Source(i)) = cache[p][Source(i)]
  BY DEF Export
<1>7. \A s \in Sources : cache[p][s] # Nothing => cache'[p][s] = cache[p][s]
  BY <1>1, <1>3, <1>4, <1>5, <1>6
<1>8. \A q \in Packs \ {p} : cache'[q] = cache[q]
  BY <1>3, <1>4
<1>9. QED BY <1>1, <1>2, <1>3, <1>4, <1>5, <1>7, <1>8

(* A record of a pack fails: it moves to the failures.                     *)
LEMMA FailsKeeps ==
  ASSUME PackInv, NEW p \in Packs, NEW i \in Unpacked(p), Fails(p, i),
         packAt[p] \in {"etl", "reports"},
         UNCHANGED <<packAt, packItems, artifact, document, packed>>,
         cache' \in [Packs -> [Sources -> Contents \cup {Nothing}]],
         \A q \in Packs : \A s \in Sources :
           cache[q][s] # Nothing => cache'[q][s] = cache[q][s]
  PROVE  PackInv'
<1>1. /\ packItems \in [Packs -> SUBSET PackItems]
      /\ packing \in [Packs -> SUBSET Entries]
      /\ packFailures \in [Packs -> SUBSET PackItems]
      /\ artifact \in [Packs -> [Bases -> SUBSET Entries]]
  BY DEF PackInv, PackTypeOK
<1>2. i \in packItems[p] /\ i \in PackItems
  BY <1>1 DEF Unpacked
<1>3. /\ packFailures' = [packFailures EXCEPT ![p] = packFailures[p] \cup {i}]
      /\ packing' = [packing EXCEPT ![p] = {}]
  BY <1>1 DEF Fails
<1>4. PackTypeOK'
  BY <1>1, <1>2, <1>3 DEF PackInv, PackTypeOK
<1>5. PackPlaces'
  BY <1>1, <1>2, <1>3 DEF PackInv, PackPlaces, Unpacked
<1>6. TakenFromCache'
  <2>1. ASSUME NEW q \in Packs, NEW x \in Bases, NEW d \in artifact[q][x],
               d.item.kind = "etl"
        PROVE  cache'[q][d.source] = d.content
    <3>1. cache[q][d.source] = d.content
      BY <2>1 DEF PackInv, TakenFromCache
    <3>2. d.source \in Sources /\ d.content # Nothing
      BY <1>1, <2>1, ContentsAssumption DEF Entries
    <3>3. QED BY <3>1, <3>2
  <2>2. QED BY <2>1 DEF TakenFromCache
<1>7. QED BY <1>4, <1>5, <1>6 DEF PackInv

(* The first entry of a record, taken from the cache if it is a mapping.   *)
LEMMA WriteKeeps ==
  ASSUME PackInv, NEW p \in Packs, NEW i \in Unpacked(p), NEW s \in Sources,
         NEW c \in Contents, NEW x \in Bases,
         packing[p] = {}, packAt[p] \in {"etl", "reports"},
         artifact' = [artifact EXCEPT ![p] =
                       [artifact[p] EXCEPT ![x] = {[item |-> i, source |-> s, content |-> c]}]],
         packing' = [packing EXCEPT ![p] = {[item |-> i, source |-> s, content |-> c]}],
         UNCHANGED <<packAt, packItems, document, packed, packFailures>>,
         cache' \in [Packs -> [Sources -> Contents \cup {Nothing}]],
         \A q \in Packs : \A t \in Sources :
           cache[q][t] # Nothing => cache'[q][t] = cache[q][t],
         i.kind = "etl" => cache'[p][s] = c
  PROVE  PackInv'
<1> DEFINE entry == [item |-> i, source |-> s, content |-> c]
<1>1. /\ packItems \in [Packs -> SUBSET PackItems]
      /\ packing \in [Packs -> SUBSET Entries]
      /\ artifact \in [Packs -> [Bases -> SUBSET Entries]]
  BY DEF PackInv, PackTypeOK
<1>2. i \in packItems[p] /\ i \in PackItems
  BY <1>1 DEF Unpacked
<1>3. entry \in Entries
  BY <1>2 DEF Entries
<1>4. entry.item = i /\ entry.source = s /\ entry.content = c
  OBVIOUS
<1>5. packing' = [packing EXCEPT ![p] = {entry}]
  OBVIOUS
<1>6. artifact' = [artifact EXCEPT ![p] = [artifact[p] EXCEPT ![x] = {entry}]]
  OBVIOUS
<1> HIDE DEF entry
<1>7. PackTypeOK'
  <2>1. packing' \in [Packs -> SUBSET Entries]
    BY <1>1, <1>3, <1>5
  <2>2. [artifact[p] EXCEPT ![x] = {entry}] \in [Bases -> SUBSET Entries]
    BY <1>1, <1>3
  <2>3. artifact' \in [Packs -> [Bases -> SUBSET Entries]]
    BY <1>1, <1>6, <2>2
  <2>4. QED BY <2>1, <2>3 DEF PackInv, PackTypeOK
<1>8. PackPlaces'
  <2>1. \A q \in Packs : \A e \in packing'[q] : e.item \in Unpacked(q)
    BY <1>1, <1>4, <1>5 DEF PackInv, PackPlaces
  <2>2. QED BY <1>1, <1>5, <2>1 DEF PackInv, PackPlaces, Unpacked
<1>9. TakenFromCache'
  <2>1. ASSUME NEW q \in Packs, NEW y \in Bases, NEW d \in artifact'[q][y],
               d.item.kind = "etl"
        PROVE  cache'[q][d.source] = d.content
    <3>1. CASE d \in artifact[q][y]
      <4>1. cache[q][d.source] = d.content
        BY <2>1, <3>1 DEF PackInv, TakenFromCache
      <4>2. d.source \in Sources /\ d.content # Nothing
        BY <1>1, <3>1, ContentsAssumption DEF Entries
      <4>3. QED BY <4>1, <4>2
    <3>2. CASE d \notin artifact[q][y]
      <4>1. q = p /\ d = entry
        BY <1>1, <1>6, <2>1, <3>2
      <4>2. QED BY <1>4, <2>1, <4>1
    <3>3. QED BY <3>1, <3>2
  <2>2. QED BY <2>1 DEF TakenFromCache
<1>10. QED BY <1>7, <1>8, <1>9 DEF PackInv

LEMMA StartPackKeeps ==
  ASSUME PackInv, StoreTypeOK, NEW p \in Packs, StartPack(p)
  PROVE  PackInv' /\ StoreKept
<1>1. packAt' = [packAt EXCEPT ![p] = "start"] /\ packAt[p] = "idle"
  BY DEF StartPack
<1>2. PackTypeOK'
  BY <1>1 DEF StartPack, PackInv, PackTypeOK
<1>3. PackPlaces'
  BY <1>1 DEF StartPack, PackInv, PackTypeOK, PackPlaces, Unpacked
<1>4. TakenFromCache'
  BY DEF StartPack, PackInv, TakenFromCache
<1>5. StoreKept
  BY ListMappingsKeeps, ListReportsKeeps DEF StartPack, StoreKept, StoreTypeOK, Recorded
<1>6. QED BY <1>2, <1>3, <1>4, <1>5 DEF PackInv

LEMMA PackStepKeeps ==
  ASSUME PackInv, StoreTypeOK, NEW p \in Packs, PackStep(p)
  PROVE  PackInv' /\ StoreKept
<1>1. /\ packAt \in [Packs -> {"idle", "start", "etl", "reports", "done"}]
      /\ packItems \in [Packs -> SUBSET PackItems]
      /\ packing \in [Packs -> SUBSET Entries]
      /\ cache \in [Packs -> [Sources -> Contents \cup {Nothing}]]
      /\ artifact \in [Packs -> [Bases -> SUBSET Entries]]
      /\ document \in [Packs -> [Bases -> SUBSET Entries]]
      /\ packed \in [Packs -> SUBSET PackItems]
      /\ packFailures \in [Packs -> SUBSET PackItems]
  BY DEF PackInv, PackTypeOK
<1>2. CASE ListPackMappings(p)
  <2>1. /\ packItems' = [packItems EXCEPT ![p] = MappingItems]
        /\ packAt' = [packAt EXCEPT ![p] = "etl"]
        /\ packAt[p] = "start"
        /\ UNCHANGED <<packing, cache, artifact, document, packed, packFailures>>
    BY <1>2 DEF ListPackMappings
  <2>2. packed[p] = {} /\ packFailures[p] = {} /\ packing[p] = {}
    BY <2>1 DEF PackInv, PackPlaces
  <2>3. PackTypeOK'
    BY <1>1, <2>1, ListedItems DEF PackTypeOK
  <2>4. PackPlaces'
    BY <1>1, <2>1, <2>2, ListedItems DEF PackInv, PackPlaces, Unpacked
  <2>5. TakenFromCache'
    BY <2>1 DEF PackInv, TakenFromCache
  <2>6. StoreKept
    BY <1>2, ListMappingsKeeps DEF ListPackMappings, StoreKept, StoreTypeOK, Recorded
  <2>7. QED BY <2>3, <2>4, <2>5, <2>6 DEF PackInv
<1>3. CASE ListPackReports(p)
  <2>1. /\ packItems' = [packItems EXCEPT ![p] = packItems[p] \cup ReportItems]
        /\ packAt' = [packAt EXCEPT ![p] = "reports"]
        /\ packAt[p] = "etl" /\ Unpacked(p) = {}
        /\ UNCHANGED <<packing, cache, artifact, document, packed, packFailures>>
    BY <1>1, <1>3 DEF ListPackReports
  <2>2. packing[p] = {}
    BY <2>1 DEF PackInv, PackPlaces
  <2>3. PackTypeOK'
    BY <1>1, <2>1, ListedItems DEF PackTypeOK
  <2>4. PackPlaces'
    BY <1>1, <2>1, <2>2, ListedItems DEF PackInv, PackPlaces, Unpacked
  <2>5. TakenFromCache'
    BY <2>1 DEF PackInv, TakenFromCache
  <2>6. StoreKept
    BY <1>3, ListReportsKeeps DEF ListPackReports, StoreKept, StoreTypeOK, Recorded
  <2>7. QED BY <2>3, <2>4, <2>5, <2>6 DEF PackInv
<1>4. CASE ClosePack(p)
  <2>1. /\ packAt' = [packAt EXCEPT ![p] = "done"] /\ Unpacked(p) = {}
        /\ UNCHANGED <<packItems, packing, cache, artifact, document, packed,
                       packFailures, storeVars>>
    BY <1>4 DEF ClosePack
  <2>2. PackTypeOK'
    BY <1>1, <2>1 DEF PackTypeOK
  <2>3. PackPlaces'
    BY <1>1, <2>1 DEF PackInv, PackPlaces, Unpacked
  <2>4. TakenFromCache'
    BY <2>1 DEF PackInv, TakenFromCache
  <2>5. QED BY <2>1, <2>2, <2>3, <2>4, UnchangedKept DEF PackInv
<1>5. CASE WriteDocuments(p)
  <2>1. PICK e \in packing[p] :
          /\ document' = [document EXCEPT ![p][Base(e.item, e.content)] = {e}]
          /\ packed' = [packed EXCEPT ![p] = packed[p] \cup {e.item}]
          /\ packing' = [packing EXCEPT ![p] = {}]
          /\ UNCHANGED <<storeVars, packAt, packItems, cache, artifact, packFailures>>
    BY <1>1, <1>5 DEF WriteDocuments
  <2>2. e \in Entries /\ e.item \in Unpacked(p) /\ e.item \in PackItems
    BY <1>1 DEF PackInv, PackPlaces, Entries
  <2>3. document' \in [Packs -> [Bases -> SUBSET Entries]]
    <3> DEFINE x == Base(e.item, e.content)
    <3>1. document' = [document EXCEPT ![p] = [document[p] EXCEPT ![x] = {e}]]
      BY <1>1, <2>1
    <3> HIDE DEF x
    <3>2. [document[p] EXCEPT ![x] = {e}] \in [Bases -> SUBSET Entries]
      BY <1>1, <2>2
    <3>3. QED BY <1>1, <3>1, <3>2
  <2>4. PackTypeOK'
    BY <1>1, <2>1, <2>2, <2>3 DEF PackTypeOK
  <2>5. PackPlaces'
    BY <1>1, <2>1, <2>2 DEF PackInv, PackPlaces, Unpacked
  <2>6. TakenFromCache'
    BY <2>1 DEF PackInv, TakenFromCache
  <2>7. QED BY <2>1, <2>4, <2>5, <2>6, UnchangedKept DEF PackInv
<1>6. CASE DocumentsFail(p)
  <2>1. PICK e \in packing[p] :
          /\ Fails(p, e.item)
          /\ UNCHANGED <<storeVars, packAt, packItems, cache, artifact, document, packed>>
    BY <1>6 DEF DocumentsFail
  <2>2. e.item \in Unpacked(p) /\ packAt[p] \in {"etl", "reports"}
    BY <1>1 DEF PackInv, PackPlaces, Unpacked
  <2>3. QED BY <1>1, <2>1, <2>2, FailsKeeps, UnchangedKept
<1>7. ASSUME NEW i \in packItems[p],
             MissingExport(p, i) \/ MissingDump(p, i) \/ LoadAgainFails(p, i)
      PROVE  PackInv' /\ StoreKept
  <2>1. /\ i \in Unpacked(p)
        /\ Fails(p, i)
        /\ packAt[p] \in {"etl", "reports"}
        /\ UNCHANGED <<storeVars, packAt, packItems, cache, artifact, document, packed>>
    BY <1>7 DEF MissingExport, MissingDump, LoadAgainFails, Takes
  <2>2. QED BY <1>1, <2>1, FailsKeeps, UnchangedKept
<1>8. ASSUME NEW i \in packItems[p], AbsentMapping(p, i) \/ ConvertAgainFails(p, i)
      PROVE  PackInv' /\ StoreKept
  <2>1. /\ i \in Unpacked(p) /\ i \in PackItems
        /\ Fails(p, i)
        /\ packAt[p] \in {"etl", "reports"}
        /\ UNCHANGED <<storeVars, packAt, packItems, artifact, document, packed>>
        /\ UNCHANGED cache \/ (HasExport(p, i) /\ Remember(p, i))
    BY <1>1, <1>8 DEF AbsentMapping, ConvertAgainFails, Takes
  <2>2. /\ cache' \in [Packs -> [Sources -> Contents \cup {Nothing}]]
        /\ \A q \in Packs : \A s \in Sources :
             cache[q][s] # Nothing => cache'[q][s] = cache[q][s]
    BY <1>1, <2>1, RememberKeeps
  <2>3. QED BY <2>1, <2>2, FailsKeeps, UnchangedKept
<1>9. ASSUME NEW i \in packItems[p], WriteKtr(p, i)
      PROVE  PackInv' /\ StoreKept
  <2> DEFINE s == Source(i)
             c == Export(p, s)
             x == Base(i, c)
  <2>1. /\ i \in Unpacked(p) /\ i \in PackItems
        /\ packAt[p] = "etl" /\ packing[p] = {}
        /\ HasExport(p, i) /\ Remember(p, i)
        /\ i.name \in NamesIn(c)
        /\ WriteArtifact(p, i, s, c)
        /\ UNCHANGED <<storeVars, packAt, packItems, document, packed, packFailures>>
    BY <1>1, <1>9 DEF WriteKtr, Takes
  <2>2. /\ s \in Sources /\ c \in Contents
        /\ cache' \in [Packs -> [Sources -> Contents \cup {Nothing}]]
        /\ cache'[p][s] = c
        /\ \A q \in Packs : \A t \in Sources :
             cache[q][t] # Nothing => cache'[q][t] = cache[q][t]
    BY <2>1, RememberKeeps
  <2>3. i.kind = "etl"
    BY <1>9, <2>1 DEF PackInv, PackPlaces
  <2>4. x \in Bases
    <3>1. i.name \in Names
      BY <2>1, <2>2, NamesOf
    <3>2. <<i.file, i.name>> \in Keys
      BY <2>1, <3>1 DEF PackItems, Keys
    <3>3. QED BY <2>3, <3>2, BasesAssumption DEF Base
  <2>5. /\ artifact' = [artifact EXCEPT ![p][x] = {[item |-> i, source |-> s, content |-> c]}]
        /\ packing' = [packing EXCEPT ![p] = {[item |-> i, source |-> s, content |-> c]}]
    BY <2>1 DEF WriteArtifact
  <2> HIDE DEF s, c, x
  <2>6. artifact' = [artifact EXCEPT ![p] =
                      [artifact[p] EXCEPT ![x] = {[item |-> i, source |-> s, content |-> c]}]]
    BY <1>1, <2>5
  <2>7. PackInv'
    BY <2>1, <2>2, <2>4, <2>5, <2>6, WriteKeeps
  <2>8. QED BY <2>1, <2>7, UnchangedKept
<1>10. ASSUME NEW i \in packItems[p], WritePrpt(p, i)
       PROVE  PackInv' /\ StoreKept
  <2> DEFINE s == <<i.place, i.file>>
             c == FileAt(i.place, i.file)
             x == Base(i, c)
  <2>1. /\ i \in Unpacked(p) /\ i \in PackItems
        /\ packAt[p] = "reports" /\ packing[p] = {}
        /\ c \in Contents
        /\ WriteArtifact(p, i, s, c)
        /\ UNCHANGED <<storeVars, packAt, packItems, cache, document, packed, packFailures>>
    BY <1>1, <1>10 DEF WritePrpt, Takes
  <2>2. s \in Sources
    BY <2>1 DEF Sources, PackItems
  <2>3. i.kind = "report" /\ i.kind # "etl"
    BY <2>1 DEF PackInv, PackPlaces
  <2>4. x \in Bases
    BY <2>1, <2>3, BasesAssumption DEF Base
  <2>5. /\ artifact' = [artifact EXCEPT ![p][x] = {[item |-> i, source |-> s, content |-> c]}]
        /\ packing' = [packing EXCEPT ![p] = {[item |-> i, source |-> s, content |-> c]}]
    BY <2>1 DEF WriteArtifact
  <2>6. /\ cache' \in [Packs -> [Sources -> Contents \cup {Nothing}]]
        /\ \A q \in Packs : \A t \in Sources :
             cache[q][t] # Nothing => cache'[q][t] = cache[q][t]
    BY <1>1, <2>1
  <2> HIDE DEF s, c, x
  <2>7. artifact' = [artifact EXCEPT ![p] =
                      [artifact[p] EXCEPT ![x] = {[item |-> i, source |-> s, content |-> c]}]]
    BY <1>1, <2>5
  <2>8. PackInv'
    BY <2>1, <2>2, <2>3, <2>4, <2>5, <2>6, <2>7, WriteKeeps
  <2>9. QED BY <2>1, <2>8, UnchangedKept
<1>11. QED
  BY <1>2, <1>3, <1>4, <1>5, <1>6, <1>7, <1>8, <1>9, <1>10 DEF PackStep

-----------------------------------------------------------------------------
(* Sweeps and listings are well typed.                                     *)

LEMMA SweepInit_Typed == SweepInit => SweepTypeOK
  BY DEF SweepInit, SweepTypeOK

LEMMA SweptItems ==
  ASSUME StoreTypeOK
  PROVE  {[file |-> k[1], name |-> k[2], place |-> RepairedMappings[k].place] :
            k \in Recorded(mappings)} \subseteq SweepItems
<1>1. \A k \in Keys : mappings[k] \in Rows /\ k[1] \in Files /\ k[2] \in Names
  BY DEF StoreTypeOK, Keys
<1>2. \A k \in Keys : RepairedMappings[k].place \in Places
  BY <1>1, RepairKeepsRow DEF RepairedMappings
<1>3. Recorded(mappings) \subseteq Keys
  BY DEF StoreTypeOK, Recorded
<1>4. QED BY <1>1, <1>2, <1>3 DEF SweepItems

LEMMA StartSweepKeeps ==
  ASSUME SweepTypeOK, StoreTypeOK, NEW w \in Sweeps, StartSweep(w)
  PROVE  SweepTypeOK' /\ StoreKept
<1>1. SweepTypeOK'
  BY SweptItems DEF SweepTypeOK, StartSweep
<1>2. StoreKept
  BY ListMappingsKeeps DEF StartSweep, StoreKept, StoreTypeOK, Recorded
<1>3. QED BY <1>1, <1>2

LEMMA HeldTyped ==
  ASSUME SweepTypeOK, NEW w \in Sweeps, NEW i \in SweepItems, SourceOf(i)[1] # "nowhere"
  PROVE  /\ SourceOf(i) \in Places \X Files
         /\ Held(w, SourceOf(i)) \in Contents \cup {Nothing, Torn}
<1>1. SourceOf(i) \in Places \X Files
  BY DEF SourceOf, Resolve, SweepItems, Places
<1>2. bySource[w][SourceOf(i)] \in Contents \cup {Nothing, Torn}
  BY <1>1 DEF SweepTypeOK
<1>3. QED BY <1>1, <1>2 DEF Held, Parses

LEMMA BySourceTyped ==
  ASSUME SweepTypeOK, NEW w \in Sweeps, NEW s \in Places \X Files,
         NEW h \in Contents \cup {Nothing, Torn},
         bySource' = [bySource EXCEPT ![w][s] = h]
  PROVE  bySource' \in [Sweeps -> [Places \X Files -> Contents \cup {Nothing, Torn}]]
<1>1. bySource \in [Sweeps -> [Places \X Files -> Contents \cup {Nothing, Torn}]]
  BY DEF SweepTypeOK
<1>2. bySource' = [bySource EXCEPT ![w] = [bySource[w] EXCEPT ![s] = h]]
  BY <1>1
<1>3. [bySource[w] EXCEPT ![s] = h] \in [Places \X Files -> Contents \cup {Nothing, Torn}]
  BY <1>1
<1>4. QED BY <1>1, <1>2, <1>3

LEMMA SweepStepKeeps ==
  ASSUME SweepTypeOK, StoreTypeOK, NEW w \in Sweeps, SweepStep(w)
  PROVE  SweepTypeOK' /\ StoreKept
<1>1. /\ sweepAt \in [Sweeps -> {"idle", "next", "error", "done"}]
      /\ sweepItems \in [Sweeps -> SUBSET SweepItems]
      /\ judging \in [Sweeps -> SUBSET Judgements]
      /\ stamped \in [Sweeps -> SUBSET SweepItems]
  BY DEF SweepTypeOK
<1>2. CASE Stamp(w)
  <2>1. PICK j \in judging[w] :
          /\ SetMappingReview(<<j.item.file, j.item.name>>, j.verdict)
          /\ stamped' = [stamped EXCEPT ![w] = stamped[w] \cup {j.item}]
          /\ judging' = [judging EXCEPT ![w] = {}]
          /\ UNCHANGED <<estate, reports, sweepAt, sweepItems, bySource, touched>>
    BY <1>1, <1>2 DEF Stamp
  <2>2. j.item \in SweepItems /\ j.verdict \in Verdicts
    BY <1>1 DEF Judgements, Verdicts
  <2>3. <<j.item.file, j.item.name>> \in Keys
    BY <2>2 DEF SweepItems, Keys
  <2>4. SweepTypeOK'
    BY <2>1, <2>2 DEF SweepTypeOK
  <2>5. /\ mappings' \in [Keys -> Rows]
        /\ Recorded(mappings') = Recorded(mappings)
    BY <2>1, <2>2, <2>3, SetMappingReviewKeeps
  <2>6. QED BY <2>1, <2>4, <2>5 DEF StoreKept, StoreTypeOK, Recorded
<1>3. CASE FinishSweep(w)
  <2>1. SweepTypeOK'
    BY <1>3 DEF FinishSweep, SweepTypeOK
  <2>2. StoreKept
    BY <1>3, ListMappingsKeeps DEF FinishSweep, StoreKept, StoreTypeOK, Recorded
  <2>3. QED BY <2>1, <2>2
<1>4. ASSUME NEW i \in sweepItems[w], JudgeMissing(w, i)
      PROVE  SweepTypeOK' /\ StoreKept
  <2>1. [item |-> i, verdict |-> "REVIEW"] \in Judgements
    BY <1>1 DEF Judgements
  <2>2. SweepTypeOK'
    BY <1>4, <2>1 DEF JudgeMissing, SweepTypeOK
  <2>3. QED BY <1>4, <2>2, UnchangedKept DEF JudgeMissing
<1>5. ASSUME NEW i \in sweepItems[w], Judge(w, i)
      PROVE  SweepTypeOK' /\ StoreKept
  <2> DEFINE h == Held(w, SourceOf(i))
             j == [item |-> i, verdict |-> Verdict(h, i.name)]
  <2>1. i \in SweepItems
    BY <1>1
  <2>2. SourceOf(i) \in Places \X Files /\ h \in Contents \cup {Nothing, Torn}
    BY <1>5, <2>1, HeldTyped DEF Judge
  <2>3. j \in Judgements
    BY <2>1 DEF Judgements, Verdict
  <2>4. /\ bySource' = [bySource EXCEPT ![w][SourceOf(i)] = h]
        /\ judging' = [judging EXCEPT ![w] = {j}]
        /\ UNCHANGED <<storeVars, sweepAt, sweepItems, stamped, touched>>
    BY <1>5 DEF Judge
  <2> HIDE DEF h, j
  <2>5. bySource' \in [Sweeps -> [Places \X Files -> Contents \cup {Nothing, Torn}]]
    BY <2>2, <2>4, BySourceTyped
  <2>6. judging' \in [Sweeps -> SUBSET Judgements]
    BY <1>1, <2>3, <2>4
  <2>7. SweepTypeOK'
    BY <2>4, <2>5, <2>6 DEF SweepTypeOK
  <2>8. QED BY <2>4, <2>7, UnchangedKept
<1>6. ASSUME NEW i \in sweepItems[w], ReviewRaises(w, i)
      PROVE  SweepTypeOK' /\ StoreKept
  <2> DEFINE h == Held(w, SourceOf(i))
  <2>1. i \in SweepItems
    BY <1>1
  <2>2. SourceOf(i) \in Places \X Files /\ h \in Contents \cup {Nothing, Torn}
    BY <1>6, <2>1, HeldTyped DEF ReviewRaises
  <2>3. /\ bySource' = [bySource EXCEPT ![w][SourceOf(i)] = h]
        /\ sweepAt' = [sweepAt EXCEPT ![w] = "error"]
        /\ UNCHANGED <<storeVars, sweepItems, judging, stamped, touched>>
    BY <1>6 DEF ReviewRaises
  <2> HIDE DEF h
  <2>4. bySource' \in [Sweeps -> [Places \X Files -> Contents \cup {Nothing, Torn}]]
    BY <2>2, <2>3, BySourceTyped
  <2>5. SweepTypeOK'
    BY <1>1, <2>3, <2>4 DEF SweepTypeOK
  <2>6. QED BY <2>3, <2>5, UnchangedKept
<1>7. QED BY <1>2, <1>3, <1>4, <1>5, <1>6 DEF SweepStep

LEMMA NoteChangeTyped ==
  ASSUME SweepTypeOK, NoteChange,
         UNCHANGED <<sweepAt, sweepItems, judging, bySource, stamped>>
  PROVE  SweepTypeOK'
<1>1. \A w \in Sweeps : (touched[w] \/ estate' # estate) \in BOOLEAN
  OBVIOUS
<1>2. touched' \in [Sweeps -> BOOLEAN]
  BY <1>1, Zenon DEF NoteChange
<1>3. QED BY <1>2 DEF SweepTypeOK

LEMMA PageStepKeeps ==
  ASSUME PageTypeOK, StoreTypeOK, PageStep
  PROVE  PageTypeOK' /\ StoreKept
<1>1. CASE FindStaleMapping
  BY <1>1, UnchangedKept DEF FindStaleMapping, PageTypeOK
<1>2. CASE FindStaleReport
  BY <1>2, UnchangedKept DEF FindStaleReport, PageTypeOK
<1>3. CASE HealMapping
  BY <1>3, HealMappingKeeps DEF HealMapping, PageTypeOK, StoreKept, StoreTypeOK, Recorded
<1>4. CASE HealReport
  BY <1>4, HealReportKeeps DEF HealReport, PageTypeOK, StoreKept, StoreTypeOK, Recorded
<1>5. QED BY <1>1, <1>2, <1>3, <1>4 DEF PageStep

-----------------------------------------------------------------------------
(* The inductive invariant.                                                *)

IInv == /\ StoreTypeOK /\ SweepTypeOK /\ PageTypeOK
        /\ BatchInv /\ PackInv

LEMMA Init_IInv == Init => IInv
<1> SUFFICES ASSUME Init PROVE IInv
  OBVIOUS
<1>1. StoreTypeOK
  BY DEF Init, StoreInit, StoreTypeOK, NoRow, Rows, Places, Verdicts
<1>2. PageTypeOK
  BY DEF Init, PageInit, PageTypeOK
<1>3. QED
  BY <1>1, <1>2, BatchInit_Inv, PackInit_Inv, SweepInit_Typed DEF Init, IInv

LEMMA BatchInvStutters ==
  ASSUME BatchInv, UNCHANGED batchVars
  PROVE  BatchInv'
<1>1. /\ batchAt' = batchAt /\ turn' = turn /\ parsed' = parsed /\ unrecorded' = unrecorded
      /\ converted' = converted /\ failed' = failed /\ skipped' = skipped
      /\ etlMappings' = etlMappings
  BY DEF batchVars
<1>2. QED BY <1>1 DEF BatchInv, BatchTypeOK, BatchPlaces, Settled, Turns, Parsed

LEMMA PackInvStutters ==
  ASSUME PackInv, UNCHANGED packVars
  PROVE  PackInv'
  BY DEF PackInv, PackTypeOK, PackPlaces, TakenFromCache, Unpacked

LEMMA RestStutters ==
  /\ SweepTypeOK /\ UNCHANGED sweepVars => SweepTypeOK'
  /\ PageTypeOK /\ UNCHANGED pageVars => PageTypeOK'
  BY DEF SweepTypeOK, PageTypeOK

LEMMA StepKeeps == IInv /\ Next => IInv' /\ StoreKept
<1> SUFFICES ASSUME IInv, Next PROVE IInv' /\ StoreKept
  OBVIOUS
<1> USE DEF IInv
<1>1. ASSUME NEW b \in Batches, StartBatch(b), OthersThanBatches
      PROVE  IInv' /\ StoreKept
  <2>1. BatchInv'
    BY <1>1, MoveKeeps DEF StartBatch
  <2>2. StoreKept
    BY <1>1, UnchangedKept DEF StartBatch
  <2>3. PackInv' /\ SweepTypeOK' /\ PageTypeOK'
    BY <1>1, PackInvStutters, NoteChangeTyped, RestStutters DEF OthersThanBatches
  <2>4. QED BY <2>1, <2>2, <2>3 DEF StoreKept
<1>2. ASSUME NEW b \in Batches, BatchRuns(b)
      PROVE  IInv' /\ StoreKept
  <2>1. BatchInv' /\ StoreKept
    BY <1>2, BatchStepKeeps DEF BatchRuns
  <2>2. PackInv' /\ SweepTypeOK' /\ PageTypeOK'
    BY <1>2, PackInvStutters, NoteChangeTyped, RestStutters DEF BatchRuns, OthersThanBatches
  <2>3. QED BY <2>1, <2>2 DEF StoreKept
<1>3. ASSUME NEW p \in Packs,
             StartPack(p) \/ PackStep(p),
             UNCHANGED <<batchVars, sweepVars, pageVars>>
      PROVE  IInv' /\ StoreKept
  <2>1. PackInv' /\ StoreKept
    BY <1>3, StartPackKeeps, PackStepKeeps
  <2>2. BatchInv' /\ SweepTypeOK' /\ PageTypeOK'
    BY <1>3, BatchInvStutters, RestStutters
  <2>3. QED BY <2>1, <2>2 DEF StoreKept
<1>4. ASSUME NEW w \in Sweeps,
             StartSweep(w) \/ SweepStep(w),
             UNCHANGED <<batchVars, packVars, pageVars>>
      PROVE  IInv' /\ StoreKept
  <2>1. SweepTypeOK' /\ StoreKept
    BY <1>4, StartSweepKeeps, SweepStepKeeps
  <2>2. BatchInv' /\ PackInv' /\ PageTypeOK'
    BY <1>4, BatchInvStutters, PackInvStutters, RestStutters
  <2>3. QED BY <2>1, <2>2 DEF StoreKept
<1>5. CASE PageRuns
  <2>1. PageTypeOK' /\ StoreKept
    BY <1>5, PageStepKeeps DEF PageRuns
  <2>2. BatchInv' /\ PackInv' /\ SweepTypeOK'
    BY <1>5, BatchInvStutters, PackInvStutters, RestStutters DEF PageRuns
  <2>3. QED BY <2>1, <2>2 DEF StoreKept
<1>6. ASSUME NEW f \in Files, RemoveSource(f)
      PROVE  IInv' /\ StoreKept
  <2>1. estate' \in [Files -> Contents \cup {Nothing, Torn}]
    BY <1>6, SourceTyped DEF RemoveSource
  <2>2. StoreKept
    BY <1>6, <2>1 DEF RemoveSource, StoreKept, StoreTypeOK, Recorded
  <2>3. BatchInv' /\ PackInv' /\ SweepTypeOK' /\ PageTypeOK'
    BY <1>6, BatchInvStutters, PackInvStutters, NoteChangeTyped, RestStutters
    DEF RemoveSource
  <2>4. QED BY <2>2, <2>3 DEF StoreKept
<1>7. QED
  BY <1>1, <1>2, <1>3, <1>4, <1>5, <1>6 DEF Next, Requests, PackRuns, SweepRuns

LEMMA Next_IInv == IInv /\ [Next]_vars => IInv'
<1> SUFFICES ASSUME IInv, [Next]_vars PROVE IInv'
  OBVIOUS
<1>1. CASE Next
  BY <1>1, StepKeeps
<1>2. CASE UNCHANGED vars
  BY <1>2, BatchInvStutters, PackInvStutters, RestStutters DEF IInv, StoreTypeOK
<1>3. QED BY <1>1, <1>2

LEMMA Invariant == Spec => []IInv
  BY Init_IInv, Next_IInv, PTL DEF Spec

(* Every reachable state of the estate is well typed.                      *)
THEOREM TypeCorrect == Spec => []TypeOK
<1>1. IInv => TypeOK
  BY DEF IInv, BatchInv, PackInv, TypeOK
<1>2. QED BY <1>1, Invariant, PTL

(* No step of any job, listing or deletion loses a row of the store.       *)
THEOREM RowsStay == Spec => RowsAreKept
<1>1. IInv /\ [Next]_vars => [/\ Recorded(mappings) \subseteq Recorded(mappings')
                              /\ Recorded(reports) \subseteq Recorded(reports')]_vars
  BY StepKeeps DEF StoreKept
<1>2. QED BY <1>1, Invariant, PTL DEF Spec, RowsAreKept

(* A pack takes all its mappings of one export from one version of it.     *)
THEOREM OneVersion == Spec => []OneVersionPerExport
<1>1. IInv => OneVersionPerExport
  <2>1. SUFFICES ASSUME IInv, NEW p \in Packs, NEW x \in Bases, NEW y \in Bases,
                        NEW d \in artifact[p][x], NEW e \in artifact[p][y],
                        d.item.kind = "etl", e.item.kind = "etl", d.source = e.source
                 PROVE  d.content = e.content
    BY DEF OneVersionPerExport
  <2>2. cache[p][d.source] = d.content /\ cache[p][e.source] = e.content
    BY <2>1 DEF IInv, PackInv, TakenFromCache
  <2>3. QED BY <2>1, <2>2
<1>2. QED BY <1>1, Invariant, PTL

-----------------------------------------------------------------------------
(* A batch keeps the ledger: it takes on its uploads when it starts,       *)
(* settles the one at its turn, and closes when it leaves the loop.        *)

TakenOn(b) == IF batchAt[b] = "idle" THEN {} ELSE Turns(b)
Unsuccessful(b) == failed[b] \cup skipped[b]
Reported(b) == batchAt[b] \in {"reportRows", "done"}

LEMMA BatchesApart ==
  ASSUME BatchInv, NEW b \in Batches, StartBatch(b) \/ BatchStep(b)
  PROVE  \A x \in Batches \ {b} : /\ TakenOn(x)' = TakenOn(x)
                                  /\ Reported(x)' = Reported(x)
<1>1. batchAt \in [Batches -> {"idle", "next", "write", "convert", "record",
                               "reportRows", "done"}]
  BY DEF BatchInv, BatchTypeOK
<1>2. \E s \in {"idle", "next", "write", "convert", "record", "reportRows", "done"} :
        batchAt' = [batchAt EXCEPT ![b] = s]
  <2>1. CASE RecordNext(b)
    BY <1>1, <2>1 DEF RecordNext
  <2>2. CASE ~RecordNext(b)
    BY <2>2 DEF StartBatch, BatchStep, SkipUpload, OpenSource, WriteSource, ParseExport,
                ExportConverted, ConvertReport, ConvertFails, SummariseMappings,
                SummariseReports, SummaryFails, Proceed
  <2>3. QED BY <2>1, <2>2
<1>3. \A x \in Batches \ {b} : batchAt'[x] = batchAt[x]
  BY <1>1, <1>2
<1>4. QED BY <1>3 DEF TakenOn, Reported, Turns

(* The steps that leave the ledger alone.                                  *)
LEMMA BatchLedgerStutters ==
  ASSUME \A x \in Batches : TakenOn(x)' = TakenOn(x) /\ Reported(x)' = Reported(x),
         UNCHANGED <<converted, failed, skipped>>
  PROVE  UNCHANGED BatchLedger!ledgerVars
<1>1. [x \in Batches |-> TakenOn(x)]' = [x \in Batches |-> TakenOn(x)]
  OBVIOUS
<1>2. [x \in Batches |-> Unsuccessful(x)]' = [x \in Batches |-> Unsuccessful(x)]
  BY DEF Unsuccessful
<1>3. [x \in Batches |-> Reported(x)]' = [x \in Batches |-> Reported(x)]
  BY Zenon
<1>4. QED
  BY <1>1, <1>2, <1>3 DEF BatchLedger!ledgerVars, TakenOn, Unsuccessful, Reported

(* An upload with a good outcome; an upload with a bad one.                *)
LEMMA BatchSettlesGood ==
  ASSUME BatchInv, NEW b \in Batches, turn[b] \in Turns(b),
         batchAt[b] \in {"next", "write", "convert", "record"},
         \A x \in Batches : TakenOn(x)' = TakenOn(x) /\ Reported(x)' = Reported(x),
         converted' = [converted EXCEPT ![b] = converted[b] \cup {turn[b]}],
         UNCHANGED <<failed, skipped>>
  PROVE  BatchLedger!SettleGood(b)
<1>1. [x \in Batches |-> TakenOn(x)]' = [x \in Batches |-> TakenOn(x)]
  OBVIOUS
<1>2. [x \in Batches |-> Unsuccessful(x)]' = [x \in Batches |-> Unsuccessful(x)]
  BY DEF Unsuccessful
<1>3. [x \in Batches |-> Reported(x)]' = [x \in Batches |-> Reported(x)]
  BY Zenon
<1>4. ~Reported(b) /\ TakenOn(b) = Turns(b)
  BY DEF Reported, TakenOn
<1>5. turn[b] \in TakenOn(b) \ (converted[b] \cup Unsuccessful(b))
  <2>1. converted[b] \cup failed[b] \cup skipped[b] = 1..(turn[b] - 1) /\ turn[b] \in Nat
    BY DEF BatchInv, BatchTypeOK, Settled
  <2>2. turn[b] \notin 1..(turn[b] - 1)
    BY <2>1
  <2>3. QED BY <1>4, <2>1, <2>2 DEF Unsuccessful
<1>6. QED
  BY <1>1, <1>2, <1>3, <1>4, <1>5
  DEF BatchLedger!SettleGood, BatchLedger!Open, TakenOn, Unsuccessful, Reported

LEMMA BatchSettlesBad ==
  ASSUME BatchInv, NEW b \in Batches, turn[b] \in Turns(b),
         batchAt[b] \in {"next", "write", "convert", "record"},
         \A x \in Batches : TakenOn(x)' = TakenOn(x) /\ Reported(x)' = Reported(x),
         Unsuccessful(b)' = Unsuccessful(b) \cup {turn[b]},
         \A x \in Batches \ {b} : Unsuccessful(x)' = Unsuccessful(x),
         UNCHANGED converted
  PROVE  BatchLedger!SettleBad(b)
<1>1. [x \in Batches |-> TakenOn(x)]' = [x \in Batches |-> TakenOn(x)]
  OBVIOUS
<1>2. [x \in Batches |-> Unsuccessful(x)]'
        = [[x \in Batches |-> Unsuccessful(x)] EXCEPT ![b] = @ \cup {turn[b]}]
  OBVIOUS
<1>3. [x \in Batches |-> Reported(x)]' = [x \in Batches |-> Reported(x)]
  BY Zenon
<1>4. ~Reported(b) /\ TakenOn(b) = Turns(b)
  BY DEF Reported, TakenOn
<1>5. turn[b] \in TakenOn(b) \ (converted[b] \cup Unsuccessful(b))
  <2>1. converted[b] \cup failed[b] \cup skipped[b] = 1..(turn[b] - 1) /\ turn[b] \in Nat
    BY DEF BatchInv, BatchTypeOK, Settled
  <2>2. turn[b] \notin 1..(turn[b] - 1)
    BY <2>1
  <2>3. QED BY <1>4, <2>1, <2>2 DEF Unsuccessful
<1>6. QED
  BY <1>1, <1>2, <1>3, <1>4, <1>5
  DEF BatchLedger!SettleBad, BatchLedger!Open, TakenOn, Unsuccessful, Reported

LEMMA BatchStarts ==
  ASSUME BatchInv, NEW b \in Batches, StartBatch(b)
  PROVE  BatchLedger!Enter(b)
<1>1. batchAt \in [Batches -> {"idle", "next", "write", "convert", "record",
                               "reportRows", "done"}]
  BY DEF BatchInv, BatchTypeOK
<1>2. batchAt[b] = "idle" /\ batchAt' = [batchAt EXCEPT ![b] = "next"]
  BY DEF StartBatch
<1>3. batchAt'[b] = "next" /\ ~Reported(b) /\ ~Reported(b)'
  BY <1>1, <1>2 DEF Reported
<1>4. \A x \in Batches \ {b} : TakenOn(x)' = TakenOn(x) /\ Reported(x)' = Reported(x)
  BY BatchesApart
<1>5. TakenOn(b) = {}
  BY <1>2 DEF TakenOn
<1>6. [x \in Batches |-> Reported(x)]' = [x \in Batches |-> Reported(x)]
  <2>1. Reported(b)' = Reported(b)
    BY <1>1, <1>2 DEF Reported
  <2>2. \A x \in Batches : Reported(x)' = Reported(x)
    <3> SUFFICES ASSUME NEW x \in Batches PROVE Reported(x)' = Reported(x)
      OBVIOUS
    <3>1. CASE x = b
      BY <2>1, <3>1, Zenon
    <3>2. CASE x # b
      BY <1>4, <3>2, Zenon
    <3>3. QED BY <3>1, <3>2, Zenon
  <2>3. QED BY <2>2, Zenon
<1>7. [x \in Batches |-> Unsuccessful(x)]' = [x \in Batches |-> Unsuccessful(x)]
  BY DEF StartBatch, Unsuccessful
<1>8. [x \in Batches |-> TakenOn(x)]' \in [Batches -> SUBSET Nat]
  <2>1. \A x \in Batches : TakenOn(x)' \subseteq Nat
    BY TurnsOf DEF TakenOn, Turns
  <2>2. QED BY <2>1
<1>9. QED
  BY <1>3, <1>4, <1>5, <1>6, <1>7, <1>8
  DEF StartBatch, BatchLedger!Enter, TakenOn, Unsuccessful, Reported

LEMMA BatchReports ==
  ASSUME BatchInv, NEW b \in Batches,
         SummariseMappings(b) \/ (SummaryFails(b) /\ batchAt[b] = "next")
  PROVE  BatchLedger!Close(b)
<1>1. batchAt \in [Batches -> {"idle", "next", "write", "convert", "record",
                               "reportRows", "done"}]
  BY DEF BatchInv, BatchTypeOK
<1>2. /\ batchAt[b] = "next" /\ turn[b] \notin Turns(b)
      /\ \E s \in {"reportRows", "done"} : batchAt' = [batchAt EXCEPT ![b] = s]
      /\ UNCHANGED <<converted, failed, skipped>>
  BY DEF SummariseMappings, SummaryFails
<1>3. \A x \in Batches \ {b} : TakenOn(x)' = TakenOn(x) /\ Reported(x)' = Reported(x)
  BY BatchesApart DEF BatchStep
<1>4. Turns(b) \subseteq converted[b] \cup Unsuccessful(b)
  <2>1. converted[b] \cup failed[b] \cup skipped[b] = 1..(turn[b] - 1)
    BY DEF BatchInv, Settled
  <2>2. turn[b] \in 1..(Len(Uploads[b]) + 1) /\ turn[b] \notin 1..Len(Uploads[b])
    BY <1>2, TurnsOf DEF BatchInv, BatchTypeOK
  <2>3. Turns(b) = 1..(turn[b] - 1)
    BY <2>2, TurnsOf
  <2>4. QED BY <2>1, <2>3 DEF Unsuccessful
<1>5. ~Reported(b) /\ Reported(b)' /\ TakenOn(b) = Turns(b) /\ TakenOn(b)' = TakenOn(b)
  BY <1>1, <1>2 DEF Reported, TakenOn, Turns
<1>6. [x \in Batches |-> TakenOn(x)]' = [x \in Batches |-> TakenOn(x)]
  BY <1>3, <1>5
<1>7. [x \in Batches |-> Unsuccessful(x)]' = [x \in Batches |-> Unsuccessful(x)]
  BY <1>2 DEF Unsuccessful
<1>8. [x \in Batches |-> Reported(x)]' = [[x \in Batches |-> Reported(x)] EXCEPT ![b] = TRUE]
  <2>1. \A x \in Batches :
          Reported(x)' = (IF x = b THEN TRUE ELSE [y \in Batches |-> Reported(y)][x])
    BY <1>3, <1>5
  <2>2. QED BY <2>1, Zenon
<1>9. QED
  BY <1>2, <1>4, <1>5, <1>6, <1>7, <1>8
  DEF BatchLedger!Close, BatchLedger!Open, TakenOn, Unsuccessful, Reported

LEMMA BatchStepRefines ==
  ASSUME BatchInv, NEW b \in Batches, StartBatch(b) \/ BatchStep(b)
  PROVE  [BatchLedger!Next]_(BatchLedger!ledgerVars)
<1>1. /\ batchAt \in [Batches -> {"idle", "next", "write", "convert", "record",
                                  "reportRows", "done"}]
      /\ failed \in [Batches -> SUBSET Nat]
      /\ skipped \in [Batches -> SUBSET Nat]
      /\ converted \in [Batches -> SUBSET Nat]
      /\ batchAt[b] \in {"write", "convert", "record"} => turn[b] \in Turns(b)
  BY DEF BatchInv, BatchTypeOK, BatchPlaces
<1>2. \A x \in Batches \ {b} : TakenOn(x)' = TakenOn(x) /\ Reported(x)' = Reported(x)
  BY BatchesApart
<1>3. ASSUME batchAt[b] \in {"next", "write", "convert", "record"},
             batchAt'[b] \in {"next", "write", "convert", "record"}
      PROVE  \A x \in Batches : TakenOn(x)' = TakenOn(x) /\ Reported(x)' = Reported(x)
  BY <1>2, <1>3 DEF TakenOn, Reported, Turns
<1>4. CASE StartBatch(b)
  BY <1>4, BatchStarts DEF BatchLedger!Next
<1>5. CASE SummariseMappings(b) \/ (SummaryFails(b) /\ batchAt[b] = "next")
  BY <1>5, BatchReports DEF BatchLedger!Next
<1>6. CASE SummariseReports(b) \/ (SummaryFails(b) /\ batchAt[b] = "reportRows")
  <2>1. TakenOn(b)' = TakenOn(b) /\ Reported(b)' = Reported(b)
    BY <1>1, <1>6 DEF SummariseReports, SummaryFails, TakenOn, Reported, Turns
  <2>2. \A x \in Batches : TakenOn(x)' = TakenOn(x) /\ Reported(x)' = Reported(x)
    BY <1>2, <2>1
  <2>3. QED BY <1>6, <2>2, BatchLedgerStutters DEF SummariseReports, SummaryFails
<1>7. CASE OpenSource(b) \/ WriteSource(b) \/ ParseExport(b) \/ RecordNext(b)
  <2>1. /\ batchAt[b] \in {"next", "write", "convert", "record"}
        /\ batchAt'[b] \in {"next", "write", "convert", "record"}
        /\ UNCHANGED <<converted, failed, skipped>>
    BY <1>1, <1>7 DEF OpenSource, WriteSource, ParseExport, RecordNext
  <2>2. QED BY <1>3, <2>1, BatchLedgerStutters
<1>8. CASE ExportConverted(b) \/ ConvertReport(b)
  <2>1. /\ batchAt[b] \in {"convert", "record"} /\ batchAt'[b] = "next"
        /\ converted' = [converted EXCEPT ![b] = converted[b] \cup {turn[b]}]
        /\ UNCHANGED <<failed, skipped>>
    BY <1>1, <1>8 DEF ExportConverted, ConvertReport, Proceed
  <2>2. BatchLedger!SettleGood(b)
    BY <1>1, <1>3, <2>1, BatchSettlesGood
  <2>3. QED BY <2>2 DEF BatchLedger!Next
<1>9. CASE SkipUpload(b) \/ ConvertFails(b)
  <2>1. /\ batchAt[b] \in {"next", "write", "convert", "record"} /\ batchAt'[b] = "next"
        /\ turn[b] \in Turns(b)
        /\ UNCHANGED converted
    BY <1>1, <1>9 DEF SkipUpload, ConvertFails, Proceed
  <2>2. Unsuccessful(b)' = Unsuccessful(b) \cup {turn[b]}
    BY <1>1, <1>9 DEF SkipUpload, ConvertFails, Unsuccessful
  <2>3. \A x \in Batches \ {b} : Unsuccessful(x)' = Unsuccessful(x)
    BY <1>1, <1>9 DEF SkipUpload, ConvertFails, Unsuccessful
  <2>4. BatchLedger!SettleBad(b)
    BY <1>3, <2>1, <2>2, <2>3, BatchSettlesBad
  <2>5. QED BY <2>4 DEF BatchLedger!Next
<1>10. QED
  BY <1>4, <1>5, <1>6, <1>7, <1>8, <1>9 DEF BatchStep, SummaryFails

LEMMA BatchesIdle ==
  ASSUME UNCHANGED batchVars
  PROVE  UNCHANGED BatchLedger!ledgerVars
<1>1. \A x \in Batches : TakenOn(x)' = TakenOn(x) /\ Reported(x)' = Reported(x)
  BY DEF TakenOn, Reported, Turns
<1>2. QED BY <1>1, BatchLedgerStutters

(* A batch implements the ledger: every upload is converted, failed or     *)
(* skipped, exactly one of them, before the batch reports.                 *)
THEOREM BatchLedgerKept == Spec => BatchKeepsLedger
<1>1. Init => BatchLedger!Init
  <2> SUFFICES ASSUME Init PROVE BatchLedger!Init
    OBVIOUS
  <2>1. \A b \in Batches : batchAt[b] = "idle" /\ failed[b] = {} /\ skipped[b] = {}
    BY DEF Init, BatchInit
  <2>2. [b \in Batches |-> batchAt[b] \in {"reportRows", "done"}] = [b \in Batches |-> FALSE]
    <3>1. \A b \in Batches : batchAt[b] \notin {"reportRows", "done"}
      BY <2>1
    <3>2. \A b \in Batches : (batchAt[b] \in {"reportRows", "done"}) = FALSE
      BY <3>1
    <3>3. QED BY <3>2, Zenon
  <2>3. QED BY <2>1, <2>2 DEF Init, BatchInit, BatchLedger!Init
<1>2. IInv /\ [Next]_vars => [BatchLedger!Next]_(BatchLedger!ledgerVars)
  <2> SUFFICES ASSUME IInv, [Next]_vars
               PROVE  [BatchLedger!Next]_(BatchLedger!ledgerVars)
    OBVIOUS
  <2>1. CASE \E b \in Batches : StartBatch(b) \/ BatchStep(b)
    BY <2>1, BatchStepRefines DEF IInv
  <2>2. CASE UNCHANGED batchVars
    BY <2>2, BatchesIdle
  <2>3. QED
    BY <2>1, <2>2
    DEF Next, Requests, BatchRuns, PackRuns, SweepRuns, PageRuns, RemoveSource
<1>3. QED
  BY <1>1, <1>2, Invariant, PTL DEF Spec, BatchKeepsLedger, BatchLedger!Spec


-----------------------------------------------------------------------------
(* A pack implements the ledger too: its records are the items.            *)

(* Steps that leave every pack where it is, or move one pack to a place    *)
(* that is not the end: the ledger's view of what is closed stays.         *)
LEMMA PackStaysOpen ==
  ASSUME PackTypeOK, NEW p \in Packs, packAt[p] # "done",
         NEW s \in {"start", "etl", "reports"},
         packAt' = [packAt EXCEPT ![p] = s] \/ UNCHANGED packAt
  PROVE  [q \in Packs |-> packAt[q] = "done"]' = [q \in Packs |-> packAt[q] = "done"]
<1>1. packAt \in [Packs -> {"idle", "start", "etl", "reports", "done"}]
  BY DEF PackTypeOK
<1>2. \A q \in Packs : (packAt'[q] = "done") = (packAt[q] = "done")
  BY <1>1
<1>3. QED BY <1>2, Zenon

LEMMA PackStepRefines ==
  ASSUME PackInv, StoreTypeOK, NEW p \in Packs, StartPack(p) \/ PackStep(p)
  PROVE  [PackLedger!Next]_(PackLedger!ledgerVars)
<1>1. /\ packAt \in [Packs -> {"idle", "start", "etl", "reports", "done"}]
      /\ packItems \in [Packs -> SUBSET PackItems]
      /\ packing \in [Packs -> SUBSET Entries]
      /\ packed \in [Packs -> SUBSET PackItems]
      /\ packFailures \in [Packs -> SUBSET PackItems]
      /\ PackTypeOK
  BY DEF PackInv, PackTypeOK
<1> DEFINE shut == [q \in Packs |-> packAt[q] = "done"]
<1>2. packAt[p] # "done" => ~shut[p]
  OBVIOUS
<1>3. CASE StartPack(p)
  <2>1. shut' = shut
    BY <1>1, <1>3, PackStaysOpen DEF StartPack
  <2>2. QED BY <1>3, <2>1 DEF StartPack, PackLedger!ledgerVars
<1>4. ASSUME packAt[p] # "done", shut' = shut,
             packItems' \in [Packs -> SUBSET PackItems],
             packItems[p] \subseteq packItems'[p],
             \A q \in Packs \ {p} : packItems'[q] = packItems[q],
             UNCHANGED <<packed, packFailures>>
      PROVE  PackLedger!Enter(p)
  BY <1>2, <1>4 DEF PackLedger!Enter
<1>5. CASE ListPackMappings(p)
  <2>1. /\ packItems' = [packItems EXCEPT ![p] = MappingItems]
        /\ packItems[p] = {} /\ packAt[p] = "start"
        /\ packAt' = [packAt EXCEPT ![p] = "etl"]
        /\ UNCHANGED <<packed, packFailures>>
    BY <1>5 DEF ListPackMappings, PackInv, PackPlaces
  <2>2. shut' = shut
    BY <1>1, <2>1, PackStaysOpen
  <2>3. packItems' \in [Packs -> SUBSET PackItems]
    BY <1>1, <2>1, ListedItems
  <2> HIDE DEF shut
  <2>4. PackLedger!Enter(p)
    BY <1>1, <1>4, <2>1, <2>2, <2>3
  <2>5. QED BY <2>4 DEF PackLedger!Next
<1>6. CASE ListPackReports(p)
  <2>1. /\ packItems' = [packItems EXCEPT ![p] = packItems[p] \cup ReportItems]
        /\ packAt[p] = "etl"
        /\ packAt' = [packAt EXCEPT ![p] = "reports"]
        /\ UNCHANGED <<packed, packFailures>>
    BY <1>1, <1>6 DEF ListPackReports
  <2>2. shut' = shut
    BY <1>1, <2>1, PackStaysOpen
  <2>3. packItems' \in [Packs -> SUBSET PackItems]
    BY <1>1, <2>1, ListedItems
  <2> HIDE DEF shut
  <2>4. PackLedger!Enter(p)
    BY <1>1, <1>4, <2>1, <2>2, <2>3
  <2>5. QED BY <2>4 DEF PackLedger!Next
<1>7. CASE ClosePack(p)
  <2>1. /\ packAt[p] = "reports" /\ Unpacked(p) = {}
        /\ packAt' = [packAt EXCEPT ![p] = "done"]
        /\ UNCHANGED <<packItems, packed, packFailures>>
    BY <1>7 DEF ClosePack
  <2>2. \A q \in Packs :
          (packAt'[q] = "done") = (IF q = p THEN TRUE ELSE packAt[q] = "done")
    BY <1>1, <2>1
  <2>3. shut' = [shut EXCEPT ![p] = TRUE]
    BY <2>2, Zenon
  <2>4. PackLedger!Close(p)
    BY <1>2, <2>1, <2>3 DEF PackLedger!Close, PackLedger!Open, Unpacked
  <2>5. QED BY <2>4 DEF PackLedger!Next
<1>8. CASE WriteDocuments(p)
  <2>1. PICK e \in packing[p] :
          /\ packed' = [packed EXCEPT ![p] = packed[p] \cup {e.item}]
          /\ UNCHANGED <<packAt, packItems, packFailures>>
    BY <1>1, <1>8 DEF WriteDocuments
  <2>2. e.item \in Unpacked(p) /\ packAt[p] # "done"
    BY <1>1 DEF PackInv, PackPlaces, Unpacked
  <2>3. PackLedger!SettleGood(p)
    BY <1>2, <2>1, <2>2 DEF PackLedger!SettleGood, PackLedger!Open, Unpacked
  <2>4. QED BY <2>3 DEF PackLedger!Next
<1>9. ASSUME NEW i \in Unpacked(p), packAt[p] # "done", Fails(p, i),
             UNCHANGED <<packAt, packItems, packed>>
      PROVE  PackLedger!Next
  <2>1. packFailures' = [packFailures EXCEPT ![p] = packFailures[p] \cup {i}]
    BY <1>1, <1>9 DEF Fails
  <2>2. PackLedger!SettleBad(p)
    BY <1>2, <1>9, <2>1 DEF PackLedger!SettleBad, PackLedger!Open, Unpacked
  <2>3. QED BY <2>2 DEF PackLedger!Next
<1>10. CASE DocumentsFail(p)
  <2>1. PICK e \in packing[p] :
          Fails(p, e.item) /\ UNCHANGED <<packAt, packItems, packed>>
    BY <1>10 DEF DocumentsFail
  <2>2. e.item \in Unpacked(p) /\ packAt[p] # "done"
    BY <1>1 DEF PackInv, PackPlaces, Unpacked
  <2>3. QED BY <1>9, <2>1, <2>2
<1>11. ASSUME NEW i \in packItems[p],
              \/ MissingExport(p, i) \/ AbsentMapping(p, i) \/ ConvertAgainFails(p, i)
              \/ MissingDump(p, i) \/ LoadAgainFails(p, i)
       PROVE  PackLedger!Next
  <2>1. /\ i \in Unpacked(p) /\ packAt[p] # "done" /\ Fails(p, i)
        /\ UNCHANGED <<packAt, packItems, packed>>
    BY <1>11 DEF MissingExport, AbsentMapping, ConvertAgainFails, MissingDump,
                 LoadAgainFails, Takes
  <2>2. QED BY <1>9, <2>1
<1>12. ASSUME NEW i \in packItems[p], WriteKtr(p, i) \/ WritePrpt(p, i)
       PROVE  UNCHANGED PackLedger!ledgerVars
  BY <1>12 DEF WriteKtr, WritePrpt, PackLedger!ledgerVars
<1>13. QED
  BY <1>3, <1>5, <1>6, <1>7, <1>8, <1>10, <1>11, <1>12 DEF PackStep

(* A pack implements the ledger: every record it listed is packed or in    *)
(* its failures, exactly one of them, before the pack is done.             *)
THEOREM PackLedgerKept == Spec => PackKeepsLedger
<1>1. Init => PackLedger!Init
  <2> SUFFICES ASSUME Init PROVE PackLedger!Init
    OBVIOUS
  <2>1. \A p \in Packs : packAt[p] # "done"
    BY DEF Init, PackInit
  <2>2. \A p \in Packs : (packAt[p] = "done") = FALSE
    BY <2>1
  <2>3. [p \in Packs |-> packAt[p] = "done"] = [p \in Packs |-> FALSE]
    BY <2>2, Zenon
  <2>4. QED BY <2>3 DEF Init, PackInit, PackLedger!Init
<1>2. IInv /\ [Next]_vars => [PackLedger!Next]_(PackLedger!ledgerVars)
  <2> SUFFICES ASSUME IInv, [Next]_vars
               PROVE  [PackLedger!Next]_(PackLedger!ledgerVars)
    OBVIOUS
  <2>1. CASE \E p \in Packs : StartPack(p) \/ PackStep(p)
    BY <2>1, PackStepRefines DEF IInv
  <2>2. CASE UNCHANGED packVars
    BY <2>2 DEF PackLedger!ledgerVars
  <2>3. QED
    BY <2>1, <2>2
    DEF Next, Requests, BatchRuns, OthersThanBatches, PackRuns, SweepRuns, PageRuns,
        RemoveSource
<1>3. QED
  BY <1>1, <1>2, Invariant, PTL DEF Spec, PackKeepsLedger, PackLedger!Spec


-----------------------------------------------------------------------------
(* What a sweep that runs alone, over sources that stay, knows of them.    *)

SweepPlace(w) ==
  /\ sweepAt[w] = "idle" =>
       /\ sweepItems[w] = {} /\ judging[w] = {} /\ stamped[w] = {}
       /\ \A s \in Places \X Files : bySource[w][s] = Nothing
  /\ \A i, j \in sweepItems[w] : i.file = j.file /\ i.name = j.name => i = j
  /\ \A i \in sweepItems[w] : <<i.file, i.name>> \in Recorded(mappings)
  /\ stamped[w] \subseteq sweepItems[w]
  /\ \A j \in judging[w] : j.item \in Unstamped(w) /\ sweepAt[w] = "next"
  /\ sweepAt[w] = "done" => Unstamped(w) = {}

SweepPlaces == \A w \in Sweeps : SweepPlace(w)

(* What by_source would hold for a source if it were read now, and the     *)
(* verdict of a row that goes with it.                                     *)
HeldNow(s) == IF Parses(FileAt(s[1], s[2])) THEN FileAt(s[1], s[2]) ELSE Torn

Deserved(i) ==
  LET c == FileAt(SourceOf(i)[1], i.file)
  IN IF SourceOf(i)[1] # "nowhere" /\ Parses(c) /\ i.name \in NamesIn(c)
        /\ <<c, i.name>> \in Ships
     THEN "SHIP" ELSE "REVIEW"

CurrentSweep(w) ==
  /\ \A s \in Places \X Files : bySource[w][s] # Nothing => bySource[w][s] = HeldNow(s)
  /\ \A j \in judging[w] : j.verdict = Deserved(j.item)
  /\ \A i \in stamped[w] : mappings[<<i.file, i.name>>].verdict = Deserved(i)

FreshSweeps == \A w \in Sweeps : ~touched[w] /\ Alone(w) => CurrentSweep(w)

VerdictsStay == \A k \in Keys : mappings'[k].verdict = mappings[k].verdict

LEMMA ListMappingsVerdicts ==
  ASSUME StoreTypeOK, ListMappings
  PROVE  VerdictsStay
<1>1. \A k \in Keys : Repair(mappings[k], k[1]).verdict = mappings[k].verdict
  <2> SUFFICES ASSUME NEW k \in Keys
               PROVE  Repair(mappings[k], k[1]).verdict = mappings[k].verdict
    OBVIOUS
  <2>1. mappings[k] \in Rows
    BY DEF StoreTypeOK
  <2>2. QED BY <2>1 DEF Repair, Rows
<1>2. QED BY <1>1 DEF ListMappings, RepairedMappings, VerdictsStay

LEMMA BatchStepVerdicts ==
  ASSUME BatchInv, StoreTypeOK, NEW b \in Batches, BatchStep(b)
  PROVE  VerdictsStay
<1>1. CASE RecordNext(b)
  <2> DEFINE f == Upload(b).file
             n == Head(unrecorded[b])
  <2>1. RecordMapping(f, n, Parsed(b))
    BY <1>1 DEF RecordNext
  <2>2. turn[b] \in Turns(b) /\ unrecorded[b] \in Seq(Names) /\ unrecorded[b] # << >>
    BY <1>1 DEF RecordNext, BatchInv, BatchPlaces, BatchTypeOK
  <2>3. f \in Files /\ n \in Names
    BY <2>2, TurnsOf DEF Upload
  <2> HIDE DEF f, n
  <2>4. <<f, n>> \in Keys
    BY <2>3 DEF Keys
  <2>5. QED BY <2>1, <2>4 DEF RecordMapping, StoreTypeOK, VerdictsStay
<1>2. CASE SummariseMappings(b)
  BY <1>2, ListMappingsVerdicts DEF SummariseMappings
<1>3. CASE ~RecordNext(b) /\ ~SummariseMappings(b)
  <2>1. UNCHANGED mappings
    BY <1>3 DEF BatchStep, SkipUpload, OpenSource, WriteSource, ParseExport,
                ExportConverted, ConvertReport, ConvertFails, SummariseReports, SummaryFails
  <2>2. QED BY <2>1 DEF VerdictsStay
<1>4. QED BY <1>1, <1>2, <1>3

LEMMA PackStepVerdicts ==
  ASSUME StoreTypeOK, NEW p \in Packs, StartPack(p) \/ PackStep(p)
  PROVE  VerdictsStay /\ UNCHANGED estate
<1>1. CASE StartPack(p) \/ ListPackMappings(p)
  BY <1>1, ListMappingsVerdicts DEF StartPack, ListPackMappings
<1>2. CASE PackStep(p) /\ ~ListPackMappings(p)
  <2>1. UNCHANGED <<mappings, estate>>
    BY <1>2 DEF PackStep, ListPackReports, ClosePack, WriteDocuments, DocumentsFail,
                MissingExport, AbsentMapping, ConvertAgainFails, WriteKtr, MissingDump,
                LoadAgainFails, WritePrpt
  <2>2. QED BY <2>1 DEF VerdictsStay
<1>3. QED BY <1>1, <1>2

LEMMA PageStepVerdicts ==
  ASSUME StoreTypeOK, PageTypeOK, PageStep
  PROVE  VerdictsStay /\ UNCHANGED estate
<1>1. CASE HealMapping
  <2>1. PICK k \in staleMappings : mappings' = [mappings EXCEPT ![k].place = "samples"]
    BY <1>1 DEF HealMapping
  <2>2. k \in Keys
    BY DEF PageTypeOK
  <2>3. mappings' = [mappings EXCEPT ![k] = [mappings[k] EXCEPT !.place = "samples"]]
    BY <2>1, <2>2 DEF StoreTypeOK
  <2>4. [mappings[k] EXCEPT !.place = "samples"].verdict = mappings[k].verdict
    BY <2>2 DEF StoreTypeOK, Rows
  <2>5. VerdictsStay
    BY <2>2, <2>3, <2>4 DEF StoreTypeOK, VerdictsStay
  <2>6. QED BY <1>1, <2>5 DEF HealMapping
<1>2. CASE FindStaleMapping \/ FindStaleReport \/ HealReport
  BY <1>2 DEF FindStaleMapping, FindStaleReport, HealReport, VerdictsStay
<1>3. QED BY <1>1, <1>2 DEF PageStep

(* Steps of the others: a sweep keeps its rows, and what it knows.         *)
LEMMA SweepsWait ==
  ASSUME IInv, StoreKept, SweepPlaces, FreshSweeps, VerdictsStay,
         UNCHANGED <<sweepAt, sweepItems, judging, bySource, stamped>>,
         \A w \in Sweeps : ~touched'[w] => ~touched[w] /\ UNCHANGED estate
  PROVE  SweepPlaces' /\ FreshSweeps'
<1>1. SweepPlaces'
  BY DEF SweepPlaces, SweepPlace, StoreKept, Unstamped
<1>2. ASSUME NEW w \in Sweeps, ~touched'[w], Alone(w)'
      PROVE  CurrentSweep(w)'
  <2>1. CurrentSweep(w) /\ UNCHANGED estate
    BY <1>2 DEF FreshSweeps, Alone
  <2>2. /\ \A s : HeldNow(s)' = HeldNow(s)
        /\ \A i : Deserved(i)' = Deserved(i)
    BY <2>1 DEF HeldNow, Deserved, SourceOf, Resolve, FileAt
  <2>3. \A i \in stamped[w] : <<i.file, i.name>> \in Keys
    BY DEF IInv, SweepTypeOK, SweepItems, Keys
  <2>4. QED BY <2>1, <2>2, <2>3 DEF CurrentSweep, VerdictsStay
<1>3. QED BY <1>1, <1>2 DEF FreshSweeps

LEMMA SourcesStay ==
  ASSUME UNCHANGED estate
  PROVE  /\ \A s : HeldNow(s)' = HeldNow(s)
         /\ \A i : Deserved(i)' = Deserved(i)
  BY DEF HeldNow, Deserved, SourceOf, Resolve, FileAt

(* Steps of a sweep: no other sweep is alone any more.                     *)
LEMMA SweepMoves ==
  ASSUME StoreKept, SweepPlaces, NEW w \in Sweeps, sweepAt'[w] # "idle",
         \A x \in Sweeps \ {w} :
           UNCHANGED <<sweepAt[x], sweepItems[x], judging[x], bySource[x], stamped[x]>>,
         SweepPlace(w)',
         ~touched'[w] /\ Alone(w)' => CurrentSweep(w)'
  PROVE  SweepPlaces' /\ FreshSweeps'
<1>1. \A x \in Sweeps \ {w} : SweepPlace(x)'
  BY DEF SweepPlaces, SweepPlace, StoreKept, Unstamped
<1>2. \A x \in Sweeps \ {w} : ~Alone(x)'
  BY DEF Alone
<1>3. QED BY <1>1, <1>2 DEF SweepPlaces, FreshSweeps

LEMMA StartSweepFresh ==
  ASSUME IInv, StoreKept, SweepPlaces, FreshSweeps, NEW w \in Sweeps, StartSweep(w)
  PROVE  SweepPlaces' /\ FreshSweeps'
<1> DEFINE row(k) == [file |-> k[1], name |-> k[2], place |-> RepairedMappings[k].place]
<1>1. /\ sweepAt \in [Sweeps -> {"idle", "next", "error", "done"}]
      /\ sweepItems \in [Sweeps -> SUBSET SweepItems]
  BY DEF IInv, SweepTypeOK
<1>2. /\ sweepAt[w] = "idle"
      /\ sweepAt' = [sweepAt EXCEPT ![w] = "next"]
      /\ sweepItems' = [sweepItems EXCEPT ![w] = {row(k) : k \in Recorded(mappings)}]
      /\ UNCHANGED <<estate, reports, judging, bySource, stamped>>
  BY DEF StartSweep
<1>3. /\ judging[w] = {} /\ stamped[w] = {}
      /\ \A s \in Places \X Files : bySource[w][s] = Nothing
  BY <1>2 DEF SweepPlaces, SweepPlace
<1>4. \A k \in Recorded(mappings) : row(k).file = k[1] /\ row(k).name = k[2] /\ k = <<k[1], k[2]>>
  BY DEF IInv, StoreTypeOK, Recorded, Keys
<1>5. sweepItems'[w] = {row(k) : k \in Recorded(mappings)}
  BY <1>1, <1>2
<1> HIDE DEF row
<1>6. \A i, j \in sweepItems'[w] : i.file = j.file /\ i.name = j.name => i = j
  BY <1>4, <1>5
<1>7. \A i \in sweepItems'[w] : <<i.file, i.name>> \in Recorded(mappings')
  BY <1>4, <1>5 DEF StoreKept
<1>8. sweepAt'[w] = "next"
  BY <1>1, <1>2
<1>9. SweepPlace(w)'
  BY <1>2, <1>3, <1>6, <1>7, <1>8 DEF SweepPlace, Unstamped
<1>10. CurrentSweep(w)'
  BY <1>2, <1>3 DEF CurrentSweep
<1>11. \A x \in Sweeps \ {w} :
         UNCHANGED <<sweepAt[x], sweepItems[x], judging[x], bySource[x], stamped[x]>>
  BY <1>1, <1>2
<1>12. QED BY <1>8, <1>9, <1>10, <1>11, SweepMoves

LEMMA HeldIsNow ==
  ASSUME NEW w \in Sweeps, CurrentSweep(w), NEW s \in Places \X Files
  PROVE  Held(w, s) = HeldNow(s)
  BY DEF CurrentSweep, Held, HeldNow

LEMMA VerdictIsDeserved ==
  ASSUME NEW i \in SweepItems, SourceOf(i)[1] # "nowhere"
  PROVE  Verdict(HeldNow(SourceOf(i)), i.name) = Deserved(i)
<1>1. SourceOf(i)[2] = i.file
  BY DEF SourceOf
<1>2. QED BY <1>1, ContentsAssumption DEF Verdict, HeldNow, Deserved, Parses

(* A verdict is written to its own row, which is there.                    *)
LEMMA StampWrites ==
  ASSUME StoreTypeOK, NEW k \in Recorded(mappings), NEW v \in Verdicts, SetMappingReview(k, v)
  PROVE  /\ mappings'[k].verdict = v
         /\ \A l \in Keys \ {k} : mappings'[l] = mappings[l]
<1>1. k \in Keys /\ mappings[k].content # Nothing
  BY DEF StoreTypeOK, Recorded
<1>2. mappings' = [mappings EXCEPT ![k] = [mappings[k] EXCEPT !.verdict = v]]
  BY <1>1 DEF SetMappingReview, StoreTypeOK
<1>3. [mappings[k] EXCEPT !.verdict = v].verdict = v
  BY <1>1 DEF StoreTypeOK, Rows
<1>4. QED BY <1>1, <1>2, <1>3 DEF StoreTypeOK

LEMMA SweepStepFresh ==
  ASSUME IInv, StoreKept, SweepPlaces, FreshSweeps, NEW w \in Sweeps, SweepStep(w)
  PROVE  SweepPlaces' /\ FreshSweeps'
<1>1. /\ sweepAt \in [Sweeps -> {"idle", "next", "error", "done"}]
      /\ sweepItems \in [Sweeps -> SUBSET SweepItems]
      /\ judging \in [Sweeps -> SUBSET Judgements]
      /\ bySource \in [Sweeps -> [Places \X Files -> Contents \cup {Nothing, Torn}]]
      /\ stamped \in [Sweeps -> SUBSET SweepItems]
      /\ StoreTypeOK
  BY DEF IInv, SweepTypeOK
<1>2. SweepPlace(w)
  BY DEF SweepPlaces
<1>3. ~touched[w] /\ Alone(w) => CurrentSweep(w)
  BY DEF FreshSweeps
<1>4. CASE Stamp(w)
  <2>1. PICK j \in judging[w] :
          /\ SetMappingReview(<<j.item.file, j.item.name>>, j.verdict)
          /\ stamped' = [stamped EXCEPT ![w] = stamped[w] \cup {j.item}]
          /\ judging' = [judging EXCEPT ![w] = {}]
          /\ UNCHANGED <<estate, reports, sweepAt, sweepItems, bySource, touched>>
    BY <1>1, <1>4 DEF Stamp
  <2> DEFINE k == <<j.item.file, j.item.name>>
  <2>2. j.item \in SweepItems /\ j.verdict \in Verdicts
    BY <1>1 DEF Judgements, Verdicts
  <2>3. /\ j.item \in sweepItems[w] /\ j.item \notin stamped[w]
        /\ k \in Recorded(mappings) /\ sweepAt[w] = "next"
    BY <1>2 DEF SweepPlace, Unstamped
  <2> HIDE DEF k
  <2>4. /\ mappings'[k].verdict = j.verdict
        /\ \A l \in Keys \ {k} : mappings'[l] = mappings[l]
    BY <1>1, <2>1, <2>2, <2>3, StampWrites DEF k
  <2>5. /\ stamped'[w] = stamped[w] \cup {j.item} /\ judging'[w] = {}
        /\ sweepItems' = sweepItems /\ sweepAt' = sweepAt
    BY <1>1, <2>1
  <2>6. SweepPlace(w)'
    <3>1. \A i \in sweepItems'[w] : <<i.file, i.name>> \in Recorded(mappings')
      BY <1>2, <2>5 DEF SweepPlace, StoreKept
    <3>2. QED BY <1>2, <2>3, <2>5, <3>1 DEF SweepPlace, Unstamped
  <2>7. ASSUME CurrentSweep(w) PROVE CurrentSweep(w)'
    <3>1. \A i \in stamped[w] : <<i.file, i.name>> \in Keys \ {k}
      <4> SUFFICES ASSUME NEW i \in stamped[w] PROVE <<i.file, i.name>> \in Keys \ {k}
        OBVIOUS
      <4>1. i \in SweepItems /\ i \in sweepItems[w] /\ i # j.item
        BY <1>1, <1>2, <2>3 DEF SweepPlace
      <4>2. ~(i.file = j.item.file /\ i.name = j.item.name)
        BY <1>2, <2>3, <4>1 DEF SweepPlace
      <4>3. QED BY <4>1, <4>2 DEF SweepItems, Keys, k
    <3>2. \A i \in stamped[w] : mappings'[<<i.file, i.name>>].verdict = Deserved(i)
      BY <2>4, <2>7, <3>1 DEF CurrentSweep
    <3>3. mappings'[<<j.item.file, j.item.name>>].verdict = Deserved(j.item)
      BY <2>4, <2>7 DEF CurrentSweep, k
    <3>4. /\ \A s : HeldNow(s)' = HeldNow(s)
          /\ \A i : Deserved(i)' = Deserved(i)
      BY <2>1, SourcesStay
    <3>5. \A i \in stamped'[w] : mappings'[<<i.file, i.name>>].verdict = Deserved(i)'
      BY <2>5, <3>2, <3>3, <3>4
    <3>6. QED BY <2>1, <2>5, <2>7, <3>4, <3>5 DEF CurrentSweep
  <2>8. \A x \in Sweeps \ {w} :
          UNCHANGED <<sweepAt[x], sweepItems[x], judging[x], bySource[x], stamped[x]>>
    BY <1>1, <2>1
  <2>9. ~touched'[w] /\ Alone(w)' => CurrentSweep(w)'
    BY <1>3, <2>1, <2>7 DEF Alone
  <2>10. QED BY <2>3, <2>5, <2>6, <2>8, <2>9, SweepMoves
<1>5. CASE FinishSweep(w)
  <2>1. /\ sweepAt' = [sweepAt EXCEPT ![w] = "done"] /\ sweepAt[w] = "next"
        /\ Unstamped(w) = {} /\ ListMappings
        /\ UNCHANGED <<estate, reports, sweepItems, judging, bySource, stamped, touched>>
    BY <1>5 DEF FinishSweep
  <2>2. VerdictsStay
    BY <1>1, <2>1, ListMappingsVerdicts
  <2>3. judging[w] = {}
    BY <1>2, <2>1 DEF SweepPlace
  <2>4. sweepAt'[w] = "done" /\ \A x \in Sweeps \ {w} : sweepAt'[x] = sweepAt[x]
    BY <1>1, <2>1
  <2>5. SweepPlace(w)'
    <3>1. \A i \in sweepItems'[w] : <<i.file, i.name>> \in Recorded(mappings')
      BY <1>2, <2>1 DEF SweepPlace, StoreKept
    <3>2. QED BY <1>2, <2>1, <2>3, <2>4, <3>1 DEF SweepPlace, Unstamped
  <2>6. ASSUME CurrentSweep(w) PROVE CurrentSweep(w)'
    <3>1. \A i \in stamped[w] : <<i.file, i.name>> \in Keys
      BY <1>1 DEF SweepItems, Keys
    <3>2. /\ \A s : HeldNow(s)' = HeldNow(s)
          /\ \A i : Deserved(i)' = Deserved(i)
      BY <2>1, SourcesStay
    <3>3. QED BY <2>1, <2>2, <2>6, <3>1, <3>2 DEF CurrentSweep, VerdictsStay
  <2>7. ~touched'[w] /\ Alone(w)' => CurrentSweep(w)'
    BY <1>3, <2>1, <2>4, <2>6 DEF Alone
  <2>8. QED BY <2>1, <2>4, <2>5, <2>7, SweepMoves
<1>6. ASSUME NEW i \in sweepItems[w], JudgeMissing(w, i)
      PROVE  SweepPlaces' /\ FreshSweeps'
  <2>1. /\ sweepAt[w] = "next" /\ i \in Unstamped(w) /\ SourceOf(i)[1] = "nowhere"
        /\ judging' = [judging EXCEPT ![w] = {[item |-> i, verdict |-> "REVIEW"]}]
        /\ UNCHANGED <<storeVars, sweepAt, sweepItems, bySource, stamped, touched>>
    BY <1>6 DEF JudgeMissing
  <2>2. judging'[w] = {[item |-> i, verdict |-> "REVIEW"]}
    BY <1>1, <2>1
  <2>3. SweepPlace(w)'
    BY <1>2, <2>1, <2>2 DEF SweepPlace, Unstamped, Recorded
  <2>4. Deserved(i) = "REVIEW"
    BY <2>1 DEF Deserved
  <2>5. ASSUME CurrentSweep(w) PROVE CurrentSweep(w)'
    <3>1. /\ \A s : HeldNow(s)' = HeldNow(s)
          /\ \A x : Deserved(x)' = Deserved(x)
      BY <2>1, SourcesStay
    <3>2. QED BY <2>1, <2>2, <2>4, <2>5, <3>1 DEF CurrentSweep
  <2>6. \A x \in Sweeps \ {w} :
          UNCHANGED <<sweepAt[x], sweepItems[x], judging[x], bySource[x], stamped[x]>>
    BY <1>1, <2>1
  <2>7. ~touched'[w] /\ Alone(w)' => CurrentSweep(w)'
    BY <1>3, <2>1, <2>5 DEF Alone
  <2>8. sweepAt'[w] # "idle"
    BY <2>1
  <2>9. QED BY <2>3, <2>6, <2>7, <2>8, SweepMoves
<1>7. ASSUME NEW i \in sweepItems[w], SourceOf(i)[1] # "nowhere",
             bySource' = [bySource EXCEPT ![w][SourceOf(i)] = Held(w, SourceOf(i))],
             UNCHANGED <<storeVars, sweepItems, stamped, touched>>
      PROVE  /\ \A x \in Sweeps \ {w} : bySource'[x] = bySource[x]
             /\ CurrentSweep(w) =>
                  /\ \A s \in Places \X Files :
                       bySource'[w][s] # Nothing => bySource'[w][s] = HeldNow(s)'
                  /\ \A x \in stamped'[w] :
                       mappings'[<<x.file, x.name>>].verdict = Deserved(x)'
                  /\ \A x : Deserved(x)' = Deserved(x)
                  /\ Verdict(Held(w, SourceOf(i)), i.name) = Deserved(i)
  <2> DEFINE src == SourceOf(i)
             h == Held(w, src)
  <2>1. i \in SweepItems
    BY <1>1
  <2>2. src \in Places \X Files
    BY <1>1, <1>7, <2>1, HeldTyped DEF IInv
  <2>3. bySource' = [bySource EXCEPT ![w] = [bySource[w] EXCEPT ![src] = h]]
    BY <1>1, <1>7
  <2>4. CurrentSweep(w) => h = HeldNow(src)
    BY <2>2, HeldIsNow
  <2>5. Verdict(HeldNow(src), i.name) = Deserved(i)
    BY <1>7, <2>1, VerdictIsDeserved
  <2>6. /\ \A s : HeldNow(s)' = HeldNow(s)
        /\ \A x : Deserved(x)' = Deserved(x)
    BY <1>7, SourcesStay
  <2> HIDE DEF src, h
  <2>7. \A s \in Places \X Files : bySource'[w][s] = IF s = src THEN h ELSE bySource[w][s]
    BY <1>1, <2>2, <2>3
  <2>8. \A x \in Sweeps \ {w} : bySource'[x] = bySource[x]
    BY <1>1, <2>3
  <2>9. CurrentSweep(w) =>
          \A s \in Places \X Files :
            bySource'[w][s] # Nothing => bySource'[w][s] = HeldNow(s)'
    BY <2>4, <2>6, <2>7 DEF CurrentSweep
  <2>10. CurrentSweep(w) =>
           \A x \in stamped'[w] : mappings'[<<x.file, x.name>>].verdict = Deserved(x)'
    BY <1>7, <2>6 DEF CurrentSweep
  <2>11. QED BY <2>4, <2>5, <2>6, <2>8, <2>9, <2>10 DEF src, h
<1>8. ASSUME NEW i \in sweepItems[w], Judge(w, i)
      PROVE  SweepPlaces' /\ FreshSweeps'
  <2> DEFINE j == [item |-> i, verdict |-> Verdict(Held(w, SourceOf(i)), i.name)]
  <2>1. /\ sweepAt[w] = "next" /\ i \in Unstamped(w) /\ SourceOf(i)[1] # "nowhere"
        /\ bySource' = [bySource EXCEPT ![w][SourceOf(i)] = Held(w, SourceOf(i))]
        /\ judging' = [judging EXCEPT ![w] = {j}]
        /\ UNCHANGED <<storeVars, sweepAt, sweepItems, stamped, touched>>
    BY <1>8 DEF Judge
  <2>2. judging'[w] = {j} /\ \A x \in Sweeps \ {w} : judging'[x] = judging[x]
    BY <1>1, <2>1
  <2>3. j.item = i /\ j.verdict = Verdict(Held(w, SourceOf(i)), i.name)
    OBVIOUS
  <2> HIDE DEF j
  <2>4. SweepPlace(w)'
    BY <1>2, <2>1, <2>2, <2>3 DEF SweepPlace, Unstamped, Recorded
  <2>5. ASSUME CurrentSweep(w) PROVE CurrentSweep(w)'
    <3>1. /\ \A s \in Places \X Files :
               bySource'[w][s] # Nothing => bySource'[w][s] = HeldNow(s)'
          /\ \A x \in stamped'[w] :
               mappings'[<<x.file, x.name>>].verdict = Deserved(x)'
          /\ Deserved(i)' = Deserved(i)
          /\ Verdict(Held(w, SourceOf(i)), i.name) = Deserved(i)
      BY <1>7, <2>1, <2>5
    <3>2. \A y \in judging'[w] : y.verdict = Deserved(y.item)'
      BY <2>2, <2>3, <3>1
    <3>3. QED BY <3>1, <3>2 DEF CurrentSweep
  <2>6. \A x \in Sweeps \ {w} :
          UNCHANGED <<sweepAt[x], sweepItems[x], judging[x], bySource[x], stamped[x]>>
    BY <1>7, <2>1, <2>2
  <2>7. ~touched'[w] /\ Alone(w)' => CurrentSweep(w)'
    BY <1>3, <2>1, <2>5 DEF Alone
  <2>8. sweepAt'[w] # "idle"
    BY <2>1
  <2>9. QED BY <2>4, <2>6, <2>7, <2>8, SweepMoves
<1>9. ASSUME NEW i \in sweepItems[w], ReviewRaises(w, i)
      PROVE  SweepPlaces' /\ FreshSweeps'
  <2>1. /\ sweepAt[w] = "next" /\ judging[w] = {} /\ SourceOf(i)[1] # "nowhere"
        /\ bySource' = [bySource EXCEPT ![w][SourceOf(i)] = Held(w, SourceOf(i))]
        /\ sweepAt' = [sweepAt EXCEPT ![w] = "error"]
        /\ UNCHANGED <<storeVars, sweepItems, judging, stamped, touched>>
    BY <1>9 DEF ReviewRaises
  <2>2. sweepAt'[w] = "error" /\ \A x \in Sweeps \ {w} : sweepAt'[x] = sweepAt[x]
    BY <1>1, <2>1
  <2>3. SweepPlace(w)'
    BY <1>2, <2>1, <2>2 DEF SweepPlace, Unstamped, Recorded
  <2>4. ASSUME CurrentSweep(w) PROVE CurrentSweep(w)'
    BY <1>7, <2>1, <2>4 DEF CurrentSweep
  <2>5. \A x \in Sweeps \ {w} :
          UNCHANGED <<sweepAt[x], sweepItems[x], judging[x], bySource[x], stamped[x]>>
    BY <1>7, <2>1, <2>2
  <2>6. ~touched'[w] /\ Alone(w)' => CurrentSweep(w)'
    BY <1>3, <2>1, <2>2, <2>4 DEF Alone
  <2>7. QED BY <2>2, <2>3, <2>5, <2>6, SweepMoves
<1>10. QED BY <1>4, <1>5, <1>6, <1>8, <1>9 DEF SweepStep

(* When a source changes, every sweep notes it.                            *)
LEMMA ChangesAreNoted ==
  ASSUME NoteChange, NEW w \in Sweeps, ~touched'[w]
  PROVE  ~touched[w] /\ UNCHANGED estate
  BY Zenon DEF NoteChange

(* Whatever batches, packs, listings and deletions run beside it: a sweep  *)
(* that was the only one, over sources nobody changed, leaves every row it *)
(* listed with the verdict its source deserves.                            *)
THEOREM FreshSweep == Spec => []FreshSweepIsCurrent
<1>1. Init => SweepPlaces /\ FreshSweeps
  BY DEF Init, SweepInit, SweepPlaces, SweepPlace, FreshSweeps, CurrentSweep, Unstamped
<1>2. IInv /\ SweepPlaces /\ FreshSweeps /\ [Next]_vars => SweepPlaces' /\ FreshSweeps'
  <2> SUFFICES ASSUME IInv, SweepPlaces, FreshSweeps, [Next]_vars
               PROVE  SweepPlaces' /\ FreshSweeps'
    OBVIOUS
  <2>1. StoreKept
    BY StepKeeps, UnchangedKept DEF IInv
  <2>2. ASSUME NEW b \in Batches, StartBatch(b) \/ BatchStep(b), OthersThanBatches
        PROVE  SweepPlaces' /\ FreshSweeps'
    <3>1. VerdictsStay
      BY <2>2, BatchStepVerdicts DEF StartBatch, IInv, VerdictsStay
    <3>2. QED BY <2>1, <2>2, <3>1, SweepsWait, ChangesAreNoted DEF OthersThanBatches
  <2>3. ASSUME NEW p \in Packs, StartPack(p) \/ PackStep(p), UNCHANGED sweepVars
        PROVE  SweepPlaces' /\ FreshSweeps'
    <3>1. VerdictsStay /\ UNCHANGED estate
      BY <2>3, PackStepVerdicts DEF IInv
    <3>2. QED BY <2>1, <2>3, <3>1, SweepsWait
  <2>4. CASE PageRuns
    <3>1. VerdictsStay /\ UNCHANGED estate
      BY <2>4, PageStepVerdicts DEF IInv, PageRuns
    <3>2. QED BY <2>1, <2>4, <3>1, SweepsWait DEF PageRuns
  <2>5. ASSUME NEW f \in Files, RemoveSource(f)
        PROVE  SweepPlaces' /\ FreshSweeps'
    BY <2>1, <2>5, SweepsWait, ChangesAreNoted DEF RemoveSource, VerdictsStay
  <2>6. ASSUME NEW w \in Sweeps, StartSweep(w) \/ SweepStep(w)
        PROVE  SweepPlaces' /\ FreshSweeps'
    BY <2>1, <2>6, StartSweepFresh, SweepStepFresh
  <2>7. CASE UNCHANGED vars
    BY <2>1, <2>7, SweepsWait DEF VerdictsStay
  <2>8. QED
    BY <2>2, <2>3, <2>4, <2>5, <2>6, <2>7
    DEF Next, Requests, BatchRuns, PackRuns, SweepRuns
<1>3. IInv /\ SweepPlaces /\ FreshSweeps => FreshSweepIsCurrent
  <2> SUFFICES ASSUME IInv, SweepPlaces, FreshSweeps, NEW w \in Sweeps,
                      sweepAt[w] = "done", ~touched[w], Alone(w), NEW i \in sweepItems[w]
               PROVE  mappings[<<i.file, i.name>>].verdict = Deserved(i)
    BY DEF FreshSweepIsCurrent, Deserved
  <2>1. i \in stamped[w]
    BY DEF SweepPlaces, SweepPlace, Unstamped
  <2>2. QED BY <2>1 DEF FreshSweeps, CurrentSweep
<1>4. QED BY <1>1, <1>2, <1>3, Invariant, PTL DEF Spec

-----------------------------------------------------------------------------
(* What the entries of a zip say of its records, when paths tell the       *)
(* records apart.                                                          *)

(* An entry is under the path of its own record, which is the one being    *)
(* written or was settled.                                                 *)
EntryKept(p, x, e) ==
  /\ x = Base(e.item, e.content)
  /\ e.item \in packItems[p]
  /\ e.item.kind = "report" => /\ e.content \in Versions(e.item.file)
                               /\ Kind[e.content] = "report"
  /\ e.item \in packed[p] \cup packFailures[p] \/ e \in packing[p]

PackKept(p) ==
  /\ \A i \in packItems[p] : IF i.kind = "etl" THEN i.name \in Names ELSE i.name = Nothing
  /\ \A i, j \in packItems[p] :
       i.kind = j.kind /\ i.file = j.file /\ i.name = j.name => i = j
  /\ \A x \in Bases : \A e \in artifact[p][x] : EntryKept(p, x, e)
  /\ \A d, e \in packing[p] : d = e
  /\ \A e \in packing[p] : artifact[p][Base(e.item, e.content)] = {e}
  /\ \A i \in packed[p] : \E x \in Bases : \E e \in artifact[p][x] :
       e.item = i /\ document[p][x] = {e}

OwnVersions == \A f \in Files : estate[f] \in Versions(f) \cup {Nothing, Torn}

(* The files of the estate hold what was uploaded under their name.        *)
LEMMA VersionsKept ==
  ASSUME IInv, OwnVersions, [Next]_vars
  PROVE  OwnVersions'
<1>1. estate \in [Files -> Contents \cup {Nothing, Torn}]
  BY DEF IInv, StoreTypeOK
<1>2. ASSUME NEW f \in Files, NEW c \in Versions(f) \cup {Nothing, Torn},
             estate' = [estate EXCEPT ![f] = c]
      PROVE  OwnVersions'
  BY <1>1, <1>2 DEF OwnVersions
<1>3. ASSUME NEW b \in Batches, turn[b] \in Turns(b)
      PROVE  /\ Upload(b).file \in Files
             /\ Upload(b).content \in Versions(Upload(b).file)
  <2> DEFINE Given == [file : Files, content : Contents]
  <2>1. Uploads[b] \in Seq(Given)
    BY UploadsAssumption
  <2>2. turn[b] \in DOMAIN Uploads[b]
    BY <1>3 DEF Turns
  <2> HIDE DEF Given
  <2>3. Uploads[b][turn[b]] \in Given
    BY <2>1, <2>2
  <2>4. Upload(b) \in [file : Files, content : Contents]
    BY <2>3 DEF Upload, Given
  <2>5. Upload(b) = [file |-> Upload(b).file, content |-> Upload(b).content]
    BY <2>4
  <2>6. QED BY <1>3, <2>4, <2>5 DEF Versions, Upload
<1>4. ASSUME NEW b \in Batches, BatchStep(b)
      PROVE  OwnVersions'
  <2>1. CASE OpenSource(b)
    BY <1>2, <1>3, <2>1 DEF OpenSource
  <2>2. CASE WriteSource(b)
    <3>1. turn[b] \in Turns(b)
      BY <2>2 DEF WriteSource, IInv, BatchInv, BatchPlaces
    <3>2. QED BY <1>2, <1>3, <2>2, <3>1 DEF WriteSource
  <2>3. CASE ~OpenSource(b) /\ ~WriteSource(b)
    <3>1. UNCHANGED estate
      BY <1>4, <2>3
      DEF BatchStep, SkipUpload, ParseExport, RecordNext, ExportConverted, ConvertReport,
          ConvertFails, SummariseMappings, SummariseReports, SummaryFails
    <3>2. QED BY <3>1 DEF OwnVersions
  <2>4. QED BY <2>1, <2>2, <2>3
<1>5. ASSUME NEW f \in Files, RemoveSource(f)
      PROVE  OwnVersions'
  BY <1>2, <1>5 DEF RemoveSource
<1>6. CASE UNCHANGED estate
  BY <1>6 DEF OwnVersions
<1>7. ASSUME NEW p \in Packs, StartPack(p) \/ PackStep(p)
      PROVE  UNCHANGED estate
  BY <1>7, PackStepVerdicts DEF IInv
<1>8. ASSUME NEW w \in Sweeps, StartSweep(w) \/ SweepStep(w)
      PROVE  UNCHANGED estate
  BY <1>8 DEF StartSweep, SweepStep, Stamp, FinishSweep, JudgeMissing, Judge, ReviewRaises
<1>9. PageStep => UNCHANGED estate
  BY PageStepVerdicts DEF IInv
<1>10. \A b \in Batches : StartBatch(b) => UNCHANGED estate
  BY DEF StartBatch
<1>11. QED
  BY <1>4, <1>5, <1>6, <1>7, <1>8, <1>9, <1>10
  DEF Next, Requests, BatchRuns, PackRuns, SweepRuns, PageRuns

-----------------------------------------------------------------------------
(* While a batch records an export, every mapping of the version it parsed *)
(* is in the store or still to record; no other job takes a row away.      *)

StillToRecord(b) == {unrecorded[b][i] : i \in 1..Len(unrecorded[b])}

RecordingOf(b) ==
  /\ Kind[Upload(b).content] # "report"
  /\ Parsed(b) \in Versions(Upload(b).file) /\ Parses(Parsed(b))
  /\ \A n \in NamesIn(Parsed(b)) :
       <<Upload(b).file, n>> \in Recorded(mappings) \/ n \in StillToRecord(b)

RecordedFully(b, t) ==
  LET f == Uploads[b][t].file
      c == parsed[<<b, t>>]
  IN IF Kind[Uploads[b][t].content] = "report"
     THEN f \in Recorded(reports)
     ELSE /\ c \in Versions(f) /\ Parses(c)
          /\ \A n \in NamesIn(c) : <<f, n>> \in Recorded(mappings)

RecordInv ==
  \A b \in Batches :
    /\ batchAt[b] = "record" => RecordingOf(b)
    /\ \A t \in converted[b] : RecordedFully(b, t)

LEMMA NamesInPipeline ==
  ASSUME NEW c \in Contents
  PROVE  NamesIn(c) = {Pipelines[c][i] : i \in 1..Len(Pipelines[c])}
<1>1. Pipelines[c] \in Seq(Names)
  BY PipelinesOf
<1>2. DOMAIN Pipelines[c] = 1..Len(Pipelines[c])
  BY <1>1
<1>3. QED BY <1>2 DEF NamesIn

LEMMA HeadOrTail ==
  ASSUME NEW s \in Seq(Names), s # << >>, NEW i \in 1..Len(s)
  PROVE  s[i] = Head(s) \/ \E j \in 1..Len(Tail(s)) : Tail(s)[j] = s[i]
<1>1. CASE i = 1
  BY <1>1
<1>2. CASE i # 1
  <2>1. i - 1 \in 1..Len(Tail(s)) /\ Tail(s)[i - 1] = s[i]
    BY <1>2
  <2>2. QED BY <2>1
<1>3. QED BY <1>1, <1>2

(* Rows only grow: what was recorded fully stays so.                       *)
LEMMA FullyStays ==
  ASSUME StoreKept, NEW b \in Batches, NEW t \in Nat, RecordedFully(b, t),
         parsed'[<<b, t>>] = parsed[<<b, t>>]
  PROVE  RecordedFully(b, t)'
  BY DEF RecordedFully, StoreKept, Versions, Turns

LEMMA RecordingStays ==
  ASSUME StoreKept, NEW b \in Batches, RecordingOf(b),
         UNCHANGED <<turn[b], Parsed(b), unrecorded[b]>>
  PROVE  RecordingOf(b)'
  BY DEF RecordingOf, StoreKept, StillToRecord, Upload, Versions, Turns

(* What was parsed for an upload is not read again.                        *)
ParsedStays(b) ==
  /\ \A x \in Batches \ {b} : turn[x] \in Turns(x) => Parsed(x)' = Parsed(x)
  /\ \A x \in Batches : \A t \in converted[x] : parsed'[<<x, t>>] = parsed[<<x, t>>]

(* A step of b that counts at most its turn as converted, and starts no    *)
(* recording: the others are as they were.                                 *)
LEMMA OthersStay ==
  ASSUME BatchInv, RecordInv, StoreKept, NEW b \in Batches,
         \A x \in Batches \ {b} :
           UNCHANGED <<batchAt[x], turn[x], unrecorded[x], converted[x]>>,
         ParsedStays(b),
         batchAt'[b] = "record" => RecordingOf(b)',
         \A t \in converted'[b] \ converted[b] : RecordedFully(b, t)'
  PROVE  RecordInv'
<1>1. \A x \in Batches : converted[x] \subseteq Nat
  BY DEF BatchInv, BatchTypeOK
<1>2. ASSUME NEW x \in Batches, NEW t \in converted[x] PROVE RecordedFully(x, t)'
  <2>1. t \in Nat /\ RecordedFully(x, t) /\ parsed'[<<x, t>>] = parsed[<<x, t>>]
    BY <1>1 DEF RecordInv, ParsedStays
  <2>2. QED BY <2>1, FullyStays
<1>3. ASSUME NEW x \in Batches \ {b}, batchAt'[x] = "record" PROVE RecordingOf(x)'
  <2>1. batchAt[x] = "record" /\ turn[x] \in Turns(x)
    BY <1>3 DEF BatchInv, BatchPlaces
  <2>2. UNCHANGED <<turn[x], Parsed(x), unrecorded[x]>>
    BY <2>1 DEF ParsedStays
  <2>3. QED BY <2>1, <2>2, RecordingStays DEF RecordInv
<1>4. QED BY <1>2, <1>3 DEF RecordInv

LEMMA BatchStepApart ==
  ASSUME BatchInv, NEW b \in Batches, StartBatch(b) \/ BatchStep(b)
  PROVE  \A x \in Batches \ {b} :
           UNCHANGED <<batchAt[x], turn[x], unrecorded[x], converted[x]>>
<1>1. /\ batchAt \in [Batches -> {"idle", "next", "write", "convert", "record",
                                  "reportRows", "done"}]
      /\ turn \in [Batches -> Nat]
      /\ parsed \in [Attempts -> Contents \cup {Nothing}]
      /\ unrecorded \in [Batches -> Seq(Names)]
      /\ converted \in [Batches -> SUBSET Nat]
  BY DEF BatchInv, BatchTypeOK
<1>2. CASE StartBatch(b) \/ OpenSource(b) \/ WriteSource(b) \/ ParseExport(b) \/ RecordNext(b)
  BY <1>1, <1>2 DEF StartBatch, OpenSource, WriteSource, ParseExport, RecordNext
<1>3. CASE SummariseMappings(b) \/ SummariseReports(b) \/ SummaryFails(b)
  BY <1>1, <1>3 DEF SummariseMappings, SummariseReports, SummaryFails
<1>4. CASE SkipUpload(b) \/ ConvertFails(b)
  BY <1>1, <1>4 DEF SkipUpload, ConvertFails, Proceed
<1>5. CASE ExportConverted(b) \/ ConvertReport(b)
  BY <1>1, <1>5 DEF ExportConverted, ConvertReport, Proceed
<1>6. QED BY <1>2, <1>3, <1>4, <1>5 DEF BatchStep

LEMMA ParsedOnce ==
  ASSUME BatchInv, NEW b \in Batches, StartBatch(b) \/ BatchStep(b)
  PROVE  ParsedStays(b)
<1>1. /\ parsed \in [Attempts -> Contents \cup {Nothing}]
      /\ turn \in [Batches -> Nat]
      /\ \A x \in Batches : turn[x] \in 1..(Len(Uploads[x]) + 1)
      /\ \A x \in Batches : converted[x] \subseteq 1..(turn[x] - 1)
  BY DEF BatchInv, BatchTypeOK, Settled
<1>2. ASSUME NEW x \in Batches, NEW t \in converted[x]
      PROVE  t \in Turns(x) /\ t # turn[x]
  <2>1. t \in 1..(turn[x] - 1) /\ Len(Uploads[x]) \in Nat /\ Turns(x) = 1..Len(Uploads[x])
    BY <1>1, TurnsOf
  <2>2. turn[x] \in Nat /\ turn[x] <= Len(Uploads[x]) + 1
    BY <1>1
  <2>3. QED BY <2>1, <2>2
<1>3. CASE ParseExport(b)
  <2>1. UNCHANGED turn /\ \E c : parsed' = [parsed EXCEPT ![<<b, turn[b]>>] = c]
    BY <1>3 DEF ParseExport
  <2>2. ASSUME NEW x \in Batches, NEW t \in Turns(x), x # b \/ t # turn[b]
        PROVE  parsed'[<<x, t>>] = parsed[<<x, t>>]
    BY <1>1, <2>1, <2>2, AttemptsOf
  <2>3. QED BY <1>2, <2>1, <2>2 DEF ParsedStays, Parsed
<1>4. CASE ~ParseExport(b)
  <2>1. UNCHANGED parsed
    BY <1>4 DEF StartBatch, BatchStep, SkipUpload, OpenSource, WriteSource, RecordNext,
                ExportConverted, ConvertReport, ConvertFails, Proceed, SummariseMappings,
                SummariseReports, SummaryFails
  <2>2. \A x \in Batches \ {b} : turn'[x] = turn[x]
    BY BatchStepApart
  <2>3. QED BY <2>1, <2>2 DEF ParsedStays, Parsed
<1>5. QED BY <1>3, <1>4

LEMMA BatchStepRecords ==
  ASSUME BatchInv, StoreTypeOK, RecordInv, OwnVersions, NEW b \in Batches, StartBatch(b) \/ BatchStep(b),
         StoreKept
  PROVE  RecordInv'
<1>1. /\ batchAt \in [Batches -> {"idle", "next", "write", "convert", "record",
                                  "reportRows", "done"}]
      /\ parsed \in [Attempts -> Contents \cup {Nothing}]
      /\ unrecorded \in [Batches -> Seq(Names)]
      /\ converted \in [Batches -> SUBSET Nat]
      /\ \A x \in Batches : batchAt[x] = "record" => turn[x] \in Turns(x)
      /\ \A x \in Batches : batchAt[x] = "convert" => turn[x] \in Turns(x)
  BY DEF BatchInv, BatchTypeOK, BatchPlaces
<1>2. \A x \in Batches \ {b} :
        UNCHANGED <<batchAt[x], turn[x], unrecorded[x], converted[x]>>
  BY BatchStepApart
<1>p. ParsedStays(b) /\ converted[b] \subseteq Nat
  BY ParsedOnce DEF BatchInv, BatchTypeOK
<1>3. CASE ParseExport(b)
  <2> DEFINE c == estate[Upload(b).file]
  <2>1. /\ Parses(c) /\ Kind[Upload(b).content] \in {"etl", "broken"}
        /\ Parsed(b)' = c /\ unrecorded'[b] = Pipelines[c]
        /\ UNCHANGED <<turn, converted>>
    BY <1>1, <1>3, AttemptsOf DEF ParseExport, Parsed
  <2>2. c \in Contents /\ c \in Versions(Upload(b).file)
    <3>1. Upload(b).file \in Files
      BY <1>1, <1>3, TurnsOf DEF ParseExport, Upload
    <3>2. QED BY <2>1, <3>1, ContentsAssumption DEF Parses, OwnVersions
  <2> HIDE DEF c
  <2>3. NamesIn(c) = {Pipelines[c][i] : i \in 1..Len(Pipelines[c])}
    BY <2>2, NamesInPipeline
  <2>4. RecordingOf(b)'
    BY <2>1, <2>2, <2>3, ContentsAssumption DEF RecordingOf, StillToRecord, Upload, Versions, Turns
  <2>5. QED BY <1>2, <2>1, <2>4, <1>p, OthersStay
<1>4. CASE RecordNext(b)
  <2> DEFINE f == Upload(b).file
             c == Parsed(b)
             s == unrecorded[b]
  <2>1. /\ batchAt[b] = "record" /\ s # << >> /\ s \in Seq(Names)
        /\ RecordMapping(f, Head(s), c)
        /\ unrecorded'[b] = Tail(s)
        /\ UNCHANGED <<turn, parsed, converted, batchAt>>
    BY <1>1, <1>4 DEF RecordNext
  <2>2. RecordingOf(b) /\ c \in Contents /\ f \in Files
    BY <1>1, <2>1, TurnsOf DEF RecordInv, BatchInv, BatchPlaces, Upload
  <2> HIDE DEF f, c, s
  <2>3. Head(s) \in Names
    BY <2>1
  <2>4. Recorded(mappings') = Recorded(mappings) \cup {<<f, Head(s)>>}
    BY <2>1, <2>2, <2>3, RecordMappingKeeps
  <2>5. ASSUME NEW n \in NamesIn(c)
        PROVE  <<f, n>> \in Recorded(mappings') \/ \E j \in 1..Len(Tail(s)) : Tail(s)[j] = n
    <3>1. <<f, n>> \in Recorded(mappings) \/ \E i \in 1..Len(s) : s[i] = n
      BY <2>2, <2>5 DEF RecordingOf, StillToRecord, f, c, s
    <3>2. CASE <<f, n>> \in Recorded(mappings)
      BY <2>4, <3>2
    <3>3. CASE \E i \in 1..Len(s) : s[i] = n
      <4>1. n = Head(s) \/ \E j \in 1..Len(Tail(s)) : Tail(s)[j] = n
        BY <2>1, <3>3, HeadOrTail
      <4>2. QED BY <2>4, <4>1
    <3>4. QED BY <3>1, <3>2, <3>3
  <2>6. Upload(b)' = Upload(b) /\ Parsed(b)' = c /\ Upload(b).file = f
    BY <2>1 DEF Upload, Parsed, c, f
  <2>7. RecordingOf(b)'
    <3>1. Kind[Upload(b).content] # "report" /\ Parses(c) /\ c \in Versions(f)
      BY <2>2 DEF RecordingOf, c, f
    <3>2. StillToRecord(b)' = {Tail(s)[i] : i \in 1..Len(Tail(s))}
      BY <2>1 DEF StillToRecord
    <3>3. QED BY <2>1, <2>5, <2>6, <3>1, <3>2 DEF RecordingOf, Versions, Turns
  <2>8. QED BY <1>2, <2>1, <2>7, <1>p, OthersStay
<1>5. CASE ExportConverted(b)
  <2>1. /\ batchAt[b] = "record" /\ unrecorded[b] = << >>
        /\ batchAt'[b] = "next"
        /\ converted'[b] = converted[b] \cup {turn[b]}
    BY <1>1, <1>5 DEF ExportConverted, Proceed
  <2>2. RecordingOf(b) /\ StillToRecord(b) = {} /\ Parsed(b) \in Contents
    BY <2>1 DEF RecordInv, StillToRecord, BatchInv, BatchPlaces
  <2>3. RecordedFully(b, turn[b])
    BY <2>2 DEF RecordingOf, RecordedFully, Upload, Parsed
  <2>4. turn[b] \in Nat
    BY DEF BatchInv, BatchTypeOK
  <2>5. \E t \in Nat : t = turn[b] /\ RecordedFully(b, t)'
    <3>1. parsed'[<<b, turn[b]>>] = parsed[<<b, turn[b]>>]
      BY <1>5 DEF ExportConverted, Proceed
    <3>2. QED BY <2>3, <2>4, <3>1, FullyStays
  <2>6. QED BY <1>2, <2>1, <2>5, <1>p, OthersStay
<1>6. CASE ConvertReport(b)
  <2>1. /\ Kind[Upload(b).content] = "report" /\ turn[b] \in Turns(b)
        /\ RecordReport(Upload(b).file, Upload(b).content)
        /\ batchAt'[b] = "next"
        /\ converted'[b] = converted[b] \cup {turn[b]}
    BY <1>1, <1>6 DEF ConvertReport, Proceed
  <2>2. Upload(b).file \in Files /\ Upload(b).content \in Contents
    BY <2>1, TurnsOf DEF Upload
  <2>3. Upload(b).file \in Recorded(reports')
    BY <2>1, <2>2, RecordReportKeeps
  <2>4. \A t \in {turn[b]} : RecordedFully(b, t)'
    BY <2>1, <2>3 DEF RecordedFully, Upload, Recorded
  <2>5. QED BY <1>2, <2>1, <2>4, <1>p, OthersStay
<1>7. CASE \/ StartBatch(b) \/ OpenSource(b) \/ WriteSource(b)
           \/ SummariseMappings(b) \/ SummariseReports(b) \/ SummaryFails(b)
  <2>1. batchAt'[b] # "record" /\ UNCHANGED converted
    BY <1>1, <1>7 DEF StartBatch, OpenSource, WriteSource, SummariseMappings,
                      SummariseReports, SummaryFails
  <2>2. QED BY <1>2, <2>1, <1>p, OthersStay
<1>8. CASE SkipUpload(b) \/ ConvertFails(b)
  <2>1. batchAt'[b] # "record" /\ UNCHANGED converted
    BY <1>1, <1>8 DEF SkipUpload, ConvertFails, Proceed
  <2>2. QED BY <1>2, <2>1, <1>p, OthersStay
<1>9. QED
  BY <1>3, <1>4, <1>5, <1>6, <1>7, <1>8 DEF BatchStep

(* Whatever the other batches, the pages and the deletions do meanwhile,   *)
(* an upload counted as converted has the whole of one version recorded.   *)
THEOREM ConvertedRecorded == Spec => []ConvertedIsRecorded
<1> DEFINE Inv == OwnVersions /\ RecordInv
<1>1. Init => Inv
  BY DEF Init, StoreInit, BatchInit, OwnVersions, RecordInv
<1>2. IInv /\ Inv /\ [Next]_vars => Inv'
  <2> SUFFICES ASSUME IInv, OwnVersions, RecordInv, [Next]_vars PROVE RecordInv'
    BY VersionsKept
  <2>1. StoreKept
    BY StepKeeps, UnchangedKept DEF IInv
  <2>2. CASE \E b \in Batches : StartBatch(b) \/ BatchStep(b)
    BY <2>1, <2>2, BatchStepRecords DEF IInv
  <2>3. CASE UNCHANGED batchVars
    <3>1. /\ \A b \in Batches : converted[b] \subseteq Nat
          /\ \A b \in Batches : \A t \in converted[b] : parsed'[<<b, t>>] = parsed[<<b, t>>]
      BY <2>3 DEF IInv, BatchInv, BatchTypeOK, batchVars
    <3>2. \A b \in Batches : \A t \in converted[b] : RecordedFully(b, t)'
      BY <2>1, <3>1, FullyStays DEF RecordInv
    <3>3. \A b \in Batches : UNCHANGED <<turn[b], Parsed(b), unrecorded[b]>>
      BY <2>3 DEF batchVars, Parsed
    <3>4. \A b \in Batches : batchAt[b] = "record" => RecordingOf(b)'
      BY <2>1, <3>3, RecordingStays DEF RecordInv
    <3>5. batchAt' = batchAt /\ converted' = converted
      BY <2>3 DEF batchVars
    <3>6. QED BY <3>2, <3>4, <3>5 DEF RecordInv
  <2>4. QED
    BY <2>2, <2>3
    DEF Next, Requests, BatchRuns, PackRuns, SweepRuns, PageRuns, RemoveSource
<1>3. Inv => ConvertedIsRecorded
  BY DEF RecordInv, RecordedFully, ConvertedIsRecorded
<1> HIDE DEF Inv
<1>4. QED BY <1>1, <1>2, <1>3, Invariant, PTL DEF Spec

(* Two records have two paths.                                             *)
LEMMA RecordsApart ==
  ASSUME PathsApart,
         NEW i \in PackItems, NEW j \in PackItems, NEW c \in Contents, NEW d \in Contents,
         IF i.kind = "etl" THEN i.name \in Names ELSE i.name = Nothing,
         IF j.kind = "etl" THEN j.name \in Names ELSE j.name = Nothing,
         i.kind = "report" => c \in Versions(i.file) /\ Kind[c] = "report",
         j.kind = "report" => d \in Versions(j.file) /\ Kind[d] = "report",
         ~(i.kind = j.kind /\ i.file = j.file /\ i.name = j.name)
  PROVE  Base(i, c) # Base(j, d)
<1>1. /\ i.kind \in {"etl", "report"} /\ i.file \in Files
      /\ j.kind \in {"etl", "report"} /\ j.file \in Files
  BY DEF PackItems
<1>2. CASE i.kind = "etl" /\ j.kind = "etl"
  <2>1. /\ <<i.file, i.name>> \in Keys /\ <<j.file, j.name>> \in Keys
        /\ <<i.file, i.name>> # <<j.file, j.name>>
    BY <1>1, <1>2 DEF Keys
  <2>2. QED BY <1>2, <2>1 DEF PathsApart, Base
<1>3. CASE i.kind = "etl" /\ j.kind = "report"
  <2>1. <<i.file, i.name>> \in Keys
    BY <1>1, <1>3 DEF Keys
  <2>2. QED BY <1>3, <2>1 DEF PathsApart, Base
<1>4. CASE i.kind = "report" /\ j.kind = "etl"
  <2>1. <<j.file, j.name>> \in Keys
    BY <1>1, <1>4 DEF Keys
  <2>2. QED BY <1>4, <2>1 DEF PathsApart, Base
<1>5. CASE i.kind = "report" /\ j.kind = "report"
  BY <1>1, <1>5 DEF PathsApart, Base
<1>6. QED BY <1>1, <1>2, <1>3, <1>4, <1>5

(* Listing a table gives one record per row.                               *)
LEMMA ListedOnce ==
  ASSUME StoreTypeOK
  PROVE  /\ \A i \in MappingItems : i.name \in Names
         /\ \A i, j \in MappingItems : i.file = j.file /\ i.name = j.name => i = j
         /\ \A i \in ReportItems : i.name = Nothing
         /\ \A i, j \in ReportItems : i.file = j.file => i = j
<1>1. \A k \in Recorded(mappings) : k[2] \in Names /\ k = <<k[1], k[2]>>
  BY DEF StoreTypeOK, Recorded, Keys
<1>2. QED BY <1>1 DEF MappingItems, ReportItems

LEMMA PackKeptStays ==
  ASSUME NEW p \in Packs, PackKept(p),
         UNCHANGED <<packItems[p], packing[p], artifact[p], document[p], packed[p],
                     packFailures[p]>>
  PROVE  PackKept(p)'
<1>1. \A x \in Bases : \A e \in artifact'[p][x] : EntryKept(p, x, e)'
  BY DEF PackKept, EntryKept
<1>2. \A e \in packing'[p] : artifact'[p][Base(e.item, e.content)] = {e}
  BY DEF PackKept
<1>3. \A i \in packed'[p] : \E x \in Bases : \E e \in artifact'[p][x] :
        e.item = i /\ document'[p][x] = {e}
  BY DEF PackKept
<1>4. QED BY <1>1, <1>2, <1>3 DEF PackKept

(* A record fails: its entry, if it had one, is settled with it.           *)
LEMMA FailsKept ==
  ASSUME PackInv, NEW p \in Packs, PackKept(p), NEW i, Fails(p, i),
         \A e \in packing[p] : e.item = i,
         UNCHANGED <<packItems, artifact, document, packed>>
  PROVE  PackKept(p)'
<1>1. packFailures'[p] = packFailures[p] \cup {i} /\ packing'[p] = {}
  BY DEF Fails, PackInv, PackTypeOK
<1>2. \A x \in Bases : \A e \in artifact'[p][x] : EntryKept(p, x, e)'
  BY <1>1 DEF PackKept, EntryKept
<1>3. QED BY <1>1, <1>2 DEF PackKept

(* The first entry of a record: nobody else's is under that path.          *)
LEMMA WriteKept ==
  ASSUME PathsApart, PackInv, NEW p \in Packs, PackKept(p), NEW i \in Unpacked(p),
         NEW s, NEW c \in Contents, packing[p] = {}, WriteArtifact(p, i, s, c),
         Base(i, c) \in Bases,
         i.kind = "report" => c \in Versions(i.file) /\ Kind[c] = "report",
         UNCHANGED <<packItems, document, packed, packFailures>>
  PROVE  PackKept(p)'
<1> DEFINE entry == [item |-> i, source |-> s, content |-> c]
           x == Base(i, c)
<1>1. /\ artifact \in [Packs -> [Bases -> SUBSET Entries]]
      /\ packItems \in [Packs -> SUBSET PackItems]
      /\ packing \in [Packs -> SUBSET Entries]
  BY DEF PackInv, PackTypeOK
<1>2. entry.item = i /\ entry.content = c
  OBVIOUS
<1>3. artifact' = [artifact EXCEPT ![p][x] = {entry}] /\ packing' = [packing EXCEPT ![p] = {entry}]
  BY DEF WriteArtifact
<1> HIDE DEF entry, x
<1>4. artifact' = [artifact EXCEPT ![p] = [artifact[p] EXCEPT ![x] = {entry}]]
  BY <1>1, <1>3
<1>5. /\ packing'[p] = {entry} /\ x \in Bases
      /\ \A y \in Bases : artifact'[p][y] = IF y = x THEN {entry} ELSE artifact[p][y]
  BY <1>1, <1>3, <1>4 DEF x
<1>6. i \in packItems[p] /\ i \notin packed[p] \cup packFailures[p]
  BY DEF Unpacked
<1>7. artifact[p][x] = {}
  <2> SUFFICES ASSUME NEW e \in artifact[p][x] PROVE FALSE
    OBVIOUS
  <2>1. EntryKept(p, x, e) /\ e \in Entries
    BY <1>1, <1>5 DEF PackKept
  <2>2. /\ e.item \in packItems[p] /\ e.item \in packed[p] \cup packFailures[p]
        /\ x = Base(e.item, e.content)
        /\ e.item.kind = "report" => e.content \in Versions(e.item.file) /\ Kind[e.content] = "report"
        /\ e.item \in PackItems /\ e.content \in Contents /\ i \in PackItems
    BY <1>1, <1>6, <2>1 DEF EntryKept, Entries
  <2>3. ~(i.kind = e.item.kind /\ i.file = e.item.file /\ i.name = e.item.name)
    BY <1>6, <2>2 DEF PackKept
  <2>4. Base(i, c) # Base(e.item, e.content)
    BY <1>6, <2>2, <2>3, RecordsApart DEF PackKept
  <2>5. QED BY <2>2, <2>4 DEF x
<1>8. EntryKept(p, x, entry)'
  BY <1>2, <1>5, <1>6 DEF EntryKept, x
<1>9. \A y \in Bases : \A e \in artifact'[p][y] : EntryKept(p, y, e)'
  <2> SUFFICES ASSUME NEW y \in Bases, NEW e \in artifact'[p][y] PROVE EntryKept(p, y, e)'
    OBVIOUS
  <2>1. CASE y = x
    BY <1>5, <1>8, <2>1
  <2>2. CASE y # x
    <3>1. EntryKept(p, y, e)
      BY <1>5, <2>2 DEF PackKept
    <3>2. QED BY <3>1 DEF EntryKept
  <2>3. QED BY <2>1, <2>2
<1>10. \A j \in packed'[p] : \E y \in Bases : \E e \in artifact'[p][y] :
         e.item = j /\ document'[p][y] = {e}
  <2> SUFFICES ASSUME NEW j \in packed[p]
               PROVE  \E y \in Bases : \E e \in artifact'[p][y] :
                        e.item = j /\ document[p][y] = {e}
    OBVIOUS
  <2>1. PICK y \in Bases : \E e \in artifact[p][y] : e.item = j /\ document[p][y] = {e}
    BY DEF PackKept
  <2>2. y # x
    BY <1>7, <2>1
  <2>3. QED BY <1>5, <2>1, <2>2
<1>11. artifact'[p][Base(entry.item, entry.content)] = {entry}
  BY <1>2, <1>5 DEF x
<1>12. QED BY <1>5, <1>9, <1>10, <1>11 DEF PackKept

(* The record is packed: its documents lie beside its artifact, and over   *)
(* nobody else's.                                                          *)
LEMMA DocumentsKept ==
  ASSUME PackInv, NEW p \in Packs, PackKept(p), NEW e \in packing[p],
         document' = [document EXCEPT ![p][Base(e.item, e.content)] = {e}],
         packed' = [packed EXCEPT ![p] = @ \cup {e.item}],
         packing' = [packing EXCEPT ![p] = {}],
         UNCHANGED <<packItems, artifact, packFailures>>,
         Base(e.item, e.content) \in Bases
  PROVE  PackKept(p)'
<1> DEFINE x == Base(e.item, e.content)
<1>1. /\ document \in [Packs -> [Bases -> SUBSET Entries]]
      /\ packed \in [Packs -> SUBSET PackItems]
      /\ packing \in [Packs -> SUBSET Entries]
  BY DEF PackInv, PackTypeOK
<1>2. artifact[p][x] = {e} /\ x \in Bases /\ \A d \in packing[p] : d = e
  BY DEF PackKept
<1>3. document' = [document EXCEPT ![p] = [document[p] EXCEPT ![x] = {e}]]
  BY <1>1
<1>4. e.item \notin packed[p]
  BY DEF PackInv, PackPlaces, Unpacked
<1> HIDE DEF x
<1>5. \A y \in Bases : document'[p][y] = IF y = x THEN {e} ELSE document[p][y]
  <2>1. document'[p] = [document[p] EXCEPT ![x] = {e}]
    BY <1>1, <1>3
  <2>2. document[p] \in [Bases -> SUBSET Entries]
    BY <1>1
  <2>3. QED BY <1>2, <2>1, <2>2
<1>6. packed'[p] = packed[p] \cup {e.item} /\ packing'[p] = {}
  BY <1>1
<1>7. \A y \in Bases : \A d \in artifact'[p][y] : EntryKept(p, y, d)'
  BY <1>2, <1>6 DEF PackKept, EntryKept
<1>8. \A j \in packed'[p] : \E y \in Bases : \E d \in artifact'[p][y] :
        d.item = j /\ document'[p][y] = {d}
  <2> SUFFICES ASSUME NEW j \in packed'[p]
               PROVE  \E y \in Bases : \E d \in artifact[p][y] :
                        d.item = j /\ document'[p][y] = {d}
    OBVIOUS
  <2>1. CASE j = e.item
    BY <1>2, <1>5, <2>1
  <2>2. CASE j # e.item
    <3>1. PICK y \in Bases : \E d \in artifact[p][y] : d.item = j /\ document[p][y] = {d}
      BY <1>6, <2>2 DEF PackKept
    <3>2. y # x
      BY <1>2, <2>2, <3>1
    <3>3. QED BY <1>5, <3>1, <3>2
  <2>3. QED BY <2>1, <2>2
<1>9. QED BY <1>6, <1>7, <1>8 DEF PackKept

(* The other packs are as they were.                                       *)
LEMMA PackStepApart ==
  ASSUME PackInv, NEW p \in Packs, StartPack(p) \/ PackStep(p), NEW q \in Packs \ {p}
  PROVE  UNCHANGED <<packItems[q], packing[q], artifact[q], document[q], packed[q],
                     packFailures[q]>>
<1>1. /\ packItems \in [Packs -> SUBSET PackItems]
      /\ packing \in [Packs -> SUBSET Entries]
      /\ artifact \in [Packs -> [Bases -> SUBSET Entries]]
      /\ document \in [Packs -> [Bases -> SUBSET Entries]]
      /\ packed \in [Packs -> SUBSET PackItems]
      /\ packFailures \in [Packs -> SUBSET PackItems]
  BY DEF PackInv, PackTypeOK
<1>2. CASE StartPack(p) \/ ListPackMappings(p) \/ ListPackReports(p) \/ ClosePack(p)
  BY <1>1, <1>2 DEF StartPack, ListPackMappings, ListPackReports, ClosePack
<1>3. CASE WriteDocuments(p) \/ DocumentsFail(p)
  BY <1>1, <1>3 DEF WriteDocuments, DocumentsFail, Fails
<1>4. ASSUME NEW i \in packItems[p],
             \/ MissingExport(p, i) \/ AbsentMapping(p, i) \/ ConvertAgainFails(p, i)
             \/ MissingDump(p, i) \/ LoadAgainFails(p, i)
      PROVE  UNCHANGED <<packItems[q], packing[q], artifact[q], document[q], packed[q],
                         packFailures[q]>>
  BY <1>1, <1>4 DEF MissingExport, AbsentMapping, ConvertAgainFails, MissingDump,
                    LoadAgainFails, Fails
<1>5. ASSUME NEW i \in packItems[p], WriteKtr(p, i) \/ WritePrpt(p, i)
      PROVE  UNCHANGED <<packItems[q], packing[q], artifact[q], document[q], packed[q],
                         packFailures[q]>>
  BY <1>1, <1>5 DEF WriteKtr, WritePrpt, WriteArtifact
<1>6. QED BY <1>2, <1>3, <1>4, <1>5 DEF PackStep

LEMMA PackStepKept ==
  ASSUME PathsApart, PackInv, StoreTypeOK, OwnVersions, NEW p \in Packs, PackKept(p),
         StartPack(p) \/ PackStep(p)
  PROVE  PackKept(p)'
<1>1. /\ packItems \in [Packs -> SUBSET PackItems]
      /\ packing \in [Packs -> SUBSET Entries]
      /\ artifact \in [Packs -> [Bases -> SUBSET Entries]]
      /\ packed[p] \cup packFailures[p] \subseteq packItems[p]
  BY DEF PackInv, PackTypeOK, PackPlaces
<1>2. CASE StartPack(p) \/ ClosePack(p)
  BY <1>2, PackKeptStays DEF StartPack, ClosePack
<1>3. CASE ListPackMappings(p)
  <2>1. /\ packItems'[p] = MappingItems /\ packAt[p] = "start"
        /\ UNCHANGED <<packing, artifact, document, packed, packFailures>>
    BY <1>1, <1>3 DEF ListPackMappings
  <2>2. packItems[p] = {} /\ packing[p] = {} /\ packed[p] = {}
    BY <1>1, <2>1 DEF PackInv, PackPlaces
  <2>3. \A x \in Bases : artifact[p][x] = {}
    BY <2>2 DEF PackKept, EntryKept
  <2>4. \A i \in MappingItems : i.kind = "etl"
    BY ListedItems
  <2>5. QED BY <2>1, <2>2, <2>3, <2>4, ListedOnce DEF PackKept
<1>4. CASE ListPackReports(p)
  <2>1. /\ packItems'[p] = packItems[p] \cup ReportItems /\ packAt[p] = "etl"
        /\ UNCHANGED <<packing, artifact, document, packed, packFailures>>
    BY <1>1, <1>4 DEF ListPackReports
  <2>2. /\ \A i \in packItems[p] : i.kind = "etl"
        /\ \A i \in ReportItems : i.kind = "report" /\ i.name = Nothing
    BY <2>1, ListedItems, ListedOnce DEF PackInv, PackPlaces
  <2>3. \A i, j \in packItems'[p] :
          i.kind = j.kind /\ i.file = j.file /\ i.name = j.name => i = j
    BY <2>1, <2>2, ListedOnce DEF PackKept
  <2>4. \A x \in Bases : \A e \in artifact'[p][x] : EntryKept(p, x, e)'
    BY <2>1 DEF PackKept, EntryKept
  <2>5. QED BY <2>1, <2>2, <2>3, <2>4 DEF PackKept
<1>5. CASE WriteDocuments(p)
  <2>1. PICK e \in packing[p] :
          /\ document' = [document EXCEPT ![p][Base(e.item, e.content)] = {e}]
          /\ packed' = [packed EXCEPT ![p] = @ \cup {e.item}]
          /\ packing' = [packing EXCEPT ![p] = {}]
          /\ UNCHANGED <<packItems, artifact, packFailures>>
    BY <1>5 DEF WriteDocuments
  <2>2. /\ e.item \in packItems[p] /\ e.item \in PackItems /\ e.content \in Contents
    BY <1>1, <2>1 DEF PackInv, PackPlaces, Unpacked, Entries
  <2>3. Base(e.item, e.content) \in Bases
    <3>1. e.item.kind = "etl" => <<e.item.file, e.item.name>> \in Keys
      BY <2>2 DEF PackKept, PackItems, Keys
    <3>2. QED BY <2>2, <3>1, BasesAssumption DEF Base
  <2>4. QED BY <2>1, <2>3, DocumentsKept
<1>6. CASE DocumentsFail(p)
  <2>1. PICK e \in packing[p] :
          Fails(p, e.item) /\ UNCHANGED <<packItems, artifact, document, packed>>
    BY <1>6 DEF DocumentsFail
  <2>2. \A d \in packing[p] : d.item = e.item
    BY DEF PackKept
  <2>3. QED BY <2>1, <2>2, FailsKept
<1>7. ASSUME NEW i \in packItems[p],
             \/ MissingExport(p, i) \/ AbsentMapping(p, i) \/ ConvertAgainFails(p, i)
             \/ MissingDump(p, i) \/ LoadAgainFails(p, i)
      PROVE  PackKept(p)'
  <2>1. Fails(p, i) /\ packing[p] = {} /\ UNCHANGED <<packItems, artifact, document, packed>>
    BY <1>7 DEF MissingExport, AbsentMapping, ConvertAgainFails, MissingDump,
                LoadAgainFails, Takes
  <2>2. QED BY <2>1, FailsKept
<1>8. ASSUME NEW i \in packItems[p], WriteKtr(p, i)
      PROVE  PackKept(p)'
  <2> DEFINE s == Source(i)
             c == Export(p, s)
  <2>1. /\ i \in Unpacked(p) /\ i \in PackItems /\ packAt[p] = "etl" /\ packing[p] = {}
        /\ HasExport(p, i) /\ WriteArtifact(p, i, s, c)
        /\ UNCHANGED <<packItems, document, packed, packFailures>>
    BY <1>1, <1>8 DEF WriteKtr, Takes
  <2>2. c \in Contents
    BY <2>1 DEF HasExport, Parses
  <2> HIDE DEF s, c
  <2>3. i.kind = "etl"
    BY <1>8, <2>1 DEF PackInv, PackPlaces
  <2>4. <<i.file, i.name>> \in Keys
    BY <1>8, <2>1, <2>3 DEF PackKept, PackItems, Keys
  <2>5. Base(i, c) \in Bases
    BY <2>3, <2>4, BasesAssumption DEF Base
  <2>6. QED BY <2>1, <2>2, <2>3, <2>5, WriteKept
<1>9. ASSUME NEW i \in packItems[p], WritePrpt(p, i)
      PROVE  PackKept(p)'
  <2> DEFINE s == <<i.place, i.file>>
             c == FileAt(i.place, i.file)
  <2>1. /\ i \in Unpacked(p) /\ i \in PackItems /\ packAt[p] = "reports" /\ packing[p] = {}
        /\ c \in Contents /\ Kind[c] = "report"
        /\ WriteArtifact(p, i, s, c)
        /\ UNCHANGED <<packItems, document, packed, packFailures>>
    BY <1>1, <1>9 DEF WritePrpt, Takes
  <2>2. i.kind = "report" /\ i.file \in Files
    BY <2>1 DEF PackInv, PackPlaces, PackItems
  <2>3. c \in Versions(i.file)
    <3>1. CASE i.place = "estate"
      <4>1. c = estate[i.file]
        BY <3>1 DEF FileAt
      <4>2. c # Nothing /\ c # Torn
        BY <2>1, ContentsAssumption
      <4>3. QED BY <2>2, <4>1, <4>2 DEF OwnVersions
    <3>2. CASE i.place # "estate"
      BY <2>1, <3>2 DEF FileAt, Versions
    <3>3. QED BY <3>1, <3>2
  <2>4. Base(i, c) \in Bases
    BY <2>1, <2>2, BasesAssumption DEF Base
  <2> HIDE DEF s, c
  <2>5. QED BY <2>1, <2>2, <2>3, <2>4, WriteKept
<1>10. QED
  BY <1>2, <1>3, <1>4, <1>5, <1>6, <1>7, <1>8, <1>9 DEF PackStep

(* Where the paths of a zip tell its records apart, the manifest is exact: *)
(* every record it counts has its own artifact beside its own documents,   *)
(* whatever else runs.                                                     *)
THEOREM ManifestExact == PathsApart => (Spec => []ManifestIsExact)
<1> SUFFICES ASSUME PathsApart PROVE Spec => []ManifestIsExact
  OBVIOUS
<1> DEFINE ZipInv == OwnVersions /\ \A p \in Packs : PackKept(p)
<1>1. Init => ZipInv
  <2> SUFFICES ASSUME Init PROVE ZipInv
    OBVIOUS
  <2>1. OwnVersions
    BY DEF Init, StoreInit, OwnVersions
  <2>2. \A p \in Packs : PackKept(p)
    BY DEF Init, PackInit, PackKept
  <2>3. QED BY <2>1, <2>2
<1>2. IInv /\ ZipInv /\ [Next]_vars => ZipInv'
  <2> SUFFICES ASSUME IInv, ZipInv, [Next]_vars PROVE ZipInv'
    OBVIOUS
  <2>1. OwnVersions'
    BY VersionsKept
  <2>2. ASSUME NEW p \in Packs, StartPack(p) \/ PackStep(p)
        PROVE  \A q \in Packs : PackKept(q)'
    <3>1. PackKept(p)'
      BY <2>2, PackStepKept DEF IInv
    <3>2. ASSUME NEW q \in Packs \ {p} PROVE PackKept(q)'
      <4>1. UNCHANGED <<packItems[q], packing[q], artifact[q], document[q], packed[q],
                        packFailures[q]>>
        BY <2>2, <3>2, PackStepApart DEF IInv
      <4>2. PackKept(q) /\ q \in Packs
        BY <3>2
      <4>3. QED BY <4>1, <4>2, PackKeptStays
    <3>3. QED BY <3>1, <3>2
  <2>3. ASSUME UNCHANGED packVars
        PROVE  \A q \in Packs : PackKept(q)'
    BY <2>3, PackKeptStays
  <2>4. \A q \in Packs : PackKept(q)'
    BY <2>2, <2>3
    DEF Next, Requests, BatchRuns, OthersThanBatches, PackRuns, SweepRuns, PageRuns,
        RemoveSource
  <2>5. QED BY <2>1, <2>4
<1>3. ZipInv => ManifestIsExact
  BY DEF PackKept, ManifestIsExact
<1> HIDE DEF ZipInv
<1>4. QED BY <1>1, <1>2, <1>3, Invariant, PTL DEF Spec

-----------------------------------------------------------------------------
(* The account of the whole estate, however its jobs interleave.           *)
THEOREM NothingLost == Spec => NothingIsLost
BY RowsStay, BatchLedgerKept, PackLedgerKept DEF NothingIsLost

=============================================================================
