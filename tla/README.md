# Verification of the Pentaho Migration Copilot

TLA+ models of the Pentaho Migration Copilot (a FastAPI server with a React page and a
command line, which converts Informatica, Talend and Crystal artifacts to Pentaho), TLC
configurations that check them on small instances, and TLAPS proofs of the theorems that
hold for every instance. Paths below are relative to `src/src/pentaho_migration/` unless
they begin with `src/`.

## 1. Inventory of the system

**How it runs.** One server process. Every endpoint is a plain `def`, so requests run in
the framework's thread pool; long work runs in daemon threads started by a request. State
shared by threads: seven in-memory job registries, one sqlite file, `config/estate/`,
`config/packs/`, a few JSON/properties files and one module-level dictionary for model
pulls. There is hardly a lock in the code; atomicity comes from the interpreter (one
dictionary operation) and from sqlite (one transaction).

| Component | State | Operations | What is hard about it |
|---|---|---|---|
| Job store (`jobs.py`) | registry of job dictionaries, per family | start (insert, evict by age and count), run (worker thread, terminal status), get (copy for the poller) | three kinds of threads and no lock; eviction iterates what others change |
| Job endpoints (`api/main.py`, `reports/api.py`) | seven registries | start, status, download | a worker that sets its own status; a key added after the result |
| Project store (`project.py`) | tables `mappings`, `reports` | upserts, verdict updates, listings that heal paths, export, import | one transaction each, several per job; healing tests and updates in separate steps |
| Estate batch (`estate.py`) | files under `config/estate/`, rows | save, read back, convert, record, summarise | several batches on one file; failure in the middle of an export |
| Deliverable pack (`estate.py`) | one zip, a parse cache | list, convert again, write entries, manifest | six ways to fail per record; sources change meanwhile |
| Review sweep, triage sweep (`api/main.py`) | verdict columns, a parse cache | list in the request, judge, stamp | rows listed early, stamped late |
| Release gate (`reports/release_check.py`, `reports/api.py`) | job, gate columns, render queue | render twice, compare, persist verdict | its own terminal status, a failure to persist |
| Model pull (`api/main.py`) | `_pull_state` | start, progress, status | check, then set |
| Render queue (`reports/proc.py`) | the free render slots | take a slot, run a program, give it back | exceptions between the two; checks that render twice |
| ETL pipeline (`parser/`, `mapper/`, `generator/`, `validator/`) | none between calls | parse, map, insert sorters, generate, review, score, diff | pure graph algorithms |
| Report pipeline (`reports/rpt_parser.py`, `formula_translator.py`, `record_selection.py`, `rpt_saved.py`, `prpt_writer.py`, `layout_qa.py`, `triage.py`) | none between calls | parse, bind names, translate formulas, generate and wrap SQL, repair the layout, write, judge | each step reads text the steps before wrote; many plausible wrong results |
| Legacy reports (`reports/xaction_parser.py`, `js_eval.py`, `jfreereport_parser.py`, `jfreereport_ext_parser.py`, `designer1_parser.py`) | none between calls | run the scripts, find and read the definition, build prompts and queries | an interpreter of a subset; two dialects and an object tree; names that change meaning |
| Render comparison (`reports/release_check.py`, `visual_diff.py`, `parity.py`) | none between calls | pair pages, sequence of rows, spans of statements, orphaned totals | decides by texts that repeat |
| Export conversion (`cli.py` with the ETL pipeline) | files of one directory | parse, map, translate, warn, write each file | a provider that fails in the middle |
| Expression translation (`llm/`) | settings file | translate, suggest, detect | fallbacks of an external service |
| Schema agent (`reports/schema_agent.py`) | JNDI properties file | probe, validate, save connection | read-modify-write of a file |
| Web page (`src/frontend/src`) | the open session, polling loops | upload, open from project, reset, reload | answers that arrive late |
| External tools, documents, doctor | none | subprocesses, layout | I/O |

**Interactions.** A start endpoint creates a job in its family's registry and a worker
thread; the worker calls the estate, store or pipeline code and writes the job's
dictionary; the page polls the status endpoint every 0.7-1 s until it is told `done` or
`error`. Batches write files and rows, sweeps and packs read both, listings read and heal
rows; none of them excludes another.

**What makes each correct.**
- Job store: the registry stays bounded under concurrent starts; every start is answered;
  a browser told `done` was given the payload; an outcome never changes; a failure has no
  payload; only finished jobs are popped for their age.
- Batch and pack: every upload and every stored record ends up in exactly one list
  (converted / packed, or failed / skipped) before the job reports; what is counted is
  recorded (batch) or has its own entries in the zip (pack); one pack takes all it takes
  from an export from one version of it; rows are never lost.
- Sweep: an undisturbed sweep leaves the verdict the source deserves on every row.
- Store: a listing heals only what is stale.
- Transfer: an import installs the upload it came with; what it replaces is kept in a
  `.bak`; an export sends a state of the store of its own request; the temporary file goes.
- ETL pipeline: inserting sorters changes neither what the parsed hops feed nor in which
  order, sorts every leg whose keys are known, once, by the right keys; a Talend job's calls
  run after one another exactly as its links say; the diff's counts add up and its verdict
  means what it says; the review ships no broken stream.
- Render queue: never more renders than slots, a slot comes back however its render ends,
  every check ends.
- Render comparison: renders that print the same pass; what is blamed on the conversion is
  something the original does not do; a total carried away from its statement is found.
- Report pipeline: a formula keeps the kind and the value of every branch; the query fetches
  the rows the report's joins and selection ask for; saved rows are bucketed as the live query
  would; bands are painted in the original's order; a name arrives at what computes it or at
  the list of work; READY is only said of what prints.
- Legacy reports: the scripts' result on the default inputs is JavaScript's; every column and
  prompt is fed; what a function hides or totals is what it named.
- Export conversion: rows take the source's way through the written files, with its keys and
  tables; workflows keep their order; what is not converted is marked and counted.

## 2. Modules

| Module | Models | Notes |
|---|---|---|
| `JobStore` | `jobs.py`, and what the job endpoints do to a job's dictionary | one step = one operation the interpreter performs without switching threads |
| `JobContract` | what a browser is promised: one outcome per job, told truly | abstract specification of `JobStore` |
| `JobStoreProofs` | theorems about `JobStore` | TLAPS |
| `ProjectStore` | the two tables, `config/estate/`, the samples; one operator per transaction | no behaviour of its own |
| `ProjectPage` | listings that heal paths step by step | |
| `EstateBatch` | `batch_convert_files` and its endpoint | |
| `DeliverablePack` | `build_deliverable_pack` and its endpoint | |
| `ReviewSweep` | the ETL review sweep | |
| `Ledger` | each item taken on is settled once, before the job closes | abstract specification of batch and pack |
| `Estate` | composition: any number of batches, packs, sweeps and listings over one store | requests, deletion of sources, properties |
| `EstateProofs` | theorems about `Estate` | TLAPS |
| `StoreTransfer` | `export_store`, `import_store` and their endpoints | |
| `StoreTransferProofs` | theorems about `StoreTransfer` | TLAPS |
| `Mapper` | `insert_required_sorters`, `leg_has_sorter`, `sort_keys_for`, over any graph | |
| `Orchestration` | `TalendParser.parse_workflows`, the hops `KjbGenerator` writes | |
| `ParityDiff` | `compare_csv` | |
| `Conversion` | composition of the three, and `review_pipeline`'s verdict | |
| `ConversionProofs` | theorems about `Mapper`, `Orchestration`, `ParityDiff` and `Conversion` | TLAPS |
| `RenderComparison` | `compare_renders`, `pair_pages`, `compare_visually`, over pages of abstract lines | operators |
| `ReleaseGate` | checks that share the render slots, as jobs or as calls of `run_release_check` | uses `RenderComparison` |
| `ReleaseGateProofs` | theorems about `ReleaseGate` | TLAPS |
| `FormulaTranslation` | `formula_translator`: chains of `+ - &` by kind, nested IF and Select | operators |
| `ReportQuery` | `generate_sql`, the folded selection, window and Top-N wraps, the saved rows | operators; a query is what the database answers |
| `ReportLayout` | from Crystal's objects to printed elements, underlays | operators |
| `LayoutFit` | `autofit_layout`, `lint_layout` | operators |
| `ReportConversion` | composition of the four: `_finish_model` to the bundle and `triage_one` | one step per call |
| `ReportNames` | summaries, binding of every reference, sub-report links, the names the writer defines | one step per reference |
| `ReportNamesProofs`, `ReportConversionProofs` | theorems about `ReportNames`, about `ReportConversion` | TLAPS |
| `ScriptValues` | `js_eval.py`: the interpreter, over tokens | RECURSIVE operators, TLC only |
| `ScriptPrograms` | JavaScript programs as trees and what they assign | the properties' reference |
| `LegacyLayout` | the simple, ext and Report Designer 1 parsers | operators |
| `ActionSequence` | `build_report_model` and the placeholders of `xaction_triage` | uses the three above |
| `ExportParsers` | the PowerCenter and the Talend parser | operators |
| `KettleFiles` | the rules mapper as a function; `KtrGenerator`, `KjbGenerator` | operators |
| `ExportConversion` | `pentaho-migrate convert` over an export, with `assess_source` and `build_report` | composition of the two above |
| `ExportConversionProofs` | theorems about `ExportConversion` | TLAPS |
| `MC...` | instances for TLC: one module per composition | bounds and definitions of constants |

### JobStore
A start request, its job, its worker thread and its browser share one identifier.
`Build` .. `Insert` .. `Respond` follow `JobStore.start` and `_evict`: the scan for aged
jobs and the `min()` over the remaining ones are iterations over a dictionary, so each
has a begin and an end, and fails (`ScanRaises`, RuntimeError) when another thread changed
the keys in between; a pop of a key that is gone fails too (`PopRaises`). The `WorkerStep`s
are `_run` with the three shapes its `run` takes: plain, the release gate's (sets its own
terminal status) and the pack's (adds a key after the result). The `ClientStep`s are the
status endpoint copying the dictionary item by item and the browser's loop. A worker clears `detail` before it stores the
payload, and may still raise in between, for a result may need a listing. `clock` is
bounded by `MaxClock`; it is frozen while a job is built, which loses nothing because
`created` is only compared with later readings.

### Estate
A content is a version of a source, abstracted to what jobs tell apart: its kind, the
mappings it holds in order, and (through `ReportBase`) the name a report carries. A row
remembers the version it was recorded from and whether its path leads to `config/estate/`
or to a shipped sample. `OpenSource`/`WriteSource` split `write_bytes`, so a reader may
find the file truncated, and two writers may leave a mixture (`Torn`). A batch takes its
uploads in order; a pack and a sweep take their records in any order, which includes the
order of the listing. A batch whose final listing raises ends without a summary; what it
recorded stays. Two history variables: `parsed`, what `parse_file` read for each upload, and
`touched`, has a source changed since the sweep's request? Deleting a source is a step of the
environment.

### StoreTransfer
A database is the set of its rows, or `Malformed`: pages under a right header that sqlite may
not make sense of, which `backup` copies or raises at. An import goes through `accepted` (its bytes have the
magic), `copying` (`copy2` to the `.bak` of the second), `opened` (`write_bytes` has emptied
the temporary file), `written`, `connected`, `closing` or `raising`. Temporary files are told
apart from their name: on a system that deletes open files (`UnlinksOpen`), the name may
lead to another file than the one a handle has open. `copy2` takes no lock, so a
transaction that commits before the temporary file is opened may tear the copy (`TearCopy`).
A snapshot is taken under sqlite's lock, and
sent with none; one that raises is rolled back, and who reads the file meanwhile finds it torn
(`Found`). `Stop` cuts all requests and
leaves the files. Three history variables serve the properties: `shared` (the imports that
overlapped another), `late` (the rows recorded since an import's copy began) and `states`
(what the store was since an export's request).

### Conversion
The mapper works on a parsed mapping: the type each step got from the rules, the steps
whose keys the export tells, and the hops as a list, for the list's order is what Merge Join
reads. `pass` and `stage` follow `insert_required_sorters` through targets, legs, the walk up
from a leg and the insertion; a walk pops one name per step. Two orders of the code are
left open - of the targets and of the walk's stack - since no result may depend on them. A
sorter's name is the target, the index of the hop and a counter, in place of the code's
"Sort rows (target #leg) n", so no name a parser gives can be one (`MappingsAssumption`).
`GroupBy` stands for Unique rows too; `NoStep`, `Ghosts` and the type "None" are a target not
chosen and names that only dangling hops use.

`Orchestration` follows one tRunJob call after the other through the links between
components, by the first link of a path. A link is OK (OnSubjobOk, OnComponentOk) or another
kind; PDI gets a hop on success or an unconditional one, nothing in between.

In `ParityDiff` a file is its header and rows with a cell, or None, for each column. Rows are
compared on the columns both files have, by any relation of cells (`Alike`): the tolerance is
reflexive and not transitive, and keys are looked up as they are spelled. A comparison refuses
what `DiffError` refuses, raises at a row cut short, or reports; `parity` is the report's, rounded
to four digits, in ten thousandths. `Conversion` runs the three one after the other and then the review, which reads
the pipeline the mapper left, the rounded parity and the row counts. Its checks of
expressions and connections and the Pan run are left out: they only add findings, so whatever
holds of what ships here holds in the code.

### ReleaseGate and RenderComparison
A line of a page is what the comparison can tell of it: its role (it names a customer, states
an amount in prose, is a row, a total, page furniture), whose it is and its amount. Findings
are computed in the code's order: numbers, missing lines, moved lines, pages, statements. A
statement's pages are the longest run of those that name it and no longer name that contains it.
`ReleaseGate`
takes each check through load, two renders - each `Enter`s a slot and either is `Rendered` or
`RenderFails` - compare, annotate. Whether a check runs as a job or as a call differs in what
a failed render becomes: an error, or the verdict UNAVAILABLE.

### ReportConversion
One step per call of `_finish_model`, over a dump that is one case of one of the families the
properties are about. `FormulaTranslation` keeps, beside the text the code emits, what the
engine makes of it, so that a wrong wrap is a wrong value. `ReportQuery` keeps a query as its
answer over small tables: joins in the order the loop of `generate_sql` finds them, `Fold`
adding to the last alternative of a top-level OR as the text splice does, `WithWindow` and
`Buckets` as the SQL they wrap around. `ReportLayout` classifies an object as `_parse_object`
does and says what is printed and noted for it; `LayoutFit` works in tenths of a point, the
precision `round` leaves. `Triage` gives the verdict from notes, lint and the SQL's status.

### ReportNames
One step per reference of an object and per call of its conditions, since binding has effects:
a field on a deviation renames a summary, a call in a text adds one that the next may find.
`BoundCondition` binds what `_AGG_IN_CONDITION` recognises: the mapped operations, of one group
at most. A name is a sequence of words, so that `Sum_A_B` may be one name for two calls; the
properties about calls are of those whose words no other call of the report joins to (`Alone`).
A running total without a field is dropped unless it is one of those written by hand
(`Fieldless`, `Carried`). `LiveOrListed` excuses four cases, each an operator of its own: a text
that spells a summary without a function, a link parameter shown in the child, a field that shows a
dropped running total, a cross-tab over a command.
`NameDumpsAssumption` says what a dump is: a reference is to something the report declares, a
summary is stored under the operation it is called by but for percentages, and the variants of a
running total agree where both name a group.

### ActionSequence
`ScriptValues` reads tokens as `js_eval.py` does, each reader answering with its position, the
scope and whether it stopped; a text that the tokenizer stops at runs no statement. Numbers are
integers, so `/` is between those that divide; a script above `max_len` has the outcome of an empty
one and is not modelled beside it. `ScriptPrograms` gives programs as trees, writes them down and
says what they assign: the property compares the two, the model uses only the first.
`LegacyLayout` has one operator per function of the three parsers; in the result each element
remembers the one it was read from (`of`), which only properties look at. The groups and functions
of a definition are listed in document order, those of a sub-report where it stands, so that a
later group of the same name overrides the earlier.

### ExportConversion
An export is instances, connectors, mapplets, targets, sessions and workflows, or the nodes and
connections of a Talend job. The steps are `convert`'s: parse and map all, translate mapping by
mapping (any subset of the pending expressions may be answered, the provider may be lost for
the rest, an answer may lack its translation, which ends the run: `Malformed`), warn, write each
`.ktr`, then each `.kjb`; a file written twice keeps the second.
`KettleFiles` has the sorters' insertion as one function, which `Mapper` has step by step.

## 3. Runs

| Run | Question | Result |
|---|---|---|
| `starts` | three concurrent starts over a registry of one | `RegistryBounded`; popped for age means finished (`AgedAreFinished`) |
| `polls` | a gate job and a pack job, both polled, with eviction | implements `JobContract`; under fairness, starts answered and browsers told |
| `pack` | two overlapping batches and a pack, sources deleted meanwhile | what is converted recorded whole in the version parsed, one version per export, manifest exact; ledgers and rows kept (`NothingIsLost`) |
| `sweep` | a batch uploading an export twice, a sweep, a listing, a deletion | verdict current when undisturbed, jobs end |
| `transfer` | two imports and two exports while a row is recorded, corrupt uploads, exceptions and a server stop, up to symmetry of the requests | a lone import installs its upload, what it replaces is backed up, exports are of their time |
| `convert` | every small mapping, Talend job and pair of outputs, each with the plainest of the other two | `LegsAreServed`: hops kept, legs sorted once and rightly; `CallsAreKept`; `DiffIsHonest`; `ReviewIsRight`; every conversion ends |
| `parity` | violation | with a key that repeats, outputs that differ in the columns they share pass as equivalent |
| `gate` | two statements broken over pages in every way in either render; three checks on two slots | `SlotsAreKept`, `VerdictIsFair`, `ChecksEnd` |
| `reports` | formulas, queries, layouts and objects of reports and a sub-report, to the verdict | `FormulasKeepTheirMeaning`, `QueryKeepsTheRows`, `SavedRowsMatch`, `LayoutKeepsItsOrder`, `ReadyPrintsItsLayout` |
| `bundle` | the names of a report and its sub-report | `LiveOrListed`, `CallsMeanOneThing`, `TotalsRestartWhereNamed`, `LinksArrive` |
| `legacy` | action sequences with scripts, prompts and definitions of either dialect | `DefaultRunIsKept`, `InputsAreFed`, `TogglesReach`, `GroupsKeepTheirTotals` |
| `exports` | PowerCenter folders and Talend jobs through the `convert` command | `RowsKeepTheirWay`, `KeysAreKept`, `TablesKeepTheirRows`, `NothingIsHidden`, `JobsRunTheirWorkflow` |

Several of these are conjunctions of named parts (`NothingIsLost`, `LegsAreServed`,
`CallsAreKept`, `DiffIsHonest`, `ReviewIsRight`, and those of the report, legacy and export
runs); the parts stand above the conjunction, each with its comment.

**Bounds.** `MaxJobs = 1` makes every start after the first evict, which is where the races
are; three handlers are enough for one to insert, one to pop and one to scan at once. Two
clock ticks separate an aged job from a fresh one in `starts`; `polls` has no clock, so only
the count evicts there. In the estate, one export in two versions
- the newer without one of the older's mappings - and one report are enough for a refresh,
a vanished mapping, a torn file, a cached parse that is out of date, and both kinds of zip
entries; two batches are enough for every overlap of a write and a read-back. Two
imports are what one temporary file needs to be shared, and one after the other what a
leftover needs to be found; two exports are what the one export file needs to be shared; two
seconds let a `.bak` be written over or kept; one stop leaves a leftover at every step. `transfer` has an operating system that keeps open files (the
product's own is Windows); the theorems hold for both.
In `convert` a target has two steps ahead of it and up to three hops among six: a cycle, a
hop from a missing step, one leg or two, a target that feeds a step ahead of it; a step ahead
may be a sorter, another target or without a type; `MaxPasses = 2` runs the mapper again over
its own result. Three components with up to three links hold chains through a component that
is no call, branches, cycles and two links between one pair. Two rows on each side over
two columns, with three cells of which two pairs are alike, hold a missing, an extra, a differing,
a repeated and a short row, and a key that is alike and not spelled alike; headers of no, one, two
and three columns, with each of three keys, hold no shared column, columns of one file only, and a
key that is not there.

In `gate` two customers, one name containing the other, have statements of four lines. The
conversion is broken into pages by any three cuts, the original by six sets of them (any, where
both are broken alike): a statement split, kept whole, starting in the middle of a page, a page
of its own for a total. The thresholds are the code's (`GroupCap`, `SparseLines`, `OrphanLines`,
...). Three checks on two slots, over one plain pair of renders, are one more than fit. In
`reports` a formula is a chain of up to three operands of nine, or a ladder of up to two rungs
over three rows; a query has three tables, up to two links in every order and direction, five
selections, three commands and eight groupings, or kinds of order within regions whose totals tie
once two regions became Others; a layout has one object of each of 31 kinds, an
underlay before three sections, or three objects out of a pool of nine; each dump varies one
family and keeps the others plain, for the steps on formulas, query and layout read different
parts of the model. In `bundle` two objects of up to four references, two summaries, one running total per
report in up to two variants and one link make every pair of an object that changes a name and one
that reads it. In `legacy` there
are two scripts of three statements, two elements, three groups and three functions, every way a
sequence can name its definition and both kinds of query; a sub-report in the header, the items or a
group's header has groups of other names and of the master's. In `exports` a mapping has two sources
and up to two uses of a mapplet, with every subset of nine connectors; a Joiner has up to four
of seven hops in every order; a workflow has two tasks under links of each condition; a Talend
job has four nodes with tables of two to four columns and up to two rows.

**Fairness.** Weak fairness of each start handler that is running, of each worker and of
each polling browser: threads the interpreter schedules and loops with no other exit.
Nobody is obliged to send a request, list a page or delete a file. A conversion is one call
in one thread, which the scheduler does not stop for ever: weak fairness of its next step.
`GateFairSpec` has weak fairness of each check's own steps: a render ends or raises, since both
are run with a timeout, and a semaphore wakes whoever waits. Nobody is obliged to ask for a
check. The report, name, legacy and export models are one call in one thread each; their
properties are safety, so they assume no fairness.

**Deadlock** is not checked: with every request answered and every job over, the system
rests.

## 4. What is proved

`JobStoreProofs` proves, for any set of jobs, any bounds and any mix of job shapes:
`TypeCorrect`, `Bounded`, `OutcomesAreFinal`, `FailuresAreEmpty`, `AgedFinished`,
`AnswersAreComplete` and `ContractKept` (the refinement of `JobContract`). The bound needs the strengthening
`SomeoneRecounts`: while there are too many jobs, some start handler is still to count them
and nothing has made its scan or pop fail. It is inductive because whoever disturbs a scan
is itself about to count - which is the argument the code relies on without stating it.
The outcome theorems rest on one invariant that relates the worker's position to the job's
status and result, and the browser's position to the parts of the answer it has read. The
proofs use only the named assumptions of `JobStore` on its constants.

`EstateProofs` proves, for any batches, packs, sweeps, files, contents and uploads:

- `TypeCorrect` and `RowsStay`, from `IInv`: the types, `BatchPlaces` and `Settled` (a
  batch's three lists together are exactly the uploads behind its turn), `PackPlaces` (what
  a pack is writing is a record it still owes) and `TakenFromCache` (an etl entry has the
  content its pack's cache holds for the source). Each transaction of the store has a lemma
  saying that it keeps the type of the rows and empties none.
- `OneVersion` is a consequence of `TakenFromCache`: a cache entry, once there, is never
  replaced by a step, so two entries of one source agree.
- `BatchLedgerKept` and `PackLedgerKept`, the refinements of `Ledger`: every step is a step
  of the ledger or a stutter of it. `Settled` and `PackPlaces` are what makes the item being
  settled an open one.
- `ConvertedRecorded` is about the version parsed (`parsed`), which is one of the versions uploaded
  or shipped under the file's name, and all of whose mappings are in the store. It needs one more
  invariant, `RecordInv`: while a batch records, each mapping of the version it parsed is in the
  store or still to record. It survives the
  other jobs because no step takes a row away (`RowsStay`).
- `NothingLost` puts the two refinements and `RowsStay` together, as the run states them.
- `FreshSweep` follows a sweep row by row (`FreshSweeps`): of the sources that did not change
  since its request, what its cache holds is what the file holds, and each row behind its turn
  has the verdict of that. `SweepPlaces` ties the row being judged to the rows it still owes.
- `ManifestExact` has a hypothesis, `PathsApart`: no two records of the pack write to one path.
  The code does not see to that (section 6, `estate.py:232`), so it is stated where it is used
  and not assumed of the model; `MCEstate` checks that its instance has it. `OwnVersions` says
  that a report's entries carry names of versions of its own source, and `PackKept` that an
  entry, once written, is found at its path until the manifest is, for nothing else is written
  there.

`StoreTransferProofs` proves, for any imports, exports, rows, uploads, bounds and either kind
of operating system, `TypeCorrect`, `LoneImport`, `BackedUp` and `FreshExports`. The invariant
says that of two imports that run both are known to overlap (`Overlaps`), that a lone import finds its
own upload in the file of the fixed name from its write to its copy (`OwnUpload`), and that
from its copy on one `.bak` holds the store but for late rows (`Copied`). `Overlaps` carries
the argument: beside a lone import the only step another can take is a refusal, which
touches nothing; so what `write_bytes` left is what `backup` finds, and since
`write_bytes` empties whatever file it meets, leftovers of errors and stops do not matter. `FreshExports` rests on `Fresh`: while
an export is under way, the store is in one of the states that are of its time, and from its
snapshot on so is what the file of the exports holds, unless another export is writing it. Checked
with one export, the property had held without an excuse for a response that begins while another
export writes; for any number of exports it was not to be proved, and two give the counterexample.

`ConversionProofs` proves everything the runs check of the mapper's safety, for mappings of any
size and shape and any number of passes: `MapperTypes`, `LegsStay`, `KeysFit`, `WalkAnswers`,
`OnlyKeylessAreBare` and `OnePassSuffices`. A leg is bare (`IsBare`) when some set of steps
holds its origin, is closed under feeding and has no sorter - a definition without recursion,
so that it can be reasoned about. The invariant has four parts beside the types. `Shape` says
what the hop list is: parsed hops in place, one behind the sorter that carries its index, all
others feeding sorters. `Walking` says that every set which shows the leg to be bare contains
the walk's frontier, and that what is seen is closed up to the frontier: a sorter found
refutes all such sets, and an empty frontier makes the names seen one. `Covering` says which
legs have their sorter by now; it is inductive because a set that shows a leg to be bare
after an insertion contains neither the new sorter nor the target's feeders that changed, so
it showed the same before (`InsertsBaresNothing`).

`LegsServed` is the conjunction of the three that the run checks together (`LegsAreServed`).

It proves of the job that is made of a Talend job's calls, for any components
and links - cycles included - and whatever order calls and frontier are taken in: `LinkTypes`,
`OrderKept` (one call comes after another in the PDI job exactly when a chain of links led there),
`SuccessFollowed`, `CallsRun` and their conjunction `CallsKept`. That one component is reached
from another is stated, like a bare leg, by sets that are closed under links, not by recursion.
`Frontier` says that what the walk has open was reached over a chain that begins with its label,
and that what it has seen is closed but for what is open; `Collected`, that a call which was left
has a hop to every call beyond it. From these two the hops and the chains are each other's least
closed sets. `CallsRun` uses that a list of links is finite: among the calls that come before one,
one with the fewest before it has none.

And of `compare_csv`, for outputs of any length, `DiffTypes`, `RowsAdd` (the
counts account for every row of both outputs, when the key is a key) and `PassEquivalent` (where there
is a report, the verdict passes exactly when the outputs have the same rows in the columns they share,
up to the 999 rows that a parity of four digits tells apart), together `DiffHonest`: each count is
the number of the rows behind the turn that it names. Cells, columns and which cells are alike are
any, but that a cell is alike itself. That the columns of one file only are not looked at is part of
the statement, and of section 6. It carries the theorems of the three components over to `Conversion`, whose
behaviours are theirs (`ConversionMaps`, `ConversionLinks`, `ConversionCompares`; hence
`ConversionServes`, `ConversionKeepsCalls`, `ConversionIsHonest`), and proves `ReviewFlags` and `Ships`, together `ReviewRight`: nothing moves
after the review (`Judged`), and a parity that rounds to 95% is at least 94.995%.

`ReleaseGateProofs` proves `SlotsTheorem` for any checks, pairs of renders and number of slots:
the free slots and the renders under way are always `Slots` together, so a slot comes back
however its render ended. The invariant is that sum; two lemmas say what entering and leaving a
set of checks does to its size, one that a move elsewhere does nothing, and each action is a case
of one of them.

It proves `VerdictTheorem` too, from `VerdictInv`: the verdict of a check is that of the findings
of its own case, which nothing touches once they are there. What remains is about one comparison.
A render beside the same one has no finding but information (`SameIsShipped`): the pages are
matched from the first to the last, and as no page's text is in another's each is its own best
match (`PairedWithItself`). A total pushed to the next page is blamed on its statement, or on the
amount where no name stands on the page (`SplitIsBlamed`), and the original, which has the
statement in one piece, is blamed for neither (`WholeIsNotBlamed`): the only page the statement
could own there is its own, and its amount stands on no other. Assumed of the constants is that
the cases are renders with rows (`CasesAssumption`), and that no customer is an amount.

`ReportNamesProofs` proves the four properties of `bundle` for every pair of dumps with
`NameDumpsAssumption`, of any number of objects, references, summaries, totals and links:

- `LinksTheorem`: before the first placement of a report each parameter has a name of its own
  (`OwnNames`); from it on the placement holds every link under the current name, and what the
  selection and the formulas ask for was renamed with it (`Handed`).
- `NamedRestart`: which variant of a running total `_parse_running_totals` keeps is the least of
  those that name a group, or of all; that there is one is a lemma on sets of numbers (proved
  from the well-foundedness of `<`), as is the count behind the order of the totals.
- `NamesLive` and `OneMeaning`, from `NamesInv`. `KnownInv` says of every summary known so far
  where it comes from - the dump, a total, a call - and that its function has the words of its
  call behind a number of prefixes `WF`, one for each time `_bind_window_summary` renamed it
  (`Wrapped`); a call's own words never begin with one, so two names agree only where the words
  do. `UsesInv` says that each name an object uses is backed: by a column, a formula, a
  parameter, a function or a window column; and a rename takes no name away that is used, for it
  is only done to a deviation, which has no function, and adds the window column. `BoundInv` says
  that the summary with the name a call was bound to computes that call. Both hold of the
  operators' results (`Backs`, `Honest`) and so of the steps.

`ReportConversionProofs` proves the five properties of `reports`, for every set of dumps, of any
size, with `DumpsAssumption` (formulas, links and Top-N are what the parser hands on; a database
answers finitely many rows, of numbers) and `LayoutAssumption` (sections are records of integers
and objects; the page is not narrower than its margins):

- `FormulasTheorem`. `AutoKeepsKind` goes along the chain: the two ends of the text emitted so far
  show its kind, as long as the chain goes on (`Shows`; `ExtensionShows` is one round of
  `add_expr`). The ladders go from the last rung to the first: what `Nested` and `Style` have made
  of the rungs from i on is what the first of those that hold gives (`FirstFrom`).
- `QueryTheorem`. Of a tree of tables each link is all that links some part of them to the rest;
  while it is no join, the tables that were placed lie within that part (`Reached`). A pass
  makes a new join or leaves no link that could bring in a table, so as many passes as there are
  links settle it (`PassesSettle`), then every table is placed and every link is a join. From
  there on each wrap of the SQL answers with the rows of what it wraps (`WrapAnswers`,
  `TopNAnswers`), and folding intersects a WHERE of at most one alternative (`FoldNarrows`).
- `ReadyTheorem`. An object that is written as a placeholder is counted as work, has a note that no
  rule knows, or is a lint finding (`QuietIsLive`); READY is given when there are none of these
  in the sections the bundle was painted from (`ReadyInv`).

- `SavedRowsTheorem`, from `SavedInv`: until `apply_topn` the SQL is a text whose rows show what
  the tables hold, ordered by the known keys (`Plain`), and from there on what `apply_topn` made of
  one; when the selection was folded, or there is none, it answers with the rows asked for until
  the triage. A group is whole when the terms up to one place agree on rows of one group and
  disagree on others (`WholeByOrder`): then no row of another group sorts between two of its own.
  Rolled up, the place is that of the last ranked group or of its key. That the ordering column of
  a pass tells the groups of one parent apart (`PassesTell`) needs that their totals differ, that
  none is called Others yet, and that no later pass writes the column again (`ColumnKept`); that
  the totals are numbers is an induction over the library's sum (`SumIsInt`). Offline, the passes
  are those of the SQL over the same rows (`OfflineInv`).
- `LayoutTheorem`, from `LayoutInv`: at each step the sections are what the parser, the underlays
  or the fit made of the dump's (`Parsed`, `Resolved`, `Repaired`), and the bundle is what was
  painted from them. Bands of a slot exclude
  each other, so they start at one height (`OneSlotOneStart`), and what an underlay has one of
  them as a target for, it has all of them (`SlotSharesTarget`, `PaintedThroughout`). A sorted band is its objects by
  distinct keys (`InKeyOrder`, `KeyOrder`), which puts the promoted pictures first
  (`PromoteParts`); a sweep moves text right or down and changes nothing else (`SweepNear`), so no
  picture overtakes another. Scaling rounds at most half a tenth of a point up at either end
  (`FitsTogether`), which the lint's tolerance of five covers; the bottom of what was moved or
  grown bounds the band (`BottomBounds`). `LintFinds` turns a finding of `lint_layout` into the
  object it is about, and `BandIsClean` shows that none is.

`ExportConversionProofs` proves `NothingHidden`, `JobsRunTheirs` and `TablesKept`, for every set of
exports with `ExportsAssumption` (each part of an export is a list, an export is of folders or of a
Talend job, whose components join conditions by `&&` or `||`; mapplets may be missing or used twice,
names may repeat). The invariant (`IInv`, which the
`exports` instance was checked for too) says what each stage has done (`StageInv`), and

- `PipelinesInv` that there is a well-formed pipeline under the name of each mapping, in order
  (`ParsedParts`, `Applied`);
- `PortsInv` that each derived port of a mapping is an expression of the step it should be at, and
  an untranslated one unless `--translate` was given. A parser keeps the steps there were and adds
  to them: `ExpandedParts` follows a mapplet into one of its uses, `InstancesKeep` goes along the
  instances of a mapping, `SortersKeep` along the joins that get sorters. An expression is found,
  open or translated, in what the generator writes of such a step (`DerivedShown`), but for the
  Group By that the property excuses;
- `FilesInv` that a file is that of a pipeline of its name, that each pipeline behind the turn has
  one, and has the report on what it now is; `WarningsInv` that the warnings count the pipelines
  as they stand;
- `JobsInv` that a job is that of a workflow of its name.

`TablesKept` takes one more invariant, `TablesInv`: the pipeline of a Talend job fits every node
whose name is its own (`Fit`). Its step has the node's tables row by row and the type its rule
gives, the sorters before it sort by the keys of its group, and a hop that leaves a sorter ends at the
step the sorter was put in for, so that what the file shows before a Group By is that step's own
sorter. The parser and the rules make such a pipeline (`ItemFits`), and the fit is kept by each
sorter put in (`SorterFitsIn`, along the legs in `LegsFit` and the joins in `SortersFit`; the hops
into a step stay where they are, so that its legs are counted once) and by a translation
(`TranslatedFits`). What remains is the table itself: after `j` values of row `i + 1` the reading
holds `i` whole rows and the first `j` columns of the next (`Held`, `RowsRead`), so that its columns
are those saved (`ColumnRead`). Two conditions came with the statement: a table is as its editor
saves it (`IsTable`: every row has the same columns in the same order; cut where a column comes
again, other runs of values give other rows), and the node's name is no other node's. It covers
now a tAggregateRow that has keys and no operations, and any number of columns.

The counts agree because the generator adds to its copy only sources of lookups, which have no
expressions, and replaces lookups in place (`LookupsKeep`, `KtrParts`, `FileCounts`). While it was
proved `JobsRunTheirWorkflow` turned out too strong beyond its instance: two workflows of one name
write one `.kjb`, of which the later stays, and a session may name no mapping, so that its
entry opens no file. It asks now for the only workflow of a name and for sessions with a mapping.
Of links it says that one on success waits for success and one without a condition for nothing;
any other condition is lost (section 6). `Malformed` ends a run before a file is written, and the
three properties hold of what is there: nothing.

The recursive definitions of these modules are recursive functions; that one has a solution, and
what holds of it, is proved from the least number for which it would fail (`LeastNumber`).

Three properties were too strong, which a proof attempt showed where the run's instance had not.
`StatedTotalIsFollowed` held the original's letter and total to one page, and no more. But where
its name is left on the page before, the second pass may blame the original for the statement
(its total is on a page without a name), and where a later statement of the page has a name that
is contained in this one's, for that one's total: `compare_renders` then takes the conversion's
split of the statement for one the original makes too. It asks now for a page of its own
(`InOnePiece`), and for a figure after every total of the original.
That a summary without a function may be spelled in a text was found by `NamesLive`: the property
had excused deviations only. That two inner groups may have one total, once the groups around them
were merged under Others, was found by `SavedRowsTheorem`: totals had to differ before the first
pass only. They differ now as each pass ranks them, and the run has queries with such ties.

Type correctness, and the theorems on final outcomes, empty failures and complete answers, are
not checked by a run of their own: what they say of an instance is in `KeepsContract` and in the
proofs.

## 5. Only model-checked

Liveness: `StartsAreAnswered`, `BrowsersAreTold`, `JobsEnd`, `ConversionEnds`, `ChecksEnd`.
Every property of `legacy`: scripts (`ScriptValues`), the tree of an ext report
(`LegacyLayout.ExtReport`) and the queries of nested reports (`ActionSequence.Stubbed`) are RECURSIVE
operators, as the code's own recursion over a tree of unknown depth is, and the prover reasons
about no module that reaches one.

Of `exports`, `RowsKeepTheirWay` and `KeysAreKept`. They go by what can be reached over connectors
and hops, which `After` computes in twelve rounds, enough for the instance and not for any mapping,
and which `_infer_update_keys` searches breadth first; a statement for every size would be another
property.

`ExportsAreFresh` excuses a response when another export was writing the file as the sending
began, or wrote it before the sending ended, and `ReplacedIsBackedUp` a copy during which a row
was recorded: the code guards neither (see `hazards`). What the report, legacy and export
properties excuse is named at each of them, and listed in section 6 where a document says
otherwise.

## 6. Disagreements found

The `parity` run has the counterexample of the finding in `PROJECT.json`: outputs that differ
pass as equivalent when a key repeats. These were met while modelling; the models have the
behaviour, and no property denies it.

Jobs and the store
- `jobs.py:61-62` sets the status `error` before its message, so a poll between the two is told
  of an error with the text of the item that was worked on ("status=error with the message in
  detail").
- `jobs.py:72-73` evicts a running job when all are running; its browser is told 404 "a server
  restart forgets them" while the worker goes on. The CHANGELOG says the oldest finished entries
  are evicted.
- `estate.py:232`: two reports of one name write the same zip entries, both are counted as
  packed, the zip yields the later; "the manifest says exactly what is inside".
- `project.py:89-93`: a listing that tested a path before an export was uploaded and recorded
  again points the fresh row at the sample.
- `project.py:186`: "the upload must BE a sqlite file" is a test of its first sixteen bytes; corrupt
  pages behind them may be copied over the store (`project.py:199-201`).
- `project.py:197`: two imports share `project_import_tmp.db`; the second may empty the file that
  the first is copying over the store.
- `triage_estate` (`xaction_triage.py:62`) says a file that does not parse is a record too; a
  layout that may not be read, or a corrupt jar, raises through the sweep over its folder.

Conversion
- `diff.py:77`: columns of one file only are not compared, so "PASS - outputs are equivalent on this
  data" (`diff.py:114`) is said of an output that lacks columns or has more. The finding of
  `parity` is of the shared columns alone.
- `diff.py:88-93` looks keys up as they are spelled, where values are trimmed and within a
  tolerance: rows whose keys differ by a blank are missing and extra.
- `diff.py:47-50`: a row cut short has None for its last columns, and `None.strip()` ends the run
  with an AttributeError that no caller expects; where columns or keys are refused (`DiffError`)
  there is no report either.

Reports
- `triage.py:51`: READY is said of a report whose SQL no database was there to check.
- A selection is folded with AND behind a WHERE whose top level may be an OR, and then binds to
  the last alternative only (`record_selection.py:98-107`).
- `apply_topn` orders ranked groups by their rank alone (`rpt_parser.py:1204-1212`): groups of one
  total interleave, also inner groups that tie only once those around them are merged under Others.
- `rpt_saved.py:278-282` buckets saved rows by their sum, whatever the Top-N ranks by.
- `rpt_parser.py:446-448` links the first placement of a sub-report only.
- `js_eval.py`: a script whose statements end with line breaks alone is skipped to its next
  semicolon and still counted as run to the end.
- `js_eval.py` reads a text that is no number as 0 in arithmetic and comparisons, where JavaScript
  has NaN; the scripts of the instance compare numbers.
- `rpt_parser.py:756-757` drops a running total without a field, with no note; a field that shows it
  refers to nothing.
- `xaction_parser.py:864` writes the character 1 where the group reference `\1` is meant.
- Two calls whose words join to one name get one function, and the later definition of that name
  counts (`rpt_parser.py:696`: `Sum` of `A_B` and of `A` by `B`; `PercentOfSum` of a group and of
  a wider one).
- A text that spells a summary whose operation has no function names that function all the same
  and carries no note (`rpt_parser.py:1383-1391`), where a field on it becomes a placeholder
  (`1516-1523`).
- In the simple dialect a summary keeps the group's name where the bundle names a group by its
  column; in the ext dialect a function that hides an element by name is dropped.
- `jfreereport_ext_parser.py:461-468` scans the groups of the whole file: a sub-report's group of
  the same name, behind the report's header, overrides the master's, whose totals then restart with
  the nested column.

Exports
- `kjb.py:7-8` says link conditions are preserved as entry descriptions; no description is written.
- `translate.py:12-13`: "Failures never block a conversion". An answer without `translation` raises
  a KeyError outside the `try` (`translate.py:418-424`), `cli.py:63` catches `TranslationError` only,
  and no file is written.
- `ktr.py:333` says a non-trivial aggregate stays a TODO; `ktr.py:189-193` leaves one that was
  translated out of both the TODOs and the Group By.
- `kjb.py:79` takes any condition that contains "Succeeded" for success, a negated one included;
  every other condition becomes an unconditional hop.
- `ktr.py:384-385` writes the first two inputs of a join; a third is left out with no note. An operator
  of a tFilterRow that it does not know becomes `=` (`ktr.py:580-581`).
- A tJoin becomes a Merge Join without keys; a Sorter sorts by every port, ascending
  (`ktr.py:285-289`).
- Table output and Insert / Update write to the name of the instance, not of the target's
  definition (`ktr.py:239`, `446`); a lookup returns ports that are no columns (`ktr.py:408-415`).
- `powercenter.py:105-108` keeps sessions by name over all workflows: the last one wins. Two
  mappings of one name overwrite one `.ktr`. Mapplets within mapplets are not expanded.
- `assess.py` counts as steps that need a database the inputs, outputs and lookups, but neither
  Insert / Update nor stored procedures.
- A group column that a tAggregateRow renames keeps its old name (`ktr.py:307-309`), and a
  tUniqRow's key table, as the sample jobs have it, holds none of the columns that
  `sort_keys_for` reads (`ktr.py:90-93`): such a step gets no sorter, where a table with
  `COLNAME` or `KEY_COLUMN` would.

## 7. Plan

Modelled: the job store, the estate with its jobs, the transfer of the store, the release gate
with its render queue, the Crystal and legacy report pipelines from their parsed objects to the
verdict, and the export conversion from the parsed XML to the written files. Left:

1. `Workbench`: the page's session - upload, conversion polling, open from project, reset,
   reload from the session cache - with answers that arrive late.
2. The files written in place (settings, JNDI connections) with two writers, and the model pull.
3. Report Designer 1 beyond its object tree, cross-tabs and charts.
4. That `Mapper`'s steps give `KettleFiles`' function, as a refinement.
5. Proofs: the parsers of `legacy` and `exports`, once their recursion over trees is a recursive
   function over paths.

## 8. Not modelled, and why

Decoders of binary and XML formats, fonts and geometry beyond the bands' layout, document
layout, subprocess wrappers and the environment report have no state and no control beyond
iteration over their input; what other components see of them (it parses or it does not, the
lines of a page, whether two pages look alike) is a constant of the models that use them. Hours,
costs and effort are sums of constants. The prompt and the answer of a language model are
external: an expression is answered, or not. Liveness proofs, `ENABLED` and induction over data
are outside the prover's reach and stay with TLC.
