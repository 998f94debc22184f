------------------------------- MODULE KettleFiles -------------------------------
(***************************************************************************)
(* The rules mapper as one function of a pipeline, and the two generators: *)
(* KtrGenerator writes a pipeline as a transformation, KjbGenerator a      *)
(* workflow as a job.  Mapper has the sorters' insertion step by step; what*)
(* is here is what the files are made from.                                *)
(***************************************************************************)
EXTENDS ExportParsers

(* powercenter_to_pdi.yaml and talend_to_pdi.yaml, the types that are told *)
(* apart here.                                                             *)
TypesWithRule ==
  {"Source Qualifier", "Source", "Expression", "Aggregator", "Sorter", "Filter", "Router", "Joiner",
   "Target", "Lookup Procedure", "Update Strategy", "Stored Procedure",
   "tOracleInput", "tMap", "tAggregateRow", "tSortRow", "tFilterRow", "tJoin", "tOracleOutput",
   "tUniqRow", "tRunJob", "tFileInputDelimited", "tFileOutputDelimited"}
PdiOfType == [t \in TypesWithRule |->
  CASE t \in {"Source Qualifier", "Source", "tOracleInput"} -> "TableInput"
    [] t \in {"Expression", "tMap"} -> "ScriptValueMod"
    [] t \in {"Aggregator", "tAggregateRow"} -> "GroupBy"
    [] t \in {"Sorter", "tSortRow"} -> "SortRows"
    [] t \in {"Filter", "tFilterRow"} -> "FilterRows"
    [] t = "Router" -> "SwitchCase"
    [] t \in {"Joiner", "tJoin"} -> "MergeJoin"
    [] t \in {"Target", "tOracleOutput"} -> "TableOutput"
    [] t = "Lookup Procedure" -> "StreamLookup"
    [] t = "Update Strategy" -> "InsertUpdate"
    [] t = "Stored Procedure" -> "DBProc"
    [] t = "tUniqRow" -> "Unique"
    [] t = "tRunJob" -> "Dummy"
    [] t = "tFileInputDelimited" -> "CsvInput"
    [] t = "tFileOutputDelimited" -> "TextFileOutput"]
ReviewedTypes ==
  {"Expression", "Filter", "Router", "Update Strategy", "Stored Procedure", "tMap", "tFilterRow", "tJoin", "tRunJob"}

(* No rule leaves the step manual and a note; an expression still to be    *)
(* translated makes an automatic step one to review.                       *)
Ruled(step) ==
  IF step.type \notin TypesWithRule THEN step
  ELSE [step EXCEPT !.pdi = PdiOfType[step.type],
          !.confidence = IF step.type \in ReviewedTypes \/ step.exprs # << >>
                         THEN "review" ELSE "auto"]

-----------------------------------------------------------------------------
NeedsSort == {"GroupBy", "MergeJoin", "Unique"}

HasStep(p, n) == \E k \in DOMAIN p.steps : p.steps[k].name = n
StepNamed(p, n) == p.steps[SelectInSeq(p.steps, LAMBDA s : s.name = n)]
PdiOf(p, n) == IF HasStep(p, n) THEN StepNamed(p, n).pdi ELSE None

(* The hops into a step, in the order of the list, which is the order of a *)
(* Merge Join's inputs.                                                    *)
LegsOf(p, n) == Those([k \in DOMAIN p.hops |-> k], LAMBDA k : p.hops[k][2] = n)
Incoming(p, n) == [j \in DOMAIN LegsOf(p, n) |-> p.hops[LegsOf(p, n)[j]][1]]
Outgoing(p, n) ==
  LET ks == SelectSeq([k \in DOMAIN p.hops |-> k], LAMBDA k : p.hops[k][1] = n)
  IN  [j \in DOMAIN ks |-> p.hops[ks[j]][2]]

FieldNames(fields) == [k \in DOMAIN fields |-> fields[k].name]

(* The rows of a Talend table.                                             *)
TableRows(step, t) == IF t \in DOMAIN step.attr.tables THEN step.attr.tables[t] ELSE << >>
Column(rows, c) == [k \in DOMAIN rows |-> rows[k][c]]

(* Group keys: Talend's table, else the ports marked GROUPBY, and those    *)
(* without a mark or an expression.                                        *)
GroupKeys(step) ==
  LET derived == {step.exprs[k].field : k \in DOMAIN step.exprs}
  IN  IF TableRows(step, "GROUPBYS") # << >> THEN Column(TableRows(step, "GROUPBYS"), "INPUT_COLUMN")
      ELSE FieldNames(SelectSeq(step.fields, LAMBDA f :
             f.kind = "GROUPBY" \/ (f.kind = "plain" /\ f.name \notin derived)))

(* The keys of unique rows, from either of two tables and either of two    *)
(* columns.                                                                *)
CellOf(row, c) == IF c \in DOMAIN row THEN row[c] ELSE ""
UniqueKey(row) ==
  IF CellOf(row, "COLNAME") # "" THEN CellOf(row, "COLNAME") ELSE CellOf(row, "KEY_COLUMN")
UniqueKeys(step) ==
  LET rows == TableRows(step, IF TableRows(step, "UNIQUE_KEY") # << >> THEN "UNIQUE_KEY" ELSE "KEYS")
  IN  Those([k \in DOMAIN rows |-> UniqueKey(rows[k])], LAMBDA c : c # "")

SortKeys(step, leg) ==
  CASE step.pdi = "GroupBy" -> GroupKeys(step)
    [] step.pdi = "MergeJoin" ->
         [k \in DOMAIN step.attr.pairs |-> step.attr.pairs[k][IF leg = 1 THEN 1 ELSE 2]]
    [] step.pdi = "Unique" -> UniqueKeys(step)

(* leg_has_sorter: up the hops, ending at steps that need sorting.         *)
Above(p, names) ==
  names \cup {p.hops[k][1] : k \in {k \in DOMAIN p.hops :
                /\ p.hops[k][2] \in names
                /\ HasStep(p, p.hops[k][2])
                /\ PdiOf(p, p.hops[k][2]) \notin NeedsSort}}
HasSorter(p, start) ==
  \E n \in FoldLeft(LAMBDA names, h : Above(p, names), {start}, p.hops) :
    PdiOf(p, n) = "SortRows"

Sorter(target, leg, keys) ==
  [name |-> [target.name EXCEPT !.role = "sorter", !.leg = leg],
   type |-> "Sort rows", pdi |-> "SortRows", confidence |-> "review",
   fields |-> [k \in DOMAIN keys |-> [name |-> keys[k], kind |-> "plain"]],
   exprs |-> << >>, attr |-> NoAttributes]

(* The sorter takes the place of the leg's origin in the leg's own hop.    *)
WithSorter(p, target, leg) ==
  LET k == LegsOf(p, target.name)[leg]
      keys == SortKeys(target, leg)
      sorter == Sorter(target, leg, keys)
      at == SelectInSeq(p.steps, LAMBDA s : s.name = target.name)
  IN  IF keys = << >> \/ HasSorter(p, p.hops[k][1]) THEN p
      ELSE [p EXCEPT !.steps = InsertAt(@, at, sorter),
              !.hops = Append([@ EXCEPT ![k][1] = sorter.name], <<p.hops[k][1], sorter.name>>)]

LegsSorted(p, target) ==
  LET legs == Len(LegsOf(p, target.name))
      after[n \in 0..legs] == IF n = 0 THEN p ELSE WithSorter(after[n - 1], target, n)
  IN  after[legs]

WithSorters(p) ==
  LET targets == Those(p.steps, LAMBDA s : s.pdi \in NeedsSort)
      after[n \in 0..Len(targets)] == IF n = 0 THEN p ELSE LegsSorted(after[n - 1], targets[n])
  IN  after[Len(targets)]

Apply(p) == WithSorters([p EXCEPT !.steps = [k \in DOMAIN @ |-> Ruled(@[k])]])

-----------------------------------------------------------------------------
TableOf(step) == IF step.attr.table = None THEN step.name.of ELSE <<step.attr.table>>

LookupSource(step) ==
  [name |-> [step.name EXCEPT !.role = "lookup"], type |-> "Lookup Source",
   pdi |-> "TableInput", confidence |-> step.confidence, fields |-> << >>,
   exprs |-> << >>,
   attr |-> [NoAttributes EXCEPT !.table = step.attr.table,
               !.sql = IF step.attr.sql = None THEN "all rows" ELSE step.attr.sql]]

(* _inject_lookup_sources, on the generator's own copy of the pipeline.    *)
WithLookupSource(p, step) ==
  LET source == LookupSource(step)
  IN  IF HasStep(p, source.name) THEN p
      ELSE [p EXCEPT !.steps = Append(@, source), !.hops = Append(@, <<source.name, step.name>>)]

WithLookupSources(p) ==
  LET lookups == Those(p.steps, LAMBDA s : s.pdi = "StreamLookup")
      after[n \in 0..Len(lookups)] == IF n = 0 THEN p ELSE WithLookupSource(after[n - 1], lookups[n])
  IN  after[Len(lookups)]

(* _infer_update_keys: breadth first from the update, the first target;    *)
(* an empty sequence when none is reached. A hop is queued at most twice:  *)
(* at the start, and when its origin is first seen.                        *)
TargetsFrom(p, search) ==
  CASE search.queue = << >> \/ search.found # << >> -> search
    [] search.queue # << >> /\ search.found = << >> ->
         LET n == Head(search.queue) IN
         CASE n \in search.seen -> [search EXCEPT !.queue = Tail(@)]
           [] n \notin search.seen /\ HasStep(p, n) /\ StepNamed(p, n).type = "Target" ->
                [search EXCEPT !.found = <<n>>]
           [] OTHER -> [search EXCEPT !.queue = Tail(@) \o Outgoing(p, n), !.seen = @ \cup {n}]

NearestTarget(p, n) ==
  FoldLeft(LAMBDA search, h : TargetsFrom(p, search),
           [queue |-> Outgoing(p, n), seen |-> {}, found |-> << >>], p.hops \o p.hops).found

-----------------------------------------------------------------------------
(* An expression still to be translated is a TODO line of the step.        *)
Open(step) == Those(step.exprs, LAMBDA e : ~e.translated)
Todos(step) == [k \in DOMAIN Open(step) |-> Open(step)[k].field]

UpdateConfig(p, step) ==
  LET target == NearestTarget(p, step.name)
      fields == IF target = << >> THEN << >> ELSE StepNamed(p, target[1]).fields
      keys == FieldNames(SelectSeq(fields, LAMBDA f : f.kind = "PRIMARY"))
  IN  [table |-> IF target # << >> THEN target[1]
                 ELSE IF Outgoing(p, step.name) # << >> THEN Outgoing(p, step.name)[1]
                 ELSE step.name,
       keys |-> keys,
       values |-> FieldNames(IF fields # << >> THEN SelectSeq(fields, LAMBDA f : f.kind # "PRIMARY")
                             ELSE step.fields)]

(* A join has two inputs, whatever leads into it.                          *)
FirstTwo(names) == [k \in DOMAIN names \cap {1, 2} |-> names[k]]

(* Mutant of JoinConfig: the inputs in the order of the steps.             *)
JoinConfigBySteps(p, step) ==
  LET feeders == SelectSeq([k \in DOMAIN p.steps |-> p.steps[k].name],
                           LAMBDA n : n \in ToSet(Incoming(p, step.name)))
  IN  [inputs |-> FirstTwo(feeders),
       keys |-> <<SortKeys(step, 1), SortKeys(step, 2)>>]

JoinConfig(p, step) ==
  [inputs |-> FirstTwo(Incoming(p, step.name)),
   keys |-> <<SortKeys(step, 1), SortKeys(step, 2)>>]

LookupConfig(step) ==
  LET columns == {step.attr.pairs[k][1] : k \in DOMAIN step.attr.pairs}
  IN  [from |-> [step.name EXCEPT !.role = "lookup"],
       keys |-> [k \in DOMAIN step.attr.pairs |->
                   [stream |-> step.attr.pairs[k][2], column |-> step.attr.pairs[k][1]]],
       values |-> FieldNames(SelectSeq(step.fields, LAMBDA f : f.name \notin columns))]

Functions ==
  [sum |-> "SUM", count |-> "COUNT_ALL", avg |-> "AVERAGE", average |-> "AVERAGE",
   min |-> "MIN", max |-> "MAX", first |-> "FIRST", last |-> "LAST",
   count_distinct |-> "COUNT_DISTINCT", list |-> "CONCAT_COMMA", std_dev |-> "STD_DEV"]

(* Talend's operations, a function without a counterpart counted instead   *)
(* and noted; else SUM(x) and its like, the only expressions that become   *)
(* aggregates of a Group By.                                               *)
GroupConfig(step) ==
  LET ops == TableRows(step, "OPERATIONS")
      exprs == SelectSeq(step.exprs, LAMBDA e : e.raw = "simple")
      groups == TableRows(step, "GROUPBYS")
      talend == ops # << >> \/ groups # << >>
  IN  [group |-> IF talend THEN Column(groups, "INPUT_COLUMN") ELSE GroupKeys(step),
       aggregates |->
         IF talend
         THEN [k \in DOMAIN ops |->
                 [field |-> ops[k]["OUTPUT_COLUMN"], of |-> ops[k]["INPUT_COLUMN"],
                  type |-> IF ops[k]["FUNCTION"] \in DOMAIN Functions
                           THEN Functions[ops[k]["FUNCTION"]] ELSE "COUNT_ALL",
                  noted |-> ops[k]["FUNCTION"] \notin DOMAIN Functions]]
         ELSE [k \in DOMAIN exprs |->
                 [field |-> exprs[k].field, of |-> "x", type |-> "SUM", noted |-> FALSE]]]

(* Talend's sort table, else every field ascending.                        *)
SortConfig(step) ==
  LET rows == TableRows(step, "CRITERIA")
  IN  IF rows = << >>
      THEN [fields |-> FieldNames(step.fields), descending |-> {}]
      ELSE [fields |-> Column(rows, "COLNAME"),
            descending |-> {k \in DOMAIN rows : rows[k]["ORDER"] = "desc"}]

Operators == {"==", "!=", ">", "<", ">=", "<="}
Comparison(o) ==
  IF o = "!=" THEN "<>" ELSE IF o \in Operators \ {"=="} THEN o ELSE "="

(* An operator that is not known compares for equality.                    *)
(* A null is compared by IS NULL, or for all operators but == by its       *)
(* negation; Java conditions and none at all are left to a note.           *)
FilterConfig(step) ==
  LET rows == TableRows(step, "CONDITIONS")
  IN  IF step.attr.advanced \/ rows = << >> THEN [conditions |-> << >>, all |-> TRUE]
      ELSE [all |-> step.attr.logical # "||",
            conditions |-> [k \in DOMAIN rows |->
              [left |-> rows[k]["INPUT_COLUMN"], value |-> rows[k]["RVALUE"],
               is |-> IF rows[k]["RVALUE"] \in {"null", "None", ""}
                      THEN IF rows[k]["OPERATOR"] = "==" THEN "IS NULL" ELSE "IS NOT NULL"
                      ELSE Comparison(rows[k]["OPERATOR"])]]]

(* A script names every expression, as null while it is a TODO.            *)
Scripted(step) == {step.exprs[k].field : k \in DOMAIN step.exprs}

TableInputConfig(step) ==
  [sql |-> step.attr.sql, from |-> TableOf(step), fields |-> FieldNames(step.fields)]

(* Of a delimited file, its columns.                                       *)
FileConfig(step) == [fields |-> FieldNames(step.fields)]

(* STEP_CONFIG_EMITTERS, by type.                                          *)
Config(p, step) ==
  CASE step.pdi = "TableInput" -> TableInputConfig(step)
    [] step.pdi = "TableOutput" -> [table |-> step.name]
    [] step.pdi = "SortRows" -> SortConfig(step)
    [] step.pdi = "GroupBy" -> GroupConfig(step)
    [] step.pdi = "FilterRows" -> FilterConfig(step)
    [] step.pdi \in {"CsvInput", "TextFileOutput"} -> FileConfig(step)
    [] step.pdi = "ScriptValueMod" -> [variables |-> Scripted(step)]
    [] step.pdi = "MergeJoin" -> JoinConfig(p, step)
    [] step.pdi = "StreamLookup" -> LookupConfig(step)
    [] step.pdi = "InsertUpdate" -> UpdateConfig(p, step)
    [] step.pdi = "DBProc" -> [arguments |-> FieldNames(step.fields)]
    [] OTHER -> [none |-> TRUE]

EmitStep(p, step) ==
  [name |-> step.name, pdi |-> IF step.pdi = None THEN "Dummy" ELSE step.pdi,
   confidence |-> step.confidence, todos |-> Todos(step), config |-> Config(p, step)]

Ktr(p) ==
  LET whole == WithLookupSources(p)
  IN  [hops |-> whole.hops,
       steps |-> [k \in DOMAIN whole.steps |-> EmitStep(whole, whole.steps[k])]]

-----------------------------------------------------------------------------
(* A job's entry: a session with a mapping runs its file, a command with   *)
(* lines runs them, a mail is sent; the rest are placeholders.             *)
JobEntry(e) ==
  [name |-> e.name,
   type |-> CASE e.type = "Start" -> "SPECIAL"
              [] e.type = "Session" /\ e.mapping # None -> "TRANS"
              [] e.type = "Command" /\ e.commands # << >> -> "SHELL"
              [] e.type = "Email" -> "MAIL"
              [] OTHER -> "DUMMY",
   file |-> e.mapping, script |-> e.commands]

StartEntry == [name |-> "START", type |-> "SPECIAL", file |-> None, script |-> << >>]

(* The conditions in whose text "Succeeded" occurs; every other is lost.   *)
MentionsSuccess == {"Succeeded", "not Succeeded"}

JobHop(link) ==
  [from |-> link.from, to |-> link.to, unconditional |-> link.condition \notin MentionsSuccess]

Kjb(job) ==
  [entries |-> (IF \E k \in DOMAIN job.entries : job.entries[k].type = "Start"
                THEN << >> ELSE <<StartEntry>>)
               \o [k \in DOMAIN job.entries |-> JobEntry(job.entries[k])],
   hops |-> [k \in DOMAIN job.hops |-> JobHop(job.hops[k])]]
=============================================================================
