----------------------------- MODULE ExportConversion -----------------------------
(***************************************************************************)
(* `pentaho-migrate convert` over one export, PowerCenter's or Talend's:   *)
(* every mapping is parsed and mapped before anything is written,          *)
(* expressions are translated when asked, mapping by mapping, until the    *)
(* provider fails, warnings are drawn up, then each mapping becomes a .ktr *)
(* file and a report and each workflow a .kjb file in one directory.       *)
(***************************************************************************)
EXTENDS KettleFiles, FiniteSetsExt

(* What a conversion says of itself beside the files it writes: warnings   *)
(* about the export before anything is written, and a report on each       *)
(* mapping.                                                                *)
StepsWith(p, Is(_)) == {k \in DOMAIN p.steps : Is(p.steps[k])}

Total(counts) ==
  LET sum[n \in 0..Len(counts)] == IF n = 0 THEN 0 ELSE sum[n - 1] + counts[n]
  IN  sum[Len(counts)]

(* Over all pipelines, how many steps.                                     *)
CountSteps(pipelines, Is(_)) ==
  Total([k \in DOMAIN pipelines |-> Cardinality(StepsWith(pipelines[k], Is))])

OpenExpressions(p) == Total([k \in DOMAIN p.steps |-> Len(Open(p.steps[k]))])

(* Mutant of Report: what is translated is still to be translated.         *)
ReportEveryExpression(p) ==
  [total |-> Len(p.steps),
   of |-> [c \in {"auto", "review", "manual"} |->
             Cardinality(StepsWith(p, LAMBDA s : s.confidence = c))],
   untranslated |-> Total([k \in DOMAIN p.steps |-> Len(p.steps[k].exprs)])]

(* build_report: the steps by confidence.                                  *)
Report(p) ==
  [total |-> Len(p.steps),
   of |-> [c \in {"auto", "review", "manual"} |->
             Cardinality(StepsWith(p, LAMBDA s : s.confidence = c))],
   untranslated |-> OpenExpressions(p)]

(* assess_source: a warning for each of these counts that is not zero.     *)
Warnings(source, pipelines) ==
  [export |-> source,
   unmapped |-> CountSteps(pipelines, LAMBDA s : s.pdi = None),
   overrides |-> CountSteps(pipelines, LAMBDA s : s.type = "Source Qualifier" /\ s.attr.sql # None),
   database |-> CountSteps(pipelines, LAMBDA s : s.pdi \in {"TableInput", "TableOutput", "StreamLookup"}),
   expressions |-> Total([k \in DOMAIN pipelines |-> OpenExpressions(pipelines[k])])]

-----------------------------------------------------------------------------
CONSTANT Exports

IsList(s) == s \in Seq(ToSet(s))
IsDefinition(m) ==
  /\ IsList(m.transformations) /\ IsList(m.connectors)
  /\ \A x \in ToSet(m.transformations) : IsList(x.ports)

(* An export is of folders or of a Talend job; each part of it is a list,  *)
(* and a component joins its conditions by && or by ||.                    *)
IsExport(e) ==
  /\ IsList(e.mappings) /\ IsList(e.mapplets) /\ IsList(e.sessions) /\ IsList(e.workflows)
  /\ IsList(e.item.nodes) /\ IsList(e.item.connections)
  /\ e.item.nodes = << >> \/ e.mappings = << >>
  /\ \A m \in ToSet(e.mappings) : IsDefinition(m) /\ IsList(m.instances)
  /\ \A m \in ToSet(e.mapplets) : IsDefinition(m)
  /\ \A n \in ToSet(e.item.nodes) : IsList(n.entries) /\ n.logical \in {"&&", "||"}
  /\ \A w \in ToSet(e.workflows) : IsList(w.tasks) /\ IsList(w.links)

ASSUME ExportsAssumption == \A e \in Exports : IsExport(e)

VARIABLES
  export,     (* the parsed document, and whether --translate is given      *)
  pipelines,  (* the mappings, as the mapper leaves them                   *)
  stage,
  at,         (* mappings, then workflows, done in the stage at hand       *)
  warnings,   (* the counts that the warnings name                          *)
  reports,    (* the report on each mapping written                         *)
  ktrs,       (* the .ktr files: what was written last under a name        *)
  kjbs        (* the .kjb files                                            *)

vars == <<export, pipelines, stage, at, warnings, reports, ktrs, kjbs>>

Init ==
  /\ export \in Exports
  /\ pipelines = << >>
  /\ stage = "parse"
  /\ at = 0
  /\ warnings = << >>
  /\ reports = << >>
  /\ ktrs = << >>
  /\ kjbs = << >>

-----------------------------------------------------------------------------
FromTalend == export.item.nodes # << >>

(* One pipeline for each mapping, or for the Talend job.                   *)
Parsed ==
  IF FromTalend THEN <<ParseItem(export.item)>>
  ELSE [k \in DOMAIN export.mappings |-> ParseMapping(export, export.mappings[k])]

(* A job for each workflow; the Talend jobs here call no others.           *)
Jobs == [k \in DOMAIN export.workflows |-> ParseWorkflow(export, export.workflows[k])]

Parse ==
  /\ stage = "parse"
  /\ pipelines' = [k \in DOMAIN Parsed |-> Apply(Parsed[k])]
  /\ stage' = IF export.translate THEN "translate" ELSE "assess"
  /\ UNCHANGED <<export, at, warnings, reports, ktrs, kjbs>>

(* translate_pipeline: aggregates of a Group By need no provider, each of  *)
(* the others may fail alone and stays as it was.                          *)
Pending(p) == UNION {{<<k, j>> : j \in DOMAIN p.steps[k].exprs} : k \in DOMAIN p.steps}
Native(step, j) == step.pdi = "GroupBy" /\ step.exprs[j].raw = "simple"

AnsweredStep(step, answers) ==
  [step EXCEPT !.exprs = [j \in DOMAIN step.exprs |->
     [step.exprs[j] EXCEPT !.translated = j \in answers \/ Native(step, j)]]]
TranslatePipeline(p, answered) ==
  [p EXCEPT !.steps = [k \in DOMAIN p.steps |->
     AnsweredStep(p.steps[k], {a[2] : a \in {a \in answered : a[1] = k}})]]

Translate ==
  /\ stage = "translate"
  /\ at < Len(pipelines)
  /\ \E answered \in SUBSET Pending(pipelines[at + 1]) :
       pipelines' = [pipelines EXCEPT ![at + 1] = TranslatePipeline(@, answered)]
  /\ at' = at + 1
  /\ UNCHANGED <<export, stage, warnings, reports, ktrs, kjbs>>

(* The provider fails before a mapping: it and those after it stay as they *)
(* are and are written all the same.                                       *)
Unavailable ==
  /\ stage = "translate"
  /\ at < Len(pipelines)
  /\ stage' = "assess"
  /\ at' = 0
  /\ UNCHANGED <<export, pipelines, warnings, reports, ktrs, kjbs>>

(* Outside the try: an answer that is no record of a translation raises    *)
(* through convert, which ends before a file is written.                   *)
Malformed ==
  /\ stage = "translate"
  /\ at < Len(pipelines)
  /\ \E a \in Pending(pipelines[at + 1]) : ~Native(pipelines[at + 1].steps[a[1]], a[2])
  /\ stage' = "raised"
  /\ UNCHANGED <<export, pipelines, at, warnings, reports, ktrs, kjbs>>

EndTranslate ==
  /\ stage = "translate"
  /\ at = Len(pipelines)
  /\ stage' = "assess"
  /\ at' = 0
  /\ UNCHANGED <<export, pipelines, warnings, reports, ktrs, kjbs>>

(* analyze_export counts what the export holds; assess_source the steps    *)
(* and expressions, as the translation left them.                          *)
Source ==
  [mappings |-> IF FromTalend THEN 1 ELSE Len(export.mappings),
   workflows |-> Len(export.workflows), sessions |-> Len(export.sessions),
   mapplets |-> Len(export.mapplets)]

Assess ==
  /\ stage = "assess"
  /\ warnings' = Warnings(Source, pipelines)
  /\ stage' = "write"
  /\ UNCHANGED <<export, pipelines, at, reports, ktrs, kjbs>>

Written(files, n, content) ==
  [m \in DOMAIN files \cup {n} |-> IF m = n THEN content ELSE files[m]]

WriteKtr ==
  /\ stage = "write"
  /\ at < Len(pipelines)
  /\ ktrs' = Written(ktrs, pipelines[at + 1].name, Ktr(pipelines[at + 1]))
  /\ reports' = Append(reports, Report(pipelines[at + 1]))
  /\ at' = at + 1
  /\ UNCHANGED <<export, pipelines, stage, warnings, kjbs>>

BeginJobs ==
  /\ stage = "write"
  /\ at = Len(pipelines)
  /\ stage' = "jobs"
  /\ at' = 0
  /\ UNCHANGED <<export, pipelines, warnings, reports, ktrs, kjbs>>

WriteKjb ==
  /\ stage = "jobs"
  /\ at < Len(Jobs)
  /\ kjbs' = Written(kjbs, Jobs[at + 1].name, Kjb(Jobs[at + 1]))
  /\ at' = at + 1
  /\ UNCHANGED <<export, pipelines, stage, warnings, reports, ktrs>>

Finish ==
  /\ stage = "jobs"
  /\ at = Len(Jobs)
  /\ stage' = "done"
  /\ UNCHANGED <<export, pipelines, at, warnings, reports, ktrs, kjbs>>

Next ==
  \/ Parse
  \/ Translate
  \/ Unavailable
  \/ Malformed
  \/ EndTranslate
  \/ Assess
  \/ WriteKtr
  \/ BeginJobs
  \/ WriteKjb
  \/ Finish

Spec == Init /\ [][Next]_vars

-----------------------------------------------------------------------------
(* The mappings whose file is there: names the export gives to one mapping *)
(* only.                                                                   *)
WrittenMappings ==
  {m \in ToSet(export.mappings) :
     /\ m.name \in DOMAIN ktrs
     /\ \A k, j \in DOMAIN export.mappings :
          export.mappings[k].name = m.name /\ export.mappings[j].name = m.name => k = j}
StepsOfKtr(n) == ToSet(ktrs[n].steps)
HopsOfKtr(n) == ToSet(ktrs[n].hops)

(* What hops lead to from a name, the name itself only by way of a cycle.  *)
After(hops, n) ==
  FoldLeft(LAMBDA S, h : S \cup {e[2] : e \in {e \in hops : e[1] \in S}},
           {e[2] : e \in {e \in hops : e[1] = n}},
           [k \in 1..12 |-> k])

(* A mapplet lets rows through when its input leads to its output.         *)
LetsThrough(mapplet) ==
  \E a, b \in ToSet(mapplet.transformations) :
    /\ a.type = "Input Transformation"
    /\ b.type = "Output Transformation"
    /\ b.name \in After(ToSet(mapplet.connectors), a.name)

UsesOf(mapping) == {i \in ToSet(mapping.instances) : i.type = "Mapplet"}
UsesItsMapplets(mapping) ==
  \A i \in UsesOf(mapping) :
    /\ Defined(export.mapplets, i.def)
    /\ LET m == Definition(export.mapplets, i.def)
       IN  /\ Len(ShellsOf(m, "Input Transformation")) = 1
           /\ Len(ShellsOf(m, "Output Transformation")) = 1

(* The mapping's own connectors, without those out of a mapplet that keeps *)
(* its rows to itself.                                                     *)
Ways(mapping) ==
  {c \in ToSet(mapping.connectors) :
     \A i \in UsesOf(mapping) :
       c[1] = i.name => LetsThrough(Definition(export.mapplets, i.def))}

OwnSteps(mapping) ==
  {i.name : i \in ToSet(mapping.instances) \ UsesOf(mapping)}

(* Rows take the ways of the export: of two steps that the mapping shows,  *)
(* one feeds the other in the file exactly when it does in the export, be  *)
(* it through mapplets written in place, sorters put in between or steps   *)
(* joined by lookups; two uses of one mapplet stay apart                   *)
(* (_expand_mapplet, _reroute, insert_required_sorters).                   *)
RowsKeepTheirWay ==
  \A m \in WrittenMappings :
    UsesItsMapplets(m) =>
      \A a \in OwnSteps(m) :
        LET fed == After(HopsOfKtr(m.name), Plain(a))
        IN  {b \in OwnSteps(m) : Plain(b) \in fed} = After(Ways(m), a) \cap OwnSteps(m)

(* What feeds a join in the file, a sorter that was put in overlooked.     *)
Origin(n, feeder) ==
  IF feeder.role = "sorter" /\ feeder \in {s.name : s \in StepsOfKtr(n)}
  THEN CHOOSE a \in {h[1] : h \in HopsOfKtr(n)} : <<a, feeder>> \in HopsOfKtr(n)
  ELSE feeder

FeedersOf(mapping, n) ==
  LET cs == Edges(SelectSeq(mapping.connectors, LAMBDA c : c[2] = n))
  IN  [k \in DOMAIN cs |-> cs[k][1]]

(* One side of a join's condition, as the export has it.                   *)
Side(joiner, k) == [i \in DOMAIN joiner.attr.pairs |-> joiner.attr.pairs[i][k]]

(* Each leg of a join is compared by its own side of the condition: the    *)
(* first input is what the export connects first, the second what it       *)
(* connects second, and a sorter put in on the way sorts by the columns    *)
(* that the condition has on that side (_emit_merge_join and sort_keys_for *)
(* read hops and condition separately).                                    *)
JoinsReadSortedLegs ==
  \A m \in WrittenMappings : \A j \in StepsOfKtr(m.name) : \A x \in ToSet(m.transformations) :
    LET named == FeedersOf(m, x.name)
    IN  (/\ j.pdi = "MergeJoin"
         /\ j.name = Plain(x.name)
         /\ \A k \in DOMAIN named : named[k] \in OwnSteps(m)) =>
          \A k \in {1, 2} :
            /\ j.config.keys[k] = Side(x, k)
            /\ k \in DOMAIN j.config.inputs <=> k \in DOMAIN named
            /\ k \in DOMAIN named =>
                 /\ Origin(m.name, j.config.inputs[k]) = Plain(named[k])
                 /\ \A s \in StepsOfKtr(m.name) :
                      s.name = j.config.inputs[k] /\ s.name.role = "sorter" => s.config.fields = Side(x, k)

TargetsAfter(mapping, n) ==
  {i \in ToSet(mapping.instances) : i.type = "Target" /\ i.name \in After(Ways(mapping), n)}

(* An update whose rows end in one target looks them up there by that      *)
(* table's primary key, as the export defines the table, whatever the      *)
(* instance is called and whatever lies between (_infer_update_keys).      *)
UpdatesMatchOnTheKey ==
  \A m \in WrittenMappings : \A u \in StepsOfKtr(m.name) :
    u.pdi = "InsertUpdate" /\ Len(u.name.of) = 1 /\ UsesItsMapplets(m) =>
      \A t \in TargetsAfter(m, u.name.of[1]) :
        TargetsAfter(m, u.name.of[1]) = {t} /\ Defined(export.targets, t.def) =>
          /\ u.config.table = Plain(t.name)
          /\ ToSet(u.config.keys) =
               {f.name : f \in {f \in ToSet(Definition(export.targets, t.def).fields) :
                                  f.kind = "PRIMARY"}}

(* The derived ports of a mapping, each at the step its file should have.  *)
DerivedIn(transformations, name(_)) ==
  UNION {{<<name(x.name), port.name, x.type>> :
            port \in {port \in ToSet(x.ports) : Derives(port)}} : x \in ToSet(transformations)}

Derived(mapping) ==
  DerivedIn(mapping.transformations, Plain)
  \cup UNION {DerivedIn(Definition(export.mapplets, i.def).transformations,
                        LAMBDA n : Inside(i.name, Plain(n))) :
                i \in {i \in UsesOf(mapping) : Defined(export.mapplets, i.def)}}

Shows(step, field) ==
  \/ field \in ToSet(step.todos)
  \/ step.pdi = "ScriptValueMod" /\ field \in step.config.variables
  \/ step.pdi = "GroupBy" /\ \E k \in DOMAIN step.config.aggregates : step.config.aggregates[k].field = field

(* No derived port is dropped: it is computed in the file or a TODO there, *)
(* for every use of a mapplet, whichever translations failed and whether   *)
(* the provider was lost on the way (_emit_step).  Only steps that compute *)
(* are asked for.  A Group By is the exception once expressions have been  *)
(* translated: what is not SUM(x) or its like is then left out.            *)
NoExpressionIsDropped ==
  \A m \in WrittenMappings : \A d \in Derived(m) :
    d[3] \in {"Expression", "Aggregator"} =>
      \E s \in StepsOfKtr(m.name) : s.name = d[1] /\
        (Shows(s, d[2]) \/ (s.pdi = "GroupBy" /\ export.translate))

SessionsOf(n) == {s \in ToSet(export.sessions) : s.name = n}

(* A job runs what its workflow runs, where the export has one workflow of *)
(* the name: the entry of a session with a mapping, whose name is the      *)
(* export's only one, opens the file of that mapping, which the conversion *)
(* wrote before; and along each link an entry waits for the success of the *)
(* other where the workflow's link does, and for no outcome where the link *)
(* has no condition.  What any other condition asks for is not kept.       *)
JobsRunTheirWorkflow ==
  \A k \in DOMAIN export.workflows : LET w == export.workflows[k] IN
    w.name \in DOMAIN kjbs /\ (\A i \in DOMAIN export.workflows : export.workflows[i].name = w.name => i = k) =>
      /\ \A j \in DOMAIN w.tasks : \A s \in SessionsOf(w.tasks[j].task) :
           w.tasks[j].type = "Session" /\ SessionsOf(w.tasks[j].task) = {s} /\ s.mapping # None =>
             \E e \in ToSet(kjbs[w.name].entries) :
               /\ e.name = w.tasks[j].name
               /\ e.type = "TRANS"
               /\ e.file = s.mapping
               /\ s.mapping \in {m.name : m \in ToSet(export.mappings)}
                    => s.mapping \in DOMAIN ktrs
      /\ \A j \in DOMAIN w.links :
           LET hop == kjbs[w.name].hops[j] IN
           /\ hop.from = w.links[j].from /\ hop.to = w.links[j].to
           /\ w.links[j].condition = "Succeeded" => ~hop.unconditional
           /\ w.links[j].condition = None => hop.unconditional

(* The pipelines whose file is there and no other pipeline's.              *)
WrittenAlone ==
  {k \in DOMAIN reports : \A j \in DOMAIN pipelines :
     pipelines[j].name = pipelines[k].name => j = k}
StepsLike(n, Is(_)) == {k \in DOMAIN ktrs[n].steps : Is(ktrs[n].steps[k])}
TodosOf(n) == Total([k \in DOMAIN ktrs[n].steps |-> Len(ktrs[n].steps[k].todos)])

(* What is said of a mapping is what its file shows: as many steps of each *)
(* confidence, leaving out the sources that the generator adds for its     *)
(* lookups, and as many TODOs; and the warnings, which were drawn up       *)
(* before any file was written, count what all the files hold              *)
(* (assess_source, build_report: the generator works on a copy).           *)
CountsMatchTheFiles ==
  /\ \A k \in WrittenAlone : LET n == pipelines[k].name IN
       /\ \A c \in {"auto", "review", "manual"} :
            reports[k].of[c] =
              Cardinality(StepsLike(n, LAMBDA s : s.confidence = c /\ s.name.role # "lookup"))
       /\ reports[k].untranslated = TodosOf(n)
  /\ stage = "done" /\ WrittenAlone = DOMAIN pipelines =>
       /\ warnings.unmapped = Total([k \in DOMAIN reports |-> reports[k].of["manual"]])
       /\ warnings.expressions = Total([k \in DOMAIN reports |-> TodosOf(pipelines[k].name)])
       /\ warnings.database =
            Total([k \in DOMAIN reports |-> Cardinality(StepsLike(pipelines[k].name,
              LAMBDA s : s.name.role # "lookup" /\ s.pdi \in {"TableInput", "TableOutput", "StreamLookup"}))])

(* The tables that components are set up with, and their columns that are  *)
(* read.                                                                   *)
TableColumns ==
  [GROUPBYS |-> {"INPUT_COLUMN"},
   OPERATIONS |-> {"OUTPUT_COLUMN", "FUNCTION", "INPUT_COLUMN"},
   CRITERIA |-> {"COLNAME", "ORDER"},
   CONDITIONS |-> {"INPUT_COLUMN", "OPERATOR", "RVALUE"}]

(* A table as its editor saves it: w columns, the same in each of n rows   *)
(* and in the same order.                                                  *)
IsTable(values) ==
  /\ IsList(values)
  /\ values # << >> => \E w, n \in 1..Len(values) :
       /\ Len(values) = n * w
       /\ \A i \in 0..(n - 1) : \A j, l \in 1..w : values[i * w + j][1] = values[l][1] <=> j = l

Saved(node, t) == IF t \in DOMAIN node.tables THEN node.tables[t] ELSE << >>
SavedColumns(node, t) == {v[1] : v \in ToSet(Saved(node, t))}

(* The values of one of its columns, from the first row to the last.       *)
Cells(node, t, column) ==
  LET own == Those(Saved(node, t), LAMBDA v : v[1] = column)
  IN  [k \in DOMAIN own |-> own[k][2]]

(* The components whose name is theirs alone, with tables as the editor    *)
(* saves them.                                                             *)
ConvertedNodes(component) ==
  {n \in ToSet(export.item.nodes) :
     /\ n.component = component
     /\ export.item.name \in DOMAIN ktrs
     /\ \A m \in ToSet(export.item.nodes) : m.name = n.name => m = n
     /\ \A t \in DOMAIN TableColumns : IsTable(Saved(n, t)) /\
          (Saved(n, t) # << >> => TableColumns[t] \subseteq SavedColumns(n, t))}
ConfigOf(node) ==
  ktrs[export.item.name].steps[
    SelectInSeq(ktrs[export.item.name].steps, LAMBDA s : s.name = Plain(node.name))].config

(* A table that a Talend component was set up with reaches its step row by *)
(* row, none lost, merged or moved: the aggregates and keys of a           *)
(* tAggregateRow, the keys and directions of a tSortRow and the conditions *)
(* of a tFilterRow, and the sorter that is put before a Group By sorts by  *)
(* those keys (_parse_node cuts a table where a column comes again).  No   *)
(* aggregate becomes a count without a note saying so (_emit_group_by).    *)
TablesKeepTheirRows ==
  /\ \A n \in ConvertedNodes("tAggregateRow") :
       LET c == ConfigOf(n) IN
       Saved(n, "OPERATIONS") # << >> \/ Saved(n, "GROUPBYS") # << >> =>
         /\ c.group = Cells(n, "GROUPBYS", "INPUT_COLUMN")
         /\ Column(c.aggregates, "field") = Cells(n, "OPERATIONS", "OUTPUT_COLUMN")
         /\ Column(c.aggregates, "of") = Cells(n, "OPERATIONS", "INPUT_COLUMN")
         /\ \A k \in DOMAIN c.aggregates :
              c.aggregates[k].type = "COUNT_ALL" /\ Cells(n, "OPERATIONS", "FUNCTION")[k] # "count"
                => c.aggregates[k].noted
         /\ \A h \in HopsOfKtr(export.item.name) : \A s \in StepsOfKtr(export.item.name) :
              h[2] = Plain(n.name) /\ s.name = h[1] /\ s.name.role = "sorter" /\ c.group # << >>
                => s.config.fields = c.group
  /\ \A n \in ConvertedNodes("tSortRow") : Saved(n, "CRITERIA") # << >> =>
       LET orders == Cells(n, "CRITERIA", "ORDER") IN
       /\ ConfigOf(n).fields = Cells(n, "CRITERIA", "COLNAME")
       /\ ConfigOf(n).descending = {k \in DOMAIN orders : orders[k] = "desc"}
  /\ \A n \in ConvertedNodes("tFilterRow") : ~n.advanced /\ Saved(n, "CONDITIONS") # << >> =>
       /\ Column(ConfigOf(n).conditions, "left") = Cells(n, "CONDITIONS", "INPUT_COLUMN")
       /\ Column(ConfigOf(n).conditions, "value") = Cells(n, "CONDITIONS", "RVALUE")
       /\ ConfigOf(n).all <=> n.logical = "&&"

(* The steps that go by a key: joins read legs sorted on it, updates match *)
(* on it.                                                                  *)
KeysAreKept == JoinsReadSortedLegs /\ UpdatesMatchOnTheKey

(* What is not converted can be seen: an expression is on the list of work *)
(* or in the file, and the report counts what the files hold.              *)
NothingIsHidden == NoExpressionIsDropped /\ CountsMatchTheFiles

=============================================================================
