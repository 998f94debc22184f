----------------------------- MODULE ActionSequence -----------------------------
(***************************************************************************)
(* The conversion of an action sequence with a report (build_report_model):*)
(* its scripts are run over the defaults of its inputs, the definition it  *)
(* runs is found and read, the lookup that feeds it becomes the query, its *)
(* prompts become parameters, and the placeholders its layout shares with  *)
(* other sequences are settled. Each step reads what the ones before wrote.*)
(* A sequence is a record [inputs, resources, named, picks, reads, actions,*)
(* folder]. A text is a sequence of words, a name a string; an input is    *)
(* [name, default, blank, rows], a resource [name, at, form], an action    *)
(* [component, outputs, script, program, query, prompts, loop], a query    *)
(* [columns, prepared, fragments, equals, lists] and a prompt              *)
(* [name, list, value]. folder gives for a file [form, layout, config];    *)
(* program is the tree of a script, which only the properties look at.     *)
(***************************************************************************)
EXTENDS ScriptPrograms, LegacyLayout

CONSTANT Sequences

VARIABLES
  sequence,    (* the action sequence being converted                      *)
  stage,       (* the step that is next, "done" or "raised"                *)
  derived,     (* what the scripts and the inline definition give a name   *)
  scripts,     (* script_states: for each script what it gave              *)
  model,       (* the report model                                         *)
  jndi,        (* the connection of the feed                               *)
  parameters,  (* model.parameters                                         *)
  columnLists, (* model.param_sql_columns                                  *)
  queryLists,  (* model.param_lov_sql                                      *)
  record       (* what the estate's triage has for the sequence            *)

sequenceVars == <<sequence, stage, derived, scripts, model, jndi, parameters, columnLists, queryLists, record>>

NoneGiven == [x \in {} |-> <<>>]
Issue(what, name) == model' = [model EXCEPT !.issues = @ \cup {<<what, name>>}]
First(set, seq) == {seq[i] : i \in {j \in DOMAIN seq : seq[j] \in set /\ \A k \in 1..j - 1 : seq[k] \notin set}}
Named(seq, name) == {x \in ToSet(seq) : x.name = name}

-----------------------------------------------------------------------------
(* Readings of a sequence.                                                 *)

Lookups == {"SQLLookupRule", "MDXLookupRule", "XQueryLookupRule"}
LookupsOf(s) == SelectSeq(s.actions, LAMBDA a : a.component \in Lookups)
ReportsOf(s) == SelectSeq(s.actions, LAMBDA a : a.component = "JFreeReportComponent")
PromptsOf(s) == FlattenSeq([i \in DOMAIN s.actions |-> s.actions[i].prompts])
DefaultsOf(s) == LET given == {i \in ToSet(s.inputs) : i.default # <<>>}
                 IN  [n \in {i.name : i \in given} |-> (CHOOSE i \in given : i.name = n).default]

GivesOutput(a, name) == \E o \in ToSet(a.outputs) : name \in {o.name, o.to}

(* The last lookup that writes a name, if one does.                        *)
LookupOf(s, name) ==
  LET gives == SelectSeq(LookupsOf(s), LAMBDA a : GivesOutput(a, name))
  IN  IF gives = <<>> THEN {} ELSE {gives[Len(gives)]}

(* The lookup that feeds the report: the one that writes its result set,   *)
(* and the last one otherwise.                                             *)
FeedOf(s) ==
  LET bound == LookupOf(s, s.reads)
  IN  IF bound # {} THEN bound ELSE IF LookupsOf(s) = <<>> THEN {} ELSE {LookupsOf(s)[Len(LookupsOf(s))]}

(* classify_complexity.                                                    *)
Complexity(s) ==
  LET Count(P(_)) == Len(SelectSeq(s.actions, P))
      lists == {p.list : p \in ToSet(PromptsOf(s))} \ {""}
      Feeds(a) == a.component \in Lookups /\ \A l \in lists : ~GivesOutput(a, l)
      data == Count(Feeds)
      mdx == Count(LAMBDA a : Feeds(a) /\ a.component = "MDXLookupRule") > 0
      xquery == Count(LAMBDA a : Feeds(a) /\ a.component = "XQueryLookupRule") > 0
      bursting == \/ Count(LAMBDA a : a.component = "EmailComponent") > 0
                  \/ Count(LAMBDA a : a.component = "JFreeReportComponent" /\ a.loop) > 0
                  \/ Len(ReportsOf(s)) >= 2
      scripted == Count(LAMBDA a : a.component = "JavascriptRule") > 0
  IN  IF bursting \/ data >= 3 \/ (mdx /\ Len(LookupsOf(s)) > 1) THEN "High"
      ELSE IF scripted \/ PromptsOf(s) # <<>> \/ data >= 2 \/ mdx \/ xquery THEN "Medium"
      ELSE "Low"

(* _non_report_kind.                                                       *)
KindOfOther(s) ==
  LET components == {a.component : a \in ToSet(s.actions)}
  IN  IF "KettleComponent" \in components THEN "kettle" ELSE IF "ChartComponent" \in components THEN "chart" ELSE "other"

-----------------------------------------------------------------------------
(* _scripted_values: each script starts from the inputs' defaults and from *)
(* what the scripts before it gave.                                        *)

(* A default that is the text of a number is one.                          *)
AsValue(text) == IF text = Numeral[Parsed(text)] THEN Number(Parsed(text)) ELSE Text(text)

Taken(given, a, got) ==
  [scope |-> [x \in DOMAIN got.values |-> Text(got.values[x])] @@ given.scope,
   values |-> got.values @@ given.values,
   states |-> Append(given.states, [action |-> a, values |-> got.values, stopped |-> got.stopped])]
RunScript(given, a) == Taken(given, a, EvaluateScript(a.script, given.scope, {o.name : o \in ToSet(a.outputs)}))

ScriptedValues(s) ==
  LET defaults == DefaultsOf(s)
      start == [scope |-> [n \in DOMAIN defaults |-> AsValue(defaults[n])], values |-> NoneGiven, states |-> <<>>]
  IN  FoldLeft(RunScript, start, SelectSeq(s.actions, LAMBDA a : a.component = "JavascriptRule"))

(* A sequence without a report component is not converted.                 *)
Scripts ==
  /\ stage = "scripts"
  /\ IF ReportsOf(sequence) = <<>>
     THEN /\ stage' = "done"
          /\ record' = [kind |-> KindOfOther(sequence), definition |-> "", grade |-> ""]
          /\ Issue("not a report", "")
          /\ UNCHANGED <<derived, scripts>>
     ELSE /\ stage' = "definition"
          /\ \E ran \in {ScriptedValues(sequence)} : derived' = ran.values /\ scripts' = ran.states
          /\ UNCHANGED <<model, record>>
  /\ UNCHANGED <<sequence, jndi, parameters, columnLists, queryLists>>

-----------------------------------------------------------------------------
(* The definition: the resource the component maps, the one an input picks,*)
(* then the names of the convention, in the order of the sequence.         *)

IsFile(r) == r.form = "file"
Resource(s, Test(_)) == First({r \in ToSet(s.resources) : Test(r)}, s.resources)

MappedResource(s) == Resource(s, LAMBDA r : r.name = s.named)
PickedName(s) ==
  LET input == Named(s.inputs, s.picks)
      rows == SelectSeq(FlattenSeq([i \in DOMAIN s.inputs |-> s.inputs[i].rows]),
                        LAMBDA row : s.picks \in DOMAIN row /\ row[s.picks] # <<>>)
      default == UNION {{i.default} : i \in {x \in input : x.default # <<>>}}
  IN  IF s.picks = "" THEN <<>> ELSE IF default # {} THEN CHOOSE d \in default : TRUE
      ELSE IF rows = <<>> THEN <<>> ELSE rows[1][s.picks]
PickedResource(s) == Resource(s, LAMBDA r : IsFile(r) /\ <<r.name>> = PickedName(s))
ConventionalResource(s) == Resource(s, LAMBDA r : IsFile(r) /\ r.name \in {"report-definition", "report-definition-2"})
JarResource(s) == Resource(s, LAMBDA r : IsFile(r) /\ (r.name = "report-jar" \/ r.at = "layout.jar"))
InlineResource(s) == Resource(s, LAMBDA r : ~IsFile(r) /\ r.name = "report-definition")

Ladder(s) == <<MappedResource(s), PickedResource(s), ConventionalResource(s), JarResource(s), InlineResource(s)>>
DefinitionOf(s) ==
  LET rungs == SelectSeq(Ladder(s), LAMBDA found : found # {}) IN IF rungs = <<>> THEN {} ELSE rungs[1]

Parses(content) == content.form = "definition"
Missing == [form |-> "missing", layout |-> <<>>, config |-> NoneGiven]
FileAt(s, at) == IF at \in DOMAIN s.folder THEN s.folder[at] ELSE Missing
DesignerSource(s, at) == IF at = "layout.xml" THEN FileAt(s, "layout.report") ELSE Missing

Blank == Report("", <<>>, <<>>, <<>>, <<>>, {}, {})

(* The file a resource is read from, if any, and the issues that say so.   *)
From(content, says) == [found |-> {content}, says |-> says]
Nothing(what) == [found |-> {}, says |-> {what}]
ReadResource(s, r) ==
  LET content == FileAt(s, r.at)
      source == DesignerSource(s, r.at)
  IN  IF ~IsFile(r)
      THEN IF Parses(content) THEN From(content, {"embedded inline"}) ELSE Nothing("did not parse")
      ELSE IF r.at = "layout.jar"
      THEN CASE content.form = "jar" -> From(content, {"extracted from a jar"})
             [] content.form = "broken jar" -> Nothing("did not parse")
             [] OTHER -> Nothing("ships inside a jar")
      ELSE CASE Parses(content) -> From(content, {})
             [] content.form = "missing" /\ Parses(source) -> From(source, {"recovered from the designer source"})
             [] content.form = "missing" -> Nothing("was not uploaded")
             [] content.form = "commented" -> From(content, {"a comment was repaired"})
             [] OTHER -> Nothing("did not parse")

AsReport(read) ==
  [IF read.found = {} THEN Blank ELSE ParsedLayout((CHOOSE c \in read.found : TRUE).layout[1])
     EXCEPT !.issues = @ \cup {<<what, "">> : what \in read.says}]

(* A file that cannot be opened as what it is ends the conversion.         *)
Raises(s, r) == IsFile(r) /\ FileAt(s, r.at).form = IF r.at = "layout.jar" THEN "corrupt jar" ELSE "unreadable"

Definition ==
  /\ stage = "definition"
  /\ LET found == DefinitionOf(sequence)
         r == CHOOSE x \in found : TRUE
         config == IF found = {} \/ IsFile(r) THEN NoneGiven ELSE FileAt(sequence, r.at).config
         picked == found # {} /\ MappedResource(sequence) = {} /\ PickedResource(sequence) # {}
     IN  IF found # {} /\ Raises(sequence, r)
         THEN stage' = "raised" /\ UNCHANGED <<model, derived>>
         ELSE /\ stage' = "feed"
              /\ derived' = derived @@ config
              /\ model' = AsReport([(IF found = {} THEN Nothing("names no definition") ELSE ReadResource(sequence, r))
                             EXCEPT !.says = @ \cup {w \in {"picks its definition at run time"} : picked}])
  /\ UNCHANGED <<sequence, scripts, jndi, parameters, columnLists, queryLists, record>>

-----------------------------------------------------------------------------
(* The query: {PREPARE:x} becomes ${x}, {x} is pasted or removed.          *)

Known(s, given) == given @@ DefaultsOf(s)
Settled(values, names) == {n \in names : n \in DOMAIN values /\ values[n] # <<>>}

SqlOf(query, values) ==
  LET filled == Settled(values, query.fragments)
  IN  [columns |-> query.columns, asks |-> query.prepared, equals |-> query.equals, lists |-> query.lists,
       pasted |-> [f \in filled |-> values[f]], dropped |-> query.fragments \ filled, stub |-> FALSE]

Feed ==
  /\ stage = "feed" /\ stage' = "stub"
  /\ LET feed == FeedOf(sequence)
         lookup == CHOOSE a \in feed : TRUE
         sql == SqlOf(lookup.query, Known(sequence, derived))
         notes == {<<"substituted", f>> : f \in DOMAIN sql.pasted} \cup {<<"removed", f>> : f \in sql.dropped}
     IN  IF feed = {} THEN UNCHANGED <<model, jndi>>
         ELSE IF lookup.component = "SQLLookupRule"
         THEN model' = [model EXCEPT !.sql = <<sql>>, !.issues = @ \cup notes] /\ jndi' = "feed's"
         ELSE Issue("not an SQL source", lookup.component) /\ UNCHANGED jndi
  /\ UNCHANGED <<sequence, derived, scripts, parameters, columnLists, queryLists, record>>

(* _stub_missing_queries: without a query, one without rows stands in for  *)
(* it over the columns the layout reads; so it does in each sub-report.    *)
ElementReads(el) ==
  CASE el.kind = "field" -> <<[column |-> el.column, number |-> el.type = "NumberField"]>>
    [] el.kind = "chart" -> [i \in DOMAIN el.values |-> [column |-> el.values[i], number |-> TRUE]]
                              \o <<[column |-> el.category, number |-> FALSE]>>
    [] OTHER -> <<>>
SummaryReads(f) == [column |-> f.field, number |-> TRUE]

(* Mutant of ReadsOf: the columns of the totals are forgotten.             *)
ReadsOfElements(report) ==
  LET elements == FlattenSeq([i \in DOMAIN report.sections |-> report.sections[i].elements])
  IN  SelectSeq(FlattenSeq([i \in DOMAIN elements |-> ElementReads(elements[i])]), LAMBDA c : c.column # NoColumn)

ReadsOf(report) ==
  LET elements == FlattenSeq([i \in DOMAIN report.sections |-> report.sections[i].elements])
      all == FlattenSeq([i \in DOMAIN elements |-> ElementReads(elements[i])])
               \o [i \in DOMAIN report.summaries |-> SummaryReads(report.summaries[i])]
  IN  SelectSeq(all, LAMBDA c : c.column # NoColumn)

StubOf(report) ==
  LET reads == ReadsOf(report)
      firsts == SelectSeq([i \in DOMAIN reads |-> i], LAMBDA i : \A k \in 1..i - 1 : reads[k].column # reads[i].column)
  IN  [columns |-> [i \in DOMAIN firsts |-> reads[firsts[i]]], asks |-> {}, equals |-> NoneGiven, lists |-> {},
       pasted |-> NoneGiven, dropped |-> {}, stub |-> TRUE]

RECURSIVE Stubbed(_)
Stubbed(report) ==
  LET own == IF report.sql # <<>> \/ ReadsOf(report) = <<>> THEN report
             ELSE [report EXCEPT !.sql = <<StubOf(report)>>, !.issues = @ \cup {<<"a stub query stands in", "">>}]
      Child(el) == [el EXCEPT !.child = [i \in DOMAIN @ |-> Stubbed(@[i])]]
  IN  [own EXCEPT !.sections = OnElements(@, Child)]

StubQueries ==
  /\ stage = "stub" /\ stage' = "parameters"
  /\ model' = Stubbed(model)
  /\ UNCHANGED <<sequence, derived, scripts, jndi, parameters, columnLists, queryLists, record>>

-----------------------------------------------------------------------------
(* The parameters: the inputs the query or a prompt names, one a step.     *)

Comma == ","
Midnight == "00:00:00"
IsoDay == <<"yyyy-mm-dd">>
BackwardsDay == <<"dd-mm-yyyy">>

(* A default that is a day is padded, one written backwards is turned.     *)
Dated(default) == IF default \in {IsoDay, BackwardsDay} THEN Append(IsoDay, Midnight) ELSE default

Split(text) == [i \in 1..Cardinality({k \in DOMAIN text : text[k] # Comma}) |-> <<SelectSeq(text, LAMBDA w : w # Comma)[i]>>]
FromRows(rows, key) == LET given == SelectSeq(rows, LAMBDA row : key \in DOMAIN row /\ row[key] # <<>>)
                       IN  [i \in DOMAIN given |-> given[i][key]]

(* The last prompt of a name.                                              *)
PromptOf(s, name) ==
  LET all == SelectSeq(PromptsOf(s), LAMBDA p : p.name = name)
  IN  IF all = <<>> THEN [name |-> name, list |-> "", value |-> ""] ELSE all[Len(all)]

Wanted(s, input) ==
  input.name \in {p.name : p \in ToSet(PromptsOf(s))} \cup UNION {a.query.prepared : a \in FeedOf(s)}
WantedInputs(s) == SelectSeq(s.inputs, LAMBDA i : Wanted(s, i))

Several(sql, input) == \E q \in ToSet(sql) : input.name \in q.lists /\ Comma \in ToSet(input.default)
EqualsColumn(sql, name) == UNION {{q.equals[name]} : q \in {x \in ToSet(sql) : name \in DOMAIN x.equals}}

(* The query of a pick-list: what it asks for in place of {PREPARE:x} is a *)
(* control character, whatever x is.                                       *)
Garbled == "control character"
PickList(a, prompt) == [asks |-> IF a.query.prepared = {} THEN {} ELSE {Garbled}, query |-> a.query, value |-> prompt.value]

StaticList(s, prompt) == {i \in Named(s.inputs, prompt.list) : i.rows # <<>>}

ParameterOf(s, sql, input) ==
  LET prompt == PromptOf(s, input.name)
      looked == {a \in LookupOf(s, prompt.list) : a.component = "SQLLookupRule"}
      static == StaticList(s, prompt)
      default == Dated(input.default)
  IN  [name |-> input.name, default |-> default, optional |-> input.blank,
       type |-> IF default = Append(IsoDay, Midnight) THEN "DateField" ELSE "StringField",
       multi |-> Several(sql, input),
       values |-> IF looked = {} /\ static # {} THEN FromRows((CHOOSE i \in static : TRUE).rows, prompt.value)
                  ELSE IF Several(sql, input) THEN Split(input.default) ELSE <<>>]

(* A prompt without a default that a column is compared with offers the    *)
(* values of the column.                                                   *)
Defaultless(input) == input.default = <<>>

Parameter ==
  /\ stage = "parameters" /\ Len(parameters) < Len(WantedInputs(sequence))
  /\ LET input == WantedInputs(sequence)[Len(parameters) + 1]
         prompt == PromptOf(sequence, input.name)
         looked == {a \in LookupOf(sequence, prompt.list) : a.component = "SQLLookupRule"}
         column == IF Defaultless(input) /\ input.name \notin DOMAIN queryLists THEN EqualsColumn(model.sql, input.name) ELSE {}
     IN  /\ parameters' = Append(parameters, ParameterOf(sequence, model.sql, input))
         /\ columnLists' = [n \in {x \in {input.name} : column # {}} |-> CHOOSE c \in column : TRUE] @@ columnLists
         /\ queryLists' = [n \in {x \in {input.name} : looked # {}} |-> PickList(CHOOSE a \in looked : TRUE, prompt)] @@ queryLists
  /\ UNCHANGED <<sequence, stage, derived, scripts, model, jndi, record>>

AllParameters ==
  /\ stage = "parameters" /\ Len(parameters) = Len(WantedInputs(sequence))
  /\ stage' = "bindings"
  /\ UNCHANGED <<sequence, derived, scripts, model, jndi, parameters, columnLists, queryLists, record>>

-----------------------------------------------------------------------------
(* _resolve_templated_bindings: a placeholder is what the sequence gives   *)
(* its name or, for a field, the only column of the query of its type.     *)

WordOf(text) == IF Len(text) = 1 THEN text[1] ELSE "a text"
OnlyOne(columns) == IF Len(columns) = 1 THEN {columns[1].column[2]} ELSE {}
IsPlaceholder(column) == column[1] = "placeholder"
(* In the query an item with a parenthesis counts as a number, and every   *)
(* item of a stub has one.                                                 *)
ByType(sql, type) ==
  LET columns == IF sql = <<>> THEN <<>> ELSE SelectSeq(sql[1].columns, LAMBDA c : ~IsPlaceholder(c.column))
      Computed(c) == c.number \/ sql[1].stub
  IN  CASE type = "NumberField" -> OnlyOne(SelectSeq(columns, Computed))
        [] type = "StringField" -> OnlyOne(SelectSeq(columns, LAMBDA c : ~Computed(c)))
        [] OTHER -> {}

TemplatedFields(report) ==
  SelectSeq(FlattenSeq([i \in DOMAIN report.sections |-> report.sections[i].elements]),
            LAMBDA el : el.kind = "field" /\ IsPlaceholder(el.column))

(* The fields are taken in order: the first that can settle a name does.   *)
ResolveField(sql, given, resolved, el) ==
  LET name == el.column[2]
      target == IF name \in DOMAIN resolved THEN {resolved[name]}
                ELSE IF name \in DOMAIN given THEN {WordOf(given[name])} ELSE ByType(sql, el.type)
  IN  [n \in {x \in {name} : target # {}} |-> CHOOSE t \in target : TRUE] @@ resolved

ResolvedUpTo(report, given, k) ==
  FoldLeft(LAMBDA resolved, el : ResolveField(report.sql, given, resolved, el), [x \in {} |-> ""],
           SubSeq(TemplatedFields(report), 1, k))

(* The fields that nothing had settled when it was their turn.             *)
Unsettled(report, given) ==
  {TemplatedFields(report)[k] : k \in {j \in DOMAIN TemplatedFields(report) :
     TemplatedFields(report)[j].column[2] \notin DOMAIN ResolvedUpTo(report, given, j)}}

Substituted(column, subs) ==
  IF IsPlaceholder(column) /\ column[2] \in DOMAIN subs THEN Col(subs[column[2]]) ELSE column

BindElement(el, subs, unsettled) ==
  [el EXCEPT !.column = Substituted(@, subs), !.category = Substituted(@, subs),
             !.values = [i \in DOMAIN @ |-> Substituted(@[i], subs)],
             !.notes = @ \cup IF el \in unsettled THEN {"bound to a placeholder"} ELSE {}]

BoundLayout(report, given) ==
  LET resolved == ResolvedUpTo(report, given, Len(TemplatedFields(report)))
      subs == resolved @@ [n \in DOMAIN given |-> WordOf(given[n])]
      notes == IF DOMAIN resolved = {} THEN {} ELSE {<<"templated bindings resolved", "">>}
  IN  [report EXCEPT !.sections = OnElements(@, LAMBDA el : BindElement(el, subs, Unsettled(report, given))),
                     !.summaries = [i \in DOMAIN @ |-> [@[i] EXCEPT !.field = Substituted(@, subs)]],
                     !.issues = @ \cup notes]

Bindings ==
  /\ stage = "bindings" /\ stage' = "notes"
  /\ LET known == Known(sequence, derived)
     IN  model' = BoundLayout(model, [n \in Settled(known, DOMAIN known) |-> known[n]])
  /\ UNCHANGED <<sequence, derived, scripts, jndi, parameters, columnLists, queryLists, record>>

-----------------------------------------------------------------------------
(* The notes on what has no counterpart, the grade, and the record of the  *)
(* estate's triage, which calls a report without a layout "missing".       *)

Orchestration == {"EmailComponent", "TemplateComponent", "UtilityComponent", "ChartComponent"}
ScriptNotes(state) ==
  LET remaining == {o.name : o \in ToSet(state.action.outputs)} \ DOMAIN state.values
  IN  {<<"evaluated at conversion", n>> : n \in DOMAIN state.values}
        \cup {<<"stays manual", n>> : n \in {x \in remaining : state.stopped}}

Notes ==
  /\ stage = "notes" /\ stage' = "done"
  /\ model' = [model EXCEPT !.issues = @ \cup UNION {ScriptNotes(st) : st \in ToSet(scripts)}
                  \cup {<<"has no counterpart", a.component>> : a \in {x \in ToSet(sequence.actions) : x.component \in Orchestration}}
                  \cup {<<"complexity", Complexity(sequence)>>}]
  /\ record' = [kind |-> "report", definition |-> IF model.sections = <<>> THEN "missing" ELSE model.format,
                grade |-> Complexity(sequence)]
  /\ UNCHANGED <<sequence, derived, scripts, jndi, parameters, columnLists, queryLists>>

Init ==
  /\ sequence \in Sequences
  /\ stage = "scripts" /\ derived = NoneGiven /\ scripts = <<>>
  /\ model = Blank /\ jndi = "default" /\ parameters = <<>>
  /\ columnLists = [x \in {} |-> ""] /\ queryLists = NoneGiven
  /\ record = [kind |-> "", definition |-> "", grade |-> ""]

Next == Scripts \/ Definition \/ Feed \/ StubQueries \/ Parameter \/ AllParameters \/ Bindings \/ Notes

Spec == Init /\ [][Next]_sequenceVars

-----------------------------------------------------------------------------
(* Properties.                                                             *)

HasReport == ReportsOf(sequence) # <<>>
Done == stage = "done" /\ HasReport

(* What the platform's own default run gives each name.                    *)
PlatformValues(s) ==
  LET defaults == DefaultsOf(s)
      programs == SelectSeq(s.actions, LAMBDA a : a.component = "JavascriptRule")
  IN  FoldLeft(LAMBDA env, a : AfterProgram(a.program, env), [n \in DOMAIN defaults |-> AsValue(defaults[n])], programs)

(* "Everything in values ... is exact" (js_eval.evaluate_script): when no  *)
(* script was given up on, the query that ships pastes for every dynamic   *)
(* fragment the text the platform's default run pastes, and removes those  *)
(* the run leaves undefined.                                               *)
DefaultRunIsKept ==
  Done /\ model.sql # <<>> /\ (\A st \in ToSet(scripts) : ~st.stopped)
    => \A a \in FeedOf(sequence) : \A f \in a.query.fragments :
         LET env == PlatformValues(sequence)
             text == IF f \in DOMAIN env /\ env[f].t # "null" THEN JsStr(env[f]) ELSE <<>>
         IN  ~model.sql[1].stub
               => IF text = <<>> THEN f \in model.sql[1].dropped
                  ELSE f \in DOMAIN model.sql[1].pasted /\ model.sql[1].pasted[f] = text

(* "so the converted layout opens, renders" (_stub_missing_queries): a     *)
(* stand-in query has every column that the fields, charts and totals of   *)
(* the shipped layout and of its sub-reports read, when the layout has no  *)
(* placeholder of its own.                                                 *)
Shown(report) ==
  LET els == ElementsOf(report.sections)
  IN  ({el.column : el \in {x \in els : x.kind = "field"}} \cup UNION {{el.category} \cup ToSet(el.values) : el \in els}
         \cup {f.field : f \in ToSet(report.summaries)}) \ {NoColumn}
Fed(report) ==
  /\ Shown(report) # {} => report.sql # <<>>
  /\ \A q \in ToSet(report.sql) : q.stub /\ (\A c \in ToSet(q.columns) : ~IsPlaceholder(c.column))
       => Shown(report) \subseteq {c.column : c \in ToSet(q.columns)}
FieldsAreFed ==
  Done => Fed(model) /\ \A el \in ElementsOf(model.sections) : \A child \in ToSet(el.child) : Fed(child)

(* "a selection fed by another lookup is a query-backed pick-list": a      *)
(* prompt with a default offers what it offered, the rows of its lookup or *)
(* those written in the sequence.                                          *)
Offers(p) ==
  IF p.name \in DOMAIN columnLists THEN "the column" ELSE IF p.name \in DOMAIN queryLists THEN "the lookup"
  ELSE IF p.values # <<>> THEN "values" ELSE "nothing"
PromptsKeepTheirLists ==
  Done => \A i \in ToSet(sequence.inputs) : \A prompt \in {PromptOf(sequence, i.name)} \cap ToSet(PromptsOf(sequence)) :
            \E p \in ToSet(parameters) :
              /\ p.name = i.name
              /\ ~Defaultless(i) /\ (\E a \in LookupOf(sequence, prompt.list) : a.component = "SQLLookupRule")
                   => Offers(p) = "the lookup" /\ queryLists[i.name].query \in {a.query : a \in LookupOf(sequence, prompt.list)}
              /\ ~Defaultless(i) /\ StaticList(sequence, prompt) # {}
                   => /\ Offers(p) = "values"
                      /\ \E list \in StaticList(sequence, prompt) :
                           p.values = [k \in DOMAIN list.rows |-> list.rows[k][prompt.value]]

-----------------------------------------------------------------------------
(* The definition a layout was read from.                                  *)
Source == LET r == CHOOSE x \in DefinitionOf(sequence) : TRUE
              content == FileAt(sequence, r.at)
          IN  IF content.layout # <<>> THEN content.layout[1] ELSE DesignerSource(sequence, r.at).layout[1]
LaidOut == Done /\ model.sections # <<>>

(* "elements a ported function targets keep their name in the bundle": a   *)
(* function that acted on an element, by its name or by that of a band     *)
(* around it, still finds it, or the report says that it finds nothing, for*)
(* what the walk carries names to: an element with one such function, which*)
(* is no page number of the simple dialect, no painted band or sub-report  *)
(* inside the band, and no chart or line, which has its band's name only.  *)
ActsOn(t, e) == t = e.name \/ t \in ToSet(e.bands)
Finds(t, el) == (el.named /\ el.name = t) \/ <<"no longer defines", t>> \in model.issues
CarriesNames(el) ==
  /\ Cardinality({t \in AllTargets(model.ported) : ActsOn(t, el.of)}) = 1
  /\ el.of.tag \notin {"fill", "sub-report"} /\ (el.kind = "special" => model.format # "simple")
  /\ el.of.tag \in {"line", "drawable"} => el.of.name \notin AllTargets(model.ported)
PlainTogglesReach ==
  LaidOut => \A t \in AllTargets(model.ported), el \in ElementsOf(model.sections) :
               ActsOn(t, el.of) /\ CarriesNames(el) => Finds(t, el)

(* A sub-report behind the report's header has a group of g's name.        *)
Shadowed(g) ==
  \E e \in ToSet(Source.elements) :
    /\ e.child # <<>> /\ e.in.band \in Groupwise \cup {"items"}
    /\ \E h \in ToSet(e.child[1].groups) : h.name = g.name /\ h.column # ""

(* "Group scoping translates from the JFreeReport group NAME to that       *)
(* group's break column (which is also the PRD group name the writer       *)
(* emits)": a total declared for a group restarts with a group the bundle  *)
(* defines, and with the column that group broke on, in the dialect whose  *)
(* parser translates names, unless the group is shadowed: _scan_functions  *)
(* keeps the last group of a name in the file.                             *)
RestartsWith(f, g) == \E s \in ToSet(model.summaries) : s.name = f.name /\ s.group = g.column /\ g.column \in ToSet(model.groups)
ExtTotalsRestart ==
  LaidOut /\ model.format = "legacy-ext"
    => \A f \in ToSet(Source.functions), g \in ToSet(Source.groups) :
         f.class = "total" /\ f.group = g.name /\ g.column # "" /\ ~Shadowed(g) => RestartsWith(f, g)

(* "shows one named band per row": what stood in one layer prints on the   *)
(* rows of that layer.                                                     *)
LayersAreKept ==
  LaidOut /\ model.format = "simple"
    => \A el \in ElementsOf(model.sections), h \in HidesOf(Source.functions) :
         /\ ActsOn(h.element, el.of)
         /\ \A other \in HidesOf(Source.functions) : ActsOn(other.element, el.of) => other = h
         => <<h.field, h.element>> \in ToSet(el.shows)

(* A band of a group is placed with the group of the bundle that breaks on *)
(* the column its own group broke on, whichever groups wrap the report.    *)
BandsKeepTheirGroup ==
  LaidOut => \A s \in {x \in ToSet(model.sections) : x.kind \in {"GroupHeader", "GroupFooter"}} :
               \A el \in ToSet(s.elements) : s.group \in DOMAIN model.groups /\ model.groups[s.group] = Source.groups[el.of.in.group].column

(* What the definition asks for reaches it: the columns of the stub and    *)
(* the values of its prompts.                                              *)
InputsAreFed == FieldsAreFed /\ PromptsKeepTheirLists

(* What hides an element of either dialect still hides it, and nothing     *)
(* else is moved into or out of its band.                                  *)
TogglesReach == PlainTogglesReach /\ LayersAreKept

(* Totals and bands stay with the group they were drawn for.               *)
GroupsKeepTheirTotals == ExtTotalsRestart /\ BandsKeepTheirGroup

=============================================================================
