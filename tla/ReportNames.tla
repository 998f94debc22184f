------------------------------ MODULE ReportNames ------------------------------
(***************************************************************************)
(* The names of a bundle: what _resolve_references binds each object of a  *)
(* report to, what _attach_subreports renames, and which names the writer  *)
(* then defines. The walk is in the order of the areas, one reference a    *)
(* step, because one may change what a later one finds: the first field on *)
(* a deviation renames the summary, a call in a text adds one.             *)
(* A name is a sequence of words, as Sum_Amount_City is, so that two ways  *)
(* of joining words may give one name. A report is a record [columns,      *)
(* command, formulas, summaries, totals, parameters, groups, objects,      *)
(* asks]; a call [op, of, by, outer, kind] is Op({of}, {by}, {outer}),     *)
(* where {of} is a column or a formula, as its kind says.                  *)
(***************************************************************************)
EXTENDS Integers, Sequences, FiniteSets, SequencesExt

CONSTANT NameDumps      (* pairs of a master and the report it places      *)

VARIABLES
  reports,     (* the dump                                                 *)
  at,          (* the report being resolved                                *)
  stage,       (* the loop of _resolve_references or after it              *)
  next,        (* the object the loop is at                                *)
  part,        (* the reference of the object, or the call of its condition*)
  summaries,   (* model.summaries                                          *)
  windows,     (* model.window_columns                                     *)
  parameters,  (* the current name of each parameter                       *)
  uses,        (* the names an object prints or is styled by               *)
  bound,       (* the calls that were bound, with their name               *)
  noted,       (* the objects that carry a note, 0 for model.issues        *)
  links,       (* el.subreport_links of each placement                     *)
  asks,        (* the parameters the selection and the formulas mention    *)
  defines      (* the names the written bundle defines                     *)

nameVars == <<reports, at, stage, next, part, summaries, windows, parameters, uses, bound, noted, links, asks, defines>>

None == <<"no", "name">>
Mapped == {"Sum", "Count", "Average", "Maximum", "Minimum", "DistinctCount"}
Deviations == {"StdDeviation", "Variance", "PopStandardDeviation", "PopVariance"}

(* How a report spells a call, which is the display name of its summary,   *)
(* and what is left of the call in the name of its function.               *)
Spelled(c) == <<"call", c.kind, c.op, c.of, c.by, c.outer>>
Joined(c) == <<c.op>> \o c.of \o c.by

-----------------------------------------------------------------------------
(* _parse_summaries. The dump may give .NET type names for the field and   *)
(* the group; the summary's own name still spells them out.                *)
Typed == <<".NET type">>
Recovered(s) ==
  [of |-> IF s.field = Typed THEN s.call.of ELSE s.field,
   by |-> IF s.group = Typed /\ s.call.by # <<>> THEN s.call.by ELSE s.group]

(* Mutant of Named: the stored operation names the function.               *)
NamedByOperation(s) == <<s.stored>> \o Recovered(s).of \o Recovered(s).by

Named(s) == <<s.call.op>> \o Recovered(s).of \o Recovered(s).by

Summarised(s) ==
  [name |-> Spelled(s.call), op |-> s.stored, of |-> Recovered(s).of, by |-> Recovered(s).by,
   fn |-> Named(s), running |-> FALSE,
   wider |-> IF s.call.op = "PercentOfSum" THEN s.call.outer ELSE None]

(* _parse_running_totals: the engine and the RAS variant of one total are  *)
(* one; the first variant that names the reset group is kept, and dropped  *)
(* without a word when it names no field to total.                         *)
KeptAt(totals, name) ==
  LET same == {i \in DOMAIN totals : totals[i].name = name}
      named == {i \in same : totals[i].on # <<>>}
  IN  Min(IF named = {} THEN same ELSE named)
KeptTotal(totals, name) == totals[KeptAt(totals, name)]
Fieldless(t) == t.of = <<>>
Mechanical(t) == t.op \in Mapped /\ ~t.evaluates /\ t.resets \in {"never", "group"}
Carried(t) == ~Fieldless(t) /\ Mechanical(t)
ByHand(t) == ~Fieldless(t) /\ ~Mechanical(t)

(* Mutant of ResetGroup: the innermost group is always assumed.            *)
ResetInnermost(t, groups) == IF t.resets = "group" /\ groups # <<>> THEN Last(groups) ELSE <<>>

ResetGroup(t, groups) ==
  IF t.resets # "group" THEN <<>>
  ELSE IF t.on # <<>> THEN t.on ELSE IF groups = <<>> THEN <<>> ELSE Last(groups)

Totalled(t, groups) ==
  [name |-> t.name, op |-> t.op, of |-> t.of, by |-> ResetGroup(t, groups), fn |-> <<"RT">> \o t.name,
   running |-> TRUE, wider |-> None]

(* The totals that become summaries, one variant of each, in their order.  *)
KeptTotals(r) == {i \in DOMAIN r.totals : i = KeptAt(r.totals, r.totals[i].name) /\ Carried(r.totals[i])}
Nth(S, k) == CHOOSE i \in S : Cardinality({j \in S : j <= i}) = k

ParsedSummaries(r) ==
  [i \in 1..Len(r.summaries) |-> Summarised(r.summaries[i])]
    \o [k \in 1..Cardinality(KeptTotals(r)) |-> Totalled(r.totals[Nth(KeptTotals(r), k)], r.groups)]

(* What holds of a dump: its references are to what it declares, a summary *)
(* is stored as what it is called but for percentages, and the variants of *)
(* a total agree where both name a group.                                  *)
IsList(s) == s \in Seq(Range(s))
FormulaNames(r) == {f.name : f \in r.formulas}

IsCall(c) ==
  c \in [op : STRING \ {"WF", "RT"}, of : Seq(STRING), by : Seq(STRING), outer : Seq(STRING), kind : {"db", "formula"}]

Stores(s) ==
  /\ IsCall(s.call)
  /\ s.field \in {s.call.of, Typed} /\ s.group \in {s.call.by} \union (IF s.call.by = <<>> THEN {} ELSE {Typed})
  /\ s.stored \in Deviations <=> s.call.op \in Deviations
  /\ s.call.op \in Mapped => s.stored = s.call.op
  /\ s.call.op = "PercentOfSum" => s.stored = "Sum"

Refers(r, o, ref) ==
  CASE ref.kind = "db" -> o.is = "crosstab" \/ ref.name \in r.columns
    [] ref.kind = "formula" -> o.is # "field" \/ ref.name \in FormulaNames(r)
    [] ref.kind = "parameter" -> \E p \in Range(r.parameters) : p.name = ref.name
    [] ref.kind = "summary" -> \E t \in Range(r.totals) : t.name = ref.name
    [] ref.kind = "call" -> IsCall(ref.call)
    [] ref.kind \in {"display", "group name", "page"} -> TRUE

IsObject(r, o) ==
  /\ o.is \in {"field", "text", "crosstab", "subreport"}
  /\ IsList(o.refs) /\ \A ref \in Range(o.refs) : Refers(r, o, ref)
  /\ o.is = "field" => Len(o.refs) = 1
  /\ IsList(o.styledBy) /\ \A c \in Range(o.styledBy) : IsCall(c)
  /\ o.is = "crosstab" => o.styledBy = <<>>

CallsOf(r) ==
  {s.call : s \in Range(r.summaries)}
    \union (UNION {{ref.call : ref \in {x \in Range(o.refs) : x.kind = "call"}} : o \in Range(r.objects)})
    \union (UNION {Range(o.styledBy) : o \in Range(r.objects)})

IsReport(r) ==
  /\ IsList(r.summaries) /\ \A s \in Range(r.summaries) : Stores(s)
  /\ IsList(r.totals) /\ \A t, u \in Range(r.totals) :
       /\ t.name \in Seq(STRING) /\ \A c \in CallsOf(r) : t.name # Spelled(c)
       /\ t.name = u.name => t.resets = u.resets /\ (t.on = <<>> \/ u.on = <<>> \/ t.on = u.on)
  /\ IsList(r.parameters) /\ r.asks \subseteq {p.name : p \in Range(r.parameters)}
  /\ IsList(r.groups) /\ Range(r.groups) \subseteq r.columns \union FormulaNames(r)
  /\ IsList(r.objects) /\ \A o \in Range(r.objects) : IsObject(r, o)

ASSUME NameDumpsAssumption == \A d \in NameDumps : IsReport(d["child"]) /\ IsReport(d["master"])

Issues(r) ==
  \/ \E s \in Range(r.summaries) : s.stored \notin Mapped \union Deviations \/ s.call.op = "PercentOfSum"
  \/ \E n \in {t.name : t \in Range(r.totals)} : LET t == KeptTotal(r.totals, n) IN
       ByHand(t) \/ (Carried(t) /\ t.resets = "group" /\ t.on = <<>> /\ r.groups # <<>>)

-----------------------------------------------------------------------------
(* Binding. A result is [known, uses, noted, windows]: the summaries after *)
(* it, the names the object uses, whether it is noted as unresolved, and   *)
(* the window columns. Names are looked up among the first `among` known.  *)
Found(known, among, name) == {i \in 1..among : known[i].name = name}
Nothing(known, ws) == [known |-> known, uses |-> {}, noted |-> FALSE, windows |-> ws]
Unbound(known, ws) == [known |-> known, uses |-> {}, noted |-> TRUE, windows |-> ws]
Uses(known, name, ws) == [known |-> known, uses |-> {name}, noted |-> FALSE, windows |-> ws]

(* _bind_window_summary: the summary itself is renamed after its column.   *)
BoundWindow(known, i, ws) ==
  LET alias == <<"WF">> \o known[i].fn
  IN  [known |-> [known EXCEPT ![i].fn = alias], uses |-> {alias}, noted |-> FALSE,
       windows |-> ws \union {[name |-> alias, op |-> known[i].op, of |-> known[i].of, by |-> known[i].by]}]

(* Mutant of BoundSummary: an operation without a function is bound too.   *)
BoundAnyway(known, i, ws) ==
  IF known[i].op \in Deviations THEN BoundWindow(known, i, ws) ELSE Uses(known, known[i].fn, ws)

BoundSummary(known, i, ws) ==
  CASE known[i].op \in Deviations -> BoundWindow(known, i, ws)
    [] known[i].op \notin Mapped \union Deviations -> Unbound(known, ws)
    [] OTHER -> Uses(known, known[i].fn, ws)

(* _synthesize_summary: an equivalent summary is reused, found by the name *)
(* its function would have.                                                *)
Synthesizable(r, c) ==
  /\ c.op \in Mapped /\ c.outer = <<>>
  /\ c.kind = "db" \/ (c.kind = "formula" /\ c.of \in FormulaNames(r))
Synthesized(known, c) ==
  IF \E i \in DOMAIN known : known[i].fn = Joined(c) THEN known
  ELSE Append(known, [name |-> Spelled(c), op |-> c.op, of |-> c.of, by |-> c.by,
                      fn |-> Joined(c), running |-> FALSE, wider |-> None])

(* A call in a text or in a condition: the name of the summary is used as  *)
(* it is now.                                                              *)
BoundCall(r, known, among, c, ws) ==
  LET named == Found(known, among, Spelled(c)) IN
  CASE named # {} -> Uses(known, known[Max(named)].fn, ws)
    [] named = {} /\ Synthesizable(r, c) -> Uses(Synthesized(known, c), Joined(c), ws)
    [] OTHER -> Unbound(known, ws)

(* _AGG_IN_CONDITION knows the mapped operations, of one group at most. A  *)
(* call it does not bind is a condition that is not carried, which is noted*)
BoundCondition(r, known, c, ws) ==
  IF c.op \in Mapped /\ c.outer = <<>> THEN BoundCall(r, known, Len(known), c, ws) ELSE Unbound(known, ws)

(* A reference of a field object.                                          *)
BoundField(r, known, among, ref, ws) ==
  LET named == Found(known, among, ref.name) IN
  CASE ref.kind \in {"db", "formula", "parameter"} -> Uses(known, ref.name, ws)
    [] ref.kind = "summary" /\ named = {} -> Uses(known, ref.name, ws)
    [] ref.kind \in {"summary", "display"} /\ named # {} -> BoundSummary(known, Max(named), ws)
    [] ref.kind = "group name" /\ ref.name \in Range(r.groups) -> Uses(known, ref.name, ws)
    [] OTHER -> Unbound(known, ws)

(* A marker in the prose of a text object.                                 *)
BoundMarker(r, known, among, ref, ws) ==
  LET named == Found(known, among, ref.name) IN
  CASE ref.kind = "call" -> BoundCall(r, known, among, ref.call, ws)
    [] ref.kind \in {"db", "parameter"} -> Uses(known, ref.name, ws)
    [] ref.kind = "formula" /\ ref.name \in FormulaNames(r) -> Uses(known, ref.name, ws)
    [] ref.kind = "summary" /\ named # {} -> Uses(known, known[Max(named)].fn, ws)
    [] ref.kind = "page" -> Uses(known, <<"PageofPages">>, ws)
    [] OTHER -> Unbound(known, ws)

(* _resolve_crosstab: a dimension is a formula or a column of the query,   *)
(* found without the digit Crystal adds to a field used twice.             *)
Dimension(r, ref) ==
  CASE ref.kind = "formula" -> IF ref.name \in FormulaNames(r) THEN ref.name ELSE None
    [] ref.kind = "db" /\ ref.name \in r.columns -> ref.name
    [] ref.kind = "db" /\ ref.name \notin r.columns ->
         IF Last(ref.name) = "1" /\ Front(ref.name) \in r.columns THEN Front(ref.name) ELSE None
    [] OTHER -> None

BoundCrosstab(r, known, refs, ws) ==
  LET dims == {Dimension(r, ref) : ref \in Range(refs)}
  IN  IF None \in dims THEN Unbound(known, ws)
      ELSE [known |-> known, uses |-> dims, noted |-> FALSE, windows |-> ws]

(* The writer's _crosstab_child_model computes a dimension that is a       *)
(* formula in its query, or says that it could not.                        *)
Computed(r, name) == ~r.command /\ \E f \in r.formulas : f.name = name /\ f.as = "column"
Uncomputed(r, o) ==
  {ref.name : ref \in {x \in Range(o.refs) : x.kind = "formula" /\ ~r.command /\ ~Computed(r, x.name)}}

-----------------------------------------------------------------------------
(* One report after the other: the child is parsed before its master       *)
(* attaches it.                                                            *)
Here == reports[at]
Both == {"child", "master"}
Parsed == Len(ParsedSummaries(Here))

NameInit ==
  /\ reports \in NameDumps
  /\ at = "child" /\ stage = "define" /\ next = 1 /\ part = 1
  /\ summaries = [r \in Both |-> <<>>] /\ windows = [r \in Both |-> {}]
  /\ parameters = [r \in Both |-> [i \in DOMAIN reports[r].parameters |-> reports[r].parameters[i].name]]
  /\ uses = [r \in Both |-> [i \in DOMAIN reports[r].objects |-> {}]]
  /\ bound = [r \in Both |-> {}] /\ noted = [r \in Both |-> {}]
  /\ links = [i \in DOMAIN reports["master"].objects |-> {}]
  /\ asks = [r \in Both |-> reports[r].asks]
  /\ defines = [r \in Both |-> {}]

Define ==
  /\ stage = "define" /\ stage' = "walk"
  /\ summaries' = [summaries EXCEPT ![at] = ParsedSummaries(Here)]
  /\ noted' = [noted EXCEPT ![at] = IF Issues(Here) THEN {0} ELSE {}]
  /\ UNCHANGED <<reports, at, next, part, windows, parameters, uses, bound, links, asks, defines>>

(* A loop goes through the objects, and here through the parts of each; the*)
(* next loop begins behind the last object.                                *)
Looping(loop) == stage = loop /\ next \in DOMAIN Here.objects
Onward(parts) ==
  /\ part' = IF part < parts THEN part + 1 ELSE 1
  /\ next' = IF part < parts THEN next ELSE next + 1
  /\ UNCHANGED <<reports, at, stage, defines>>

LoopEnds ==
  /\ stage \in {"walk", "style", "attach"} /\ next \notin DOMAIN Here.objects
  /\ stage' = CASE stage = "walk" -> "style"
                [] stage = "style" -> IF at = "child" THEN "parsed" ELSE "attach"
                [] stage = "attach" -> "write"
  /\ next' = 1
  /\ UNCHANGED <<reports, at, part, summaries, windows, parameters, uses, bound, noted, links, asks, defines>>

Records(result, calls) ==
  /\ summaries' = [summaries EXCEPT ![at] = result.known]
  /\ windows' = [windows EXCEPT ![at] = result.windows]
  /\ uses' = [uses EXCEPT ![at][next] = @ \union result.uses]
  /\ noted' = [noted EXCEPT ![at] = IF result.noted THEN @ \union {next} ELSE @]
  /\ bound' = [bound EXCEPT ![at] = @ \union {[call |-> c, name |-> n] : c \in calls, n \in result.uses}]
  /\ UNCHANGED <<parameters, links, asks>>

(* The first loop of _resolve_references: a field shows one reference, a   *)
(* cross-tab is resolved as a whole, a text marker by marker.              *)
ResolveField(o) ==
  /\ o.is = "field" /\ Onward(1)
  /\ Records(BoundField(Here, summaries[at], Parsed, Head(o.refs), windows[at]), {})

ResolveCrosstab(o) ==
  /\ o.is = "crosstab" /\ Onward(1)
  /\ Records(BoundCrosstab(Here, summaries[at], o.refs, windows[at]), {})

ResolveMarker(o) ==
  /\ o.is = "text" /\ o.refs # <<>> /\ Onward(Len(o.refs))
  /\ LET ref == o.refs[part]
     IN  Records(BoundMarker(Here, summaries[at], Parsed, ref, windows[at]),
                 IF ref.kind = "call" THEN {ref.call} ELSE {})

PassOver(o) ==
  /\ o.is = "subreport" \/ (o.is = "text" /\ o.refs = <<>>)
  /\ Onward(1) /\ Records(Nothing(summaries[at], windows[at]), {})

Resolve ==
  /\ Looping("walk")
  /\ LET o == Here.objects[next]
     IN  ResolveField(o) \/ ResolveCrosstab(o) \/ ResolveMarker(o) \/ PassOver(o)

(* The second: _bind_condition_aggregates, call by call.                   *)
BindCall(o) ==
  /\ o.styledBy # <<>> /\ Onward(Len(o.styledBy))
  /\ LET c == o.styledBy[part]
     IN  Records(BoundCondition(Here, summaries[at], c, windows[at]), {c})

PassPlain(o) ==
  /\ o.styledBy = <<>> /\ Onward(1)
  /\ Records(Nothing(summaries[at], windows[at]), {})

Bind ==
  /\ Looping("style")
  /\ LET o == Here.objects[next] IN BindCall(o) \/ PassPlain(o)

Ascend ==
  /\ at = "child" /\ stage = "parsed"
  /\ at' = "master" /\ stage' = "define"
  /\ UNCHANGED <<reports, next, part, summaries, windows, parameters, uses, bound, noted, links, asks, defines>>

(* _attach_subreports, at one placement: a parameter that still has the    *)
(* name Crystal gave a link is linked and renamed.                         *)
Pending == {i \in DOMAIN parameters["child"] :
              reports["child"].parameters[i].link # "no" /\ parameters["child"][i] = reports["child"].parameters[i].name}
Alias(prm) == <<"Pm">> \o prm.table \o prm.to

(* Mutant of Renamed: the formulas and the selection keep the old name.    *)
RenamedAlone(names, now) == names

Renamed(names, now) ==
  {IF \E i \in now : reports["child"].parameters[i].name = n
   THEN Alias(reports["child"].parameters[CHOOSE i \in now : reports["child"].parameters[i].name = n]) ELSE n : n \in names}

Attachable(o) == o.is = "subreport" /\ o.defined /\ o.area # "page"
Attach ==
  /\ at = "master" /\ Looping("attach") /\ Onward(1)
  /\ LET o == Here.objects[next]
         child == reports["child"]
         now == IF Attachable(o) THEN {i \in Pending : child.parameters[i].link # "summary"} ELSE {}
         left == o.is = "subreport" /\ (~Attachable(o) \/ \E i \in Pending : child.parameters[i].link = "summary")
     IN  /\ parameters' = [parameters EXCEPT !["child"] =
                              [i \in DOMAIN @ |-> IF i \in now THEN Alias(child.parameters[i]) ELSE @[i]]]
         /\ links' = [links EXCEPT ![next] = {<<child.parameters[i].to, Alias(child.parameters[i])>> : i \in now}]
         /\ asks' = [asks EXCEPT !["child"] = Renamed(@, now)]
         /\ noted' = [noted EXCEPT !["master"] = IF left THEN @ \union {next} ELSE @]
  /\ UNCHANGED <<summaries, windows, uses, bound>>

(* The bundle: columns of the query with the windows folded in, a function *)
(* for each mapped summary, an expression for each translated formula, the *)
(* parameters, and the page function when a text names it.                 *)
Functions(r) == {s \in Range(summaries[r]) : s.op \in Mapped}
Windowed(r) == {w.name : w \in windows[r]}

Defined(r) ==
  reports[r].columns \union Windowed(r) \union {s.fn : s \in Functions(r)}
    \union {f.name : f \in {g \in reports[r].formulas : g.as # "manual"}} \union Range(parameters[r])
    \union {n \in {<<"PageofPages">>} : \E i \in DOMAIN uses[r] : n \in uses[r][i]}

Write ==
  /\ at = "master" /\ stage = "write" /\ stage' = "written"
  /\ defines' = [r \in Both |-> Defined(r)]
  /\ noted' = [r \in Both |-> noted[r] \union
                 {i \in DOMAIN reports[r].objects : reports[r].objects[i].is = "crosstab" /\ i \notin noted[r]
                                                    /\ Uncomputed(reports[r], reports[r].objects[i]) # {}}]
  /\ UNCHANGED <<reports, at, next, part, summaries, windows, parameters, uses, bound, links, asks>>

NameNext == Define \/ LoopEnds \/ Resolve \/ Bind \/ Ascend \/ Attach \/ Write
NameSpec == NameInit /\ [][NameNext]_nameVars

-----------------------------------------------------------------------------
Written == stage = "written"
Object(r, i) == reports[r].objects[i]

(* Where the code binds an object to a name that comes to nothing: a text  *)
(* that spells a summary whose operation has no function, and which no     *)
(* field before it made a column of the query; an object of a placed       *)
(* report that shows a link's parameter; a field that shows a running total*)
(* without a field; and a cross-tab over a formula when the SQL is a       *)
(* Command's.                                                              *)
SpellsUnmapped(r, o) ==
  /\ o.is = "text"
  /\ \E ref \in Range(o.refs) : \E s \in Range(reports[r].summaries) :
       ref.kind = "call" /\ ref.call = s.call /\ s.stored \notin Mapped
ShowsLink(r, o) ==
  r = "child" /\ \E ref \in Range(o.refs) : ref.kind = "parameter"
                    /\ \E p \in Range(reports["child"].parameters) : p.name = ref.name /\ p.link # "no"
ShowsFieldless(r, o) ==
  /\ o.is = "field"
  /\ \E ref \in Range(o.refs) : \E t \in Range(reports[r].totals) :
       ref.kind = "summary" /\ t.name = ref.name /\ Fieldless(KeptTotal(reports[r].totals, t.name))
PivotsCommand(r, o) == o.is = "crosstab" /\ reports[r].command

(* What the object's place in the bundle knows: a cross-tab is a report of *)
(* its own, with the query's columns and no formulas.                      *)
Reachable(r, i) ==
  IF Object(r, i).is = "crosstab"
  THEN reports[r].columns \union {f.name : f \in {g \in reports[r].formulas : Computed(reports[r], g.name)}}
  ELSE defines[r]

(* A reference is live or it is on the work list: an object that uses a    *)
(* name nobody defines carries a note, or the name is that of a formula or *)
(* a running total which is listed as manual work (_resolve_references,    *)
(* build_datadefinition_xml), but for the four cases above.                *)
ListedAsWork(r, n) ==
  \/ \E f \in reports[r].formulas : f.name = n /\ f.as = "manual"
  \/ \E t \in Range(reports[r].totals) : t.name = n /\ ByHand(KeptTotal(reports[r].totals, n))
Live(r, i) == i \in noted[r] \/ \A n \in uses[r][i] : n \in Reachable(r, i) \/ ListedAsWork(r, n)
LiveOrListed ==
  Written => \A r \in Both : \A i \in DOMAIN reports[r].objects :
    LET o == Object(r, i)
    IN  ~SpellsUnmapped(r, o) /\ ~ShowsLink(r, o) /\ ~ShowsFieldless(r, o) /\ ~PivotsCommand(r, o) => Live(r, i)

(* A call in prose or in a condition is bound to a function that computes  *)
(* that call, whichever summaries the report has: PercentOfSum is stored   *)
(* as a Sum over the same field (_parse_summaries, _synthesize_summary).   *)
(* Other percentages are totals in the bundle, and listed as such; calls   *)
(* whose words join to one name, as those of percentages of a group and of *)
(* a wider one do, have one function.                                      *)
Alone(r, c) == \A d \in CallsOf(r) : Joined(d) = Joined(c) => d = c

Means(s, c) ==
  IF c.op = "PercentOfSum" THEN s.op = "Sum" /\ s.of = c.of /\ s.by = c.by /\ s.wider = c.outer
  ELSE s.op = c.op /\ s.of = c.of /\ s.by = c.by /\ s.wider = None /\ ~s.running
CallsKeepTheirMeaning ==
  Written =>
    \A r \in Both : \A b \in bound[r] : \A s \in Functions(r) :
      b.call.op \in Mapped \union {"PercentOfSum"} /\ Alone(reports[r], b.call) /\ s.fn = b.name => Means(s, b.call)

(* No two calls that Crystal tells apart become functions of one name (the *)
(* loss that _recover_summary_refs is there to prevent), where their words *)
(* tell them apart.                                                        *)
OneFunctionPerName ==
  \A r \in Both :
    \A i, j \in DOMAIN reports[r].summaries \intersect DOMAIN summaries[r] :
      LET c == reports[r].summaries[i].call
          d == reports[r].summaries[j].call
      IN  c # d /\ Alone(reports[r], c) => summaries[r][i].fn # summaries[r][j].fn

(* A running total restarts with the group that any of its variants names. *)
TotalsRestartWhereNamed ==
  \A r \in Both : \A t \in Range(reports[r].totals) : \A s \in Functions(r) :
    s.running /\ s.name = t.name /\ t.resets = "group" /\ t.on # <<>> => s.by = t.on

(* The first placement of a report hands it every link, under the names its*)
(* selection and formulas ask for, and they ask for nothing else.          *)
Placed == {i \in DOMAIN reports["master"].objects : Attachable(Object("master", i))}
Linked(i) ==
  \A k \in DOMAIN parameters["child"] :
    LET p == reports["child"].parameters[k]
    IN  p.link \in {"column", "formula"} => <<p.to, parameters["child"][k]>> \in links[i]
LinksArrive ==
  Written => /\ asks["child"] \subseteq Range(parameters["child"])
             /\ \A i \in Placed : (\A j \in Placed : i <= j) => Linked(i)

(* A call is bound to a function that computes it and no other call has.   *)
CallsMeanOneThing == CallsKeepTheirMeaning /\ OneFunctionPerName

=============================================================================
