------------------------------- MODULE MCLegacy -------------------------------
(***************************************************************************)
(* Action sequences in five families: scripts that build a fragment of the *)
(* query, layouts of each dialect over a query or a cube, prompts with and *)
(* without lists, and ways of naming the definition. Bounds: two scripts   *)
(* of three statements, two elements, three groups, three functions.       *)
(***************************************************************************)
EXTENDS ActionSequence

CONSTANT StatementEnd       (* the tokens that end a simple statement      *)
Semicolon == <<Op(";")>>

Action(component) ==
  [component |-> component, outputs |-> <<>>, script |-> <<>>, program |-> <<>>, prompts |-> <<>>, loop |-> FALSE,
   query |-> [columns |-> <<>>, prepared |-> {}, fragments |-> {}, equals |-> [x \in {} |-> ""], lists |-> {}]]
Out(name, to) == [name |-> name, to |-> to]
Render == Action("JFreeReportComponent")
Query(component, query) == [Action(component) EXCEPT !.query = query, !.outputs = <<Out("rows", "data")>>]
NoQuery == Render.query
Column(name, number) == [column |-> Col(name), number |-> number]
Sales == [NoQuery EXCEPT !.columns = <<Column("REGION", FALSE), Column("SALES", TRUE)>>]

InputOf(name, default) == [name |-> name, default |-> default, blank |-> FALSE, rows |-> <<>>]
File(name, at) == [name |-> name, at |-> at, form |-> "file"]
Content(form, layout) == [form |-> form, layout |-> layout, config |-> NoneGiven]

Group(name, column) == [name |-> name, column |-> column]
Function(name, class) ==
  [name |-> name, class |-> class, group |-> "", element |-> "", field |-> NoColumn, values |-> <<>>, source |-> ""]
Drawn(tag, name, band, bands, binds) ==
  [in |-> band, bands |-> bands, name |-> name, tag |-> tag, binds |-> binds, text |-> "", child |-> <<>>]
Layout(dialect, groups, functions, elements) ==
  [dialect |-> dialect, groups |-> groups, functions |-> functions, elements |-> elements]

Items == Band("items", 0)
OneField == Layout("simple", <<>>, <<>>, <<Drawn("number", "amount", Items, <<>>, Col("SALES"))>>)

Sequence(inputs, actions, layout) ==
  [inputs |-> inputs, resources |-> <<File("report-definition", "layout.xml")>>, named |-> "report-definition", picks |-> "",
   reads |-> "data", actions |-> actions, folder |-> [f \in {"layout.xml"} |-> Content("definition", <<layout>>)]]

-----------------------------------------------------------------------------
(* Scripts.                                                                *)
X == Variable("x")
IsOne == Operation("==", X, Literal(<<"1">>))
IsSet == Operation("||", IsOne, Operation("==", Variable("q"), Literal(<<"a">>)))
IsSmall == Operation("<=", Variable("y"), Integer(2))
Adds == Sets("q", "+=", X)
Simple == {Sets("q", "=", Literal(<<"a">>)), Adds, Sets("y", "=", Operation("/", Integer(6), Integer(2))),
           Sets("q", "=", Operation("+", Operation("+", X, Integer(1)), Literal(<<"b">>))), Calls("f"), Strange}
Branching == {If(c, <<s>>) : c \in {IsOne, IsSet, IsSmall}, s \in Simple}
          \cup {If(IsOne, <<s, t>>) : s \in Simple, t \in Simple}
          \cup {If(IsOne, <<Of(<<s, t>>), If(IsSet, <<t, s>>)>>) : s \in Simple, t \in Simple}

Script(program, ends) ==
  [Action("JavascriptRule") EXCEPT !.outputs = <<Out("q", "q"), Out("y", "y")>>, !.program = program,
                                   !.script = ProgramText(program, ends)]
Fragmented == [Sales EXCEPT !.fragments = {"q", "y"}]
Scripted(scripts_) ==
  {Sequence(<<InputOf("x", default)>>, p \o <<Query("SQLLookupRule", Fragmented), Render>>, OneField) :
     p \in scripts_, default \in {<<"1">>, <<"2">>, <<"b">>}}

OfOneScript == {<<Script(<<s, t>>, StatementEnd)>> : s \in Simple \cup Branching, t \in Simple}
OfTwoScripts == {<<Script(<<s>>, StatementEnd), Script(<<t>>, StatementEnd)>> : s \in Simple \ {Adds}, t \in Branching}
ScriptSequences == Scripted(OfOneScript \cup OfTwoScripts)

-----------------------------------------------------------------------------
(* Layouts.                                                                *)
Toggle(t) == [Function("shade", "toggle") EXCEPT !.element = t]
Hide(t) == [Function("hide", "hide") EXCEPT !.element = t, !.field = Col("KIND")]
Total(g) == [Function("total", "total") EXCEPT !.group = g, !.field = Col("SALES")]
Page == Function("pages", "page")
Pie == [Function("slices", "pie") EXCEPT !.field = Col("REGION"), !.values = <<Col("SALES")>>]
Bars == [Function("bars", "category") EXCEPT !.field = Ph("Group"), !.values = <<Col("SALES"), Col("COST"), NoColumn, Col("TAX")>>]
Chart(of) == [Function("chart", "chart") EXCEPT !.source = of]

FunctionLists ==
  {<<Toggle("layer"), Page, Total("By region")>>, <<Hide("layer"), Total("By city"), Toggle("amount")>>,
   <<Pie, Chart("slices"), Function("log", "other")>>, <<Bars, Pie, Chart("bars")>>, <<Hide("inner"), Hide("layer"), Chart("none")>>,
   <<Function("part", "share"), Function("say", "script"), Toggle("gone")>>}
GroupLists == {<<Group("all", ""), Group("By region", "REGION"), Group("By city", "CITY")>>, <<Group("By city", "CITY")>>}
PlacesOf(groups) == {Items, Band("reportheader", 0), Band("watermark", 0)} \cup {Band(b, Len(groups)) : b \in {"groupheader", "groupfooter"}}
Wrapped == {<<>>, <<"layer">>, <<"layer", "inner">>}

FieldsIn(band, bands) ==
  {Drawn("number", "amount", band, bands, Col("SALES")), Drawn("number", "", band, bands, Ph("Amount")),
   Drawn("string", "amount", band, bands, Ph("Amount")), Drawn("string", "pages", band, bands, Col("pages")),
   Drawn("drawable", "picture", band, bands, Col("chart")), Drawn("line", "layer", band, bands, NoColumn),
   Drawn("image", "logo", band, bands, NoColumn), Drawn("other", "x", band, bands, NoColumn)}
First_ == Drawn("string", "label", Items, <<"layer">>, Ph("Amount"))
Computed == [Drawn("number", "ratio", Items, <<"layer">>, NoColumn) EXCEPT !.text = "SALES / COST"]
Chosen(name) == [Drawn("chosen image", name, Items, <<"layer">>, NoColumn) EXCEPT !.text = "SALES > 0"]

InnerOf(group) ==
  Layout("ext", <<Group(group, "LINE")>>, <<Pie, Chart("slices"), [Total(group) EXCEPT !.name = "sum of lines"]>>,
                <<Drawn("drawable", "", Items, <<>>, Col("chart")), Drawn("string", "", Band("groupheader", 1), <<>>, Col("LINE"))>>)
SubReport(band, group) == [Drawn("sub-report", "nested", band, <<>>, NoColumn) EXCEPT !.child = <<InnerOf(group)>>]
SubReports == {SubReport(band, group) : band \in {Items, Band("reportheader", 0), Band("groupheader", 1)},
                                        group \in {"Lines", "By city"}}

LayoutsOf(dialect) ==
  UNION {{Layout(dialect, gs, fs, <<First_, e>>) : e \in FieldsIn(Items, bands)} :
           gs \in GroupLists, fs \in FunctionLists, bands \in Wrapped}
  \cup UNION {{Layout(dialect, gs, fs, <<Drawn("number", "amount", band, <<"layer">>, Col("SALES"))>>) : band \in PlacesOf(gs)} :
                gs \in GroupLists, fs \in FunctionLists}
ExtOnly == {Layout("ext", gs, fs, <<e, f>>) : gs \in GroupLists, fs \in FunctionLists,
              e \in {Computed, Chosen("arrow"), Chosen("")} \cup SubReports, f \in SubReports \cup {Computed}}

Feeds == {<<Query("SQLLookupRule", Sales)>>, <<Query("MDXLookupRule", NoQuery)>>}
Kinds(layouts) == {Sequence(<<>>, feed \o <<Render>>, l) : feed \in Feeds, l \in layouts}
LayoutSequences == Kinds(LayoutsOf("simple") \cup LayoutsOf("ext") \cup ExtOnly)

-----------------------------------------------------------------------------
(* Prompts.                                                                *)
Row(value, text) == [k \in {"key"} |-> text]
Rows == <<Row("key", <<"EMEA">>), Row("key", <<"APAC">>), Row("key", <<"NA">>)>>
Prompted(list) == [Action("SecureFilterComponent") EXCEPT !.prompts = <<[name |-> "p", list |-> list, value |-> "key"]>>]
PickLookup(query) == [Query("SQLLookupRule", query) EXCEPT !.outputs = <<Out("regions", "region list")>>]
Listed == [Sales EXCEPT !.prepared = {"p"}, !.lists = {"p"}]
Compared == [Sales EXCEPT !.prepared = {"p"}, !.equals = [n \in {"p"} |-> "REGION"]]
Defaults == {<<>>, IsoDay, BackwardsDay, <<"EMEA">>, <<"EMEA", Comma, "NA">>}
PromptSequences ==
  {Sequence(<<InputOf("p", d), [InputOf("fixed", <<>>) EXCEPT !.rows = Rows]>>,
            <<PickLookup(q), Prompted(list), Query("SQLLookupRule", f)>> \o last \o <<Render>>, OneField) :
     d \in Defaults, list \in {"", "regions", "region list", "fixed"}, q \in {Sales, [Sales EXCEPT !.prepared = {"p"}]},
     f \in {Sales, Listed, Compared}, last \in {<<>>, <<Action("EmailComponent")>>}}

-----------------------------------------------------------------------------
(* Ways of naming the definition.                                          *)
Inline(name) == [name |-> name, at |-> "inline", form |-> "inline"]
Laid(f) == IF f = "layout.report" THEN <<[OneField EXCEPT !.dialect = "designer"]>> ELSE <<OneField>>
Forms == [f \in {"layout.xml", "layout.jar", "layout.report", "inline"} |->
            IF f = "layout.xml" THEN {"definition", "commented", "broken"} ELSE IF f = "layout.jar" THEN {"jar", "empty jar", "corrupt jar"}
            ELSE IF f = "inline" THEN {"definition", "broken"} ELSE {"definition"}]
Folders ==
  {[f \in DOMAIN x |-> Content(x[f], Laid(f))] :
     x \in UNION {{y \in [fs -> UNION {Forms[f] : f \in fs}] : \A f \in fs : y[f] \in Forms[f]} :
                    fs \in {{"inline"}, {"inline", "layout.xml"}, {"inline", "layout.jar", "layout.report"}, {"inline", "layout.xml", "layout.jar"}}}}
ResourceLists == {<<>>, <<File("chart", "layout.xml"), File("report-jar", "layout.jar")>>, <<Inline("report-definition")>>,
                  <<File("report-definition", "layout.xml"), Inline("adhoc")>>, <<File("library", "layout.jar")>>}
NamingSequences ==
  {[inputs |-> <<InputOf("which", d)>>, resources |-> rs, named |-> n, picks |-> p, reads |-> "", folder |-> fs,
    actions |-> <<Render>>] :
     rs \in ResourceLists, n \in {"", "chart", "adhoc"}, p \in {"", "which"}, d \in {<<"chart">>}, fs \in Folders}
Strangers == {[Sequence(<<>>, <<Action(c)>>, OneField) EXCEPT !.reads = ""] : c \in {"KettleComponent", "ChartComponent", "EmailComponent"}}

Mine == ScriptSequences \cup LayoutSequences \cup PromptSequences \cup NamingSequences \cup Strangers

=============================================================================
