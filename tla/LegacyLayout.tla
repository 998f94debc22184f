------------------------------ MODULE LegacyLayout ------------------------------
(***************************************************************************)
(* The layouts of the old reporting engine: the simple JFreeReport format, *)
(* its extended ("ext") one and the object tree of Report Designer 1.x, as *)
(* the three parsers read them into one report model.                      *)
(* A definition is a record [dialect, groups, functions, elements, texts]: *)
(* a group [name, column] has the column "" when it lists no field, a      *)
(* function [name, class, group, element, field, values, source] uses what *)
(* its class reads, an element [in, bands, name, tag, binds, text, child]  *)
(* stands in the band "in" = [band, group] and in the named bands "bands", *)
(* the outermost first. A column is <<"col" or "placeholder", name>>. The  *)
(* "child" of a sub-report holds its definition, and the "of" of what is   *)
(* read from an element is that element, which the code does not keep.     *)
(* Positions, fonts and colours are left out.                              *)
(***************************************************************************)
EXTENDS Integers, Sequences, FiniteSets, SequencesExt

NoColumn == <<"col", "">>
Col(name) == <<"col", name>>
Ph(name) == <<"placeholder", name>>

Band(b, g) == [band |-> b, group |-> g]

-----------------------------------------------------------------------------
(* jfreereport_functions: the one table of both dialects.                  *)

Portable == {"toggle", "script"}
Collectors == {"pie", "category", "xy"}

(* The elements a ported function acts on.                                 *)
Targets(f) == IF f.class = "toggle" /\ f.element # "" THEN {f.element} ELSE {}

Decision(f) ==
  CASE f.class \in {"total", "running"} -> "aggregate"
    [] f.class = "page" -> "special"
    [] f.class \in Portable -> "port"
    [] OTHER -> "none"

(* The value columns of a collector, up to the first that is not given.    *)
Given(values) ==
  LET gaps == {i \in 1..Len(values) : values[i] = NoColumn}
  IN  IF gaps = {} THEN values ELSE SubSeq(values, 1, (CHOOSE i \in gaps : \A j \in gaps : i <= j) - 1)

(* A dictionary keeps the last value stored under a name.                  *)
LastNamed(seq, name) ==
  LET at == {i \in DOMAIN seq : seq[i].name = name}
  IN  IF at = {} THEN {} ELSE {seq[CHOOSE i \in at : \A j \in at : j <= i]}

(* build_chart_protos: a chart is the one its collector has a value for.   *)
Protos(functions) ==
  LET collectors == SelectSeq(functions, LAMBDA f : f.class \in Collectors)
      Chart(f) == {[name |-> f.name, category |-> c.field,
                    values |-> IF c.class = "pie" THEN SubSeq(c.values, 1, 1) ELSE Given(c.values)] :
                     c \in LastNamed(collectors, f.source)}
      charts == UNION {Chart(f) : f \in {g \in ToSet(functions) : g.class = "chart"}}
  IN  {c \in charts : c.values # <<>> /\ c.values[1] # NoColumn}

(* A chart that could not be built is noted, and so is one that could.     *)
ChartNotes(functions) ==
  {<<IF \E p \in Protos(functions) : p.name = f.name THEN "chart migrated" ELSE "rebuild the chart", f.name>> :
     f \in {g \in ToSet(functions) : g.class = "chart"}}

-----------------------------------------------------------------------------
(* What is shared by an element of each dialect: what it is, which column  *)
(* it reads, its name, and the condition on which it shows.                *)

Element(kind, name, column) ==
  [kind |-> kind, name |-> name, column |-> column, type |-> "", category |-> NoColumn, values |-> <<>>,
   formula |-> "", shows |-> <<>>, named |-> FALSE, notes |-> {}, child |-> <<>>, of |-> <<>>]

(* clone_chart: a placement of a chart has the data of it and no name.     *)
Clone(proto) ==
  [Element("chart", "", NoColumn) EXCEPT !.category = proto.category, !.values = proto.values]

ValueTypes == [string |-> "StringField", number |-> "NumberField", date |-> "DateField"]
IsValue(e) == e.tag \in DOMAIN ValueTypes

(* Images are found in the server's assets, beside the sequence, or are    *)
(* replaced by a stamp; each of the three leaves its note.                 *)
ImageNote(e) ==
  CASE e.text = "asset" -> "embedded from the server" [] e.text = "beside" -> "embedded from the folder"
    [] OTHER -> "placeholder is stamped"

(* _parse_element of the simple dialect; nothing for a tag it ignores.     *)
SimpleElement(e, protos) ==
  LET proto == {p \in protos : p.name = e.binds[2]}
  IN  CASE e.tag \in {"label", "message", "box"} -> <<Element(e.tag, e.name, NoColumn)>>
        [] IsValue(e) -> <<[Element("field", e.name, e.binds) EXCEPT !.type = ValueTypes[e.tag]]>>
        [] e.tag = "line" -> <<Element("line", "", NoColumn)>>
        [] e.tag = "image" -> <<[Element("image", e.name, NoColumn) EXCEPT !.notes = {ImageNote(e)}]>>
        [] e.tag = "drawable" ->
             IF proto # {} THEN <<Clone(CHOOSE p \in proto : TRUE)>>
             ELSE <<[Element("unknown", e.name, NoColumn) EXCEPT !.notes = {"rebuild the drawable"}]>>
        [] OTHER -> <<>>

(* _element of the ext dialect. A computed field is bound to an expression *)
(* of its own name; a picture chosen by a formula becomes two pictures of  *)
(* opposite visibility when both are at hand, and a note otherwise; what a *)
(* painted band leaves behind is a box of its name, the tag "fill".        *)
ExtElement(e, protos, specials) ==
  LET proto == {p \in protos : p.name = e.binds[2]}
      column == IF e.text = "" THEN e.binds ELSE Col(e.name)
      Picture(when) == [Element("image", when, NoColumn) EXCEPT !.shows = <<<<when, e.text>>>>]
  IN  CASE e.tag \in {"label", "message", "box", "line"} -> <<Element(e.tag, e.name, NoColumn)>>
        [] e.tag = "fill" -> <<Element("box", e.name, NoColumn)>>
        [] IsValue(e) /\ column[2] \in specials -> <<Element("special", e.name, NoColumn)>>
        [] IsValue(e) ->
             <<[Element("field", e.name, column) EXCEPT
                  !.type = ValueTypes[e.tag], !.formula = e.text, !.notes = IF e.text = "" THEN {} ELSE {"computed field"}]>>
        [] e.tag = "image" -> <<[Element("image", e.name, NoColumn) EXCEPT !.notes = {ImageNote(e)}]>>
        [] e.tag = "chosen image" /\ e.name # "" -> <<Picture("if"), Picture("unless")>>
        [] e.tag = "drawable" -> IF proto = {} THEN <<>> ELSE <<Clone(CHOOSE p \in proto : TRUE)>>
        [] OTHER -> <<>>

(* The notes of the ext walk that are the report's and not an element's.   *)
ExtNotes(e, protos) ==
  CASE e.tag = "drawable" /\ ~\E p \in protos : p.name = e.binds[2] -> {<<"rebuild the drawable", e.binds[2]>>}
    [] e.tag = "chosen image" -> {<<IF e.name = "" THEN "takes its URL from data" ELSE "two stacked images", e.name>>}
    [] e.tag = "other" -> {<<"no translation", e.name>>}
    [] e.tag = "sub-report" -> {<<"nested sub-report", e.name>>}
    [] OTHER -> {}

(* The innermost of the bands around an element that is in a set.          *)
Nearest(bands, S) ==
  LET at == {i \in 1..Len(bands) : bands[i] \in S}
  IN  IF at = {} THEN "" ELSE bands[CHOOSE i \in at : \A j \in at : j <= i]

(* Mutant of Placed: an element answers to its own name only.              *)
PlacedByOwnName(el, e, targets, hides) ==
  LET conditions == {h \in hides : h.element = e.name}
  IN  [el EXCEPT !.of = e, !.shows = @ \o SetToSeq({<<h.field, h.element>> : h \in conditions})]

(* The walk of _parse_band: the condition of the element's own name, or of *)
(* the nearest band that has one; the name of the nearest targeted band.   *)
Placed(el, e, targets, hides) ==
  LET hidden == {h.element : h \in hides}
      layer == IF e.name \in hidden THEN e.name ELSE Nearest(e.bands, hidden)
      field == CHOOSE f \in {h.field : h \in hides} : [element |-> layer, field |-> f] \in hides
      inherited == Nearest(e.bands, targets)
  IN  [el EXCEPT !.of = e,
                 !.shows = IF layer = "" THEN @ ELSE Append(@, <<field, layer>>),
                 !.name = IF inherited = "" THEN @ ELSE inherited]

-----------------------------------------------------------------------------
(* The functions of a report.                                              *)

Summary(f, group) == [name |-> f.name, class |-> f.class, field |-> f.field, group |-> group, percent |-> FALSE]

Ignored(f) == f.class \in Collectors \cup {"chart", "hide"}

FunctionNotes(functions) ==
  {<<IF Decision(f) = "port" THEN "ported unchanged" ELSE "no direct equivalent", f.name>> :
     f \in {g \in ToSet(functions) : ~Ignored(g) /\ Decision(g) \in {"port", "none"}}}

Ported(functions) == SelectSeq(functions, LAMBDA f : Decision(f) = "port")
SpecialNames(functions) == {f.name : f \in {g \in ToSet(functions) : Decision(g) = "special"}}
AllTargets(functions) == UNION {Targets(f) : f \in ToSet(functions)}

(* fn_targets - found: the names no element of the report answers to.      *)
InertNotes(functions, elements) ==
  {<<"no longer defines", t>> : t \in AllTargets(functions) \ {el.name : el \in elements}}

Section(kind, group, elements) ==
  [kind |-> kind, group |-> group, underlay |-> FALSE, elements |-> elements]
ElementsOf(sections) == UNION {ToSet(s.elements) : s \in ToSet(sections)}
OnElements(sections, Change(_)) ==
  [i \in DOMAIN sections |-> [sections[i] EXCEPT !.elements = [k \in DOMAIN @ |-> Change(@[k])]]]

Has(d, band) == \E e \in ToSet(d.elements) : e.in = band
(* The section of a band, if the definition has the band; read is what     *)
(* each element of the definition becomes.                                 *)
SectionOf(d, kind, band, group, read) ==
  LET inside == SelectSeq([i \in DOMAIN d.elements |-> i], LAMBDA i : d.elements[i].in = band)
  IN  IF ~Has(d, band) THEN <<>>
      ELSE <<Section(kind, group, FlattenSeq([i \in DOMAIN inside |-> read[inside[i]]]))>>
Reading(d, Read(_)) == [i \in DOMAIN d.elements |-> Read(d.elements[i])]

Underlaid(sections) == [i \in DOMAIN sections |-> [sections[i] EXCEPT !.underlay = TRUE]]

Report(format, groups, sections, summaries, ported, formulas, issues) ==
  [format |-> format, groups |-> groups, sections |-> sections, summaries |-> summaries, ported |-> ported,
   formulas |-> formulas, issues |-> issues, sql |-> <<>>]

-----------------------------------------------------------------------------
(* parse_jfreereport: every group is a break, a total keeps the name of    *)
(* the group it was declared for.                                          *)
HidesOf(functions) ==
  LET hides == SelectSeq(functions, LAMBDA f : f.class = "hide" /\ f.element # "" /\ f.field # NoColumn)
  IN  {[element |-> hides[i].element, field |-> hides[i].field[2]] :
         i \in {j \in DOMAIN hides : \A k \in j + 1..Len(hides) : hides[k].element # hides[j].element}}

(* The field of a special function becomes the writer's own, and is not    *)
(* looked at again; any other element that is a target keeps its name.     *)
SimpleFinish(el, functions) ==
  IF el.kind = "field" /\ el.column[2] \in SpecialNames(functions)
  THEN [el EXCEPT !.kind = "special", !.column = NoColumn]
  ELSE [el EXCEPT !.named = el.name \in AllTargets(functions)]

SimpleSections(d, read) ==
  LET S(kind, band, g) == SectionOf(d, kind, Band(band, g), g, read)
  IN  Underlaid(S("ReportHeader", "watermark", 0))
        \o S("ReportHeader", "reportheader", 0) \o S("PageHeader", "pageheader", 0) \o S("Detail", "items", 0)
        \o S("PageFooter", "pagefooter", 0) \o S("ReportFooter", "reportfooter", 0)
        \o FlattenSeq([g \in DOMAIN d.groups |-> S("GroupHeader", "groupheader", g) \o S("GroupFooter", "groupfooter", g)])

SimpleReport(d) ==
  LET fs == d.functions
      Read(e) == LET els == SimpleElement(e, Protos(fs))
                 IN  [i \in DOMAIN els |-> Placed(els[i], e, AllTargets(fs), HidesOf(fs))]
      sections == SimpleSections(d, Reading(d, Read))
      totals == SelectSeq(fs, LAMBDA f : Decision(f) = "aggregate")
      layered == IF HidesOf(fs) = {} THEN {} ELSE {<<"layered-visibility layout translated", "">>}
  IN  Report("simple", [g \in DOMAIN d.groups |-> d.groups[g].column],
             OnElements(sections, LAMBDA el : SimpleFinish(el, fs)),
             [i \in DOMAIN totals |-> Summary(totals[i], totals[i].group)], Ported(fs), {},
             ChartNotes(fs) \cup FunctionNotes(fs) \cup layered \cup InertNotes(fs, ElementsOf(sections)))

-----------------------------------------------------------------------------
(* parse_ext_report: a group without a field wraps the report, and a total *)
(* restarts with the column of the group it was declared for.              *)

(* What root.iter() meets below a definition, in the order of the file: the*)
(* bands of the report and of the pages, each group and its bands, the item*)
(* band, the functions. A sub-report in a band brings those of its own.    *)
Groupwise == {"groupheader", "groupfooter"}
Within(d, InBand(_)) ==
  FlattenSeq([i \in DOMAIN d.elements |-> IF InBand(d.elements[i].in) THEN d.elements[i].child ELSE <<>>])
GroupsWithin(d, InBand(_)) ==
  LET inner == Within(d, InBand) IN FlattenSeq([i \in DOMAIN inner |-> inner[i].groups])

AllGroups(d) ==
  GroupsWithin(d, LAMBDA in : in.band \notin Groupwise \cup {"items"})
    \o FlattenSeq([g \in DOMAIN d.groups |->
          <<d.groups[g]>> \o GroupsWithin(d, LAMBDA in : in.band \in Groupwise /\ in.group = g)])
    \o GroupsWithin(d, LAMBDA in : in.band = "items")
AllFunctions(d) ==
  LET inner == Within(d, LAMBDA in : TRUE) IN FlattenSeq([i \in DOMAIN inner |-> inner[i].functions]) \o d.functions

(* Mutant of GroupColumn: a total restarts with the group of its own name. *)
GroupColumnAsNamed(d, name) == name

GroupColumn(d, name) ==
  LET found == LastNamed(SelectSeq(AllGroups(d), LAMBDA g : g.column # ""), name)
  IN  IF found = {} THEN "" ELSE (CHOOSE g \in found : TRUE).column

ExtSummary(d, f) ==
  IF f.class = "share" THEN [Summary(f, "") EXCEPT !.percent = TRUE] ELSE Summary(f, GroupColumn(d, f.group))

Breaks(d) == SelectSeq([g \in DOMAIN d.groups |-> g], LAMBDA g : d.groups[g].column # "")
Wrappers(d) == SelectSeq([g \in DOMAIN d.groups |-> g], LAMBDA g : d.groups[g].column = "")
GroupIndex(d, g) == Cardinality({h \in 1..g : d.groups[h].column # ""})

ExtSections(d, read) ==
  LET S(kind, band, g) == SectionOf(d, kind, Band(band, 0), 0, read)
      G(kind, band, g) == SectionOf(d, kind, Band(band, g), IF d.groups[g].column = "" THEN 0 ELSE GroupIndex(d, g), read)
      headers == [g \in DOMAIN d.groups |->
                    G(IF d.groups[g].column = "" THEN "ReportHeader" ELSE "GroupHeader", "groupheader", g)]
      Footers(kind, gs) == FlattenSeq([i \in DOMAIN gs |-> G(kind, "groupfooter", gs[i])])
  IN  SelectSeq(Underlaid(S("ReportHeader", "watermark", 0)), LAMBDA s : s.elements # <<>>)
        \o S("ReportHeader", "reportheader", 0) \o S("PageHeader", "pageheader", 0) \o S("Detail", "items", 0)
        \o FlattenSeq(headers) \o Footers("GroupFooter", Breaks(d)) \o Footers("ReportFooter", Wrappers(d))
        \o S("ReportFooter", "reportfooter", 0) \o S("PageFooter", "pagefooter", 0)

(* The formula of a name is the one of the first element that has it.      *)
FormulasOf(els) ==
  {[name |-> els[i].column[2], text |-> els[i].formula] :
     i \in {j \in DOMAIN els : els[j].formula # "" /\ \A k \in 1..j - 1 : els[k].formula # "" => els[k].column # els[j].column}}

RECURSIVE ExtReport(_)
ExtReport(d) ==
  LET fs == AllFunctions(d)
      targets == AllTargets(fs)
      Elements(e) ==
        IF e.tag = "sub-report" THEN <<[Element("subreport", e.name, NoColumn) EXCEPT !.child = <<ExtReport(e.child[1])>>]>>
        ELSE ExtElement(e, Protos(fs), SpecialNames(fs))
      Read(e) == LET els == Elements(e)
                 IN  [i \in DOMAIN els |-> IF e.tag \in {"sub-report", "fill"} THEN [els[i] EXCEPT !.of = e]
                                             ELSE Placed(els[i], e, targets, {})]
      sections == ExtSections(d, Reading(d, Read))
      declared == SelectSeq(fs, LAMBDA f : Decision(f) = "aggregate" \/ f.class = "share")
      notes == {n \in FunctionNotes(fs) : \A f \in ToSet(fs) : f.class = "share" => n[2] # f.name}
                 \cup {<<"per-row percentage", f.name>> : f \in {g \in ToSet(fs) : g.class = "share"}}
  IN  Report("legacy-ext", [i \in DOMAIN Breaks(d) |-> d.groups[Breaks(d)[i]].column],
             OnElements(sections, LAMBDA el : [el EXCEPT !.named = el.name \in targets]),
             [i \in DOMAIN declared |-> ExtSummary(d, declared[i])], Ported(fs),
             FormulasOf(FlattenSeq([i \in DOMAIN sections |-> sections[i].elements])),
             ChartNotes(fs) \cup notes \cup InertNotes(fs, ElementsOf(sections))
               \cup UNION {ExtNotes(e, Protos(fs)) : e \in ToSet(d.elements)})

-----------------------------------------------------------------------------
(* parse_designer1_report: the bands come in the order of the file, a      *)
(* group has no field, empty bands are dropped and fields are texts.       *)
DesignerElement(e) ==
  CASE e.tag \in {"label", "message"} -> <<[Element(e.tag, e.name, NoColumn) EXCEPT !.of = e]>>
    [] IsValue(e) -> <<[Element("field", e.name, e.binds) EXCEPT !.type = "StringField", !.of = e]>>
    [] OTHER -> <<>>

DesignerReport(d) ==
  LET S(kind, band, g) == SelectSeq(SectionOf(d, kind, Band(band, g), g, Reading(d, DesignerElement)),
                                    LAMBDA s : s.elements # <<>> \/ s.kind = "Detail")
      unknown == {e.tag : e \in {x \in ToSet(d.elements) : DesignerElement(x) = <<>>}}
  IN  Report("designer1", [g \in DOMAIN d.groups |-> ""],
             S("PageHeader", "pageheader", 0) \o S("ReportHeader", "reportheader", 0)
               \o FlattenSeq([g \in DOMAIN d.groups |-> S("GroupHeader", "groupheader", g) \o S("GroupFooter", "groupfooter", g)])
               \o S("Detail", "items", 0) \o S("ReportFooter", "reportfooter", 0) \o S("PageFooter", "pagefooter", 0),
             <<>>, <<>>, {},
             {<<"no break field", d.groups[g].name>> : g \in DOMAIN d.groups}
               \cup (IF unknown = {} THEN {} ELSE {<<"no translation", "">>}))

(* _parse_definition.                                                      *)
ParsedLayout(d) ==
  CASE d.dialect = "simple" -> SimpleReport(d) [] d.dialect = "ext" -> ExtReport(d) [] d.dialect = "designer" -> DesignerReport(d)

=============================================================================
