------------------------------ MODULE ReportLayout ------------------------------
(***************************************************************************)
(* From Crystal's objects to the elements of the bundle: what _parse_object*)
(* and _resolve_references make of an object, what the writer prints for   *)
(* it, what is counted as work to do, and in which bands the objects of    *)
(* an "Underlay Following Sections" section are painted.                   *)
(* An object is a record [tag, is, conditions, drawn, grows, x, y, width,  *)
(* height, font]: is says what the dump has for it (a field's reference, a *)
(* picture's bytes, ...), lengths are in tenths of a point.                *)
(***************************************************************************)
EXTENDS Integers, FiniteSets, Sequences, SequencesExt, FiniteSetsExt

Element == [tag : STRING, is : STRING, conditions : SUBSET STRING, drawn : BOOLEAN, grows : BOOLEAN,
            x : Int, y : Int, width : Int, height : Int, font : Int]
Section == [area : STRING, group : Int, underlay : BOOLEAN, suppressed : BOOLEAN, conditional : BOOLEAN,
            blank : BOOLEAN, height : Int, objects : Seq(Element)]

(* What is numbered by distinct keys, in the order of its keys.            *)
InKeyOrder(key) ==
  [k \in 1..Cardinality(DOMAIN key) |->
     CHOOSE i \in DOMAIN key : Cardinality({j \in DOMAIN key : key[j] <= key[i]}) = k]

-----------------------------------------------------------------------------
(* The kind of the element after _resolve_references.                      *)
Special == {"page special", "date special", "other special"}

KindOf(o) ==
  CASE o.tag = "text" -> "label"
    [] o.tag \in {"line", "box"} -> o.tag
    [] o.tag = "picture" -> "image"
    [] o.tag = "subreport" -> "subreport"
    [] o.tag = "chart" -> IF o.is = "no style" THEN "unknown" ELSE "chart"
    [] o.tag = "crosstab" -> IF o.is \in {"defined", "recovered"} THEN "crosstab" ELSE "unknown"
    [] o.tag = "field" ->
         IF o.is \in Special THEN "special" ELSE IF o.is = "unmapped summary" THEN "unknown" ELSE "field"
    [] OTHER -> "unknown"

Bound(o) == o.is \in {"column", "formula", "parameter", "summary", "window summary", "group name"}

(* A definition in the dump, outside the page bands.                       *)
Attached(o, area) == o.is = "defined" /\ area \notin {"PageHeader", "PageFooter"}

(* The notes an object is given, by what they say.                         *)
NotesOf(o, area) ==
  UNION {
    IF o.tag # "picture" THEN {} ELSE IF o.is = "carved" THEN {"image carved"} ELSE {},
    IF o.tag # "chart" THEN {}
      ELSE IF o.is = "gauge" THEN {"gauge converted to a thermometer"}
      ELSE IF o.is = "no style" THEN {} ELSE {"chart migrated as a legacy chart"},
    IF o.tag # "crosstab" THEN {}
      ELSE CASE o.is = "defined" -> {"cross-tab converted to a sub-report"}
             [] o.is = "recovered" -> {"cross-tab converted to a sub-report", "recovered by rpt-rs"}
             [] o.is = "unsupported" -> {"cross-tab converted to a sub-report", "cross-tab not found in the query"}
             [] o.is = "undefined" -> {},
    IF o.tag # "subreport" THEN {}
      ELSE IF Attached(o, area) THEN {"converted as a sub-report"} ELSE {"emitted as a TODO placeholder"},
    IF o.tag # "field" THEN {}
      ELSE CASE o.is = "window summary" -> {"computed as a windowed column"}
             [] o.is = "unmapped summary" -> {"operation unsupported"}
             [] o.is = "empty" -> {"field reference is empty"}
             [] Bound(o) \/ o.is \in Special -> {}
             [] OTHER -> {"unresolved field reference"},
    IF o.tag # "text" THEN {}
      ELSE CASE o.is = "unresolved" -> {"text embeds a reference"}
             [] o.is = "page number" -> {"page number rendered as n / m"}
             [] OTHER -> {},
    {CASE c = "converts" -> "condition converted to a style expression"
       [] c = "no print effect" -> "condition has no effect"
       [] c = "refused" -> "condition not carried" : c \in o.conditions}}

(* todo_kinds: the first rule that matches the sentence; none means work.  *)
Applied == {"gauge converted to a thermometer", "cross-tab converted to a sub-report", "recovered by rpt-rs",
            "converted as a sub-report", "computed as a windowed column",
            "condition converted to a style expression"}
Info == {"image carved", "chart migrated as a legacy chart", "condition has no effect"}

(* Mutant of Manual: a note no rule knows is only context.                 *)
ManualIfKnown(notes) == notes \intersect {"condition not carried", "text embeds a reference", "unresolved field reference"}

Manual(notes) == notes \ (Applied \union Info)

-----------------------------------------------------------------------------
(* render_element: live, or a red placeholder. Only the master report's    *)
(* pictures, sub-reports and cross-tabs are given a place in the bundle.   *)
Written(o, area, level) ==
  LET kind == KindOf(o) IN
  CASE kind \in {"label", "line", "box"} -> "live"
    [] kind = "special" -> IF o.is = "other special" THEN "placeholder" ELSE "live"
    [] kind = "field" -> IF Bound(o) THEN "live" ELSE "placeholder"
    [] kind = "chart" -> IF o.is = "no value" THEN "placeholder" ELSE "live"
    [] kind = "crosstab" -> IF level = "master" THEN "live" ELSE "placeholder"
    [] kind = "subreport" -> IF level = "master" /\ Attached(o, area) THEN "live" ELSE "placeholder"
    [] kind = "image" -> IF level = "master" /\ o.is # "no bytes" THEN "live" ELSE "placeholder"
    [] kind = "unknown" -> "placeholder"

IsTodo(o, area) ==
  \/ KindOf(o) = "unknown"
  \/ KindOf(o) = "image" /\ o.is = "no bytes"
  \/ KindOf(o) = "subreport" /\ ~Attached(o, area)

-----------------------------------------------------------------------------
(* Bands. A section is [area, group, underlay, suppressed, conditional,    *)
(* blank, height, objects]. Lines and boxes of no thickness never get in.  *)
Kept(s) ==
  LET kept == {i \in DOMAIN s.objects : s.objects[i].drawn \/ s.objects[i].tag \notin {"line", "box"}}
      places == InKeyOrder([i \in kept |-> i])
  IN  [k \in DOMAIN places |-> s.objects[places[k]]]
Visible(s) == ~s.suppressed /\ ~(s.blank /\ Kept(s) = <<>>)

(* The areas come GH1..GHn, Detail, GFn..GF1: a full set of footers is     *)
(* renumbered from the inside out.                                         *)
GroupIndex(area, i, groups, footers) ==
  IF area = "GroupFooter" /\ groups > 1 /\ footers = groups THEN groups + 1 - i ELSE i

(* A band is the visible sections of an area and a group.                  *)
Follows(sections, i, j) ==
  i < j /\ Visible(sections[j]) /\ sections[j].area = sections[i].area /\ sections[j].group = sections[i].group

(* Mutant of Spans: each section starts where the one before it ends.      *)
SpansOfDesign(sections, i) ==
  LET following == {j \in DOMAIN sections : Follows(sections, i, j) /\ ~sections[j].underlay}
  IN  [j \in following |-> FoldSet(LAMBDA k, sum : sum + sections[k].height, 0, {k \in following : k < j})]

(* Where the sections after an underlay start: consecutive conditional     *)
(* ones are alternatives of one slot, as tall as the tallest.              *)
Spans(sections, i) ==
  LET at[j \in i..Len(sections)] ==
        IF j = i THEN [gap |-> 0, run |-> 0, start |-> 0]
        ELSE LET before == at[j - 1]
                 s == sections[j] IN
             CASE ~Follows(sections, i, j) -> before
               [] Follows(sections, i, j) /\ s.underlay -> [before EXCEPT !.start = -1]
               [] Follows(sections, i, j) /\ ~s.underlay /\ s.conditional ->
                    [gap |-> before.gap, start |-> before.gap, run |-> Max({before.run, s.height})]
               [] OTHER ->
                    [gap |-> before.gap + before.run + s.height, start |-> before.gap, run |-> 0]
  IN  [j \in {k \in DOMAIN sections : Follows(sections, i, k) /\ ~sections[k].underlay} |-> at[j].start]

(* The sections of the band that paint an object of underlay section i.    *)
Targets(sections, i, o) ==
  LET spans == Spans(sections, i)
      Cover(j) == Max({0, Min({o.y - spans[j] + o.height, sections[j].height}) - Max({o.y - spans[j], 0})})
      best == Max({0} \union {Cover(j) : j \in DOMAIN spans})
  IN  IF best = 0 THEN {} ELSE {j \in DOMAIN spans : Cover(j) >= best - 1}

(* Where an object of section i is painted.                                *)
PaintedIn(sections, i, o) == IF sections[i].underlay THEN Targets(sections, i, o) ELSE {i}

(* What a bundle paints: each object of a printed section, in the sections *)
(* that paint it.                                                          *)
Painted(sections, groups, level) ==
  LET printed == {i \in DOMAIN sections : Visible(sections[i]) /\ sections[i].group <= groups}
      Of(i, k) == LET o == sections[i].objects[k] IN
                  {[from |-> i, object |-> k, into |-> j, as |-> Written(o, sections[i].area, level)] :
                     j \in PaintedIn(sections, i, o)}
  IN  UNION {UNION {Of(i, k) : k \in DOMAIN sections[i].objects} : i \in printed}

(* resolve_underlay_summary: a chart stops underlaying when a group band   *)
(* prints a field, and the report header's sections after one are pulled   *)
(* up to where the chart ends.                                             *)
Has(s, kind) == \E o \in Range(s.objects) : KindOf(o) = kind
Stacks(sections) ==
  /\ \E s \in Range(sections) : s.area \in {"GroupHeader", "GroupFooter"} /\ Has(s, "field")
  /\ \E s \in Range(sections) : s.underlay /\ Has(s, "chart")

PulledUp(s) ==
  LET top == Min({o.y : o \in Range(s.objects)})
      up == [i \in DOMAIN s.objects |-> [s.objects[i] EXCEPT !.y = @ - (top - 30)]]
  IN  IF top <= 60 THEN s
      ELSE [s EXCEPT !.objects = up, !.height = Max({o.y + o.height : o \in Range(up)}) + 30]

Stacked(sections) ==
  [i \in DOMAIN sections |->
     LET s == sections[i] IN
     CASE Has(s, "chart") -> [s EXCEPT !.underlay = FALSE]
       [] /\ s.area = "ReportHeader" /\ s.objects # <<>> /\ ~Has(s, "chart")
          /\ \E j \in 1..(i - 1) : sections[j].area = "ReportHeader" /\ Has(sections[j], "chart") -> PulledUp(s)
       [] OTHER -> s]
=============================================================================
