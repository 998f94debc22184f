---------------------------- MODULE ReportConversion ----------------------------
(***************************************************************************)
(* load_report_model and what is done with its result: the steps of        *)
(* _finish_model, the layout repair, the bundle that is written and the    *)
(* verdict of triage_one. A sub-report goes through the same steps on its  *)
(* own, but is not repaired and is given no verdict. A dump is a record    *)
(* [level, parses, live, saved, formulas, styles, query, sections, issues, *)
(* width]: styles are the conditional formats, the query is as ReportQuery *)
(* has it, live says whether the database answers.                         *)
(***************************************************************************)
EXTENDS FormulaTranslation, ReportQuery, LayoutFit

CONSTANT Dumps     (* the reports that are converted                       *)

ASSUME DumpsAssumption ==
  /\ \A q \in {d.query : d \in Dumps} : IsQuery(q)
  /\ \A d \in Dumps : /\ d.level \in {"master", "child"}
                      /\ \A f \in d.formulas : IsFormula(f)
                      /\ \A f \in d.styles : IsStyle(f)

(* Sections are what the parser reads, and a page is no narrower than its  *)
(* margins.                                                                *)
ASSUME LayoutAssumption == \A d \in Dumps : d.sections \in Seq(Section) /\ d.width \in Nat

VARIABLES
  dump,
  step,            (* the next step of _finish_model, or what is over      *)
  status,          (* Formula.status of each formula                       *)
  sql,
  folded,          (* model.record_selection_folded                        *)
  offline,         (* the rows of inline-ds.xml, when there are saved rows *)
  sections,
  issues,          (* model.issues                                         *)
  bundle,          (* what layout.xml paints                               *)
  verdict

reportVars == <<dump, step, status, sql, folded, offline, sections, issues, bundle, verdict>>

Unwritten == [shown |-> << >>, where |-> <<>>, order |-> <<>>, runs |-> TRUE]

(* _parse_areas: footers get their group, undrawn rules are left out.      *)
Parsed(d) ==
  LET footers == Cardinality({s.group : s \in {t \in Range(d.sections) : t.area = "GroupFooter"}})
  IN  [i \in DOMAIN d.sections |->
         [d.sections[i] EXCEPT !.objects = Kept(d.sections[i]),
                               !.group = GroupIndex(d.sections[i].area, @, Len(d.query.groups), footers)]]

ReportInit ==
  /\ dump \in Dumps
  /\ step = "parse"
  /\ status = << >> /\ sql = Unwritten /\ folded = FALSE /\ offline = Unwritten
  /\ sections = <<>> /\ issues = {} /\ bundle = {}
  /\ verdict = "none"

Goes(from, to) == step = from /\ step' = to

(* parse_rpttoxml; what it raises makes triage_one's verdict BLOCKED.      *)
Parse ==
  /\ step = "parse"
  /\ step' = IF dump.parses THEN "translate" ELSE "over"
  /\ verdict' = IF dump.parses THEN verdict ELSE "BLOCKED"
  /\ sections' = IF dump.parses THEN Parsed(dump) ELSE sections
  /\ issues' = IF dump.parses THEN dump.issues ELSE issues
  /\ UNCHANGED <<dump, status, sql, folded, offline, bundle>>

TranslateAll ==
  /\ Goes("translate", "query")
  /\ status' = [f \in dump.formulas |-> Translation(f).status]
  /\ UNCHANGED <<dump, sql, folded, offline, sections, issues, bundle, verdict>>

(* sql_generated is set when generate_sql has returned.                    *)
Query ==
  /\ Goes("query", "select")
  /\ sql' = IF dump.query.command = NoCommand THEN Generate(dump.query, FALSE) ELSE Command(dump.query)
  /\ UNCHANGED <<dump, status, folded, offline, sections, issues, bundle, verdict>>

(* try_fold_record_selection.                                              *)
Select ==
  /\ Goes("select", "window")
  /\ folded' = Folds(dump.query)
  /\ sql' = IF Folds(dump.query) THEN Fold(sql, dump.query.selection) ELSE sql
  /\ UNCHANGED <<dump, status, offline, sections, issues, bundle, verdict>>

Window ==
  /\ Goes("window", "rank")
  /\ sql' = IF dump.query.window THEN WithWindow(dump.query, sql) ELSE sql
  /\ UNCHANGED <<dump, status, folded, offline, sections, issues, bundle, verdict>>

(* apply_topn says what it did, or that it could not.                      *)
Rank ==
  /\ Goes("rank", "stack")
  /\ sql' = IF Rankable(dump.query) # {} THEN WithTopN(dump.query, sql) ELSE sql
  /\ issues' = issues \union
       CASE Ranked(dump.query) = {} -> {}
         [] Ranked(dump.query) # {} /\ Rankable(dump.query) = {} -> {"Top-N not ordered"}
         [] OTHER -> {IF Bucketable(dump.query) THEN "Top-N rolled up" ELSE "Top-N ordered only"}
  /\ UNCHANGED <<dump, status, folded, offline, sections, bundle, verdict>>

Stack ==
  /\ Goes("stack", "fit")
  /\ sections' = IF Stacks(sections) THEN Stacked(sections) ELSE sections
  /\ issues' = IF Stacks(sections) THEN issues \union {"chart stacked"} ELSE issues
  /\ UNCHANGED <<dump, status, sql, folded, offline, bundle, verdict>>

(* autofit_layout: what it repairs it reports as applied.                  *)
Fit ==
  /\ Goes("fit", "write")
  /\ sections' = IF dump.level = "child" THEN sections
                  ELSE [i \in DOMAIN sections |-> Fitted(sections[i], dump.width)]
  /\ issues' = IF sections' = sections THEN issues ELSE issues \union {"layout auto-fit"}
  /\ UNCHANGED <<dump, status, sql, folded, offline, bundle, verdict>>

(* The rows of the .rpt that the record selection keeps.                   *)
Recovered(rep) ==
  LET rows == [f \in Linked(rep) |-> Shown(rep, f)]
  IN  [shown |-> [f \in Keeps(rows, rep.selection) |-> rows[f]], where |-> <<>>, order |-> << >>, runs |-> TRUE]

(* write_prpt. The saved rows of the .rpt become the report's query, with  *)
(* the Top-N of the SQL done to them.                                      *)
Write ==
  /\ Goes("write", IF dump.level = "child" THEN "over" ELSE "triage")
  /\ bundle' = Painted(sections, Len(dump.query.groups), dump.level)
  /\ offline' = IF ~dump.saved THEN offline
                ELSE IF ~SavedApplies(dump.query) THEN Recovered(dump.query)
                ELSE [Recovered(dump.query) EXCEPT !.shown = Saved(dump.query, @)]
  /\ UNCHANGED <<dump, status, sql, folded, sections, issues, verdict>>

(* What triage_one counts of the sections of the master report.            *)
Objects == UNION {{[object |-> o, area |-> s.area] : o \in Range(s.objects)} : s \in Range(sections)}
Todos == {x \in Objects : IsTodo(x.object, x.area)}
Unconverted == Manual(issues \union UNION {NotesOf(x.object, x.area) : x \in Objects})
LintFindings == UNION {Lint(s, dump.width) : s \in Range(sections)}
SqlStatus == CASE dump.live # "up" -> "unchecked"
               [] dump.live = "up" /\ sql.runs -> "valid"
               [] OTHER -> "invalid"

Triage ==
  /\ Goes("triage", "over")
  /\ verdict' = CASE SqlStatus = "invalid" -> "BLOCKED"
                  [] SqlStatus # "invalid" /\ ( \/ "manual" \in Range(status)
                                                \/ \E f \in dump.formulas : Translation(f).by = "function"
                                                \/ Todos # {} \/ Unconverted # {} \/ LintFindings # {}) -> "REVIEW"
                  [] OTHER -> "READY"
  /\ UNCHANGED <<dump, status, sql, folded, offline, sections, issues, bundle>>

ReportNext == Parse \/ TranslateAll \/ Query \/ Select \/ Window \/ Rank \/ Stack \/ Fit \/ Write \/ Triage
ReportSpec == ReportInit /\ [][ReportNext]_reportVars
-----------------------------------------------------------------------------
Queried == step = "stack"      \* the query is final

(* A formula translated without a caveat is of the kind Crystal makes of   *)
(* it, as long as its text says the kinds of what it reads and a           *)
(* difference of two dates is not used further (_Parser.add_expr).         *)
AutoKeepsKind ==
  \A f \in DOMAIN status :
    LET kind == CrystalKind(f.chain, Len(f.chain))
        differs == \E n \in 2..(Len(f.chain) - 1) :
                     CrystalKind(f.chain, n - 1) = "date" /\ f.chain[n].x.kind = "date"
    IN  step = "query" /\ f.shape = "plain" /\ status[f] = "auto" /\ Knowable(f.chain) /\ ~differs /\ kind # "illtyped"
          => Emitted(f.chain).kind = kind

(* Nested IFs give each row what the first branch that holds gives it,     *)
(* also where a style condition leaves a branch out to keep the style.     *)
FirstBranchWins ==
  /\ \A f \in DOMAIN status :
       step = "query" /\ f.shape = "select" /\ status[f] = "review" =>
         \A r \in Situations : Nested(f.rungs, f.default)[r] = Chosen(f.rungs, f.default, r)
  /\ \A f \in dump.styles :
       step = "translate" /\ Style(f.rungs, f.default).ok =>
         \A r \in Situations :
           LET chosen == Chosen(f.rungs, f.default, r)
           IN  Style(f.rungs, f.default).text[r] = IF chosen \in {"keep", "absent"} THEN NoValue ELSE chosen

(* The generated FROM joins the tables on every link of a report whose     *)
(* links are a tree, in whatever order and direction they are listed:      *)
(* each part of the tables is linked to the rest, and each link is all     *)
(* that links some part.                                                   *)
Crosses(l, part) == (l.st \in part) # (l.dt \in part)
Tree(links, tables) ==
  LET parts == {p \in SUBSET Range(tables) : Head(tables) \in p}
  IN  /\ \A p \in parts \ {Range(tables)} : \E l \in Range(links) : Crosses(l, p)
      /\ \A i \in DOMAIN links : \E p \in parts : \A j \in DOMAIN links : Crosses(links[j], p) <=> j = i
LinksAreHonoured ==
  step = "select" /\ dump.query.command = NoCommand /\ Tree(dump.query.links, dump.query.tables)
    => DOMAIN sql.shown = Linked(dump.query)

(* A record selection that is folded keeps exactly the rows Crystal keeps, *)
(* behind a WHERE the author wrote and inside the wraps that follow.       *)
AuthorsRows ==
  LET rows == [f \in Linked(dump.query) |-> Shown(dump.query, f)]
  IN  IF dump.query.command = NoCommand THEN DOMAIN rows ELSE Answer(Command(dump.query))
FoldKeepsSelection ==
  Queried /\ folded /\ Tree(dump.query.links, dump.query.tables)
          /\ (dump.query.command = NoCommand \/ Len(dump.query.command) <= 1)
    => Answer(sql) = AuthorsRows \intersect
         Keeps([f \in Linked(dump.query) |-> Shown(dump.query, f)], dump.query.selection)

(* With Top-N on the outermost groups, the query's order keeps every group *)
(* of the report in one piece, Others included, when each ranked group has *)
(* a column of its own with no value called Others, and no two groups of   *)
(* the same parents have one total as their pass ranks them.               *)
Leading == \A i \in Ranked(dump.query) : \A j \in 1..i : j \in Ranked(dump.query)
ColumnsOfTheirOwn ==
  \A i \in Ranked(dump.query), j \in DOMAIN dump.query.groups :
    dump.query.groups[i].col = dump.query.groups[j].col => i = j
Base == [f \in Answer(sql) |-> Shown(dump.query, f)]
TotalsDiffer ==
  \A i \in Rankable(dump.query) :
    LET g == dump.query.groups[i]
        before == Buckets(dump.query, Base, Rankable(dump.query), OwnOps(dump.query), i - 1).shown
        total == Totals(before, Parents(dump.query, i) \union {g.col}, g.topn, g.topn.op)
    IN  \A f \in DOMAIN Base : /\ before[f][g.col] # OthersLabel
                               /\ \A h \in Alike(before, f, Parents(dump.query, i)) :
                                    before[f][g.col] # before[h][g.col] => total[f] # total[h]
GroupsAreWhole ==
  Queried /\ Rankable(dump.query) = Ranked(dump.query) /\ Leading /\ ColumnsOfTheirOwn /\ TotalsDiffer
    => \A n \in DOMAIN dump.query.groups : Whole(dump.query, sql, n)

(* The offline bundle shows what the live query answers: the same rows     *)
(* under the same group names, for a Top-N by Sum.                         *)
OfflineShowsLive ==
  step = "triage" /\ dump.saved /\ Bucketable(dump.query) /\ Rankable(dump.query) = Ranked(dump.query)
    /\ (dump.query.selection = <<>> \/ folded) /\ Tree(dump.query.links, dump.query.tables)
    /\ (\A i \in Ranked(dump.query) : dump.query.groups[i].topn.op = "Sum")
    => [f \in Answer(sql) |-> sql.shown[f]] = offline.shown

(* An object that underlays conditional sections is painted by each of the *)
(* alternatives of its slot or by none, so it shows whichever one prints.  *)
Slot(i, j) ==
  LET between == {k \in DOMAIN sections : (i <= k /\ k <= j) \/ (j <= k /\ k <= i)}
  IN  \A k \in between : /\ sections[k].area = sections[i].area /\ sections[k].group = sections[i].group
                         /\ sections[k].conditional /\ ~sections[k].underlay /\ Visible(sections[k])
                         /\ sections[k].height = sections[i].height
UnderlayRidesTheSlot ==
  \A p \in bundle : sections[p.from].underlay =>
    \A j \in DOMAIN sections : p.from < j /\ p.from < p.into /\ Slot(p.into, j)
       => \E q \in bundle : q.from = p.from /\ q.object = p.object /\ q.into = j

(* After the repair no band of the master leaves the page or clips its     *)
(* text, and no band that was repaired loses what it holds at the bottom.  *)
FittedIsClean ==
  step = "write" /\ dump.level = "master" => \A i \in DOMAIN sections :
    LET codes == {f.code : f \in Lint(sections[i], dump.width)}
    IN  codes \intersect {"page-overflow", "font-clip"} = {}
          /\ (sections[i].height > dump.sections[i].height => "band-overflow" \notin codes)

(* In a band where nothing was nudged, scaled or grown, no picture is      *)
(* painted over text it is the backdrop of (_promote_backdrops).           *)
BackdropsAreBehind ==
  step = "write" /\ dump.level = "master" => \A n \in DOMAIN sections :
    LET s == sections[n] IN
    ~s.suppressed /\ Range(s.objects) = Range(dump.sections[n].objects) =>
      \A i, j \in DOMAIN s.objects :
        KindOf(s.objects[i]) \in Texts /\ IsBackdrop(s.objects[j], s.objects[i]) => j < i

(* A report given READY prints what its layout draws, live, and carries    *)
(* every condition; the special fields that have no function are the known *)
(* exception.                                                              *)
ReadyPrintsItsLayout ==
  verdict = "READY" =>
    /\ \A p \in bundle : LET o == sections[p.from].objects[p.object] IN
         o.drawn => p.as = "live" \/ o.is = "other special"
    /\ \A x \in Objects : "refused" \notin x.object.conditions

(* Formulas: a translation without a caveat is of Crystal's kind, and each *)
(* row gets what its first branch gives it.                                *)
FormulasKeepTheirMeaning == AutoKeepsKind /\ FirstBranchWins

(* The query of the conversion reads the rows Crystal reads: those every   *)
(* link and the folded record selection keep.                              *)
QueryKeepsTheRows == LinksAreHonoured /\ FoldKeepsSelection

(* Top-N in the SQL and Top-N over the saved rows: no group is split by    *)
(* its new name, and both bundles print the same.                          *)
SavedRowsMatch == GroupsAreWhole /\ OfflineShowsLive

(* Bands: an underlay with the section it was drawn on, a backdrop behind  *)
(* what it backed, and nothing off the page once it is fitted.             *)
LayoutKeepsItsOrder == UnderlayRidesTheSlot /\ BackdropsAreBehind /\ FittedIsClean

=============================================================================
