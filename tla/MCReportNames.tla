----------------------------- MODULE MCReportNames -----------------------------
(***************************************************************************)
(* Reports of two objects over the columns a and g, a group on g, and each *)
(* way the repository's dumps spell a summary; a placed report with one    *)
(* link. Bound: two objects, two summaries, one running total a report.    *)
(***************************************************************************)
EXTENDS ReportNames

Call(op, of, by, outer) == [op |-> op, of |-> of, by |-> by, outer |-> outer, kind |-> "db"]
SumByG == Call("Sum", <<"a">>, <<"g">>, <<>>)
SumAll == Call("Sum", <<"a">>, <<>>, <<>>)
Share == Call("PercentOfSum", <<"a">>, <<"g">>, <<>>)
Spread == Call("PopStandardDeviation", <<"a">>, <<"g">>, <<>>)
Wider == Call("PercentOfSum", <<"a">>, <<"g">>, <<"h">>)
Frequency == Call("PercentOfCount", <<"a">>, <<"g">>, <<>>)
Typical == Call("Mode", <<"a">>, <<"g">>, <<>>)
OfFormula == [Call("Count", <<"late">>, <<"g">>, <<>>) EXCEPT !.kind = "formula"]

Given(c, stored, gives) ==
  [call |-> c, stored |-> stored, field |-> IF gives = "types" THEN Typed ELSE c.of,
   group |-> IF gives = "types" /\ c.by # <<>> THEN Typed ELSE c.by]
Summaries == {
  <<Given(Share, "Sum", "refs"), Given(Spread, "PopStandardDeviation", "refs")>>,
  <<Given(SumByG, "Sum", "types"), Given(Share, "Sum", "types")>>,
  <<Given([SumByG EXCEPT !.by = <<"h">>], "Sum", "types"), Given(SumByG, "Sum", "types")>>,
  <<Given(Share, "Sum", "refs"), Given(Wider, "Sum", "refs")>>,
  <<Given(Typical, "Mode", "refs"), Given(Frequency, "Count", "types")>>}

Total(on, evaluates) == [name |-> <<"run">>, op |-> "Sum", of |-> <<"a">>, evaluates |-> evaluates, resets |-> "group", on |-> on]
Totals == {<<Total(<<>>, FALSE), Total(<<"g">>, FALSE)>>, <<Total(<<"g">>, TRUE)>>,
           <<Total(<<>>, FALSE), [Total(<<"g">>, FALSE) EXCEPT !.of = <<>>]>>}

Ref(kind, name) == [kind |-> kind, name |-> name]
Spelling(c) == [kind |-> "call", call |-> c, name |-> None]
Object_(is, refs, calls) == [is |-> is, refs |-> refs, styledBy |-> calls, area |-> "body", defined |-> TRUE]

Fields == {Object_("field", <<Ref("display", Spelled(c))>>, <<>>) : c \in {Share, Spread, Typical, SumAll}}
            \union {Object_("field", <<Ref("summary", <<"run">>)>>, <<>>),
                    Object_("field", <<Ref("formula", <<"hard">>)>>, <<>>),
                    Object_("field", <<Ref("group name", <<"a">>)>>, <<>>)}
TextObjects == {Object_("text", <<Spelling(c)>>, <<>>) : c \in {SumByG, Share, Spread, Typical, Frequency}}
            \union {Object_("text", <<Spelling(OfFormula), Spelling(SumByG), Ref("page", None), Ref("summary", <<"run">>)>>, <<>>)}
Others == {Object_("crosstab", <<Ref("db", <<"a", "1">>), Ref("formula", <<n>>)>>, <<>>) : n \in {"month", "late"}}
            \union {Object_("field", <<Ref("db", <<"a">>)>>, <<c>>) : c \in {SumByG, Spread, Share}}
            \union {Object_("field", <<Ref("db", <<"a">>)>>, <<SumAll, OfFormula>>)}
            \union {[Object_("subreport", <<>>, <<>>) EXCEPT !.area = area] : area \in {"body", "page"}}

Formulas == {[name |-> <<"hard">>, as |-> "manual"], [name |-> <<"late">>, as |-> "expression"],
             [name |-> <<"month">>, as |-> "column"]}
Report(summaries_, totals_, command, params, objects, asked) ==
  [columns |-> {<<"a">>, <<"g">>, <<"h">>}, command |-> command, formulas |-> Formulas, summaries |-> summaries_,
   totals |-> totals_, parameters |-> params, groups |-> <<<<"g">>, <<"h">>>>, objects |-> objects, asks |-> asked]

Masters == {Report(s, t, command, <<>>, <<o, p>>, {}) : s \in Summaries, t \in Totals, command \in {FALSE},
              o \in Fields \union TextObjects \union Others, p \in Fields \union TextObjects \union Others}
Prm(name, link, to) == [name |-> name, link |-> link, table |-> <<"T">>, to |-> to]
Prompt == Prm(<<"region">>, "no", <<>>)
Raw == <<"Pm-", "T", "a">>
Children == {Report(<<>>, <<>>, FALSE, <<Prompt, Prm(Raw, link, <<"a">>)>>, objects, {<<"region">>, Raw}) :
               link \in {"column", "summary"},
               objects \in {<<Object_("field", <<Ref("db", <<"a">>)>>, <<>>)>>,
                            <<Object_("text", <<Ref("parameter", Raw)>>, <<>>)>>}}
Plain == CHOOSE c \in Children : c.parameters[2].link = "column" /\ c.objects[1].is = "field"

PlacesIt(m) == \E o \in Range(m.objects) : o.is = "subreport"
Pivots(m) == \A o \in Range(m.objects) : o.is = "crosstab"
Pairs == {[child |-> c, master |-> m] : c \in Children, m \in {x \in Masters : PlacesIt(x)}}
           \union {[child |-> Plain, master |-> m] : m \in {x \in Masters : ~PlacesIt(x)}}
           \union {[child |-> Plain, master |-> [m EXCEPT !.command = TRUE]] : m \in {x \in Masters : Pivots(x)}}
================================================================================
