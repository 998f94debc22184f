--------------------------- MODULE MCReportConversion ---------------------------
(* Instances of ReportConversion for TLC: families of dumps that each vary *)
(* one part of a report and keep the rest plain.                           *)
EXTENDS ReportConversion, TLC

CONSTANTS noCommand, noTopN, noValue

X(look, kind, typed) == [look |-> look, kind |-> kind, typed |-> typed, noted |-> FALSE]
MCOperands ==
  {X("field", "num", TRUE), X("field", "str", TRUE), X("field", "date", TRUE), X("field", "date", FALSE),
   X("dated", "date", TRUE), X("quoted", "str", FALSE), X("other", "num", FALSE), X("unmapped", "num", FALSE),
   [X("other", "str", FALSE) EXCEPT !.noted = TRUE]}
MCSituations == {"r1", "r2", "r3"}
Others == 50

-----------------------------------------------------------------------------
(* Orders, customers and regions: the totals of all groups differ.         *)
Orders == {[cust |-> 1, amount |-> 1], [cust |-> 1, amount |-> 2], [cust |-> 2, amount |-> 8],
           [cust |-> 3, amount |-> 20], [cust |-> 4, amount |-> 40]}
Customers == {[id |-> 1, region |-> 1], [id |-> 2, region |-> 2], [id |-> 3, region |-> 1], [id |-> 4, region |-> 2]}
Regions == {[rid |-> 1, zone |-> 7], [rid |-> 2, zone |-> 6]}

Link(st, sc, dt, dc) == [st |-> st, sc |-> sc, dt |-> dt, dc |-> dc]
OC == {Link("O", "cust", "C", "id"), Link("C", "id", "O", "cust")}
CR == {Link("C", "region", "R", "rid"), Link("R", "rid", "C", "region")}
Joined == <<Link("O", "cust", "C", "id"), Link("C", "region", "R", "rid")>>

Query0 ==
  [tables |-> <<"O", "C", "R">>,
   columns |-> ("O" :> {"cust", "amount"} @@ "C" :> {"id", "region"} @@ "R" :> {"rid", "zone"}),
   data |-> ("O" :> Orders @@ "C" :> Customers @@ "R" :> Regions),
   links |-> Joined, command |-> noCommand, simple |-> TRUE, selection |-> <<>>,
   groups |-> <<>>, sorts |-> <<>>, window |-> FALSE]

G(col, topn) == [col |-> col, desc |-> FALSE, topn |-> topn]
T(op, desc, others) == [op |-> op, measure |-> "amount", desc |-> desc, n |-> 1, others |-> others]
Clause(col, right, op, keeps) == [col |-> col, right |-> right, op |-> op, keeps |-> keeps]

LinkOrders ==
  {<<>>} \union {<<l>> : l \in OC \union CR}
  \union UNION {{<<l, m>>, <<m, l>>} : l \in OC, m \in CR}
Selections ==
  {<<>>, <<Clause("amount", "literal", ">", {2, 8, 20, 40})>>,
   <<Clause("amount", "parameter", "<", {1, 2, 8}), Clause("region", "multi-value", "=", {1})>>,
   <<Clause("region", "parameter", "=", {1}), Clause("amount", "column", ">", {1, 2})>>,
   <<Clause("amount", "multi-value", "<>", {1, 2})>>}
Commands == {noCommand, <<>>, <<("zone" :> {7})>>}
Groupings ==
  {<<>>, <<G("region", noTopN)>>, <<G("region", T("Sum", TRUE, TRUE))>>, <<G("region", T("Sum", FALSE, FALSE))>>,
   <<G("region", T("Maximum", TRUE, TRUE)), G("cust", T("Sum", TRUE, TRUE))>>,
   <<G("region", T("Sum", TRUE, TRUE)), G("cust", T("Sum", FALSE, TRUE))>>,
   <<G("cust", T("Sum", TRUE, TRUE)), G("region", noTopN)>>, <<G("zone", T("Sum", TRUE, TRUE)), G("cust", noTopN)>>}
Sorts == {<<>>, <<[col |-> "amount", desc |-> TRUE]>>}

(* Kinds of order that regions share, totalled within each region: those   *)
(* beyond N become one before their kinds are ranked, and may then tie.    *)
Kinds(a) == {[kind |-> 1, region |-> 1, amount |-> 40]}
            \union {[kind |-> k, region |-> r, amount |-> a[r][k]] : k \in 1..2, r \in 2..3}
KindQueries ==
  {[Query0 EXCEPT !.tables = <<"O">>, !.columns = ("O" :> {"kind", "region", "amount"}),
                  !.data = ("O" :> Kinds(a)), !.links = <<>>,
                  !.groups = <<G("region", T("Sum", TRUE, TRUE)), G("kind", T("Sum", desc, TRUE))>>] :
     a \in [2..3 -> {<<1, 4>>, <<4, 1>>, <<2, 4>>}], desc \in BOOLEAN}

Queries ==
  KindQueries \union
  {[Query0 EXCEPT !.links = l] : l \in LinkOrders}
  \union {[Query0 EXCEPT !.selection = s, !.command = c, !.groups = g, !.sorts = o, !.window = w] :
            s \in Selections, c \in Commands, g \in Groupings, o \in Sorts, w \in BOOLEAN}
  \union {[Query0 EXCEPT !.simple = FALSE, !.selection = s] : s \in Selections}

-----------------------------------------------------------------------------
Dump0 ==
  [level |-> "master", parses |-> TRUE, live |-> "none", saved |-> FALSE, formulas |-> {}, styles |-> {}, query |-> Query0,
   sections |-> <<>>, issues |-> {}, width |-> 5000]

F(shape) == [shape |-> shape, chain |-> <<>>, rungs |-> <<>>, default |-> "absent", refersToItself |-> FALSE, mapped |-> TRUE]
Links == [sym : Symbols, x : MCOperands]
ChainsOf(x) == {<<[sym |-> "+", x |-> x]>>} \union {<<[sym |-> "+", x |-> x], l>> : l \in Links}
               \union {<<[sym |-> "+", x |-> x], l, m>> : l, m \in Links}
Rung == [when : SUBSET MCSituations, result : {"red", "keep"}]
Ladders == {<<r>> : r \in Rung} \union {<<r, s>> : r, s \in Rung}

FormulaDumps ==
  {[Dump0 EXCEPT !.formulas = ({[F(shape) EXCEPT !.chain = c] : c \in ChainsOf(x)})] :
     x \in MCOperands, shape \in {"plain", "alias"}}
  \union {[Dump0 EXCEPT !.formulas = ({[F("select") EXCEPT !.rungs = l, !.default = d] : l \in Ladders}),
                         !.styles = ({[rungs |-> l, default |-> d] : l \in Ladders})] :
     d \in {"blue", "keep", "absent"}}
  \union {[Dump0 EXCEPT !.formulas = {[F(shape) EXCEPT !.mapped = FALSE]}] :
     shape \in {"running total", "whole aggregate", "blocked", "select"}}

QueryDumps ==
  {[Dump0 EXCEPT !.query = q, !.saved = (q.command = noCommand), !.live = "up"] : q \in Queries}
  \union {[Dump0 EXCEPT !.live = "down"], [Dump0 EXCEPT !.parses = FALSE]}

-----------------------------------------------------------------------------
O(tag, is, at, size) ==
  [tag |-> tag, is |-> is, conditions |-> {}, drawn |-> TRUE, grows |-> FALSE,
   x |-> at[1], y |-> at[2], width |-> size[1], height |-> size[2], font |-> 100]
S(area, objects) ==
  [area |-> area, group |-> IF area \in {"GroupHeader", "GroupFooter"} THEN 1 ELSE 0, underlay |-> FALSE, suppressed |-> FALSE, conditional |-> FALSE,
   blank |-> FALSE, height |-> 200, objects |-> objects]
Laid(layout) == [Dump0 EXCEPT !.sections = layout, !.query.groups = <<G("region", noTopN)>>]

Tags ==
  {<<"text", "plain">>, <<"text", "unresolved">>, <<"text", "page number">>, <<"line", "">>, <<"box", "">>,
   <<"picture", "carved">>, <<"picture", "bytes">>, <<"picture", "no bytes">>,
   <<"subreport", "defined">>, <<"subreport", "undefined">>,
   <<"chart", "no style">>, <<"chart", "bar">>, <<"chart", "gauge">>, <<"chart", "no value">>,
   <<"crosstab", "defined">>, <<"crosstab", "recovered">>, <<"crosstab", "unsupported">>, <<"crosstab", "undefined">>,
   <<"field", "column">>, <<"field", "formula">>, <<"field", "parameter">>, <<"field", "summary">>,
   <<"field", "window summary">>, <<"field", "unmapped summary">>, <<"field", "group name">>,
   <<"field", "empty">>, <<"field", "unknown">>, <<"field", "page special">>, <<"field", "date special">>,
   <<"field", "other special">>, <<"map", "">>}
ObjectDumps ==
  {[Laid(<<S(area, <<[O(t[1], t[2], <<0, 0>>, <<1000, 150>>) EXCEPT !.conditions = c, !.drawn = d]>>)>>)
      EXCEPT !.level = level] :
     t \in Tags, area \in {"PageHeader", "Detail"}, level \in {"master", "child"}, d \in BOOLEAN,
     c \in {{}, {"refused", "no print effect"}}}

(* A letter's underlay over what follows it, in every mix of variants.     *)
UnderlayDumps ==
  {Laid(<<[S("Detail", <<O("picture", "bytes", <<0, y>>, <<1000, h>>)>>) EXCEPT !.underlay = TRUE]>>
        \o [i \in 1..3 |-> [S("Detail", <<O("text", "plain", <<0, 0>>, <<800, 130>>)>>)
                              EXCEPT !.conditional = v[i][1], !.height = v[i][2]]]) :
     y \in {0, 150, 310}, h \in {80, 290}, v \in [1..3 -> BOOLEAN \X {150, 300}]}
  \union {Laid(<<[S("ReportHeader", <<O("chart", "bar", <<0, 0>>, <<1000, 150>>)>>) EXCEPT !.underlay = TRUE],
                 S("ReportHeader", <<O("text", "plain", <<0, 90>>, <<800, 130>>)>>),
                 S("GroupHeader", <<O("field", "column", <<0, 0>>, <<800, 130>>)>>), S("GroupFooter", <<>>)>>)}

Pool ==
  {O("text", "plain", <<0, 0>>, <<600, 120>>), O("text", "plain", <<20, 30>>, <<600, 120>>),
   O("field", "column", <<200, 0>>, <<600, 120>>), O("field", "column", <<4700, 0>>, <<600, 100>>),
   O("text", "plain", <<4280, 0>>, <<600, 120>>), O("text", "plain", <<4390, 0>>, <<600, 120>>),
   [O("field", "column", <<0, 0>>, <<600, 120>>) EXCEPT !.conditions = {"converts"}],
   O("picture", "bytes", <<0, 0>>, <<2000, 190>>), O("picture", "bytes", <<50, 10>>, <<1500, 180>>)}
FitDumps ==
  {Laid(<<S("Detail", <<a, b, c>>)>>) : a, b \in Pool, c \in {p \in Pool : p.tag = "text"}}
  \union {Laid(<<[S("Detail", <<a, b>>) EXCEPT !.suppressed = TRUE]>>) : a, b \in Pool}

MCDumps == FormulaDumps \union QueryDumps \union ObjectDumps \union UnderlayDumps \union FitDumps

=============================================================================
