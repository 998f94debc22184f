---------------------------- MODULE MCExportConversion ----------------------------
(* Instances of ExportConversion for TLC: mappings of two sources, two     *)
(* uses of one mapplet, a step of each kind and a target, connected in     *)
(* every way of the sets below; and workflows over two sessions.           *)
EXTENDS ExportConversion

Port(n, kind, expr) == [name |-> n, kind |-> kind, expr |-> expr]
Xform(n, type, ports) == [name |-> n, type |-> type, ports |-> ports, attr |-> NoAttributes]

SQ == Xform("sq", "Source Qualifier", <<Port("id", "plain", None)>>)
SQ2 == Xform("sq2", "Source Qualifier", <<Port("id", "plain", None)>>)
Exp == Xform("exp", "Expression", <<Port("id", "plain", None), Port("tax", "plain", "complex")>>)
Srt == Xform("srt", "Sorter", <<Port("id", "plain", None)>>)

(* The step in the middle, by kind.                                        *)
Mid(type) ==
  CASE type = "Joiner" -> [Xform("mid", type, <<Port("id", "plain", None)>>)
                             EXCEPT !.attr.pairs = <<<<"left", "right">>>>]
    [] type = "Aggregator" -> Xform("mid", type, <<Port("id", "GROUPBY", None),
                                Port("total", "GENERAL", "simple"), Port("ratio", "GENERAL", "complex")>>)
    [] type = "Lookup Procedure" -> [Xform("mid", type, <<Port("code", "plain", None)>>)
                             EXCEPT !.attr.pairs = <<<<"code", "id">>>>, !.attr.table = "CODES"]
    [] type = "Stored Procedure" -> Xform("mid", type, <<Port("id", "plain", None)>>)
    [] OTHER -> Xform("mid", type, << >>)

Instance(n, type, def) == [name |-> n, type |-> type, def |-> def]
Instances == <<Instance("sq", "Transformation", "sq"), Instance("sq2", "Transformation", "sq2"),
               Instance("exp", "Transformation", "exp"), Instance("srt", "Transformation", "srt"),
               Instance("mid", "Transformation", "mid"),
               Instance("u1", "Mapplet", "clean"), Instance("u2", "Mapplet", "clean"),
               Instance("gone", "Mapplet", "nowhere"),
               Instance("src", "Source", "T"),
               Instance("tgt", "Target", "T"), Instance("tgt2", "Target", "T")>>

Mapping(n, type, connectors) ==
  [name |-> n, transformations |-> <<SQ, SQ2, Exp, Srt, Mid(type)>>,
   instances |-> SelectSeq(Instances, LAMBDA i : i.name # "gone"), connectors |-> connectors]

(* The mapplet: an expression and a lookup between its shells, one hop may *)
(* be missing.                                                             *)
Clean(hops) ==
  [name |-> "clean", connectors |-> hops,
   transformations |-> <<Xform("in", "Input Transformation", << >>),
                         Xform("fix", "Expression", <<Port("name", "plain", "complex")>>),
                         Xform("look", "Lookup Procedure", <<Port("code", "plain", None)>>),
                         Xform("out", "Output Transformation", << >>)>>]
Through == <<<<"in", "fix">>, <<"fix", "look">>, <<"look", "out">>>>
Mapplets == {<<Clean(Through)>>, <<Clean(<<<<"in", "fix">>, <<"look", "out">>>>)>>}

Key == [name |-> "id", kind |-> "PRIMARY"]
Amount == [name |-> "amt", kind |-> "plain"]
Tables == <<[name |-> "T", fields |-> <<Key, Amount>>]>>

InOrder(S, order) == SelectSeq(order, LAMBDA e : e \in S)
Ways0 == <<<<"sq", "u1">>, <<"sq2", "u2">>, <<"u1", "mid">>, <<"u2", "mid">>,
           <<"sq2", "mid">>, <<"mid", "exp">>, <<"exp", "tgt">>, <<"mid", "tgt">>, <<"exp", "tgt2">>>>
Connected == {<<<<"src", "sq">>>> \o InOrder(S, Ways0) : S \in SUBSET ToSet(Ways0)}

Legs == {<<"sq", "u1">>, <<"u1", "mid">>, <<"u2", "mid">>, <<"sq", "mid">>, <<"sq2", "mid">>,
         <<"sq", "srt">>, <<"srt", "mid">>}
Differing(S, n) ==
  {s \in [1..n -> S] : \A i, j \in 1..n : s[i] = s[j] => i = j}
JoinWays == UNION {Differing(Legs, n) : n \in 1..4}

Second == [Mapping("m2", "Filter", <<<<"sq", "exp">>, <<"exp", "tgt">>>>) EXCEPT
             !.transformations = <<SQ, Exp>>,
             !.instances = SelectSeq(Instances, LAMBDA i : i.name \in {"sq", "exp", "tgt"})]

Task(n, task, type) == [name |-> n, task |-> task, type |-> type]
Link(a, b, condition) == [from |-> a, to |-> b, condition |-> condition]
Load == [name |-> "load", tasks |-> <<Task("Start", "Start", "Start"), Task("first", "s_1", "Session")>>,
         links |-> <<Link("Start", "first", None)>>]
Commands == <<[name |-> "tidy", lines |-> <<[order |-> 2, text |-> "rm"], [order |-> 1, text |-> "mv"]>>]>>
Sessions == <<[name |-> "s_1", mapping |-> "m1"], [name |-> "s_2", mapping |-> "m2"]>>

NoItem == [name |-> None, nodes |-> << >>, connections |-> << >>]

Export(mappings, mapplets, sessions, workflows) ==
  [item |-> NoItem, translate |-> FALSE, targets |-> Tables, mapplets |-> mapplets, mappings |-> mappings,
   sessions |-> sessions, tasks |-> Commands, workflows |-> workflows]

OfMappings ==
  {Export(<<Mapping("m1", t, c)>>, m, Sessions, <<Load>>) :
     t \in {"Aggregator", "Update Strategy"}, m \in Mapplets, c \in Connected}
  \cup {Export(<<Mapping("m1", "Joiner", c)>>, <<Clean(Through)>>, Sessions, <<Load>>) : c \in JoinWays}

Straight == <<<<"sq", "u1">>, <<"u1", "mid">>, <<"mid", "tgt">>>>
Broken == [Mapping("m1", "Sorter", <<<<"sq", "gone">>, <<"gone", "mid">>>>) EXCEPT !.instances = Instances]
OfPairs ==
  {Export(<<Mapping("m1", t, Straight), Second>>, <<Clean(Through)>>, Sessions, <<Load>>) :
     t \in {"Aggregator", "Lookup Procedure", "Stored Procedure", "Router", "Filter"}}
  \cup {Export(<<Broken, Second>>, <<Clean(Through)>>, Sessions, <<Load>>),
        Export(<<Second, Second>>, <<Clean(Through)>>, Sessions, <<Load>>)}

TaskSets ==
  {<<a, b>> : a \in {Task("Start", "Start", "Start"), Task("tidy", "tidy", "Command"),
                     Task("tidy", "none", "Command"), Task("tell", "mail", "Email")},
              b \in {Task("first", "s_1", "Session"), Task("s_1", "s_2", "Session"),
                     Task("s_2", "s_3", "Session"), Task("wait", "timer", "Timer")}}
OfWorkflows ==
  {Export(<<Second>>, << >>, ss,
          <<[name |-> "load", tasks |-> ts, links |-> <<Link(ts[1].name, ts[2].name, c)>>]>>) :
     ts \in TaskSets, c \in {None, "Succeeded", "not Succeeded", "Failed"},
     ss \in {Sessions, Sessions \o <<[name |-> "s_1", mapping |-> "m2"]>>,
             <<[name |-> "s_2", mapping |-> "m3"]>>}}

(* Talend jobs: rows read, filtered or sorted and aggregated, with tables  *)
(* of one row and of two.                                                  *)
Node(n, component, tables) ==
  [name |-> n, component |-> component, columns |-> <<"id", "amt">>, entries |-> << >>,
   tables |-> tables, query |-> None, logical |-> "&&", advanced |-> FALSE]
Connection(a, b, kind) == [from |-> a, to |-> b, kind |-> kind]

Group(c) == <<<<"OUTPUT_COLUMN", c>>, <<"INPUT_COLUMN", c>>>>
Operation(out, f) ==
  <<<<"OUTPUT_COLUMN", out>>, <<"FUNCTION", f>>, <<"INPUT_COLUMN", "amt">>, <<"IGNORE_NULL", "false">>>>
Criterion(c, order) == <<<<"COLNAME", c>>, <<"SORT", "num">>, <<"ORDER", order>>>>
Condition(c, op, v) == <<<<"INPUT_COLUMN", c>>, <<"OPERATOR", op>>, <<"RVALUE", v>>>>

Aggregate(groups, ops) ==
  Node("agg", "tAggregateRow", "GROUPBYS" :> groups @@ "OPERATIONS" :> ops)
Middles ==
  {Node("mid", "tSortRow", "CRITERIA" :> c) : c \in {<< >>, Criterion("id", "desc"),
                                       Criterion("amt", "asc") \o Criterion("id", "desc")}}
  \cup {[Node("mid", "tFilterRow", "CONDITIONS" :> c) EXCEPT !.logical = l, !.advanced = a] :
          a \in BOOLEAN, l \in {"&&", "||"},
          c \in {<< >>, Condition("amt", ">", "1") \o Condition("id", "==", "null"), Condition("amt", "=~", "1")}}
  \cup {[Node("mid", "tMap", << >>) EXCEPT !.entries = <<[name |-> "id", expr |-> "passthrough"],
                                                 [name |-> "amt", expr |-> "java"]>>],
        Node("mid", "tUniqRow", "UNIQUE_KEY" :> <<<<"SCHEMA_COLUMN", "id">>>>),
        Node("mid", "tUniqRow", "KEYS" :> (<<<<"KEY_COLUMN", "amt">>>> \o <<<<"KEY_COLUMN", "">>>>)),
        Node("mid", "cTimer", << >>)}

Item(nodes, connections) == [name |-> "job", nodes |-> nodes, connections |-> connections]
OfTables ==
  {Item(<<Node("in", "tFileInputDelimited", << >>), m, Aggregate(g, o), Node("out", "tOracleOutput", << >>)>>,
        <<Connection("in", "mid", "FLOW"), Connection("mid", "agg", k), Connection("agg", "out", "FLOW")>>) :
     m \in Middles, k \in {"FLOW", "REJECT"},
     g \in {<< >>, Group("id"), Group("id") \o Group("amt")},
     o \in {<< >>, Operation("total", "sum"), Operation("total", "sum") \o Operation("all", "list"),
             Operation("mid", "median") \o Operation("n", "count")}}

OfTalend ==
  {[Export(<< >>, << >>, << >>, << >>) EXCEPT !.item = i] : i \in OfTables}
  \cup {[Export(<< >>, << >>, << >>, << >>) EXCEPT !.item = i, !.translate = TRUE] :
          i \in {i \in OfTables : i.nodes[2].component = "tMap"}}

MCExports == OfMappings \cup OfWorkflows \cup OfTalend
  \cup {[e EXCEPT !.translate = t] : e \in OfPairs, t \in BOOLEAN}
=============================================================================
