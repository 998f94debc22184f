------------------------------ MODULE ReportQuery ------------------------------
(***************************************************************************)
(* The query of a converted report: generate_sql, the folding of the       *)
(* record selection, the wrap that adds window columns, and the Top-N      *)
(* wraps, each by what the database answers. A report is a record:         *)
(*   tables, columns, data   the tables in order, what they hold           *)
(*   links                   the joins of the Database Expert              *)
(*   command                 NoCommand, or the WHERE of a Command's SQL,   *)
(*                           as the alternatives of its top-level OR       *)
(*   selection               the clauses of the record selection           *)
(*   groups, sorts           the group fields and the record sorts         *)
(*   window                  a StdDev or Variance summary is on the layout *)
(* A row of the answer chooses a row of each table; a column goes by its   *)
(* bare name and is read from the first table that claims it.              *)
(***************************************************************************)
EXTENDS Integers, FiniteSets, Sequences, SequencesExt, FiniteSetsExt

CONSTANTS
  NoCommand,       (* the SQL is generated from the layout                 *)
  NoTopN,          (* a group without a Group Sort Expert                  *)
  OthersLabel      (* what the groups beyond the N become                  *)

Beyond == 99       \* the ordering value of Others, after every rank

ASSUME OthersAssumption == OthersLabel \in Int   (* as every value is here *)

-----------------------------------------------------------------------------
(* FROM. A link becomes a join when it brings in a table; the others are   *)
(* read again in the next pass. joins has the places of the links.         *)
Read(state, links, i) ==
  LET l == links[i]
      Join(t) == [placed |-> state.placed \union {t}, joins |-> state.joins \union {i}]
  IN  CASE l.st \in state.placed /\ l.dt \notin state.placed -> Join(l.dt)
        [] l.dt \in state.placed /\ l.st \notin state.placed -> Join(l.st)
        [] OTHER -> state

Pass(state, links) ==
  LET at[k \in 0..Len(links)] == IF k = 0 THEN state ELSE Read(at[k - 1], links, k)
  IN  at[Len(links)]

(* The passes go on while one of them places a table.                      *)
Joins(rep) ==
  LET pass[n \in 0..Len(rep.links)] ==
        IF n = 0 THEN [placed |-> {Head(rep.tables)}, joins |-> {}] ELSE Pass(pass[n - 1], rep.links)
  IN  pass[Len(rep.links)].joins

Rows(rep) == {f \in [Range(rep.tables) -> UNION Range(rep.data)] : \A t \in DOMAIN f : f[t] \in rep.data[t]}
Satisfies(f, l) == f[l.st][l.sc] = f[l.dt][l.dc]

(* What Crystal reads: the rows that satisfy every link.                   *)
Linked(rep) == {f \in Rows(rep) : \A l \in Range(rep.links) : Satisfies(f, l)}

Owner(rep, c) == rep.tables[Min({i \in DOMAIN rep.tables : c \in rep.columns[rep.tables[i]]})]
IsColumn(rep, c) == \E t \in Range(rep.tables) : c \in rep.columns[t]
Shown(rep, f) == [c \in UNION Range(rep.columns) |-> f[Owner(rep, c)][c]]

(* An SQL text: the rows its FROM answers with the values they show, the   *)
(* alternatives of its WHERE, the terms of its ORDER BY by their places,   *)
(* and whether every name in it is one the database has.                   *)
Answer(sql) ==
  {f \in DOMAIN sql.shown : sql.where = <<>> \/ \E i \in DOMAIN sql.where : f \in sql.where[i]}

-----------------------------------------------------------------------------

(* ORDER BY.                                                               *)
By(shown, c, desc) == [f \in DOMAIN shown |-> IF desc THEN -shown[f][c] ELSE shown[f][c]]

(* The group columns, then the record sorts that are not among them.       *)
SortKeys(rep) == rep.groups \o rep.sorts
Asked(rep) ==
  {p \in DOMAIN SortKeys(rep) : p > Len(rep.groups) => SortKeys(rep)[p].col \notin {g.col : g \in Range(rep.groups)}}
Known(rep) == {p \in Asked(rep) : IsColumn(rep, SortKeys(rep)[p].col)}
Terms(rep, shown, places) == [p \in places |-> By(shown, SortKeys(rep)[p].col, SortKeys(rep)[p].desc)]

(* generate_sql drops a sort key that no table claims only when            *)
(* sql_generated is set, which _finish_model does after the call.          *)
Generate(rep, generated) ==
  LET from == {f \in Rows(rep) : \A i \in Joins(rep) : Satisfies(f, rep.links[i])}
      shown == [f \in from |-> Shown(rep, f)]
  IN  [shown |-> shown, where |-> <<>>, order |-> Terms(rep, shown, Known(rep)),
       runs |-> generated \/ Known(rep) = Asked(rep)]

(* The SQL of a Command: its joins and its ORDER BY are its author's.      *)
Command(rep) ==
  LET shown == [f \in Linked(rep) |-> Shown(rep, f)]
      Alternative(keeps) == {f \in DOMAIN shown : \A c \in DOMAIN keeps : shown[f][c] \in keeps[c]}
  IN  [shown |-> shown, order |-> Terms(rep, shown, Known(rep)), runs |-> TRUE,
       where |-> [i \in DOMAIN rep.command |-> Alternative(rep.command[i])]]

-----------------------------------------------------------------------------
(* The record selection. A clause compares a column; right is what it is   *)
(* compared with, keeps the values that pass.                              *)
Keeps(shown, clauses) ==
  {f \in DOMAIN shown : \A i \in DOMAIN clauses : shown[f][clauses[i].col] \in clauses[i].keeps}

Foldable(c) ==
  \/ c.right = "literal"
  \/ c.right = "parameter"
  \/ c.right = "multi-value" /\ c.op = "="

Folds(rep) ==
  rep.selection # <<>> /\ rep.simple /\ \A i \in DOMAIN rep.selection : Foldable(rep.selection[i])

(* Mutant of Fold: a WHERE that is there already is replaced.              *)
FoldOver(sql, clauses) == [sql EXCEPT !.where = <<Keeps(sql.shown, clauses)>>]

(* "AND ..." after a WHERE binds to the last of its alternatives.          *)
Fold(sql, clauses) ==
  IF sql.where = <<>> THEN [sql EXCEPT !.where = <<Keeps(sql.shown, clauses)>>]
  ELSE [sql EXCEPT !.where[Len(sql.where)] = @ \intersect Keeps(sql.shown, clauses)]

(* The prompts that were given a column before a later clause refused.     *)
Prompts(rep) ==
  LET refused == {i \in DOMAIN rep.selection : ~Foldable(rep.selection[i])}
      read == IF ~rep.simple THEN 0 ELSE IF refused = {} THEN Len(rep.selection) ELSE Min(refused) - 1
  IN  {rep.selection[i].col : i \in {j \in 1..read : rep.selection[j].right # "literal"}}

-----------------------------------------------------------------------------
(* apply_window_columns: the WHERE goes inside, the order is given again.  *)
Wrapped(rep, sql, places, runs) ==
  LET shown == [f \in Answer(sql) |-> sql.shown[f]]
  IN  [shown |-> shown, where |-> <<>>, order |-> Terms(rep, shown, places), runs |-> runs]

WithWindow(rep, sql) == Wrapped(rep, sql, Known(rep), Known(rep) = Asked(rep))

-----------------------------------------------------------------------------
(* Top-N. The groups are taken from the outside in; what a group's rows    *)
(* show is relabelled before the next is ranked.                           *)
Aggregate(op, shown, fs, m) ==
  CASE op = "Sum" -> MapThenSumSet(LAMBDA f : shown[f][m], fs)
    [] op = "Count" -> Cardinality(fs)
    [] op = "Maximum" -> Max({shown[f][m] : f \in fs})

Alike(shown, f, cols) == {g \in DOMAIN shown : \A c \in cols : shown[g][c] = shown[f][c]}
Outer(rep, i) == {rep.groups[j].col : j \in 1..(i - 1)}

Totals(shown, cols, topn, op) == [f \in DOMAIN shown |-> Aggregate(op, shown, Alike(shown, f, cols), topn.measure)]

(* DENSE_RANK of each row's group among those of the same parents.         *)
RankOf(shown, parents, g, op) ==
  LET total == Totals(shown, parents \union {g.col}, g.topn, op)
      Before(a, b) == IF g.topn.desc THEN a > b ELSE a < b
  IN  [f \in DOMAIN shown |->
         1 + Cardinality({total[h] : h \in {k \in Alike(shown, f, parents) : Before(total[k], total[f])}})]

(* Mutant of Bucket: the relabelled groups keep their rank's place.        *)
BucketByRank(state, parents, g, op) ==
  LET rank == RankOf(state.shown, parents, g, op)
  IN  [shown |-> [f \in DOMAIN state.shown |-> IF rank[f] <= g.topn.n THEN state.shown[f]
                                               ELSE [state.shown[f] EXCEPT ![g.col] = OthersLabel]],
       place |-> rank]

(* One pass: rank, keep N, relabel the rest, carry the ordering column.    *)
Bucket(state, parents, g, op) ==
  LET rank == RankOf(state.shown, parents, g, op)
  IN  [shown |-> [f \in DOMAIN state.shown |-> IF rank[f] <= g.topn.n THEN state.shown[f]
                                               ELSE [state.shown[f] EXCEPT ![g.col] = OthersLabel]],
       place |-> [f \in DOMAIN state.shown |-> IF rank[f] <= g.topn.n THEN rank[f] ELSE Beyond]]

Ranked(rep) == {i \in DOMAIN rep.groups : rep.groups[i].topn # NoTopN}
Rankable(rep) == {i \in Ranked(rep) : IsColumn(rep, rep.groups[i].col)
                                      /\ IsColumn(rep, rep.groups[i].topn.measure)}
Parents(rep, i) == {c \in Outer(rep, i) : IsColumn(rep, c)}

(* The passes over those of the first n groups that are among the ranked;  *)
(* ops is the operation that totals each group.                            *)
Stage(rep, among, before, i, ops) ==
  IF i \in among THEN Bucket(before, Parents(rep, i), rep.groups[i], ops[i]) ELSE before
Buckets(rep, shown, among, ops, n) ==
  LET after[i \in 0..n] ==
        IF i = 0 THEN [shown |-> shown, place |-> << >>] ELSE Stage(rep, among, after[i - 1], i, ops)
  IN  after[n]

OwnOps(rep) == [i \in Ranked(rep) |-> rep.groups[i].topn.op]
SumOps(rep) == [i \in Ranked(rep) |-> "Sum"]

Bucketable(rep) ==
  rep.command = NoCommand /\ ~rep.window /\ \A i \in Rankable(rep) : rep.groups[i].topn.others

(* Rolled up: the ordering columns, at places before those of the keys,    *)
(* then the groups that have no Top-N.                                     *)
RolledUp(rep, sql) ==
  LET inner == Wrapped(rep, sql, {}, TRUE)
      size == Len(rep.groups)
      After(n) == Buckets(rep, inner.shown, Rankable(rep), OwnOps(rep), n)
      shown == After(size).shown
      tail == {p \in Known(rep) : SortKeys(rep)[p].col \notin {rep.groups[i].col : i \in Rankable(rep)}}
  IN  [shown |-> shown, where |-> <<>>, runs |-> TRUE,
       order |-> [p \in {i - size : i \in Rankable(rep)} \union tail |->
                    IF p <= 0 THEN After(p + size).place ELSE Terms(rep, shown, tail)[p]]]

(* Only ordered: by the measure of the first of the groups, then as usual. *)
OrderedOnly(rep, sql) ==
  LET g == rep.groups[Min(Rankable(rep))]
      inner == Wrapped(rep, sql, Known(rep), rep.command = NoCommand \/ Known(rep) = Asked(rep))
      total == Totals(inner.shown, {g.col}, g.topn, g.topn.op)
      measure == [f \in DOMAIN total |-> IF g.topn.desc THEN -total[f] ELSE total[f]]
  IN  [inner EXCEPT !.order = [p \in {0} \union DOMAIN @ |-> IF p = 0 THEN measure ELSE @[p]]]

WithTopN(rep, sql) == IF Bucketable(rep) THEN RolledUp(rep, sql) ELSE OrderedOnly(rep, sql)

(* bucket_saved_rows_topn: the same passes over the saved rows, which sum  *)
(* whatever the operation is, and roll up whether or not others is set.    *)
Saved(rep, shown) == Buckets(rep, shown, Ranked(rep), SumOps(rep), Len(rep.groups)).shown

SavedApplies(rep) == Ranked(rep) # {} /\ Rankable(rep) = Ranked(rep)

-----------------------------------------------------------------------------
(* A report's query as the parser hands it on, and the database it is put  *)
(* to: links between its tables, columns of numbers, an N below Beyond.    *)
(* A Command has the columns that a Top-N over it names: the code asks     *)
(* only that they are named.                                               *)
IsQuery(rep) ==
  /\ rep.tables \in Seq(Range(rep.tables)) \ {<<>>}
  /\ rep.links \in Seq(Range(rep.links)) /\ rep.groups \in Seq(Range(rep.groups)) /\ rep.sorts \in Seq(Range(rep.sorts))
  /\ \A l \in Range(rep.links) : {l.st, l.dt} \subseteq Range(rep.tables)
  /\ rep.command = NoCommand \/ rep.command \in Seq(Range(rep.command))
  /\ DOMAIN rep.columns = Range(rep.tables) /\ IsFiniteSet(Rows(rep))
  /\ \A f \in Rows(rep) : Shown(rep, f) \in [UNION Range(rep.columns) -> Int]
  /\ \A i \in Ranked(rep) : /\ rep.groups[i].topn.n \in 0..(Beyond - 1)
                            /\ rep.groups[i].topn.op \in {"Sum", "Count", "Maximum"}
                            /\ rep.command # NoCommand => i \in Rankable(rep)

-----------------------------------------------------------------------------
(* The engine starts a band when a group's value, or an outer one's,       *)
(* changes from a row to the next. A group is whole when no order the      *)
(* terms allow can put a row of another group between two of its rows.     *)
NotAfter(order, f, g) ==
  LET differ == {i \in DOMAIN order : order[i][f] # order[i][g]}
  IN  differ = {} \/ LET i == Min(differ) IN order[i][f] < order[i][g]

Whole(rep, sql, n) ==
  LET cols == {c \in {rep.groups[i].col : i \in 1..n} : IsColumn(rep, c)}
      Same(f, g) == \A c \in cols : sql.shown[f][c] = sql.shown[g][c]
  IN  \A f, g, h \in Answer(sql) :
        f # g /\ Same(f, g) /\ ~Same(f, h) => ~(NotAfter(sql.order, f, h) /\ NotAfter(sql.order, h, g))
=============================================================================
