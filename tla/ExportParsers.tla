----------------------------- MODULE ExportParsers -----------------------------
(***************************************************************************)
(* PowerCenterParser and TalendParser: an export's mappings, mapplets and  *)
(* workflows, or a Talend job, as the pipelines and jobs the mapper and    *)
(* the generators read.  A mapplet is written into each mapping that uses  *)
(* it, under the name of the instance, and the mapping's connectors are    *)
(* led through its boundary.  The connections that a Talend job's rows     *)
(* take become hops, whatever their kind; what its triggers order, when it *)
(* calls others, is Orchestration's.  Ports, attributes and shell commands *)
(* are what the generated steps and entries need of them.                  *)
(***************************************************************************)
EXTENDS Naturals, FiniteSets, Sequences, SequencesExt

None == "none"

(* The elements of a sequence at some places, in their order; what          *)
(* SelectSeq gives, of places.                                             *)
At(s, places) ==
  [k \in 1..Cardinality(places) |->
     s[CHOOSE i \in places : Cardinality({j \in places : j <= i}) = k]]
Those(s, Is(_)) == At(s, {i \in DOMAIN s : Is(s[i])})

(* A step's name: what the export calls it, qualified by the instance of   *)
(* the mapplet it was written into, and the part the converter added.      *)
Plain(n) == [of |-> <<n>>, role |-> "step", leg |-> 0]
Inside(instance, n) == [of |-> <<instance>> \o n.of, role |-> n.role, leg |-> n.leg]

(* Definitions are dictionaries by name: the last one of a name is it.     *)
Defined(defs, n) == \E k \in DOMAIN defs : defs[k].name = n
Definition(defs, n) == defs[SelectLastInSeq(defs, LAMBDA d : d.name = n)]

(* A port that repeats its own name derives nothing; the parser keeps the  *)
(* others' expressions to be translated.                                   *)
Derives(port) == port.expr # None

Transformation(x) ==
  [name |-> Plain(x.name), type |-> x.type, pdi |-> None, confidence |-> "manual",
   fields |-> [k \in DOMAIN x.ports |-> [name |-> x.ports[k].name, kind |-> x.ports[k].kind]],
   exprs |-> [k \in DOMAIN Those(x.ports, Derives) |->
                [field |-> Those(x.ports, Derives)[k].name,
                 raw |-> Those(x.ports, Derives)[k].expr, translated |-> FALSE]],
   attr |-> x.attr]

NoAttributes ==
  [pairs |-> << >>, table |-> None, sql |-> None,
   tables |-> << >>, logical |-> "&&", advanced |-> FALSE]

StepOfEnd(export, i, def) ==
  [name |-> Plain(i.name), type |-> i.type, pdi |-> None, confidence |-> "manual",
   fields |-> IF i.type = "Target" /\ Defined(export.targets, def)
              THEN Definition(export.targets, def).fields ELSE << >>,
   exprs |-> << >>, attr |-> NoAttributes]

(* Mutant of EndStep: the fields are looked up by the instance's own name. *)
EndStepByInstance(export, i) == StepOfEnd(export, i, i.name)

(* The step of a source or target instance: a target's carries its         *)
(* definition's fields, whose PRIMARY KEYs the updates ahead of it need.   *)
EndStep(export, i) == StepOfEnd(export, i, i.def)

(* One hop for all the ports two steps share, none from a step to itself.  *)
WithEdge(edges, e) ==
  IF e[1] = e[2] \/ e \in ToSet(edges) THEN edges ELSE Append(edges, e)

Edges(connectors) ==
  LET after[n \in 0..Len(connectors)] == IF n = 0 THEN << >> ELSE WithEdge(after[n - 1], connectors[n])
  IN  after[Len(connectors)]

-----------------------------------------------------------------------------
StepsOf(mapplet) == [k \in DOMAIN mapplet.transformations |->
                       Transformation(mapplet.transformations[k])]
InnerHops(mapplet) ==
  Edges([k \in DOMAIN mapplet.connectors |->
           <<Plain(mapplet.connectors[k][1]), Plain(mapplet.connectors[k][2])>>])

ShellsOf(mapplet, type) == SelectSeq(mapplet.transformations, LAMBDA x : x.type = type)

WrittenUnder(p, n, mapplet) ==
  [p EXCEPT !.steps = @ \o [k \in DOMAIN StepsOf(mapplet) |->
                              [StepsOf(mapplet)[k] EXCEPT !.name = Inside(n, @)]],
            !.hops = @ \o [k \in DOMAIN InnerHops(mapplet) |->
                             <<Inside(n, InnerHops(mapplet)[k][1]),
                               Inside(n, InnerHops(mapplet)[k][2])>>]]

(* Mutant of Expanded: the steps are named after the mapplet.              *)
ExpandedOnce(p, i, mapplet) == WrittenUnder(p, mapplet.name, mapplet)

(* _expand_mapplet: the definition's steps and hops, under the instance's  *)
(* name.                                                                   *)
Expanded(p, i, mapplet) == WrittenUnder(p, i.name, mapplet)

(* The instances in their order: ends become steps unless a transformation *)
(* has the name, mapplets are expanded when their definition is there, and *)
(* the others are the transformations parsed already.                      *)
WithInstance(export, p, i) ==
  CASE i.type \in {"Source", "Target"}
         /\ \A k \in DOMAIN p.steps : p.steps[k].name # Plain(i.name) ->
         [p EXCEPT !.steps = Append(@, EndStep(export, i))]
    [] i.type = "Mapplet" /\ Defined(export.mapplets, i.def) ->
         Expanded(p, i, Definition(export.mapplets, i.def))
    [] OTHER -> p

(* Mutant of Boundary: rows enter where they should leave.                 *)
BoundarySwapped(export, i, asSource) ==
  LET shells == IF i.type = "Mapplet" /\ Defined(export.mapplets, i.def)
                THEN ShellsOf(Definition(export.mapplets, i.def), "Output Transformation")
                ELSE << >>
  IN  IF shells = << >> THEN Plain(i.name) ELSE Inside(i.name, Plain(shells[1].name))

(* _reroute: the first Output Transformation where the instance feeds, the *)
(* first Input Transformation where it is fed.                             *)
Boundary(export, i, asSource) ==
  LET side == IF asSource THEN "Output Transformation" ELSE "Input Transformation"
      shells == IF i.type = "Mapplet" /\ Defined(export.mapplets, i.def)
                THEN ShellsOf(Definition(export.mapplets, i.def), side) ELSE << >>
  IN  IF shells = << >> THEN Plain(i.name) ELSE Inside(i.name, Plain(shells[1].name))

Rerouted(export, mapping, n, asSource) ==
  IF Defined(mapping.instances, n)
  THEN Boundary(export, Definition(mapping.instances, n), asSource) ELSE Plain(n)

WithInstances(export, p, instances) ==
  LET after[n \in 0..Len(instances)] ==
        IF n = 0 THEN p ELSE WithInstance(export, after[n - 1], instances[n])
  IN  after[Len(instances)]

ParseMapping(export, mapping) ==
  LET own == [name |-> mapping.name, hops |-> << >>,
              steps |-> [k \in DOMAIN mapping.transformations |->
                           Transformation(mapping.transformations[k])]]
      led == [k \in DOMAIN mapping.connectors |->
                <<Rerouted(export, mapping, mapping.connectors[k][1], TRUE),
                  Rerouted(export, mapping, mapping.connectors[k][2], FALSE)>>]
  IN  [WithInstances(export, own, mapping.instances) EXCEPT !.hops = @ \o Edges(led)]

-----------------------------------------------------------------------------
(* _parse_task_details: a Command task's lines, in the order of execution. *)
CommandsOf(export, n) ==
  LET lines == SortSeq(Definition(export.tasks, n).lines, LAMBDA a, b : a.order < b.order)
  IN  IF Defined(export.tasks, n) THEN [k \in DOMAIN lines |-> lines[k].text] ELSE << >>

EntryNamed(export, task, n) ==
  [name |-> task.name, type |-> task.type,
   commands |-> IF task.type = "Command" THEN CommandsOf(export, n) ELSE << >>,
   mapping |-> IF task.type = "Session" /\ Defined(export.sessions, n)
               THEN Definition(export.sessions, n).mapping ELSE None]

(* Mutant of EntryOf: the task is looked up by the name of its instance.   *)
EntryOfInstance(export, task) == EntryNamed(export, task, task.name)

(* A task instance of a workflow.  Sessions and tasks are looked up by     *)
(* name over the whole export, whatever folder or workflow holds them.     *)
EntryOf(export, task) == EntryNamed(export, task, task.task)

ParseWorkflow(export, workflow) ==
  [name |-> workflow.name, hops |-> workflow.links,
   entries |-> [k \in DOMAIN workflow.tasks |-> EntryOf(export, workflow.tasks[k])]]

-----------------------------------------------------------------------------
(* TalendParser: one job (.item) as the pipeline of its components.        *)

(* A table parameter is saved as one run of values, each with the name of  *)
(* its column; a column read before starts the next row.                   *)
WithValue(read, v) ==
  IF v[1] \in DOMAIN read.row
  THEN [rows |-> Append(read.rows, read.row), row |-> [c \in {v[1]} |-> v[2]]]
  ELSE [read EXCEPT !.row = [c \in DOMAIN @ \cup {v[1]} |-> IF c = v[1] THEN v[2] ELSE @[c]]]

Reading(values) ==
  LET after[n \in 0..Len(values)] ==
        IF n = 0 THEN [rows |-> << >>, row |-> << >>] ELSE WithValue(after[n - 1], values[n])
  IN  after[Len(values)]

(* Mutant of Rows: what was read last is not kept.                         *)
RowsBeforeLast(values) == Reading(values).rows

Rows(values) ==
  LET read == Reading(values)
  IN  IF DOMAIN read.row = {} THEN read.rows ELSE Append(read.rows, read.row)

(* The entries of a tMap's output tables that only hand a column on under  *)
(* its own name derive nothing.                                            *)
DerivesEntry(entry) == entry.expr # None /\ entry.expr # "passthrough"

NodeStep(node) ==
  [name |-> Plain(node.name), type |-> node.component, pdi |-> None, confidence |-> "manual",
   fields |-> [k \in DOMAIN node.columns |-> [name |-> node.columns[k], kind |-> "plain"]],
   exprs |-> [k \in DOMAIN Those(node.entries, DerivesEntry) |->
                [field |-> Those(node.entries, DerivesEntry)[k].name,
                 raw |-> "java", translated |-> FALSE]],
   attr |-> [NoAttributes EXCEPT
               !.tables = [t \in {t \in DOMAIN node.tables : Rows(node.tables[t]) # << >>} |->
                             Rows(node.tables[t])],
               !.sql = node.query, !.logical = node.logical, !.advanced = node.advanced]]

FlowConnectors == {"FLOW", "MAIN", "FILTER", "REJECT", "UNIQUE", "DUPLICATE", "LOOKUP"}

ParseItem(item) ==
  LET flows == Those(item.connections, LAMBDA c : c.kind \in FlowConnectors)
  IN  [name |-> item.name, steps |-> [k \in DOMAIN item.nodes |-> NodeStep(item.nodes[k])],
       hops |-> [k \in DOMAIN flows |-> <<Plain(flows[k].from), Plain(flows[k].to)>>]]

=============================================================================
