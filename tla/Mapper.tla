--------------------------------- MODULE Mapper ---------------------------------
(***************************************************************************)
(* The rules mapper's second half, insert_required_sorters: PDI's Group By,*)
(* Merge Join and Unique rows need sorted input, the source engines sorted *)
(* by themselves.  For each leg of each such step the mapper walks upward  *)
(* looking for a Sort rows step, and inserts one where the walk ends       *)
(* without.  The hops are a list: Merge Join reads its inputs in that      *)
(* order, so a redirected hop stays where it is.                           *)
(***************************************************************************)
EXTENDS Naturals, Sequences

CONSTANTS Steps,      (* the steps a parser can name                       *)
          Ghosts,     (* names that only a dangling hop uses               *)
          Mappings,   (* the parsed mappings                               *)
          MaxPasses,  (* how often apply runs over one mapping             *)
          NoStep      (* no target chosen                                  *)

(* pdi_type, as far as it matters here: GroupBy stands for Unique too,     *)
(* whose keys do not depend on the leg either.                             *)
SortRequired == {"GroupBy", "MergeJoin"}
Types == SortRequired \cup {"SortRows", "Mapped", "Unmapped"}

Names == Steps \cup Ghosts
Hop(Ends) == [from : Ends, to : Ends]
Keys == {"group", "left", "right"}

ASSUME MappingsAssumption ==
  /\ \A m \in Mappings :
       /\ m.type \in [Steps -> Types]
       /\ m.keyed \subseteq Steps
       /\ m.hops \in Seq(Hop(Names))
  /\ MaxPasses \in Nat \ {0}
  /\ NoStep \notin Steps
  /\ Names \cap (Steps \X Nat \X Nat) = {}

VARIABLES
  mapping,   (* the parsed mapping: types by the rules, keyed steps, hops  *)
  hops,      (* Pipeline.hops                                              *)
  sorters,   (* the inserted steps, with the keys each sorts by            *)
  pass,      (* passes begun                                               *)
  stage,     (* where the pass is                                          *)
  todo,      (* the targets still to visit                                 *)
  target, leg,     (* the target, and the index of its hop at hand         *)
  frontier, seen   (* the upward walk                                      *)

walkVars == <<frontier, seen>>
mapperVars == <<mapping, hops, sorters, pass, stage, todo, target, leg, walkVars>>

Inserted == DOMAIN sorters

(* Pipeline.step(name).pdi_type, "None" when there is no such step.        *)
TypeOf(n) ==
  CASE n \in Inserted -> "SortRows"
    [] n \in Steps -> mapping.type[n]
    [] OTHER -> "None"

Targets == {s \in Steps : mapping.type[s] \in SortRequired}
Legs(s) == {k \in DOMAIN hops : hops[k].to = s}
Feeders(n) == {hops[k].from : k \in Legs(n)}
IsFirstLeg(k) == \A j \in Legs(hops[k].to) : k <= j

MapperInit ==
  /\ mapping \in Mappings
  /\ hops = mapping.hops
  /\ sorters = [n \in {} |-> "group"]
  /\ pass = 0
  /\ stage = "idle"
  /\ todo = {}
  /\ target = NoStep
  /\ leg = 0
  /\ frontier = {}
  /\ seen = {}

-----------------------------------------------------------------------------
StartPass ==
  /\ stage = "idle"
  /\ pass < MaxPasses
  /\ pass' = pass + 1
  /\ stage' = "targets"
  /\ todo' = Targets
  /\ UNCHANGED <<mapping, hops, sorters, target, leg, walkVars>>

(* The code takes them in the order of the steps; no order is assumed.     *)
TakeTarget(s) ==
  /\ stage = "targets"
  /\ s \in todo
  /\ todo' = todo \ {s}
  /\ target' = s
  /\ leg' = 0
  /\ stage' = "legs"
  /\ UNCHANGED <<mapping, hops, sorters, pass, walkVars>>

(* The list of the target's hops is made once; the loop below only         *)
(* redirects their other ends, so it is always Legs(target).               *)
TakeLeg(k) ==
  /\ stage = "legs"
  /\ k \in Legs(target)
  /\ leg < k
  /\ \A j \in Legs(target) : leg < j => k <= j
  /\ leg' = k
  /\ frontier' = {hops[k].from}
  /\ seen' = {}
  /\ stage' = "walk"
  /\ UNCHANGED <<mapping, hops, sorters, pass, todo, target>>

LeaveTarget ==
  /\ stage = "legs"
  /\ \A j \in Legs(target) : j <= leg
  /\ target' = NoStep
  /\ leg' = 0
  /\ frontier' = {}
  /\ seen' = {}
  /\ stage' = "targets"
  /\ UNCHANGED <<mapping, hops, sorters, pass, todo>>

(* leg_has_sorter, one popped name at a time.  A name already seen is not  *)
(* pushed again; the order of the stack is left open.                      *)
Pop(n) ==
  /\ stage = "walk"
  /\ n \in frontier
  /\ seen' = seen \cup {n}
  /\ UNCHANGED <<mapping, hops, sorters, pass, todo, target, leg>>

FindSorter(n) ==
  /\ TypeOf(n) = "SortRows"
  /\ Pop(n)
  /\ stage' = "legs"
  /\ UNCHANGED frontier

(* A required step resets the guarantee; a dangling name leads nowhere.    *)
Upstream(n) == IF TypeOf(n) \in SortRequired \cup {"None"} THEN {} ELSE Feeders(n)

(* Mutant of WalkOn: a name is followed again each time it is met.         *)
WalkInCircles(n) ==
  /\ TypeOf(n) # "SortRows"
  /\ Pop(n)
  /\ frontier' = (frontier \ {n}) \cup Upstream(n)
  /\ UNCHANGED stage

WalkOn(n) ==
  /\ TypeOf(n) # "SortRows"
  /\ Pop(n)
  /\ frontier' = (frontier \cup Upstream(n)) \ seen'
  /\ UNCHANGED stage

EndWalk ==
  /\ stage = "walk"
  /\ frontier = {}
  /\ stage' = "bare"
  /\ UNCHANGED <<mapping, hops, sorters, pass, todo, target, leg, walkVars>>

-----------------------------------------------------------------------------

(* sort_keys_for, for a step whose keys the export tells.                  *)
SortKeysFor(s, k) ==
  IF mapping.type[s] = "MergeJoin"
  THEN IF IsFirstLeg(k) THEN "left" ELSE "right"
  ELSE "group"

(* No keys: the hazard stays for the review to flag.                       *)
SkipKeyless ==
  /\ stage = "bare"
  /\ target \notin mapping.keyed
  /\ stage' = "legs"
  /\ UNCHANGED <<mapping, hops, sorters, pass, todo, target, leg, walkVars>>

(* Mutant of Spliced: the new leg is appended, the old hop redirected.     *)
SplicedAtTheEnd(name) ==
  Append([hops EXCEPT ![leg].to = name], [from |-> name, to |-> target])

(* The hop keeps its place and now comes from the sorter; a new hop feeds  *)
(* the sorter from where the leg came from.                                *)
Spliced(name) ==
  Append([hops EXCEPT ![leg].from = name],
         [from |-> hops[leg].from, to |-> name])

(* The target's leg and a number that makes the name fresh.                *)
InsertSorter ==
  /\ stage = "bare"
  /\ target \in mapping.keyed
  /\ \E n \in 1..MaxPasses :
       LET name == <<target, leg, n>>
       IN  /\ name \notin Inserted
           /\ \A i \in 1..(n - 1) : <<target, leg, i>> \in Inserted
           /\ hops' = Spliced(name)
           /\ sorters' = [s \in Inserted \cup {name} |->
                            IF s = name THEN SortKeysFor(target, leg) ELSE sorters[s]]
  /\ stage' = "legs"
  /\ UNCHANGED <<mapping, pass, todo, target, leg, walkVars>>

EndPass ==
  /\ stage = "targets"
  /\ todo = {}
  /\ stage' = "idle"
  /\ UNCHANGED <<mapping, hops, sorters, pass, todo, target, leg, walkVars>>

Walk == EndWalk \/ \E n \in frontier : FindSorter(n) \/ WalkOn(n)
MapperNext ==
  \/ StartPass
  \/ \E s \in todo : TakeTarget(s)
  \/ \E k \in DOMAIN hops : TakeLeg(k)
  \/ LeaveTarget
  \/ Walk
  \/ SkipKeyless
  \/ InsertSorter
  \/ EndPass

MapperSpec == MapperInit /\ [][MapperNext]_mapperVars

(* apply is one call in one thread: it runs on until it returns.           *)
Mapped == stage = "idle" /\ pass = MaxPasses

-----------------------------------------------------------------------------
SorterNames == Steps \X Nat \X Nat

MapperTypeOK ==
  /\ mapping \in Mappings
  /\ Inserted \subseteq SorterNames
  /\ sorters \in [Inserted -> Keys]
  /\ hops \in Seq(Hop(Names \cup Inserted))
  /\ pass \in 0..MaxPasses
  /\ stage \in {"idle", "targets", "legs", "walk", "bare"}
  /\ todo \subseteq Targets
  /\ target \in Targets \cup {NoStep}
  /\ leg \in Nat
  /\ frontier \subseteq Names \cup Inserted
  /\ seen \subseteq Names \cup Inserted

(* Whatever is inserted, the i-th parsed hop still feeds the same step     *)
(* with the same rows, in the same place of the list: straight from its    *)
(* origin, or through one sorter that nothing else feeds.  This is what    *)
(* keeps the two inputs of a Merge Join from being swapped                 *)
(* (insert_required_sorters' comment on the list position).                *)
LegsKept ==
  /\ Len(hops) >= Len(mapping.hops)
  /\ \A k \in DOMAIN mapping.hops :
       /\ hops[k].to = mapping.hops[k].to
       /\ \/ hops[k].from = mapping.hops[k].from
          \/ /\ hops[k].from \in Inserted
             /\ Feeders(hops[k].from) = {mapping.hops[k].from}

(* A sorter of a Merge Join sorts by the keys of the side it feeds: left   *)
(* on the hop the generated step1 reads, right on the others               *)
(* (sort_keys_for's leg against _emit_merge_join's inputs), and it feeds   *)
(* that one hop only.                                                      *)
KeysFitLegs ==
  \A k \in DOMAIN hops :
    LET due == IF TypeOf(hops[k].to) = "MergeJoin"
               THEN IF IsFirstLeg(k) THEN "left" ELSE "right"
               ELSE "group"
    IN  hops[k].from \in Inserted =>
          /\ sorters[hops[k].from] = due
          /\ \A j \in DOMAIN hops : hops[j].from = hops[k].from => j = k

(* What the walk has to find out, without walking: there is no sorter      *)
(* upstream when some set of steps that is closed under feeding, required  *)
(* steps ending it, holds the leg's origin and no sorter.                  *)
IsClosed(S) ==
  \A n \in S \cap Steps : mapping.type[n] \notin SortRequired => Feeders(n) \subseteq S
NoSorterIn(S) == \A n \in S : TypeOf(n) # "SortRows"
IsBare(start) ==
  \E S \in SUBSET (Names \cup Inserted) : start \in S /\ IsClosed(S) /\ NoSorterIn(S)

(* leg_has_sorter is right: the walk ends with a sorter found exactly when *)
(* there is one upstream, whatever cycles, dangling hops and required      *)
(* steps the mapping has.                                                  *)
WalkIsRight ==
  [][stage = "walk" /\ stage' # "walk"
       => (stage' = "bare" <=> IsBare(hops[leg].from))]_mapperVars

(* After a pass, only the legs of steps whose keys are not known are left  *)
(* without a sorter (insert_required_sorters' docstring): what was         *)
(* inserted for one target leaves no other target's leg bare.              *)
OnlyKeylessLegsAreBare ==
  stage = "idle" /\ pass > 0 =>
    \A s \in Targets \cap mapping.keyed : \A n \in Feeders(s) : ~IsBare(n)

(* "Idempotent: a leg that already has a sorter (including one from a      *)
(* previous pass) is skipped": no later pass inserts anything.             *)
OnePassIsEnough ==
  [][sorters' # sorters => pass = 1]_mapperVars

(* The legs after the mapper: the parsed hops in their places, a sorter on *)
(* every leg whose keys are known, by the keys of that leg.                *)
LegsAreServed == LegsKept /\ KeysFitLegs /\ OnlyKeylessLegsAreBare

=============================================================================
