----------------------------- MODULE ConversionProofs -----------------------------
(***************************************************************************)
(* What insert_required_sorters does to any mapping - of any size, with    *)
(* any cycles and dangling hops, in any order of the targets and of the    *)
(* walk - proved; the hops of the job that parse_workflows makes of a      *)
(* Talend job, for every set of components, however its links run, cycles  *)
(* included, and whatever order the calls and the frontier are taken in;   *)
(* what compare_csv reports of any two outputs; these theorems carried     *)
(* over to a whole conversion; and what the review's verdict says of it,   *)
(* for every source.                                                       *)
(***************************************************************************)
EXTENDS Conversion, SequenceTheorems, FiniteSetTheorems, TLAPS

USE DEF mapperVars, walkVars

(* The side of a hop into a step that needs sorted input.                  *)
Side(k) ==
  IF mapping.type[hops[k].to] = "MergeJoin"
  THEN IF IsFirstLeg(k) THEN "left" ELSE "right"
  ELSE "group"

(* The hop list: a parsed hop comes from its origin or from the sorter     *)
(* that carries its index; all other hops feed sorters.                    *)
Shape ==
  /\ Len(hops) >= Len(mapping.hops)
  /\ \A k \in DOMAIN mapping.hops :
       /\ hops[k].to = mapping.hops[k].to
       /\ hops[k].from \notin Inserted => hops[k].from = mapping.hops[k].from
  /\ \A k \in DOMAIN hops \ DOMAIN mapping.hops :
       hops[k].to \in Inserted /\ hops[k].from \notin Inserted
  /\ \A k \in DOMAIN hops :
       hops[k].from \in Inserted =>
         /\ k \in DOMAIN mapping.hops
         /\ hops[k].from[2] = k
         /\ hops[k].to \in Targets
         /\ sorters[hops[k].from] = Side(k)
         /\ Feeders(hops[k].from) = {mapping.hops[k].from}

Place ==
  /\ stage = "idle" => todo = {} /\ target = NoStep
  /\ stage = "targets" => target = NoStep
  /\ stage \in {"legs", "walk", "bare"} => target \in Targets \ todo
  /\ stage = "legs" => leg = 0 \/ leg \in Legs(target)
  /\ stage \in {"walk", "bare"} => leg \in Legs(target)
  /\ pass = 0 => stage = "idle"

(* The names seen are no sorters and what feeds them is seen or waits; and *)
(* whatever set shows the leg to be bare, it holds what waits.             *)
Shows(S, start) == start \in S /\ IsClosed(S) /\ NoSorterIn(S)

Walking ==
  /\ stage \in {"walk", "bare"} =>
       /\ hops[leg].from \in seen \cup frontier
       /\ \A n \in seen : /\ TypeOf(n) # "SortRows"
                          /\ Upstream(n) \subseteq seen \cup frontier
  /\ stage = "walk" =>
       \A S \in SUBSET (Names \cup Inserted) : Shows(S, hops[leg].from) => frontier \subseteq S
  /\ stage = "bare" => frontier = {}

(* The legs the passes have dealt with.                                    *)
Covered(s, k) == s \in mapping.keyed => ~IsBare(hops[k].from)

Covering ==
  /\ pass > 1 \/ (pass = 1 /\ stage = "idle")
       => \A s \in Targets : \A k \in Legs(s) : Covered(s, k)
  /\ pass = 1 => \A s \in Targets \ todo :
                   s # target => \A k \in Legs(s) : Covered(s, k)
  /\ pass = 1 /\ target \in Targets
       => \A k \in Legs(target) : k < leg \/ (k = leg /\ stage = "legs") => Covered(target, k)

IInv == MapperTypeOK /\ Shape /\ Place /\ Walking /\ Covering

-----------------------------------------------------------------------------
LEMMA MappingTypes ==
  ASSUME NEW m \in Mappings
  PROVE  /\ m.type \in [Steps -> Types]
         /\ m.keyed \subseteq Steps
         /\ m.hops \in Seq(Hop(Names))
         /\ Len(m.hops) \in Nat
         /\ DOMAIN m.hops = 1..Len(m.hops)
         /\ \A k \in DOMAIN m.hops : m.hops[k] \in Hop(Names)
<1>1. m.hops \in Seq(Hop(Names))
  BY MappingsAssumption
<1>2. QED BY <1>1, MappingsAssumption, LenProperties, ElementOfSeq

(* No inserted step has the name of a parsed one.                          *)
LEMMA SortersApart ==
  ASSUME MapperTypeOK
  PROVE  /\ Inserted \cap Names = {}
         /\ SorterNames \cap Names = {}
         /\ Inserted \cap Steps = {}
         /\ NoStep \notin Targets
  BY MappingsAssumption DEF MapperTypeOK, SorterNames, Names, Targets

LEMMA HopTypes ==
  ASSUME MapperTypeOK
  PROVE  /\ Len(hops) \in Nat
         /\ DOMAIN hops = 1..Len(hops)
         /\ \A k \in DOMAIN hops : hops[k] \in Hop(Names \cup Inserted)
         /\ \A k \in DOMAIN hops : hops[k].from \in Names \cup Inserted
         /\ \A k \in DOMAIN hops : hops[k].to \in Names \cup Inserted
<1>1. hops \in Seq(Hop(Names \cup Inserted))
  BY DEF MapperTypeOK
<1>2. \A k \in DOMAIN hops : hops[k] \in Hop(Names \cup Inserted)
  BY <1>1, LenProperties, ElementOfSeq
<1>3. QED BY <1>1, <1>2, LenProperties DEF Hop

(* What a step type says of a name.                                        *)
LEMMA TypesOfNames ==
  ASSUME MapperTypeOK
  PROVE  /\ \A n \in Inserted : TypeOf(n) = "SortRows"
         /\ \A n \in Steps : TypeOf(n) = mapping.type[n] /\ TypeOf(n) # "None"
         /\ \A n : n \notin Inserted /\ n \notin Steps => TypeOf(n) = "None"
         /\ \A s \in Targets : s \in Steps /\ TypeOf(s) \in SortRequired
<1>1. mapping.type \in [Steps -> Types]
  BY MappingTypes DEF MapperTypeOK
<1>2. \A n \in Steps : mapping.type[n] # "None"
  BY <1>1 DEF Types, SortRequired
<1>3. QED BY <1>2, SortersApart DEF TypeOf, Targets

(* A set that holds the leg, is closed and holds no sorter.                *)
LEMMA BareIsShown ==
  ASSUME NEW start
  PROVE  IsBare(start) <=> \E S \in SUBSET (Names \cup Inserted) : Shows(S, start)
  BY DEF IsBare, Shows

-----------------------------------------------------------------------------
LEMMA Init_IInv == MapperInit => IInv
<1> SUFFICES ASSUME MapperInit PROVE IInv
  OBVIOUS
<1>1. Inserted = {}
  BY DEF MapperInit, Inserted
<1>2. mapping \in Mappings /\ hops = mapping.hops
  BY DEF MapperInit
<1>3. hops \in Seq(Hop(Names \cup Inserted))
  BY <1>1, <1>2, MappingTypes
<1>4. MapperTypeOK
  <2>1. sorters \in [Inserted -> Keys]
    BY <1>1 DEF MapperInit, Inserted
  <2>2. pass \in 0..MaxPasses
    BY MappingsAssumption DEF MapperInit
  <2>3. QED BY <1>1, <1>2, <1>3, <2>1, <2>2 DEF MapperInit, MapperTypeOK
<1>5. Shape
  BY <1>1, <1>2, MappingTypes DEF Shape
<1>6. Place /\ Walking /\ Covering
  BY DEF MapperInit, Place, Walking, Covering
<1>7. QED BY <1>4, <1>5, <1>6 DEF IInv

-----------------------------------------------------------------------------
(* What every step but an insertion leaves alone.                          *)
Quiet == UNCHANGED <<mapping, hops, sorters>>

LEMMA QuietKeeps ==
  ASSUME Quiet
  PROVE  /\ Inserted' = Inserted
         /\ Targets' = Targets
         /\ \A s : Legs(s)' = Legs(s)
         /\ \A n : Feeders(n)' = Feeders(n)
         /\ \A n : TypeOf(n)' = TypeOf(n)
         /\ \A n : Upstream(n)' = Upstream(n)
         /\ \A S : \A n : Shows(S, n)' <=> Shows(S, n)
         /\ \A n : IsBare(n)' <=> IsBare(n)
<1>1. mapping' = mapping /\ hops' = hops /\ sorters' = sorters
  BY DEF Quiet
<1>2. Inserted' = Inserted /\ Targets' = Targets
  BY <1>1 DEF Inserted, Targets
<1>3. \A s : Legs(s)' = Legs(s)
  BY <1>1 DEF Legs
<1>4. \A n : Feeders(n)' = Feeders(n)
  BY <1>1, <1>3 DEF Feeders
<1>5. \A n : TypeOf(n)' = TypeOf(n)
  BY <1>1, <1>2 DEF TypeOf
<1>6. \A n : Upstream(n)' = Upstream(n)
  BY <1>4, <1>5 DEF Upstream
<1>7. \A S : \A n : Shows(S, n)' <=> Shows(S, n)
  <2>1. \A S : IsClosed(S)' <=> IsClosed(S)
    BY <1>1, <1>4 DEF IsClosed
  <2>2. \A S : NoSorterIn(S)' <=> NoSorterIn(S)
    BY <1>5 DEF NoSorterIn
  <2>3. QED BY <2>1, <2>2 DEF Shows
<1>8. \A n : IsBare(n)' <=> IsBare(n)
  <2>1. \A n : IsBare(n) <=> \E S \in SUBSET (Names \cup Inserted) : Shows(S, n)
    BY DEF IsBare, Shows
  <2>2. \A n : IsBare(n)' <=> \E S \in SUBSET (Names \cup Inserted') : Shows(S, n)'
    BY DEF IsBare, Shows
  <2>3. QED BY <2>1, <2>2, <1>2, <1>7
<1>9. QED BY <1>2, <1>3, <1>4, <1>5, <1>6, <1>7, <1>8

LEMMA QuietShape ==
  ASSUME Shape, Quiet
  PROVE  Shape'
<1>1. mapping' = mapping /\ hops' = hops /\ sorters' = sorters
  BY DEF Quiet
<1>2. \A k : IsFirstLeg(k)' <=> IsFirstLeg(k)
  BY <1>1, QuietKeeps DEF IsFirstLeg
<1>3. \A k : Side(k)' = Side(k)
  BY <1>1, <1>2 DEF Side
<1>4. QED BY <1>1, <1>3, QuietKeeps DEF Shape

-----------------------------------------------------------------------------
(* The hop list after an insertion.                                        *)
LEMMA SplicedIs ==
  ASSUME MapperTypeOK, leg \in DOMAIN hops, NEW name
  PROVE  /\ Spliced(name) \in Seq(Hop(Names \cup Inserted \cup {name}))
         /\ Len(Spliced(name)) = Len(hops) + 1
         /\ DOMAIN Spliced(name) = 1..(Len(hops) + 1)
         /\ Spliced(name)[Len(hops) + 1] = [from |-> hops[leg].from, to |-> name]
         /\ \A k \in DOMAIN hops :
              /\ Spliced(name)[k].to = hops[k].to
              /\ Spliced(name)[k].from = IF k = leg THEN name ELSE hops[k].from
<1> DEFINE Wide == Hop(Names \cup Inserted \cup {name})
           redirected == [hops EXCEPT ![leg].from = name]
           fed == [from |-> hops[leg].from, to |-> name]
<1>1. hops \in Seq(Wide)
  <2>1. hops \in Seq(Hop(Names \cup Inserted))
    BY DEF MapperTypeOK
  <2>2. Hop(Names \cup Inserted) \subseteq Wide
    BY DEF Hop
  <2>3. QED BY <2>1, <2>2, SeqMonotonic
<1>2. hops[leg] \in Hop(Names \cup Inserted) /\ leg \in 1..Len(hops)
  BY HopTypes
<1>3. [hops[leg] EXCEPT !.from = name] \in Wide
  BY <1>2 DEF Hop
<1>4. redirected = [hops EXCEPT ![leg] = [hops[leg] EXCEPT !.from = name]]
  OBVIOUS
<1>5. /\ redirected \in Seq(Wide)
      /\ Len(redirected) = Len(hops)
      /\ \A k \in 1..Len(hops) :
           redirected[k] = IF k = leg THEN [hops[leg] EXCEPT !.from = name] ELSE hops[k]
  <2> HIDE DEF Wide
  <2>1. QED BY <1>1, <1>2, <1>3, <1>4, ExceptSeq
<1>6. fed \in Wide
  BY <1>2 DEF Hop
<1>7. /\ Append(redirected, fed) \in Seq(Wide)
      /\ Len(Append(redirected, fed)) = Len(hops) + 1
      /\ \A k \in 1..Len(hops) : Append(redirected, fed)[k] = redirected[k]
      /\ Append(redirected, fed)[Len(hops) + 1] = fed
  <2> HIDE DEF Wide, redirected, fed
  <2>1. QED BY <1>5, <1>6, AppendProperties
<1>8. Spliced(name) = Append(redirected, fed)
  BY DEF Spliced
<1>9. DOMAIN hops = 1..Len(hops)
  BY HopTypes
<1>10. \A k \in DOMAIN hops :
         /\ redirected[k].to = hops[k].to
         /\ redirected[k].from = IF k = leg THEN name ELSE hops[k].from
  <2> SUFFICES ASSUME NEW k \in DOMAIN hops
               PROVE  /\ redirected[k].to = hops[k].to
                      /\ redirected[k].from = IF k = leg THEN name ELSE hops[k].from
    OBVIOUS
  <2>1. hops[k] \in Hop(Names \cup Inserted)
    BY HopTypes
  <2>2. QED BY <2>1, <1>2, <1>5, <1>9 DEF Hop
<1>11. DOMAIN Append(redirected, fed) = 1..(Len(hops) + 1)
  <2> HIDE DEF Wide, redirected, fed
  <2>1. QED BY <1>7, LenProperties
<1>12. QED
  <2> HIDE DEF redirected
  <2>1. QED BY <1>7, <1>8, <1>9, <1>10, <1>11

(* What an insertion changes, seen from outside: one name, one place.      *)
Inserts(name) ==
  /\ name \in SorterNames /\ name[2] = leg
  /\ name \notin Inserted /\ name \notin Names
  /\ mapping' = mapping
  /\ Inserted' = Inserted \cup {name}
  /\ hops' \in Seq(Hop(Names \cup Inserted'))
  /\ Len(hops') = Len(hops) + 1
  /\ DOMAIN hops' = 1..(Len(hops) + 1)
  /\ DOMAIN hops = 1..Len(hops) /\ Len(hops) \in Nat
  /\ hops'[Len(hops) + 1] = [from |-> hops[leg].from, to |-> name]
  /\ \A k \in DOMAIN hops : /\ hops'[k].to = hops[k].to
                            /\ hops'[k].from = IF k = leg THEN name ELSE hops[k].from
  /\ \A s \in Inserted : sorters'[s] = sorters[s]
  /\ sorters'[name] = SortKeysFor(target, leg)

LEMMA InsertSorterInserts ==
  ASSUME MapperTypeOK, Place, InsertSorter
  PROVE  /\ \E name : Inserts(name)
         /\ sorters' \in [Inserted' -> Keys]
         /\ Inserted' \subseteq SorterNames
<1>1. target \in Targets /\ leg \in Legs(target) /\ leg \in Nat
  BY DEF InsertSorter, Place, MapperTypeOK
<1>2. leg \in DOMAIN hops
  BY <1>1 DEF Legs
<1>3. PICK n \in 1..MaxPasses :
        LET name == <<target, leg, n>>
        IN  /\ name \notin Inserted
            /\ hops' = Spliced(name)
            /\ sorters' = [s \in Inserted \cup {name} |->
                             IF s = name THEN SortKeysFor(target, leg) ELSE sorters[s]]
  BY DEF InsertSorter
<1> DEFINE name == <<target, leg, n>>
<1>4. name \in SorterNames /\ name[2] = leg
  BY <1>1, MappingsAssumption DEF SorterNames, Targets
<1>5. name \notin Names
  BY <1>4, SortersApart
<1>6. mapping' = mapping
  BY DEF InsertSorter
<1>7. /\ sorters' = [s \in Inserted \cup {name} |->
                       IF s = name THEN SortKeysFor(target, leg) ELSE sorters[s]]
      /\ hops' = Spliced(name)
      /\ name \notin Inserted
  BY <1>3
<1>8. Inserted' = Inserted \cup {name}
  BY <1>7 DEF Inserted
<1>9. /\ \A s \in Inserted : sorters'[s] = sorters[s]
      /\ sorters'[name] = SortKeysFor(target, leg)
  <2> HIDE DEF name
  <2>1. QED BY <1>7
<1>10. SortKeysFor(target, leg) \in Keys
  BY DEF SortKeysFor, Keys
<1>11. sorters' \in [Inserted' -> Keys]
  <2> HIDE DEF name
  <2>1. sorters \in [Inserted -> Keys]
    BY DEF MapperTypeOK
  <2>2. QED BY <2>1, <1>7, <1>8, <1>10
<1>12. Inserted' \subseteq SorterNames
  BY <1>4, <1>8 DEF MapperTypeOK
<1>13. /\ hops' \in Seq(Hop(Names \cup Inserted'))
       /\ Len(hops') = Len(hops) + 1
       /\ DOMAIN hops' = 1..(Len(hops) + 1)
       /\ hops'[Len(hops) + 1] = [from |-> hops[leg].from, to |-> name]
       /\ \A k \in DOMAIN hops :
            /\ hops'[k].to = hops[k].to
            /\ hops'[k].from = IF k = leg THEN name ELSE hops[k].from
  <2> HIDE DEF name
  <2>1. Names \cup Inserted' = Names \cup Inserted \cup {name}
    BY <1>8
  <2>2. QED BY <2>1, <1>2, <1>7, SplicedIs
<1>14. DOMAIN hops = 1..Len(hops) /\ Len(hops) \in Nat
  BY HopTypes
<1>15. Inserts(name)
  <2> HIDE DEF name
  <2>1. QED BY <1>4, <1>5, <1>6, <1>7, <1>8, <1>9, <1>13, <1>14 DEF Inserts
<1>16. QED BY <1>11, <1>12, <1>15

-----------------------------------------------------------------------------
(* A bare leg does not come from a sorter.                                 *)
LEMMA BareLegIsParsed ==
  ASSUME MapperTypeOK, Place, Walking, stage = "bare"
  PROVE  /\ leg \in DOMAIN hops /\ hops[leg].to = target /\ target \in Targets
         /\ hops[leg].from \notin Inserted
         /\ hops[leg].from \in Names
<1>1. leg \in Legs(target) /\ target \in Targets
  BY DEF Place
<1>2. leg \in DOMAIN hops /\ hops[leg].to = target
  BY <1>1 DEF Legs
<1>3. hops[leg].from \in seen
  BY DEF Walking
<1>4. TypeOf(hops[leg].from) # "SortRows"
  BY <1>3 DEF Walking
<1>5. QED BY <1>1, <1>2, <1>4, TypesOfNames, HopTypes

(* An insertion adds one hop, into the new name, and takes no leg from any *)
(* other name.                                                             *)
LEMMA InsertsKeepsLegs ==
  ASSUME MapperTypeOK, NEW name, Inserts(name)
  PROVE  /\ \A s : s # name => Legs(s)' = Legs(s)
         /\ Legs(name)' = {Len(hops) + 1}
         /\ Feeders(name)' = {hops[leg].from}
         /\ \A k \in DOMAIN hops : hops[k].to # name
<1>1. /\ DOMAIN hops' = DOMAIN hops \cup {Len(hops) + 1}
      /\ Len(hops) + 1 \notin DOMAIN hops
  BY DEF Inserts
<1>2. hops'[Len(hops) + 1].to = name /\ hops'[Len(hops) + 1].from = hops[leg].from
  BY DEF Inserts
<1>3. \A k \in DOMAIN hops : hops'[k].to = hops[k].to
  BY DEF Inserts
<1>4. \A k \in DOMAIN hops : hops[k].to # name
  BY HopTypes DEF Inserts
<1>5. \A s : s # name => Legs(s)' = Legs(s)
  BY <1>1, <1>2, <1>3 DEF Legs
<1>6. Legs(name)' = {Len(hops) + 1}
  BY <1>1, <1>2, <1>3, <1>4 DEF Legs
<1>7. Feeders(name)' = {hops[leg].from}
  BY <1>2, <1>6 DEF Feeders
<1>8. QED BY <1>4, <1>5, <1>6, <1>7

(* Only the target is fed differently.                                     *)
LEMMA InsertsKeepsFeeders ==
  ASSUME MapperTypeOK, NEW name, Inserts(name), leg \in Legs(target),
         NEW n, n # name, n # target
  PROVE  Feeders(n)' = Feeders(n)
<1>1. Legs(n)' = Legs(n)
  BY InsertsKeepsLegs
<1>2. \A k \in Legs(n) : k \in DOMAIN hops /\ k # leg
  BY DEF Legs
<1>3. \A k \in Legs(n) : hops'[k].from = hops[k].from
  BY <1>2 DEF Inserts
<1>4. QED BY <1>1, <1>3 DEF Feeders

LEMMA InsertsKeepsTypes ==
  ASSUME MapperTypeOK, NEW name, Inserts(name)
  PROVE  /\ \A n : n # name => TypeOf(n)' = TypeOf(n)
         /\ TypeOf(name)' = "SortRows"
         /\ Targets' = Targets
<1>1. mapping' = mapping /\ Inserted' = Inserted \cup {name}
  BY DEF Inserts
<1>2. \A n : n # name => TypeOf(n)' = TypeOf(n)
  <2> SUFFICES ASSUME NEW n, n # name PROVE TypeOf(n)' = TypeOf(n)
    OBVIOUS
  <2>1. n \in Inserted' <=> n \in Inserted
    BY <1>1
  <2>2. QED BY <1>1, <2>1 DEF TypeOf
<1>3. TypeOf(name)' = "SortRows"
  <2>1. name \in Inserted'
    BY <1>1
  <2>2. name \notin Steps
    BY DEF Inserts, Names
  <2>3. QED BY <2>1, <2>2 DEF TypeOf
<1>4. Targets' = Targets
  BY <1>1 DEF Targets
<1>5. QED BY <1>2, <1>3, <1>4

(* What an insertion leaves bare was bare before: a set that shows it has  *)
(* neither the new sorter nor, below it, anything the target's leg feeds.  *)
LEMMA InsertsBaresNothing ==
  ASSUME MapperTypeOK, Place, NEW name, Inserts(name), leg \in Legs(target),
         target \in Targets, NEW start, IsBare(start)'
  PROVE  IsBare(start)
<1>1. PICK S \in SUBSET (Names \cup Inserted') :
        start \in S /\ IsClosed(S)' /\ NoSorterIn(S)'
  BY DEF IsBare
<1>2. name \notin S
  BY <1>1, InsertsKeepsTypes DEF NoSorterIn
<1>3. S \in SUBSET (Names \cup Inserted)
  BY <1>1, <1>2 DEF Inserts
<1>4. NoSorterIn(S)
  BY <1>1, <1>2, InsertsKeepsTypes DEF NoSorterIn
<1>5. IsClosed(S)
  <2> SUFFICES ASSUME NEW n \in S \cap Steps, mapping.type[n] \notin SortRequired
               PROVE  Feeders(n) \subseteq S
    BY DEF IsClosed
  <2>1. mapping' = mapping
    BY DEF Inserts
  <2>2. Feeders(n)' \subseteq S
    BY <1>1, <2>1 DEF IsClosed
  <2>3. n # name /\ n # target
    BY <1>2 DEF Targets
  <2>4. QED BY <2>2, <2>3, InsertsKeepsFeeders
<1>6. QED BY <1>1, <1>3, <1>4, <1>5 DEF IsBare

(* The leg that was bare comes from the sorter now.                        *)
LEMMA InsertedLegIsSorted ==
  ASSUME MapperTypeOK, NEW name, Inserts(name), leg \in DOMAIN hops
  PROVE  hops'[leg].from = name /\ ~IsBare(name)'
<1>1. hops'[leg].from = name
  BY DEF Inserts
<1>2. TypeOf(name)' = "SortRows"
  BY InsertsKeepsTypes
<1>3. SUFFICES ASSUME IsBare(name)' PROVE FALSE
  BY <1>1
<1>4. PICK S : name \in S /\ NoSorterIn(S)'
  BY <1>3 DEF IsBare
<1>5. QED BY <1>2, <1>4 DEF NoSorterIn

-----------------------------------------------------------------------------
LEMMA QuietTypes ==
  ASSUME MapperTypeOK, Quiet,
         pass' \in 0..MaxPasses,
         stage' \in {"idle", "targets", "legs", "walk", "bare"},
         todo' \subseteq Targets,
         target' \in Targets \cup {NoStep},
         leg' \in Nat,
         frontier' \subseteq Names \cup Inserted,
         seen' \subseteq Names \cup Inserted
  PROVE  MapperTypeOK'
<1>1. Inserted' = Inserted /\ Targets' = Targets
  BY QuietKeeps
<1>2. mapping' = mapping /\ hops' = hops /\ sorters' = sorters
  BY DEF Quiet
<1>3. QED BY <1>1, <1>2 DEF MapperTypeOK

LEMMA FeedersAreNames ==
  ASSUME MapperTypeOK
  PROVE  \A n : Feeders(n) \subseteq Names \cup Inserted
  BY HopTypes DEF Feeders, Legs

LEMMA TypeStep ==
  ASSUME MapperTypeOK, Place, [MapperNext]_mapperVars
  PROVE  MapperTypeOK'
<1>1. CASE UNCHANGED mapperVars
  BY <1>1, QuietTypes DEF MapperTypeOK, Quiet
<1>2. CASE StartPass
  BY <1>2, QuietTypes, MappingsAssumption DEF MapperTypeOK, Quiet, StartPass
<1>3. CASE \E s \in todo : TakeTarget(s)
  BY <1>3, QuietTypes DEF MapperTypeOK, Quiet, TakeTarget
<1>4. CASE \E k \in DOMAIN hops : TakeLeg(k)
  <2>1. PICK k \in DOMAIN hops : TakeLeg(k)
    BY <1>4
  <2>2. k \in Nat /\ hops[k].from \in Names \cup Inserted
    BY <2>1, HopTypes
  <2>3. QED BY <2>1, <2>2, QuietTypes DEF MapperTypeOK, Quiet, TakeLeg
<1>5. CASE LeaveTarget
  BY <1>5, QuietTypes DEF MapperTypeOK, Quiet, LeaveTarget
<1>6. CASE Walk
  <2>1. CASE EndWalk
    BY <2>1, QuietTypes DEF MapperTypeOK, Quiet, EndWalk
  <2>2. CASE \E n \in frontier : FindSorter(n)
    BY <2>2, QuietTypes DEF MapperTypeOK, Quiet, FindSorter, Pop
  <2>3. CASE \E n \in frontier : WalkOn(n)
    <3>1. PICK n \in frontier : WalkOn(n)
      BY <2>3
    <3>2. Upstream(n) \subseteq Names \cup Inserted
      BY FeedersAreNames DEF Upstream
    <3>3. QED BY <3>1, <3>2, QuietTypes DEF MapperTypeOK, Quiet, WalkOn, Pop
  <2>4. QED BY <1>6, <2>1, <2>2, <2>3 DEF Walk
<1>7. CASE SkipKeyless
  BY <1>7, QuietTypes DEF MapperTypeOK, Quiet, SkipKeyless
<1>8. CASE InsertSorter
  <2>1. PICK name : Inserts(name)
    BY <1>8, InsertSorterInserts
  <2>2. sorters' \in [Inserted' -> Keys] /\ Inserted' \subseteq SorterNames
    BY <1>8, InsertSorterInserts
  <2>3. Targets' = Targets
    BY <2>1, InsertsKeepsTypes
  <2>4. /\ mapping' = mapping
        /\ hops' \in Seq(Hop(Names \cup Inserted'))
        /\ Inserted \subseteq Inserted'
    BY <2>1 DEF Inserts
  <2>5. /\ pass' = pass /\ todo' = todo /\ target' = target /\ leg' = leg
        /\ frontier' = frontier /\ seen' = seen /\ stage' = "legs"
    BY <1>8 DEF InsertSorter
  <2>6. QED BY <2>2, <2>3, <2>4, <2>5 DEF MapperTypeOK
<1>9. CASE EndPass
  BY <1>9, QuietTypes DEF MapperTypeOK, Quiet, EndPass
<1>10. QED
  BY <1>1, <1>2, <1>3, <1>4, <1>5, <1>6, <1>7, <1>8, <1>9 DEF MapperNext

-----------------------------------------------------------------------------
(* The hop list keeps its shape.                                           *)
LEMMA InsertsKeepsSides ==
  ASSUME MapperTypeOK, NEW name, Inserts(name),
         NEW k \in DOMAIN hops
  PROVE  Side(k)' = Side(k)
<1>1. hops'[k].to = hops[k].to /\ mapping' = mapping
  BY DEF Inserts
<1>2. hops[k].to # name
  BY InsertsKeepsLegs
<1>3. Legs(hops[k].to)' = Legs(hops[k].to)
  <2>1. hops'[k].to # name
    BY <1>1, <1>2
  <2>2. \A s : s # name => {j \in DOMAIN hops' : hops'[j].to = s} = Legs(s)
    BY InsertsKeepsLegs DEF Legs
  <2>3. QED BY <1>1, <2>1, <2>2 DEF Legs
<1>4. IsFirstLeg(k)' <=> IsFirstLeg(k)
  BY <1>1, <1>3 DEF IsFirstLeg
<1>5. QED BY <1>1, <1>4 DEF Side

LEMMA InsertedShape ==
  ASSUME MapperTypeOK, Shape, Place, Walking, InsertSorter
  PROVE  Shape'
<1>1. PICK name : Inserts(name)
  BY InsertSorterInserts
<1>2. /\ leg \in DOMAIN hops /\ hops[leg].to = target /\ target \in Targets
      /\ hops[leg].from \notin Inserted /\ hops[leg].from \in Names
  BY BareLegIsParsed DEF InsertSorter
<1>3. leg \in DOMAIN mapping.hops
  BY <1>2, SortersApart DEF Shape, Targets
<1>4. /\ mapping' = mapping /\ Inserted' = Inserted \cup {name} /\ Targets' = Targets
      /\ name \notin Inserted /\ name \notin Names
  BY <1>1, InsertsKeepsTypes DEF Inserts
<1>5. DOMAIN mapping.hops = 1..Len(mapping.hops) /\ Len(mapping.hops) \in Nat
  BY MappingTypes DEF MapperTypeOK
<1>6. /\ DOMAIN hops' = 1..(Len(hops) + 1) /\ DOMAIN hops = 1..Len(hops)
      /\ Len(hops) \in Nat /\ Len(hops') = Len(hops) + 1
  BY <1>1 DEF Inserts
<1>7. \A k \in DOMAIN hops : /\ hops'[k].to = hops[k].to
                             /\ hops'[k].from = IF k = leg THEN name ELSE hops[k].from
  BY <1>1 DEF Inserts
<1>8. hops'[Len(hops) + 1].from = hops[leg].from /\ hops'[Len(hops) + 1].to = name
  BY <1>1 DEF Inserts
<1>9. \A k \in DOMAIN hops : hops[k].from # name
  BY <1>4, HopTypes
<1>10. Len(hops') >= Len(mapping'.hops)
  BY <1>4, <1>5, <1>6 DEF Shape
<1>11. \A k \in DOMAIN mapping'.hops :
         /\ hops'[k].to = mapping'.hops[k].to
         /\ hops'[k].from \notin Inserted' => hops'[k].from = mapping'.hops[k].from
  <2> SUFFICES ASSUME NEW k \in DOMAIN mapping.hops
               PROVE  /\ hops'[k].to = mapping.hops[k].to
                      /\ hops'[k].from \notin Inserted' => hops'[k].from = mapping.hops[k].from
    BY <1>4
  <2>1. k \in DOMAIN hops
    BY <1>5, <1>6 DEF Shape
  <2>2. QED BY <2>1, <1>4, <1>7 DEF Shape
<1>12. \A k \in DOMAIN hops' \ DOMAIN mapping'.hops :
         hops'[k].to \in Inserted' /\ hops'[k].from \notin Inserted'
  <2> SUFFICES ASSUME NEW k \in DOMAIN hops' \ DOMAIN mapping.hops
               PROVE  hops'[k].to \in Inserted' /\ hops'[k].from \notin Inserted'
    BY <1>4
  <2>1. CASE k = Len(hops) + 1
    BY <2>1, <1>2, <1>4, <1>8
  <2>2. CASE k \in DOMAIN hops
    <3>1. k # leg /\ hops[k].to \in Inserted /\ hops[k].from \notin Inserted
      BY <2>2, <1>3 DEF Shape
    <3>2. QED BY <3>1, <2>2, <1>4, <1>7, <1>9
  <2>3. QED BY <2>1, <2>2, <1>6
<1>13. \A k \in DOMAIN hops' :
         hops'[k].from \in Inserted' =>
           /\ k \in DOMAIN mapping'.hops
           /\ hops'[k].from[2] = k
           /\ hops'[k].to \in Targets'
           /\ sorters'[hops'[k].from] = Side(k)'
           /\ Feeders(hops[k].from)' = {mapping'.hops[k].from}
  <2> SUFFICES ASSUME NEW k \in DOMAIN hops', hops'[k].from \in Inserted'
               PROVE  /\ k \in DOMAIN mapping.hops
                      /\ hops'[k].from[2] = k
                      /\ hops'[k].to \in Targets
                      /\ sorters'[hops'[k].from] = Side(k)'
                      /\ \A n : n = hops'[k].from => Feeders(n)' = {mapping.hops[k].from}
    BY <1>4 DEF Feeders, Legs
  <2>1. k \in DOMAIN hops
    BY <1>2, <1>4, <1>6, <1>8
  <2>2. Side(k)' = Side(k)
    BY <1>1, <2>1, InsertsKeepsSides
  <2>3. CASE k = leg
    <3>1. hops'[k].from = name /\ hops'[k].to = target /\ name[2] = leg
      BY <1>1, <1>2, <1>7, <2>3 DEF Inserts
    <3>2. sorters'[name] = Side(k)
      BY <1>1, <1>2, <2>3 DEF Inserts, Side, SortKeysFor
    <3>3. Feeders(name)' = {mapping.hops[leg].from}
      BY <1>1, <1>2, <1>3, InsertsKeepsLegs DEF Shape
    <3>4. QED BY <3>1, <3>2, <3>3, <2>2, <2>3, <1>2, <1>3
  <2>4. CASE k # leg
    <3>1. hops'[k].from = hops[k].from /\ hops'[k].to = hops[k].to
      BY <1>7, <2>1, <2>4
    <3>2. hops[k].from \in Inserted
      BY <3>1, <2>1, <1>4, <1>9
    <3>3. /\ k \in DOMAIN mapping.hops /\ hops[k].from[2] = k /\ hops[k].to \in Targets
          /\ sorters[hops[k].from] = Side(k)
          /\ Feeders(hops[k].from) = {mapping.hops[k].from}
      BY <3>2, <2>1 DEF Shape
    <3>4. sorters'[hops[k].from] = sorters[hops[k].from]
      BY <3>2, <1>1 DEF Inserts
    <3>5. \A n : n = hops[k].from => Feeders(n)' = Feeders(n)
      <4> SUFFICES ASSUME NEW n, n = hops[k].from PROVE Feeders(n)' = Feeders(n)
        OBVIOUS
      <4>1. n # name /\ n # target
        BY <3>2, <1>2, <1>4, SortersApart DEF Targets
      <4>2. leg \in Legs(target)
        BY <1>2 DEF Legs
      <4>3. QED BY <4>1, <4>2, <1>1, InsertsKeepsFeeders
    <3>6. QED BY <3>1, <3>3, <3>4, <3>5, <2>2
  <2>5. QED BY <2>3, <2>4
<1>14. QED BY <1>10, <1>11, <1>12, <1>13 DEF Shape

LEMMA QuietOrInserts ==
  ASSUME [MapperNext]_mapperVars
  PROVE  Quiet \/ InsertSorter
BY DEF MapperNext, Quiet, Walk, StartPass, TakeTarget, TakeLeg, LeaveTarget, EndWalk,
       FindSorter, WalkOn, Pop, SkipKeyless, EndPass

LEMMA ShapeStep ==
  ASSUME MapperTypeOK, Shape, Place, Walking, [MapperNext]_mapperVars
  PROVE  Shape'
BY QuietOrInserts, QuietShape, InsertedShape

-----------------------------------------------------------------------------
LEMMA PlaceStep ==
  ASSUME MapperTypeOK, Place, [MapperNext]_mapperVars
  PROVE  Place'
<1>1. CASE Quiet
  <2>1. Targets' = Targets /\ (\A s : Legs(s)' = Legs(s)) /\ NoStep \notin Targets
    BY <1>1, QuietKeeps, SortersApart
  <2>2. /\ target' = target => Legs(target)' = Legs(target)
        /\ \A s : target' = s => Legs(target)' = Legs(s)
    BY <1>1 DEF Quiet, Legs
  <2>3. CASE UNCHANGED mapperVars
    BY <2>1, <2>2, <2>3 DEF Place
  <2>4. CASE StartPass
    BY <2>1, <2>4 DEF Place, StartPass, MapperTypeOK
  <2>5. CASE \E s \in todo : TakeTarget(s)
    BY <2>1, <2>5 DEF Place, TakeTarget, MapperTypeOK
  <2>6. CASE \E k \in DOMAIN hops : TakeLeg(k)
    BY <2>1, <2>2, <2>6 DEF Place, TakeLeg
  <2>7. CASE LeaveTarget
    BY <2>1, <2>7 DEF Place, LeaveTarget
  <2>8. CASE Walk
    BY <2>1, <2>2, <2>8 DEF Place, Walk, EndWalk, FindSorter, WalkOn, Pop
  <2>9. CASE SkipKeyless
    BY <2>1, <2>2, <2>9 DEF Place, SkipKeyless
  <2>10. CASE EndPass
    BY <2>1, <2>10 DEF Place, EndPass
  <2>11. CASE InsertSorter
    <3>1. Inserted' # Inserted
      BY <2>11, InsertSorterInserts DEF Inserts
    <3>2. QED BY <3>1, <1>1, QuietKeeps
  <2>12. QED
    BY <2>3, <2>4, <2>5, <2>6, <2>7, <2>8, <2>9, <2>10, <2>11 DEF MapperNext
<1>2. CASE InsertSorter
  <2>1. PICK name : Inserts(name)
    BY <1>2, InsertSorterInserts
  <2>2. target \in Targets \ todo /\ leg \in Legs(target) /\ pass # 0
    BY <1>2 DEF Place, InsertSorter
  <2>3. target # name
    BY <2>1, <2>2, SortersApart DEF Inserts, Targets, Names
  <2>4. Legs(target)' = Legs(target)
    <3>1. \A s : s # name => {k \in DOMAIN hops' : hops'[k].to = s} = Legs(s)
      BY <2>1, InsertsKeepsLegs DEF Legs
    <3>2. target' = target
      BY <1>2 DEF InsertSorter
    <3>3. QED BY <3>1, <3>2, <2>3 DEF Legs
  <2>5. Targets' = Targets
    BY <2>1, InsertsKeepsTypes
  <2>6. QED BY <1>2, <2>2, <2>4, <2>5 DEF Place, InsertSorter
<1>3. QED BY <1>1, <1>2, QuietOrInserts

-----------------------------------------------------------------------------
(* The walk.                                                               *)
LEMMA WalkingStep ==
  ASSUME MapperTypeOK, Place, Walking, [MapperNext]_mapperVars
  PROVE  Walking'
<1>1. CASE InsertSorter
  BY <1>1 DEF Walking, InsertSorter
<1>2. CASE Quiet
  <2>1. /\ Inserted' = Inserted
        /\ \A n : TypeOf(n)' = TypeOf(n)
        /\ \A n : Upstream(n)' = Upstream(n)
        /\ \A S : \A n : Shows(S, n)' <=> Shows(S, n)
    BY <1>2, QuietKeeps
  <2>2. mapping' = mapping /\ hops' = hops /\ sorters' = sorters
    BY <1>2 DEF Quiet
  <2>3. \A S : \A n : Shows(S, n) <=> n \in S /\ IsClosed(S)' /\ NoSorterIn(S)'
    BY <2>1 DEF Shows
  <2>4. CASE UNCHANGED mapperVars
    BY <2>1, <2>2, <2>3, <2>4 DEF Walking, Shows
  <2>5. CASE \E k \in DOMAIN hops : TakeLeg(k)
    BY <2>1, <2>2, <2>3, <2>5 DEF Walking, TakeLeg, Shows
  <2>6. CASE EndWalk
    BY <2>1, <2>2, <2>6 DEF Walking, EndWalk
  <2>7. CASE \E n \in frontier : WalkOn(n)
    <3>1. PICK n \in frontier : WalkOn(n)
      BY <2>7
    <3>2. /\ stage = "walk" /\ stage' = "walk" /\ leg' = leg
          /\ seen' = seen \cup {n}
          /\ frontier' = (frontier \cup Upstream(n)) \ seen'
          /\ TypeOf(n) # "SortRows"
      BY <3>1 DEF WalkOn, Pop
    <3>3. seen' \cup frontier' = seen \cup frontier \cup Upstream(n)
      BY <3>2
    <3>4. hops'[leg'].from \in seen' \cup frontier'
      BY <3>2, <3>3, <2>2 DEF Walking
    <3>5. \A m \in seen' : /\ TypeOf(m) # "SortRows"
                           /\ Upstream(m) \subseteq seen' \cup frontier'
      BY <3>2, <3>3 DEF Walking
    <3>6. ASSUME NEW S \in SUBSET (Names \cup Inserted), Shows(S, hops[leg].from)
          PROVE  frontier' \subseteq S
      <4>1. frontier \subseteq S /\ n \in S
        BY <3>1, <3>2, <3>6 DEF Walking
      <4>2. Upstream(n) \subseteq S
        <5>1. CASE n \in Steps
          <6>1. TypeOf(n) = mapping.type[n]
            BY <5>1, TypesOfNames
          <6>2. QED BY <6>1, <5>1, <4>1, <3>6 DEF Upstream, Shows, IsClosed
        <5>2. CASE n \notin Steps
          <6>1. TypeOf(n) = "None"
            BY <5>2, <3>2, TypesOfNames
          <6>2. QED BY <6>1 DEF Upstream
        <5>3. QED BY <5>1, <5>2
      <4>3. QED BY <3>2, <4>1, <4>2
    <3>7. \A S \in SUBSET (Names \cup Inserted) :
            Shows(S, hops[leg].from) => frontier' \subseteq S
      BY <3>6
    <3>8. QED BY <3>2, <3>4, <3>5, <3>7, <2>1, <2>2, <2>3 DEF Walking, Shows
  <2>8. CASE StartPass \/ (\E s \in todo : TakeTarget(s)) \/ LeaveTarget
             \/ (\E n \in frontier : FindSorter(n)) \/ SkipKeyless \/ EndPass
    BY <2>8 DEF Walking, StartPass, TakeTarget, LeaveTarget, FindSorter, SkipKeyless, EndPass
  <2>9. QED BY <1>1, <2>4, <2>5, <2>6, <2>7, <2>8 DEF MapperNext, Walk
<1>3. QED BY <1>1, <1>2, QuietOrInserts

-----------------------------------------------------------------------------
(* The legs dealt with stay so.                                            *)
LEMMA QuietCovers ==
  ASSUME Quiet
  PROVE  \A s : \A k : Covered(s, k)' <=> Covered(s, k)
<1>1. mapping' = mapping /\ hops' = hops
  BY DEF Quiet
<1>2. \A n : IsBare(n)' <=> IsBare(n)
  BY QuietKeeps
<1>3. \A s : \A k : Covered(s, k)' <=> (s \in mapping.keyed => \A n : n = hops[k].from => ~IsBare(n)')
  BY <1>1 DEF Covered, IsBare, IsClosed, NoSorterIn, TypeOf, Feeders, Legs
<1>4. QED BY <1>2, <1>3 DEF Covered

LEMMA InsertsCovers ==
  ASSUME MapperTypeOK, Place, NEW name, Inserts(name), leg \in Legs(target), target \in Targets,
         NEW s, NEW k \in DOMAIN hops, Covered(s, k) \/ k = leg
  PROVE  Covered(s, k)'
<1>1. mapping' = mapping /\ hops'[k].from = IF k = leg THEN name ELSE hops[k].from
  BY DEF Inserts
<1>2. leg \in DOMAIN hops
  BY DEF Legs
<1>3. Covered(s, k)' <=> (s \in mapping.keyed => \A n : n = hops'[k].from => ~IsBare(n)')
  BY <1>1 DEF Covered, IsBare, IsClosed, NoSorterIn, TypeOf, Feeders, Legs
<1>4. CASE k = leg
  BY <1>1, <1>2, <1>3, <1>4, InsertedLegIsSorted
<1>5. CASE k # leg
  <2>1. \A n : IsBare(n)' => IsBare(n)
    BY InsertsBaresNothing
  <2>2. QED BY <1>1, <1>3, <1>5, <2>1 DEF Covered
<1>6. QED BY <1>4, <1>5

(* A sorter that the walk meets is in every set that could show the leg    *)
(* to be bare.                                                             *)
LEMMA FoundIsSorted ==
  ASSUME Walking, stage = "walk", NEW n \in frontier, TypeOf(n) = "SortRows"
  PROVE  ~IsBare(hops[leg].from)
<1>1. SUFFICES ASSUME IsBare(hops[leg].from) PROVE FALSE
  OBVIOUS
<1>2. PICK S \in SUBSET (Names \cup Inserted) : Shows(S, hops[leg].from)
  BY <1>1, BareIsShown
<1>3. n \in S
  BY <1>2 DEF Walking
<1>4. QED BY <1>2, <1>3 DEF Shows, NoSorterIn

LEMMA CoveringStep ==
  ASSUME MapperTypeOK, Place, Walking, Covering, [MapperNext]_mapperVars
  PROVE  Covering'
<1>1. \A s : \A k \in Legs(s) : k \in DOMAIN hops /\ k \in Nat /\ k # 0
  BY HopTypes DEF Legs
<1>2. NoStep \notin Targets /\ leg \in Nat /\ pass \in Nat
  BY SortersApart, MappingsAssumption DEF MapperTypeOK
<1>3. CASE Quiet
  <2>1. /\ Targets' = Targets /\ (\A s : Legs(s)' = Legs(s))
        /\ \A s : \A k : Covered(s, k)' <=> Covered(s, k)
    BY <1>3, QuietKeeps, QuietCovers
  <2>2. /\ Legs(target)' = Legs(target')
        /\ \A k : Covered(target, k)' <=> Covered(target', k)
    <3>1. Legs(target)' = Legs(target')
      BY <1>3 DEF Quiet, Legs
    <3>2. \A s : s = target' => \A k : Covered(target, k)' <=> Covered(s, k)'
      BY DEF Covered
    <3>3. QED BY <3>1, <3>2, <2>1
  <2>3. SUFFICES
          /\ pass' > 1 \/ (pass' = 1 /\ stage' = "idle")
               => \A s \in Targets : \A k \in Legs(s) : Covered(s, k)
          /\ pass' = 1 => \A s \in Targets \ todo' :
                            s # target' => \A k \in Legs(s) : Covered(s, k)
          /\ pass' = 1 /\ target' \in Targets
               => \A k \in Legs(target') :
                    k < leg' \/ (k = leg' /\ stage' = "legs") => Covered(target', k)
    BY <2>1, <2>2 DEF Covering
  <2>4. CASE UNCHANGED mapperVars
    BY <2>4 DEF Covering
  <2>5. CASE StartPass
    BY <1>2, <2>5 DEF Covering, Place, StartPass
  <2>6. CASE \E s \in todo : TakeTarget(s)
    BY <1>1, <1>2, <2>6 DEF Covering, Place, TakeTarget, MapperTypeOK
  <2>7. CASE \E k \in DOMAIN hops : TakeLeg(k)
    <3>1. PICK k \in DOMAIN hops : TakeLeg(k)
      BY <2>7
    <3>2. \A j \in Legs(target) : j < k => j <= leg
      BY <1>1, <1>2, <3>1, HopTypes DEF TakeLeg
    <3>3. /\ pass' = pass /\ target' = target /\ todo' = todo
          /\ leg' = k /\ stage = "legs" /\ stage' = "walk"
      BY <3>1 DEF TakeLeg
    <3>4. \A j \in Legs(target) : j < k => j < leg \/ j = leg
      BY <1>1, <1>2, <3>2
    <3>5. QED BY <3>3, <3>4 DEF Covering
  <2>8. CASE LeaveTarget
    <3>1. \A j \in Legs(target) : j < leg \/ j = leg
      BY <1>1, <1>2, <2>8 DEF LeaveTarget
    <3>2. /\ pass' = pass /\ target' = NoStep /\ todo' = todo
          /\ stage = "legs" /\ stage' = "targets"
      BY <2>8 DEF LeaveTarget
    <3>3. target \in Targets
      BY <3>2 DEF Place
    <3>4. pass = 1 => \A k \in Legs(target) : Covered(target, k)
      BY <3>1, <3>2, <3>3 DEF Covering
    <3>5. QED BY <1>2, <3>2, <3>4 DEF Covering
  <2>9. CASE EndWalk
    BY <2>9 DEF Covering, EndWalk
  <2>10. CASE \E n \in frontier : FindSorter(n)
    <3>1. PICK n \in frontier : FindSorter(n)
      BY <2>10
    <3>2. /\ stage = "walk" /\ TypeOf(n) = "SortRows" /\ stage' = "legs"
          /\ pass' = pass /\ target' = target /\ todo' = todo /\ leg' = leg
      BY <3>1 DEF FindSorter, Pop
    <3>3. ~IsBare(hops[leg].from)
      BY <3>1, <3>2, FoundIsSorted
    <3>4. Covered(target, leg)
      BY <3>3 DEF Covered
    <3>5. QED BY <3>2, <3>4 DEF Covering
  <2>11. CASE \E n \in frontier : WalkOn(n)
    BY <2>11 DEF Covering, WalkOn, Pop
  <2>12. CASE SkipKeyless
    <3>1. Covered(target, leg)
      BY <2>12 DEF SkipKeyless, Covered
    <3>2. QED BY <2>12, <3>1 DEF Covering, SkipKeyless
  <2>13. CASE EndPass
    BY <1>2, <2>13 DEF Covering, Place, EndPass
  <2>14. CASE InsertSorter
    <3>1. Inserted' # Inserted
      BY <2>14, InsertSorterInserts DEF Inserts
    <3>2. QED BY <3>1, <1>3, QuietKeeps
  <2>15. QED
    BY <2>4, <2>5, <2>6, <2>7, <2>8, <2>9, <2>10, <2>11, <2>12, <2>13, <2>14
       DEF MapperNext, Walk
<1>4. CASE InsertSorter
  <2>1. PICK name : Inserts(name)
    BY <1>4, InsertSorterInserts
  <2>2. target \in Targets /\ leg \in Legs(target)
    BY <1>4 DEF Place, InsertSorter
  <2>3. /\ pass' = pass /\ target' = target /\ todo' = todo /\ leg' = leg
        /\ stage = "bare" /\ stage' = "legs"
    BY <1>4 DEF InsertSorter
  <2>4. \A s : \A k \in DOMAIN hops : Covered(s, k) \/ k = leg => Covered(s, k)'
    BY <2>1, <2>2, InsertsCovers
  <2>5. Targets' = Targets
    BY <2>1, InsertsKeepsTypes
  <2>6. \A s \in Targets : Legs(s)' = Legs(s)
    <3>1. \A s \in Targets : s # name
      BY <2>1 DEF Inserts, Targets, Names
    <3>2. QED BY <3>1, <2>1, InsertsKeepsLegs
  <2>7. /\ \A s : s = target => Legs(target)' = Legs(s)'
        /\ \A s : s = target => \A k : Covered(target, k)' <=> Covered(s, k)'
    BY <2>3 DEF Legs, Covered
  <2>8. /\ Legs(target)' = Legs(target)
        /\ \A k \in Legs(target) : Covered(target, k) \/ k = leg => Covered(target, k)'
    BY <1>1, <2>2, <2>4, <2>6, <2>7
  <2>9. pass > 1 => \A s \in Targets : \A k \in Legs(s)' : Covered(s, k)'
    BY <1>1, <2>4, <2>6 DEF Covering
  <2>10. pass = 1 => \A s \in Targets \ todo :
                      s # target => \A k \in Legs(s)' : Covered(s, k)'
    BY <1>1, <2>4, <2>6 DEF Covering
  <2>11. pass = 1 => \A k \in Legs(target)' : k < leg \/ k = leg => Covered(target, k)'
    BY <2>2, <2>8 DEF Covering
  <2>12. QED BY <2>2, <2>3, <2>5, <2>9, <2>10, <2>11 DEF Covering
<1>5. QED BY <1>3, <1>4, QuietOrInserts

-----------------------------------------------------------------------------
LEMMA StepKeepsIInv == IInv /\ [MapperNext]_mapperVars => IInv'
BY TypeStep, ShapeStep, PlaceStep, WalkingStep, CoveringStep DEF IInv

LEMMA IInvHolds == MapperSpec => []IInv
BY Init_IInv, StepKeepsIInv, PTL DEF MapperSpec

-----------------------------------------------------------------------------
(* The types hold for every set of mappings and any number of passes.      *)
THEOREM MapperTypes == MapperSpec => []MapperTypeOK
<1>1. IInv => MapperTypeOK
  BY DEF IInv
<1>2. QED BY <1>1, IInvHolds, PTL

(* insert_required_sorters never drops, retargets, moves or swaps a parsed *)
(* hop: at worst one sorter, fed by the hop's own origin, stands in it.    *)
THEOREM LegsStay == MapperSpec => []LegsKept
<1>1. ASSUME IInv PROVE LegsKept
  <2>1. MapperTypeOK /\ Shape
    BY <1>1 DEF IInv
  <2>2. DOMAIN mapping.hops \subseteq DOMAIN hops
    <3>1. DOMAIN mapping.hops = 1..Len(mapping.hops) /\ Len(mapping.hops) \in Nat
      BY <2>1, MappingTypes DEF MapperTypeOK
    <3>2. DOMAIN hops = 1..Len(hops) /\ Len(hops) \in Nat
      BY <2>1, HopTypes
    <3>3. QED BY <2>1, <3>1, <3>2 DEF Shape
  <2>3. QED BY <2>1, <2>2 DEF Shape, LegsKept
<1>2. QED BY <1>1, IInvHolds, PTL

(* A sorter's keys are those of the side it feeds, and it feeds one hop:   *)
(* sort_keys_for reads the side off the leg's place, and no later          *)
(* insertion changes which leg comes first.                                *)
THEOREM KeysFit == MapperSpec => []KeysFitLegs
<1>1. ASSUME IInv PROVE KeysFitLegs
  <2>1. MapperTypeOK /\ Shape
    BY <1>1 DEF IInv
  <2>2. SUFFICES ASSUME NEW k \in DOMAIN hops, hops[k].from \in Inserted
                 PROVE  /\ sorters[hops[k].from] =
                             IF TypeOf(hops[k].to) = "MergeJoin"
                             THEN IF IsFirstLeg(k) THEN "left" ELSE "right"
                             ELSE "group"
                        /\ \A j \in DOMAIN hops : hops[j].from = hops[k].from => j = k
    BY DEF KeysFitLegs
  <2>3. /\ hops[k].from[2] = k /\ hops[k].to \in Targets
        /\ sorters[hops[k].from] = Side(k)
    BY <2>1, <2>2 DEF Shape
  <2>4. TypeOf(hops[k].to) = mapping.type[hops[k].to]
    BY <2>1, <2>3, TypesOfNames
  <2>5. \A j \in DOMAIN hops : hops[j].from = hops[k].from => j = k
    <3>1. \A j \in DOMAIN hops : hops[j].from \in Inserted => hops[j].from[2] = j
      BY <2>1 DEF Shape
    <3>2. QED BY <2>2, <2>3, <3>1
  <2>6. QED BY <2>3, <2>4, <2>5 DEF Side
<1>2. QED BY <1>1, IInvHolds, PTL

-----------------------------------------------------------------------------
(* When nothing waits any more, the names seen show the leg to be bare.    *)
LEMMA SeenShowsBare ==
  ASSUME MapperTypeOK, Walking, stage \in {"walk", "bare"}, frontier = {}
  PROVE  IsBare(hops[leg].from)
<1>1. hops[leg].from \in seen /\ NoSorterIn(seen)
  BY DEF Walking, NoSorterIn
<1>2. ASSUME NEW n \in seen \cap Steps, mapping.type[n] \notin SortRequired
      PROVE  Feeders(n) \subseteq seen
  <2>1. TypeOf(n) = mapping.type[n] /\ TypeOf(n) # "None"
    BY <1>2, TypesOfNames
  <2>2. Upstream(n) \subseteq seen
    BY DEF Walking
  <2>3. QED BY <2>1, <2>2, <1>2 DEF Upstream
<1>3. IsClosed(seen)
  BY <1>2 DEF IsClosed
<1>4. seen \in SUBSET (Names \cup Inserted)
  BY DEF MapperTypeOK
<1>5. QED BY <1>1, <1>3, <1>4 DEF IsBare

(* leg_has_sorter answers right, however the mapping loops or dangles.     *)
THEOREM WalkAnswers == MapperSpec => WalkIsRight
<1>1. ASSUME IInv, [MapperNext]_mapperVars
      PROVE  stage = "walk" /\ stage' # "walk"
               => (stage' = "bare" <=> IsBare(hops[leg].from))
  <2>1. SUFFICES ASSUME stage = "walk", stage' # "walk"
                 PROVE  stage' = "bare" <=> IsBare(hops[leg].from)
    OBVIOUS
  <2>2. CASE EndWalk
    <3>1. frontier = {} /\ stage' = "bare"
      BY <2>2 DEF EndWalk
    <3>2. QED BY <1>1, <2>1, <3>1, SeenShowsBare DEF IInv
  <2>3. CASE \E n \in frontier : FindSorter(n)
    <3>1. PICK n \in frontier : TypeOf(n) = "SortRows" /\ stage' = "legs"
      BY <2>3 DEF FindSorter
    <3>2. QED BY <1>1, <2>1, <3>1, FoundIsSorted DEF IInv
  <2>4. QED
    BY <1>1, <2>1, <2>2, <2>3
       DEF MapperNext, Walk, WalkOn, Pop, StartPass, TakeTarget, TakeLeg, LeaveTarget,
           SkipKeyless, InsertSorter, EndPass
<1>2. QED BY <1>1, IInvHolds, PTL DEF MapperSpec, WalkIsRight

(* After a pass every leg of every step whose keys are known is sorted:    *)
(* an insertion for one target bares no leg of another, though it changes  *)
(* the hops the walks run over.                                            *)
THEOREM OnlyKeylessAreBare == MapperSpec => []OnlyKeylessLegsAreBare
<1>1. ASSUME IInv PROVE OnlyKeylessLegsAreBare
  <2>1. SUFFICES ASSUME stage = "idle", pass > 0,
                        NEW s \in Targets \cap mapping.keyed, NEW n \in Feeders(s)
                 PROVE  ~IsBare(n)
    BY DEF OnlyKeylessLegsAreBare
  <2>2. PICK k \in Legs(s) : n = hops[k].from
    BY DEF Feeders
  <2>3. pass > 1 \/ pass = 1
    BY <1>1, <2>1, MappingsAssumption DEF IInv, MapperTypeOK
  <2>4. Covered(s, k)
    BY <1>1, <2>1, <2>3 DEF IInv, Covering
  <2>5. QED BY <2>2, <2>4 DEF Covered
<1>2. QED BY <1>1, IInvHolds, PTL

(* Only the first pass inserts sorters: apply is idempotent.               *)
THEOREM OnePassSuffices == MapperSpec => OnePassIsEnough
<1>1. ASSUME IInv, [MapperNext]_mapperVars, sorters' # sorters PROVE pass = 1
  <2>1. InsertSorter
    BY <1>1, QuietOrInserts DEF Quiet
  <2>2. stage = "bare" /\ target \in mapping.keyed /\ frontier = {}
    BY <1>1, <2>1 DEF InsertSorter, IInv, Walking
  <2>3. IsBare(hops[leg].from)
    BY <1>1, <2>2, SeenShowsBare DEF IInv
  <2>4. target \in Targets /\ leg \in Legs(target) /\ pass # 0
    BY <1>1, <2>2 DEF IInv, Place
  <2>5. ~(pass > 1)
    BY <1>1, <2>2, <2>3, <2>4 DEF IInv, Covering, Covered
  <2>6. QED BY <1>1, <2>4, <2>5, MappingsAssumption DEF IInv, MapperTypeOK
<1>2. QED BY <1>1, IInvHolds, PTL DEF MapperSpec, OnePassIsEnough

(* The three together, for mappings of any size.                           *)
THEOREM LegsServed == MapperSpec => []LegsAreServed
<1>1. LegsKept /\ KeysFitLegs /\ OnlyKeylessLegsAreBare => LegsAreServed
  BY DEF LegsAreServed
<1>2. QED BY <1>1, LegsStay, KeysFit, OnlyKeylessAreBare, PTL

-----------------------------------------------------------------------------
(* The jobs of Talend: chains of calls.                                    *)
USE DEF linkVars

(* The components a call leads to with no other call on the way, itself    *)
(* among them when it does.                                                *)
Beyond(c) == {b \in Components : \E l \in CallerLinks : l.from = c /\ Past(l, b)}

HasHop(a, b) == \E h \in jobHops : h.from = a /\ h.to = b

(* Every hop from a call stands for a chain and carries the kind of the    *)
(* chain's first link.                                                     *)
HopsStandForChains ==
  \A h \in jobHops :
    /\ h.to \in caller.calls
    /\ h.from # Start =>
         /\ h.from \in caller.calls
         /\ \E l \in CallerLinks : /\ l.from = h.from /\ Past(l, h.to)
                                   /\ h.condition = Condition(l.kind)

(* The frontier of the call at hand: what is open was reached over a chain *)
(* that bears its label, and what is reached and not open has been left.   *)
Frontier ==
  linkStage = "follow" =>
    /\ source \in caller.calls \ waiting
    /\ source \in reached
    /\ \A f \in open :
         IF f.label = "none" THEN f.at = source
         ELSE /\ f.at \notin caller.calls
              /\ \E l \in CallerLinks : /\ l.from = source /\ Past(l, f.at)
                                        /\ l.kind = f.label
    /\ \A x \in reached :
         x = source \/ x \notin caller.calls =>
           \/ \E f \in open : f.at = x
           \/ \A l \in CallerLinks : l.from = x => l.to \in reached
    /\ \A x \in reached \cap caller.calls : x # source => HasHop(source, x)

(* A call that was left has its hops.                                      *)
Collected ==
  \A c \in caller.calls \ waiting :
    c = source \/ \A x \in Beyond(c) \cap caller.calls : x # c => HasHop(c, x)

Ending ==
  /\ linkStage # "follow" => source = Start
  /\ linkStage = "linked" => waiting = {} /\ caller.calls \subseteq LinkedTo

LinkInv == LinkTypeOK /\ HopsStandForChains /\ Frontier /\ Collected /\ Ending

-----------------------------------------------------------------------------
(* A set of numbers has a least one.                                       *)
LEMMA LeastOfNumbers ==
  ASSUME NEW S \in SUBSET Nat, S # {}
  PROVE  \E m \in S : \A n \in S : m <= n
<1> DEFINE T == {1..n : n \in S}
<1>1. T \subseteq FiniteSubsetsOf(Nat) /\ T # {}
  <2>1. ASSUME NEW n \in S PROVE 1..n \in SUBSET Nat /\ IsFiniteSet(1..n)
    BY FS_Interval
  <2>2. QED BY <2>1 DEF FiniteSubsetsOf
<1>2. IsWellFoundedOn(StrictSubsetOrdering(Nat), FiniteSubsetsOf(Nat))
  BY FS_StrictSubsetOrderingWellFounded
<1>3. PICK X \in T : \A Y \in T : <<Y, X>> \notin StrictSubsetOrdering(Nat)
  <2> HIDE DEF T
  <2>1. QED BY <1>1, <1>2, WFMin
<1>4. PICK m \in S : X = 1..m
  OBVIOUS
<1>5. ASSUME NEW n \in S, n < m PROVE FALSE
  <2>1. 1..n \in SUBSET Nat /\ 1..m \in SUBSET Nat /\ 1..n \subseteq 1..m
    BY <1>5
  <2>2. m \in 1..m /\ m \notin 1..n
    BY <1>5
  <2>3. <<1..n, X>> \in StrictSubsetOrdering(Nat)
    BY <1>4, <2>1, <2>2 DEF StrictSubsetOrdering
  <2>4. 1..n \in T
    OBVIOUS
  <2>5. QED BY <1>3, <2>3, <2>4
<1>6. \A n \in S : m <= n
  BY <1>5
<1>7. QED BY <1>6

LEMMA LinksOfCaller ==
  ASSUME LinkTypeOK
  PROVE  /\ caller.calls \subseteq Components
         /\ Start \notin Components
         /\ Len(caller.links) \in Nat
         /\ DOMAIN caller.links = 1..Len(caller.links)
         /\ CallerLinks \subseteq Links
<1>1. caller.calls \subseteq Components /\ caller.links \in Seq(Links)
  BY CallersAssumption DEF LinkTypeOK
<1>2. QED
  BY <1>1, CallersAssumption, LenProperties, ElementOfSeq DEF CallerLinks

(* The first link between two components is a link between them.           *)
LEMMA KindIsOfALink ==
  ASSUME LinkTypeOK, NEW a, NEW b, LinksBetween(a, b) # {}
  PROVE  \E l \in CallerLinks : l.from = a /\ l.to = b /\ l.kind = KindOf(a, b)
<1>1. LinksBetween(a, b) \in SUBSET Nat
  BY LinksOfCaller DEF LinksBetween
<1>2. \E i \in LinksBetween(a, b) : \A j \in LinksBetween(a, b) : i <= j
  BY <1>1, LeastOfNumbers
<1> DEFINE first == CHOOSE i \in LinksBetween(a, b) : \A j \in LinksBetween(a, b) : i <= j
<1>3. first \in LinksBetween(a, b)
  BY <1>2
<1>4. KindOf(a, b) = caller.links[first].kind
  BY DEF KindOf
<1>5. caller.links[first] \in CallerLinks
  BY <1>3 DEF LinksBetween, CallerLinks
<1>6. QED BY <1>3, <1>4, <1>5 DEF LinksBetween

LEMMA LinkIsBetween ==
  ASSUME NEW l \in CallerLinks
  PROVE  LinksBetween(l.from, l.to) # {}
BY DEF CallerLinks, LinksBetween

-----------------------------------------------------------------------------
(* What Reaches means: an edge away, along one more edge, and transitive.  *)
LEMMA EdgeReaches ==
  ASSUME NEW edges, NEW e \in edges
  PROVE  Reaches(edges, e.from, e.to)
BY DEF Reaches

LEMMA ReachesOn ==
  ASSUME NEW edges, NEW a, NEW e \in edges, Reaches(edges, a, e.from)
  PROVE  Reaches(edges, a, e.to)
BY DEF Reaches

LEMMA ReachesThrough ==
  ASSUME NEW edges, NEW a, NEW b, NEW c, Reaches(edges, a, b), Reaches(edges, b, c)
  PROVE  Reaches(edges, a, c)
<1>1. ASSUME NEW S \in SUBSET (Components \cup {Start}),
             \A e \in edges : e.from = a \/ e.from \in S => e.to \in S
      PROVE  c \in S
  <2>1. b \in S
    BY <1>1 DEF Reaches
  <2>2. \A e \in edges : e.from = b \/ e.from \in S => e.to \in S
    BY <1>1, <2>1
  <2>3. QED BY <2>2 DEF Reaches
<1>2. QED BY <1>1 DEF Reaches

(* More edges reach no less.                                               *)
LEMMA ReachesMore ==
  ASSUME NEW edges, NEW more, edges \subseteq more, NEW a, NEW b, Reaches(edges, a, b)
  PROVE  Reaches(more, a, b)
BY DEF Reaches

(* What lies past a link is reached from where the link begins.            *)
LEMMA PastIsReached ==
  ASSUME NEW l \in CallerLinks, NEW b, Past(l, b)
  PROVE  Reaches(CallerLinks, l.from, b)
<1>1. Reaches(CallerLinks, l.from, l.to)
  BY EdgeReaches
<1>2. CASE l.to = b
  BY <1>1, <1>2
<1>3. CASE Reaches({k \in CallerLinks : k.from \notin caller.calls}, l.to, b)
  <2>1. Reaches(CallerLinks, l.to, b)
    BY <1>3, ReachesMore
  <2>2. QED BY <1>1, <2>1, ReachesThrough
<1>4. QED BY <1>2, <1>3 DEF Past

(* One more link past a component that is no call.                         *)
LEMMA PastOn ==
  ASSUME NEW l \in CallerLinks, NEW k \in CallerLinks, Past(l, k.from),
         k.from \notin caller.calls
  PROVE  Past(l, k.to)
<1> DEFINE between == {j \in CallerLinks : j.from \notin caller.calls}
<1>1. k \in between
  OBVIOUS
<1>2. CASE l.to = k.from
  <2>1. Reaches(between, l.to, k.to)
    BY <1>1, <1>2, EdgeReaches
  <2>2. QED BY <1>2, <2>1 DEF Past
<1>3. CASE l.to \notin caller.calls /\ Reaches(between, l.to, k.from)
  <2>1. Reaches(between, l.to, k.to)
    BY <1>1, <1>3, ReachesOn
  <2>2. QED BY <1>3, <2>1 DEF Past
<1>4. QED BY <1>2, <1>3 DEF Past

(* What lies beyond a call is in every set that holds where its links lead *)
(* and is closed under the links of what is no call.                       *)
LEMMA BeyondIsLeast ==
  ASSUME NEW c, NEW S \in SUBSET Components,
         \A l \in CallerLinks : l.from = c => l.to \in S,
         \A l \in CallerLinks : l.from \in S /\ l.from \notin caller.calls => l.to \in S
  PROVE  Beyond(c) \subseteq S
<1>1. ASSUME NEW l \in CallerLinks, l.from = c, NEW b, Past(l, b) PROVE b \in S
  <2>1. l.to \in S
    BY <1>1
  <2>2. CASE Reaches({k \in CallerLinks : k.from \notin caller.calls}, l.to, b)
    <3>1. S \in SUBSET (Components \cup {Start})
      OBVIOUS
    <3>2. \A e \in {k \in CallerLinks : k.from \notin caller.calls} :
            e.from = l.to \/ e.from \in S => e.to \in S
      BY <2>1
    <3>3. QED BY <2>2, <3>1, <3>2 DEF Reaches
  <2>3. QED BY <1>1, <2>1, <2>2 DEF Past
<1>2. QED BY <1>1 DEF Beyond

LEMMA BeyondIsClosed ==
  ASSUME LinkTypeOK, NEW c, NEW l \in CallerLinks
  PROVE  /\ l.from = c => l.to \in Beyond(c)
         /\ l.from \in Beyond(c) /\ l.from \notin caller.calls => l.to \in Beyond(c)
<1>1. l.to \in Components
  BY LinksOfCaller DEF Links
<1>2. l.from = c => l.to \in Beyond(c)
  BY <1>1 DEF Beyond, Past
<1>3. ASSUME l.from \in Beyond(c), l.from \notin caller.calls PROVE l.to \in Beyond(c)
  <2>1. PICK k \in CallerLinks : k.from = c /\ Past(k, l.from)
    BY <1>3 DEF Beyond
  <2>2. Past(k, l.to)
    BY <1>3, <2>1, PastOn
  <2>3. QED BY <1>1, <2>1, <2>2 DEF Beyond
<1>4. QED BY <1>2, <1>3

-----------------------------------------------------------------------------
(* What is said of the source job does not change while the job is made.   *)
LEMMA CallerStays ==
  ASSUME caller' = caller
  PROVE  /\ CallerLinks' = CallerLinks
         /\ \A l, b : Past(l, b)' <=> Past(l, b)
         /\ \A c : Beyond(c)' = Beyond(c)
<1>1. CallerLinks' = CallerLinks
  BY DEF CallerLinks
<1>2. \A l, b : Past(l, b)' <=> Past(l, b)
  BY <1>1 DEF Past, Reaches
<1>3. QED BY <1>1, <1>2 DEF Beyond

LEMMA HopsStay ==
  ASSUME jobHops' = jobHops
  PROVE  LinkedTo' = LinkedTo /\ \A a, b : HasHop(a, b)' <=> HasHop(a, b)
BY DEF LinkedTo, HasHop

LEMMA HopsGrow ==
  ASSUME jobHops \subseteq jobHops'
  PROVE  \A a, b : HasHop(a, b) => HasHop(a, b)'
BY DEF HasHop

LEMMA Init_LinkInv == LinkInit => LinkInv
<1> SUFFICES ASSUME LinkInit PROVE LinkInv
  OBVIOUS
<1>1. LinkTypeOK
  BY DEF LinkInit, LinkTypeOK
<1>2. HopsStandForChains /\ Frontier /\ Collected /\ Ending
  BY DEF LinkInit, HopsStandForChains, Frontier, Collected, Ending
<1>3. QED BY <1>1, <1>2 DEF LinkInv

LEMMA TakeCallStep ==
  ASSUME LinkInv, NEW c \in waiting, TakeCall(c)
  PROVE  LinkInv'
<1>1. /\ caller' = caller /\ jobHops' = jobHops /\ linkStage = "calls"
      /\ waiting' = waiting \ {c} /\ source' = c /\ reached' = {c}
      /\ open' = {[at |-> c, label |-> "none"]} /\ linkStage' = "follow"
      /\ c \in caller.calls /\ c \in Components /\ source = Start
  BY LinksOfCaller DEF TakeCall, LinkInv, LinkTypeOK, Ending
<1>2. LinkTypeOK'
  BY <1>1 DEF LinkInv, LinkTypeOK
<1>3. HopsStandForChains'
  BY <1>1, CallerStays DEF LinkInv, HopsStandForChains
<1>4. Frontier'
  BY <1>1 DEF Frontier
<1>5. Collected'
  <2>1. SUFFICES ASSUME NEW d \in caller.calls \ waiting, d # c,
                        NEW x \in Beyond(d) \cap caller.calls, x # d
                 PROVE  HasHop(d, x)
    BY <1>1, CallerStays, HopsStay DEF Collected
  <2>2. d # source
    BY <1>1, LinksOfCaller DEF LinkInv
  <2>3. QED BY <2>1, <2>2 DEF LinkInv, Collected
<1>6. Ending'
  BY <1>1 DEF Ending
<1>7. QED BY <1>2, <1>3, <1>4, <1>5, <1>6 DEF LinkInv

(* What a pop of the frontier finds: each new component lies past a link   *)
(* of the call at hand, and its label is the kind of such a link.          *)
LEMMA FollowFinds ==
  ASSUME LinkInv, linkStage = "follow", NEW f \in open,
         NEW d \in Components, LinksBetween(f.at, d) # {}
  PROVE  /\ Label(f, d) \in Kinds
         /\ \E l \in CallerLinks : l.from = source /\ Past(l, d) /\ l.kind = Label(f, d)
<1>1. PICK k \in CallerLinks : k.from = f.at /\ k.to = d /\ k.kind = KindOf(f.at, d)
  BY KindIsOfALink DEF LinkInv
<1>2. k.kind \in Kinds
  BY LinksOfCaller DEF LinkInv, Links
<1>3. f.label \in Kinds \cup {"none"}
  BY DEF LinkInv, LinkTypeOK
<1>4. CASE f.label = "none"
  <2>1. f.at = source
    BY <1>4 DEF LinkInv, Frontier
  <2>2. Past(k, d)
    BY <1>1 DEF Past
  <2>3. QED BY <1>1, <1>2, <1>4, <2>1, <2>2 DEF Label
<1>5. CASE f.label # "none"
  <2>1. /\ f.at \notin caller.calls
        /\ \E l \in CallerLinks : l.from = source /\ Past(l, f.at) /\ l.kind = f.label
    BY <1>5 DEF LinkInv, Frontier
  <2>2. PICK l \in CallerLinks : l.from = source /\ Past(l, f.at) /\ l.kind = f.label
    BY <2>1
  <2>3. Past(l, d)
    BY <1>1, <2>1, <2>2, PastOn
  <2>4. QED BY <1>3, <1>5, <2>2, <2>3 DEF Label
<1>6. QED BY <1>4, <1>5

LEMMA FollowStep ==
  ASSUME LinkInv, NEW f \in open, Follow(f)
  PROVE  LinkInv'
<1> DEFINE new == {d \in Components \ reached : LinksBetween(f.at, d) # {}}
           found == {[from |-> source, to |-> d, condition |-> Condition(Label(f, d))] :
                       d \in new \cap caller.calls}
           pushed == {[at |-> d, label |-> Label(f, d)] : d \in new \ caller.calls}
<1>1. /\ linkStage = "follow" /\ reached' = reached \cup new
      /\ jobHops' = jobHops \cup found
      /\ open' = (open \ {f}) \cup pushed
      /\ caller' = caller /\ waiting' = waiting /\ source' = source /\ linkStage' = linkStage
  BY DEF Follow
<1>2. /\ source \in caller.calls /\ source \in reached /\ source # Start
      /\ source \in Components /\ f.at \in Components
      /\ caller.calls \subseteq Components
  BY <1>1, LinksOfCaller DEF LinkInv, LinkTypeOK, Frontier
<1>3. \A d \in new : /\ Label(f, d) \in Kinds
                     /\ \E l \in CallerLinks : /\ l.from = source /\ Past(l, d)
                                               /\ l.kind = Label(f, d)
  BY <1>1, FollowFinds
<1>4. LinkTypeOK'
  <2>1. found \subseteq [from : Components \cup {Start}, to : Components,
                        condition : {"Succeeded", "OTHER", "none"}]
    BY <1>2, <1>3 DEF Condition, Kinds
  <2>2. pushed \subseteq [at : Components, label : Kinds \cup {"none"}]
    BY <1>3
  <2>3. new \subseteq Components
    OBVIOUS
  <2> HIDE DEF new, found, pushed
  <2>4. QED BY <1>1, <2>1, <2>2, <2>3 DEF LinkInv, LinkTypeOK
<1>5. HopsStandForChains'
  <2>1. ASSUME NEW h \in found
        PROVE  /\ h.to \in caller.calls /\ h.from \in caller.calls
               /\ \E l \in CallerLinks : /\ l.from = h.from /\ Past(l, h.to)
                                         /\ h.condition = Condition(l.kind)
    <3>1. PICK d \in new \cap caller.calls :
            h = [from |-> source, to |-> d, condition |-> Condition(Label(f, d))]
      OBVIOUS
    <3>2. PICK l \in CallerLinks : l.from = source /\ Past(l, d) /\ l.kind = Label(f, d)
      BY <1>3
    <3>3. h.from = source /\ h.to = d /\ h.condition = Condition(l.kind)
      BY <3>1, <3>2
    <3>4. QED BY <1>2, <3>2, <3>3
  <2> HIDE DEF new, found, pushed
  <2>2. QED BY <1>1, <2>1, CallerStays DEF LinkInv, HopsStandForChains
<1>6. Frontier'
  <2>1. \A d \in new \cap caller.calls : HasHop(source, d)'
    <3>1. ASSUME NEW d \in new \cap caller.calls PROVE HasHop(source, d)'
      <4> DEFINE h == [from |-> source, to |-> d, condition |-> Condition(Label(f, d))]
      <4>1. h \in jobHops' /\ h.from = source /\ h.to = d
        BY <1>1
      <4>2. QED BY <1>1, <4>1 DEF HasHop
    <3>2. QED BY <3>1
  <2>2. \A d \in new \ caller.calls : \E g \in open' : g.at = d
    <3>1. ASSUME NEW d \in new \ caller.calls PROVE \E g \in open' : g.at = d
      <4>1. [at |-> d, label |-> Label(f, d)] \in open'
        BY <1>1
      <4>2. QED BY <4>1
    <3>2. QED BY <3>1
  <2>3. \A x \in reached' \cap caller.calls : x # source => HasHop(source, x)'
    <3>1. \A x \in reached \cap caller.calls : x # source => HasHop(source, x)'
      BY <1>1, HopsGrow DEF LinkInv, Frontier
    <3> HIDE DEF new
    <3>2. QED BY <1>1, <2>1, <3>1
  <2>4. \A g \in open' :
          IF g.label = "none" THEN g.at = source
          ELSE /\ g.at \notin caller.calls
               /\ \E l \in CallerLinks : l.from = source /\ Past(l, g.at) /\ l.kind = g.label
    <3>1. ASSUME NEW g \in pushed
          PROVE  /\ g.label # "none" /\ g.at \notin caller.calls
                 /\ \E l \in CallerLinks : l.from = source /\ Past(l, g.at) /\ l.kind = g.label
      <4>1. PICK d \in new \ caller.calls : g = [at |-> d, label |-> Label(f, d)]
        OBVIOUS
      <4>2. g.at = d /\ g.label = Label(f, d) /\ Label(f, d) # "none"
        BY <1>3, <4>1 DEF Kinds
      <4>3. QED BY <1>3, <4>1, <4>2
    <3> HIDE DEF pushed
    <3>2. QED BY <1>1, <3>1 DEF LinkInv, Frontier
  <2>5. ASSUME NEW x \in reached', x = source \/ x \notin caller.calls
        PROVE  \/ \E g \in open' : g.at = x
               \/ \A l \in CallerLinks : l.from = x => l.to \in reached'
    <3>1. CASE x \in new
      <4>1. x \notin caller.calls
        BY <1>2, <2>5, <3>1
      <4>2. QED BY <2>2, <3>1, <4>1
    <3>2. CASE x = f.at
      <4>1. ASSUME NEW l \in CallerLinks, l.from = x PROVE l.to \in reached'
        <5>1. l.to \in Components /\ LinksBetween(f.at, l.to) # {}
          BY <3>2, <4>1, LinksOfCaller, LinkIsBetween DEF LinkInv, Links
        <5>2. QED BY <1>1, <5>1
      <4>2. QED BY <4>1
    <3>3. CASE x \in reached /\ x # f.at
      <4>1. \/ \E g \in open : g.at = x
            \/ \A l \in CallerLinks : l.from = x => l.to \in reached
        BY <1>1, <2>5, <3>3 DEF LinkInv, Frontier
      <4>2. CASE \E g \in open : g.at = x
        <5>1. PICK g \in open : g.at = x
          BY <4>2
        <5>2. g \in open'
          BY <1>1, <3>3, <5>1
        <5>3. QED BY <5>1, <5>2
      <4>3. QED BY <1>1, <4>1, <4>2
    <3>4. QED BY <1>1, <3>1, <3>2, <3>3
  <2>6. source \in caller.calls \ waiting
    BY <1>1 DEF LinkInv, Frontier
  <2> HIDE DEF new, found, pushed
  <2>7. QED BY <1>1, <1>2, <2>3, <2>4, <2>5, <2>6, CallerStays DEF Frontier
<1>7. Collected'
  <2>1. \A a, b : HasHop(a, b) => HasHop(a, b)'
    BY <1>1, HopsGrow
  <2> HIDE DEF new, found, pushed
  <2>2. QED BY <1>1, <2>1, CallerStays DEF LinkInv, Collected
<1>8. Ending'
  BY <1>1 DEF LinkInv, Ending
<1>9. QED BY <1>4, <1>5, <1>6, <1>7, <1>8 DEF LinkInv

LEMMA EndCallStep ==
  ASSUME LinkInv, EndCall
  PROVE  LinkInv'
<1>1. /\ linkStage = "follow" /\ open = {} /\ source' = Start /\ reached' = {}
      /\ linkStage' = "calls" /\ caller' = caller /\ waiting' = waiting
      /\ open' = open /\ jobHops' = jobHops
  BY DEF EndCall
<1>2. LinkTypeOK'
  BY <1>1 DEF LinkInv, LinkTypeOK
<1>3. HopsStandForChains'
  BY <1>1, CallerStays DEF LinkInv, HopsStandForChains
<1>4. Frontier' /\ Ending'
  BY <1>1 DEF Frontier, Ending
<1>5. Beyond(source) \subseteq reached
  <2>1. \A x \in reached : x = source \/ x \notin caller.calls =>
          \A l \in CallerLinks : l.from = x => l.to \in reached
    BY <1>1 DEF LinkInv, Frontier
  <2>2. reached \in SUBSET Components /\ source \in reached
    BY <1>1 DEF LinkInv, LinkTypeOK, Frontier
  <2>3. QED BY <2>1, <2>2, BeyondIsLeast
<1>6. \A x \in Beyond(source) \cap caller.calls : x # source => HasHop(source, x)
  BY <1>1, <1>5 DEF LinkInv, Frontier
<1>7. Collected'
  BY <1>1, <1>6, CallerStays, HopsStay DEF LinkInv, Collected
<1>8. QED BY <1>2, <1>3, <1>4, <1>7 DEF LinkInv

LEMMA StartUnlinkedStep ==
  ASSUME LinkInv, StartUnlinked
  PROVE  LinkInv'
<1> DEFINE first == {[from |-> Start, to |-> c, condition |-> "none"] :
                       c \in caller.calls \ LinkedTo}
<1>1. /\ linkStage = "calls" /\ waiting = {} /\ jobHops' = jobHops \cup first
      /\ linkStage' = "linked" /\ caller' = caller /\ waiting' = waiting
      /\ source' = source /\ open' = open /\ reached' = reached
  BY DEF StartUnlinked
<1>2. caller.calls \subseteq Components
  BY LinksOfCaller DEF LinkInv
<1>3. LinkTypeOK'
  <2>1. first \subseteq [from : Components \cup {Start}, to : Components,
                        condition : {"Succeeded", "OTHER", "none"}]
    BY <1>2
  <2> HIDE DEF first
  <2>2. QED BY <1>1, <2>1 DEF LinkInv, LinkTypeOK
<1>4. HopsStandForChains'
  <2>1. \A h \in first : h.from = Start /\ h.to \in caller.calls
    OBVIOUS
  <2> HIDE DEF first
  <2>2. QED BY <1>1, <2>1, CallerStays DEF LinkInv, HopsStandForChains
<1>5. Frontier'
  BY <1>1 DEF Frontier
<1>6. Collected'
  <2>1. \A a, b : HasHop(a, b) => HasHop(a, b)'
    BY <1>1, HopsGrow
  <2> HIDE DEF first
  <2>2. QED BY <1>1, <2>1, CallerStays DEF LinkInv, Collected
<1>7. Ending'
  <2>1. ASSUME NEW c \in caller.calls PROVE c \in LinkedTo'
    <3>1. CASE c \in LinkedTo
      BY <1>1, <3>1 DEF LinkedTo
    <3>2. CASE c \notin LinkedTo
      <4>1. [from |-> Start, to |-> c, condition |-> "none"] \in jobHops'
        BY <1>1, <3>2
      <4>2. QED BY <4>1 DEF LinkedTo
    <3>3. QED BY <3>1, <3>2
  <2>2. QED BY <1>1, <2>1 DEF LinkInv, Ending
<1>8. QED BY <1>3, <1>4, <1>5, <1>6, <1>7 DEF LinkInv

LEMMA LinkInvStep == LinkInv /\ [LinkNext]_linkVars => LinkInv'
<1> SUFFICES ASSUME LinkInv, [LinkNext]_linkVars PROVE LinkInv'
  OBVIOUS
<1>1. CASE UNCHANGED linkVars
  <2>1. /\ caller' = caller /\ jobHops' = jobHops /\ waiting' = waiting /\ source' = source
        /\ open' = open /\ reached' = reached /\ linkStage' = linkStage
    BY <1>1
  <2>2. LinkTypeOK'
    BY <2>1 DEF LinkInv, LinkTypeOK
  <2>3. HopsStandForChains'
    BY <2>1, CallerStays DEF LinkInv, HopsStandForChains
  <2>4. Frontier'
    BY <2>1, CallerStays, HopsStay DEF LinkInv, Frontier
  <2>5. Collected' /\ Ending'
    BY <2>1, CallerStays, HopsStay DEF LinkInv, Collected, Ending
  <2>6. QED BY <2>2, <2>3, <2>4, <2>5 DEF LinkInv
<1>2. QED
  BY <1>1, TakeCallStep, FollowStep, EndCallStep, StartUnlinkedStep DEF LinkNext

LEMMA LinkInvHolds == LinkSpec => []LinkInv
BY Init_LinkInv, LinkInvStep, PTL DEF LinkSpec

(* The types, for every parsed job.                                        *)
THEOREM LinkTypes == LinkSpec => []LinkTypeOK
<1>1. LinkInv => LinkTypeOK
  BY DEF LinkInv
<1>2. QED BY <1>1, LinkInvHolds, PTL

-----------------------------------------------------------------------------
(* A hop follows success only where an OK link begins a chain to the call, *)
(* and does so wherever every chain there begins with one.                 *)
THEOREM SuccessFollowed == LinkSpec => []SuccessIsFollowed
<1>1. ASSUME LinkInv PROVE SuccessIsFollowed
  <2>1. SUFFICES ASSUME NEW h \in jobHops, h.from # Start
                 PROVE  LET ways == {l \in CallerLinks : l.from = h.from /\ Past(l, h.to)}
                        IN  /\ FollowsSuccess(h) => \E l \in ways : l.kind = "OK"
                            /\ (\A l \in ways : l.kind = "OK") => FollowsSuccess(h)
    BY DEF SuccessIsFollowed
  <2>2. PICK l \in CallerLinks : /\ l.from = h.from /\ Past(l, h.to)
                                 /\ h.condition = Condition(l.kind)
    BY <1>1, <2>1 DEF LinkInv, HopsStandForChains
  <2>3. l.kind \in Kinds
    BY <1>1, LinksOfCaller DEF LinkInv, Links
  <2>4. FollowsSuccess(h) <=> l.kind = "OK"
    BY <2>2, <2>3 DEF FollowsSuccess, Condition, Kinds
  <2>5. QED BY <2>2, <2>4
<1>2. QED BY <1>1, LinkInvHolds, PTL

-----------------------------------------------------------------------------
(* What the job's hops lead to, the source's links led to.                 *)
LEMMA HopsFollowLinks ==
  ASSUME LinkInv, NEW a \in caller.calls, NEW b, Reaches(jobHops, a, b)
  PROVE  Reaches(CallerLinks, a, b)
<1>1. ASSUME NEW S \in SUBSET (Components \cup {Start}),
             \A l \in CallerLinks : l.from = a \/ l.from \in S => l.to \in S
      PROVE  b \in S
  <2> DEFINE T == S \ {Start}
  <2>1. a # Start
    BY LinksOfCaller DEF LinkInv
  <2>2. ASSUME NEW h \in jobHops, h.from = a \/ h.from \in T PROVE h.to \in T
    <3>1. PICK l \in CallerLinks : l.from = h.from /\ Past(l, h.to)
      BY <2>1, <2>2 DEF LinkInv, HopsStandForChains
    <3>2. Reaches(CallerLinks, l.from, h.to)
      BY <3>1, PastIsReached
    <3>3. \A k \in CallerLinks : k.from = l.from \/ k.from \in S => k.to \in S
      BY <1>1, <2>2, <3>1
    <3>4. h.to \in S
      BY <3>2, <3>3 DEF Reaches
    <3>5. h.to # Start
      BY LinksOfCaller DEF LinkInv, HopsStandForChains
    <3>6. QED BY <3>4, <3>5
  <2>3. b \in T
    BY <2>2 DEF Reaches
  <2>4. QED BY <2>3
<1>2. QED BY <1>1 DEF Reaches

(* What the source's links led to, the job's hops lead to.                 *)
LEMMA LinksBecomeHops ==
  ASSUME LinkInv, Linked, NEW a \in caller.calls, NEW b \in caller.calls, a # b,
         Reaches(CallerLinks, a, b)
  PROVE  Reaches(jobHops, a, b)
<1>1. \A c \in caller.calls : \A x \in Beyond(c) \cap caller.calls : x # c => HasHop(c, x)
  BY LinksOfCaller DEF LinkInv, Linked, Ending, Collected
<1>2. ASSUME NEW S \in SUBSET (Components \cup {Start}),
             \A h \in jobHops : h.from = a \/ h.from \in S => h.to \in S
      PROVE  b \in S
  <2> DEFINE left == {c \in caller.calls : c = a \/ c \in S}
             T == UNION {Beyond(c) : c \in left}
  <2>1. \A c \in left : \A x \in Beyond(c) \cap caller.calls : x # c => x \in S
    BY <1>1, <1>2 DEF HasHop
  <2>2. T \in SUBSET (Components \cup {Start})
    BY DEF Beyond
  <2>3. ASSUME NEW l \in CallerLinks, l.from = a \/ l.from \in T PROVE l.to \in T
    <3>1. CASE l.from = a
      <4>1. a \in left /\ l.to \in Beyond(a)
        BY <3>1, BeyondIsClosed DEF LinkInv
      <4>2. QED BY <4>1
    <3>2. CASE l.from \in T /\ l.from \notin caller.calls
      <4>1. PICK c \in left : l.from \in Beyond(c)
        BY <3>2
      <4>2. l.to \in Beyond(c)
        BY <3>2, <4>1, BeyondIsClosed DEF LinkInv
      <4>3. QED BY <4>2
    <3>3. CASE l.from \in T /\ l.from \in caller.calls
      <4>1. PICK c \in left : l.from \in Beyond(c)
        BY <3>3
      <4>2. l.from \in left
        BY <2>1, <3>3, <4>1
      <4>3. l.to \in Beyond(l.from)
        BY BeyondIsClosed DEF LinkInv
      <4>4. QED BY <4>2, <4>3
    <3>4. QED BY <2>3, <3>1, <3>2, <3>3
  <2>4. b \in T
    <3> HIDE DEF T
    <3>1. QED BY <2>2, <2>3 DEF Reaches
  <2>5. PICK c \in left : b \in Beyond(c)
    BY <2>4
  <2>6. QED BY <2>1, <2>5
<1>3. QED BY <1>2 DEF Reaches

(* One call comes after another in the job exactly when a chain of links   *)
(* led from the one to the other.                                          *)
THEOREM OrderKept == LinkSpec => []OrderIsKept
<1>1. LinkInv => OrderIsKept
  BY HopsFollowLinks, LinksBecomeHops DEF OrderIsKept
<1>2. QED BY <1>1, LinkInvHolds, PTL

-----------------------------------------------------------------------------
(* Among finitely many calls of which none comes after itself, one comes   *)
(* after no other: the one with the fewest of them before it.              *)
LEMMA FirstOfCalls ==
  ASSUME NEW Z \in SUBSET Components, IsFiniteSet(Z), Z # {}, NEW edges,
         \A a \in Z : ~Reaches(edges, a, a)
  PROVE  \E x \in Z : \A y \in Z : ~Reaches(edges, y, x)
<1> DEFINE Before(x) == {y \in Z : Reaches(edges, y, x)}
           T == {Before(x) : x \in Z}
<1>1. T \subseteq FiniteSubsetsOf(Z) /\ T # {}
  <2>1. \A x \in Z : Before(x) \in SUBSET Z
    OBVIOUS
  <2>2. FiniteSubsetsOf(Z) = SUBSET Z
    BY FS_FiniteSubsetsOfFinite
  <2>3. \A x \in Z : Before(x) \in FiniteSubsetsOf(Z)
    BY <2>1, <2>2
  <2> HIDE DEF Before
  <2>4. T \subseteq FiniteSubsetsOf(Z)
    BY <2>3
  <2>5. T # {}
    OBVIOUS
  <2>6. QED BY <2>4, <2>5
<1>2. IsWellFoundedOn(StrictSubsetOrdering(Z), FiniteSubsetsOf(Z))
  BY FS_StrictSubsetOrderingWellFounded
<1>3. PICK X \in T : \A Y \in T : <<Y, X>> \notin StrictSubsetOrdering(Z)
  <2> HIDE DEF T
  <2>1. QED BY <1>1, <1>2, WFMin
<1>4. PICK x \in Z : X = Before(x)
  OBVIOUS
<1>5. ASSUME NEW y \in Z, Reaches(edges, y, x) PROVE FALSE
  <2>1. Before(y) \subseteq Before(x)
    BY <1>5, ReachesThrough
  <2>2. y \in Before(x) /\ y \notin Before(y)
    BY <1>5
  <2>3. Before(x) \in SUBSET Z /\ Before(y) \in SUBSET Z /\ Before(y) \in T
    OBVIOUS
  <2> HIDE DEF Before, T
  <2>4. <<Before(y), X>> \in StrictSubsetOrdering(Z)
    BY <1>4, <2>1, <2>2, <2>3 DEF StrictSubsetOrdering
  <2>5. QED BY <1>3, <2>3, <2>4
<1>6. QED BY <1>5

(* The links of a job lead to finitely many components.                    *)
LEMMA LinkedAreFinite ==
  ASSUME LinkTypeOK
  PROVE  IsFiniteSet({l.to : l \in CallerLinks})
<1> DEFINE places == DOMAIN caller.links
           ends == {l.to : l \in CallerLinks}
           f == [i \in places |-> caller.links[i].to]
<1>1. IsFiniteSet(places)
  <2>1. places = 1..Len(caller.links) /\ 1 \in Int /\ Len(caller.links) \in Int
    BY LinksOfCaller
  <2>2. QED BY <2>1, FS_Interval
<1>2. f \in Surjection(places, ends)
  <2>1. \A i \in places : caller.links[i].to \in ends
    BY DEF CallerLinks
  <2>2. \A e \in ends : \E i \in places : f[i] = e
    BY DEF CallerLinks
  <2>3. QED BY <2>1, <2>2 DEF Surjection
<1>3. QED BY <1>1, <1>2, FS_Surjection

(* As long as no call comes after itself, START leads to every one.        *)
THEOREM CallsRun == LinkSpec => []EveryCallRuns
<1>1. ASSUME LinkInv, Linked, \A a \in caller.calls : ~Reaches(CallerLinks, a, a)
      PROVE  \A c \in caller.calls : Reaches(jobHops, Start, c)
  <2>1. ASSUME NEW S \in SUBSET (Components \cup {Start}),
               \A h \in jobHops : h.from = Start \/ h.from \in S => h.to \in S
        PROVE  caller.calls \subseteq S
    <3> DEFINE Z == caller.calls \ S
    <3>1. ASSUME NEW c \in Z
          PROVE  \E d \in Z : Reaches(CallerLinks, d, c)
      <4>1. PICK h \in jobHops : h.to = c
        BY <1>1 DEF LinkInv, Linked, Ending, LinkedTo
      <4>2. h.from # Start /\ h.from \notin S
        BY <2>1, <4>1
      <4>3. /\ h.from \in caller.calls
            /\ \E l \in CallerLinks : l.from = h.from /\ Past(l, c)
        BY <1>1, <4>1, <4>2 DEF LinkInv, HopsStandForChains
      <4>4. Reaches(CallerLinks, h.from, c)
        BY <4>3, PastIsReached
      <4>5. QED BY <4>2, <4>3, <4>4
    <3>2. Z \in SUBSET Components
      BY <1>1, LinksOfCaller DEF LinkInv
    <3>3. IsFiniteSet(Z)
      <4>1. ASSUME NEW c \in Z PROVE c \in {l.to : l \in CallerLinks}
        <5>1. PICK d \in Z : Reaches(CallerLinks, d, c)
          BY <3>1
        <5>2. {l.to : l \in CallerLinks} \in SUBSET (Components \cup {Start})
          BY <1>1, LinksOfCaller DEF LinkInv, Links
        <5>3. QED BY <5>1, <5>2 DEF Reaches
      <4>2. Z \in SUBSET {l.to : l \in CallerLinks}
        BY <4>1
      <4> HIDE DEF Z
      <4>3. QED BY <1>1, <4>2, LinkedAreFinite, FS_Subset DEF LinkInv
    <3>4. \A c \in Z : ~Reaches(CallerLinks, c, c)
      BY <1>1
    <3>5. Z = {}
      <4> HIDE DEF Z
      <4>1. QED BY <3>1, <3>2, <3>3, <3>4, FirstOfCalls
    <3>6. QED BY <3>5
  <2>2. QED BY <2>1 DEF Reaches
<1>2. LinkInv => EveryCallRuns
  BY <1>1 DEF EveryCallRuns
<1>3. QED BY <1>2, LinkInvHolds, PTL

(* The calls of every job are kept: their order, that each is started, and *)
(* which of them wait for success.                                         *)
THEOREM CallsKept == LinkSpec => []CallsAreKept
<1>1. OrderIsKept /\ EveryCallRuns /\ SuccessIsFollowed => CallsAreKept
  BY DEF CallsAreKept
<1>2. QED BY <1>1, OrderKept, CallsRun, SuccessFollowed, PTL

-----------------------------------------------------------------------------
(* A row of the expected output, and what the loop makes of it.            *)
KeyIsThere(i) == Keyed => RowsWith(Expected[i][Key]) # {}
RowIsSame(i) ==
  IF Keyed
  THEN RowsWith(Expected[i][Key]) # {} /\ SameRow(Expected[i], ByKey(Expected[i][Key]))
  ELSE SameRow(Expected[i], Actual[i])

(* The counts are of the rows gone over.                                   *)
Counted ==
  /\ at <= Compared
  /\ matching + mismatched + missing = at
  /\ matching = Cardinality({i \in 1..at : RowIsSame(i)})
  /\ matching + mismatched = Cardinality({i \in 1..at : KeyIsThere(i)})

Concluded ==
  Reported =>
    /\ at = Compared
    /\ verdict = Verdict
    /\ Keyed => extra = Cardinality(KeysOf(Actual) \ KeysOf(Expected))

DiffInv == DiffTypeOK /\ Counted /\ Concluded

(* What the loop goes over, and what does not change under it.             *)
LEMMA OutputTypes ==
  ASSUME outputs \in Outputs
  PROVE  /\ Keyed \in BOOLEAN
         /\ Len(Expected) \in Nat /\ Len(Actual) \in Nat
         /\ DOMAIN Expected = 1..Len(Expected) /\ DOMAIN Actual = 1..Len(Actual)
         /\ Compared \in Nat /\ Compared <= Len(Expected)
         /\ ~Keyed => Compared <= Len(Actual)
         /\ Denominator \in Nat \ {0}
<1> DEFINE E == [outputs.expected.header -> Cells \cup {NoCell}]
           A == [outputs.actual.header -> Cells \cup {NoCell}]
<1>1. Expected \in Seq(E) /\ Actual \in Seq(A)
  BY OutputsAssumption DEF Expected, Actual, IsFile
<1> HIDE DEF E, A
<1>2. /\ Len(Expected) \in Nat /\ Len(Actual) \in Nat
      /\ DOMAIN Expected = 1..Len(Expected) /\ DOMAIN Actual = 1..Len(Actual)
  BY <1>1, LenProperties
<1>3. /\ Compared \in Nat /\ Compared <= Len(Expected)
      /\ ~Keyed => Compared <= Len(Actual)
  BY <1>2 DEF Compared, LeastOf
<1>4. Denominator \in Nat \ {0}
  BY <1>2 DEF Denominator, MostOf
<1>5. QED BY <1>2, <1>3, <1>4 DEF Keyed

LEMMA OutputsStay ==
  ASSUME outputs' = outputs
  PROVE  /\ Expected' = Expected /\ Actual' = Actual /\ Compared' = Compared
         /\ Denominator' = Denominator /\ (Keyed' <=> Keyed) /\ Key' = Key
         /\ Shared' = Shared /\ (Comparable' <=> Comparable)
         /\ \A i : RowIsSame(i)' <=> RowIsSame(i)
         /\ \A i : KeyIsThere(i)' <=> KeyIsThere(i)
         /\ KeysOf(Expected)' = KeysOf(Expected) /\ KeysOf(Actual)' = KeysOf(Actual)
<1>1. /\ Expected' = Expected /\ Actual' = Actual /\ Key' = Key /\ Shared' = Shared
      /\ (Keyed' <=> Keyed)
  BY DEF Expected, Actual, Key, Keyed, Shared
<1>2. (\A k : RowsWith(k)' = RowsWith(k)) /\ (\A k : ByKey(k)' = ByKey(k))
  BY <1>1 DEF RowsWith, ByKey
<1>3. Compared' = Compared /\ Denominator' = Denominator /\ (Comparable' <=> Comparable)
  BY <1>1 DEF Compared, Denominator, Comparable
<1>4. KeysOf(Expected)' = KeysOf(Expected) /\ KeysOf(Actual)' = KeysOf(Actual)
  BY <1>1 DEF KeysOf
<1>5. \A i : KeyIsThere(i)' <=> KeyIsThere(i)
  BY <1>1, <1>2 DEF KeyIsThere
<1>6. \A i : RowIsSame(i)' <=> RowIsSame(i)
  BY <1>1, <1>2 DEF RowIsSame, SameRow
<1>7. QED BY <1>1, <1>3, <1>4, <1>5, <1>6

LEMMA UpToIsFinite ==
  ASSUME NEW n \in Nat
  PROVE  IsFiniteSet(1..n) /\ Cardinality(1..n) = n
<1>1. 1 \in Int /\ n \in Int
  OBVIOUS
<1>2. Cardinality(1..n) = IF 1 > n THEN 0 ELSE n - 1 + 1
  BY <1>1, FS_Interval
<1>3. QED BY <1>1, <1>2, FS_Interval

LEMMA SameIsThere == \A i : RowIsSame(i) => KeyIsThere(i)
BY DEF RowIsSame, KeyIsThere

(* One row more: it counts where it holds.                                 *)
LEMMA CountOneMore ==
  ASSUME NEW n \in Nat, NEW S \in SUBSET (1..n), NEW holds \in BOOLEAN,
         NEW T, T = IF holds THEN S \cup {n + 1} ELSE S
  PROVE  Cardinality(T) = Cardinality(S) + (IF holds THEN 1 ELSE 0)
<1>1. IsFiniteSet(S)
  BY UpToIsFinite, FS_Subset
<1>2. n + 1 \notin S /\ Cardinality(S) \in Nat
  BY <1>1, FS_CardinalityType
<1>3. CASE holds
  BY <1>1, <1>2, <1>3, FS_AddElement
<1>4. CASE ~holds
  BY <1>2, <1>4
<1>5. QED BY <1>3, <1>4

LEMMA CountRow ==
  ASSUME DiffInv, NextRow,
         NEW same \in BOOLEAN, same <=> RowIsSame(at + 1),
         IF KeyIsThere(at + 1) THEN Count(same)
         ELSE missing' = missing + 1 /\ UNCHANGED <<matching, mismatched>>
  PROVE  DiffInv'
<1>1. /\ outputs' = outputs /\ at' = at + 1 /\ verdict' = "none" /\ at < Compared
      /\ extra' = extra /\ parity' = parity
  BY DEF NextRow, RowIsNext
<1>2. /\ at \in Nat /\ matching \in Nat /\ mismatched \in Nat /\ missing \in Nat
      /\ outputs \in Outputs /\ Compared \in Nat /\ Compared <= Len(Expected)
      /\ Len(Expected) \in Nat
  BY OutputTypes DEF DiffInv, DiffTypeOK
<1>3. /\ matching' = matching + (IF same THEN 1 ELSE 0)
      /\ same => mismatched' = mismatched
      /\ matching' + mismatched' = matching + mismatched + (IF KeyIsThere(at + 1) THEN 1 ELSE 0)
      /\ matching' + mismatched' + missing' = matching + mismatched + missing + 1
      /\ matching' \in Nat /\ mismatched' \in Nat /\ missing' \in Nat
  BY <1>2, SameIsThere DEF Count
<1>4. DiffTypeOK'
  BY <1>1, <1>2, <1>3, OutputsStay DEF DiffInv, DiffTypeOK, Reported
<1>5. Cardinality({i \in 1..(at + 1) : RowIsSame(i)})
        = Cardinality({i \in 1..at : RowIsSame(i)}) + (IF same THEN 1 ELSE 0)
  <2> DEFINE S == {i \in 1..at : RowIsSame(i)}
             T == {i \in 1..(at + 1) : RowIsSame(i)}
  <2>1. S \in SUBSET (1..at) /\ T = IF same THEN S \cup {at + 1} ELSE S
    BY <1>2
  <2> HIDE DEF S, T
  <2>2. Cardinality(T) = Cardinality(S) + (IF same THEN 1 ELSE 0)
    BY <1>2, <2>1, CountOneMore
  <2>3. QED BY <2>2 DEF S, T
<1>6. Cardinality({i \in 1..(at + 1) : KeyIsThere(i)})
        = Cardinality({i \in 1..at : KeyIsThere(i)}) + (IF KeyIsThere(at + 1) THEN 1 ELSE 0)
  <2> DEFINE S == {i \in 1..at : KeyIsThere(i)}
             T == {i \in 1..(at + 1) : KeyIsThere(i)}
             holds == KeyIsThere(at + 1)
  <2>1. S \in SUBSET (1..at) /\ T = IF holds THEN S \cup {at + 1} ELSE S
    BY <1>2
  <2>2. holds \in BOOLEAN
    BY DEF KeyIsThere
  <2> HIDE DEF S, T, holds
  <2>3. Cardinality(T) = Cardinality(S) + (IF holds THEN 1 ELSE 0)
    BY <1>2, <2>1, <2>2, CountOneMore
  <2>4. QED BY <2>3 DEF S, T, holds
<1>7. Counted'
  <2>1. at' <= Compared' /\ matching' + mismatched' + missing' = at'
    BY <1>1, <1>2, <1>3, OutputsStay DEF DiffInv, Counted
  <2>2. matching' = Cardinality({i \in 1..at' : RowIsSame(i)'})
    BY <1>1, <1>3, <1>5, OutputsStay DEF DiffInv, Counted
  <2>3. matching' + mismatched' = Cardinality({i \in 1..at' : KeyIsThere(i)'})
    BY <1>1, <1>3, <1>6, OutputsStay DEF DiffInv, Counted
  <2>4. QED BY <2>1, <2>2, <2>3 DEF Counted
<1>8. QED BY <1>1, <1>4, <1>7 DEF DiffInv, Concluded, Reported

LEMMA Init_DiffInv == DiffInit => DiffInv
<1> SUFFICES ASSUME DiffInit PROVE DiffInv
  OBVIOUS
<1>1. /\ outputs \in Outputs /\ at = 0 /\ matching = 0 /\ mismatched = 0 /\ missing = 0
      /\ extra = 0 /\ parity = 0 /\ verdict = "none"
  BY DEF DiffInit
<1>2. Compared \in Nat /\ Len(Expected) \in Nat
  BY <1>1, OutputTypes
<1>3. {i \in 1..at : RowIsSame(i)} = {} /\ {i \in 1..at : KeyIsThere(i)} = {}
  BY <1>1
<1>4. Counted
  BY <1>1, <1>2, <1>3, FS_EmptySet DEF Counted
<1>5. QED BY <1>1, <1>2, <1>4 DEF DiffInv, DiffTypeOK, Concluded, Reported

LEMMA QuotientIsNat ==
  ASSUME NEW x \in Nat, NEW y \in Nat \ {0}
  PROVE  x \div y \in Nat
OBVIOUS

LEMMA ConcludeStep ==
  ASSUME DiffInv, Conclude
  PROVE  DiffInv'
<1>1. /\ outputs' = outputs /\ at' = at /\ matching' = matching /\ mismatched' = mismatched
      /\ missing' = missing /\ at = Compared /\ verdict' = Verdict /\ parity' \in Rounded
      /\ extra' = IF Keyed THEN Cardinality(KeysOf(Actual) \ KeysOf(Expected)) ELSE 0
  BY DEF Conclude
<1>2. outputs \in Outputs /\ matching \in Nat
  BY DEF DiffInv, DiffTypeOK
<1>3. extra' \in Nat
  <2>1. IsFiniteSet(KeysOf(Actual))
    <3> DEFINE f == [i \in 1..Len(Actual) |-> Actual[i][Key]]
    <3>1. f \in Surjection(1..Len(Actual), KeysOf(Actual))
      BY <1>2, OutputTypes DEF Surjection, KeysOf
    <3>2. IsFiniteSet(1..Len(Actual))
      BY <1>2, OutputTypes, UpToIsFinite
    <3>3. QED BY <3>1, <3>2, FS_Surjection
  <2>2. Cardinality(KeysOf(Actual) \ KeysOf(Expected)) \in Nat
    BY <2>1, FS_Difference, FS_CardinalityType
  <2>3. QED BY <1>1, <2>2
<1>4. parity' \in Nat
  <2>1. PICK half \in {Denominator - 1, Denominator} :
          parity' = (20000 * matching + half) \div (2 * Denominator)
    BY <1>1 DEF Rounded
  <2>2. 20000 * matching + half \in Nat /\ 2 * Denominator \in Nat \ {0}
    BY <1>2, OutputTypes
  <2>3. QED BY <2>1, <2>2, QuotientIsNat
<1>5. Verdict \in {"PASS", "NEAR", "FAIL"} /\ Verdict' = Verdict
  BY <1>1, OutputsStay DEF Verdict, AtLeast
<1>6. DiffTypeOK'
  BY <1>1, <1>3, <1>4, <1>5, OutputsStay DEF DiffInv, DiffTypeOK, Reported
<1>7. Counted'
  BY <1>1, OutputsStay DEF DiffInv, Counted
<1>8. Concluded'
  BY <1>1, <1>5, OutputsStay DEF Concluded
<1>9. QED BY <1>6, <1>7, <1>8 DEF DiffInv

LEMMA StopStep ==
  ASSUME DiffInv, NEW outcome \in {"refused", "raised"}, Stop(outcome)
  PROVE  DiffInv'
<1>1. /\ outputs' = outputs /\ at' = at /\ matching' = matching /\ mismatched' = mismatched
      /\ missing' = missing /\ extra' = extra /\ parity' = parity /\ verdict' = outcome
  BY DEF Stop
<1>2. DiffTypeOK' /\ Counted'
  BY <1>1, OutputsStay DEF DiffInv, DiffTypeOK, Counted
<1>3. ~Reported'
  BY <1>1 DEF Reported
<1>4. QED BY <1>2, <1>3 DEF DiffInv, Concluded

LEMMA DiffInvStep == DiffInv /\ [DiffNext]_diffVars => DiffInv'
<1> SUFFICES ASSUME DiffInv, [DiffNext]_diffVars PROVE DiffInv'
  OBVIOUS
<1>1. CASE UNCHANGED diffVars
  <2>1. /\ outputs' = outputs /\ at' = at /\ matching' = matching /\ mismatched' = mismatched
        /\ missing' = missing /\ extra' = extra /\ parity' = parity /\ verdict' = verdict
    BY <1>1 DEF diffVars
  <2>2. Verdict' = Verdict /\ (Reported' <=> Reported)
    BY <2>1, OutputsStay DEF Verdict, AtLeast, Reported
  <2>3. DiffTypeOK' /\ Counted'
    BY <2>1, <2>2, OutputsStay DEF DiffInv, DiffTypeOK, Counted
  <2>4. Concluded'
    BY <2>1, <2>2, OutputsStay DEF DiffInv, Concluded
  <2>5. QED BY <2>3, <2>4 DEF DiffInv
<1>2. CASE Miss
  <2>1. /\ Keyed /\ NextRow /\ RowsWith(Expected[at + 1][Key]) = {}
        /\ missing' = missing + 1 /\ UNCHANGED <<matching, mismatched>>
    BY <1>2 DEF Miss
  <2>2. ~KeyIsThere(at + 1) /\ (FALSE <=> RowIsSame(at + 1))
    BY <2>1 DEF KeyIsThere, RowIsSame
  <2>3. QED BY <2>1, <2>2, CountRow
<1>3. CASE Match
  <2> DEFINE same == SameRow(Expected[at + 1], Other)
  <2>1. NextRow /\ OtherIsThere /\ Count(same)
    BY <1>3 DEF Match
  <2>2. KeyIsThere(at + 1) /\ (same <=> RowIsSame(at + 1))
    BY <2>1 DEF KeyIsThere, RowIsSame, OtherIsThere, Other
  <2>3. same \in BOOLEAN
    BY DEF SameRow
  <2> HIDE DEF same
  <2>4. QED BY <2>1, <2>2, <2>3, CountRow
<1>4. CASE Refuse \/ Raise
  BY <1>4, StopStep DEF Refuse, Raise
<1>5. CASE Conclude
  BY <1>5, ConcludeStep
<1>6. QED BY <1>1, <1>2, <1>3, <1>4, <1>5 DEF DiffNext

LEMMA DiffInvHolds == DiffSpec => []DiffInv
BY Init_DiffInv, DiffInvStep, PTL DEF DiffSpec

(* The types of a comparison, for any two outputs.                         *)
THEOREM DiffTypes == DiffSpec => []DiffTypeOK
<1>1. DiffInv => DiffTypeOK
  BY DEF DiffInv
<1>2. QED BY <1>1, DiffInvHolds, PTL

-----------------------------------------------------------------------------
(* Where the key is one there are as many keys as rows.                    *)
LEMMA KeysAreRows ==
  ASSUME NEW rows, Len(rows) \in Nat, DOMAIN rows = 1..Len(rows)
  PROVE  /\ IsFiniteSet(KeysOf(rows))
         /\ IsKeyed(rows) => Cardinality(KeysOf(rows)) = Len(rows)
<1> DEFINE f == [i \in 1..Len(rows) |-> rows[i][Key]]
<1>1. Len(rows) \in Nat /\ DOMAIN rows = 1..Len(rows)
  OBVIOUS
<1>2. IsFiniteSet(1..Len(rows)) /\ Cardinality(1..Len(rows)) = Len(rows)
  BY <1>1, UpToIsFinite
<1>3. f \in Surjection(1..Len(rows), KeysOf(rows))
  BY <1>1 DEF Surjection, KeysOf
<1>4. IsKeyed(rows) => f \in Injection(1..Len(rows), KeysOf(rows))
  BY <1>1 DEF Injection, IsInjective, KeysOf, IsKeyed
<1> HIDE DEF f
<1>5. QED BY <1>2, <1>3, <1>4, FS_Surjection

LEMMA KeyOfOne ==
  ASSUME outputs \in Outputs, NEW k
  PROVE  RowsWith(k) # {} <=> k \in KeysOf(Actual)
BY OutputTypes DEF RowsWith, KeysOf

(* Every row of both outputs is accounted for, when the key is a key.      *)
THEOREM RowsAdd == DiffSpec => []RowsAddUp
<1>1. ASSUME DiffInv, Reported, Keyed, IsKeyed(Expected), IsKeyed(Actual)
      PROVE  /\ matching + mismatched + missing = Len(Expected)
             /\ matching + mismatched + extra = Len(Actual)
  <2> DEFINE there == {i \in 1..Len(Expected) : KeyIsThere(i)}
             common == KeysOf(Actual) \cap KeysOf(Expected)
             f == [i \in there |-> Expected[i][Key]]
  <2>1. /\ outputs \in Outputs /\ at = Len(Expected) /\ Len(Expected) \in Nat
        /\ matching \in Nat /\ mismatched \in Nat /\ Len(Actual) \in Nat
        /\ DOMAIN Expected = 1..Len(Expected) /\ DOMAIN Actual = 1..Len(Actual)
    BY <1>1, OutputTypes DEF DiffInv, DiffTypeOK, Concluded, Compared
  <2>2. matching + mismatched + missing = at /\ matching + mismatched = Cardinality(there)
    BY <1>1, <2>1 DEF DiffInv, Counted
  <2>3. \A i \in there : Expected[i][Key] \in common
    BY <1>1, <2>1, KeyOfOne, OutputTypes DEF KeyIsThere, KeysOf
  <2>4. f \in Injection(there, common)
    BY <1>1, <2>1, <2>3, OutputTypes DEF Injection, IsInjective, IsKeyed
  <2>5. ASSUME NEW k \in common PROVE \E i \in there : f[i] = k
    <3>1. PICK i \in 1..Len(Expected) : Expected[i][Key] = k
      BY <2>1, OutputTypes DEF KeysOf
    <3>2. i \in there
      BY <2>1, <3>1, KeyOfOne DEF KeyIsThere
    <3>3. QED BY <3>1, <3>2
  <2>6. f \in Surjection(there, common)
    BY <2>3, <2>5 DEF Surjection
  <2>7. IsFiniteSet(there)
    BY <2>1, UpToIsFinite, FS_Subset
  <2>8. Cardinality(common) = Cardinality(there)
    <3> HIDE DEF f, there, common
    <3>1. QED BY <2>4, <2>6, <2>7, FS_Surjection
  <2>9. IsFiniteSet(KeysOf(Actual)) /\ Cardinality(KeysOf(Actual)) = Len(Actual)
    BY <1>1, <2>1, KeysAreRows
  <2>10. extra = Cardinality(KeysOf(Actual)) - Cardinality(common)
    BY <1>1, <2>9, FS_Difference DEF DiffInv, Concluded
  <2> HIDE DEF there, common
  <2>11. QED BY <2>1, <2>2, <2>8, <2>9, <2>10
<1>2. DiffInv => RowsAddUp
  BY <1>1 DEF RowsAddUp
<1>3. QED BY <1>2, DiffInvHolds, PTL

-----------------------------------------------------------------------------
(* Matched by a key, a row is the same as the one row that has its key.    *)
LEMMA OneRowWithKey ==
  ASSUME outputs \in Outputs, IsKeyed(Actual), NEW j \in 1..Len(Actual)
  PROVE  RowsWith(Actual[j][Key]) = {j} /\ ByKey(Actual[j][Key]) = Actual[j]
<1>1. RowsWith(Actual[j][Key]) = {j}
  BY OutputTypes DEF RowsWith, IsKeyed
<1>2. (CHOOSE i \in {j} : \A m \in {j} : m <= i) = j
  <2>1. j <= j
    BY OutputTypes
  <2>2. QED BY <2>1
<1>3. QED BY <1>1, <1>2 DEF ByKey

(* Keyed rows: one is the same exactly when a row of its key matches it.   *)
LEMMA SameIsMatched ==
  ASSUME outputs \in Outputs, Keyed, IsKeyed(Actual), NEW i \in 1..Len(Expected)
  PROVE  RowIsSame(i) <=> \E j \in 1..Len(Actual) : Matches(i, j)
<1>1. ASSUME RowIsSame(i) PROVE \E j \in 1..Len(Actual) : Matches(i, j)
  <2>1. RowsWith(Expected[i][Key]) # {} /\ SameRow(Expected[i], ByKey(Expected[i][Key]))
    BY <1>1 DEF RowIsSame
  <2>2. PICK j \in 1..Len(Actual) : Actual[j][Key] = Expected[i][Key]
    BY <2>1, OutputTypes DEF RowsWith
  <2>3. ByKey(Expected[i][Key]) = Actual[j]
    BY <2>2, OneRowWithKey
  <2>4. QED BY <2>1, <2>2, <2>3 DEF Matches
<1>2. ASSUME NEW j \in 1..Len(Actual), Matches(i, j) PROVE RowIsSame(i)
  <2>1. RowsWith(Expected[i][Key]) = {j} /\ ByKey(Expected[i][Key]) = Actual[j]
    BY <1>2, OneRowWithKey DEF Matches
  <2>2. QED BY <1>2, <2>1 DEF Matches, RowIsSame
<1>3. QED BY <1>1, <1>2

(* All rows are the same and there are as many of them: the same rows.     *)
LEMMA AllSameIsSame ==
  ASSUME outputs \in Outputs, KeyIsOne, Len(Expected) = Len(Actual),
         \A i \in 1..Len(Expected) : RowIsSame(i)
  PROVE  SameRows
<1>1. CASE ~Keyed
  <2>1. \A i \in 1..Len(Expected) : SameRow(Expected[i], Actual[i])
    BY <1>1 DEF RowIsSame
  <2>2. QED BY <1>1, <2>1, OutputTypes DEF SameRows
<1>2. CASE Keyed
  <2>1. IsKeyed(Expected) /\ IsKeyed(Actual)
    BY <1>2 DEF KeyIsOne
  <2>2. \A i \in 1..Len(Expected) : \E j \in 1..Len(Actual) : Matches(i, j)
    BY <1>2, <2>1, SameIsMatched
  <2>3. KeysOf(Expected) \in SUBSET KeysOf(Actual)
    BY <2>2, OutputTypes DEF KeysOf, Matches
  <2>4. KeysOf(Expected) = KeysOf(Actual)
    <3>1. /\ IsFiniteSet(KeysOf(Actual)) /\ Cardinality(KeysOf(Actual)) = Len(Actual)
          /\ Cardinality(KeysOf(Expected)) = Len(Expected)
      BY <2>1, OutputTypes, KeysAreRows
    <3>2. QED BY <2>3, <3>1, FS_Subset
  <2>5. ASSUME NEW j \in 1..Len(Actual)
        PROVE  \E i \in 1..Len(Expected) : Matches(i, j)
    <3>1. PICK i \in 1..Len(Expected) : Expected[i][Key] = Actual[j][Key]
      BY <2>4, OutputTypes DEF KeysOf
    <3>2. PICK m \in 1..Len(Actual) : Matches(i, m)
      BY <2>2
    <3>3. m = j
      BY <2>1, <3>1, <3>2, OutputTypes DEF IsKeyed, Matches
    <3>4. QED BY <3>2, <3>3
  <2>6. QED BY <1>2, <2>2, <2>5, OutputTypes DEF SameRows
<1>3. QED BY <1>1, <1>2

(* The same rows: as many of them, and every one is the same.              *)
LEMMA SameIsAllSame ==
  ASSUME outputs \in Outputs, KeyIsOne, SameRows
  PROVE  /\ Len(Expected) = Len(Actual)
         /\ \A i \in 1..Len(Expected) : RowIsSame(i)
<1>1. CASE ~Keyed
  BY <1>1, OutputTypes DEF SameRows, RowIsSame
<1>2. CASE Keyed
  <2>1. IsKeyed(Expected) /\ IsKeyed(Actual)
    BY <1>2 DEF KeyIsOne
  <2>2. /\ \A i \in 1..Len(Expected) : \E j \in 1..Len(Actual) : Matches(i, j)
        /\ \A j \in 1..Len(Actual) : \E i \in 1..Len(Expected) : Matches(i, j)
    BY <1>2, OutputTypes DEF SameRows
  <2>3. KeysOf(Expected) \subseteq KeysOf(Actual)
    BY <2>2, OutputTypes DEF KeysOf, Matches
  <2>4. KeysOf(Actual) \subseteq KeysOf(Expected)
    <3>1. ASSUME NEW j \in 1..Len(Actual) PROVE Actual[j][Key] \in KeysOf(Expected)
      <4>1. PICK i \in 1..Len(Expected) : Matches(i, j)
        BY <2>2
      <4>2. QED BY <4>1, OutputTypes DEF KeysOf, Matches
    <3>2. QED BY <3>1, OutputTypes DEF KeysOf
  <2>5. Len(Expected) = Len(Actual)
    <3>1. KeysOf(Expected) = KeysOf(Actual)
      BY <2>3, <2>4
    <3>2. QED BY <2>1, <3>1, OutputTypes, KeysAreRows
  <2>6. ASSUME NEW i \in 1..Len(Expected) PROVE RowIsSame(i)
    BY <1>2, <2>1, <2>2, SameIsMatched
  <2>7. QED BY <2>5, <2>6
<1>3. QED BY <1>1, <1>2

(* Of less than a thousand rows, 99.9 percent are all of them.             *)
LEMMA AlmostAllIsAll ==
  ASSUME NEW m \in Nat, NEW n \in Nat, m <= n, n < 1000, m * 1000 >= 999 * n
  PROVE  m = n
OBVIOUS

(* A comparison passes exactly when the outputs are the same rows in the   *)
(* columns they share, in the same order or under the same keys.           *)
THEOREM PassEquivalent == DiffSpec => []PassIsEquivalent
<1>1. ASSUME DiffInv, Reported, KeyIsOne, Expected # << >>, Denominator < 1000
      PROVE  verdict = "PASS" <=> SameRows
  <2> DEFINE same == {i \in 1..at : RowIsSame(i)}
  <2>1. /\ outputs \in Outputs /\ at = Compared /\ verdict = Verdict /\ matching \in Nat
        /\ matching = Cardinality(same)
    BY <1>1 DEF DiffInv, DiffTypeOK, Concluded, Counted
  <2>2. /\ Len(Expected) \in Nat /\ Len(Actual) \in Nat /\ Len(Expected) # 0
        /\ at \in Nat /\ at <= Len(Expected)
    <3>1. Len(Expected) \in Nat /\ Len(Actual) \in Nat /\ at \in Nat /\ at <= Len(Expected)
      BY <2>1, OutputTypes
    <3>2. Expected \in Seq([outputs.expected.header -> Cells \cup {NoCell}])
      BY <2>1, OutputsAssumption DEF IsFile, Expected
    <3>3. Len(Expected) # 0
      BY <1>1, <3>2, EmptySeq
    <3>4. QED BY <3>1, <3>3
  <2>3. Len(Expected) = Len(Actual) => Denominator = Len(Expected) /\ at = Len(Expected)
    BY <2>1, <2>2 DEF Denominator, MostOf, Compared, LeastOf
  <2>4. verdict = "PASS" <=> Len(Expected) = Len(Actual) /\ AtLeast(999, 1000)
    BY <2>1 DEF Verdict
  <2>5. same \in SUBSET (1..at) /\ IsFiniteSet(1..at) /\ Cardinality(1..at) = at
    BY <2>2, UpToIsFinite
  <2>6. matching <= at /\ (matching = at => same = 1..at)
    <3> HIDE DEF same
    <3>1. QED BY <2>1, <2>5, FS_Subset
  <2>7. ASSUME verdict = "PASS" PROVE SameRows
    <3>1. Len(Expected) = Len(Actual) /\ matching * 1000 >= 999 * Len(Expected)
      BY <2>3, <2>4, <2>7 DEF AtLeast
    <3>2. matching = Len(Expected)
      BY <1>1, <2>1, <2>2, <2>3, <2>6, <3>1, AlmostAllIsAll
    <3>3. \A i \in 1..Len(Expected) : RowIsSame(i)
      BY <2>3, <2>6, <3>1, <3>2
    <3>4. QED BY <1>1, <2>1, <3>1, <3>3, AllSameIsSame
  <2>8. ASSUME SameRows PROVE verdict = "PASS"
    <3>1. Len(Expected) = Len(Actual) /\ \A i \in 1..Len(Expected) : RowIsSame(i)
      BY <1>1, <2>1, <2>8, SameIsAllSame
    <3>2. same = 1..at
      BY <2>3, <3>1
    <3>3. matching = Len(Expected) /\ Denominator = Len(Expected)
      BY <2>1, <2>3, <2>5, <3>1, <3>2
    <3>4. matching * 1000 >= 999 * Denominator
      BY <2>2, <3>3
    <3>5. QED BY <2>4, <3>1, <3>4 DEF AtLeast
  <2>9. QED BY <2>7, <2>8
<1>2. DiffInv => PassIsEquivalent
  BY <1>1 DEF PassIsEquivalent
<1>3. QED BY <1>2, DiffInvHolds, PTL

(* What a parity report says, for any two outputs.                         *)
THEOREM DiffHonest == DiffSpec => []DiffIsHonest
<1>1. PassIsEquivalent /\ RowsAddUp => DiffIsHonest
  BY DEF DiffIsHonest
<1>2. QED BY <1>1, PassEquivalent, RowsAdd, PTL

-----------------------------------------------------------------------------
(* A conversion runs the mapper, whatever else it does.                    *)
THEOREM ConversionMaps == Spec => MapperSpec
<1>1. Init => MapperInit
  BY DEF Init
<1>2. [Next]_vars => [MapperNext]_mapperVars
  BY DEF Next, vars, MapperRuns, LinkRuns, DiffRuns, Review
<1>3. QED BY <1>1, <1>2, PTL DEF Spec, MapperSpec

(* A conversion makes one job of the calls, once the mapper is through.    *)
THEOREM ConversionLinks == Spec => LinkSpec
<1>1. Init => LinkInit
  BY DEF Init
<1>2. [Next]_vars => [LinkNext]_linkVars
  BY DEF Next, vars, MapperRuns, LinkRuns, DiffRuns, Review
<1>3. QED BY <1>1, <1>2, PTL DEF Spec, LinkSpec

(* A conversion compares the outputs once.                                 *)
THEOREM ConversionCompares == Spec => DiffSpec
<1>1. Init => DiffInit
  BY DEF Init
<1>2. [Next]_vars => [DiffNext]_diffVars
  BY DEF Next, vars, MapperRuns, LinkRuns, DiffRuns, Review
<1>3. QED BY <1>1, <1>2, PTL DEF Spec, DiffSpec

(* What a DiffReport counts, and that its parity is the rounded one.       *)
ReportOK ==
  /\ outputs \in Outputs
  /\ matching \in Nat
  /\ Reported => parity \in Rounded

(* What the review saw is what there is: nothing moves after it.           *)
Judged ==
  /\ ReportOK
  /\ release # "none" => /\ Mapped /\ Linked /\ verdict # "none"
                         /\ findings = Found
                         /\ release = "SHIP" => \A f \in Found : f.severity # "error"

LEMMA Init_Judged == Init => Judged
BY DEF Init, DiffInit, Judged, ReportOK, Reported

LEMMA MappedIsDone == Mapped => ~MapperNext
<1>1. ASSUME Mapped, MapperNext PROVE FALSE
  <2>1. stage = "idle" /\ ~(pass < MaxPasses)
    BY <1>1, MappingsAssumption DEF Mapped
  <2>2. QED
    BY <1>1, <2>1 DEF MapperNext, Walk, StartPass, TakeTarget, TakeLeg, LeaveTarget,
      EndWalk, FindSorter, WalkOn, Pop, SkipKeyless, InsertSorter, EndPass
<1>2. QED BY <1>1

LEMMA LinkedIsDone == Linked => ~LinkNext
BY DEF Linked, LinkNext, TakeCall, Follow, EndCall, StartUnlinked

LEMMA VerdictIsLast == verdict # "none" => ~DiffNext
BY DEF DiffNext, Refuse, Miss, Match, Raise, NextRow, RowIsNext, Conclude

LEMMA FoundStays ==
  ASSUME UNCHANGED <<mapperVars, diffVars>>
  PROVE  Found' = Found /\ (Mapped' <=> Mapped) /\ Rounded' = Rounded
<1>1. Quiet /\ mapping' = mapping /\ hops' = hops /\ sorters' = sorters
  BY DEF Quiet, mapperVars
<1>2. /\ Inserted' = Inserted /\ Targets' = Targets
      /\ \A s : Legs(s)' = Legs(s)
      /\ \A n : Feeders(n)' = Feeders(n)
      /\ \A n : IsBare(n)' <=> IsBare(n)
  BY <1>1, QuietKeeps
<1>3. Hazards' = Hazards
  BY <1>2 DEF Hazards
<1>4. Dangling' = Dangling /\ Isolated' = Isolated /\ Unmapped' = Unmapped
  <2>1. AllSteps' = AllSteps
    BY <1>2 DEF AllSteps
  <2>2. Ends' = Ends
    BY <1>1 DEF Ends
  <2>3. QED BY <1>1, <2>1, <2>2 DEF Dangling, Isolated, Unmapped
<1>5. outputs' = outputs /\ matching' = matching /\ parity' = parity /\ verdict' = verdict
  BY DEF diffVars
<1>6. Parity' = Parity
  BY <1>5 DEF Parity, Finding, Expected, Actual, Reported
<1>7. Found' = Found
  BY <1>3, <1>4, <1>6 DEF Found, Finding
<1>8. Denominator' = Denominator
  BY <1>5 DEF Denominator, Expected, Actual
<1>9. Rounded' = Rounded
  BY <1>5, <1>8 DEF Rounded
<1>10. Mapped' <=> Mapped
  BY DEF Mapped, mapperVars
<1>11. QED BY <1>7, <1>9, <1>10

LEMMA DiffRounds ==
  ASSUME ReportOK, DiffNext
  PROVE  ReportOK'
<1>1. CASE Conclude
  <2>1. outputs' = outputs /\ matching' = matching /\ parity' \in Rounded
    BY <1>1 DEF Conclude
  <2>2. Rounded' = Rounded
    BY <2>1 DEF Rounded, Denominator, Expected, Actual
  <2>3. QED BY <2>1, <2>2 DEF ReportOK
<1>2. CASE Miss \/ Match
  <2>1. outputs' = outputs /\ verdict' = "none"
    BY <1>2 DEF Miss, Match, NextRow, RowIsNext
  <2>2. matching' = matching \/ matching' = matching + 1 \/ matching' = matching + 0
    BY <1>2 DEF Miss, Match, Count
  <2>3. QED BY <2>1, <2>2 DEF ReportOK, Reported
<1>3. CASE Refuse \/ Raise
  BY <1>3 DEF Refuse, Raise, Stop, ReportOK, Reported
<1>4. QED BY <1>1, <1>2, <1>3 DEF DiffNext

LEMMA JudgedStep == Judged /\ [Next]_vars => Judged'
<1> SUFFICES ASSUME Judged, [Next]_vars PROVE Judged'
  OBVIOUS
<1>1. CASE UNCHANGED vars
  <2>1. UNCHANGED <<mapperVars, diffVars>> /\ UNCHANGED linkVars /\ UNCHANGED reviewVars
    BY <1>1 DEF vars
  <2>2. verdict' = verdict /\ parity' = parity /\ outputs' = outputs /\ matching' = matching
        /\ findings' = findings /\ release' = release
        /\ (Linked' <=> Linked)
    BY <2>1 DEF diffVars, reviewVars, linkVars, Linked
  <2>3. Found' = Found /\ (Mapped' <=> Mapped) /\ Rounded' = Rounded
    BY <2>1, FoundStays
  <2>4. QED BY <2>2, <2>3 DEF Judged, ReportOK, Reported
<1>2. CASE MapperRuns
  <2>1. UNCHANGED diffVars /\ UNCHANGED reviewVars /\ ~Mapped
    BY <1>2, MappedIsDone DEF MapperRuns
  <2>2. /\ release' = "none" /\ parity' = parity /\ verdict' = verdict
        /\ outputs' = outputs /\ matching' = matching /\ Rounded' = Rounded
    BY <2>1 DEF diffVars, reviewVars, Judged, Rounded, Denominator, Expected, Actual
  <2>3. QED BY <2>2 DEF Judged, ReportOK, Reported
<1>3. CASE LinkRuns
  <2>1. UNCHANGED diffVars /\ UNCHANGED reviewVars /\ ~Linked
    BY <1>3, LinkedIsDone DEF LinkRuns
  <2>2. /\ release' = "none" /\ parity' = parity /\ verdict' = verdict
        /\ outputs' = outputs /\ matching' = matching /\ Rounded' = Rounded
    BY <2>1 DEF diffVars, reviewVars, Judged, Rounded, Denominator, Expected, Actual
  <2>3. QED BY <2>2 DEF Judged, ReportOK, Reported
<1>4. CASE DiffRuns
  <2>1. DiffNext /\ UNCHANGED reviewVars /\ verdict = "none"
    BY <1>4, VerdictIsLast DEF DiffRuns
  <2>2. release' = "none"
    BY <2>1 DEF reviewVars, Judged
  <2>3. QED BY <2>1, <2>2, DiffRounds DEF Judged
<1>5. CASE Review
  <2>1. UNCHANGED <<mapperVars, diffVars>> /\ UNCHANGED linkVars
    BY <1>5 DEF Review
  <2>2. verdict' = verdict /\ parity' = parity /\ outputs' = outputs /\ matching' = matching
        /\ (Linked' <=> Linked)
    BY <2>1 DEF diffVars, linkVars, Linked
  <2>3. Found' = Found /\ (Mapped' <=> Mapped) /\ Rounded' = Rounded
    BY <2>1, FoundStays
  <2>4. /\ Mapped /\ Linked /\ verdict # "none" /\ findings' = Found
        /\ release' = "SHIP" => \A f \in Found : f.severity # "error"
    BY <1>5 DEF Review
  <2>5. QED BY <2>2, <2>3, <2>4 DEF Judged, ReportOK, Reported
<1>6. QED BY <1>1, <1>2, <1>3, <1>4, <1>5 DEF Next

LEMMA JudgedHolds == Spec => []Judged
BY Init_Judged, JudgedStep, PTL DEF Spec

-----------------------------------------------------------------------------
(* The review reports exactly the sorted-input hazards the mapper could    *)
(* not mend: it never blames a step that was given its sorters, and one    *)
(* bare leg of a step without known keys is enough.                        *)
LEMMA HazardsAreReported ==
  [severity |-> "error", code |-> "sorted-input"] \in Found <=> Hazards # {}
<1>1. Parity \subseteq [severity : {"error", "warning", "info"}, code : {"parity"}]
  BY DEF Parity, Finding
<1>2. [severity |-> "error", code |-> "sorted-input"] \notin Parity
  BY <1>1
<1>3. QED BY <1>2 DEF Found, Finding

THEOREM ReviewFlags == Spec => []ReviewFlagsWhatIsLeft
<1>1. Spec => []OnlyKeylessLegsAreBare
  BY ConversionMaps, OnlyKeylessAreBare
<1>2. ASSUME Judged, OnlyKeylessLegsAreBare PROVE ReviewFlagsWhatIsLeft
  <2>1. SUFFICES ASSUME release # "none"
                 PROVE  Hazards # {}
                          <=> \E s \in Targets : \/ Legs(s) = {}
                                                 \/ s \notin mapping.keyed /\ \E n \in Feeders(s) : IsBare(n)
    BY <1>2, HazardsAreReported DEF ReviewFlagsWhatIsLeft, Judged
  <2>2. stage = "idle" /\ pass > 0
    BY <1>2, <2>1, MappingsAssumption DEF Judged, Mapped
  <2>3. \A s \in Targets \cap mapping.keyed : \A n \in Feeders(s) : ~IsBare(n)
    BY <1>2, <2>2 DEF OnlyKeylessLegsAreBare
  <2>4. QED BY <2>3 DEF Hazards
<1>3. QED BY <1>1, <1>2, JudgedHolds, PTL

-----------------------------------------------------------------------------
(* What ships has no broken hop, no step without a PDI type, and an output *)
(* that matches the original's up to the rounding of the parity.           *)
LEMMA DivisionRoundsDown ==
  ASSUME NEW x \in Nat, NEW y \in Nat \ {0}
  PROVE  y * (x \div y) <= x
OBVIOUS

LEMMA RoundedIsInt ==
  ASSUME outputs \in Outputs, matching \in Nat
  PROVE  Denominator \in Nat \ {0} /\ Rounded \subseteq Int
<1>1. Len(Expected) \in Nat /\ Len(Actual) \in Nat
  BY OutputTypes
<1>2. Denominator \in Nat \ {0}
  BY <1>1 DEF Denominator, MostOf
<1>3. QED BY <1>2 DEF Rounded

LEMMA RoundingIsSmall ==
  ASSUME outputs \in Outputs, matching \in Nat, parity \in Rounded, parity >= 9500
  PROVE  AtLeast(94995, 100000)
<1>1. Denominator \in Nat \ {0}
  BY RoundedIsInt
<1>2. PICK half \in {Denominator - 1, Denominator} :
        parity = (20000 * matching + half) \div (2 * Denominator)
  BY DEF Rounded
<1> DEFINE x == 20000 * matching + half
           y == 2 * Denominator
<1>3. half \in Nat /\ half <= Denominator
  BY <1>1
<1>4. x \in Nat /\ y \in Nat \ {0}
  BY <1>1, <1>3
<1>5. parity = x \div y
  BY <1>2
<1>6. parity \in Int /\ y * parity <= x
  <2> HIDE DEF x, y
  <2>1. QED BY <1>4, <1>5, DivisionRoundsDown
<1>7. y * 9500 <= y * parity
  <2> HIDE DEF x, y
  <2>1. \A p \in Int : p >= 9500 => y * 9500 <= y * p
    BY <1>4
  <2>2. QED BY <1>6, <2>1
<1>8. y * 9500 <= x
  <2> HIDE DEF x, y
  <2>1. y * 9500 \in Int /\ y * parity \in Int /\ x \in Int
    BY <1>4, <1>6
  <2>2. QED BY <1>6, <1>7, <2>1
<1>9. 18999 * Denominator <= 20000 * matching
  BY <1>1, <1>3, <1>8
<1>10. QED BY <1>1, <1>9 DEF AtLeast

LEMMA NoErrorFound ==
  ASSUME \A f \in Found : f.severity # "error",
         NEW code, NEW holds \in BOOLEAN, Finding("error", code, holds) \subseteq Found
  PROVE  ~holds
<1>1. [severity |-> "error", code |-> code].severity = "error"
  OBVIOUS
<1>2. holds => [severity |-> "error", code |-> code] \in Found
  BY DEF Finding
<1>3. QED BY <1>1, <1>2

THEOREM Ships == Spec => []NothingBrokenShips
<1>1. Spec => []LegsKept /\ []MapperTypeOK
  BY ConversionMaps, LegsStay, MapperTypes, PTL
<1>2. ASSUME Judged, LegsKept, MapperTypeOK PROVE NothingBrokenShips
  <2>1. SUFFICES ASSUME release = "SHIP"
                 PROVE  /\ \A k \in DOMAIN mapping.hops : mapping.hops[k] \in Hop(Steps)
                        /\ \A s \in Steps : mapping.type[s] # "Unmapped"
                        /\ Reported => AtLeast(94995, 100000)
    BY DEF NothingBrokenShips
  <2>2. /\ \A f \in Found : f.severity # "error"
        /\ verdict # "none"
    BY <1>2, <2>1 DEF Judged
  <2>3. Unmapped = {} /\ Dangling = {}
    <3>1. /\ Finding("error", "unmapped-steps", Unmapped # {}) \subseteq Found
          /\ Finding("error", "hops", Dangling # {}) \subseteq Found
      BY DEF Found
    <3>2. (Unmapped # {}) \in BOOLEAN /\ (Dangling # {}) \in BOOLEAN
      OBVIOUS
    <3>3. ~(Unmapped # {}) /\ ~(Dangling # {})
      BY <2>2, <3>1, <3>2, NoErrorFound
    <3>4. QED BY <3>3
  <2>4. Reported => ~(parity < 9500)
    <3>1. SUFFICES ASSUME Reported, parity < 9500 PROVE FALSE
      OBVIOUS
    <3>2. Finding("error", "parity", TRUE) \subseteq Found
      BY <3>1 DEF Found, Parity, Finding
    <3>3. QED BY <2>2, <3>2, NoErrorFound
  <2>5. Reported => AtLeast(94995, 100000)
    <3>1. SUFFICES ASSUME Reported PROVE AtLeast(94995, 100000)
      OBVIOUS
    <3>2. outputs \in Outputs /\ matching \in Nat /\ parity \in Rounded
      BY <1>2, <3>1 DEF Judged, ReportOK
    <3>3. parity >= 9500
      BY <2>4, <3>1, <3>2, RoundedIsInt
    <3>4. QED BY <3>2, <3>3, RoundingIsSmall
  <2>6. ASSUME NEW k \in DOMAIN mapping.hops PROVE mapping.hops[k] \in Hop(Steps)
    <3>1. mapping.hops[k] \in Hop(Names)
      BY <1>2, MappingTypes DEF MapperTypeOK
    <3>2. /\ hops[k].to = mapping.hops[k].to
          /\ \/ hops[k].from = mapping.hops[k].from
             \/ /\ hops[k].from \in Inserted
                /\ Feeders(hops[k].from) = {mapping.hops[k].from}
      BY <1>2 DEF LegsKept
    <3>3. k \in DOMAIN hops
      <4>1. DOMAIN mapping.hops = 1..Len(mapping.hops) /\ Len(mapping.hops) \in Nat
        BY <1>2, MappingTypes DEF MapperTypeOK
      <4>2. DOMAIN hops = 1..Len(hops) /\ Len(hops) \in Nat
        BY <1>2, HopTypes
      <4>3. QED BY <1>2, <4>1, <4>2 DEF LegsKept
    <3>4. \A j \in DOMAIN hops : hops[j].from \in Steps \cup Inserted /\ hops[j].to \in Steps \cup Inserted
      BY <2>3 DEF Dangling, AllSteps
    <3>5. mapping.hops[k].to \in Steps
      BY <1>2, <3>1, <3>2, <3>3, <3>4, SortersApart DEF Hop
    <3>6. mapping.hops[k].from \in Steps \cup Inserted
      <4>1. CASE hops[k].from = mapping.hops[k].from
        BY <4>1, <3>3, <3>4
      <4>2. CASE Feeders(hops[k].from) = {mapping.hops[k].from}
        BY <4>2, <3>4 DEF Feeders, Legs
      <4>3. QED BY <3>2, <4>1, <4>2
    <3>7. mapping.hops[k].from \in Steps
      BY <1>2, <3>1, <3>6, SortersApart DEF Hop
    <3>8. QED BY <3>1, <3>5, <3>7 DEF Hop
  <2>7. QED BY <2>3, <2>5, <2>6 DEF Unmapped
<1>3. QED BY <1>1, <1>2, JudgedHolds, PTL

(* Both, for every source.                                                 *)
THEOREM ReviewRight == Spec => []ReviewIsRight
<1>1. ReviewFlagsWhatIsLeft /\ NothingBrokenShips => ReviewIsRight
  BY DEF ReviewIsRight
<1>2. QED BY <1>1, ReviewFlags, Ships, PTL

(* What the mapper, the job of the calls and the comparison promise, each  *)
(* in a whole conversion.                                                  *)
THEOREM ConversionServes == Spec => []LegsAreServed
BY ConversionMaps, LegsServed, PTL

(* The calls are kept in a whole conversion.                               *)
THEOREM ConversionKeepsCalls == Spec => []CallsAreKept
BY ConversionLinks, CallsKept, PTL

(* The report of the comparison is honest in a whole conversion.           *)
THEOREM ConversionIsHonest == Spec => []DiffIsHonest
BY ConversionCompares, DiffHonest, PTL

=============================================================================
