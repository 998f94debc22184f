--------------------------- MODULE ReleaseGateProofs ---------------------------
(***************************************************************************)
(* The slots of the render queue and the verdict of the gate, for any      *)
(* number of threads and slots and whatever the two renders contain.       *)
(***************************************************************************)
EXTENDS ReleaseGate, FiniteSetTheorems, WellFoundedInduction, TLAPS

(* What the renders in progress and the free slots add up to needs the     *)
(* stages to be stages and nothing more.                                   *)
SlotsInv ==
  /\ stage \in [Checks -> Stages]
  /\ free \in Nat
  /\ free + Cardinality(InSlots) = Slots

LEMMA InSlotsIsFinite == IsFiniteSet(InSlots) /\ Cardinality(InSlots) \in Nat
<1>1. IsFiniteSet(Checks)
  BY GateAssumption DEF GateAssumption
<1>2. InSlots \subseteq Checks
  BY DEF InSlots
<1> QED
  BY <1>1, <1>2, FS_Subset, FS_CardinalityType

(* A thread that moves between stages without a slot leaves the count.     *)
LEMMA MovesOutside ==
  ASSUME SlotsInv, NEW c \in Checks, NEW s \in Stages \ Rendering,
         stage[c] \notin Rendering, stage' = [stage EXCEPT ![c] = s], free' = free
  PROVE  SlotsInv'
<1>1. stage' \in [Checks -> Stages]
  BY DEF SlotsInv
<1>2. InSlots' = InSlots
  BY DEF InSlots, SlotsInv
<1> QED
  BY <1>1, <1>2 DEF SlotsInv

(* A thread that takes a slot.                                             *)
LEMMA TakesSlot ==
  ASSUME SlotsInv, NEW c \in Checks, NEW s \in Rendering, free > 0,
         stage[c] \notin Rendering, stage' = [stage EXCEPT ![c] = s], free' = free - 1
  PROVE  SlotsInv'
<1>1. stage' \in [Checks -> Stages]
  BY DEF SlotsInv, Stages
<1>2. InSlots' = InSlots \cup {c}
  BY DEF InSlots, SlotsInv
<1>3. c \notin InSlots
  BY DEF InSlots
<1>4. Cardinality(InSlots \cup {c}) = Cardinality(InSlots) + 1
  BY <1>3, InSlotsIsFinite, FS_AddElement
<1> QED
  BY <1>1, <1>2, <1>4, InSlotsIsFinite DEF SlotsInv

(* A thread that gives its slot back.                                      *)
LEMMA LeavesSlot ==
  ASSUME SlotsInv, NEW c \in Checks, NEW s \in Stages \ Rendering,
         stage[c] \in Rendering, stage' = [stage EXCEPT ![c] = s], free' = free + 1
  PROVE  SlotsInv'
<1>1. stage' \in [Checks -> Stages]
  BY DEF SlotsInv
<1>2. InSlots' = InSlots \ {c}
  BY DEF InSlots, SlotsInv
<1>3. c \in InSlots
  BY DEF InSlots
<1>4. Cardinality(InSlots \ {c}) = Cardinality(InSlots) - 1
  BY <1>3, InSlotsIsFinite, FS_RemoveElement
<1> QED
  BY <1>1, <1>2, <1>4, InSlotsIsFinite DEF SlotsInv

LEMMA SlotsInit == GateInit => SlotsInv
<1> SUFFICES ASSUME GateInit PROVE SlotsInv
  OBVIOUS
<1>1. stage \in [Checks -> Stages]
  BY DEF GateInit, Stages
<1>2. InSlots = {}
  BY DEF GateInit, InSlots, Rendering
<1>3. Cardinality({}) = 0
  BY FS_EmptySet
<1> QED
  BY <1>1, <1>2, <1>3, GateAssumption DEF GateInit, GateAssumption, SlotsInv

LEMMA StagesApart ==
  /\ {"idle", "asked", "comparing", "annotating"} \cup Waiting \cup Ended \subseteq Stages \ Rendering
  /\ Rendering \subseteq Stages
BY DEF Stages, Waiting, Rendering, Ended

LEMMA SlotsStep == SlotsInv /\ [GateNext]_gateVars => SlotsInv'
<1> SUFFICES ASSUME SlotsInv, [GateNext]_gateVars PROVE SlotsInv'
  OBVIOUS
<1>1. CASE UNCHANGED gateVars
  BY <1>1 DEF gateVars, SlotsInv, InSlots
<1>2. ASSUME NEW c \in Checks, Ask(c) \/ Step(c) PROVE SlotsInv'
  <2>1. CASE Ask(c)
    BY <2>1, StagesApart, MovesOutside DEF Ask, Goes, Rendering
  <2>2. CASE Load(c)
    <3>1. PICK s \in {"queued original", "error", "crashed"} :
            stage[c] = "asked" /\ stage' = [stage EXCEPT ![c] = s] /\ free' = free
      BY <2>2 DEF Load, Goes
    <3> QED
      BY <3>1, StagesApart, MovesOutside DEF Waiting, Ended, Rendering
  <2>3. CASE Enter(c)
    <3>1. PICK s \in Rendering : stage[c] \in Waiting /\ stage' = [stage EXCEPT ![c] = s]
      BY <2>3 DEF Enter, Goes, Waiting, Rendering
    <3>2. free > 0 /\ free' = free - 1
      BY <2>3 DEF Enter
    <3> QED
      BY <3>1, <3>2, StagesApart, TakesSlot
  <2>4. CASE Rendered(c)
    <3>1. PICK s \in {"queued conversion", "comparing"} :
            stage[c] \in Rendering /\ stage' = [stage EXCEPT ![c] = s] /\ free' = free + 1
      BY <2>4 DEF Rendered, Goes, Rendering
    <3> QED
      BY <3>1, StagesApart, LeavesSlot DEF Waiting
  <2>5. CASE RenderFails(c)
    <3>1. PICK s \in Ended :
            stage[c] \in Rendering /\ stage' = [stage EXCEPT ![c] = s] /\ free' = free + 1
      BY <2>5 DEF RenderFails, Ended
    <3> QED
      BY <3>1, StagesApart, LeavesSlot
  <2>6. CASE Compare(c)
    <3>1. PICK s \in {"done", "annotating"} :
            stage[c] = "comparing" /\ stage' = [stage EXCEPT ![c] = s] /\ free' = free
      BY <2>6 DEF Compare, Goes
    <3> QED
      BY <3>1, StagesApart, MovesOutside DEF Ended, Rendering
  <2>7. CASE Annotate(c)
    <3>1. CASE stage' = stage
      BY <2>7, <3>1 DEF Annotate, SlotsInv, InSlots
    <3>2. CASE stage' = [stage EXCEPT ![c] = "done"]
      BY <2>7, <3>2, StagesApart, MovesOutside DEF Annotate, Ended, Rendering
    <3> QED
      BY <2>7, <3>1, <3>2 DEF Annotate
  <2> QED
    BY <1>2, <2>1, <2>2, <2>3, <2>4, <2>5, <2>6, <2>7 DEF Step
<1> QED
  BY <1>1, <1>2 DEF GateNext

LEMMA SlotsHold == SlotsInv => SlotsAreKept
BY InSlotsIsFinite, GateAssumption DEF SlotsInv, SlotsAreKept, GateAssumption

(* However the renders before it ended, a slot is free or under exactly    *)
(* one running render, so never more than Slots of them run at once.       *)
THEOREM SlotsTheorem == GateSpec => []SlotsAreKept
BY SlotsInit, SlotsStep, SlotsHold, PTL DEF GateSpec

-----------------------------------------------------------------------------
(* A set of numbers has a least one, and a bounded one a greatest.         *)
LEMMA LeastNumber ==
  ASSUME NEW S \in SUBSET Nat, S # {}
  PROVE  \E m \in S : \A n \in S : m <= n
<1>1. PICK m \in S : \A n \in S : <<n, m>> \notin OpToRel(<, Nat)
  BY NatLessThanWellFounded, WFMin
<1>2. \A n \in S : ~(n < m)
  BY <1>1 DEF OpToRel
<1> QED
  BY <1>2

LEMMA GreatestNumber ==
  ASSUME NEW S \in SUBSET Nat, S # {}, NEW b \in Nat, \A n \in S : n <= b
  PROVE  \E m \in S : \A n \in S : n <= m
<1> DEFINE short == {b - n : n \in S}
<1>1. \A n \in S : b - n \in Nat
  OBVIOUS
<1>5. short \in SUBSET Nat /\ short # {}
  BY <1>1
<1>2. PICK s \in short : \A t \in short : s <= t
  <2> HIDE DEF short
  <2> QED
    BY <1>5, LeastNumber
<1>3. PICK m \in S : s = b - m
  BY <1>2
<1>4. \A n \in S : b - m <= b - n
  BY <1>2, <1>3
<1> QED
  BY <1>3, <1>4

LEMMA SeqParts ==
  ASSUME NEW T, NEW s \in Seq(T)
  PROVE  /\ Len(s) \in Nat /\ DOMAIN s = 1..Len(s)
         /\ \A i \in 1..Len(s) : s[i] \in T
  OBVIOUS

-----------------------------------------------------------------------------
(* A page is taken for a value's only if it says it, and says no longer    *)
(* value that contains it.                                                 *)
Hits(d, v, values) == {p \in DOMAIN d.pages : Says(d.pages[p], v)
                         /\ \A w \in values \cap Longer[v] : ~Says(d.pages[p], w)}
Longest(r, runs) ==
  \A s \in runs : \/ Cardinality(s) < Cardinality(r)
                  \/ Cardinality(s) = Cardinality(r) /\ \E p \in r : \A q \in s : p <= q

LEMMA LongestExists ==
  ASSUME NEW n \in Nat, NEW runs, runs # {}, \A r \in runs : r # {} /\ r \subseteq 1..n
  PROVE  \E r \in runs : Longest(r, runs)
<1>1. \A r \in runs : Cardinality(r) \in 0..n
  <2> TAKE r \in runs
  <2>1. IsFiniteSet(1..n) /\ Cardinality(1..n) = n
    BY FS_Interval
  <2> QED
    BY <2>1, FS_Subset, FS_CardinalityType
<1> DEFINE sizes == {Cardinality(r) : r \in runs}
<1>2. PICK m \in sizes : \A k \in sizes : k <= m
  <2>1. sizes \in SUBSET Nat /\ sizes # {} /\ \A k \in sizes : k <= n
    BY <1>1
  <2> HIDE DEF sizes
  <2> QED
    BY <2>1, GreatestNumber
<1> DEFINE firsts == {p \in 1..n : \E r \in runs : Cardinality(r) = m /\ p \in r /\ \A q \in r : p <= q}
<1>3. \A r \in runs : Cardinality(r) = m => \E p \in firsts : p \in r /\ \A q \in r : p <= q
  <2> SUFFICES ASSUME NEW r \in runs, Cardinality(r) = m
               PROVE  \E p \in firsts : p \in r /\ \A q \in r : p <= q
    OBVIOUS
  <2>1. r \in SUBSET Nat /\ r # {}
    OBVIOUS
  <2>2. PICK p \in r : \A q \in r : p <= q
    BY <2>1, LeastNumber
  <2> QED
    BY <2>2
<1>4. PICK p \in firsts : \A q \in firsts : p <= q
  <2>1. firsts \in SUBSET Nat /\ firsts # {}
    BY <1>2, <1>3
  <2> HIDE DEF firsts
  <2> QED
    BY <2>1, LeastNumber
<1>5. PICK r \in runs : Cardinality(r) = m /\ p \in r
  BY <1>4
<1>6. ASSUME NEW s \in runs, ~(Cardinality(s) < Cardinality(r))
      PROVE  Cardinality(s) = Cardinality(r) /\ \E x \in r : \A q \in s : x <= q
  <2>1. Cardinality(s) = m
    BY <1>1, <1>2, <1>5, <1>6
  <2>2. PICK x \in firsts : x \in s /\ \A q \in s : x <= q
    BY <1>3, <2>1
  <2>3. \A q \in s : p <= q
    BY <1>4, <2>2
  <2> QED
    BY <1>5, <2>1, <2>3
<1> QED
  BY <1>6 DEF Longest

LEMMA PagesAreHits ==
  ASSUME NEW d, d.pages \in Seq(Pages), NEW v, NEW values
  PROVE  PagesOf(d, v, values) \subseteq Hits(d, v, values)
<1> DEFINE hits == Hits(d, v, values)
           runs == {r \in {a..b : a, b \in hits} : r # {} /\ r \subseteq hits}
           n == Len(d.pages)
<1>1. n \in Nat /\ DOMAIN d.pages = 1..n
  BY SeqParts
<1>2. hits \subseteq 1..n
  BY <1>1 DEF Hits
<1>3. PagesOf(d, v, values) = IF runs = {} THEN {} ELSE CHOOSE r \in runs : Longest(r, runs)
  BY DEF PagesOf, Hits, Longest
<1>4. \A r \in runs : r # {} /\ r \subseteq hits /\ r \subseteq 1..n
  BY <1>2
<1>5. ASSUME runs # {} PROVE (CHOOSE r \in runs : Longest(r, runs)) \in runs
  <2> HIDE DEF runs, n
  <2>1. \E r \in runs : Longest(r, runs)
    BY <1>1, <1>4, <1>5, LongestExists
  <2> QED
    BY <2>1
<1> HIDE DEF runs, hits
<1>6. PagesOf(d, v, values) \subseteq hits
  BY <1>3, <1>4, <1>5
<1> QED
  BY <1>6 DEF hits

-----------------------------------------------------------------------------
LEMMA OwnerIsNamed ==
  ASSUME NEW d, d.pages \in Seq(Pages), NEW p, NEW order,
         DOMAIN order \subseteq Nat, NEW b \in Nat, \A i \in DOMAIN order : i <= b
  PROVE  \/ Owner(d, p, order) = NoCustomer
         \/ Owner(d, p, order) \in Range(order) /\ p \in Hits(d, Owner(d, p, order), Range(order))
<1> DEFINE on == {i \in DOMAIN order : p \in PagesOf(d, order[i], Range(order))}
<1>1. Owner(d, p, order) = IF on = {} THEN NoCustomer ELSE order[CHOOSE i \in on : \A j \in on : j <= i]
  BY DEF Owner
<1>2. ASSUME on # {} PROVE (CHOOSE i \in on : \A j \in on : j <= i) \in on
  <2>1. on \in SUBSET Nat /\ \A i \in on : i <= b
    OBVIOUS
  <2> HIDE DEF on
  <2>2. \E i \in on : \A j \in on : j <= i
    BY <1>2, <2>1, GreatestNumber
  <2> QED
    BY <2>2
<1>3. \A i \in on : order[i] \in Range(order) /\ p \in Hits(d, order[i], Range(order))
  <2> TAKE i \in on
  <2>1. order[i] \in Range(order)
    BY DEF Range
  <2>2. PagesOf(d, order[i], Range(order)) \subseteq Hits(d, order[i], Range(order))
    BY PagesAreHits
  <2> QED
    BY <2>1, <2>2
<1> HIDE DEF on
<1> QED
  BY <1>1, <1>2, <1>3

LEMMA GroupsAreValues ==
  ASSUME NEW saved \in Seq(Customers \cup {NoCustomer})
  PROVE  /\ DOMAIN GroupValues(saved) \subseteq 1..Len(saved)
         /\ IsFiniteSet(DOMAIN GroupValues(saved))
         /\ Range(GroupValues(saved)) \subseteq Customers
<1> DEFINE new == {i \in DOMAIN saved : saved[i] # NoCustomer /\ \A j \in 1..(i - 1) : saved[j] # saved[i]}
           taken == {j \in new : Cardinality({k \in new : k < j}) < GroupCap}
<1>1. GroupValues(saved) = [i \in taken |-> saved[i]]
  BY DEF GroupValues
<1>2. DOMAIN saved = 1..Len(saved) /\ Len(saved) \in Nat /\ \A i \in 1..Len(saved) : saved[i] \in Customers \cup {NoCustomer}
  BY SeqParts
<1>3. taken \subseteq 1..Len(saved) /\ \A i \in taken : saved[i] \in Customers
  BY <1>2
<1> HIDE DEF taken
<1>4. IsFiniteSet(taken)
  <2>1. IsFiniteSet(1..Len(saved))
    BY <1>2, FS_Interval
  <2> QED
    BY <1>3, <2>1, FS_Subset
<1>5. Range(GroupValues(saved)) = {saved[i] : i \in taken}
  BY <1>1 DEF Range
<1> QED
  BY <1>1, <1>3, <1>4, <1>5

LEMMA LinesOfPages ==
  ASSUME NEW d, d.pages \in Seq(Pages), NEW p \in DOMAIN d.pages
  PROVE  /\ p \in Nat \ {0} /\ Len(d.pages[p].lines) \in Nat
         /\ DOMAIN d.pages[p].lines = 1..Len(d.pages[p].lines)
         /\ \A i \in DOMAIN d.pages[p].lines : d.pages[p].lines[i] \in Lines
<1>1. d.pages[p] \in Pages /\ p \in 1..Len(d.pages)
  BY SeqParts
<1>2. d.pages[p].lines \in Seq(Lines)
  BY <1>1 DEF Pages
<1> HIDE DEF Lines
<1> QED
  BY <1>1, <1>2, SeqParts

(* An amount of a page stands on one of its lines.                         *)
LEMMA AmountsOfPages ==
  ASSUME NEW d, NEW p \in DOMAIN d.pages, NEW kind, NEW n
  PROVE  n \in Amount(d.pages[p], {kind}) <=>
           n # NoAmount /\ \E i \in DOMAIN d.pages[p].lines :
             /\ d.pages[p].lines[i].kind = kind /\ d.pages[p].lines[i].amount = n
             /\ <<p, i>> \in Places(d) /\ At(d, <<p, i>>) = d.pages[p].lines[i]
<1>1. \A i \in DOMAIN d.pages[p].lines : <<p, i>> \in Places(d) /\ At(d, <<p, i>>) = d.pages[p].lines[i]
  BY DEF Places, At
<1> QED
  BY <1>1 DEF Amount

(* What the amounts say of a statement: its letter and its total stand     *)
(* where its own amount does.                                              *)
LEMMA OwnAmounts ==
  ASSUME NEW d, NEW p \in DOMAIN d.pages, NEW v, NEW n, Owes(d, v, n), NEW kind \in {"letter", "total"}
  PROVE  /\ p \in On(d, v, kind) <=> n \in Amount(d.pages[p], {kind})
         /\ Alone(d, p, v) => Stated(d, p) \subseteq {n}
<1>1. \A i \in DOMAIN d.pages[p].lines : <<p, i>> \in Places(d) /\ At(d, <<p, i>>) = d.pages[p].lines[i]
  BY DEF Places, At
<1>2. \A i \in DOMAIN d.pages[p].lines :
        LET l == d.pages[p].lines[i] IN
        /\ l.of = v /\ l.kind \in {"letter", "total"} => l.amount = n
        /\ l.of # v => l.amount # n
  <2> TAKE i \in DOMAIN d.pages[p].lines
  <2> DEFINE x == <<p, i>>
  <2>1. x \in Places(d) /\ At(d, x) = d.pages[p].lines[i]
    BY <1>1
  <2> HIDE DEF x
  <2> QED
    BY <2>1 DEF Owes
<1>3. n # NoAmount
  BY DEF Owes
<1>4. p \in On(d, v, kind) => n \in Amount(d.pages[p], {kind})
  BY <1>2, <1>3 DEF On, Amount
<1>5. n \in Amount(d.pages[p], {kind}) => p \in On(d, v, kind)
  BY <1>2 DEF On, Amount
<1>6. Alone(d, p, v) => Stated(d, p) \subseteq {n}
  BY <1>2 DEF Alone, Stated, Amount
<1> QED
  BY <1>4, <1>5, <1>6

-----------------------------------------------------------------------------
(* A split of the conversion is blamed on the statement, or on the amount  *)
(* when no customer is named on the page.                                  *)
LEMMA SplitIsBlamed ==
  ASSUME NEW c, c.pages \in Seq(Pages), NEW order, DOMAIN order \subseteq Nat,
         NEW b \in Nat, \A i \in DOMAIN order : i <= b,
         NEW v \in Range(order), v # NoCustomer, NEW n, Owes(c, v, n), Stranding(c, v) # {}
  PROVE  v \in Orphans(c, order) \/ n \in Orphans(c, order)
<1>1. PICK q \in On(c, v, "letter") \ On(c, v, "total") : q + 1 \in On(c, v, "total") /\ Alone(c, q, v)
  BY DEF Stranding
<1>2. q \in DOMAIN c.pages /\ q + 1 \in DOMAIN c.pages /\ q \in Nat \ {0}
  <2>1. q \in DOMAIN c.pages /\ q + 1 \in DOMAIN c.pages
    BY <1>1 DEF On
  <2> QED
    BY <2>1, LinesOfPages
<1>3. Stated(c, q) = {n}
  <2>1. n \in Stated(c, q)
    BY <1>1, <1>2, OwnAmounts DEF Stated
  <2> QED
    BY <1>1, <1>2, <2>1, OwnAmounts
<1>4. n \notin Totals(c, q) /\ n \in Totals(c, q + 1)
  BY <1>1, <1>2, OwnAmounts DEF Totals
<1>5. q + 1 \in CarriedOver(c)
  <2> DEFINE p == q + 1
  <2>1. p - 1 = q /\ p > 1 /\ p \in DOMAIN c.pages /\ n \in Totals(c, p)
    BY <1>2, <1>4
  <2> HIDE DEF p
  <2>2. Stated(c, p - 1) = {n} /\ n \notin Totals(c, p - 1)
    BY <1>3, <1>4, <2>1
  <2>3. p \in CarriedOver(c)
    BY <2>1, <2>2 DEF CarriedOver
  <2> QED
    BY <2>3 DEF p
<1> DEFINE blamed == IF Owner(c, q, order) # NoCustomer THEN Owner(c, q, order)
                     ELSE CHOOSE m \in Stated(c, q) : TRUE
<1>6. blamed \in Orphans(c, order)
  <2>1. (q + 1) - 1 = q
    BY <1>2
  <2> QED
    BY <1>5, <2>1 DEF Orphans
<1>7. Owner(c, q, order) \in {v, NoCustomer}
  <2> DEFINE w == Owner(c, q, order)
  <2>1. CASE w \in Range(order) /\ q \in Hits(c, w, Range(order))
    <3>1. Says(c.pages[q], w) /\ \A x \in Range(order) \cap Longer[w] : ~Says(c.pages[q], x)
      BY <2>1 DEF Hits
    <3> HIDE DEF w
    <3>2. PICK i \in DOMAIN c.pages[q].lines :
            /\ c.pages[q].lines[i].kind = "name"
            /\ c.pages[q].lines[i].of = w \/ c.pages[q].lines[i].of \in Longer[w]
      BY <3>1 DEF Says
    <3>3. c.pages[q].lines[i].of = v
      BY <1>1, <3>2 DEF Alone
    <3>4. Says(c.pages[q], v)
      BY <3>2, <3>3 DEF Says
    <3>5. w = v
      BY <3>1, <3>2, <3>3, <3>4
    <3> QED
      BY <3>5 DEF w
  <2> QED
    BY <2>1, OwnerIsNamed
<1>8. (CHOOSE m \in Stated(c, q) : TRUE) = n
  BY <1>3
<1> QED
  BY <1>6, <1>7, <1>8

(* The original is blamed for neither when it prints the statement in one  *)
(* piece: what it splits is another statement's, and says so.              *)
LEMMA WholeIsNotBlamed ==
  ASSUME NEW o, o.pages \in Seq(Pages), NEW order, DOMAIN order \subseteq Nat,
         NEW b \in Nat, \A i \in DOMAIN order : i <= b, Range(order) \subseteq Customers,
         NEW v \in Range(order), NEW n \in Amounts, Owes(o, v, n), InOnePiece(o, v, Range(order))
  PROVE  v \notin Orphans(o, order) /\ n \notin Orphans(o, order)
<1>1. PICK r \in DOMAIN o.pages : Alone(o, r, v) /\ \A kind \in {"name", "letter", "total"} : On(o, v, kind) = {r}
  BY DEF InOnePiece
<1>2. Stated(o, r) = {n} /\ n \in Totals(o, r)
  <2>1. n \in Stated(o, r) /\ n \in Totals(o, r)
    BY <1>1, OwnAmounts DEF Stated, Totals
  <2> QED
    BY <1>1, <2>1, OwnAmounts
<1>3. ASSUME NEW p \in DOMAIN o.pages PROVE n \in Stated(o, p) \/ n \in Totals(o, p) => p = r
  BY <1>1, OwnAmounts DEF Stated, Totals
<1>4. v # NoCustomer /\ n \notin Customers /\ v \notin Amounts \cup {NoAmount}
  BY ComparisonAssumption DEF ComparisonAssumption
<1>5. ASSUME NEW p, Owner(o, p, order) = v PROVE p = r
  <2>1. p \in Hits(o, v, Range(order))
    BY <1>4, <1>5, OwnerIsNamed
  <2>2. p \in DOMAIN o.pages /\ Says(o.pages[p], v) /\ \A w \in Range(order) \cap Longer[v] : ~Says(o.pages[p], w)
    BY <2>1 DEF Hits
  <2>3. PICK i \in DOMAIN o.pages[p].lines :
          /\ o.pages[p].lines[i].kind = "name"
          /\ o.pages[p].lines[i].of = v \/ o.pages[p].lines[i].of \in Longer[v]
    BY <2>2 DEF Says
  <2>4. CASE o.pages[p].lines[i].of = v
    BY <1>1, <2>2, <2>3, <2>4 DEF On
  <2>5. CASE o.pages[p].lines[i].of \in Longer[v]
    <3> DEFINE w == o.pages[p].lines[i].of
    <3>1. p \in On(o, w, "name")
      BY <2>2, <2>3 DEF On
    <3>2. w \in Range(order)
      BY <2>5, <3>1 DEF InOnePiece
    <3>3. Says(o.pages[p], w)
      BY <2>3 DEF Says
    <3> QED
      BY <2>2, <2>5, <3>2, <3>3
  <2> QED
    BY <2>3, <2>4, <2>5
<1>6. ASSUME NEW p, Owner(o, p, order) # NoCustomer PROVE Owner(o, p, order) \in Customers
  BY <1>6, OwnerIsNamed
<1>7. ASSUME NEW p \in CarriedOver(o) PROVE p - 1 # r
  BY <1>2, <1>7 DEF CarriedOver
<1>8. \A p \in CarriedOver(o) : p \in DOMAIN o.pages /\ p - 1 \in DOMAIN o.pages /\ Stated(o, p - 1) # {}
  <2> TAKE p \in CarriedOver(o)
  <2>1. p \in DOMAIN o.pages /\ p > 1 /\ Stated(o, p - 1) # {}
    BY DEF CarriedOver
  <2>2. p \in 1..Len(o.pages) /\ DOMAIN o.pages = 1..Len(o.pages)
    BY <2>1, SeqParts
  <2> QED
    BY <2>1, <2>2
<1>9. ASSUME NEW p \in CarriedOver(o)
      PROVE  LET blamed == IF Owner(o, p - 1, order) # NoCustomer THEN Owner(o, p - 1, order)
                           ELSE CHOOSE m \in Stated(o, p - 1) : TRUE
             IN  blamed # v /\ blamed # n
  <2>1. CASE Owner(o, p - 1, order) # NoCustomer
    <3>1. Owner(o, p - 1, order) # v
      BY <1>5, <1>7, <1>9
    <3>2. Owner(o, p - 1, order) # n
      BY <1>4, <1>6, <2>1
    <3> QED
      BY <2>1, <3>1, <3>2
  <2>2. CASE Owner(o, p - 1, order) = NoCustomer
    <3> DEFINE m == CHOOSE x \in Stated(o, p - 1) : TRUE
    <3>1. m \in Stated(o, p - 1)
      BY <1>8, <1>9
    <3>2. m # n
      BY <1>3, <1>7, <1>8, <1>9, <3>1
    <3>3. m \in Amounts
      <4>1. PICK i \in DOMAIN o.pages[p - 1].lines : m = o.pages[p - 1].lines[i].amount /\ m # NoAmount
        BY <3>1 DEF Stated, Amount
      <4>2. o.pages[p - 1].lines[i] \in Lines
        BY <1>8, <1>9, <4>1, LinesOfPages
      <4> HIDE DEF m
      <4>3. o.pages[p - 1].lines[i].amount \in Amounts \cup {NoAmount}
        BY <4>2 DEF Lines
      <4> QED
        BY <4>1, <4>3
    <3> QED
      BY <1>4, <2>2, <3>2, <3>3
  <2> QED
    BY <2>1, <2>2
<1>10. ASSUME NEW p \in DOMAIN o.pages \ CarriedOver(o), Stranded(o, p, order)
       PROVE  Owner(o, p - 1, order) # v /\ Owner(o, p - 1, order) # n
  <2>1. Owner(o, p - 1, order) # NoCustomer /\ p > 1
    BY <1>10 DEF Stranded
  <2>2. Owner(o, p - 1, order) # n
    BY <1>4, <1>6, <2>1
  <2>3. ASSUME Owner(o, p - 1, order) = v PROVE FALSE
    <3>1. p - 1 = r /\ p # r
      BY <1>5, <2>1, <2>3, <1>10, LinesOfPages
    <3>2. Claims(o, p - 1) = {n}
      BY <1>2, <3>1 DEF Claims
    <3>3. Totals(o, p) = {} \/ n \in Totals(o, p)
      BY <1>10, <3>2 DEF Stranded
    <3>4. Totals(o, p) # {}
      <4>1. PICK i \in DOMAIN o.pages[p].lines : o.pages[p].lines[i].kind = "total"
        BY <1>10 DEF Stranded, Content
      <4> DEFINE x == <<p, i>>
      <4>2. x \in Places(o) /\ At(o, x) = o.pages[p].lines[i]
        BY <1>10 DEF Places, At
      <4> HIDE DEF x
      <4>3. o.pages[p].lines[i].amount # NoAmount
        BY <4>1, <4>2 DEF InOnePiece
      <4> QED
        BY <4>1, <4>3 DEF Totals, Amount
    <3> QED
      BY <1>3, <1>10, <3>1, <3>3, <3>4
  <2> QED
    BY <2>2, <2>3
<1> QED
  BY <1>9, <1>10 DEF Orphans

-----------------------------------------------------------------------------
(* The match of the pages one by one.                                      *)
Score(o, c, p, q) == Overlap(Texts(c.pages[q]), Texts(o.pages[p]))
Best(o, c, start, q) ==
  {p \in start..Len(o.pages) :
     /\ Score(o, c, p, q) >= 40
     /\ \A r \in start..Len(o.pages) : \/ Score(o, c, r, q) < Score(o, c, p, q)
                                       \/ Score(o, c, r, q) = Score(o, c, p, q) /\ p <= r}
Matched(o, c, before, q) ==
  IF Best(o, c, before.start, q) = {} THEN before
  ELSE LET p == CHOOSE r \in Best(o, c, before.start, q) : TRUE
       IN  [start |-> p, pairs |-> before.pairs \cup {<<p, q>>}]
Matches(o, c, match, n) ==
  match = [q \in 0..n |-> IF q = 0 THEN [start |-> 1, pairs |-> {}] ELSE Matched(o, c, match[q - 1], q)]

LEMMA MatchesExist ==
  ASSUME NEW o, NEW c, NEW n \in Nat
  PROVE  \E match : Matches(o, c, match, n)
<1> DEFINE Unmatched == {k \in Nat : ~\E match : Matches(o, c, match, k)}
<1>1. ASSUME Unmatched # {} PROVE FALSE
  <2>1. PICK m \in Unmatched : \A k \in Unmatched : m <= k
    <3>1. Unmatched \in SUBSET Nat
      OBVIOUS
    <3> HIDE DEF Unmatched
    <3> QED
      BY <1>1, <3>1, LeastNumber
  <2>2. CASE m = 0
    <3> DEFINE match == [q \in 0..0 |-> [start |-> 1, pairs |-> {}]]
    <3>1. Matches(o, c, match, 0)
      BY DEF Matches
    <3> QED
      BY <2>2, <3>1
  <2>3. CASE m > 0
    <3>1. PICK before : Matches(o, c, before, m - 1)
      BY <2>1, <2>3
    <3> DEFINE match == [q \in 0..m |-> IF q < m THEN before[q] ELSE Matched(o, c, before[q - 1], q)]
    <3>2. \A q \in 0..(m - 1) : before[q] = IF q = 0 THEN [start |-> 1, pairs |-> {}]
                                            ELSE Matched(o, c, before[q - 1], q)
      BY <3>1 DEF Matches
    <3>3. \A q \in 0..m : match[q] = IF q = 0 THEN [start |-> 1, pairs |-> {}]
                                     ELSE Matched(o, c, match[q - 1], q)
      BY <2>3, <3>2
    <3>4. match = [q \in 0..m |-> match[q]]
      OBVIOUS
    <3> HIDE DEF match
    <3>5. Matches(o, c, match, m)
      BY <3>3, <3>4 DEF Matches
    <3> QED
      BY <3>5
  <2> QED
    BY <2>2, <2>3
<1> QED
  BY <1>1

LEMMA PairsAreMatches ==
  ASSUME NEW o, NEW c, Len(c.pages) \in Nat
  PROVE  \E match : Matches(o, c, match, Len(c.pages)) /\ PairPages(o, c) = match[Len(c.pages)].pairs
<1> DEFINE match == CHOOSE m : Matches(o, c, m, Len(c.pages))
<1>1. Matches(o, c, match, Len(c.pages))
  BY MatchesExist
<1>2. PairPages(o, c) = match[Len(c.pages)].pairs
  BY DEF PairPages, Matches, Matched, Best, Score
<1> QED
  BY <1>1, <1>2

-----------------------------------------------------------------------------
(* A page overlaps itself in full.                                         *)
LEMMA WholePercent ==
  ASSUME NEW n \in Nat \ {0} PROVE (100 * n) \div n = 100
OBVIOUS

LEMMA ShareIsNumber ==
  ASSUME NEW m \in Nat, NEW n \in Nat \ {0} PROVE m \div n \in Int
OBVIOUS

LEMMA TextsAreFinite ==
  ASSUME NEW d, d.pages \in Seq(Pages), NEW p \in DOMAIN d.pages
  PROVE  IsFiniteSet(Texts(d.pages[p]))
<1> DEFINE lines == d.pages[p].lines
           n == Len(lines)
           texts == [i \in 1..n |-> Text(lines[i])]
<1>1. n \in Nat /\ DOMAIN lines = 1..n
  BY LinesOfPages
<1> HIDE DEF n
<1>2. IsFiniteSet(1..n)
  BY <1>1, FS_Interval
<1>3. Texts(d.pages[p]) = {texts[i] : i \in 1..n}
  BY <1>1 DEF Texts
<1>4. texts \in Surjection(1..n, {texts[i] : i \in 1..n})
  BY DEF Surjection
<1> QED
  BY <1>2, <1>3, <1>4, FS_Surjection

LEMMA OwnScore ==
  ASSUME NEW d, d.pages \in Seq(Pages), NEW p \in DOMAIN d.pages
  PROVE  Score(d, d, p, p) \in {0, 100} /\ (Score(d, d, p, p) = 0 <=> Texts(d.pages[p]) = {})
<1> DEFINE t == Texts(d.pages[p])
           k == Cardinality(t)
<1>1. k \in Nat /\ (k = 0 <=> t = {})
  BY TextsAreFinite, FS_CardinalityType, FS_EmptySet
<1>2. Score(d, d, p, p) = IF k = 0 THEN 0 ELSE (100 * k) \div k
  <2>1. t \cap t = t
    OBVIOUS
  <2> QED
    BY <2>1 DEF Score, Overlap
<1> HIDE DEF k
<1> QED
  BY <1>1, <1>2, WholePercent

LEMMA OtherScore ==
  ASSUME NEW d, d.pages \in Seq(Pages), NEW p \in DOMAIN d.pages, NEW q \in DOMAIN d.pages
  PROVE  Score(d, d, p, q) \in Int /\ (Texts(d.pages[q]) = {} => Score(d, d, p, q) = 0)
<1> DEFINE a == Texts(d.pages[q])
           b == Texts(d.pages[p])
           least == IF Cardinality(a) < Cardinality(b) THEN Cardinality(a) ELSE Cardinality(b)
<1>1. Cardinality(a) \in Nat /\ Cardinality(b) \in Nat /\ Cardinality(a \cap b) \in Nat
  <2>1. IsFiniteSet(a) /\ IsFiniteSet(b) /\ a \cap b \subseteq a
    BY TextsAreFinite
  <2> QED
    BY <2>1, FS_Subset, FS_CardinalityType
<1>2. a = {} => Cardinality(a) = 0
  BY FS_EmptySet
<1>3. Score(d, d, p, q) = IF least = 0 THEN 0 ELSE (100 * Cardinality(a \cap b)) \div least
  BY DEF Score, Overlap
<1> HIDE DEF a, b
<1>4. least \in Nat /\ 100 * Cardinality(a \cap b) \in Nat /\ (a = {} => least = 0)
  BY <1>1, <1>2
<1> HIDE DEF least
<1>5. Score(d, d, p, q) \in Int /\ (a = {} => Score(d, d, p, q) = 0)
  BY <1>3, <1>4, ShareIsNumber
<1> QED
  BY <1>5 DEF a

(* Pages that tell each other apart are each paired with themselves.       *)
LEMMA PairedWithItself ==
  ASSUME NEW d, d.pages \in Seq(Pages), Telling(d)
  PROVE  \A x \in PairPages(d, d) : x[1] = x[2]
<1> DEFINE n == Len(d.pages)
<1>1. n \in Nat /\ DOMAIN d.pages = 1..n
  BY SeqParts
<1> HIDE DEF n
<1>2. PICK match : Matches(d, d, match, n) /\ PairPages(d, d) = match[n].pairs
  BY <1>1, PairsAreMatches DEF n
<1>3. ASSUME NEW q \in 1..n, NEW start \in 1..q
      PROVE  Best(d, d, start, q) \subseteq {q}
  <2>1. ASSUME NEW p \in Best(d, d, start, q), p # q PROVE FALSE
    <3>1. p \in 1..n /\ Score(d, d, p, q) >= 40
      BY <1>1, <1>3, <2>1 DEF Best, n
    <3> p \in DOMAIN d.pages /\ q \in DOMAIN d.pages
      BY <1>1, <3>1
    <3> DEFINE score == Score(d, d, p, q)
    <3>6. score \in Int /\ (Texts(d.pages[q]) = {} => score = 0)
      BY OtherScore
    <3> HIDE DEF score
    <3>7. score >= 40
      BY <3>1 DEF score
    <3>2. Texts(d.pages[q]) # {}
      BY <3>6, <3>7
    <3>3. Score(d, d, q, q) = 100
      BY <1>1, <3>2, OwnScore
    <3>4. score < 100
      BY <2>1 DEF Telling, Score, score
    <3>5. Score(d, d, q, q) < score \/ Score(d, d, q, q) = score
      BY <1>1, <1>3, <2>1 DEF Best, n, score
    <3> QED
      BY <3>3, <3>4, <3>5, <3>6
  <2> QED
    BY <2>1
<1> DEFINE Itself(q) == /\ match[q].start \in 1..(IF q = 0 THEN 1 ELSE q)
                        /\ \A x \in match[q].pairs : x[1] = x[2]
           Wrong == {q \in 0..n : ~Itself(q)}
<1>4. \A q \in 0..n : match[q] = IF q = 0 THEN [start |-> 1, pairs |-> {}]
                                 ELSE Matched(d, d, match[q - 1], q)
  BY <1>1, <1>2 DEF Matches
<1>5. Itself(0)
  BY <1>1, <1>4
<1>6. ASSUME NEW q \in 1..n, Itself(q - 1) PROVE Itself(q)
  <2> DEFINE before == match[q - 1]
  <2>1. match[q] = Matched(d, d, before, q)
    BY <1>1, <1>4
  <2>2. before.start \in 1..q /\ \A x \in before.pairs : x[1] = x[2]
    BY <1>1, <1>6
  <2> HIDE DEF before
  <2>3. Best(d, d, before.start, q) \subseteq {q}
    BY <1>3, <2>2
  <2>4. CASE Best(d, d, before.start, q) = {}
    BY <1>1, <2>1, <2>2, <2>4 DEF Matched
  <2>5. CASE Best(d, d, before.start, q) = {q}
    <3>1. (CHOOSE r \in Best(d, d, before.start, q) : TRUE) = q
      BY <2>5
    <3>2. match[q] = [start |-> q, pairs |-> before.pairs \cup {<<q, q>>}]
      BY <2>1, <2>5, <3>1 DEF Matched
    <3> QED
      BY <1>1, <2>2, <3>2
  <2> QED
    BY <2>3, <2>4, <2>5
<1>7. ASSUME Wrong # {} PROVE FALSE
  <2>1. PICK m \in Wrong : \A k \in Wrong : m <= k
    <3>1. Wrong \in SUBSET Nat
      BY <1>1
    <3> HIDE DEF Wrong
    <3> QED
      BY <1>7, <3>1, LeastNumber
  <2> HIDE DEF Itself
  <2>2. m # 0 /\ m \in 0..n
    BY <1>5, <2>1
  <2>3. m \in 1..n /\ m - 1 \in 0..n /\ ~(m <= m - 1)
    BY <1>1, <2>2
  <2>4. Itself(m - 1)
    BY <2>1, <2>3
  <2> QED
    BY <1>6, <2>1, <2>3, <2>4
<1> QED
  BY <1>1, <1>2, <1>7

-----------------------------------------------------------------------------
LEMMA NoFinding == ASSUME NEW severity, NEW code PROVE Finding(severity, code, FALSE) = {}
BY DEF Finding

LEMMA PlacesAreFinite ==
  ASSUME NEW d, d.pages \in Seq(Pages)
  PROVE  IsFiniteSet(Places(d))
<1> DEFINE n == Len(d.pages)
           Of(p) == {<<p, i>> : i \in DOMAIN d.pages[p].lines}
           parts == [p \in 1..n |-> Of(p)]
           all == {parts[p] : p \in 1..n}
<1>1. n \in Nat /\ DOMAIN d.pages = 1..n
  BY SeqParts
<1>2. \A p \in 1..n : IsFiniteSet(Of(p))
  <2> TAKE p \in 1..n
  <2> DEFINE k == Len(d.pages[p].lines)
             places == [i \in 1..k |-> <<p, i>>]
  <2>1. k \in Nat /\ DOMAIN d.pages[p].lines = 1..k
    BY <1>1, LinesOfPages
  <2> HIDE DEF k
  <2>2. IsFiniteSet(1..k)
    BY <2>1, FS_Interval
  <2>3. Of(p) = {places[i] : i \in 1..k}
    BY <2>1
  <2> DEFINE image == {places[i] : i \in 1..k}
  <2>4. places \in Surjection(1..k, image)
    BY DEF Surjection
  <2> HIDE DEF places, image
  <2>5. IsFiniteSet(image)
    BY <2>2, <2>4, FS_Surjection
  <2> QED
    BY <2>3, <2>5 DEF image
<1>3. Places(d) = UNION all
  BY <1>1 DEF Places
<1> HIDE DEF n, Of
<1>4. IsFiniteSet(1..n)
  BY <1>1, FS_Interval
<1>5. parts \in Surjection(1..n, all)
  BY DEF Surjection
<1>6. IsFiniteSet(all)
  <2> HIDE DEF parts, all
  <2> QED
    BY <1>4, <1>5, FS_Surjection
<1>7. \A x \in all : IsFiniteSet(x)
  BY <1>2
<1> HIDE DEF all
<1> QED
  BY <1>3, <1>6, <1>7, FS_UNION

LEMMA SameNumbers ==
  ASSUME NEW d, d.pages \in Seq(Pages), Figures(d) > 0
  PROVE  NumbersVerdict(d, d) = "PASS"
<1>1. ASSUME NEW m PROVE (Count(d, m) + 1)..Count(d, m) = {}
  <2> DEFINE k == Count(d, m)
  <2>1. k \in Nat
    <3>1. IsFiniteSet({x \in Places(d) : At(d, x).amount = m})
      BY PlacesAreFinite, FS_Subset
    <3> QED
      BY <3>1, FS_CardinalityType DEF Count
  <2> HIDE DEF k
  <2>2. (k + 1)..k = {}
    BY <2>1
  <2> QED
    BY <2>2 DEF k
<1> DEFINE missed == UNION {{<<m, k>> : k \in (Count(d, m) + 1)..Count(d, m)} : m \in Amounts}
<1>2. missed = {}
  BY <1>1
<1>3. Cardinality(missed) = 0
  BY <1>2, FS_EmptySet
<1>4. ~(Figures(d) = 0)
  <2>1. IsFiniteSet({x \in Places(d) : At(d, x).amount # NoAmount})
    BY PlacesAreFinite, FS_Subset
  <2>2. Figures(d) \in Nat
    BY <2>1, FS_CardinalityType DEF Figures
  <2> QED
    BY <2>2
<1> QED
  BY <1>3, <1>4 DEF NumbersVerdict

LEMMA NothingMissing ==
  ASSUME NEW d, d.pages \in Seq(Pages)
  PROVE  MissingLines(d, d) = {} /\ MovedLines(d, d) = {}
<1>1. \A x \in Places(d) : IsPrinted(d, At(d, x))
  BY DEF Places, At, IsPrinted, Texts
<1> QED
  BY <1>1 DEF MissingLines, MovedLines

LEMMA NothingSparser ==
  ASSUME NEW d, d.pages \in Seq(Pages)
  PROVE  ~(Cardinality(Sparse(d)) > Cardinality(Sparse(d)) + SparseSlack)
<1> DEFINE n == Len(d.pages)
<1>1. n \in Nat /\ DOMAIN d.pages = 1..n
  BY SeqParts
<1> HIDE DEF n
<1>2. IsFiniteSet(Sparse(d))
  <2>1. IsFiniteSet(1..n)
    BY <1>1, FS_Interval
  <2> QED
    BY <1>1, <2>1, FS_Subset DEF Sparse
<1>3. Cardinality(Sparse(d)) \in Nat
  BY <1>2, FS_CardinalityType
<1> QED
  BY <1>3, ComparisonAssumption DEF ComparisonAssumption

LEMMA SameGroups ==
  ASSUME NEW d, NEW order, IsFiniteSet(DOMAIN order)
  PROVE  GroupFindings(d, d, order) = {}
<1> DEFINE tenth == Cardinality(DOMAIN order) \div 10
<1>1. tenth \in Nat
  <2>1. Cardinality(DOMAIN order) \in Nat
    BY FS_CardinalityType
  <2> QED
    BY <2>1
<1>2. Cardinality(Drifted(d, d, Range(order))) = 0
  <2>1. Drifted(d, d, Range(order)) = {}
    BY DEF Drifted
  <2> QED
    BY <2>1, FS_EmptySet
<1>3. Rebroken(d, d, Range(order)) = {} /\ Orphans(d, order) \ Orphans(d, order) = {}
  BY DEF Rebroken
<1> HIDE DEF tenth
<1>4. ~(0 > IF tenth > DriftSlack THEN tenth ELSE DriftSlack)
  BY <1>1, ComparisonAssumption DEF ComparisonAssumption
<1> QED
  BY <1>2, <1>3, <1>4 DEF GroupFindings, Finding, tenth

LEMMA SamePages ==
  ASSUME NEW d, d.pages \in Seq(Pages), NEW order
  PROVE  ~Share(Apart(d, d), Len(d.pages)) /\ PageFindings(d, d, order) = {}
<1>1. Len(d.pages) \in Nat
  BY SeqParts
<1>2. Apart(d, d) = 0
  BY <1>1 DEF Apart, Exceeds
<1>3. ~Share(Apart(d, d), Len(d.pages))
  BY <1>1, <1>2 DEF Share
<1> QED
  BY <1>3 DEF PageFindings, Finding

LEMMA SameLook ==
  ASSUME NEW d, d.pages \in Seq(Pages), Telling(d), NEW sees \in BOOLEAN
  PROVE  \A f \in Appearance(d, d, sees) : f.severity = "info"
<1> DEFINE pairs == IF sees THEN PairPages(d, d) ELSE {}
           differ == {x \in pairs : d.pages[x[1]].look # d.pages[x[2]].look}
<1>1. \A x \in pairs : x[1] = x[2]
  BY PairedWithItself
<1>2. differ = {}
  BY <1>1
<1>3. Appearance(d, d, sees) = Finding("warning", "appearance", differ # {})
                                 \cup Finding("info", "appearance", pairs = {})
  BY DEF Appearance
<1> HIDE DEF pairs, differ
<1> QED
  BY <1>2, <1>3 DEF Finding

(* A render beside one that prints the same is given no finding but what   *)
(* is only information.                                                    *)
LEMMA SameIsShipped ==
  ASSUME NEW d, d.pages \in Seq(Pages), Telling(d), NEW sees \in BOOLEAN,
         NEW order, IsFiniteSet(DOMAIN order)
  PROVE  Verdict(Findings(d, d, order, sees)) = "SHIP"
<1>1. NumbersVerdict(d, d) = "PASS"
  BY SameNumbers DEF Telling
<1>2. Finding("error", "numbers", NumbersVerdict(d, d) = "FAIL") = {}
      /\ Finding("warning", "numbers", NumbersVerdict(d, d) = "NEAR") = {}
  BY <1>1 DEF Finding
<1>3. Finding("error", "missing-content", MissingLines(d, d) # {}) = {}
      /\ Finding("warning", "moved-content", MovedLines(d, d) # {} /\ ~Share(Apart(d, d), Len(d.pages))) = {}
  BY NothingMissing DEF Finding
<1>4. Finding("warning", "widowed-pages",
               Cardinality(Sparse(d)) > Cardinality(Sparse(d)) + SparseSlack) = {}
  BY NothingSparser DEF Finding
<1>5. Finding("info", "paper-size", d.paper # d.paper) = {}
  BY DEF Finding
<1>6. Findings(d, d, order, sees) = Appearance(d, d, sees)
  BY <1>2, <1>3, <1>4, <1>5, SameGroups, SamePages DEF Findings
<1>7. \A f \in Findings(d, d, order, sees) : f.severity = "info"
  BY <1>6, SameLook
<1> QED
  BY <1>7 DEF Verdict

-----------------------------------------------------------------------------
(* A verdict of the gate is that of the findings of the check's own case,  *)
(* and nothing changes either once it is given.                            *)
Answered(c) == verdict[c] \in {"SHIP", "REVIEW"}
VerdictInv ==
  /\ case \in Cases
  /\ stage \in [Checks -> Stages]
  /\ DOMAIN findings = Checks
  /\ verdict \in [Checks -> {"none", "SHIP", "REVIEW", "UNAVAILABLE"}]
  /\ \A c \in Checks :
       /\ stage[c] # "idle" => case[c].how # "idle"
       /\ Answered(c) => /\ stage[c] \in {"annotating", "done"}
                         /\ findings[c] = Compared[case[c]]
                         /\ verdict[c] = Verdict(findings[c])

(* A check that moves on without a new verdict.                            *)
LEMMA StageMoves ==
  ASSUME VerdictInv, NEW c \in Checks, NEW s \in Stages,
         stage[c] # "idle" \/ case[c].how # "idle",
         Answered(c) => s \in {"annotating", "done"},
         stage' = [stage EXCEPT ![c] = s], UNCHANGED <<case, findings, verdict>>
  PROVE  VerdictInv'
BY DEF VerdictInv, Answered, Compared

(* What is compared is the check's own case.                               *)
LEMMA ComparedCase ==
  ASSUME case \in Cases, NEW c \in Checks, case[c].how # "idle"
  PROVE  /\ IsCase(case[c])
         /\ Compared[case[c]] = Findings(case[c].original, case[c].converted, GroupValues(case[c].saved), case[c].sees)
<1>1. IsCase(case[c])
  BY CasesAssumption
<1>2. case[c] \in {f[k] : f \in Cases, k \in Checks}
  OBVIOUS
<1> QED
  BY <1>1, <1>2 DEF Compared

LEMMA VerdictInit == GateInit => VerdictInv
BY DEF GateInit, VerdictInv, Stages, Answered

LEMMA VerdictStep == VerdictInv /\ [GateNext]_gateVars => VerdictInv'
<1> SUFFICES ASSUME VerdictInv, [GateNext]_gateVars PROVE VerdictInv'
  OBVIOUS
<1>1. CASE UNCHANGED gateVars
  BY <1>1 DEF gateVars, VerdictInv, Answered, Compared
<1>2. ASSUME NEW c \in Checks, Ask(c) \/ Step(c) PROVE VerdictInv'
  <2> USE DEF Goes
  <2>0. Answered(c) => stage[c] \in {"annotating", "done"}
    BY DEF VerdictInv
  <2>1. CASE Ask(c)
    <3>1. stage[c] = "idle" /\ case[c].how # "idle" /\ stage' = [stage EXCEPT ![c] = "asked"]
      BY <2>1 DEF Ask
    <3>2. UNCHANGED <<case, findings, verdict>>
      BY <2>1 DEF Ask
    <3> QED
      BY <2>0, <3>1, <3>2, StageMoves DEF Stages
  <2>2. CASE Load(c) \/ Enter(c) \/ Rendered(c)
    <3>1. PICK s \in Stages : /\ stage' = [stage EXCEPT ![c] = s]
                              /\ stage[c] \in {"asked"} \cup Waiting \cup Rendering
      BY <2>2 DEF Load, Enter, Rendered, Stages, Waiting, Rendering, Ended
    <3>2. UNCHANGED <<case, findings, verdict>>
      BY <2>2 DEF Load, Enter, Rendered
    <3>3. stage[c] # "idle" /\ stage[c] \notin {"annotating", "done"}
      BY <3>1 DEF Waiting, Rendering
    <3> QED
      BY <2>0, <3>1, <3>2, <3>3, StageMoves
  <2>3. CASE RenderFails(c)
    <3>1. stage[c] \in Rendering /\ UNCHANGED <<case, findings>>
      BY <2>3 DEF RenderFails
    <3>2. stage[c] \notin {"idle", "annotating", "done"}
      BY <3>1 DEF Rendering
    <3>3. PICK s \in Ended : stage' = [stage EXCEPT ![c] = s]
      BY <2>3 DEF RenderFails, Ended
    <3>4. verdict' = verdict \/ verdict' = [verdict EXCEPT ![c] = "UNAVAILABLE"]
      BY <2>3 DEF RenderFails
    <3>5. CASE verdict' = verdict
      BY <2>0, <3>1, <3>2, <3>3, <3>5, StageMoves DEF Ended, Stages
    <3>6. CASE verdict' = [verdict EXCEPT ![c] = "UNAVAILABLE"]
      <4>1. stage' \in [Checks -> Stages] /\ verdict' \in [Checks -> {"none", "SHIP", "REVIEW", "UNAVAILABLE"}]
        BY <3>3, <3>6 DEF VerdictInv, Stages, Ended
      <4>2. ~Answered(c)'
        BY <3>6 DEF VerdictInv, Answered
      <4> QED
        BY <3>1, <3>2, <3>3, <3>6, <4>1, <4>2 DEF VerdictInv, Answered, Compared
    <3> QED
      BY <3>4, <3>5, <3>6
  <2>4. CASE Compare(c)
    <3> DEFINE found == Compared[case[c]]
    <3>1. stage[c] = "comparing" /\ UNCHANGED case
      BY <2>4 DEF Compare
    <3>2. PICK s \in {"done", "annotating"} : stage' = [stage EXCEPT ![c] = s]
      BY <2>4 DEF Compare
    <3>3. findings' = [findings EXCEPT ![c] = found] /\ verdict' = [verdict EXCEPT ![c] = Verdict(found)]
      BY <2>4 DEF Compare
    <3>5. Compared' = Compared
      BY DEF Compared
    <3>6. Verdict(found) \in {"SHIP", "REVIEW"}
      BY DEF Verdict
    <3> HIDE DEF found
    <3>7. /\ stage' \in [Checks -> Stages]
          /\ DOMAIN findings' = Checks
          /\ verdict' \in [Checks -> {"none", "SHIP", "REVIEW", "UNAVAILABLE"}]
      BY <3>2, <3>3, <3>6 DEF VerdictInv, Stages, Ended
    <3>8. findings'[c] = Compared'[case'[c]] /\ verdict'[c] = Verdict(findings'[c])
      BY <3>1, <3>3, <3>5 DEF VerdictInv, found
    <3> QED
      BY <3>1, <3>2, <3>3, <3>5, <3>7, <3>8 DEF VerdictInv, Answered
  <2>5. CASE Annotate(c)
    <3>1. stage[c] = "annotating" /\ UNCHANGED <<case, findings, verdict>>
      BY <2>5 DEF Annotate
    <3>2. stage' = stage \/ stage' = [stage EXCEPT ![c] = "done"]
      BY <2>5 DEF Annotate
    <3>3. CASE stage' = stage
      BY <3>1, <3>3 DEF VerdictInv, Answered, Compared
    <3>4. CASE stage' = [stage EXCEPT ![c] = "done"]
      BY <3>1, <3>4, StageMoves DEF Stages, Ended
    <3> QED
      BY <3>2, <3>3, <3>4
  <2> QED
    BY <1>2, <2>1, <2>2, <2>3, <2>4, <2>5 DEF Step
<1> QED
  BY <1>1, <1>2 DEF GateNext

LEMMA VerdictHolds == VerdictInv => VerdictIsFair
<1> SUFFICES ASSUME VerdictInv, NEW c \in Checks, Judged(c)
             PROVE  /\ case[c].original = case[c].converted /\ Telling(case[c].original) => verdict[c] = "SHIP"
                    /\ LET values == Range(GroupValues(case[c].saved)) IN
                       \A v \in values :
                         /\ Stranding(case[c].converted, v) # {} /\ InOnePiece(case[c].original, v, values)
                         /\ \E n \in Amounts : Owes(case[c].original, v, n) /\ Owes(case[c].converted, v, n)
                         => Blames(c)
  BY DEF VerdictIsFair, SameRenderShips, StatedTotalIsFollowed
<1> DEFINE o == case[c].original
           k == case[c].converted
           order == GroupValues(case[c].saved)
           sees == case[c].sees
<1>1. case[c].how # "idle"
  BY DEF VerdictInv, Judged
<1>2. IsCase(case[c]) /\ findings[c] = Findings(o, k, order, sees) /\ verdict[c] = Verdict(findings[c])
  BY <1>1, ComparedCase DEF VerdictInv, Judged, Answered
<1>3. /\ o.pages \in Seq(Pages) /\ k.pages \in Seq(Pages) /\ sees \in BOOLEAN
      /\ case[c].saved \in Seq(Customers \cup {NoCustomer})
  BY <1>2 DEF IsCase
<1>4. /\ DOMAIN order \subseteq 1..Len(case[c].saved) /\ IsFiniteSet(DOMAIN order)
      /\ Range(order) \subseteq Customers
  BY <1>3, GroupsAreValues
<1>5. Len(case[c].saved) \in Nat
  BY <1>3, SeqParts
<1> HIDE DEF o, k, order, sees
<1>6. ASSUME o = k, Telling(o) PROVE verdict[c] = "SHIP"
  BY <1>2, <1>3, <1>4, <1>6, SameIsShipped
<1>7. ASSUME NEW v \in Range(order), Stranding(k, v) # {}, InOnePiece(o, v, Range(order)),
             NEW n \in Amounts, Owes(o, v, n), Owes(k, v, n)
      PROVE  [severity |-> "error", code |-> "orphaned-total"] \in findings[c]
  <2> DEFINE b == Len(case[c].saved)
  <2>1. DOMAIN order \subseteq Nat /\ b \in Nat /\ \A i \in DOMAIN order : i <= b
    BY <1>4, <1>5
  <2> HIDE DEF b
  <2>2. v # NoCustomer
    BY <1>4, ComparisonAssumption DEF ComparisonAssumption
  <2>3. v \in Orphans(k, order) \/ n \in Orphans(k, order)
    BY <1>3, <1>7, <2>1, <2>2, SplitIsBlamed
  <2>4. v \notin Orphans(o, order) /\ n \notin Orphans(o, order)
    BY <1>3, <1>4, <1>7, <2>1, WholeIsNotBlamed
  <2>5. Orphans(k, order) \ Orphans(o, order) # {} /\ Range(order) # {}
    BY <2>3, <2>4
  <2>6. [severity |-> "error", code |-> "orphaned-total"] \in GroupFindings(o, k, order)
    BY <2>5 DEF GroupFindings, Finding
  <2>7. [severity |-> "error", code |-> "orphaned-total"] \in Findings(o, k, order, sees)
    BY <2>6 DEF Findings
  <2> QED
    BY <1>2, <2>7
<1> QED
  BY <1>6, <1>7 DEF o, k, order, Blames

(* Whatever the two renders contain: a render of what the original prints  *)
(* ships, and a statement whose total the conversion pushes to the next    *)
(* page is blamed for it.                                                  *)
THEOREM VerdictTheorem == GateSpec => []VerdictIsFair
BY VerdictInit, VerdictStep, VerdictHolds, PTL DEF GateSpec
=============================================================================
