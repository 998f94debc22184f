------------------------- MODULE ExportConversionProofs -------------------------
(***************************************************************************)
(* What a conversion says and writes, for every set of exports: no derived *)
(* port of a step that computes is lost between the export and the file,   *)
(* whatever mapplets it came through and whichever translations failed;    *)
(* the reports and the warnings count what the files hold, though they are *)
(* drawn up from pipelines that the generator then extends; a job runs the *)
(* files of the mappings that its workflow's sessions run; and a table     *)
(* that a Talend component was set up with reaches its step row by row.    *)
(***************************************************************************)
EXTENDS ExportConversion, FiniteSetTheorems, NaturalsInduction, WellFoundedInduction, TLAPS

-----------------------------------------------------------------------------
(* Numbers and lists.  A list is a function from the first numbers; what   *)
(* the library's sequence operators make of lists.                         *)

LEMMA LeastNumber ==
  ASSUME NEW S \in SUBSET Nat, S # {}
  PROVE  \E m \in S : /\ \A n \in S : m <= n
                      /\ m > 0 => m - 1 \in Nat \ S
<1>1. PICK m \in S : \A n \in S : <<n, m>> \notin OpToRel(<, Nat)
  BY NatLessThanWellFounded, WFMin
<1>2. \A n \in S : ~(n < m)
  BY <1>1 DEF OpToRel
<1>3. QED BY <1>2

-----------------------------------------------------------------------------
(* Lists: functions from the first numbers.                                *)
LEMMA ListParts ==
  ASSUME NEW s, IsList(s)
  PROVE  Len(s) \in Nat /\ DOMAIN s = 1..Len(s) /\ s = [k \in 1..Len(s) |-> s[k]]
BY DEF IsList

LEMMA ListOf ==
  ASSUME NEW s, NEW n \in Nat, s = [k \in 1..n |-> s[k]]
  PROVE  IsList(s) /\ Len(s) = n
<1>1. DOMAIN s = 1..n
  OBVIOUS
<1>2. \A k \in 1..n : s[k] \in ToSet(s)
  BY <1>1 DEF ToSet
<1> DEFINE T == ToSet(s)
<1> HIDE DEF T
<1>3. s \in [1..n -> T]
  BY <1>1, <1>2 DEF T
<1>4. QED BY <1>3 DEF T, IsList

LEMMA EmptyList == IsList(<< >>) /\ Len(<< >>) = 0
<1>1. << >> = [k \in 1..0 |-> << >>[k]]
  OBVIOUS
<1>2. QED BY <1>1, ListOf

LEMMA Appended ==
  ASSUME NEW s, NEW x, IsList(s)
  PROVE  LET t == Append(s, x) IN
         /\ IsList(t) /\ Len(t) = Len(s) + 1 /\ t[Len(s) + 1] = x
         /\ \A k \in 1..Len(s) : t[k] = s[k]
<1> DEFINE T == ToSet(s) \cup {x}
<1>1. s \in Seq(T)
  <2>1. \A k \in 1..Len(s) : s[k] \in T
    BY ListParts DEF ToSet
  <2> HIDE DEF T
  <2>2. QED BY <2>1, ListParts
<1> DEFINE t == Append(s, x)
<1>2. x \in T
  OBVIOUS
<1> HIDE DEF T
<1>3. t \in Seq(T) /\ Len(t) = Len(s) + 1 /\ t[Len(s) + 1] = x /\ \A k \in 1..Len(s) : t[k] = s[k]
  BY <1>1, <1>2
<1> HIDE DEF t
<1>4. IsList(t)
  BY <1>3, ListOf
<1>5. QED BY <1>3, <1>4 DEF t

LEMMA Joined ==
  ASSUME NEW s, NEW u, IsList(s), IsList(u)
  PROVE  LET t == s \o u IN
         /\ IsList(t) /\ Len(t) = Len(s) + Len(u)
         /\ \A k \in 1..Len(s) : t[k] = s[k]
         /\ \A k \in 1..Len(u) : t[Len(s) + k] = u[k]
<1> DEFINE T == ToSet(s) \cup ToSet(u)
<1>1. s \in Seq(T) /\ u \in Seq(T)
  <2>1. (\A k \in 1..Len(s) : s[k] \in T) /\ (\A k \in 1..Len(u) : u[k] \in T)
    BY ListParts DEF ToSet
  <2> HIDE DEF T
  <2>2. QED BY <2>1, ListParts
<1> DEFINE t == s \o u
<1> HIDE DEF T
<1>2. t \in Seq(T) /\ Len(t) = Len(s) + Len(u) /\ (\A k \in 1..Len(s) : t[k] = s[k])
      /\ (\A k \in 1..Len(u) : t[Len(s) + k] = u[k])
  BY <1>1
<1> HIDE DEF t
<1>3. IsList(t)
  <2>1. Len(t) \in Nat /\ t = [k \in 1..Len(t) |-> t[k]]
    BY <1>2
  <2>2. QED BY <2>1, ListOf
<1>4. QED BY <1>2, <1>3 DEF t

LEMMA Inserted ==
  ASSUME NEW s, NEW x, IsList(s), NEW place \in 1..Len(s)
  PROVE  LET t == InsertAt(s, place, x) IN
         /\ IsList(t) /\ Len(t) = Len(s) + 1 /\ t[place] = x
         /\ \A k \in 1..(place - 1) : t[k] = s[k]
         /\ \A k \in place..Len(s) : t[k + 1] = s[k]
<1> DEFINE T == ToSet(s) \cup {x}
<1>1. s \in Seq(T) /\ x \in T
  <2>1. \A k \in 1..Len(s) : s[k] \in T
    BY ListParts DEF ToSet
  <2>2. x \in T
    OBVIOUS
  <2> HIDE DEF T
  <2>3. QED BY <2>1, <2>2, ListParts
<1> DEFINE t == InsertAt(s, place, x)
           n == Len(s)
           low == SubSeq(s, 1, place - 1)
           high == SubSeq(s, place, Len(s))
<1> HIDE DEF T
<1>2. n \in Nat /\ place \in 1..n
  BY ListParts
<1>3. low \in Seq(T) /\ Len(low) = place - 1 /\ \A k \in 1..(place - 1) : low[k] = s[k]
  BY <1>1, <1>2
<1>4. high \in Seq(T) /\ Len(high) = n - place + 1 /\ \A k \in 1..(n - place + 1) : high[k] = s[place + k - 1]
  BY <1>1, <1>2
<1>5. t = low \o <<x>> \o high
  BY DEF InsertAt
<1> HIDE DEF low, high, n
<1> DEFINE front == low \o <<x>>
<1>6. front \in Seq(T) /\ Len(front) = place /\ front[place] = x /\ \A k \in 1..(place - 1) : front[k] = s[k]
  BY <1>1, <1>2, <1>3
<1>7. t = front \o high
  BY <1>5
<1> HIDE DEF front, t
<1>8. t \in Seq(T) /\ Len(t) = n + 1
  BY <1>2, <1>4, <1>6, <1>7
<1>9. \A k \in 1..place : t[k] = front[k]
  BY <1>2, <1>4, <1>6, <1>7
<1>10. ASSUME NEW k \in place..n PROVE t[k + 1] = s[k]
  <2>1. t[k + 1] = high[k + 1 - place]
    BY <1>2, <1>4, <1>6, <1>7
  <2>2. QED BY <1>2, <1>4, <2>1
<1>11. IsList(t)
  BY <1>2, <1>8, ListOf
<1>12. QED BY <1>2, <1>6, <1>8, <1>9, <1>10, <1>11 DEF t, n

-----------------------------------------------------------------------------
(* At lists the elements at the places once each.                          *)
LEMMA AtParts ==
  ASSUME NEW s, NEW n \in Nat, NEW places \in SUBSET (1..n)
  PROVE  LET t == At(s, places) IN
         /\ IsFiniteSet(places) /\ Cardinality(places) \in Nat
         /\ IsList(t) /\ Len(t) = Cardinality(places)
         /\ \A k \in 1..Len(t) : \E i \in places : t[k] = s[i]
         /\ \A i \in places : \E k \in 1..Len(t) : t[k] = s[i]
<1> DEFINE c == Cardinality(places)
           Upto(i) == {j \in places : j <= i}
           rank == [i \in places |-> Cardinality(Upto(i))]
           t == At(s, places)
<1>1. IsFiniteSet(places) /\ c \in Nat
  <2>1. IsFiniteSet(1..n)
    BY FS_Interval
  <2>2. QED BY <2>1, FS_Subset, FS_CardinalityType
<1>2. ASSUME NEW i \in places PROVE rank[i] \in 1..c /\ IsFiniteSet(Upto(i))
  <2>1. Upto(i) \in SUBSET places /\ i \in Upto(i)
    OBVIOUS
  <2> HIDE DEF Upto
  <2>2. IsFiniteSet(Upto(i)) /\ Cardinality(Upto(i)) <= c
    BY <1>1, <2>1, FS_Subset
  <2>3. Cardinality(Upto(i)) \in Nat /\ Cardinality(Upto(i)) # 0
    BY <2>1, <2>2, FS_CardinalityType, FS_EmptySet
  <2> DEFINE r == Cardinality(Upto(i))
  <2>4. r \in Nat /\ r # 0 /\ r <= c /\ rank[i] = r
    BY <2>2, <2>3
  <2> HIDE DEF c, r, rank
  <2>5. QED BY <1>1, <2>2, <2>4
<1>3. ASSUME NEW i \in places, NEW j \in places, i < j PROVE rank[i] # rank[j]
  <2>1. Upto(i) \in SUBSET Upto(j) /\ Upto(i) # Upto(j)
    <3>1. i \in Nat /\ j \in Nat /\ \A h \in places : h \in Nat
      OBVIOUS
    <3>2. j \in Upto(j) /\ j \notin Upto(i)
      BY <1>3, <3>1
    <3>3. \A h \in Upto(i) : h \in Upto(j)
      BY <1>3, <3>1
    <3>4. QED BY <3>2, <3>3
  <2>2. IsFiniteSet(Upto(j))
    BY <1>2
  <2> DEFINE low == Upto(i)
             high == Upto(j)
  <2>3. rank[i] = Cardinality(low) /\ rank[j] = Cardinality(high)
    OBVIOUS
  <2> HIDE DEF low, high, rank
  <2>4. Cardinality(low) = Cardinality(high) => low = high
    BY <2>1, <2>2, FS_Subset DEF low, high
  <2>5. low # high
    BY <2>1 DEF low, high
  <2>6. QED BY <2>3, <2>4, <2>5
<1>4. \A i, j \in places : rank[i] = rank[j] => i = j
  <2> SUFFICES ASSUME NEW i \in places, NEW j \in places, rank[i] = rank[j] PROVE i = j
    OBVIOUS
  <2> HIDE DEF rank
  <2>1. ~(i < j) /\ ~(j < i)
    BY <1>3
  <2>2. QED BY <2>1
<1>5. \A k \in 1..c : \E i \in places : rank[i] = k
  <2>1. rank \in Injection(places, 1..c)
    BY <1>2, <1>4 DEF Injection, IsInjective
  <2>2. IsFiniteSet(1..c) /\ Cardinality(1..c) = c
    <3> HIDE DEF c
    <3>1. QED BY <1>1, FS_Interval
  <2> HIDE DEF rank
  <2>3. rank \in Surjection(places, 1..c)
    BY <1>1, <2>1, <2>2, FS_Injection
  <2>4. QED BY <2>3 DEF Surjection
<1>6. t = [k \in 1..c |-> s[CHOOSE i \in places : Cardinality({j \in places : j <= i}) = k]]
  BY DEF At
<1>7. ASSUME NEW k \in 1..c PROVE \E i \in places : rank[i] = k /\ t[k] = s[i]
  <2> DEFINE h == CHOOSE i \in places : Cardinality({j \in places : j <= i}) = k
  <2>1. PICK i \in places : rank[i] = k
    BY <1>5
  <2>2. Cardinality({j \in places : j <= i}) = k
    BY <2>1
  <2>3. h \in places /\ Cardinality({j \in places : j <= h}) = k
    BY <2>2
  <2>4. t[k] = s[h]
    BY <1>6
  <2> HIDE DEF h
  <2>5. rank[h] = k
    BY <2>3
  <2>6. QED BY <2>3, <2>4, <2>5
<1>8. t = [k \in 1..c |-> t[k]]
  BY <1>6
<1> HIDE DEF t, rank, c
<1>9. IsList(t) /\ Len(t) = c
  BY <1>1, <1>8, ListOf
<1>10. ASSUME NEW i \in places PROVE \E k \in 1..c : t[k] = s[i]
  <2>1. rank[i] \in 1..c
    BY <1>2
  <2>2. PICK h \in places : rank[h] = rank[i] /\ t[rank[i]] = s[h]
    BY <1>7, <2>1
  <2>3. h = i
    BY <1>4, <2>2
  <2>4. QED BY <2>1, <2>2, <2>3
<1>11. \A k \in 1..c : \E i \in places : t[k] = s[i]
  BY <1>7
<1>12. QED BY <1>1, <1>9, <1>10, <1>11 DEF t, c

-----------------------------------------------------------------------------
(* A fold of the model is a function on 0..n defined by an equation: one   *)
(* that satisfies it exists for every n, by the least n without.           *)

LEMMA EdgesExist ==
  ASSUME NEW connectors, NEW n \in Nat
  PROVE  \E after : after = [k \in 0..n |-> IF k = 0 THEN << >> ELSE WithEdge(after[k - 1], connectors[k])]
<1> DEFINE Solves(after, m) == after = [k \in 0..m |-> IF k = 0 THEN << >> ELSE WithEdge(after[k - 1], connectors[k])]
           Unsolved == {m \in Nat : ~\E after : Solves(after, m)}
<1>1. ASSUME Unsolved # {} PROVE FALSE
  <2>1. PICK m \in Unsolved : m > 0 => m - 1 \in Nat \ Unsolved
    <3> HIDE DEF Unsolved
    <3>1. Unsolved \in SUBSET Nat
      BY DEF Unsolved
    <3>2. QED BY <1>1, <3>1, LeastNumber
  <2>2. CASE m = 0
    <3>1. Solves([k \in 0..0 |-> << >>], 0)
      OBVIOUS
    <3>2. QED BY <2>2, <3>1
  <2>3. CASE m > 0
    <3>1. m - 1 \in Nat /\ ~(m - 1 \in Unsolved)
      <4> HIDE DEF Unsolved
      <4>1. QED BY <2>1, <2>3
    <3>2. PICK before : Solves(before, m - 1)
      BY <3>1
    <3> DEFINE after == [k \in 0..m |-> IF k < m THEN before[k] ELSE WithEdge(before[k - 1], connectors[k])]
    <3>3. \A k \in 0..m : after[k] = IF k = 0 THEN << >> ELSE WithEdge(after[k - 1], connectors[k])
      BY <2>3, <3>2
    <3>4. Solves(after, m)
      BY <3>3
    <3>5. QED BY <3>4
  <2>4. QED BY <2>2, <2>3
<1>2. QED BY <1>1

LEMMA InstancesExist ==
  ASSUME NEW e, NEW p, NEW instances, NEW n \in Nat
  PROVE  \E after : after = [k \in 0..n |-> IF k = 0 THEN p ELSE WithInstance(e, after[k - 1], instances[k])]
<1> DEFINE Solves(after, m) == after = [k \in 0..m |-> IF k = 0 THEN p ELSE WithInstance(e, after[k - 1], instances[k])]
           Unsolved == {m \in Nat : ~\E after : Solves(after, m)}
<1>1. ASSUME Unsolved # {} PROVE FALSE
  <2>1. PICK m \in Unsolved : m > 0 => m - 1 \in Nat \ Unsolved
    <3> HIDE DEF Unsolved
    <3>1. Unsolved \in SUBSET Nat
      BY DEF Unsolved
    <3>2. QED BY <1>1, <3>1, LeastNumber
  <2>2. CASE m = 0
    <3>1. Solves([k \in 0..0 |-> p], 0)
      OBVIOUS
    <3>2. QED BY <2>2, <3>1
  <2>3. CASE m > 0
    <3>1. m - 1 \in Nat /\ ~(m - 1 \in Unsolved)
      <4> HIDE DEF Unsolved
      <4>1. QED BY <2>1, <2>3
    <3>2. PICK before : Solves(before, m - 1)
      BY <3>1
    <3> DEFINE after == [k \in 0..m |-> IF k < m THEN before[k] ELSE WithInstance(e, before[k - 1], instances[k])]
    <3>3. \A k \in 0..m : after[k] = IF k = 0 THEN p ELSE WithInstance(e, after[k - 1], instances[k])
      BY <2>3, <3>2
    <3>4. Solves(after, m)
      BY <3>3
    <3>5. QED BY <3>4
  <2>4. QED BY <2>2, <2>3
<1>2. QED BY <1>1

LEMMA LegsExist ==
  ASSUME NEW p, NEW t, NEW n \in Nat
  PROVE  \E after : after = [k \in 0..n |-> IF k = 0 THEN p ELSE WithSorter(after[k - 1], t, k)]
<1> DEFINE Solves(after, m) == after = [k \in 0..m |-> IF k = 0 THEN p ELSE WithSorter(after[k - 1], t, k)]
           Unsolved == {m \in Nat : ~\E after : Solves(after, m)}
<1>1. ASSUME Unsolved # {} PROVE FALSE
  <2>1. PICK m \in Unsolved : m > 0 => m - 1 \in Nat \ Unsolved
    <3> HIDE DEF Unsolved
    <3>1. Unsolved \in SUBSET Nat
      BY DEF Unsolved
    <3>2. QED BY <1>1, <3>1, LeastNumber
  <2>2. CASE m = 0
    <3>1. Solves([k \in 0..0 |-> p], 0)
      OBVIOUS
    <3>2. QED BY <2>2, <3>1
  <2>3. CASE m > 0
    <3>1. m - 1 \in Nat /\ ~(m - 1 \in Unsolved)
      <4> HIDE DEF Unsolved
      <4>1. QED BY <2>1, <2>3
    <3>2. PICK before : Solves(before, m - 1)
      BY <3>1
    <3> DEFINE after == [k \in 0..m |-> IF k < m THEN before[k] ELSE WithSorter(before[k - 1], t, k)]
    <3>3. \A k \in 0..m : after[k] = IF k = 0 THEN p ELSE WithSorter(after[k - 1], t, k)
      BY <2>3, <3>2
    <3>4. Solves(after, m)
      BY <3>3
    <3>5. QED BY <3>4
  <2>4. QED BY <2>2, <2>3
<1>2. QED BY <1>1

LEMMA SortersExist ==
  ASSUME NEW p, NEW targets, NEW n \in Nat
  PROVE  \E after : after = [k \in 0..n |-> IF k = 0 THEN p ELSE LegsSorted(after[k - 1], targets[k])]
<1> DEFINE Solves(after, m) == after = [k \in 0..m |-> IF k = 0 THEN p ELSE LegsSorted(after[k - 1], targets[k])]
           Unsolved == {m \in Nat : ~\E after : Solves(after, m)}
<1>1. ASSUME Unsolved # {} PROVE FALSE
  <2>1. PICK m \in Unsolved : m > 0 => m - 1 \in Nat \ Unsolved
    <3> HIDE DEF Unsolved
    <3>1. Unsolved \in SUBSET Nat
      BY DEF Unsolved
    <3>2. QED BY <1>1, <3>1, LeastNumber
  <2>2. CASE m = 0
    <3>1. Solves([k \in 0..0 |-> p], 0)
      OBVIOUS
    <3>2. QED BY <2>2, <3>1
  <2>3. CASE m > 0
    <3>1. m - 1 \in Nat /\ ~(m - 1 \in Unsolved)
      <4> HIDE DEF Unsolved
      <4>1. QED BY <2>1, <2>3
    <3>2. PICK before : Solves(before, m - 1)
      BY <3>1
    <3> DEFINE after == [k \in 0..m |-> IF k < m THEN before[k] ELSE LegsSorted(before[k - 1], targets[k])]
    <3>3. \A k \in 0..m : after[k] = IF k = 0 THEN p ELSE LegsSorted(after[k - 1], targets[k])
      BY <2>3, <3>2
    <3>4. Solves(after, m)
      BY <3>3
    <3>5. QED BY <3>4
  <2>4. QED BY <2>2, <2>3
<1>2. QED BY <1>1

LEMMA LookupsExist ==
  ASSUME NEW p, NEW lookups, NEW n \in Nat
  PROVE  \E after : after = [k \in 0..n |-> IF k = 0 THEN p ELSE WithLookupSource(after[k - 1], lookups[k])]
<1> DEFINE Solves(after, m) == after = [k \in 0..m |-> IF k = 0 THEN p ELSE WithLookupSource(after[k - 1], lookups[k])]
           Unsolved == {m \in Nat : ~\E after : Solves(after, m)}
<1>1. ASSUME Unsolved # {} PROVE FALSE
  <2>1. PICK m \in Unsolved : m > 0 => m - 1 \in Nat \ Unsolved
    <3> HIDE DEF Unsolved
    <3>1. Unsolved \in SUBSET Nat
      BY DEF Unsolved
    <3>2. QED BY <1>1, <3>1, LeastNumber
  <2>2. CASE m = 0
    <3>1. Solves([k \in 0..0 |-> p], 0)
      OBVIOUS
    <3>2. QED BY <2>2, <3>1
  <2>3. CASE m > 0
    <3>1. m - 1 \in Nat /\ ~(m - 1 \in Unsolved)
      <4> HIDE DEF Unsolved
      <4>1. QED BY <2>1, <2>3
    <3>2. PICK before : Solves(before, m - 1)
      BY <3>1
    <3> DEFINE after == [k \in 0..m |-> IF k < m THEN before[k] ELSE WithLookupSource(before[k - 1], lookups[k])]
    <3>3. \A k \in 0..m : after[k] = IF k = 0 THEN p ELSE WithLookupSource(after[k - 1], lookups[k])
      BY <2>3, <3>2
    <3>4. Solves(after, m)
      BY <3>3
    <3>5. QED BY <3>4
  <2>4. QED BY <2>2, <2>3
<1>2. QED BY <1>1

LEMMA TotalsExist ==
  ASSUME NEW counts, NEW n \in Nat
  PROVE  \E after : after = [k \in 0..n |-> IF k = 0 THEN 0 ELSE after[k - 1] + counts[k]]
<1> DEFINE Solves(after, m) == after = [k \in 0..m |-> IF k = 0 THEN 0 ELSE after[k - 1] + counts[k]]
           Unsolved == {m \in Nat : ~\E after : Solves(after, m)}
<1>1. ASSUME Unsolved # {} PROVE FALSE
  <2>1. PICK m \in Unsolved : m > 0 => m - 1 \in Nat \ Unsolved
    <3> HIDE DEF Unsolved
    <3>1. Unsolved \in SUBSET Nat
      BY DEF Unsolved
    <3>2. QED BY <1>1, <3>1, LeastNumber
  <2>2. CASE m = 0
    <3>1. Solves([k \in 0..0 |-> 0], 0)
      OBVIOUS
    <3>2. QED BY <2>2, <3>1
  <2>3. CASE m > 0
    <3>1. m - 1 \in Nat /\ ~(m - 1 \in Unsolved)
      <4> HIDE DEF Unsolved
      <4>1. QED BY <2>1, <2>3
    <3>2. PICK before : Solves(before, m - 1)
      BY <3>1
    <3> DEFINE after == [k \in 0..m |-> IF k < m THEN before[k] ELSE before[k - 1] + counts[k]]
    <3>3. \A k \in 0..m : after[k] = IF k = 0 THEN 0 ELSE after[k - 1] + counts[k]
      BY <2>3, <3>2
    <3>4. Solves(after, m)
      BY <3>3
    <3>5. QED BY <3>4
  <2>4. QED BY <2>2, <2>3
<1>2. QED BY <1>1

-----------------------------------------------------------------------------
(* Induction along a fold, the definitions that names find, and the        *)
(* shape of what the parsers make.                                         *)

(* Induction along a fold, over the set of the steps that have been proved.*)
LEMMA StepByStep ==
  ASSUME NEW n \in Nat, NEW S, 0 \in S, \A k \in 1..n : k - 1 \in S => k \in S
  PROVE  \A k \in 0..n : k \in S
<1> DEFINE Missing == {k \in Nat : k \in 0..n /\ k \notin S}
<1>1. ASSUME Missing # {} PROVE FALSE
  <2>1. PICK m \in Missing : m > 0 => m - 1 \in Nat \ Missing
    <3>1. Missing \in SUBSET Nat
      OBVIOUS
    <3> HIDE DEF Missing
    <3>2. QED BY <1>1, <3>1, LeastNumber
  <2>2. m \in 1..n /\ m - 1 \in 0..n
    OBVIOUS
  <2>3. m - 1 \in S
    BY <2>1, <2>2
  <2>4. QED BY <2>2, <2>3
<1>2. QED BY <1>1

LEMMA LastOf ==
  ASSUME NEW n \in Nat, NEW S \in SUBSET (1..n), S # {}
  PROVE  Max(S) \in S /\ \A i \in S : i <= Max(S)
<1> DEFINE T == {n - i : i \in S}
<1>1. T \in SUBSET Nat /\ T # {}
  <2>1. \A i \in S : n - i \in Nat
    OBVIOUS
  <2>2. QED BY <2>1
<1> HIDE DEF T
<1>2. PICK m \in T : \A k \in T : m <= k
  BY <1>1, LeastNumber
<1>3. PICK i \in S : m = n - i
  BY <1>2 DEF T
<1>4. \A j \in S : i >= j
  <2> TAKE j \in S
  <2>1. n - j \in T
    BY DEF T
  <2>2. n - i <= n - j
    BY <1>2, <1>3, <2>1
  <2>3. i \in Nat /\ j \in Nat
    OBVIOUS
  <2>4. QED BY <2>2, <2>3
<1>5. Max(S) = CHOOSE x \in S : \A y \in S : x >= y
  BY DEF Max
<1>6. Max(S) \in S /\ \A j \in S : Max(S) >= j
  BY <1>4, <1>5
<1>7. QED BY <1>6

LEMMA FirstOf ==
  ASSUME NEW S \in SUBSET Nat, S # {}
  PROVE  Min(S) \in S /\ \A i \in S : Min(S) <= i
<1>1. PICK m \in S : \A k \in S : m <= k
  BY LeastNumber
<1>2. Min(S) = CHOOSE x \in S : \A y \in S : x <= y
  BY DEF Min
<1>3. QED BY <1>1, <1>2

(* A definition that is there is found, the last one of the name.          *)
LEMMA DefinitionFound ==
  ASSUME NEW defs, IsList(defs), NEW n, Defined(defs, n)
  PROVE  Definition(defs, n) \in ToSet(defs) /\ Definition(defs, n).name = n
<1> DEFINE I == {i \in 1..Len(defs) : defs[i].name = n}
<1>1. Len(defs) \in Nat /\ DOMAIN defs = 1..Len(defs)
  BY ListParts
<1>2. I # {} /\ I \in SUBSET (1..Len(defs))
  BY <1>1 DEF Defined
<1>3. Definition(defs, n) = defs[Max(I)]
  BY <1>2 DEF Definition, SelectLastInSeq
<1>4. Max(I) \in I
  <2> HIDE DEF I
  <2>1. QED BY <1>1, <1>2, LastOf
<1>5. QED BY <1>1, <1>3, <1>4 DEF ToSet

(* What the parsers make is of one shape.                                  *)
IsExpr(e) == e = [field |-> e.field, raw |-> e.raw, translated |-> e.translated] /\ e.translated \in BOOLEAN

IsStep(x) ==
  /\ x = [name |-> x.name, type |-> x.type, pdi |-> x.pdi, confidence |-> x.confidence,
          fields |-> x.fields, exprs |-> x.exprs, attr |-> x.attr]
  /\ x.name = [of |-> x.name.of, role |-> x.name.role, leg |-> x.name.leg]
  /\ x.name.role # "lookup"
  /\ x.pdi = None <=> x.confidence = "manual"
  /\ IsList(x.exprs) /\ \A j \in 1..Len(x.exprs) : IsExpr(x.exprs[j])

IsPipeline(p) ==
  /\ p = [name |-> p.name, steps |-> p.steps, hops |-> p.hops]
  /\ IsList(p.steps) /\ IsList(p.hops)
  /\ \A k \in 1..Len(p.steps) : IsStep(p.steps[k])

(* What q has of p: its name and every step.                               *)
Keeps(p, q) == q.name = p.name /\ ToSet(p.steps) \subseteq ToSet(q.steps)

LEMMA KeepsOn ==
  ASSUME NEW p, NEW q, NEW r, Keeps(p, q), Keeps(q, r)
  PROVE  Keeps(p, r)
BY DEF Keeps

LEMMA TransformationStep ==
  ASSUME NEW x, IsList(x.ports)
  PROVE  LET s == Transformation(x) IN
         /\ IsStep(s) /\ s.name = Plain(x.name) /\ s.type = x.type /\ s.pdi = None
         /\ \A port \in ToSet(x.ports) :
              Derives(port) => \E j \in 1..Len(s.exprs) : s.exprs[j].field = port.name /\ s.exprs[j].translated = FALSE
<1> DEFINE s == Transformation(x)
           places == {i \in DOMAIN x.ports : Derives(x.ports[i])}
           ports == At(x.ports, places)
           n == Len(x.ports)
           exprs == [k \in DOMAIN ports |-> [field |-> ports[k].name, raw |-> ports[k].expr, translated |-> FALSE]]
<1>1. n \in Nat /\ DOMAIN x.ports = 1..n
  BY ListParts
<1>2. places \in SUBSET (1..n)
  BY <1>1
<1>3. s = [name |-> Plain(x.name), type |-> x.type, pdi |-> None, confidence |-> "manual",
           fields |-> [k \in DOMAIN x.ports |-> [name |-> x.ports[k].name, kind |-> x.ports[k].kind]],
           exprs |-> exprs, attr |-> x.attr]
  BY DEF Transformation, Those
<1>4. /\ IsList(ports)
      /\ \A i \in places : \E k \in 1..Len(ports) : ports[k] = x.ports[i]
  <2> HIDE DEF places, n
  <2>1. QED BY <1>1, <1>2, AtParts
<1>5. Len(ports) \in Nat /\ DOMAIN ports = 1..Len(ports)
  <2> HIDE DEF ports
  <2>1. QED BY <1>4, ListParts
<1> HIDE DEF ports
<1>6. IsList(exprs) /\ Len(exprs) = Len(ports)
  BY <1>5, ListOf
<1>7. \A k \in 1..Len(exprs) : IsExpr(exprs[k]) /\ exprs[k].field = ports[k].name /\ exprs[k].translated = FALSE
  BY <1>5, <1>6 DEF IsExpr
<1> HIDE DEF exprs
<1>8. IsStep(s)
  BY <1>3, <1>6, <1>7 DEF IsStep, Plain, None
<1>9. ASSUME NEW port \in ToSet(x.ports), Derives(port)
      PROVE  \E j \in 1..Len(exprs) : exprs[j].field = port.name /\ exprs[j].translated = FALSE
  <2>1. PICK i \in places : port = x.ports[i]
    BY <1>9 DEF ToSet
  <2> HIDE DEF places
  <2>2. PICK k \in 1..Len(ports) : ports[k] = x.ports[i]
    BY <1>4, <2>1
  <2>3. QED BY <1>6, <1>7, <2>1, <2>2
<1>10. s.name = Plain(x.name) /\ s.type = x.type /\ s.pdi = None /\ s.exprs = exprs
  BY <1>3
<1> HIDE DEF s
<1>11. QED BY <1>8, <1>9, <1>10 DEF s

LEMMA EdgesList ==
  ASSUME NEW connectors, IsList(connectors)
  PROVE  IsList(Edges(connectors))
<1> DEFINE n == Len(connectors)
           after == CHOOSE g : g = [k \in 0..n |-> IF k = 0 THEN << >> ELSE WithEdge(g[k - 1], connectors[k])]
           S == {k \in 0..n : IsList(after[k])}
<1>1. n \in Nat
  BY ListParts
<1>2. after = [k \in 0..n |-> IF k = 0 THEN << >> ELSE WithEdge(after[k - 1], connectors[k])]
  <2> HIDE DEF n
  <2>1. QED BY <1>1, EdgesExist
<1>3. Edges(connectors) = after[n]
  BY DEF Edges
<1> HIDE DEF after, n
<1>4. 0 \in S
  BY <1>1, <1>2, EmptyList
<1>5. ASSUME NEW k \in 1..n, k - 1 \in S PROVE k \in S
  <2>1. IsList(after[k - 1]) /\ k \in 0..n /\ after[k] = WithEdge(after[k - 1], connectors[k])
    BY <1>1, <1>2, <1>5
  <2>2. IsList(WithEdge(after[k - 1], connectors[k]))
    BY <2>1, Appended DEF WithEdge
  <2>3. QED BY <2>1, <2>2
<1> HIDE DEF S
<1>6. n \in S
  BY <1>1, <1>4, <1>5, StepByStep
<1>7. QED BY <1>3, <1>6 DEF S

-----------------------------------------------------------------------------
(* Mapplets in place: a pipeline with the steps of a definition added.     *)

LEMMA PipelineOf ==
  ASSUME NEW n, NEW steps, IsList(steps), NEW hops, IsList(hops),
         \A k \in 1..Len(steps) : IsStep(steps[k])
  PROVE  IsPipeline([name |-> n, steps |-> steps, hops |-> hops])
BY DEF IsPipeline

(* A pipeline's record, with one or two parts replaced.                    *)
LEMMA PartsReplaced ==
  ASSUME NEW p, IsPipeline(p), NEW steps, NEW hops
  PROVE  /\ [p EXCEPT !.steps = steps, !.hops = hops] = [name |-> p.name, steps |-> steps, hops |-> hops]
         /\ [p EXCEPT !.steps = steps] = [name |-> p.name, steps |-> steps, hops |-> p.hops]
         /\ [p EXCEPT !.hops = hops] = [name |-> p.name, steps |-> p.steps, hops |-> hops]
<1> DEFINE n == p.name
           ss == p.steps
           hs == p.hops
<1>1. p = [name |-> n, steps |-> ss, hops |-> hs]
  BY DEF IsPipeline
<1> HIDE DEF n, ss, hs
<1>2. [p EXCEPT !.steps = steps, !.hops = hops] = [name |-> n, steps |-> steps, hops |-> hops]
  <2> DEFINE r == [p EXCEPT !.steps = steps]
  <2>1. r = [name |-> n, steps |-> steps, hops |-> hs]
    BY <1>1
  <2>2. [p EXCEPT !.steps = steps, !.hops = hops] = [r EXCEPT !.hops = hops]
    OBVIOUS
  <2> HIDE DEF r
  <2>3. [r EXCEPT !.hops = hops] = [name |-> n, steps |-> steps, hops |-> hops]
    BY <2>1
  <2>4. QED BY <2>2, <2>3
<1>3. [p EXCEPT !.steps = steps] = [name |-> n, steps |-> steps, hops |-> hs]
  BY <1>1
<1>4. [p EXCEPT !.hops = hops] = [name |-> n, steps |-> ss, hops |-> hops]
  BY <1>1
<1>5. QED BY <1>2, <1>3, <1>4 DEF n, ss, hs

LEMMA JoinedSet ==
  ASSUME NEW s, NEW u, IsList(s), IsList(u)
  PROVE  ToSet(s \o u) = ToSet(s) \cup ToSet(u)
<1> DEFINE t == s \o u
<1>1. /\ IsList(t) /\ Len(t) = Len(s) + Len(u)
      /\ \A k \in 1..Len(s) : t[k] = s[k]
      /\ \A k \in 1..Len(u) : t[Len(s) + k] = u[k]
  BY Joined
<1>2. Len(s) \in Nat /\ Len(u) \in Nat /\ DOMAIN s = 1..Len(s) /\ DOMAIN u = 1..Len(u) /\ DOMAIN t = 1..Len(t)
  BY <1>1, ListParts
<1> HIDE DEF t
<1>3. ASSUME NEW k \in 1..Len(t) PROVE t[k] \in ToSet(s) \cup ToSet(u)
  <2>1. CASE k <= Len(s)
    BY <1>1, <1>2, <2>1 DEF ToSet
  <2>2. CASE k > Len(s)
    <3>1. k - Len(s) \in 1..Len(u) /\ k = Len(s) + (k - Len(s))
      BY <1>1, <1>2, <2>2
    <3>2. t[k] = u[k - Len(s)]
      BY <1>1, <3>1
    <3>3. QED BY <1>2, <3>1, <3>2 DEF ToSet
  <2>3. QED BY <1>1, <1>2, <2>1, <2>2
<1>4. ASSUME NEW k \in 1..Len(s) PROVE s[k] \in ToSet(t)
  <2>1. k \in 1..Len(t)
    BY <1>1, <1>2
  <2>2. QED BY <1>1, <1>2, <2>1 DEF ToSet
<1>5. ASSUME NEW k \in 1..Len(u) PROVE u[k] \in ToSet(t)
  <2>1. Len(s) + k \in 1..Len(t)
    BY <1>1, <1>2
  <2>2. QED BY <1>1, <1>2, <2>1 DEF ToSet
<1>6. ToSet(t) = ToSet(s) \cup ToSet(u)
  BY <1>2, <1>3, <1>4, <1>5 DEF ToSet
<1>7. QED BY <1>6 DEF t

LEMMA AppendedSet ==
  ASSUME NEW s, NEW x, IsList(s)
  PROVE  ToSet(Append(s, x)) = ToSet(s) \cup {x}
<1> DEFINE t == Append(s, x)
<1>1. IsList(t) /\ Len(t) = Len(s) + 1 /\ t[Len(s) + 1] = x /\ \A k \in 1..Len(s) : t[k] = s[k]
  BY Appended
<1>2. Len(s) \in Nat /\ DOMAIN s = 1..Len(s) /\ DOMAIN t = 1..Len(t)
  BY <1>1, ListParts
<1> HIDE DEF t
<1>3. DOMAIN t = (DOMAIN s) \cup {Len(s) + 1} /\ Len(s) + 1 \in DOMAIN t
  BY <1>1, <1>2
<1>4. ToSet(t) = ToSet(s) \cup {x}
  BY <1>1, <1>2, <1>3 DEF ToSet
<1>5. QED BY <1>4 DEF t

LEMMA JoinedPipeline ==
  ASSUME NEW p, IsPipeline(p), NEW steps, IsList(steps), NEW hops, IsList(hops),
         \A k \in 1..Len(steps) : IsStep(steps[k])
  PROVE  LET q == [p EXCEPT !.steps = @ \o steps, !.hops = @ \o hops] IN
         /\ IsPipeline(q) /\ Keeps(p, q)
         /\ ToSet(q.steps) = ToSet(p.steps) \cup ToSet(steps)
<1> DEFINE q == [p EXCEPT !.steps = @ \o steps, !.hops = @ \o hops]
           ss == p.steps \o steps
           hs == p.hops \o hops
<1>1. q = [p EXCEPT !.steps = ss, !.hops = hs]
  OBVIOUS
<1>2. IsList(p.steps) /\ IsList(p.hops) /\ \A k \in 1..Len(p.steps) : IsStep(p.steps[k])
  BY DEF IsPipeline
<1>3. IsList(ss) /\ IsList(hs) /\ ToSet(ss) = ToSet(p.steps) \cup ToSet(steps)
  BY <1>2, Joined, JoinedSet
<1> HIDE DEF q, ss, hs
<1>4. q = [name |-> p.name, steps |-> ss, hops |-> hs]
  BY <1>1, PartsReplaced
<1>5. ASSUME NEW k \in 1..Len(ss) PROVE IsStep(ss[k])
  <2>1. ss[k] \in ToSet(p.steps) \cup ToSet(steps)
    BY <1>3, ListParts DEF ToSet
  <2>2. QED BY <1>2, <2>1, ListParts DEF ToSet
<1>6. IsPipeline(q)
  BY <1>3, <1>4, <1>5, PipelineOf
<1>7. q.name = p.name /\ q.steps = ss
  BY <1>4
<1>8. QED BY <1>3, <1>6, <1>7 DEF Keeps, q

-----------------------------------------------------------------------------
(* The step of a mapplet's transformation, under the name of its use.      *)
UsedAs(n, x) == [Transformation(x) EXCEPT !.name = Inside(n, Plain(x.name))]

LEMMA ExpandedParts ==
  ASSUME NEW p, IsPipeline(p), NEW n, NEW m, IsDefinition(m)
  PROVE  LET q == WrittenUnder(p, n, m) IN
         /\ IsPipeline(q) /\ Keeps(p, q)
         /\ \A x \in ToSet(m.transformations) : UsedAs(n, x) \in ToSet(q.steps)
<1> DEFINE T == m.transformations
           own == StepsOf(m)
           inner == InnerHops(m)
           steps == [k \in DOMAIN own |-> [own[k] EXCEPT !.name = Inside(n, @)]]
           hops == [k \in DOMAIN inner |-> <<Inside(n, inner[k][1]), Inside(n, inner[k][2])>>]
           q == WrittenUnder(p, n, m)
<1>1. IsList(T) /\ Len(T) \in Nat /\ DOMAIN T = 1..Len(T) /\ DOMAIN own = 1..Len(T)
  BY ListParts DEF StepsOf, IsDefinition
<1>2. \A k \in 1..Len(T) : IsList(T[k].ports) /\ T[k] \in ToSet(T)
  BY <1>1 DEF IsDefinition, ToSet
<1>3. ASSUME NEW k \in 1..Len(T) PROVE steps[k] = UsedAs(n, T[k]) /\ IsStep(steps[k])
  <2>1. own[k] = Transformation(T[k])
    BY <1>1 DEF StepsOf
  <2> DEFINE s == Transformation(T[k])
  <2>2. IsStep(s) /\ s.name = Plain(T[k].name)
    BY <1>2, TransformationStep
  <2>3. steps[k] = [s EXCEPT !.name = Inside(n, Plain(T[k].name))]
    <3> HIDE DEF s
    <3>1. steps[k] = [own[k] EXCEPT !.name = Inside(n, own[k].name)]
      BY <1>1
    <3>2. own[k] = s
      BY <2>1 DEF s
    <3> HIDE DEF steps, own
    <3>3. QED BY <2>2, <3>1, <3>2
  <2>4. Inside(n, Plain(T[k].name)) = [of |-> <<n>> \o <<T[k].name>>, role |-> "step", leg |-> 0]
    BY DEF Inside, Plain
  <2> HIDE DEF s
  <2> DEFINE t == [s EXCEPT !.name = Inside(n, Plain(T[k].name))]
             m0 == Inside(n, Plain(T[k].name))
  <2>5. s = [name |-> s.name, type |-> s.type, pdi |-> s.pdi, confidence |-> s.confidence,
             fields |-> s.fields, exprs |-> s.exprs, attr |-> s.attr]
    BY <2>2 DEF IsStep
  <2>6. t = [name |-> m0, type |-> s.type, pdi |-> s.pdi, confidence |-> s.confidence,
             fields |-> s.fields, exprs |-> s.exprs, attr |-> s.attr]
    <3> DEFINE a == s.name
               b == s.type
               c == s.pdi
               d == s.confidence
               f == s.fields
               g == s.exprs
               h == s.attr
    <3>1. s = [name |-> a, type |-> b, pdi |-> c, confidence |-> d, fields |-> f, exprs |-> g, attr |-> h]
      BY <2>5
    <3> HIDE DEF a, b, c, d, f, g, h, m0
    <3>2. [s EXCEPT !.name = m0] = [name |-> m0, type |-> b, pdi |-> c, confidence |-> d, fields |-> f, exprs |-> g, attr |-> h]
      BY <3>1
    <3>3. QED BY <3>2 DEF a, b, c, d, f, g, h, m0
  <2>7. /\ t.name = m0 /\ t.type = s.type /\ t.pdi = s.pdi /\ t.confidence = s.confidence
        /\ t.fields = s.fields /\ t.exprs = s.exprs /\ t.attr = s.attr
    <3> HIDE DEF t, m0
    <3>1. QED BY <2>6
  <2>8. m0 = [of |-> m0.of, role |-> m0.role, leg |-> m0.leg] /\ m0.role # "lookup"
    <3> HIDE DEF t
    <3>1. QED BY <2>4
  <2>9. IsStep(t)
    <3> HIDE DEF t, m0
    <3>1. QED BY <2>2, <2>6, <2>7, <2>8 DEF IsStep
  <2>10. steps[k] = t /\ UsedAs(n, T[k]) = t
    BY <2>3 DEF UsedAs, s
  <2> HIDE DEF t, steps
  <2>11. QED BY <2>9, <2>10
<1>4. q = [p EXCEPT !.steps = @ \o steps, !.hops = @ \o hops]
  BY DEF WrittenUnder
<1>5. IsList(steps) /\ Len(steps) = Len(T)
  <2>1. steps = [k \in 1..Len(T) |-> steps[k]]
    BY <1>1
  <2> HIDE DEF steps
  <2>2. QED BY <1>1, <2>1, ListOf
<1>6. IsList(inner)
  <2> DEFINE C == m.connectors
             cs == [k \in DOMAIN C |-> <<Plain(C[k][1]), Plain(C[k][2])>>]
  <2>1. Len(C) \in Nat /\ DOMAIN C = 1..Len(C)
    BY ListParts DEF IsDefinition
  <2>2. IsList(cs)
    BY <2>1, ListOf
  <2>3. inner = Edges(cs)
    BY DEF InnerHops
  <2> HIDE DEF cs, inner
  <2>4. QED BY <2>2, <2>3, EdgesList
<1>7. IsList(hops)
  <2>1. Len(inner) \in Nat /\ DOMAIN inner = 1..Len(inner)
    BY <1>6, ListParts
  <2> HIDE DEF inner
  <2>2. QED BY <2>1, ListOf
<1>8. \A x \in ToSet(T) : UsedAs(n, x) \in ToSet(steps)
  <2> TAKE x \in ToSet(T)
  <2>1. PICK k \in 1..Len(T) : x = T[k]
    BY <1>1 DEF ToSet
  <2>2. UsedAs(n, x) = steps[k] /\ k \in DOMAIN steps
    BY <1>1, <1>3, <2>1
  <2> HIDE DEF steps
  <2>3. QED BY <2>2 DEF ToSet
<1> HIDE DEF steps, hops, own, inner, q
<1>9. IsPipeline(q) /\ Keeps(p, q) /\ ToSet(q.steps) = ToSet(p.steps) \cup ToSet(steps)
  BY <1>3, <1>4, <1>5, <1>7, JoinedPipeline
<1>10. QED BY <1>8, <1>9 DEF q

-----------------------------------------------------------------------------
(* PowerCenterParser: a mapping has all its transformations and, for every *)
(* use of a mapplet, all of the mapplet's.                                 *)

LEMMA EndStepParts ==
  ASSUME NEW e, NEW i
  PROVE  IsStep(EndStep(e, i)) /\ EndStep(e, i).name = Plain(i.name)
<1> DEFINE fields == IF i.type = "Target" /\ Defined(e.targets, i.def)
                     THEN Definition(e.targets, i.def).fields ELSE << >>
           s == [name |-> Plain(i.name), type |-> i.type, pdi |-> None, confidence |-> "manual",
                 fields |-> fields, exprs |-> << >>, attr |-> NoAttributes]
<1>1. EndStep(e, i) = s
  BY DEF EndStep, StepOfEnd
<1> HIDE DEF fields
<1>2. IsStep(s)
  BY EmptyList DEF IsStep, Plain, None
<1>3. s.name = Plain(i.name)
  OBVIOUS
<1> HIDE DEF s
<1>4. QED BY <1>1, <1>2, <1>3

LEMMA InstanceKeeps ==
  ASSUME NEW e, IsExport(e), NEW p, IsPipeline(p), NEW i
  PROVE  LET q == WithInstance(e, p, i) IN
         /\ IsPipeline(q) /\ Keeps(p, q)
         /\ i.type = "Mapplet" /\ Defined(e.mapplets, i.def) =>
              \A x \in ToSet(Definition(e.mapplets, i.def).transformations) : UsedAs(i.name, x) \in ToSet(q.steps)
<1> DEFINE q == WithInstance(e, p, i)
           m == Definition(e.mapplets, i.def)
<1>1. CASE /\ i.type \in {"Source", "Target"}
           /\ \A k \in DOMAIN p.steps : p.steps[k].name # Plain(i.name)
  <2> DEFINE x == EndStep(e, i)
             steps == Append(p.steps, x)
  <2>1. q = [p EXCEPT !.steps = steps]
    BY <1>1 DEF WithInstance
  <2>2. IsStep(x)
    BY EndStepParts
  <2>3. IsList(p.steps) /\ IsList(p.hops) /\ \A k \in 1..Len(p.steps) : IsStep(p.steps[k])
    BY DEF IsPipeline
  <2> HIDE DEF x, q
  <2>4. IsList(steps) /\ ToSet(steps) = ToSet(p.steps) \cup {x}
    BY <2>3, Appended, AppendedSet
  <2> HIDE DEF steps
  <2>5. \A k \in 1..Len(steps) : IsStep(steps[k])
    <3> TAKE k \in 1..Len(steps)
    <3>1. steps[k] \in ToSet(p.steps) \cup {x}
      BY <2>4, ListParts DEF ToSet
    <3>2. QED BY <2>2, <2>3, <3>1, ListParts DEF ToSet
  <2>6. q = [name |-> p.name, steps |-> steps, hops |-> p.hops]
    BY <2>1, PartsReplaced
  <2>7. IsPipeline(q) /\ Keeps(p, q)
    BY <2>3, <2>4, <2>5, <2>6, PipelineOf DEF Keeps
  <2>8. i.type # "Mapplet"
    BY <1>1
  <2>9. QED BY <2>7, <2>8 DEF q
<1>2. CASE i.type = "Mapplet" /\ Defined(e.mapplets, i.def)
  <2>1. q = WrittenUnder(p, i.name, m)
    BY <1>2 DEF WithInstance, Expanded
  <2>2. IsList(e.mapplets) /\ \A d \in ToSet(e.mapplets) : IsDefinition(d)
    BY DEF IsExport
  <2>3. IsDefinition(m)
    BY <1>2, <2>2, DefinitionFound
  <2> HIDE DEF q, m
  <2>4. /\ IsPipeline(q) /\ Keeps(p, q)
        /\ \A x \in ToSet(m.transformations) : UsedAs(i.name, x) \in ToSet(q.steps)
    BY <2>1, <2>3, ExpandedParts
  <2>5. QED BY <2>4 DEF q, m
<1>3. CASE /\ ~(/\ i.type \in {"Source", "Target"}
                /\ \A k \in DOMAIN p.steps : p.steps[k].name # Plain(i.name))
           /\ ~(i.type = "Mapplet" /\ Defined(e.mapplets, i.def))
  <2>1. q = p
    BY <1>3 DEF WithInstance
  <2>2. Keeps(p, p)
    BY DEF Keeps
  <2> HIDE DEF q
  <2>3. IsPipeline(q) /\ Keeps(p, q)
    BY <2>1, <2>2
  <2>4. QED BY <1>3, <2>3 DEF q
<1>4. QED BY <1>1, <1>2, <1>3

(* Every use of a mapplet is in a pipeline with the steps of its           *)
(* definition.                                                             *)
HasUses(e, p, is) ==
  \A i \in is : i.type = "Mapplet" /\ Defined(e.mapplets, i.def) =>
    \A x \in ToSet(Definition(e.mapplets, i.def).transformations) : UsedAs(i.name, x) \in ToSet(p.steps)

LEMMA InstancesKeep ==
  ASSUME NEW e, IsExport(e), NEW p, IsPipeline(p), NEW instances, IsList(instances)
  PROVE  LET q == WithInstances(e, p, instances) IN
         IsPipeline(q) /\ Keeps(p, q) /\ HasUses(e, q, ToSet(instances))
<1> DEFINE n == Len(instances)
           after == CHOOSE g : g = [k \in 0..n |-> IF k = 0 THEN p ELSE WithInstance(e, g[k - 1], instances[k])]
           Upto(k) == {instances[j] : j \in 1..k}
           S == {k \in 0..n : IsPipeline(after[k]) /\ Keeps(p, after[k]) /\ HasUses(e, after[k], Upto(k))}
<1>1. n \in Nat /\ DOMAIN instances = 1..n
  BY ListParts
<1>2. after = [k \in 0..n |-> IF k = 0 THEN p ELSE WithInstance(e, after[k - 1], instances[k])]
  <2> HIDE DEF n
  <2>1. QED BY <1>1, InstancesExist
<1>3. WithInstances(e, p, instances) = after[n]
  BY DEF WithInstances
<1> HIDE DEF after, n
<1>4. 0 \in S
  <2>1. after[0] = p /\ Upto(0) = {}
    BY <1>1, <1>2
  <2>2. Keeps(p, p)
    BY DEF Keeps
  <2> HIDE DEF Upto
  <2>3. IsPipeline(after[0]) /\ Keeps(p, after[0]) /\ HasUses(e, after[0], Upto(0))
    BY <2>1, <2>2 DEF HasUses
  <2>4. QED BY <1>1, <2>3
<1>5. ASSUME NEW k \in 1..n, k - 1 \in S PROVE k \in S
  <2> DEFINE before == after[k - 1]
             now == after[k]
             i == instances[k]
  <2>1. /\ k \in 0..n /\ now = WithInstance(e, before, i)
        /\ Upto(k) = Upto(k - 1) \cup {i}
    BY <1>1, <1>2, <1>5
  <2>2. IsPipeline(before) /\ Keeps(p, before) /\ HasUses(e, before, Upto(k - 1))
    BY <1>5
  <2> HIDE DEF before, i, now, Upto
  <2>3. IsPipeline(now) /\ Keeps(before, now) /\ HasUses(e, now, {i})
    BY <2>1, <2>2, InstanceKeeps DEF HasUses
  <2>4. Keeps(p, now)
    BY <2>2, <2>3, KeepsOn
  <2>5. HasUses(e, now, Upto(k))
    BY <2>1, <2>2, <2>3 DEF HasUses, Keeps
  <2>6. QED BY <2>1, <2>3, <2>4, <2>5 DEF now
<1>6. n \in S
  <2> HIDE DEF S
  <2>1. QED BY <1>1, <1>4, <1>5, StepByStep
<1>7. ToSet(instances) = Upto(n)
  BY <1>1 DEF ToSet
<1> HIDE DEF Upto
<1>8. QED BY <1>3, <1>6, <1>7

LEMMA ParsedMapping ==
  ASSUME NEW e, IsExport(e), NEW m, IsDefinition(m), IsList(m.instances)
  PROVE  LET q == ParseMapping(e, m) IN
         /\ IsPipeline(q) /\ q.name = m.name
         /\ \A x \in ToSet(m.transformations) : Transformation(x) \in ToSet(q.steps)
         /\ HasUses(e, q, ToSet(m.instances))
<1> DEFINE T == m.transformations
           C == m.connectors
           steps == [k \in DOMAIN T |-> Transformation(T[k])]
           own == [name |-> m.name, hops |-> << >>, steps |-> steps]
           led == [k \in DOMAIN C |-> <<Rerouted(e, m, C[k][1], TRUE), Rerouted(e, m, C[k][2], FALSE)>>]
           whole == WithInstances(e, own, m.instances)
           hops == whole.hops \o Edges(led)
           q == ParseMapping(e, m)
<1>1. Len(T) \in Nat /\ DOMAIN T = 1..Len(T) /\ Len(C) \in Nat /\ DOMAIN C = 1..Len(C)
  BY ListParts DEF IsDefinition
<1>2. IsList(steps) /\ Len(steps) = Len(T)
  BY <1>1, ListOf
<1>3. \A k \in 1..Len(T) : IsStep(steps[k]) /\ steps[k] = Transformation(T[k])
  <2>1. \A k \in 1..Len(T) : IsList(T[k].ports)
    BY <1>1 DEF IsDefinition, ToSet
  <2>2. QED BY <1>1, <2>1, TransformationStep
<1>4. IsList(Edges(led))
  <2>1. IsList(led)
    BY <1>1, ListOf
  <2> HIDE DEF led
  <2>2. QED BY <2>1, EdgesList
<1>5. q = [whole EXCEPT !.hops = hops]
  BY DEF ParseMapping
<1> HIDE DEF steps, led
<1>6. IsPipeline(own) /\ own.name = m.name /\ own.steps = steps
  BY <1>2, <1>3, EmptyList, PipelineOf
<1> HIDE DEF own, q
<1>7. IsPipeline(whole) /\ Keeps(own, whole) /\ HasUses(e, whole, ToSet(m.instances))
  BY <1>6, InstancesKeep
<1> HIDE DEF whole
<1>8. IsList(hops)
  BY <1>4, <1>7, Joined DEF IsPipeline
<1> HIDE DEF hops
<1>9. q = [name |-> whole.name, steps |-> whole.steps, hops |-> hops]
  BY <1>5, <1>7, PartsReplaced
<1>10. IsPipeline(q)
  BY <1>7, <1>8, <1>9, PipelineOf DEF IsPipeline
<1>11. q.name = m.name /\ q.steps = whole.steps
  BY <1>6, <1>7, <1>9 DEF Keeps
<1>12. \A x \in ToSet(T) : Transformation(x) \in ToSet(q.steps)
  <2> TAKE x \in ToSet(T)
  <2>1. PICK k \in 1..Len(T) : x = T[k]
    BY <1>1 DEF ToSet
  <2>2. Transformation(x) \in ToSet(steps)
    BY <1>2, <1>3, <2>1, ListParts DEF ToSet
  <2>3. QED BY <1>6, <1>7, <1>11, <2>2 DEF Keeps
<1>13. HasUses(e, q, ToSet(m.instances))
  BY <1>7, <1>11 DEF HasUses
<1>14. QED BY <1>10, <1>11, <1>12, <1>13 DEF q

-----------------------------------------------------------------------------
(* The rules: a step keeps its name, its expressions and its attributes.   *)

LEMMA StepReplaced ==
  ASSUME NEW s, IsStep(s), NEW v, NEW w
  PROVE  /\ [s EXCEPT !.pdi = v, !.confidence = w] =
              [name |-> s.name, type |-> s.type, pdi |-> v, confidence |-> w, fields |-> s.fields, exprs |-> s.exprs, attr |-> s.attr]
         /\ [s EXCEPT !.exprs = v] =
              [name |-> s.name, type |-> s.type, pdi |-> s.pdi, confidence |-> s.confidence, fields |-> s.fields, exprs |-> v, attr |-> s.attr]
<1> DEFINE a == s.name
           b == s.type
           c == s.pdi
           d == s.confidence
           f == s.fields
           g == s.exprs
           h == s.attr
<1>1. s = [name |-> a, type |-> b, pdi |-> c, confidence |-> d, fields |-> f, exprs |-> g, attr |-> h]
  BY DEF IsStep
<1> HIDE DEF a, b, c, d, f, g, h
<1>2. [s EXCEPT !.pdi = v, !.confidence = w] =
        [name |-> a, type |-> b, pdi |-> v, confidence |-> w, fields |-> f, exprs |-> g, attr |-> h]
  <2> DEFINE r == [s EXCEPT !.pdi = v]
  <2>1. r = [name |-> a, type |-> b, pdi |-> v, confidence |-> d, fields |-> f, exprs |-> g, attr |-> h]
    BY <1>1
  <2>2. [s EXCEPT !.pdi = v, !.confidence = w] = [r EXCEPT !.confidence = w]
    OBVIOUS
  <2> HIDE DEF r
  <2>3. [r EXCEPT !.confidence = w] =
          [name |-> a, type |-> b, pdi |-> v, confidence |-> w, fields |-> f, exprs |-> g, attr |-> h]
    BY <2>1
  <2>4. QED BY <2>2, <2>3
<1>3. [s EXCEPT !.exprs = v] =
        [name |-> a, type |-> b, pdi |-> c, confidence |-> d, fields |-> f, exprs |-> v, attr |-> h]
  BY <1>1
<1>4. QED BY <1>2, <1>3 DEF a, b, c, d, f, g, h

(* A rule's type is never none; those of the steps that are asked for.     *)
LEMMA PdiKnown ==
  /\ \A t \in TypesWithRule : PdiOfType[t] # None
  /\ "Expression" \in TypesWithRule /\ PdiOfType["Expression"] = "ScriptValueMod"
  /\ "Aggregator" \in TypesWithRule /\ PdiOfType["Aggregator"] = "GroupBy"
<1>1. \A t \in TypesWithRule : PdiOfType[t] # None
  <2> TAKE t \in TypesWithRule
  <2>1. QED BY DEF TypesWithRule, PdiOfType, None
<1>2. "Expression" \in TypesWithRule /\ PdiOfType["Expression"] = "ScriptValueMod"
  BY DEF TypesWithRule, PdiOfType
<1>3. "Aggregator" \in TypesWithRule /\ PdiOfType["Aggregator"] = "GroupBy"
  BY DEF TypesWithRule, PdiOfType
<1>4. QED BY <1>1, <1>2, <1>3

LEMMA RuledParts ==
  ASSUME NEW s, IsStep(s)
  PROVE  LET r == Ruled(s) IN
         /\ IsStep(r) /\ r.name = s.name /\ r.exprs = s.exprs /\ r.attr = s.attr /\ r.fields = s.fields
         /\ s.type \in TypesWithRule => r.pdi = PdiOfType[s.type]
<1>1. CASE s.type \notin TypesWithRule
  BY <1>1 DEF Ruled
<1>2. CASE s.type \in TypesWithRule
  <2> DEFINE v == PdiOfType[s.type]
             w == IF s.type \in ReviewedTypes \/ s.exprs # << >> THEN "review" ELSE "auto"
             r == Ruled(s)
  <2>1. r = [s EXCEPT !.pdi = v, !.confidence = w]
    BY <1>2 DEF Ruled
  <2>2. v # None /\ w # "manual"
    BY <1>2, PdiKnown
  <2> HIDE DEF v, w, r
  <2>3. r = [name |-> s.name, type |-> s.type, pdi |-> v, confidence |-> w, fields |-> s.fields, exprs |-> s.exprs, attr |-> s.attr]
    BY <2>1, StepReplaced
  <2>4. /\ r.name = s.name /\ r.type = s.type /\ r.pdi = v /\ r.confidence = w /\ r.fields = s.fields
        /\ r.exprs = s.exprs /\ r.attr = s.attr
    BY <2>3
  <2>5. IsStep(r)
    BY <2>2, <2>3, <2>4 DEF IsStep
  <2>6. QED BY <2>4, <2>5 DEF r, v
<1>3. QED BY <1>1, <1>2

-----------------------------------------------------------------------------
(* TalendParser's pipeline; and the sorters that the mapper puts in.       *)

LEMMA NodeStepParts ==
  ASSUME NEW node, IsList(node.entries)
  PROVE  IsStep(NodeStep(node))
<1> DEFINE s == NodeStep(node)
           places == {i \in DOMAIN node.entries : DerivesEntry(node.entries[i])}
           entries == At(node.entries, places)
           n == Len(node.entries)
           exprs == [k \in DOMAIN entries |-> [field |-> entries[k].name, raw |-> "java", translated |-> FALSE]]
           fields == [k \in DOMAIN node.columns |-> [name |-> node.columns[k], kind |-> "plain"]]
           attr == [NoAttributes EXCEPT
               !.tables = [t \in {t \in DOMAIN node.tables : Rows(node.tables[t]) # << >>} |->
                             Rows(node.tables[t])],
               !.sql = node.query, !.logical = node.logical, !.advanced = node.advanced]
<1>1. n \in Nat /\ DOMAIN node.entries = 1..n
  BY ListParts
<1>2. places \in SUBSET (1..n)
  BY <1>1
<1>3. s = [name |-> Plain(node.name), type |-> node.component, pdi |-> None, confidence |-> "manual",
           fields |-> fields, exprs |-> exprs, attr |-> attr]
  BY DEF NodeStep, Those
<1> HIDE DEF fields, attr
<1>4. IsList(entries)
  <2> HIDE DEF places, n
  <2>1. QED BY <1>1, <1>2, AtParts
<1>5. Len(entries) \in Nat /\ DOMAIN entries = 1..Len(entries)
  <2> HIDE DEF entries
  <2>1. QED BY <1>4, ListParts
<1> HIDE DEF entries
<1>6. IsList(exprs) /\ Len(exprs) = Len(entries)
  BY <1>5, ListOf
<1>7. \A k \in 1..Len(exprs) : IsExpr(exprs[k])
  BY <1>5, <1>6 DEF IsExpr
<1> HIDE DEF exprs
<1>8. IsStep(s)
  BY <1>3, <1>6, <1>7 DEF IsStep, Plain, None
<1>9. QED BY <1>8

LEMMA ParsedItem ==
  ASSUME NEW item, IsList(item.nodes), IsList(item.connections), \A n \in ToSet(item.nodes) : IsList(n.entries)
  PROVE  LET q == ParseItem(item) IN
         IsPipeline(q) /\ q.name = item.name
<1> DEFINE n == Len(item.nodes)
           c == Len(item.connections)
           places == {i \in DOMAIN item.connections : item.connections[i].kind \in FlowConnectors}
           flows == At(item.connections, places)
           steps == [k \in DOMAIN item.nodes |-> NodeStep(item.nodes[k])]
           hops == [k \in DOMAIN flows |-> <<Plain(flows[k].from), Plain(flows[k].to)>>]
           q == ParseItem(item)
<1>1. n \in Nat /\ DOMAIN item.nodes = 1..n /\ c \in Nat /\ DOMAIN item.connections = 1..c
  BY ListParts
<1>2. q = [name |-> item.name, steps |-> steps, hops |-> hops]
  BY DEF ParseItem, Those
<1>3. places \in SUBSET (1..c)
  BY <1>1
<1>4. IsList(flows)
  <2> HIDE DEF places, c
  <2>1. QED BY <1>1, <1>3, AtParts
<1> HIDE DEF flows
<1>5. Len(flows) \in Nat /\ DOMAIN flows = 1..Len(flows)
  BY <1>4, ListParts
<1>6. IsList(hops)
  BY <1>5, ListOf
<1>7. IsList(steps) /\ Len(steps) = n
  BY <1>1, ListOf
<1>8. \A k \in 1..n : IsStep(steps[k])
  <2> TAKE k \in 1..n
  <2>1. steps[k] = NodeStep(item.nodes[k]) /\ IsList(item.nodes[k].entries)
    BY <1>1 DEF ToSet
  <2> HIDE DEF steps
  <2>2. QED BY <2>1, NodeStepParts
<1> HIDE DEF hops, steps, q
<1>9. IsPipeline(q)
  BY <1>2, <1>6, <1>7, <1>8, PipelineOf
<1>10. q.name = item.name
  BY <1>2
<1>11. QED BY <1>9, <1>10 DEF q

LEMMA InsertedSet ==
  ASSUME NEW s, NEW x, IsList(s), NEW place \in 1..Len(s)
  PROVE  ToSet(InsertAt(s, place, x)) = ToSet(s) \cup {x}
<1> DEFINE t == InsertAt(s, place, x)
<1>1. /\ IsList(t) /\ Len(t) = Len(s) + 1 /\ t[place] = x
      /\ \A k \in 1..(place - 1) : t[k] = s[k]
      /\ \A k \in place..Len(s) : t[k + 1] = s[k]
  BY Inserted
<1> HIDE DEF t
<1>2. Len(s) \in Nat /\ DOMAIN s = 1..Len(s) /\ DOMAIN t = 1..(Len(s) + 1)
  BY <1>1, ListParts
<1>3. \A y \in ToSet(t) : y \in ToSet(s) \cup {x}
  <2> TAKE y \in ToSet(t)
  <2>1. PICK k \in 1..(Len(s) + 1) : y = t[k]
    BY <1>2 DEF ToSet
  <2>2. CASE k < place
    BY <1>1, <1>2, <2>1, <2>2 DEF ToSet
  <2>3. CASE k = place
    BY <1>1, <2>1, <2>3
  <2>4. CASE k > place
    <3>1. k - 1 \in place..Len(s) /\ (k - 1) + 1 = k
      BY <1>2, <2>4
    <3>2. t[k] = s[k - 1] /\ k - 1 \in 1..Len(s)
      BY <1>1, <1>2, <3>1
    <3>3. QED BY <1>2, <2>1, <3>2 DEF ToSet
  <2>5. QED BY <1>2, <2>2, <2>3, <2>4
<1>4. \A y \in ToSet(s) : y \in ToSet(t)
  <2> TAKE y \in ToSet(s)
  <2>1. PICK k \in 1..Len(s) : y = s[k]
    BY <1>2 DEF ToSet
  <2>2. CASE k < place
    BY <1>1, <1>2, <2>1, <2>2 DEF ToSet
  <2>3. CASE k >= place
    <3>1. t[k + 1] = y /\ k + 1 \in 1..(Len(s) + 1)
      BY <1>1, <1>2, <2>1, <2>3
    <3>2. QED BY <1>2, <3>1 DEF ToSet
  <2>4. QED BY <1>2, <2>2, <2>3
<1>5. x \in ToSet(t)
  <2>1. place \in 1..(Len(s) + 1)
    BY <1>2
  <2>2. QED BY <1>1, <1>2, <2>1 DEF ToSet
<1>6. QED BY <1>3, <1>4, <1>5 DEF t

LEMMA SorterStep ==
  ASSUME NEW target, IsStep(target), NEW leg, NEW keys
  PROVE  LET s == Sorter(target, leg, keys) IN
         /\ IsStep(s)
         /\ s.name = [of |-> target.name.of, role |-> "sorter", leg |-> leg]
         /\ s.pdi = "SortRows" /\ s.attr = NoAttributes
         /\ s.fields = [k \in DOMAIN keys |-> [name |-> keys[k], kind |-> "plain"]]
<1> DEFINE o == target.name.of
           fields == [k \in DOMAIN keys |-> [name |-> keys[k], kind |-> "plain"]]
           n == [of |-> o, role |-> "sorter", leg |-> leg]
           s == [name |-> n, type |-> "Sort rows", pdi |-> "SortRows", confidence |-> "review",
                 fields |-> fields, exprs |-> << >>, attr |-> NoAttributes]
<1>1. [target.name EXCEPT !.role = "sorter", !.leg = leg] = n
  <2> DEFINE m == target.name
             a == m.role
             b == m.leg
             r == [m EXCEPT !.role = "sorter"]
  <2>1. m = [of |-> o, role |-> a, leg |-> b]
    BY DEF IsStep
  <2> HIDE DEF m, a, b, o
  <2>2. r = [of |-> o, role |-> "sorter", leg |-> b]
    BY <2>1
  <2>3. [m EXCEPT !.role = "sorter", !.leg = leg] = [r EXCEPT !.leg = leg]
    OBVIOUS
  <2> HIDE DEF r
  <2>4. [r EXCEPT !.leg = leg] = [of |-> o, role |-> "sorter", leg |-> leg]
    BY <2>2
  <2>5. QED BY <2>3, <2>4 DEF m, o
<1>2. Sorter(target, leg, keys) = s
  BY <1>1 DEF Sorter
<1> HIDE DEF fields, o
<1>3. IsStep(s) /\ s.name = n /\ s.pdi = "SortRows" /\ s.attr = NoAttributes /\ s.fields = fields
  BY EmptyList DEF IsStep, None
<1> HIDE DEF s
<1>4. QED BY <1>2, <1>3 DEF fields, o

(* The place of a step that is there.                                      *)
LEMMA PlaceOf ==
  ASSUME NEW steps, IsList(steps), NEW n, \E k \in 1..Len(steps) : steps[k].name = n
  PROVE  LET k == SelectInSeq(steps, LAMBDA s : s.name = n) IN
         k \in 1..Len(steps) /\ steps[k].name = n
<1> DEFINE I == {i \in 1..Len(steps) : steps[i].name = n}
<1>1. SelectInSeq(steps, LAMBDA s : s.name = n) = Min(I)
  BY DEF SelectInSeq
<1>2. I \in SUBSET Nat /\ I # {}
  BY ListParts
<1>3. Min(I) \in I
  <2> HIDE DEF I
  <2>1. QED BY <1>2, FirstOf
<1>4. QED BY <1>1, <1>3

-----------------------------------------------------------------------------
(* The mapper loses no step.                                               *)

LEMMA LegsInRange ==
  ASSUME NEW p, IsList(p.hops), NEW n
  PROVE  /\ IsList(LegsOf(p, n))
         /\ Len(LegsOf(p, n)) = Cardinality({i \in 1..Len(p.hops) : p.hops[i][2] = n})
         /\ \A j \in 1..Len(LegsOf(p, n)) :
              LegsOf(p, n)[j] \in 1..Len(p.hops) /\ p.hops[LegsOf(p, n)[j]][2] = n
<1> DEFINE h == Len(p.hops)
           all == [k \in DOMAIN p.hops |-> k]
           places == {i \in DOMAIN all : p.hops[all[i]][2] = n}
           legs == At(all, places)
<1>1. h \in Nat /\ DOMAIN p.hops = 1..h
  BY ListParts
<1>2. LegsOf(p, n) = legs
  BY DEF LegsOf, Those
<1>3. places = {i \in 1..h : p.hops[i][2] = n} /\ \A i \in 1..h : all[i] = i
  BY <1>1
<1> HIDE DEF all, places
<1>4. places \in SUBSET (1..h)
  BY <1>3
<1> HIDE DEF h
<1>5. /\ IsList(legs) /\ Len(legs) = Cardinality(places)
      /\ \A k \in 1..Len(legs) : \E i \in places : legs[k] = all[i]
  BY <1>1, <1>4, AtParts
<1> HIDE DEF legs
<1>6. ASSUME NEW k \in 1..Len(legs) PROVE legs[k] \in 1..h /\ p.hops[legs[k]][2] = n
  <2>1. PICK i \in places : legs[k] = all[i]
    BY <1>5
  <2>2. i \in 1..h /\ p.hops[i][2] = n
    BY <1>3
  <2>3. QED BY <1>3, <2>1, <2>2
<1>7. QED BY <1>2, <1>3, <1>5, <1>6 DEF h

(* A sorter comes to the steps, none is lost.                              *)
LEMMA SorterKeeps ==
  ASSUME NEW p, IsPipeline(p), NEW target, target \in ToSet(p.steps), NEW leg
  PROVE  LET q == WithSorter(p, target, leg) IN IsPipeline(q) /\ Keeps(p, q)
<1> DEFINE k == LegsOf(p, target.name)[leg]
           keys == SortKeys(target, leg)
           sorter == Sorter(target, leg, keys)
           place == SelectInSeq(p.steps, LAMBDA s : s.name = target.name)
           steps == InsertAt(p.steps, place, sorter)
           moved == [p.hops EXCEPT ![k][1] = sorter.name]
           hops == Append(moved, <<p.hops[k][1], sorter.name>>)
           q == WithSorter(p, target, leg)
           Same == keys = << >> \/ HasSorter(p, p.hops[k][1])
<1>1. /\ Same => q = p
      /\ ~Same => q = [p EXCEPT !.steps = steps, !.hops = hops]
  BY DEF WithSorter
<1>2. IsList(p.steps) /\ IsList(p.hops) /\ \A i \in 1..Len(p.steps) : IsStep(p.steps[i])
  BY DEF IsPipeline
<1>3. DOMAIN p.steps = 1..Len(p.steps) /\ DOMAIN p.hops = 1..Len(p.hops) /\ Len(p.hops) \in Nat /\ Len(p.steps) \in Nat
  BY <1>2, ListParts
<1>4. IsStep(target) /\ \E i \in 1..Len(p.steps) : p.steps[i].name = target.name
  BY <1>2, <1>3 DEF ToSet
<1>5. place \in 1..Len(p.steps)
  BY <1>2, <1>4, PlaceOf
<1> HIDE DEF k, keys, place, Same
<1>6. IsStep(sorter)
  BY <1>4, SorterStep
<1> HIDE DEF sorter
<1>7. IsList(moved)
  <2>1. moved = [i \in 1..Len(p.hops) |-> moved[i]]
    BY <1>3
  <2> HIDE DEF moved
  <2>2. QED BY <1>3, <2>1, ListOf
<1> HIDE DEF moved
<1>8. IsList(hops)
  BY <1>7, Appended
<1>9. IsList(steps) /\ ToSet(steps) = ToSet(p.steps) \cup {sorter}
  BY <1>2, <1>5, Inserted, InsertedSet
<1> HIDE DEF hops, steps, q
<1>10. \A i \in 1..Len(steps) : IsStep(steps[i])
  <2> TAKE i \in 1..Len(steps)
  <2>1. steps[i] \in ToSet(p.steps) \cup {sorter}
    BY <1>9, ListParts DEF ToSet
  <2>2. QED BY <1>2, <1>3, <1>6, <2>1 DEF ToSet
<1>11. CASE ~Same
  <2>1. q = [name |-> p.name, steps |-> steps, hops |-> hops]
    BY <1>1, <1>11, PartsReplaced
  <2>2. IsPipeline(q) /\ q.name = p.name /\ q.steps = steps
    BY <1>8, <1>9, <1>10, <2>1, PipelineOf
  <2>3. QED BY <1>9, <2>2 DEF Keeps, q
<1>12. CASE Same
  BY <1>1, <1>12 DEF Keeps, q
<1>13. QED BY <1>11, <1>12

LEMMA LegsKeep ==
  ASSUME NEW p, IsPipeline(p), NEW target, target \in ToSet(p.steps)
  PROVE  LET q == LegsSorted(p, target) IN IsPipeline(q) /\ Keeps(p, q)
<1> DEFINE n == Len(LegsOf(p, target.name))
           after == CHOOSE g : g = [k \in 0..n |-> IF k = 0 THEN p ELSE WithSorter(g[k - 1], target, k)]
           S == {k \in 0..n : IsPipeline(after[k]) /\ Keeps(p, after[k])}
<1>1. n \in Nat
  BY LegsInRange, ListParts DEF IsPipeline
<1>2. after = [k \in 0..n |-> IF k = 0 THEN p ELSE WithSorter(after[k - 1], target, k)]
  <2> HIDE DEF n
  <2>1. QED BY <1>1, LegsExist
<1>3. LegsSorted(p, target) = after[n]
  BY DEF LegsSorted
<1> HIDE DEF after, n
<1>4. 0 \in S
  <2>1. after[0] = p
    BY <1>1, <1>2
  <2>2. QED BY <1>1, <2>1 DEF Keeps
<1>5. ASSUME NEW k \in 1..n, k - 1 \in S PROVE k \in S
  <2> DEFINE before == after[k - 1]
             now == after[k]
  <2>1. k \in 0..n /\ now = WithSorter(before, target, k)
    BY <1>1, <1>2
  <2>2. IsPipeline(before) /\ Keeps(p, before)
    BY <1>5
  <2> HIDE DEF before, now
  <2>3. IsPipeline(now) /\ Keeps(before, now)
    BY <2>1, <2>2, SorterKeeps DEF Keeps
  <2>4. Keeps(p, now)
    BY <2>2, <2>3, KeepsOn
  <2>5. QED BY <2>1, <2>3, <2>4 DEF now
<1>6. n \in S
  <2> HIDE DEF S
  <2>1. QED BY <1>1, <1>4, <1>5, StepByStep
<1>7. QED BY <1>3, <1>6

LEMMA SortersKeep ==
  ASSUME NEW p, IsPipeline(p)
  PROVE  LET q == WithSorters(p) IN IsPipeline(q) /\ Keeps(p, q)
<1> DEFINE places == {i \in DOMAIN p.steps : p.steps[i].pdi \in NeedsSort}
           targets == At(p.steps, places)
           n == Len(targets)
           after == CHOOSE g : g = [k \in 0..n |-> IF k = 0 THEN p ELSE LegsSorted(g[k - 1], targets[k])]
           S == {k \in 0..n : IsPipeline(after[k]) /\ Keeps(p, after[k])}
<1>1. WithSorters(p) = after[n]
  BY DEF WithSorters, Those
<1>2. IsList(targets) /\ \A k \in 1..n : targets[k] \in ToSet(p.steps)
  <2>1. Len(p.steps) \in Nat /\ DOMAIN p.steps = 1..Len(p.steps)
    BY ListParts DEF IsPipeline
  <2>2. places \in SUBSET (1..Len(p.steps))
    BY <2>1
  <2> HIDE DEF places
  <2>3. IsList(targets) /\ \A k \in 1..n : \E i \in places : targets[k] = p.steps[i]
    BY <2>1, <2>2, AtParts
  <2> HIDE DEF targets
  <2>4. QED BY <2>1, <2>2, <2>3 DEF ToSet
<1> HIDE DEF targets
<1>3. n \in Nat
  BY <1>2, ListParts
<1>4. after = [k \in 0..n |-> IF k = 0 THEN p ELSE LegsSorted(after[k - 1], targets[k])]
  <2> HIDE DEF n
  <2>1. QED BY <1>3, SortersExist
<1> HIDE DEF after, n
<1>5. 0 \in S
  <2>1. after[0] = p
    BY <1>3, <1>4
  <2>2. QED BY <1>3, <2>1 DEF Keeps
<1>6. ASSUME NEW k \in 1..n, k - 1 \in S PROVE k \in S
  <2> DEFINE before == after[k - 1]
             now == after[k]
             target == targets[k]
  <2>1. k \in 0..n /\ now = LegsSorted(before, target)
    BY <1>3, <1>4
  <2>2. IsPipeline(before) /\ Keeps(p, before) /\ target \in ToSet(p.steps)
    BY <1>2, <1>6
  <2> HIDE DEF before, now, target
  <2>3. IsPipeline(now) /\ Keeps(before, now)
    BY <2>1, <2>2, LegsKeep DEF Keeps
  <2>4. Keeps(p, now)
    BY <2>2, <2>3, KeepsOn
  <2>5. QED BY <2>1, <2>3, <2>4 DEF now
<1>7. n \in S
  <2> HIDE DEF S
  <2>1. QED BY <1>3, <1>5, <1>6, StepByStep
<1>8. QED BY <1>1, <1>7

(* The mapper rules every step, and adds sorters.                          *)
LEMMA Applied ==
  ASSUME NEW p, IsPipeline(p)
  PROVE  LET q == Apply(p) IN
         /\ IsPipeline(q) /\ q.name = p.name
         /\ \A x \in ToSet(p.steps) : Ruled(x) \in ToSet(q.steps)
<1> DEFINE steps == [k \in DOMAIN p.steps |-> Ruled(p.steps[k])]
           r == [p EXCEPT !.steps = steps]
           q == Apply(p)
<1>1. q = WithSorters(r)
  BY DEF Apply
<1>2. Len(p.steps) \in Nat /\ DOMAIN p.steps = 1..Len(p.steps) /\ \A k \in 1..Len(p.steps) : IsStep(p.steps[k])
  BY ListParts DEF IsPipeline
<1>3. IsList(steps) /\ Len(steps) = Len(p.steps)
  BY <1>2, ListOf
<1>4. \A k \in 1..Len(steps) : IsStep(steps[k]) /\ steps[k] = Ruled(p.steps[k])
  BY <1>2, <1>3, RuledParts
<1>5. \A x \in ToSet(p.steps) : Ruled(x) \in ToSet(steps)
  BY <1>2 DEF ToSet
<1> HIDE DEF steps
<1>6. r = [name |-> p.name, steps |-> steps, hops |-> p.hops]
  BY PartsReplaced
<1>7. IsPipeline(r) /\ r.name = p.name /\ r.steps = steps
  <2>1. IsList(p.hops)
    BY DEF IsPipeline
  <2> HIDE DEF r
  <2>2. r.name = p.name /\ r.steps = steps
    BY <1>6
  <2>3. IsPipeline(r)
    BY <1>3, <1>4, <1>6, <2>1, PipelineOf
  <2>4. QED BY <2>2, <2>3
<1> HIDE DEF r, q
<1>8. IsPipeline(q) /\ Keeps(r, q)
  BY <1>1, <1>7, SortersKeep
<1>9. QED BY <1>5, <1>7, <1>8 DEF Keeps, q

-----------------------------------------------------------------------------
(* KtrGenerator: the file has the pipeline's steps in their order, then    *)
(* the sources added for lookups.                                          *)

(* A pipeline with sources added behind its steps.                         *)
Extends(p, q) ==
  /\ q = [name |-> p.name, steps |-> q.steps, hops |-> q.hops]
  /\ IsList(q.steps) /\ Len(p.steps) <= Len(q.steps)
  /\ \A k \in 1..Len(p.steps) : q.steps[k] = p.steps[k]
  /\ \A k \in (Len(p.steps) + 1)..Len(q.steps) :
       q.steps[k].name.role = "lookup" /\ q.steps[k].exprs = << >>
  /\ IsList(q.hops)
  /\ \A h \in ToSet(q.hops) : h \in ToSet(p.hops) \/ h[1].role = "lookup"

LEMMA LookupKeeps ==
  ASSUME NEW p, IsPipeline(p), NEW q, Extends(p, q), NEW step, IsStep(step)
  PROVE  Extends(p, WithLookupSource(q, step))
<1> DEFINE source == LookupSource(step)
           n == Len(p.steps)
           m == Len(q.steps)
           steps == Append(q.steps, source)
           hops == Append(q.hops, <<source.name, step.name>>)
           r == WithLookupSource(q, step)
           There == HasStep(q, source.name)
<1>1. (There => r = q) /\ (~There => r = [q EXCEPT !.steps = steps, !.hops = hops])
  BY DEF WithLookupSource
<1>2. n \in Nat /\ m \in Nat /\ n <= m /\ IsList(q.steps)
  BY ListParts DEF IsPipeline, Extends
<1>3. source.name.role = "lookup" /\ source.exprs = << >>
  <2> DEFINE s == step.name
  <2>1. source.name = [s EXCEPT !.role = "lookup"] /\ source.exprs = << >>
    BY DEF LookupSource
  <2>2. s = [of |-> s.of, role |-> s.role, leg |-> s.leg]
    BY DEF IsStep
  <2> HIDE DEF s, source
  <2>3. [s EXCEPT !.role = "lookup"].role = "lookup"
    BY <2>2
  <2>4. QED BY <2>1, <2>3
<1> HIDE DEF source, There
<1>4. IsList(steps) /\ Len(steps) = m + 1 /\ steps[m + 1] = source /\ \A k \in 1..m : steps[k] = q.steps[k]
  BY <1>2, Appended
<1>8. IsList(hops) /\ \A h \in ToSet(hops) : h \in ToSet(p.hops) \/ h[1].role = "lookup"
  <2> DEFINE h0 == <<source.name, step.name>>
  <2>1. h0[1].role = "lookup"
    BY <1>3
  <2>2. IsList(q.hops)
    BY DEF Extends
  <2> HIDE DEF h0
  <2>3. IsList(Append(q.hops, h0)) /\ ToSet(Append(q.hops, h0)) = ToSet(q.hops) \cup {h0}
    BY <2>2, Appended, AppendedSet
  <2>4. QED BY <2>1, <2>3 DEF Extends, h0
<1> HIDE DEF steps, hops
<1>5. CASE ~There
  <2>1. r = [name |-> p.name, steps |-> steps, hops |-> hops]
    <3> DEFINE a == p.name
               b == q.steps
               c == q.hops
    <3>1. q = [name |-> a, steps |-> b, hops |-> c]
      BY DEF Extends
    <3>2. r = [q EXCEPT !.steps = steps, !.hops = hops]
      BY <1>1, <1>5
    <3> DEFINE s == [q EXCEPT !.steps = steps]
    <3> HIDE DEF r, a, b, c
    <3>3. s = [name |-> a, steps |-> steps, hops |-> c]
      BY <3>1
    <3>4. r = [s EXCEPT !.hops = hops]
      BY <3>2
    <3> HIDE DEF s
    <3>5. r = [name |-> a, steps |-> steps, hops |-> hops]
      BY <3>3, <3>4
    <3>6. QED BY <3>5 DEF a
  <2> HIDE DEF r
  <2>2. r.steps = steps /\ r.hops = hops
    BY <2>1
  <2>3. n <= m + 1 /\ \A k \in 1..n : steps[k] = p.steps[k]
    BY <1>2, <1>4 DEF Extends
  <2>4. \A k \in (n + 1)..(m + 1) : steps[k].name.role = "lookup" /\ steps[k].exprs = << >>
    <3> TAKE k \in (n + 1)..(m + 1)
    <3>1. CASE k = m + 1
      BY <1>3, <1>4, <3>1
    <3>2. CASE k # m + 1
      <4>1. k \in 1..m /\ k \in (n + 1)..m
        BY <1>2, <3>2
      <4>2. QED BY <1>4, <4>1 DEF Extends
    <3>3. QED BY <3>1, <3>2
  <2> HIDE DEF n, m
  <2>5. QED BY <1>4, <1>8, <2>1, <2>2, <2>3, <2>4 DEF Extends, r, n
<1>6. CASE There
  BY <1>1, <1>6
<1>7. QED BY <1>5, <1>6

LEMMA LookupsKeep ==
  ASSUME NEW p, IsPipeline(p)
  PROVE  Extends(p, WithLookupSources(p))
<1> DEFINE places == {i \in DOMAIN p.steps : p.steps[i].pdi = "StreamLookup"}
           lookups == At(p.steps, places)
           n == Len(lookups)
           after == CHOOSE g : g = [k \in 0..n |-> IF k = 0 THEN p ELSE WithLookupSource(g[k - 1], lookups[k])]
           S == {k \in 0..n : Extends(p, after[k])}
<1>1. WithLookupSources(p) = after[n]
  BY DEF WithLookupSources, Those
<1>2. IsList(lookups) /\ \A k \in 1..n : IsStep(lookups[k])
  <2>1. Len(p.steps) \in Nat /\ DOMAIN p.steps = 1..Len(p.steps) /\ \A k \in 1..Len(p.steps) : IsStep(p.steps[k])
    BY ListParts DEF IsPipeline
  <2>2. places \in SUBSET (1..Len(p.steps))
    BY <2>1
  <2> HIDE DEF places
  <2>3. IsList(lookups) /\ \A k \in 1..n : \E i \in places : lookups[k] = p.steps[i]
    BY <2>1, <2>2, AtParts
  <2> HIDE DEF lookups
  <2>4. QED BY <2>1, <2>2, <2>3
<1> HIDE DEF lookups
<1>3. n \in Nat
  BY <1>2, ListParts
<1>4. after = [k \in 0..n |-> IF k = 0 THEN p ELSE WithLookupSource(after[k - 1], lookups[k])]
  <2> HIDE DEF n
  <2>1. QED BY <1>3, LookupsExist
<1> HIDE DEF after, n
<1>5. 0 \in S
  <2>1. after[0] = p
    BY <1>3, <1>4
  <2>2. Extends(p, p)
    BY ListParts DEF IsPipeline, Extends
  <2>3. QED BY <1>3, <2>1, <2>2
<1>6. ASSUME NEW k \in 1..n, k - 1 \in S PROVE k \in S
  <2> DEFINE before == after[k - 1]
             now == after[k]
             step == lookups[k]
  <2>1. k \in 0..n /\ now = WithLookupSource(before, step)
    BY <1>3, <1>4
  <2>2. Extends(p, before) /\ IsStep(step)
    BY <1>2, <1>6
  <2> HIDE DEF before, now, step
  <2>3. Extends(p, now)
    BY <2>1, <2>2, LookupKeeps
  <2>4. QED BY <2>1, <2>3 DEF now
<1>7. n \in S
  <2> HIDE DEF S
  <2>1. QED BY <1>3, <1>5, <1>6, StepByStep
<1>8. QED BY <1>1, <1>7

-----------------------------------------------------------------------------
LEMMA TodosParts ==
  ASSUME NEW s, IsList(s.exprs)
  PROVE  /\ IsList(Open(s)) /\ IsList(Todos(s)) /\ Len(Todos(s)) = Len(Open(s))
         /\ \A j \in 1..Len(s.exprs) : ~s.exprs[j].translated => s.exprs[j].field \in ToSet(Todos(s))
         /\ s.exprs = << >> => Len(Open(s)) = 0
<1> DEFINE n == Len(s.exprs)
           places == {i \in DOMAIN s.exprs : ~s.exprs[i].translated}
           open == At(s.exprs, places)
           todos == [k \in DOMAIN open |-> open[k].field]
<1>1. Open(s) = open /\ Todos(s) = todos
  BY DEF Open, Todos, Those
<1>2. n \in Nat /\ DOMAIN s.exprs = 1..n
  BY ListParts
<1>3. places \in SUBSET (1..n)
  BY <1>2
<1>4. /\ IsList(open) /\ Len(open) = Cardinality(places)
      /\ \A k \in 1..Len(open) : \E i \in places : open[k] = s.exprs[i]
      /\ \A i \in places : \E k \in 1..Len(open) : open[k] = s.exprs[i]
  <2> HIDE DEF places, n
  <2>1. QED BY <1>2, <1>3, AtParts
<1> HIDE DEF open
<1>5. Len(open) \in Nat /\ DOMAIN open = 1..Len(open)
  BY <1>4, ListParts
<1>6. IsList(todos) /\ Len(todos) = Len(open)
  BY <1>5, ListOf
<1>7. \A j \in 1..n : ~s.exprs[j].translated => s.exprs[j].field \in ToSet(todos)
  <2> SUFFICES ASSUME NEW j \in 1..n, ~s.exprs[j].translated PROVE s.exprs[j].field \in ToSet(todos)
    OBVIOUS
  <2>1. j \in places
    BY <1>2
  <2> HIDE DEF places
  <2>2. PICK k \in 1..Len(open) : open[k] = s.exprs[j]
    BY <1>4, <2>1
  <2>3. todos[k] = s.exprs[j].field /\ k \in DOMAIN todos
    BY <1>5, <2>2
  <2> HIDE DEF todos
  <2>4. QED BY <2>3 DEF ToSet
<1>8. ASSUME s.exprs = << >> PROVE Len(open) = 0
  <2>1. n = 0 /\ places = {}
    BY <1>2, <1>8, EmptyList
  <2>2. QED BY <1>4, <2>1, FS_EmptySet
<1> HIDE DEF todos
<1>9. QED BY <1>1, <1>4, <1>6, <1>7, <1>8

(* A step of the file, of a step of the pipeline.                          *)
IsEmitted(f, s) ==
  /\ f.name = s.name /\ f.confidence = s.confidence
  /\ f.pdi = (IF s.pdi = None THEN "Dummy" ELSE s.pdi)
  /\ f.todos = Todos(s)
  /\ s.pdi = "ScriptValueMod" => f.config.variables = Scripted(s)
  /\ s.pdi = "SortRows" => f.config = SortConfig(s)
  /\ s.pdi = "GroupBy" => f.config = GroupConfig(s)
  /\ s.pdi = "FilterRows" => f.config = FilterConfig(s)

LEMMA KtrParts ==
  ASSUME NEW p, IsPipeline(p)
  PROVE  LET steps == Ktr(p).steps IN
         /\ \A h \in ToSet(Ktr(p).hops) : h \in ToSet(p.hops) \/ h[1].role = "lookup"
         /\ IsList(steps) /\ Len(p.steps) <= Len(steps)
         /\ \A k \in 1..Len(p.steps) : IsEmitted(steps[k], p.steps[k])
         /\ \A k \in (Len(p.steps) + 1)..Len(steps) :
              steps[k].name.role = "lookup" /\ Len(steps[k].todos) = 0
<1> DEFINE whole == WithLookupSources(p)
           n == Len(p.steps)
           m == Len(whole.steps)
           steps == Ktr(p).steps
<1>1. Extends(p, whole)
  BY LookupsKeep
<1>2. steps = [k \in DOMAIN whole.steps |-> EmitStep(whole, whole.steps[k])] /\ Ktr(p).hops = whole.hops
  BY DEF Ktr
<1> HIDE DEF whole, steps
<1>3. IsList(whole.steps) /\ n <= m /\ n \in Nat /\ m \in Nat /\ DOMAIN whole.steps = 1..m
  BY <1>1, ListParts DEF Extends, IsPipeline
<1>4. IsList(steps) /\ Len(steps) = m
  BY <1>2, <1>3, ListOf
<1>5. \A k \in 1..m : IsEmitted(steps[k], whole.steps[k])
  <2> TAKE k \in 1..m
  <2> DEFINE s == whole.steps[k]
             f == steps[k]
  <2>1. f = EmitStep(whole, s)
    BY <1>2, <1>3
  <2> HIDE DEF s, f
  <2>2. /\ f.name = s.name /\ f.confidence = s.confidence /\ f.todos = Todos(s) /\ f.config = Config(whole, s)
        /\ f.pdi = (IF s.pdi = None THEN "Dummy" ELSE s.pdi)
    BY <2>1 DEF EmitStep
  <2>3. ASSUME s.pdi = "ScriptValueMod" PROVE f.config.variables = Scripted(s)
    <3>1. Config(whole, s) = [variables |-> Scripted(s)]
      BY <2>3 DEF Config
    <3>2. QED BY <2>2, <3>1
  <2>4. /\ s.pdi = "SortRows" => f.config = SortConfig(s)
        /\ s.pdi = "GroupBy" => f.config = GroupConfig(s)
        /\ s.pdi = "FilterRows" => f.config = FilterConfig(s)
    BY <2>2 DEF Config
  <2>5. IsEmitted(f, s)
    BY <2>2, <2>3, <2>4 DEF IsEmitted
  <2>6. QED BY <2>5 DEF f, s
<1>6. \A k \in 1..n : IsEmitted(steps[k], p.steps[k])
  BY <1>1, <1>3, <1>5 DEF Extends
<1>7. \A k \in (n + 1)..m : steps[k].name.role = "lookup" /\ Len(steps[k].todos) = 0
  <2> TAKE k \in (n + 1)..m
  <2>1. k \in 1..m /\ whole.steps[k].name.role = "lookup" /\ whole.steps[k].exprs = << >>
    BY <1>1, <1>3 DEF Extends
  <2>2. IsEmitted(steps[k], whole.steps[k])
    BY <1>5, <2>1
  <2>3. Len(Todos(whole.steps[k])) = 0
    BY <2>1, TodosParts, EmptyList
  <2>4. QED BY <2>1, <2>2, <2>3 DEF IsEmitted
<1>8. \A h \in ToSet(Ktr(p).hops) : h \in ToSet(p.hops) \/ h[1].role = "lookup"
  BY <1>1, <1>2 DEF Extends
<1>9. QED BY <1>3, <1>4, <1>6, <1>7, <1>8 DEF steps

-----------------------------------------------------------------------------
(* What is counted before and after writing.                               *)

(* Counts that only zeros follow have the same total.                      *)
LEMMA TotalsAgree ==
  ASSUME NEW s, IsList(s), NEW t, IsList(t), Len(s) <= Len(t),
         \A k \in 1..Len(s) : t[k] = s[k] /\ s[k] \in Nat,
         \A k \in (Len(s) + 1)..Len(t) : t[k] = 0
  PROVE  Total(t) = Total(s)
<1> DEFINE n == Len(s)
           m == Len(t)
           a == CHOOSE g : g = [k \in 0..n |-> IF k = 0 THEN 0 ELSE g[k - 1] + s[k]]
           b == CHOOSE g : g = [k \in 0..m |-> IF k = 0 THEN 0 ELSE g[k - 1] + t[k]]
<1>1. n \in Nat /\ m \in Nat /\ n <= m
  BY ListParts
<1>2. a = [k \in 0..n |-> IF k = 0 THEN 0 ELSE a[k - 1] + s[k]]
  <2> HIDE DEF n
  <2>1. QED BY <1>1, TotalsExist
<1>3. b = [k \in 0..m |-> IF k = 0 THEN 0 ELSE b[k - 1] + t[k]]
  <2> HIDE DEF m
  <2>1. QED BY <1>1, TotalsExist
<1>4. Total(s) = a[n] /\ Total(t) = b[m]
  BY DEF Total
<1> HIDE DEF a, b
<1> DEFINE S == {k \in 0..n : a[k] \in Nat /\ b[k] = a[k]}
           U == {k \in 0..m : k >= n => b[k] = a[n]}
<1>5. \A k \in 1..n : t[k] = s[k] /\ s[k] \in Nat
  OBVIOUS
<1>6. \A k \in (n + 1)..m : t[k] = 0
  OBVIOUS
<1> HIDE DEF n, m
<1>7. n \in S
  <2>1. 0 \in S
    BY <1>1, <1>2, <1>3
  <2>2. ASSUME NEW k \in 1..n, k - 1 \in S PROVE k \in S
    <3>1. k \in 0..n /\ k \in 0..m /\ k # 0
      BY <1>1
    <3>2. a[k] = a[k - 1] + s[k] /\ b[k] = b[k - 1] + t[k]
      BY <1>2, <1>3, <3>1
    <3>3. QED BY <1>5, <2>2, <3>1, <3>2
  <2> HIDE DEF S, U
  <2>3. n \in Nat /\ n \in 0..n
    BY <1>1
  <2>4. \A k \in 0..n : k \in S
    BY <2>1, <2>2, <2>3, StepByStep
  <2>5. QED BY <2>3, <2>4
<1>8. m \in U
  <2>1. 0 \in U
    BY <1>1, <1>7
  <2>2. ASSUME NEW k \in 1..m, k - 1 \in U PROVE k \in U
    <3>1. k \in 0..m /\ b[k] = b[k - 1] + t[k]
      BY <1>1, <1>3
    <3>2. CASE k > n
      <4>1. t[k] = 0 /\ b[k - 1] = a[n] /\ a[n] \in Nat
        BY <1>1, <1>6, <1>7, <2>2, <3>2
      <4>2. QED BY <3>1, <4>1
    <3>3. CASE k = n
      BY <1>7, <3>1, <3>3
    <3>4. CASE k < n
      BY <1>1, <3>1, <3>4
    <3>5. QED BY <1>1, <3>2, <3>3, <3>4
  <2> HIDE DEF S, U
  <2>3. m \in Nat /\ m \in 0..m
    BY <1>1
  <2>4. \A k \in 0..m : k \in U
    BY <2>1, <2>2, <2>3, StepByStep
  <2>5. QED BY <2>3, <2>4
<1>9. QED BY <1>1, <1>4, <1>7, <1>8

(* What a report says of a pipeline, its file shows.                       *)
LEMMA FileCounts ==
  ASSUME NEW p, IsPipeline(p)
  PROVE  LET steps == Ktr(p).steps IN
         /\ \A c : {k \in DOMAIN steps : steps[k].confidence = c /\ steps[k].name.role # "lookup"} =
                   {k \in DOMAIN p.steps : p.steps[k].confidence = c}
         /\ {k \in DOMAIN steps : steps[k].name.role # "lookup" /\ steps[k].pdi \in {"TableInput", "TableOutput", "StreamLookup"}} =
            {k \in DOMAIN p.steps : p.steps[k].pdi \in {"TableInput", "TableOutput", "StreamLookup"}}
         /\ Total([k \in DOMAIN steps |-> Len(steps[k].todos)]) = OpenExpressions(p)
<1> DEFINE steps == Ktr(p).steps
           n == Len(p.steps)
           m == Len(steps)
           Kinds == {"TableInput", "TableOutput", "StreamLookup"}
           s == [k \in DOMAIN p.steps |-> Len(Open(p.steps[k]))]
           t == [k \in DOMAIN steps |-> Len(steps[k].todos)]
<1>1. /\ IsList(steps) /\ n <= m
      /\ \A k \in 1..n : IsEmitted(steps[k], p.steps[k])
      /\ \A k \in (n + 1)..m : steps[k].name.role = "lookup" /\ Len(steps[k].todos) = 0
  BY KtrParts
<1> HIDE DEF steps
<1>2. IsList(p.steps) /\ \A k \in 1..n : IsStep(p.steps[k])
  BY DEF IsPipeline
<1>3. n \in Nat /\ m \in Nat /\ DOMAIN p.steps = 1..n /\ DOMAIN steps = 1..m
  BY <1>1, <1>2, ListParts
<1>4. \A k \in 1..n : /\ steps[k].name.role # "lookup"
                      /\ steps[k].confidence = p.steps[k].confidence
                      /\ steps[k].pdi \in Kinds <=> p.steps[k].pdi \in Kinds
  BY <1>1, <1>2 DEF IsEmitted, IsStep, None
<1>5. \A k \in 1..m : steps[k].name.role # "lookup" => k \in 1..n
  <2> SUFFICES ASSUME NEW k \in 1..m, k \notin 1..n PROVE steps[k].name.role = "lookup"
    OBVIOUS
  <2>1. k \in (n + 1)..m
    BY <1>3
  <2>2. QED BY <1>1, <2>1
<1>6. 1..n \subseteq 1..m
  BY <1>1, <1>3
<1>7. IsList(s) /\ Len(s) = n
  BY <1>3, ListOf
<1>8. IsList(t) /\ Len(t) = m
  BY <1>3, ListOf
<1>9. \A k \in 1..n : t[k] = s[k] /\ s[k] \in Nat
  <2> TAKE k \in 1..n
  <2>1. t[k] = Len(steps[k].todos) /\ s[k] = Len(Open(p.steps[k])) /\ steps[k].todos = Todos(p.steps[k])
    BY <1>1, <1>3, <1>6 DEF IsEmitted
  <2>2. IsList(p.steps[k].exprs)
    BY <1>2 DEF IsStep
  <2> HIDE DEF s, t
  <2>3. IsList(Open(p.steps[k])) /\ Len(Todos(p.steps[k])) = Len(Open(p.steps[k]))
    BY <2>2, TodosParts
  <2>4. QED BY <2>1, <2>3, ListParts
<1>10. \A k \in (n + 1)..m : t[k] = 0
  <2> TAKE k \in (n + 1)..m
  <2>1. k \in 1..m
    BY <1>3
  <2>2. QED BY <1>1, <1>3, <2>1
<1>11. OpenExpressions(p) = Total(s)
  BY DEF OpenExpressions
<1>12. Total(t) = Total(s)
  <2> HIDE DEF s, t
  <2>1. QED BY <1>1, <1>7, <1>8, <1>9, <1>10, TotalsAgree
<1>13. \A c : {k \in DOMAIN steps : steps[k].confidence = c /\ steps[k].name.role # "lookup"} =
              {k \in DOMAIN p.steps : p.steps[k].confidence = c}
  <2> HIDE DEF n, m
  <2>1. QED BY <1>3, <1>4, <1>5, <1>6
<1>14. {k \in DOMAIN steps : steps[k].name.role # "lookup" /\ steps[k].pdi \in Kinds} =
       {k \in DOMAIN p.steps : p.steps[k].pdi \in Kinds}
  <2> HIDE DEF n, m, Kinds
  <2>1. QED BY <1>3, <1>4, <1>5, <1>6
<1>15. QED BY <1>11, <1>12, <1>13, <1>14 DEF steps

-----------------------------------------------------------------------------
(* Derived ports, from the pipeline to the file.                           *)

(* What a step makes of a derived port: d has its step's name, the port    *)
(* and the type of the step.                                               *)
DerivesPort(s, d) ==
  s.name = d[1] /\ s.pdi = PdiOfType[d[3]] /\ \E j \in 1..Len(s.exprs) : s.exprs[j].field = d[2]
DerivesOpen(s, d) ==
  s.name = d[1] /\ s.pdi = PdiOfType[d[3]] /\ \E j \in 1..Len(s.exprs) : s.exprs[j].field = d[2] /\ ~s.exprs[j].translated
HasDerived(p, d) == \E s \in ToSet(p.steps) : DerivesPort(s, d)
HasOpen(p, d) == \E s \in ToSet(p.steps) : DerivesOpen(s, d)

LEMMA DerivedShown ==
  ASSUME NEW p, IsPipeline(p), NEW d, d[3] \in {"Expression", "Aggregator"},
         HasDerived(p, d), NEW translate, translate \/ HasOpen(p, d)
  PROVE  \E s \in ToSet(Ktr(p).steps) : s.name = d[1] /\ (Shows(s, d[2]) \/ (s.pdi = "GroupBy" /\ translate))
<1> DEFINE steps == Ktr(p).steps
           n == Len(p.steps)
<1>1. /\ IsList(steps) /\ n <= Len(steps)
      /\ \A k \in 1..n : IsEmitted(steps[k], p.steps[k])
  BY KtrParts
<1> HIDE DEF steps
<1>2. IsList(p.steps) /\ \A k \in 1..n : IsStep(p.steps[k])
  BY DEF IsPipeline
<1>3. n \in Nat /\ Len(steps) \in Nat /\ DOMAIN p.steps = 1..n /\ DOMAIN steps = 1..Len(steps)
  BY <1>1, <1>2, ListParts
<1>4. \A k \in 1..n : steps[k] \in ToSet(steps)
  BY <1>1, <1>3 DEF ToSet
<1>5. CASE d[3] = "Expression"
  <2>1. PICK k \in 1..n : DerivesPort(p.steps[k], d)
    BY <1>3 DEF HasDerived, ToSet
  <2> DEFINE f == steps[k]
             s == p.steps[k]
  <2>2. IsEmitted(f, s) /\ IsStep(s) /\ f \in ToSet(steps)
    BY <1>1, <1>2, <1>4
  <2>3. DerivesPort(s, d)
    BY <2>1
  <2> HIDE DEF f, s
  <2>4. s.pdi = "ScriptValueMod"
    BY <1>5, <2>3, PdiKnown DEF DerivesPort
  <2>5. f.pdi = "ScriptValueMod" /\ f.name = d[1] /\ f.config.variables = Scripted(s)
    BY <2>2, <2>3, <2>4 DEF IsEmitted, DerivesPort, None
  <2>6. d[2] \in Scripted(s)
    <3>1. DOMAIN s.exprs = 1..Len(s.exprs)
      BY <2>2, ListParts DEF IsStep
    <3>2. QED BY <2>3, <3>1 DEF DerivesPort, Scripted
  <2>7. Shows(f, d[2])
    BY <2>5, <2>6 DEF Shows
  <2>8. QED BY <2>2, <2>5, <2>7 DEF steps
<1>6. CASE d[3] = "Aggregator" /\ translate
  <2>1. PICK k \in 1..n : DerivesPort(p.steps[k], d)
    BY <1>3 DEF HasDerived, ToSet
  <2> DEFINE f == steps[k]
             s == p.steps[k]
  <2>2. IsEmitted(f, s) /\ f \in ToSet(steps)
    BY <1>1, <1>4
  <2>3. DerivesPort(s, d)
    BY <2>1
  <2> HIDE DEF f, s
  <2>4. s.pdi = "GroupBy"
    BY <1>6, <2>3, PdiKnown DEF DerivesPort
  <2>5. f.pdi = "GroupBy" /\ f.name = d[1]
    BY <2>2, <2>3, <2>4 DEF IsEmitted, DerivesPort, None
  <2>6. QED BY <1>6, <2>2, <2>5 DEF steps
<1>7. CASE HasOpen(p, d)
  <2>1. PICK k \in 1..n : DerivesOpen(p.steps[k], d)
    BY <1>3, <1>7 DEF HasOpen, ToSet
  <2> DEFINE f == steps[k]
             s == p.steps[k]
  <2>2. IsEmitted(f, s) /\ IsStep(s) /\ f \in ToSet(steps)
    BY <1>1, <1>2, <1>4
  <2>3. DerivesOpen(s, d)
    BY <2>1
  <2> HIDE DEF f, s
  <2>4. d[2] \in ToSet(Todos(s))
    BY <2>2, <2>3, TodosParts DEF DerivesOpen, IsStep
  <2>5. f.name = d[1] /\ Shows(f, d[2])
    BY <2>2, <2>3, <2>4 DEF IsEmitted, DerivesOpen, Shows
  <2>6. QED BY <2>2, <2>5 DEF steps
<1>8. QED BY <1>5, <1>6, <1>7

(* The translation changes which expressions are open and nothing else.    *)
LEMMA TranslatedParts ==
  ASSUME NEW p, IsPipeline(p), NEW answered
  PROVE  LET q == TranslatePipeline(p, answered) IN
         /\ IsPipeline(q) /\ q.name = p.name /\ \A d : HasDerived(p, d) => HasDerived(q, d)
         /\ q.hops = p.hops /\ Len(q.steps) = Len(p.steps)
         /\ \A k \in 1..Len(p.steps) :
              /\ q.steps[k].name = p.steps[k].name /\ q.steps[k].pdi = p.steps[k].pdi
              /\ q.steps[k].attr = p.steps[k].attr /\ q.steps[k].fields = p.steps[k].fields
<1> DEFINE q == TranslatePipeline(p, answered)
           n == Len(p.steps)
           A(k) == {a[2] : a \in {a \in answered : a[1] = k}}
           steps == [k \in DOMAIN p.steps |-> AnsweredStep(p.steps[k], A(k))]
<1>1. q = [p EXCEPT !.steps = steps]
  BY DEF TranslatePipeline
<1>2. IsList(p.steps) /\ IsList(p.hops) /\ n \in Nat /\ DOMAIN p.steps = 1..n /\ \A k \in 1..n : IsStep(p.steps[k])
  BY ListParts DEF IsPipeline
<1>3. IsList(steps) /\ Len(steps) = n /\ \A k \in 1..n : steps[k] = AnsweredStep(p.steps[k], A(k))
  BY <1>2, ListOf
<1> HIDE DEF steps, n, q, A
<1>4. ASSUME NEW k \in 1..n
      PROVE  /\ IsStep(steps[k]) /\ steps[k].name = p.steps[k].name /\ steps[k].pdi = p.steps[k].pdi
             /\ steps[k].attr = p.steps[k].attr /\ steps[k].fields = p.steps[k].fields
             /\ Len(steps[k].exprs) = Len(p.steps[k].exprs)
             /\ \A j \in 1..Len(p.steps[k].exprs) : steps[k].exprs[j].field = p.steps[k].exprs[j].field
  <2> DEFINE s == p.steps[k]
             t == steps[k]
             m == Len(s.exprs)
             Done(j) == j \in A(k) \/ Native(s, j)
             exprs == [j \in DOMAIN s.exprs |-> [s.exprs[j] EXCEPT !.translated = Done(j)]]
  <2>1. IsStep(s) /\ t = [s EXCEPT !.exprs = exprs]
    BY <1>2, <1>3 DEF AnsweredStep
  <2>2. m \in Nat /\ DOMAIN s.exprs = 1..m /\ \A j \in 1..m : IsExpr(s.exprs[j])
    <3>1. IsStep(s)
      BY <2>1
    <3> HIDE DEF s
    <3>2. QED BY <3>1, ListParts DEF IsStep
  <2>3. IsList(exprs) /\ Len(exprs) = m
    BY <2>2, ListOf
  <2>4. \A j \in 1..m : exprs[j] = [s.exprs[j] EXCEPT !.translated = Done(j)]
    BY <2>2
  <2>5. \A j \in 1..m : Done(j) \in BOOLEAN
    OBVIOUS
  <2> HIDE DEF exprs, Done, s, m, t
  <2>6. \A j \in 1..m : IsExpr(exprs[j]) /\ exprs[j].field = s.exprs[j].field
    <3> TAKE j \in 1..m
    <3> DEFINE e == s.exprs[j]
               a == e.field
               b == e.raw
               v == Done(j)
               w == exprs[j]
    <3>1. e = [field |-> a, raw |-> b, translated |-> e.translated]
      BY <2>2 DEF IsExpr
    <3>2. w = [e EXCEPT !.translated = v] /\ v \in BOOLEAN
      BY <2>4, <2>5
    <3> HIDE DEF e, a, b, v, w
    <3>3. w = [field |-> a, raw |-> b, translated |-> v]
      BY <3>1, <3>2
    <3>4. w.field = a /\ w.raw = b /\ w.translated = v
      BY <3>3
    <3>5. IsExpr(w)
      BY <3>2, <3>3, <3>4 DEF IsExpr
    <3>6. QED BY <3>4, <3>5 DEF w, a, e
  <2>7. t = [name |-> s.name, type |-> s.type, pdi |-> s.pdi, confidence |-> s.confidence, fields |-> s.fields,
             exprs |-> exprs, attr |-> s.attr]
    BY <2>1, StepReplaced
  <2>8. t.name = s.name /\ t.type = s.type /\ t.pdi = s.pdi /\ t.confidence = s.confidence /\ t.fields = s.fields
        /\ t.exprs = exprs /\ t.attr = s.attr
    BY <2>7
  <2>9. IsStep(t)
    BY <2>1, <2>3, <2>6, <2>7, <2>8 DEF IsStep
  <2>10. QED BY <2>3, <2>6, <2>8, <2>9 DEF t, s, m
<1>5. q = [name |-> p.name, steps |-> steps, hops |-> p.hops]
  BY <1>1, PartsReplaced
<1>6. q.name = p.name /\ q.steps = steps /\ q.hops = p.hops
  BY <1>5
<1>7. IsPipeline(q)
  BY <1>2, <1>3, <1>4, <1>5, PipelineOf
<1>8. ASSUME NEW d, HasDerived(p, d) PROVE HasDerived(q, d)
  <2>1. PICK k \in 1..n : DerivesPort(p.steps[k], d)
    BY <1>2, <1>8 DEF HasDerived, ToSet
  <2>2. DerivesPort(steps[k], d)
    BY <1>4, <2>1 DEF DerivesPort
  <2>3. steps[k] \in ToSet(steps)
    BY <1>3, ListParts DEF ToSet
  <2>4. QED BY <1>6, <2>2, <2>3 DEF HasDerived
<1>9. QED BY <1>3, <1>4, <1>6, <1>7, <1>8 DEF q, n

-----------------------------------------------------------------------------
(* The inductive invariant.                                                *)

Computes == {"Expression", "Aggregator"}

StageInv ==
  /\ export \in Exports
  /\ stage \in {"parse", "translate", "assess", "raised", "write", "jobs", "done"}
  /\ at \in Nat
  /\ stage \in {"parse", "assess"} => at = 0
  /\ stage = "translate" => export.translate

PipelinesInv ==
  stage # "parse" =>
    /\ IsList(pipelines) /\ Len(pipelines) = Len(Parsed)
    /\ \A k \in 1..Len(pipelines) : IsPipeline(pipelines[k]) /\ pipelines[k].name = Parsed[k].name

(* Every derived port of a step that computes is with its step.            *)
PortsInv ==
  stage # "parse" =>
    \A k \in 1..Len(export.mappings) : \A d \in Derived(export.mappings[k]) :
      d[3] \in Computes =>
        HasDerived(pipelines[k], d) /\ (export.translate \/ HasOpen(pipelines[k], d))

FilesInv ==
  /\ IsList(reports)
  /\ stage \in {"parse", "translate", "assess", "raised"} => Len(reports) = 0
  /\ stage = "write" => Len(reports) = at /\ at <= Len(pipelines)
  /\ stage \in {"jobs", "done"} => Len(reports) = Len(pipelines)
  /\ \A k \in 1..Len(reports) : reports[k] = Report(pipelines[k]) /\ pipelines[k].name \in DOMAIN ktrs
  /\ \A n \in DOMAIN ktrs : \E k \in 1..Len(reports) : pipelines[k].name = n /\ ktrs[n] = Ktr(pipelines[k])

WarningsInv == stage \in {"write", "jobs", "done"} => warnings = Warnings(Source, pipelines)

JobsInv ==
  \A n \in DOMAIN kjbs :
    /\ stage \in {"jobs", "done"}
    /\ \E k \in 1..Len(Jobs) : Jobs[k].name = n /\ kjbs[n] = Kjb(Jobs[k])

IInv == StageInv /\ PipelinesInv /\ PortsInv /\ FilesInv /\ WarningsInv /\ JobsInv

-----------------------------------------------------------------------------
(* What Parse makes of the export.                                         *)

LEMMA UsedParts ==
  ASSUME NEW n, NEW x, IsList(x.ports)
  PROVE  LET s == Transformation(x)
             u == UsedAs(n, x)
         IN  u.name = Inside(n, Plain(x.name)) /\ u.type = x.type /\ u.exprs = s.exprs
<1> DEFINE s == Transformation(x)
           u == UsedAs(n, x)
           a == s.name
           b == s.type
           c == s.pdi
           d == s.confidence
           f == s.fields
           g == s.exprs
           h == s.attr
           v == Inside(n, Plain(x.name))
<1>1. s = [name |-> a, type |-> b, pdi |-> c, confidence |-> d, fields |-> f, exprs |-> g, attr |-> h] /\ b = x.type
  BY TransformationStep DEF IsStep
<1>2. u = [s EXCEPT !.name = v]
  BY DEF UsedAs
<1> HIDE DEF a, b, c, d, f, g, h, s, u, v
<1>3. u = [name |-> v, type |-> b, pdi |-> c, confidence |-> d, fields |-> f, exprs |-> g, attr |-> h]
  BY <1>1, <1>2
<1>4. u.name = v /\ u.type = b /\ u.exprs = g
  BY <1>3
<1>5. QED BY <1>1, <1>4 DEF u, v, b, g, s

LEMMA RuledDerives ==
  ASSUME NEW p, IsPipeline(p), NEW s, s \in ToSet(p.steps), NEW d, d[3] \in Computes,
         s.name = d[1], s.type = d[3],
         \E j \in 1..Len(s.exprs) : s.exprs[j].field = d[2] /\ s.exprs[j].translated = FALSE
  PROVE  HasOpen(Apply(p), d)
<1>1. IsStep(s)
  <2>1. DOMAIN p.steps = 1..Len(p.steps) /\ \A k \in 1..Len(p.steps) : IsStep(p.steps[k])
    BY ListParts DEF IsPipeline
  <2>2. QED BY <2>1 DEF ToSet
<1>2. d[3] \in TypesWithRule
  BY PdiKnown DEF Computes
<1> DEFINE r == Ruled(s)
<1>3. r.name = s.name /\ r.exprs = s.exprs /\ r.pdi = PdiOfType[d[3]]
  BY <1>1, <1>2, RuledParts
<1>4. r \in ToSet(Apply(p).steps)
  BY Applied
<1> HIDE DEF r
<1>5. DerivesOpen(r, d)
  BY <1>3 DEF DerivesOpen
<1>6. QED BY <1>4, <1>5 DEF HasOpen

(* What the parser makes of a mapping has its derived ports, all open.     *)
LEMMA MappingDerives ==
  ASSUME IsExport(export), NEW m \in ToSet(export.mappings), NEW d \in Derived(m), d[3] \in Computes
  PROVE  HasOpen(Apply(ParseMapping(export, m)), d)
<1> DEFINE q == ParseMapping(export, m)
           D(i) == Definition(export.mapplets, i.def)
<1>1. IsDefinition(m) /\ IsList(m.instances) /\ IsList(export.mapplets) /\ \A x \in ToSet(export.mapplets) : IsDefinition(x)
  BY DEF IsExport
<1>2. /\ IsPipeline(q)
      /\ \A x \in ToSet(m.transformations) : Transformation(x) \in ToSet(q.steps)
      /\ HasUses(export, q, ToSet(m.instances))
  BY <1>1, ParsedMapping
<1> HIDE DEF q
<1>3. CASE d \in DerivedIn(m.transformations, Plain)
  <2>0. PICK x \in ToSet(m.transformations) :
          \E port \in ToSet(x.ports) : Derives(port) /\ d = <<Plain(x.name), port.name, x.type>>
    BY <1>3 DEF DerivedIn
  <2>1. PICK port \in ToSet(x.ports) : Derives(port) /\ d = <<Plain(x.name), port.name, x.type>>
    BY <2>0
  <2> DEFINE s == Transformation(x)
  <2>2. IsList(x.ports)
    BY <1>1 DEF IsDefinition
  <2>3. /\ s.name = Plain(x.name) /\ s.type = x.type
        /\ \E j \in 1..Len(s.exprs) : s.exprs[j].field = port.name /\ s.exprs[j].translated = FALSE
    BY <2>1, <2>2, TransformationStep
  <2>4. s \in ToSet(q.steps)
    BY <1>2
  <2>5. d[1] = Plain(x.name) /\ d[2] = port.name /\ d[3] = x.type
    BY <2>1
  <2> HIDE DEF s
  <2>6. HasOpen(Apply(q), d)
    BY <1>2, <2>3, <2>4, <2>5, RuledDerives
  <2>7. QED BY <2>6 DEF q
<1>4. CASE d \notin DerivedIn(m.transformations, Plain)
  <2>1. PICK i \in UsesOf(m) :
          Defined(export.mapplets, i.def) /\ d \in DerivedIn(D(i).transformations, LAMBDA n : Inside(i.name, Plain(n)))
    BY <1>4 DEF Derived
  <2>0. PICK x \in ToSet(D(i).transformations) :
          \E port \in ToSet(x.ports) : Derives(port) /\ d = <<Inside(i.name, Plain(x.name)), port.name, x.type>>
    BY <2>1 DEF DerivedIn
  <2>2. PICK port \in ToSet(x.ports) : Derives(port) /\ d = <<Inside(i.name, Plain(x.name)), port.name, x.type>>
    BY <2>0
  <2>3. IsDefinition(D(i))
    BY <1>1, <2>1, DefinitionFound
  <2>4. i \in ToSet(m.instances) /\ i.type = "Mapplet"
    BY DEF UsesOf
  <2>5. IsList(x.ports)
    BY <2>3 DEF IsDefinition
  <2> DEFINE s == UsedAs(i.name, x)
  <2>6. s \in ToSet(q.steps)
    BY <1>2, <2>1, <2>4 DEF HasUses
  <2>7. /\ s.name = Inside(i.name, Plain(x.name)) /\ s.type = x.type
        /\ \E j \in 1..Len(s.exprs) : s.exprs[j].field = port.name /\ s.exprs[j].translated = FALSE
    <3> DEFINE t == Transformation(x)
    <3>1. s.name = Inside(i.name, Plain(x.name)) /\ s.type = x.type /\ s.exprs = t.exprs
      BY <2>5, UsedParts
    <3>2. \E j \in 1..Len(t.exprs) : t.exprs[j].field = port.name /\ t.exprs[j].translated = FALSE
      BY <2>2, <2>5, TransformationStep
    <3> HIDE DEF t, s
    <3>3. QED BY <3>1, <3>2
  <2>8. d[1] = Inside(i.name, Plain(x.name)) /\ d[2] = port.name /\ d[3] = x.type
    BY <2>2
  <2> HIDE DEF s
  <2>9. HasOpen(Apply(q), d)
    BY <1>2, <2>6, <2>7, <2>8, RuledDerives
  <2>10. QED BY <2>9 DEF q
<1>5. QED BY <1>3, <1>4

LEMMA OpenIsDerived ==
  ASSUME NEW p, NEW d, HasOpen(p, d)
  PROVE  HasDerived(p, d)
BY DEF HasOpen, HasDerived, DerivesOpen, DerivesPort

LEMMA ExportStays ==
  ASSUME UNCHANGED export
  PROVE  /\ FromTalend' = FromTalend /\ Parsed' = Parsed /\ Jobs' = Jobs /\ Source' = Source
         /\ \A m : Derived(m)' = Derived(m)
<1>1. FromTalend' = FromTalend /\ Parsed' = Parsed
  BY DEF FromTalend, Parsed
<1>2. Jobs' = Jobs
  BY DEF Jobs
<1>3. Source' = Source
  BY DEF Source, FromTalend
<1>4. \A m : Derived(m)' = Derived(m)
  <2> TAKE m
  <2>1. UsesOf(m)' = UsesOf(m)
    BY DEF UsesOf
  <2>2. QED BY <2>1 DEF Derived, DerivedIn
<1>5. QED BY <1>1, <1>2, <1>3, <1>4

(* What is parsed: a pipeline for each mapping, or for the Talend job.     *)
LEMMA ParsedParts ==
  ASSUME IsExport(export)
  PROVE  /\ IsList(Parsed)
         /\ \A k \in 1..Len(Parsed) : IsPipeline(Parsed[k])
         /\ FromTalend => Len(export.mappings) = 0
         /\ ~FromTalend => /\ Len(Parsed) = Len(export.mappings)
                           /\ \A k \in 1..Len(Parsed) : /\ Parsed[k] = ParseMapping(export, export.mappings[k])
                                                        /\ Parsed[k].name = export.mappings[k].name
<1>1. IsList(export.mappings) /\ Len(export.mappings) \in Nat /\ DOMAIN export.mappings = 1..Len(export.mappings)
  BY ListParts DEF IsExport
<1>2. CASE FromTalend
  <2> DEFINE q == ParseItem(export.item)
  <2>1. IsPipeline(q)
    BY ParsedItem DEF IsExport
  <2> HIDE DEF q
  <2>2. Parsed = <<q>>
    BY <1>2 DEF Parsed, q
  <2>3. <<q>> = [k \in 1..1 |-> <<q>>[k]] /\ <<q>>[1] = q
    OBVIOUS
  <2>4. IsList(<<q>>) /\ Len(<<q>>) = 1
    BY <2>3, ListOf
  <2>5. Len(export.mappings) = 0
    BY <1>2, EmptyList DEF IsExport, FromTalend
  <2>6. \A k \in 1..Len(Parsed) : IsPipeline(Parsed[k])
    BY <2>1, <2>2, <2>3, <2>4
  <2>7. QED BY <1>2, <2>2, <2>4, <2>5, <2>6
<1>3. CASE ~FromTalend
  <2> DEFINE n == Len(export.mappings)
  <2>1. Parsed = [k \in 1..n |-> ParseMapping(export, export.mappings[k])]
    BY <1>1, <1>3 DEF Parsed
  <2>2. IsList(Parsed) /\ Len(Parsed) = n
    BY <1>1, <2>1, ListOf
  <2>3. ASSUME NEW k \in 1..n
        PROVE  /\ Parsed[k] = ParseMapping(export, export.mappings[k])
               /\ IsPipeline(Parsed[k]) /\ Parsed[k].name = export.mappings[k].name
    <3> DEFINE m == export.mappings[k]
    <3>1. IsDefinition(m) /\ IsList(m.instances)
      BY <1>1 DEF IsExport, ToSet
    <3>2. Parsed[k] = ParseMapping(export, m)
      BY <2>1
    <3> HIDE DEF m
    <3>3. QED BY <3>1, <3>2, ParsedMapping DEF m
  <2>4. QED BY <1>3, <2>2, <2>3
<1>4. QED BY <1>2, <1>3

-----------------------------------------------------------------------------
(* Every action keeps the invariant.                                       *)

LEMMA InitHolds == Init => IInv
<1> SUFFICES ASSUME Init PROVE IInv
  OBVIOUS
<1>1. IsList(<< >>) /\ Len(<< >>) = 0 /\ DOMAIN << >> = {}
  BY EmptyList
<1>2. StageInv
  BY DEF Init, StageInv
<1>3. PipelinesInv /\ PortsInv /\ WarningsInv
  BY DEF Init, PipelinesInv, PortsInv, WarningsInv
<1>4. FilesInv
  BY <1>1 DEF Init, FilesInv
<1>5. JobsInv
  BY <1>1 DEF Init, JobsInv
<1>6. QED BY <1>2, <1>3, <1>4, <1>5 DEF IInv

(* Before anything is written the pipelines may change.                    *)
LEMMA NothingWritten ==
  ASSUME FilesInv, stage \in {"parse", "translate", "assess"}, stage' \in {"translate", "assess", "raised"},
         UNCHANGED <<reports, ktrs>>
  PROVE  FilesInv'
<1>1. IsList(reports) /\ Len(reports) = 0 /\ \A n \in DOMAIN ktrs : FALSE
  BY DEF FilesInv
<1>2. IsList(reports') /\ Len(reports') = 0 /\ \A n \in DOMAIN ktrs' : FALSE
  BY <1>1
<1>3. QED BY <1>2 DEF FilesInv

LEMMA NoJobsYet ==
  ASSUME JobsInv, stage \notin {"jobs", "done"}, UNCHANGED kjbs
  PROVE  JobsInv'
<1>1. \A n \in DOMAIN kjbs' : FALSE
  BY DEF JobsInv
<1>2. QED BY <1>1 DEF JobsInv

LEMMA SamePipelines ==
  ASSUME PipelinesInv, PortsInv, stage # "parse", UNCHANGED <<export, pipelines>>
  PROVE  PipelinesInv' /\ PortsInv'
<1>1. Parsed' = Parsed /\ \A m : Derived(m)' = Derived(m)
  BY ExportStays
<1>2. PipelinesInv'
  BY <1>1 DEF PipelinesInv
<1>3. PortsInv'
  BY <1>1 DEF PortsInv
<1>4. QED BY <1>2, <1>3

LEMMA SameWarnings ==
  ASSUME WarningsInv, stage \in {"write", "jobs", "done"}, UNCHANGED <<export, pipelines, warnings>>
  PROVE  WarningsInv'
<1>1. Source' = Source
  BY ExportStays
<1>2. warnings = Warnings(Source, pipelines)
  BY DEF WarningsInv
<1>3. warnings' = Warnings(Source', pipelines')
  BY <1>1, <1>2
<1>4. QED BY <1>3 DEF WarningsInv

LEMMA ParseHolds ==
  ASSUME IInv, Parse
  PROVE  IInv'
<1> USE DEF Parse
<1>1. IsExport(export)
  BY ExportsAssumption DEF IInv, StageInv
<1>2. StageInv'
  BY DEF IInv, StageInv
<1>3. FilesInv' /\ JobsInv'
  BY NothingWritten, NoJobsYet DEF IInv
<1>4. WarningsInv'
  BY DEF WarningsInv
<1>5. Parsed' = Parsed /\ \A m : Derived(m)' = Derived(m)
  BY ExportStays
<1>6. /\ IsList(Parsed)
      /\ \A k \in 1..Len(Parsed) : IsPipeline(Parsed[k])
      /\ FromTalend => Len(export.mappings) = 0
      /\ ~FromTalend => /\ Len(Parsed) = Len(export.mappings)
                        /\ \A k \in 1..Len(Parsed) : Parsed[k] = ParseMapping(export, export.mappings[k])
  BY <1>1, ParsedParts
<1>7. Len(Parsed) \in Nat /\ DOMAIN Parsed = 1..Len(Parsed)
  BY <1>6, ListParts
<1> DEFINE n == Len(Parsed)
           q == [k \in DOMAIN Parsed |-> Apply(Parsed[k])]
<1>8. IsList(q) /\ Len(q) = n /\ \A k \in 1..n : q[k] = Apply(Parsed[k])
  BY <1>7, ListOf
<1>9. pipelines' = q /\ stage' # "parse" /\ export' = export
  OBVIOUS
<1> HIDE DEF q, Parse
<1>10. PipelinesInv'
  <2>1. \A k \in 1..Len(q) : IsPipeline(q[k]) /\ q[k].name = Parsed[k].name
    BY <1>6, <1>8, Applied
  <2>2. QED BY <1>5, <1>8, <1>9, <2>1 DEF PipelinesInv
<1>11. PortsInv'
  <2>1. ASSUME NEW k \in 1..Len(export.mappings), NEW d \in Derived(export.mappings[k]), d[3] \in Computes
        PROVE  HasDerived(q[k], d) /\ HasOpen(q[k], d)
    <3>1. Len(export.mappings) \in Nat /\ DOMAIN export.mappings = 1..Len(export.mappings)
      BY <1>1, ListParts DEF IsExport
    <3>2. ~FromTalend
      BY <1>6, <3>1
    <3>3. q[k] = Apply(ParseMapping(export, export.mappings[k]))
      BY <1>6, <1>8, <3>2
    <3>4. export.mappings[k] \in ToSet(export.mappings)
      BY <3>1 DEF ToSet
    <3>5. HasOpen(q[k], d)
      BY <1>1, <2>1, <3>3, <3>4, MappingDerives
    <3>6. QED BY <3>5, OpenIsDerived
  <2>2. QED BY <1>5, <1>9, <2>1 DEF PortsInv
<1>12. QED BY <1>2, <1>3, <1>4, <1>10, <1>11 DEF IInv

LEMMA TranslateHolds ==
  ASSUME IInv, Translate
  PROVE  IInv'
<1> USE DEF Translate
<1>1. StageInv'
  BY DEF IInv, StageInv
<1>2. FilesInv' /\ JobsInv'
  BY NothingWritten, NoJobsYet DEF IInv
<1>3. WarningsInv'
  BY DEF WarningsInv
<1>4. Parsed' = Parsed /\ \A m : Derived(m)' = Derived(m)
  BY ExportStays
<1>5. PICK answered \in SUBSET Pending(pipelines[at + 1]) :
        pipelines' = [pipelines EXCEPT ![at + 1] = TranslatePipeline(@, answered)]
  OBVIOUS
<1> DEFINE n == Len(pipelines)
           i == at + 1
           q == TranslatePipeline(pipelines[i], answered)
<1>6. /\ IsList(pipelines) /\ n = Len(Parsed) /\ export.translate
      /\ \A k \in 1..n : IsPipeline(pipelines[k]) /\ pipelines[k].name = Parsed[k].name
      /\ stage # "parse" /\ stage' # "parse" /\ export' = export
  BY DEF IInv, StageInv, PipelinesInv
<1>7. n \in Nat /\ DOMAIN pipelines = 1..n /\ i \in 1..n
  BY <1>6, ListParts DEF IInv, StageInv
<1>8. pipelines' = [k \in 1..n |-> IF k = i THEN q ELSE pipelines[k]]
  BY <1>5, <1>7
<1>9. IsPipeline(q) /\ q.name = pipelines[i].name /\ \A d : HasDerived(pipelines[i], d) => HasDerived(q, d)
  BY <1>6, <1>7, TranslatedParts
<1> HIDE DEF q, i, n, Translate
<1>10. IsList(pipelines') /\ Len(pipelines') = n
  BY <1>7, <1>8, ListOf
<1>11. PipelinesInv'
  <2>1. \A k \in 1..n : IsPipeline(pipelines'[k]) /\ pipelines'[k].name = Parsed[k].name
    BY <1>6, <1>7, <1>8, <1>9 DEF n
  <2>2. QED BY <1>4, <1>6, <1>10, <2>1 DEF PipelinesInv
<1>12. PortsInv'
  <2>1. ASSUME NEW k \in 1..Len(export.mappings), NEW d \in Derived(export.mappings[k]), d[3] \in Computes
        PROVE  HasDerived(pipelines'[k], d)
    <3>1. HasDerived(pipelines[k], d)
      BY <1>6, <2>1 DEF IInv, PortsInv
    <3>2. k \in 1..n
      <4>1. IsExport(export)
        BY ExportsAssumption DEF IInv, StageInv
      <4>2. FromTalend => Len(export.mappings) = 0
        BY <4>1, ParsedParts
      <4>3. ~FromTalend => Len(Parsed) = Len(export.mappings)
        BY <4>1, ParsedParts
      <4>4. QED BY <1>6, <4>2, <4>3
    <3>3. QED BY <1>8, <1>9, <3>1, <3>2
  <2>2. QED BY <1>4, <1>6, <2>1 DEF PortsInv
<1>13. QED BY <1>1, <1>2, <1>3, <1>11, <1>12 DEF IInv

LEMMA AssessHolds ==
  ASSUME IInv, Unavailable \/ Malformed \/ EndTranslate \/ Assess
  PROVE  IInv'
<1> USE DEF Unavailable, Malformed, EndTranslate, Assess
<1>1. StageInv' /\ stage # "parse" /\ stage \notin {"jobs", "done"} /\ UNCHANGED <<export, pipelines, kjbs, reports, ktrs>>
  BY DEF IInv, StageInv
<1>2. PipelinesInv' /\ PortsInv'
  BY <1>1, SamePipelines DEF IInv
<1>3. JobsInv'
  BY <1>1, NoJobsYet DEF IInv
<1>4. CASE Unavailable \/ Malformed \/ EndTranslate
  <2>1. FilesInv'
    BY <1>4, NothingWritten DEF IInv
  <2>2. WarningsInv'
    BY <1>4 DEF WarningsInv
  <2>3. QED BY <1>1, <1>2, <1>3, <2>1, <2>2 DEF IInv
<1>5. CASE Assess
  <2>1. FilesInv'
    <3>1. IsList(reports') /\ Len(reports') = 0 /\ at' = 0 /\ stage' = "write" /\ \A n \in DOMAIN ktrs' : FALSE
      BY <1>5 DEF IInv, StageInv, FilesInv
    <3>2. IsList(pipelines')
      BY <1>5, <1>2 DEF PipelinesInv
    <3>3. Len(pipelines') \in Nat
      BY <3>2, ListParts
    <3>4. QED BY <3>1, <3>3 DEF FilesInv
  <2>2. WarningsInv'
    <3>1. Source' = Source
      BY <1>1, ExportStays
    <3>2. warnings' = Warnings(Source', pipelines')
      BY <1>5, <3>1
    <3>3. QED BY <3>2 DEF WarningsInv
  <2>3. QED BY <1>1, <1>2, <1>3, <2>1, <2>2 DEF IInv
<1>6. QED BY <1>4, <1>5

LEMMA WriteKtrHolds ==
  ASSUME IInv, WriteKtr
  PROVE  IInv'
<1> USE DEF WriteKtr
<1>1. StageInv' /\ stage = "write" /\ stage' = "write" /\ UNCHANGED <<export, pipelines, kjbs, warnings>>
  BY DEF IInv, StageInv
<1>2. PipelinesInv' /\ PortsInv' /\ JobsInv' /\ WarningsInv'
  BY <1>1, SamePipelines, NoJobsYet, SameWarnings DEF IInv
<1>3. FilesInv'
  <2> DEFINE i == at + 1
             p == pipelines[i]
             now == reports'
  <2>1. /\ IsList(reports) /\ Len(reports) = at /\ at \in Nat
        /\ \A k \in 1..Len(reports) : reports[k] = Report(pipelines[k]) /\ pipelines[k].name \in DOMAIN ktrs
        /\ \A n \in DOMAIN ktrs : \E k \in 1..Len(reports) : pipelines[k].name = n /\ ktrs[n] = Ktr(pipelines[k])
    BY <1>1 DEF IInv, StageInv, FilesInv
  <2>2. Len(pipelines) \in Nat
    BY <1>1, ListParts DEF IInv, PipelinesInv
  <2>3. at < Len(pipelines) /\ at' = i /\ now = Append(reports, Report(p)) /\ ktrs' = Written(ktrs, p.name, Ktr(p))
    OBVIOUS
  <2>4. IsList(now) /\ Len(now) = i /\ now[i] = Report(p) /\ \A k \in 1..at : now[k] = reports[k]
    BY <2>1, <2>3, Appended
  <2>5. /\ DOMAIN ktrs' = DOMAIN ktrs \cup {p.name}
        /\ ktrs'[p.name] = Ktr(p)
        /\ \A n \in DOMAIN ktrs : n # p.name => ktrs'[n] = ktrs[n]
    BY <2>3 DEF Written
  <2>6. i \in 1..i /\ 1..at \subseteq 1..i /\ \A k \in 1..i : k \in 1..at \/ k = i
    BY <2>1
  <2> HIDE DEF now, WriteKtr
  <2>7. \A k \in 1..i : now[k] = Report(pipelines[k]) /\ pipelines[k].name \in DOMAIN ktrs'
    BY <2>1, <2>4, <2>5, <2>6
  <2>8. \A n \in DOMAIN ktrs' : \E k \in 1..i : pipelines[k].name = n /\ ktrs'[n] = Ktr(pipelines[k])
    <3> TAKE n \in DOMAIN ktrs'
    <3>1. CASE n = p.name
      BY <2>5, <2>6, <3>1
    <3>2. CASE n # p.name
      <4>1. n \in DOMAIN ktrs /\ ktrs'[n] = ktrs[n]
        BY <2>5, <3>2
      <4>2. PICK k \in 1..at : pipelines[k].name = n /\ ktrs[n] = Ktr(pipelines[k])
        BY <2>1, <4>1
      <4>3. QED BY <2>6, <4>1, <4>2
    <3>3. QED BY <3>1, <3>2
  <2>9. i <= Len(pipelines)
    BY <2>1, <2>2, <2>3
  <2>10. QED BY <1>1, <2>3, <2>4, <2>7, <2>8, <2>9 DEF FilesInv, now
<1>4. QED BY <1>1, <1>2, <1>3 DEF IInv

LEMMA JobsHold ==
  ASSUME IInv, BeginJobs \/ WriteKjb \/ Finish
  PROVE  IInv'
<1> USE DEF BeginJobs, WriteKjb, Finish
<1>1. StageInv' /\ stage # "parse" /\ stage \in {"write", "jobs", "done"} /\ stage' \in {"jobs", "done"}
      /\ UNCHANGED <<export, pipelines, warnings, reports, ktrs>>
  BY DEF IInv, StageInv
<1>2. PipelinesInv' /\ PortsInv' /\ WarningsInv'
  BY <1>1, SamePipelines, SameWarnings DEF IInv
<1>3. FilesInv'
  <2>1. Len(reports) = Len(pipelines)
    BY DEF IInv, FilesInv
  <2>2. QED BY <1>1, <2>1 DEF IInv, FilesInv
<1>4. Jobs' = Jobs
  BY <1>1, ExportStays
<1>5. CASE BeginJobs \/ Finish
  <2>1. kjbs' = kjbs
    BY <1>5
  <2>2. JobsInv'
    BY <1>1, <1>4, <2>1 DEF IInv, JobsInv
  <2>3. QED BY <1>1, <1>2, <1>3, <2>2 DEF IInv
<1>6. CASE WriteKjb
  <2> DEFINE i == at + 1
             j == Jobs[i]
  <2>1. kjbs' = Written(kjbs, j.name, Kjb(j)) /\ at < Len(Jobs) /\ at \in Nat
    BY <1>6 DEF IInv, StageInv
  <2>2. Len(Jobs) \in Nat
    <3>1. IsExport(export)
      BY ExportsAssumption DEF IInv, StageInv
    <3>2. Len(export.workflows) \in Nat /\ DOMAIN export.workflows = 1..Len(export.workflows)
      BY <3>1, ListParts DEF IsExport
    <3>3. IsList(Jobs)
      BY <3>2, ListOf DEF Jobs
    <3>4. QED BY <3>3, ListParts
  <2>3. i \in 1..Len(Jobs)
    BY <2>1, <2>2
  <2>4. \A n \in DOMAIN kjbs' : \E k \in 1..Len(Jobs) : Jobs[k].name = n /\ kjbs'[n] = Kjb(Jobs[k])
    <3> TAKE n \in DOMAIN kjbs'
    <3>1. CASE n = j.name
      BY <2>1, <2>3, <3>1 DEF Written
    <3>2. CASE n # j.name
      <4>1. n \in DOMAIN kjbs /\ kjbs'[n] = kjbs[n]
        BY <2>1, <3>2 DEF Written
      <4>2. QED BY <4>1 DEF IInv, JobsInv
    <3>3. QED BY <3>1, <3>2
  <2> HIDE DEF i, j, WriteKjb, BeginJobs, Finish
  <2>5. JobsInv'
    BY <1>1, <1>4, <2>4 DEF JobsInv
  <2>6. QED BY <1>1, <1>2, <1>3, <2>5 DEF IInv
<1>7. QED BY <1>5, <1>6

LEMMA StutterHolds ==
  ASSUME IInv, UNCHANGED vars
  PROVE  IInv'
<1>1. UNCHANGED <<export, pipelines, stage, at, warnings, reports, ktrs, kjbs>>
  BY DEF vars
<1>2. Parsed' = Parsed /\ Jobs' = Jobs /\ Source' = Source /\ \A m : Derived(m)' = Derived(m)
  BY <1>1, ExportStays
<1>3. StageInv'
  BY <1>1 DEF IInv, StageInv
<1>4. PipelinesInv'
  BY <1>1, <1>2 DEF IInv, PipelinesInv
<1>5. PortsInv'
  BY <1>1, <1>2 DEF IInv, PortsInv
<1>6. FilesInv'
  BY <1>1 DEF IInv, FilesInv
<1>7. WarningsInv'
  BY <1>1, <1>2 DEF IInv, WarningsInv
<1>8. JobsInv'
  BY <1>1, <1>2 DEF IInv, JobsInv
<1>9. QED BY <1>3, <1>4, <1>5, <1>6, <1>7, <1>8 DEF IInv

(* The invariant holds of every run, for all exports.                      *)
THEOREM ConversionInvariant == Spec => []IInv
<1>1. IInv /\ [Next]_vars => IInv'
  <2> SUFFICES ASSUME IInv, [Next]_vars PROVE IInv'
    OBVIOUS
  <2>1. CASE Parse
    BY <2>1, ParseHolds
  <2>2. CASE Translate
    BY <2>2, TranslateHolds
  <2>3. CASE Unavailable \/ Malformed \/ EndTranslate \/ Assess
    BY <2>3, AssessHolds
  <2>4. CASE WriteKtr
    BY <2>4, WriteKtrHolds
  <2>5. CASE BeginJobs \/ WriteKjb \/ Finish
    BY <2>5, JobsHold
  <2>6. CASE UNCHANGED vars
    BY <2>6, StutterHolds
  <2>7. QED BY <2>1, <2>2, <2>3, <2>4, <2>5, <2>6 DEF Next
<1>2. QED BY InitHolds, <1>1, PTL DEF Spec

-----------------------------------------------------------------------------
(* The file of a name that one pipeline has is that pipeline's.            *)
LEMMA FileOf ==
  ASSUME IInv, NEW n \in DOMAIN ktrs, NEW k, \A j \in 1..Len(pipelines) : pipelines[j].name = n => j = k
  PROVE  k \in 1..Len(reports) /\ Len(reports) <= Len(pipelines) /\ stage # "parse" /\ ktrs[n] = Ktr(pipelines[k])
<1>1. PICK j \in 1..Len(reports) : pipelines[j].name = n /\ ktrs[n] = Ktr(pipelines[j])
  BY DEF IInv, FilesInv
<1>2. Len(reports) \in Nat
  BY ListParts DEF IInv, FilesInv
<1>3. stage \in {"write", "jobs", "done"} /\ Len(reports) <= Len(pipelines)
  <2>1. Len(reports) # 0
    BY <1>2
  <2>2. stage \in {"write", "jobs", "done"}
    BY <2>1 DEF IInv, StageInv, FilesInv
  <2>3. Len(pipelines) \in Nat
    BY <2>2, ListParts DEF IInv, PipelinesInv
  <2>4. QED BY <2>2, <2>3 DEF IInv, FilesInv
<1>4. Len(pipelines) \in Nat
  BY <1>3, ListParts DEF IInv, PipelinesInv
<1>5. j = k
  BY <1>1, <1>2, <1>3, <1>4
<1>6. QED BY <1>1, <1>3, <1>5

LEMMA NoneDropped == IInv => NoExpressionIsDropped
<1> SUFFICES ASSUME IInv, NEW m \in WrittenMappings, NEW d \in Derived(m), d[3] \in {"Expression", "Aggregator"}
             PROVE  \E s \in StepsOfKtr(m.name) : s.name = d[1] /\ (Shows(s, d[2]) \/ (s.pdi = "GroupBy" /\ export.translate))
  BY DEF NoExpressionIsDropped
<1>1. IsExport(export)
  BY ExportsAssumption DEF IInv, StageInv
<1>2. IsList(export.mappings) /\ Len(export.mappings) \in Nat /\ DOMAIN export.mappings = 1..Len(export.mappings)
  BY <1>1, ListParts DEF IsExport
<1>3. PICK k \in 1..Len(export.mappings) : m = export.mappings[k]
  BY <1>2 DEF WrittenMappings, ToSet
<1>4. m.name \in DOMAIN ktrs /\ \A j \in 1..Len(export.mappings) : export.mappings[j].name = m.name => j = k
  BY <1>2, <1>3 DEF WrittenMappings
<1>5. /\ ~FromTalend
      /\ Len(Parsed) = Len(export.mappings)
      /\ \A j \in 1..Len(Parsed) : Parsed[j].name = export.mappings[j].name
  BY <1>1, <1>2, <1>3, ParsedParts
<1>6. stage # "parse"
  <2>1. \E j \in 1..Len(reports) : TRUE
    BY <1>4 DEF IInv, FilesInv
  <2>2. QED BY <2>1 DEF IInv, FilesInv
<1>7. Len(pipelines) = Len(Parsed) /\ \A j \in 1..Len(pipelines) : IsPipeline(pipelines[j]) /\ pipelines[j].name = Parsed[j].name
  BY <1>6 DEF IInv, PipelinesInv
<1>8. ktrs[m.name] = Ktr(pipelines[k])
  <2>1. \A j \in 1..Len(pipelines) : pipelines[j].name = m.name => j = k
    BY <1>4, <1>5, <1>7
  <2>2. QED BY <1>4, <2>1, FileOf
<1>9. HasDerived(pipelines[k], d) /\ (export.translate \/ HasOpen(pipelines[k], d))
  BY <1>3, <1>6 DEF IInv, PortsInv, Computes
<1>10. \E s \in ToSet(Ktr(pipelines[k]).steps) : s.name = d[1] /\ (Shows(s, d[2]) \/ (s.pdi = "GroupBy" /\ export.translate))
  BY <1>5, <1>7, <1>9, DerivedShown
<1>11. QED BY <1>8, <1>10 DEF StepsOfKtr

-----------------------------------------------------------------------------
(* The properties.                                                         *)

LEMMA CountsMatch == IInv => CountsMatchTheFiles
<1> SUFFICES ASSUME IInv PROVE CountsMatchTheFiles
  OBVIOUS
<1> DEFINE Kinds == {"TableInput", "TableOutput", "StreamLookup"}
<1>1. ASSUME NEW k \in WrittenAlone
      PROVE  /\ pipelines[k].name \in DOMAIN ktrs /\ ktrs[pipelines[k].name] = Ktr(pipelines[k])
             /\ IsPipeline(pipelines[k]) /\ reports[k] = Report(pipelines[k])
             /\ stage # "parse" /\ k \in 1..Len(reports)
  <2>1. DOMAIN reports = 1..Len(reports) /\ Len(reports) \in Nat
    BY ListParts DEF IInv, FilesInv
  <2>2. k \in 1..Len(reports) /\ \A j \in DOMAIN pipelines : pipelines[j].name = pipelines[k].name => j = k
    BY <2>1 DEF WrittenAlone
  <2>3. reports[k] = Report(pipelines[k]) /\ pipelines[k].name \in DOMAIN ktrs
    BY <2>2 DEF IInv, FilesInv
  <2>4. stage # "parse"
    BY <2>2 DEF IInv, FilesInv
  <2>5. Len(pipelines) \in Nat /\ DOMAIN pipelines = 1..Len(pipelines)
    BY <2>4, ListParts DEF IInv, PipelinesInv
  <2>6. \A j \in 1..Len(pipelines) : pipelines[j].name = pipelines[k].name => j = k
    BY <2>2, <2>5
  <2>7. ktrs[pipelines[k].name] = Ktr(pipelines[k]) /\ Len(reports) <= Len(pipelines)
    BY <2>3, <2>6, FileOf
  <2>8. IsPipeline(pipelines[k])
    BY <2>1, <2>2, <2>4, <2>5, <2>7 DEF IInv, PipelinesInv
  <2>9. QED BY <2>2, <2>3, <2>4, <2>7, <2>8
<1>2. ASSUME NEW k \in WrittenAlone
      PROVE  LET n == pipelines[k].name IN
             /\ \A c \in {"auto", "review", "manual"} :
                  reports[k].of[c] = Cardinality(StepsLike(n, LAMBDA s : s.confidence = c /\ s.name.role # "lookup"))
             /\ reports[k].untranslated = TodosOf(n)
             /\ TodosOf(n) = OpenExpressions(pipelines[k])
             /\ StepsLike(n, LAMBDA s : s.name.role # "lookup" /\ s.pdi \in Kinds) = StepsWith(pipelines[k], LAMBDA s : s.pdi \in Kinds)
             /\ reports[k].of["manual"] = Cardinality(StepsWith(pipelines[k], LAMBDA s : s.pdi = None))
  <2> DEFINE p == pipelines[k]
             n == p.name
             steps == Ktr(p).steps
             of == [c \in {"auto", "review", "manual"} |-> Cardinality({i \in DOMAIN p.steps : p.steps[i].confidence = c})]
  <2>1. ktrs[n] = Ktr(p) /\ IsPipeline(p) /\ reports[k] = Report(p)
    BY <1>1
  <2>2. Report(p) = [total |-> Len(p.steps), of |-> of, untranslated |-> OpenExpressions(p)]
    BY DEF Report, StepsWith
  <2>3. reports[k].of = of /\ reports[k].untranslated = OpenExpressions(p)
    BY <2>1, <2>2
  <2>4. /\ \A c : {i \in DOMAIN steps : steps[i].confidence = c /\ steps[i].name.role # "lookup"} =
                  {i \in DOMAIN p.steps : p.steps[i].confidence = c}
        /\ {i \in DOMAIN steps : steps[i].name.role # "lookup" /\ steps[i].pdi \in {"TableInput", "TableOutput", "StreamLookup"}} =
           {i \in DOMAIN p.steps : p.steps[i].pdi \in {"TableInput", "TableOutput", "StreamLookup"}}
        /\ Total([i \in DOMAIN steps |-> Len(steps[i].todos)]) = OpenExpressions(p)
    BY <2>1, FileCounts
  <2>5. TodosOf(n) = OpenExpressions(p)
    BY <2>1, <2>4 DEF TodosOf
  <2>6. StepsLike(n, LAMBDA s : s.name.role # "lookup" /\ s.pdi \in Kinds) = StepsWith(p, LAMBDA s : s.pdi \in Kinds)
    BY <2>1, <2>4 DEF StepsLike, StepsWith
  <2>7. ASSUME NEW c \in {"auto", "review", "manual"}
        PROVE  of[c] = Cardinality(StepsLike(n, LAMBDA s : s.confidence = c /\ s.name.role # "lookup"))
    <3>1. StepsLike(n, LAMBDA s : s.confidence = c /\ s.name.role # "lookup") =
            {i \in DOMAIN steps : steps[i].confidence = c /\ steps[i].name.role # "lookup"}
      BY <2>1 DEF StepsLike
    <3>2. of[c] = Cardinality({i \in DOMAIN p.steps : p.steps[i].confidence = c})
      OBVIOUS
    <3> HIDE DEF of, steps
    <3>3. QED BY <2>4, <3>1, <3>2
  <2>8. of["manual"] = Cardinality(StepsWith(p, LAMBDA s : s.pdi = None))
    <3>1. {i \in DOMAIN p.steps : p.steps[i].confidence = "manual"} = {i \in DOMAIN p.steps : p.steps[i].pdi = None}
      <4>1. DOMAIN p.steps = 1..Len(p.steps) /\ \A i \in 1..Len(p.steps) : IsStep(p.steps[i])
        BY <2>1, ListParts DEF IsPipeline
      <4>2. \A i \in DOMAIN p.steps : p.steps[i].pdi = None <=> p.steps[i].confidence = "manual"
        BY <4>1 DEF IsStep
      <4>3. QED BY <4>2
    <3>2. StepsWith(p, LAMBDA s : s.pdi = None) = {i \in DOMAIN p.steps : p.steps[i].pdi = None}
      BY DEF StepsWith
    <3>3. of["manual"] = Cardinality({i \in DOMAIN p.steps : p.steps[i].confidence = "manual"})
      OBVIOUS
    <3> HIDE DEF of, p
    <3>4. QED BY <3>1, <3>2, <3>3
  <2>9. QED BY <2>3, <2>5, <2>6, <2>7, <2>8
<1>3. ASSUME stage = "done", WrittenAlone = DOMAIN pipelines
      PROVE  /\ warnings.unmapped = Total([k \in DOMAIN reports |-> reports[k].of["manual"]])
             /\ warnings.expressions = Total([k \in DOMAIN reports |-> TodosOf(pipelines[k].name)])
             /\ warnings.database = Total([k \in DOMAIN reports |-> Cardinality(StepsLike(pipelines[k].name,
                  LAMBDA s : s.name.role # "lookup" /\ s.pdi \in Kinds))])
  <2>1. warnings = Warnings(Source, pipelines)
    BY <1>3 DEF IInv, WarningsInv
  <2>2. DOMAIN reports = DOMAIN pipelines
    BY <1>3, ListParts DEF IInv, FilesInv, PipelinesInv
  <2>3. /\ warnings.unmapped = Total([k \in DOMAIN pipelines |-> Cardinality(StepsWith(pipelines[k], LAMBDA s : s.pdi = None))])
        /\ warnings.database = Total([k \in DOMAIN pipelines |-> Cardinality(StepsWith(pipelines[k], LAMBDA s : s.pdi \in Kinds))])
        /\ warnings.expressions = Total([k \in DOMAIN pipelines |-> OpenExpressions(pipelines[k])])
    BY <2>1 DEF Warnings, CountSteps
  <2>4. [k \in DOMAIN pipelines |-> Cardinality(StepsWith(pipelines[k], LAMBDA s : s.pdi = None))] =
        [k \in DOMAIN reports |-> reports[k].of["manual"]]
    BY <1>2, <1>3, <2>2
  <2>5. [k \in DOMAIN pipelines |-> OpenExpressions(pipelines[k])] = [k \in DOMAIN reports |-> TodosOf(pipelines[k].name)]
    BY <1>2, <1>3, <2>2
  <2>6. [k \in DOMAIN pipelines |-> Cardinality(StepsWith(pipelines[k], LAMBDA s : s.pdi \in Kinds))] =
        [k \in DOMAIN reports |-> Cardinality(StepsLike(pipelines[k].name, LAMBDA s : s.name.role # "lookup" /\ s.pdi \in Kinds))]
    BY <1>2, <1>3, <2>2
  <2>7. QED BY <2>3, <2>4, <2>5, <2>6
<1>4. QED BY <1>2, <1>3 DEF CountsMatchTheFiles

(* No derived port of a step that computes is dropped, and the reports and *)
(* the warnings count what the files hold: _emit_step, assess_source and   *)
(* build_report, for all exports and all failures of the provider.         *)
THEOREM NothingHidden == Spec => []NothingIsHidden
<1>1. IInv => NothingIsHidden
  BY NoneDropped, CountsMatch DEF NothingIsHidden
<1>2. QED BY <1>1, ConversionInvariant, PTL

LEMMA JobsRun == IInv => JobsRunTheirWorkflow
<1> SUFFICES ASSUME IInv, NEW k \in DOMAIN export.workflows, export.workflows[k].name \in DOMAIN kjbs,
                    \A i \in DOMAIN export.workflows : export.workflows[i].name = export.workflows[k].name => i = k
             PROVE  LET w == export.workflows[k] IN
      /\ \A j \in DOMAIN w.tasks : \A s \in SessionsOf(w.tasks[j].task) :
           w.tasks[j].type = "Session" /\ SessionsOf(w.tasks[j].task) = {s} /\ s.mapping # None =>
             \E e \in ToSet(kjbs[w.name].entries) :
               /\ e.name = w.tasks[j].name
               /\ e.type = "TRANS"
               /\ e.file = s.mapping
               /\ s.mapping \in {m.name : m \in ToSet(export.mappings)}
                    => s.mapping \in DOMAIN ktrs
      /\ \A j \in DOMAIN w.links :
           LET hop == kjbs[w.name].hops[j] IN
           /\ hop.from = w.links[j].from /\ hop.to = w.links[j].to
           /\ w.links[j].condition = "Succeeded" => ~hop.unconditional
           /\ w.links[j].condition = None => hop.unconditional
  BY DEF JobsRunTheirWorkflow
<1> DEFINE w == export.workflows[k]
           job == Jobs[k]
           file == kjbs[w.name]
           ours == [j \in DOMAIN job.entries |-> JobEntry(job.entries[j])]
           start == IF \E j \in DOMAIN job.entries : job.entries[j].type = "Start" THEN << >> ELSE <<StartEntry>>
<1>1. IsExport(export)
  BY ExportsAssumption DEF IInv, StageInv
<1>2. IsList(export.workflows) /\ DOMAIN export.workflows = 1..Len(export.workflows) /\ Len(export.workflows) \in Nat
  BY <1>1, ListParts DEF IsExport
<1>3. IsList(w.tasks) /\ IsList(w.links) /\ Len(w.tasks) \in Nat /\ DOMAIN w.tasks = 1..Len(w.tasks)
      /\ DOMAIN w.links = 1..Len(w.links)
  <2>1. IsList(w.tasks) /\ IsList(w.links)
    BY <1>1, <1>2 DEF IsExport, ToSet
  <2> HIDE DEF w
  <2>2. QED BY <2>1, ListParts
<1>4. \A i \in 1..Len(export.workflows) : Jobs[i] = ParseWorkflow(export, export.workflows[i]) /\ Jobs[i].name = export.workflows[i].name
  BY <1>2 DEF Jobs, ParseWorkflow
<1>5. Len(Jobs) = Len(export.workflows)
  BY <1>2, ListOf DEF Jobs
<1>6. file = Kjb(job)
  <2>1. PICK i \in 1..Len(Jobs) : Jobs[i].name = w.name /\ kjbs[w.name] = Kjb(Jobs[i])
    BY DEF IInv, JobsInv
  <2>2. i = k
    BY <1>2, <1>4, <1>5, <2>1
  <2>3. QED BY <2>1, <2>2
<1>7. job = [name |-> w.name, hops |-> w.links, entries |-> [j \in 1..Len(w.tasks) |-> EntryOf(export, w.tasks[j])]]
  BY <1>2, <1>3, <1>4 DEF ParseWorkflow
<1>8. stage \in {"jobs", "done"}
  BY DEF IInv, JobsInv
<1>9. ASSUME NEW n \in {m.name : m \in ToSet(export.mappings)} PROVE n \in DOMAIN ktrs
  <2>1. PICK i \in DOMAIN export.mappings : n = export.mappings[i].name
    BY <1>9 DEF ToSet
  <2>2. DOMAIN export.mappings = 1..Len(export.mappings) /\ Len(export.mappings) \in Nat
    BY <1>1, ListParts DEF IsExport
  <2>3. Len(Parsed) = Len(export.mappings) /\ Parsed[i].name = n
    BY <1>1, <2>1, <2>2, ParsedParts
  <2>4. Len(reports) = Len(pipelines) /\ Len(pipelines) = Len(Parsed) /\ pipelines[i].name = n /\ i \in 1..Len(pipelines)
    BY <1>8, <2>1, <2>2, <2>3 DEF IInv, FilesInv, PipelinesInv
  <2>5. QED BY <2>4 DEF IInv, FilesInv
<1> HIDE DEF w, file, job
<1>10. file.entries = start \o ours /\ file.hops = [j \in DOMAIN job.hops |-> JobHop(job.hops[j])]
  BY <1>6 DEF Kjb
<1>11. \A j \in 1..Len(w.tasks) : JobEntry(EntryOf(export, w.tasks[j])) \in ToSet(file.entries)
  <2>1. job.entries = [j \in 1..Len(w.tasks) |-> EntryOf(export, w.tasks[j])]
    BY <1>7
  <2>2. DOMAIN job.entries = 1..Len(w.tasks) /\ \A j \in 1..Len(w.tasks) : ours[j] = JobEntry(EntryOf(export, w.tasks[j]))
    BY <2>1
  <2>3. IsList(ours) /\ DOMAIN ours = 1..Len(w.tasks)
    BY <1>3, <2>2, ListOf
  <2>4. IsList(start)
    <3>1. <<StartEntry>> = [i \in 1..1 |-> <<StartEntry>>[i]]
      OBVIOUS
    <3>2. IsList(<<StartEntry>>)
      BY <3>1, ListOf
    <3>3. QED BY <3>2, EmptyList
  <2> HIDE DEF ours, start
  <2>5. ToSet(file.entries) = ToSet(start) \cup ToSet(ours)
    BY <1>10, <2>3, <2>4, JoinedSet
  <2>6. QED BY <2>2, <2>3, <2>5 DEF ToSet
<1>12. ASSUME NEW j \in DOMAIN w.tasks, NEW s \in SessionsOf(w.tasks[j].task),
              w.tasks[j].type = "Session", SessionsOf(w.tasks[j].task) = {s}, s.mapping # None
       PROVE  \E e \in ToSet(file.entries) : e.name = w.tasks[j].name /\ e.type = "TRANS" /\ e.file = s.mapping
  <2> DEFINE task == w.tasks[j]
             n == task.task
             e == EntryOf(export, task)
             f == JobEntry(e)
  <2>1. IsList(export.sessions)
    BY <1>1 DEF IsExport
  <2>2. Defined(export.sessions, n)
    BY DEF SessionsOf, Defined, ToSet
  <2>3. Definition(export.sessions, n) \in SessionsOf(n)
    BY <2>1, <2>2, DefinitionFound DEF SessionsOf
  <2>4. Definition(export.sessions, n) = s
    BY <1>12, <2>3
  <2>5. e.name = task.name /\ e.type = "Session" /\ e.mapping = s.mapping
    BY <1>12, <2>2, <2>4 DEF EntryOf, EntryNamed
  <2>6. f \in ToSet(file.entries)
    BY <1>3, <1>11
  <2> HIDE DEF e
  <2>7. f.name = task.name /\ f.type = "TRANS" /\ f.file = s.mapping
    BY <1>12, <2>5 DEF JobEntry
  <2>8. QED BY <2>6, <2>7
<1>13. \A j \in DOMAIN w.links :
         LET hop == file.hops[j] IN
         /\ hop.from = w.links[j].from /\ hop.to = w.links[j].to
         /\ w.links[j].condition = "Succeeded" => ~hop.unconditional
         /\ w.links[j].condition = None => hop.unconditional
  <2>1. job.hops = w.links
    BY <1>7
  <2> TAKE j \in DOMAIN w.links
  <2>2. file.hops[j] = JobHop(w.links[j])
    BY <1>10, <2>1
  <2> DEFINE link == w.links[j]
  <2>3. LET hop == JobHop(link) IN
        /\ hop.from = link.from /\ hop.to = link.to
        /\ link.condition = "Succeeded" => ~hop.unconditional
        /\ link.condition = None => hop.unconditional
    BY DEF JobHop, MentionsSuccess, None
  <2>4. QED BY <2>2, <2>3
<1>14. QED BY <1>9, <1>12, <1>13 DEF w, file

(* A job's entries open the files of the mappings that its workflow's      *)
(* sessions run, and wait as its links say: parse_workflows and            *)
(* KjbGenerator, for all exports.                                          *)
THEOREM JobsRunTheirs == Spec => []JobsRunTheirWorkflow
BY JobsRun, ConversionInvariant, PTL

-----------------------------------------------------------------------------
(* The rows that TalendParser makes of a saved table.                      *)

(* A rising numbering of the places is their order.                        *)
Numbers(f, m, places) ==
  /\ m \in Nat /\ places \in SUBSET Nat /\ f \in [1..m -> places]
  /\ \A a, b \in 1..m : a < b => f[a] < f[b]
  /\ \A i \in places : \E k \in 1..m : f[k] = i

LEMMA AtInOrder ==
  ASSUME NEW s, NEW places, NEW m, NEW f, Numbers(f, m, places)
  PROVE  LET t == At(s, places) IN DOMAIN t = 1..m /\ \A k \in 1..m : t[k] = s[f[k]]
<1> USE DEF Numbers
<1>1. \A a, b \in 1..m : (f[a] = f[b] => a = b) /\ (f[a] <= f[b] <=> a <= b)
  <2> SUFFICES ASSUME NEW a \in 1..m, NEW b \in 1..m PROVE (f[a] = f[b] => a = b) /\ (f[a] <= f[b] <=> a <= b)
    OBVIOUS
  <2>1. f[a] \in Nat /\ f[b] \in Nat
    OBVIOUS
  <2>2. a < b \/ a = b \/ b < a
    OBVIOUS
  <2>3. (a < b => f[a] < f[b]) /\ (b < a => f[b] < f[a])
    OBVIOUS
  <2>4. QED BY <2>1, <2>2, <2>3
<1>2. ASSUME NEW k \in 0..m PROVE IsFiniteSet({f[a] : a \in 1..k}) /\ Cardinality({f[a] : a \in 1..k}) = k
  <2> DEFINE T == {f[a] : a \in 1..k}
             g == [a \in 1..k |-> f[a]]
  <2>1. \A a \in 1..k : a \in 1..m
    OBVIOUS
  <2>2. g \in Injection(1..k, T)
    BY <1>1, <2>1 DEF Injection, IsInjective
  <2>3. g \in Surjection(1..k, T)
    BY DEF Surjection
  <2>4. g \in Bijection(1..k, T)
    BY <2>2, <2>3 DEF Bijection
  <2>5. IsFiniteSet(1..k) /\ Cardinality(1..k) = k
    BY FS_Interval
  <2> HIDE DEF T, g
  <2>6. ExistsBijection(1..k, T)
    BY <2>4 DEF ExistsBijection
  <2>7. IsFiniteSet(T) /\ Cardinality(T) = k
    BY <2>5, <2>6, FS_Bijection
  <2>8. QED BY <2>7 DEF T
<1> DEFINE First(k) == {f[a] : a \in 1..k}
           Upto(i) == {j \in places : j <= i}
<1>3. places = First(m)
  OBVIOUS
<1>4. \A k \in 0..m : Cardinality(First(k)) = k
  BY <1>2
<1>5. ASSUME NEW k \in 1..m PROVE Upto(f[k]) = First(k)
  <3>1. ASSUME NEW j \in Upto(f[k]) PROVE j \in First(k)
    <4>1. PICK a \in 1..m : f[a] = j
      OBVIOUS
    <4>2. a <= k
      BY <1>1, <3>1, <4>1
    <4>3. QED BY <4>1, <4>2
  <3>2. ASSUME NEW a \in 1..k PROVE f[a] \in Upto(f[k])
    <4>1. a \in 1..m /\ a <= k
      OBVIOUS
    <4>2. QED BY <1>1, <4>1
  <3>3. QED BY <3>1, <3>2
<1> HIDE DEF First
<1>6. Cardinality(places) = m
  BY <1>3, <1>4
<1>7. ASSUME NEW k \in 1..m PROVE Cardinality(Upto(f[k])) = k
  <2> HIDE DEF Upto
  <2>1. QED BY <1>4, <1>5
<1>8. ASSUME NEW k \in 1..m PROVE (CHOOSE i \in places : Cardinality({j \in places : j <= i}) = k) = f[k]
  <2> DEFINE C(i) == Cardinality({j \in places : j <= i})
             h == CHOOSE i \in places : C(i) = k
  <2>1. \A a \in 1..m : C(f[a]) = a
    BY <1>7
  <2>2. f[k] \in places /\ C(f[k]) = k
    BY <2>1
  <2> HIDE DEF C
  <2>3. h \in places /\ C(h) = k
    BY <2>2
  <2>4. PICK a \in 1..m : f[a] = h
    BY <2>3
  <2>5. a = k
    BY <2>1, <2>3, <2>4
  <2>6. QED BY <2>4, <2>5 DEF C
<1>9. At(s, places) = [k \in 1..m |-> s[CHOOSE i \in places : Cardinality({j \in places : j <= i}) = k]]
  BY <1>6 DEF At
<1>10. DOMAIN At(s, places) = 1..m
  BY <1>9
<1>11. \A k \in 1..m : At(s, places)[k] = s[f[k]]
  <2> TAKE k \in 1..m
  <2> DEFINE h == CHOOSE i \in places : Cardinality({j \in places : j <= i}) = k
  <2>1. At(s, places)[k] = s[h]
    BY <1>9
  <2>2. h = f[k]
    BY <1>8
  <2>3. QED BY <2>1, <2>2
<1>12. QED BY <1>10, <1>11

LEMMA ReadingExist ==
  ASSUME NEW values, NEW n \in Nat
  PROVE  \E after : after = [k \in 0..n |-> IF k = 0 THEN [rows |-> << >>, row |-> << >>]
                                            ELSE WithValue(after[k - 1], values[k])]
<1> DEFINE none == [rows |-> << >>, row |-> << >>]
           Solves(after, m) == after = [k \in 0..m |-> IF k = 0 THEN none ELSE WithValue(after[k - 1], values[k])]
           Unsolved == {m \in Nat : ~\E after : Solves(after, m)}
<1>1. ASSUME Unsolved # {} PROVE FALSE
  <2>1. PICK m \in Unsolved : m > 0 => m - 1 \in Nat \ Unsolved
    <3> HIDE DEF Unsolved
    <3>1. Unsolved \in SUBSET Nat
      BY DEF Unsolved
    <3>2. QED BY <1>1, <3>1, LeastNumber
  <2>2. CASE m = 0
    <3>1. Solves([k \in 0..0 |-> none], 0)
      OBVIOUS
    <3>2. QED BY <2>2, <3>1
  <2>3. CASE m > 0
    <3>1. m - 1 \in Nat /\ ~(m - 1 \in Unsolved)
      <4> HIDE DEF Unsolved
      <4>1. QED BY <2>1, <2>3
    <3>2. PICK before : Solves(before, m - 1)
      BY <3>1
    <3> DEFINE after == [k \in 0..m |-> IF k < m THEN before[k] ELSE WithValue(before[k - 1], values[k])]
    <3>3. \A k \in 0..m : after[k] = IF k = 0 THEN none ELSE WithValue(after[k - 1], values[k])
      BY <2>3, <3>2
    <3>4. Solves(after, m)
      BY <3>3
    <3>5. QED BY <3>4
  <2>4. QED BY <2>2, <2>3
<1>2. QED BY <1>1

(* Of products no more is used than this.                                  *)
LEMMA Products ==
  ASSUME NEW w \in Nat \ {0}
  PROVE  /\ \A i \in Nat : i * w \in Nat /\ (i + 1) * w = i * w + w
         /\ 0 * w = 0
         /\ \A i, j \in Nat : i < j => i * w + w <= j * w
<1>1. \A i \in Nat : i * w \in Nat /\ (i + 1) * w = i * w + w
  OBVIOUS
<1>2. \A i, j \in Nat : i < j => i * w + w <= j * w
  <2> SUFFICES ASSUME NEW i \in Nat, NEW j \in Nat, i < j PROVE i * w + w <= j * w
    OBVIOUS
  <2> DEFINE d == j - i - 1
  <2>1. d \in Nat /\ j = i + 1 + d
    OBVIOUS
  <2>2. d * w \in Nat
    BY <1>1, <2>1
  <2> HIDE DEF d
  <2>3. j * w = i * w + w + d * w
    BY <2>1
  <2>4. QED BY <1>1, <2>2, <2>3
<1>3. QED BY <1>1, <1>2

(* A table of n rows and w columns; what has been read of it after the     *)
(* first j values of its row i + 1.                                        *)
Regular(values, w, n) ==
  /\ w \in Nat \ {0} /\ n \in Nat \ {0}
  /\ IsList(values) /\ Len(values) = n * w
  /\ \A i \in 0..(n - 1) : \A j, l \in 1..w : values[i * w + j][1] = values[l][1] <=> j = l

IsRow(values, w, row, i) == \A l \in 1..w : row[values[l][1]] = values[i * w + l][2]

Held(values, w, read, i, j) ==
  /\ read = [rows |-> read.rows, row |-> read.row]
  /\ IsList(read.rows) /\ Len(read.rows) = i
  /\ DOMAIN read.row = {values[l][1] : l \in 1..j}
  /\ \A l \in 1..j : read.row[values[l][1]] = values[i * w + l][2]
  /\ \A r \in 1..i : IsRow(values, w, read.rows[r], r - 1)

LEMMA ColumnOf ==
  ASSUME NEW values, NEW w, NEW n, Regular(values, w, n)
  PROVE  /\ \A i \in 0..(n - 1) : \A j \in 1..w : values[i * w + j][1] = values[j][1]
         /\ \A j, l \in 1..w : values[j][1] = values[l][1] => j = l
<1>1. w \in Nat /\ n \in Nat /\ 0 \in 0..(n - 1) /\ \A j \in 1..w : 0 * w + j = j
  BY DEF Regular
<1> DEFINE At0(i, j) == values[i * w + j][1]
<1>2. \A i \in 0..(n - 1) : \A j, l \in 1..w : At0(i, j) = values[l][1] <=> j = l
  BY DEF Regular
<1>3. \A j \in 1..w : At0(0, j) = values[j][1]
  BY <1>1
<1>4. \A i \in 0..(n - 1) : \A j \in 1..w : At0(i, j) = values[j][1]
  <2> HIDE DEF At0
  <2>1. QED BY <1>2
<1>5. \A j, l \in 1..w : values[j][1] = values[l][1] => j = l
  <2> HIDE DEF At0
  <2>1. QED BY <1>1, <1>2, <1>3
<1>6. QED BY <1>4, <1>5

LEMMA ValueInRow ==
  ASSUME NEW values, NEW w, NEW n, Regular(values, w, n), NEW i \in 0..(n - 1), NEW j \in 1..(w - 1),
         NEW read, Held(values, w, read, i, j)
  PROVE  Held(values, w, WithValue(read, values[i * w + (j + 1)]), i, j + 1)
<1> DEFINE v == values[i * w + (j + 1)]
           c == v[1]
           q == WithValue(read, v)
           row == [d \in DOMAIN read.row \cup {c} |-> IF d = c THEN v[2] ELSE read.row[d]]
<1>1. w \in Nat /\ n \in Nat /\ j + 1 \in 1..w /\ 0 \in 0..(n - 1) /\ 0 * w = 0
  BY DEF Regular
<1>2. c = values[j + 1][1]
  BY <1>1, ColumnOf
<1>3. \A l, m \in 1..w : values[l][1] = values[m][1] => l = m
  BY ColumnOf
<1>4. c \notin DOMAIN read.row
  <2>1. \A l \in 1..j : l \in 1..w /\ l # j + 1
    BY <1>1
  <2>2. \A l \in 1..j : values[l][1] # values[j + 1][1]
    BY <1>1, <1>3, <2>1
  <2> HIDE DEF c
  <2>3. QED BY <1>2, <2>2 DEF Held
<1>5. q = [rows |-> read.rows, row |-> row]
  <2>1. q = [read EXCEPT !.row = row]
    BY <1>4 DEF WithValue
  <2>2. read = [rows |-> read.rows, row |-> read.row]
    BY DEF Held
  <2> DEFINE a == read.rows
             b == read.row
  <2>3. read = [rows |-> a, row |-> b]
    BY <2>2
  <2> HIDE DEF a, b, row, q
  <2>4. q = [rows |-> a, row |-> row]
    BY <2>1, <2>3
  <2>5. QED BY <2>4 DEF a
<1>6. DOMAIN row = {values[l][1] : l \in 1..(j + 1)}
  <2>1. 1..(j + 1) = 1..j \cup {j + 1}
    OBVIOUS
  <2>2. {values[l][1] : l \in 1..(j + 1)} = {values[l][1] : l \in 1..j} \cup {c}
    BY <1>2, <2>1
  <2>3. QED BY <2>2 DEF Held
<1>7. ASSUME NEW l \in 1..(j + 1) PROVE row[values[l][1]] = values[i * w + l][2]
  <2>1. CASE l = j + 1
    BY <1>2, <2>1
  <2>2. CASE l # j + 1
    <3>1. l \in 1..j /\ l \in 1..w
      BY <1>1, <2>2
    <3>2. values[l][1] # c
      BY <1>1, <1>2, <1>3, <2>2, <3>1
    <3>3. values[l][1] \in DOMAIN read.row /\ read.row[values[l][1]] = values[i * w + l][2]
      BY <3>1 DEF Held
    <3>4. QED BY <3>2, <3>3
  <2>3. QED BY <2>1, <2>2
<1> HIDE DEF row, q
<1>8. q.rows = read.rows /\ q.row = row
  BY <1>5
<1>9. Held(values, w, q, i, j + 1)
  BY <1>5, <1>6, <1>7, <1>8 DEF Held
<1>10. QED BY <1>9 DEF q

LEMMA ValueOfNext ==
  ASSUME NEW values, NEW w, NEW n, Regular(values, w, n), NEW i \in Nat, i + 1 < n,
         NEW read, Held(values, w, read, i, w)
  PROVE  Held(values, w, WithValue(read, values[(i + 1) * w + 1]), i + 1, 1)
<1> DEFINE v == values[(i + 1) * w + 1]
           c == v[1]
           q == WithValue(read, v)
           rows == Append(read.rows, read.row)
           row == [d \in {c} |-> v[2]]
<1>1. w \in Nat /\ n \in Nat /\ 1 \in 1..w /\ i + 1 \in 0..(n - 1)
  BY DEF Regular
<1>2. c = values[1][1]
  BY <1>1, ColumnOf
<1>3. c \in DOMAIN read.row
  BY <1>1, <1>2 DEF Held
<1>4. q = [rows |-> rows, row |-> row]
  BY <1>3 DEF WithValue
<1>5. DOMAIN row = {values[l][1] : l \in 1..1}
  <2>1. 1..1 = {1}
    OBVIOUS
  <2>2. QED BY <1>2, <2>1
<1>6. \A l \in 1..1 : row[values[l][1]] = values[(i + 1) * w + l][2]
  BY <1>2
<1>7. IsRow(values, w, read.row, i)
  BY DEF Held, IsRow
<1>8. IsList(rows) /\ Len(rows) = i + 1 /\ rows[i + 1] = read.row /\ \A k \in 1..i : rows[k] = read.rows[k]
  BY Appended DEF Held
<1>9. \A r \in 1..(i + 1) : IsRow(values, w, rows[r], r - 1)
  <2> TAKE r \in 1..(i + 1)
  <2>1. CASE r = i + 1
    <3>1. r - 1 = i
      BY <2>1
    <3>2. QED BY <1>7, <1>8, <2>1, <3>1
  <2>2. CASE r # i + 1
    <3>1. r \in 1..i
      BY <2>2
    <3>2. QED BY <1>8, <3>1 DEF Held
  <2>3. QED BY <2>1, <2>2
<1> HIDE DEF rows, row, q
<1>10. q.rows = rows /\ q.row = row
  BY <1>4
<1>11. Held(values, w, q, i + 1, 1)
  BY <1>4, <1>5, <1>6, <1>8, <1>9, <1>10 DEF Held
<1>12. QED BY <1>11 DEF q

(* A row begins where a column comes again, so the table is read row by    *)
(* row.                                                                    *)
LEMMA RowsRead ==
  ASSUME NEW values, NEW w, NEW n, Regular(values, w, n)
  PROVE  LET rows == Rows(values) IN
         /\ IsList(rows) /\ Len(rows) = n
         /\ \A r \in 1..n : IsRow(values, w, rows[r], r - 1)
<1> DEFINE N == Len(values)
           none == [rows |-> << >>, row |-> << >>]
           after == CHOOSE g : g = [k \in 0..N |-> IF k = 0 THEN none ELSE WithValue(g[k - 1], values[k])]
           read == Reading(values)
           S == {k \in 0..N : k > 0 => \E i \in 0..(n - 1), j \in 1..w : k = i * w + j /\ Held(values, w, after[k], i, j)}
<1>1. N \in Nat /\ N = n * w /\ w \in Nat \ {0} /\ n \in Nat \ {0} /\ N > 0
  <2>1. w \in Nat \ {0} /\ n \in Nat \ {0} /\ N = n * w
    BY DEF Regular
  <2>2. 0 * w + w <= n * w /\ 0 * w = 0 /\ n * w \in Nat
    BY <2>1, Products
  <2> HIDE DEF N
  <2>3. QED BY <2>1, <2>2
<1>2. after = [k \in 0..N |-> IF k = 0 THEN none ELSE WithValue(after[k - 1], values[k])]
  <2> HIDE DEF N
  <2>1. QED BY <1>1, ReadingExist
<1>3. read = after[N]
  BY DEF Reading
<1> HIDE DEF after, N
<1>4. 0 \in S
  BY <1>1
<1>5. ASSUME NEW k \in 1..N, k - 1 \in S PROVE k \in S
  <2>1. k \in 0..N /\ after[k] = WithValue(after[k - 1], values[k])
    BY <1>1, <1>2
  <2>2. CASE k = 1
    <3> DEFINE v == values[1]
               row == [d \in {} \cup {v[1]} |-> IF d = v[1] THEN v[2] ELSE << >>[d]]
               q == after[1]
    <3>1. after[0] = none
      BY <1>1, <1>2
    <3>2. DOMAIN << >> = {}
      OBVIOUS
    <3>3. after[1] = WithValue(none, v)
      BY <2>1, <2>2, <3>1
    <3>4. none.row = << >> /\ none.rows = << >>
      OBVIOUS
    <3>5. q = [rows |-> << >>, row |-> row]
      BY <3>2, <3>3, <3>4 DEF WithValue
    <3>6. DOMAIN row = {values[l][1] : l \in 1..1} /\ row[values[1][1]] = values[1][2]
      <4>1. 1..1 = {1}
        OBVIOUS
      <4>2. QED BY <4>1
    <3> HIDE DEF q, row
    <3>7. q.rows = << >> /\ q.row = row
      BY <3>5
    <3>8. 0 * w + 1 = 1
      BY <1>1
    <3>9. \A l \in 1..1 : q.row[values[l][1]] = values[0 * w + l][2]
      BY <3>6, <3>7, <3>8
    <3>10. Held(values, w, q, 0, 1)
      BY <3>5, <3>6, <3>7, <3>9, EmptyList DEF Held
    <3>11. 0 \in 0..(n - 1) /\ 1 \in 1..w
      BY <1>1
    <3>12. QED BY <2>1, <2>2, <3>8, <3>10, <3>11 DEF q
  <2>3. CASE k > 1
    <3>1. PICK i \in 0..(n - 1), j \in 1..w : k - 1 = i * w + j /\ Held(values, w, after[k - 1], i, j)
      BY <1>5, <2>3
    <3>2. i \in Nat /\ i * w \in Nat /\ (i + 1) * w = i * w + w
      BY <1>1, Products
    <3>3. CASE j < w
      <4>1. j \in 1..(w - 1) /\ j + 1 \in 1..w /\ k = i * w + (j + 1)
        BY <1>1, <3>1, <3>2, <3>3
      <4>2. Held(values, w, after[k], i, j + 1)
        BY <2>1, <3>1, <4>1, ValueInRow
      <4>3. QED BY <2>1, <4>1, <4>2
    <3>4. CASE j = w
      <4>1. k = (i + 1) * w + 1
        BY <1>1, <3>1, <3>2, <3>4
      <4>2. i + 1 < n
        <5>1. i + 1 = n => k = N + 1
          BY <1>1, <4>1
        <5>2. QED BY <1>1, <5>1
      <4>3. Held(values, w, after[k], i + 1, 1)
        BY <2>1, <3>1, <3>2, <3>4, <4>1, <4>2, ValueOfNext
      <4>4. i + 1 \in 0..(n - 1) /\ 1 \in 1..w
        BY <1>1, <3>2, <4>2
      <4>5. QED BY <2>1, <4>1, <4>3, <4>4
    <3>5. QED BY <1>1, <3>3, <3>4
  <2>4. QED BY <1>1, <2>2, <2>3
<1>6. N \in S
  <2> HIDE DEF S
  <2>1. QED BY <1>1, <1>4, <1>5, StepByStep
<1>7. Held(values, w, read, n - 1, w)
  <2>1. PICK i \in 0..(n - 1), j \in 1..w : N = i * w + j /\ Held(values, w, after[N], i, j)
    BY <1>1, <1>6
  <2>2. i \in Nat /\ i * w \in Nat /\ (i + 1) * w = i * w + w
    BY <1>1, Products
  <2>3. i + 1 < n => (i + 1) * w + w <= n * w
    BY <1>1, <2>2, Products
  <2>4. ~(i + 1 < n)
    BY <1>1, <2>1, <2>2, <2>3
  <2>5. i = n - 1
    BY <1>1, <2>4
  <2>6. n * w = i * w + w
    BY <1>1, <2>2, <2>5
  <2>7. j = w
    BY <1>1, <2>1, <2>2, <2>6
  <2>8. QED BY <1>3, <2>1, <2>5, <2>7
<1>8. DOMAIN read.row # {}
  <2>1. 1 \in 1..w
    BY <1>1
  <2>2. QED BY <1>7, <2>1 DEF Held
<1>9. Rows(values) = Append(read.rows, read.row)
  BY <1>8 DEF Rows
<1> DEFINE rows == Append(read.rows, read.row)
<1>10. IsList(rows) /\ Len(rows) = n /\ rows[n] = read.row /\ \A k \in 1..(n - 1) : rows[k] = read.rows[k]
  <2>1. IsList(read.rows) /\ Len(read.rows) = n - 1 /\ (n - 1) + 1 = n
    BY <1>1, <1>7 DEF Held
  <2>2. QED BY <2>1, Appended
<1>11. IsRow(values, w, read.row, n - 1)
  BY <1>7 DEF Held, IsRow
<1> HIDE DEF read, rows
<1>12. \A r \in 1..n : IsRow(values, w, rows[r], r - 1)
  <2> TAKE r \in 1..n
  <2>1. CASE r = n
    BY <1>10, <1>11, <2>1
  <2>2. CASE r # n
    <3>1. r \in 1..(n - 1)
      BY <1>1, <2>2
    <3>2. QED BY <1>7, <1>10, <3>1 DEF Held
  <2>3. QED BY <2>1, <2>2
<1>13. QED BY <1>9, <1>10, <1>12 DEF rows

(* The values of a column, read down the saved table, are those of the rows*)
(* that the parser makes of it.                                            *)
ColumnPlaces(values, c) == {k \in DOMAIN values : values[k][1] = c}

LEMMA NoTable == Rows(<< >>) = << >>
<1> DEFINE none == [rows |-> << >>, row |-> << >>]
           after == CHOOSE g : g = [k \in 0..Len(<< >>) |-> IF k = 0 THEN none ELSE WithValue(g[k - 1], << >>[k])]
<1>1. Len(<< >>) \in Nat /\ Len(<< >>) = 0
  BY EmptyList
<1>2. after = [k \in 0..Len(<< >>) |-> IF k = 0 THEN none ELSE WithValue(after[k - 1], << >>[k])]
  BY <1>1, ReadingExist
<1>3. Reading(<< >>) = after[Len(<< >>)]
  BY DEF Reading
<1> HIDE DEF after
<1>4. Reading(<< >>) = none
  BY <1>1, <1>2, <1>3
<1>5. DOMAIN none.row = {}
  OBVIOUS
<1>6. QED BY <1>4, <1>5 DEF Rows

LEMMA PlaceInRow ==
  ASSUME NEW w \in Nat \ {0}, NEW n \in Nat \ {0}, NEW k \in 1..(n * w)
  PROVE  \E i \in 0..(n - 1), j \in 1..w : k = i * w + j
<1> DEFINE N == n * w
           S == {h \in 0..N : h > 0 => \E i \in 0..(n - 1), j \in 1..w : h = i * w + j}
<1>1. N \in Nat
  BY Products
<1>2. 0 \in S
  BY <1>1
<1>3. ASSUME NEW h \in 1..N, h - 1 \in S PROVE h \in S
  <2>1. CASE h = 1
    <3>1. 0 * w + 1 = 1 /\ 0 \in 0..(n - 1) /\ 1 \in 1..w
      BY <1>1
    <3>2. QED BY <2>1, <3>1
  <2>2. CASE h > 1
    <3>1. PICK i \in 0..(n - 1), j \in 1..w : h - 1 = i * w + j
      BY <1>3, <2>2
    <3>2. i \in Nat /\ i * w \in Nat /\ (i + 1) * w = i * w + w
      BY <1>1, Products
    <3>3. CASE j < w
      <4>1. h = i * w + (j + 1) /\ j + 1 \in 1..w
        BY <1>1, <3>1, <3>2, <3>3
      <4>2. QED BY <4>1
    <3>4. CASE j = w
      <4>1. h = (i + 1) * w + 1
        BY <1>1, <3>1, <3>2, <3>4
      <4>2. i + 1 = n => h = N + 1
        BY <4>1
      <4> HIDE DEF N
      <4>3. i + 1 \in 0..(n - 1) /\ 1 \in 1..w
        BY <1>1, <4>2
      <4>4. QED BY <4>1, <4>3
    <3>5. QED BY <1>1, <3>3, <3>4
  <2>3. QED BY <1>1, <2>1, <2>2
<1>4. \A h \in 0..N : h \in S
  <2> HIDE DEF S, N
  <2>1. QED BY <1>1, <1>2, <1>3, StepByStep
<1>5. k \in 1..N
  OBVIOUS
<1>6. k \in S /\ k > 0
  <2> HIDE DEF S, N
  <2>1. k \in 0..N /\ k > 0
    BY <1>1, <1>5
  <2>2. QED BY <1>4, <2>1
<1>7. QED BY <1>6

LEMMA ColumnRead ==
  ASSUME NEW values, NEW w, NEW n, Regular(values, w, n), NEW m \in 1..w
  PROVE  LET own == At(values, ColumnPlaces(values, values[m][1])) IN
         /\ DOMAIN own = 1..n
         /\ \A r \in 1..n : own[r] = values[(r - 1) * w + m]
<1> DEFINE c == values[m][1]
           places == ColumnPlaces(values, c)
           N == n * w
           f == [r \in 1..n |-> (r - 1) * w + m]
<1>1. w \in Nat \ {0} /\ n \in Nat \ {0} /\ DOMAIN values = 1..N /\ N \in Nat
  <2>1. w \in Nat \ {0} /\ n \in Nat \ {0} /\ DOMAIN values = 1..N
    BY ListParts DEF Regular
  <2>2. N \in Nat
    BY <2>1, Products
  <2>3. QED BY <2>1, <2>2
<1>2. ASSUME NEW i \in 0..(n - 1), NEW l \in 1..w PROVE i * w + l \in 1..N
  <2>1. i * w \in Nat /\ i * w + w <= N
    BY <1>1, Products
  <2> HIDE DEF N
  <2>2. QED BY <1>1, <2>1
<1>3. ASSUME NEW r \in 1..n PROVE f[r] \in places
  <2>1. r - 1 \in 0..(n - 1)
    BY <1>1
  <2>2. (r - 1) * w + m \in 1..N
    BY <1>2, <2>1
  <2>3. values[(r - 1) * w + m][1] = c
    BY <2>1, ColumnOf
  <2>4. QED BY <1>1, <2>2, <2>3 DEF ColumnPlaces
<1>4. f \in [1..n -> places]
  <2> HIDE DEF places
  <2>1. QED BY <1>3
<1>5. ASSUME NEW a \in 1..n, NEW b \in 1..n, a < b PROVE f[a] < f[b]
  <2>1. a - 1 \in Nat /\ b - 1 \in Nat /\ a - 1 < b - 1
    BY <1>1, <1>5
  <2>2. (a - 1) * w + w <= (b - 1) * w /\ (a - 1) * w \in Nat /\ (b - 1) * w \in Nat
    BY <1>1, <2>1, Products
  <2> DEFINE x == (a - 1) * w
             y == (b - 1) * w
  <2>3. f[a] = x + m /\ f[b] = y + m
    OBVIOUS
  <2>4. x \in Nat /\ y \in Nat /\ x + w <= y
    BY <2>2
  <2> HIDE DEF x, y, f
  <2>5. QED BY <1>1, <2>3, <2>4
<1>6. \A k \in 1..N : \E i \in 0..(n - 1), j \in 1..w : k = i * w + j
  BY <1>1, PlaceInRow
<1>7. ASSUME NEW k \in places PROVE \E r \in 1..n : f[r] = k
  <2>1. k \in 1..N /\ values[k][1] = c
    BY <1>1 DEF ColumnPlaces
  <2>2. PICK i \in 0..(n - 1), j \in 1..w : k = i * w + j
    BY <1>6, <2>1
  <2>3. values[j][1] = c
    BY <2>1, <2>2, ColumnOf
  <2>4. j = m
    BY <2>3, ColumnOf
  <2>5. i + 1 \in 1..n /\ (i + 1) - 1 = i
    BY <1>1
  <2>6. f[i + 1] = k
    BY <2>2, <2>4, <2>5
  <2>7. QED BY <2>5, <2>6
<1>8. places \in SUBSET Nat
  BY <1>1 DEF ColumnPlaces
<1>9. LET t == At(values, places) IN DOMAIN t = 1..n /\ \A r \in 1..n : t[r] = values[f[r]]
  <2> HIDE DEF places, f, N, c
  <2>1. n \in Nat
    BY <1>1
  <2>2. \A a, b \in 1..n : a < b => f[a] < f[b]
    BY <1>5
  <2>3. \A k \in places : \E r \in 1..n : f[r] = k
    BY <1>7
  <2>4. Numbers(f, n, places)
    BY <1>4, <1>8, <2>1, <2>2, <2>3 DEF Numbers
  <2>5. QED BY <2>4, AtInOrder
<1>10. QED BY <1>9

LEMMA RegularRead ==
  ASSUME NEW values, NEW w, NEW n, Regular(values, w, n), NEW c, c \in {v[1] : v \in ToSet(values)}
  PROVE  LET own == At(values, ColumnPlaces(values, c)) IN
         /\ IsList(Rows(values)) /\ Rows(values) # << >>
         /\ Column(Rows(values), c) = [k \in DOMAIN own |-> own[k][2]]
<1> DEFINE own == At(values, ColumnPlaces(values, c))
           rows == Rows(values)
<1>1. /\ IsList(rows) /\ Len(rows) = n
      /\ \A r \in 1..n : IsRow(values, w, rows[r], r - 1)
  BY RowsRead
<1>2. w \in Nat \ {0} /\ n \in Nat \ {0} /\ DOMAIN values = 1..(n * w)
  BY ListParts DEF Regular
<1>3. PICK k \in 1..(n * w) : values[k][1] = c
  BY <1>2 DEF ToSet
<1>4. PICK i \in 0..(n - 1), m \in 1..w : k = i * w + m
  BY <1>2, PlaceInRow
<1>5. values[i * w + m][1] = values[m][1]
  BY ColumnOf
<1>6. values[m][1] = c
  BY <1>3, <1>4, <1>5
<1>7. LET o == At(values, ColumnPlaces(values, values[m][1])) IN
        DOMAIN o = 1..n /\ \A r \in 1..n : o[r] = values[(r - 1) * w + m]
  BY ColumnRead
<1>8. DOMAIN own = 1..n /\ \A r \in 1..n : own[r] = values[(r - 1) * w + m]
  BY <1>6, <1>7
<1> HIDE DEF rows, own
<1>9. DOMAIN rows = 1..n
  BY <1>1, <1>2, ListParts
<1>10. \A r \in 1..n : rows[r][c] = own[r][2]
  BY <1>1, <1>6, <1>8 DEF IsRow
<1>11. Column(rows, c) = [h \in DOMAIN own |-> own[h][2]]
  BY <1>8, <1>9, <1>10 DEF Column
<1>12. rows # << >>
  BY <1>1, <1>2, EmptyList
<1>13. QED BY <1>1, <1>11, <1>12 DEF rows, own

LEMMA TableRead ==
  ASSUME NEW values, IsTable(values), NEW c, values # << >> => c \in {v[1] : v \in ToSet(values)}
  PROVE  LET own == At(values, ColumnPlaces(values, c)) IN
         /\ IsList(Rows(values))
         /\ Rows(values) = << >> <=> values = << >>
         /\ Column(Rows(values), c) = [k \in DOMAIN own |-> own[k][2]]
<1> DEFINE own == At(values, ColumnPlaces(values, c))
           rows == Rows(values)
<1>1. CASE values = << >>
  <2>1. rows = << >>
    BY <1>1, NoTable
  <2>2. DOMAIN << >> = {}
    OBVIOUS
  <2>3. ColumnPlaces(values, c) = {}
    BY <1>1, <2>2 DEF ColumnPlaces
  <2>4. DOMAIN own = 1..0
    BY <2>3, FS_EmptySet DEF At
  <2>5. 1..0 = {}
    OBVIOUS
  <2>6. DOMAIN Column(rows, c) = {}
    BY <2>1, <2>2 DEF Column
  <2>7. Column(rows, c) = [k \in DOMAIN own |-> own[k][2]]
    BY <2>1, <2>2, <2>4, <2>5 DEF Column
  <2>8. QED BY <1>1, <2>1, <2>7, EmptyList
<1>2. CASE values # << >>
  <2>1. PICK w, n \in 1..Len(values) : Len(values) = n * w
            /\ \A i \in 0..(n - 1) : \A j, l \in 1..w : values[i * w + j][1] = values[l][1] <=> j = l
    BY <1>2 DEF IsTable
  <2>2. Regular(values, w, n)
    <3>1. IsList(values) /\ Len(values) \in Nat
      BY ListParts DEF IsTable
    <3>2. w \in Nat \ {0} /\ n \in Nat \ {0}
      BY <3>1
    <3>3. QED BY <2>1, <3>1, <3>2 DEF Regular
  <2>3. QED BY <1>2, <2>2, RegularRead
<1>3. QED BY <1>1, <1>2

-----------------------------------------------------------------------------
(* A pipeline that fits a node of the Talend job: the node's step has its  *)
(* tables and the sorters before it sort by its keys.                      *)

(* The step of a node of a Talend job has its tables, row by row.          *)
OfNode(s, n) ==
  /\ \A t \in DOMAIN TableColumns : TableRows(s, t) = Rows(Saved(n, t))
  /\ s.attr.logical = n.logical /\ s.attr.advanced = n.advanced
  /\ n.component \in TypesWithRule => s.pdi = PdiOfType[n.component]

(* A sorter put in before a node's step sorts by its own fields, which are *)
(* the group's keys where the node groups rows.                            *)
SorterOf(s, n) ==
  /\ s.pdi = "SortRows" /\ s.attr = NoAttributes
  /\ n.component = "tAggregateRow" /\ Rows(Saved(n, "GROUPBYS")) # << >> =>
       FieldNames(s.fields) = Column(Rows(Saved(n, "GROUPBYS")), "INPUT_COLUMN")

(* The steps under a node's name are its own and its sorters.              *)
Fitting(s, n) ==
  s.name.of = <<n.name>> =>
    \/ s.name.role = "step" /\ OfNode(s, n)
    \/ s.name.role = "sorter" /\ SorterOf(s, n)

(* A hop out of a sorter ends where the sorter was put in.                 *)
IsHop(h) == h = <<h[1], h[2]>> /\ (h[1].role = "sorter" => h[1].of = h[2].of)

AreHops(hops) == IsList(hops) /\ \A h \in ToSet(hops) : IsHop(h)

Fit(p, n) ==
  /\ \E s \in ToSet(p.steps) : s.name = Plain(n.name)
  /\ \A s \in ToSet(p.steps) : Fitting(s, n)
  /\ AreHops(p.hops)

(* The places of the hops into a step.                                     *)
Ends(p, t) == {i \in 1..Len(p.hops) : p.hops[i][2] = t}

LEMMA NamesOf ==
  ASSUME NEW fields, NEW keys, keys = [k \in DOMAIN keys |-> keys[k]],
         fields = [k \in DOMAIN keys |-> [name |-> keys[k], kind |-> "plain"]]
  PROVE  FieldNames(fields) = keys
BY DEF FieldNames

LEMMA TableNames == DOMAIN TableColumns = {"GROUPBYS", "OPERATIONS", "CRITERIA", "CONDITIONS"}
BY DEF TableColumns

LEMMA RulesOfNodes ==
  /\ "tAggregateRow" \in TypesWithRule /\ PdiOfType["tAggregateRow"] = "GroupBy"
  /\ "tSortRow" \in TypesWithRule /\ PdiOfType["tSortRow"] = "SortRows"
  /\ "tFilterRow" \in TypesWithRule /\ PdiOfType["tFilterRow"] = "FilterRows"
<1>1. "tAggregateRow" \in TypesWithRule /\ PdiOfType["tAggregateRow"] = "GroupBy"
  BY DEF TypesWithRule, PdiOfType
<1>2. "tSortRow" \in TypesWithRule /\ PdiOfType["tSortRow"] = "SortRows"
  BY DEF TypesWithRule, PdiOfType
<1>3. "tFilterRow" \in TypesWithRule /\ PdiOfType["tFilterRow"] = "FilterRows"
  BY DEF TypesWithRule, PdiOfType
<1>4. QED BY <1>1, <1>2, <1>3

(* The sorter of a step that fits a node fits it too.                      *)
LEMMA SorterFits ==
  ASSUME NEW target, IsStep(target), target.name.role = "step", NEW n, Fitting(target, n), NEW leg
  PROVE  LET s == Sorter(target, leg, SortKeys(target, leg)) IN
         /\ s.name.role = "sorter" /\ s.name.of = target.name.of
         /\ Fitting(s, n)
<1> DEFINE keys == SortKeys(target, leg)
           s == Sorter(target, leg, keys)
<1>1. /\ s.name = [of |-> target.name.of, role |-> "sorter", leg |-> leg]
      /\ s.pdi = "SortRows" /\ s.attr = NoAttributes
      /\ s.fields = [k \in DOMAIN keys |-> [name |-> keys[k], kind |-> "plain"]]
  BY SorterStep
<1> HIDE DEF s
<1>2. s.name.role = "sorter" /\ s.name.of = target.name.of
  BY <1>1
<1>3. ASSUME s.name.of = <<n.name>>, n.component = "tAggregateRow", Rows(Saved(n, "GROUPBYS")) # << >>
      PROVE  FieldNames(s.fields) = Column(Rows(Saved(n, "GROUPBYS")), "INPUT_COLUMN")
  <2>1. OfNode(target, n)
    BY <1>2, <1>3 DEF Fitting
  <2>2. target.pdi = "GroupBy" /\ TableRows(target, "GROUPBYS") = Rows(Saved(n, "GROUPBYS"))
    BY <1>3, <2>1, RulesOfNodes, TableNames DEF OfNode
  <2>3. keys = GroupKeys(target)
    BY <2>2 DEF SortKeys
  <2>4. keys = Column(Rows(Saved(n, "GROUPBYS")), "INPUT_COLUMN")
    BY <1>3, <2>2, <2>3 DEF GroupKeys
  <2>5. keys = [k \in DOMAIN keys |-> keys[k]]
    BY <2>4 DEF Column
  <2> HIDE DEF keys
  <2>6. FieldNames(s.fields) = keys
    BY <1>1, <2>5, NamesOf
  <2>7. QED BY <2>4, <2>6
<1>4. Fitting(s, n)
  BY <1>1, <1>2, <1>3 DEF Fitting, SorterOf
<1>5. QED BY <1>2, <1>4 DEF s

(* A hop led through a sorter, and the new one into the sorter.            *)
Through(hops, k, name) == Append([hops EXCEPT ![k][1] = name], <<hops[k][1], name>>)

LEMMA HopsThrough ==
  ASSUME NEW hops, AreHops(hops),
         NEW k \in 1..Len(hops), NEW t, hops[k][2] = t, t.role = "step",
         NEW name, name.role = "sorter", name.of = t.of
  PROVE  LET after == Through(hops, k, name) IN
         /\ AreHops(after)
         /\ {i \in 1..Len(after) : after[i][2] = t} = {i \in 1..Len(hops) : hops[i][2] = t}
<1> USE DEF AreHops
<1> DEFINE m == Len(hops)
           moved == [hops EXCEPT ![k][1] = name]
           new == <<hops[k][1], name>>
           after == Append(moved, new)
<1>1. m \in Nat /\ DOMAIN hops = 1..m
  BY ListParts
<1>2. \A i \in 1..m : IsHop(hops[i])
  BY <1>1 DEF ToSet
<1>3. moved = [i \in 1..m |-> IF i = k THEN [hops[k] EXCEPT ![1] = name] ELSE hops[i]]
  BY <1>1
<1>4. [hops[k] EXCEPT ![1] = name] = <<name, t>>
  <2> DEFINE a == hops[k][1]
  <2>1. hops[k] = <<a, t>>
    BY <1>2 DEF IsHop
  <2> HIDE DEF a
  <2>2. QED BY <2>1
<1> HIDE DEF moved
<1>5. IsList(moved) /\ Len(moved) = m
  <2>1. moved = [i \in 1..m |-> moved[i]]
    BY <1>3
  <2> HIDE DEF m
  <2>2. QED BY <1>1, <2>1, ListOf
<1>6. \A i \in 1..m : IsHop(moved[i]) /\ moved[i][2] = hops[i][2]
  <2> TAKE i \in 1..m
  <2>1. CASE i = k
    <3>1. moved[i] = <<name, t>>
      BY <1>3, <1>4, <2>1
    <3>2. QED BY <2>1, <3>1 DEF IsHop
  <2>2. CASE i # k
    BY <1>2, <1>3, <2>2
  <2>3. QED BY <2>1, <2>2
<1>7. IsHop(new) /\ new[2] # t
  <2>1. IsHop(hops[k])
    BY <1>2
  <2>2. hops[k][1].role = "sorter" => hops[k][1].of = name.of
    BY <2>1 DEF IsHop
  <2>3. IsHop(new)
    BY <2>2 DEF IsHop
  <2>4. name # t
    OBVIOUS
  <2>5. QED BY <2>3, <2>4
<1> HIDE DEF new
<1>8. IsList(after) /\ Len(after) = m + 1 /\ after[m + 1] = new /\ \A i \in 1..m : after[i] = moved[i]
  BY <1>5, Appended
<1> HIDE DEF after
<1>9. \A h \in ToSet(after) : IsHop(h)
  <2> TAKE h \in ToSet(after)
  <2>1. PICK i \in 1..(m + 1) : h = after[i]
    BY <1>8, ListParts DEF ToSet
  <2>2. CASE i = m + 1
    BY <1>7, <1>8, <2>1, <2>2
  <2>3. CASE i # m + 1
    <3>1. i \in 1..m
      BY <1>1, <2>3
    <3>2. QED BY <1>6, <1>8, <2>1, <3>1
  <2>4. QED BY <2>2, <2>3
<1>10. {i \in 1..Len(after) : after[i][2] = t} = {i \in 1..m : hops[i][2] = t}
  <2>1. ASSUME NEW i \in 1..(m + 1), after[i][2] = t PROVE i \in 1..m /\ hops[i][2] = t
    <3>1. i # m + 1
      BY <1>7, <1>8, <2>1
    <3>2. i \in 1..m
      BY <1>1, <3>1
    <3>3. QED BY <1>6, <1>8, <2>1, <3>2
  <2>2. ASSUME NEW i \in 1..m, hops[i][2] = t PROVE i \in 1..(m + 1) /\ after[i][2] = t
    BY <1>1, <1>6, <1>8, <2>2
  <2>3. QED BY <1>8, <2>1, <2>2
<1>11. QED BY <1>8, <1>9, <1>10 DEF after, m, new, moved, Through

-----------------------------------------------------------------------------
(* Sorters put in keep the fit.                                            *)

LEMMA LegInRange ==
  ASSUME NEW p, IsList(p.hops), NEW n, NEW leg \in 1..Len(LegsOf(p, n))
  PROVE  LegsOf(p, n)[leg] \in 1..Len(p.hops) /\ p.hops[LegsOf(p, n)[leg]][2] = n
<1>1. \A j \in 1..Len(LegsOf(p, n)) :
        LegsOf(p, n)[j] \in 1..Len(p.hops) /\ p.hops[LegsOf(p, n)[j]][2] = n
  BY LegsInRange, Zenon
<1>2. QED BY <1>1

LEMMA SorterFitsIn ==
  ASSUME NEW p, IsPipeline(p), NEW n, Fit(p, n), NEW target, target \in ToSet(p.steps),
         target.name.role = "step", NEW leg \in 1..Len(LegsOf(p, target.name))
  PROVE  LET q == WithSorter(p, target, leg) IN
         Fit(q, n) /\ Ends(q, target.name) = Ends(p, target.name)
<1> DEFINE t == target.name
           k == LegsOf(p, t)[leg]
           keys == SortKeys(target, leg)
           sorter == Sorter(target, leg, keys)
           place == SelectInSeq(p.steps, LAMBDA s : s.name = t)
           steps == InsertAt(p.steps, place, sorter)
           hops == Through(p.hops, k, sorter.name)
           q == WithSorter(p, target, leg)
           Same == keys = << >> \/ HasSorter(p, p.hops[k][1])
<1>1. /\ Same => q = p
      /\ ~Same => q = [p EXCEPT !.steps = steps, !.hops = hops]
  BY DEF WithSorter, Through
<1>2. IsList(p.steps) /\ IsList(p.hops) /\ \A i \in 1..Len(p.steps) : IsStep(p.steps[i])
  BY DEF IsPipeline
<1>3. DOMAIN p.steps = 1..Len(p.steps) /\ Len(p.steps) \in Nat
  BY <1>2, ListParts
<1>4. IsStep(target) /\ Fitting(target, n) /\ \E i \in 1..Len(p.steps) : p.steps[i].name = t
  BY <1>2, <1>3 DEF ToSet, Fit
<1>5. place \in 1..Len(p.steps)
  BY <1>2, <1>4, PlaceOf
<1>6. sorter.name.role = "sorter" /\ sorter.name.of = t.of /\ Fitting(sorter, n)
  BY <1>4, SorterFits
<1>7. k \in 1..Len(p.hops) /\ p.hops[k][2] = t
  <2>1. leg \in 1..Len(LegsOf(p, t))
    OBVIOUS
  <2> HIDE DEF t, sorter, place, Same, hops, steps, q
  <2>2. QED BY <1>2, <2>1, LegInRange
<1> HIDE DEF k, keys, place, sorter, t, Same
<1>8. ToSet(steps) = ToSet(p.steps) \cup {sorter}
  BY <1>2, <1>5, InsertedSet
<1>9. /\ AreHops(hops)
      /\ {i \in 1..Len(hops) : hops[i][2] = t} = {i \in 1..Len(p.hops) : p.hops[i][2] = t}
  <2>1. AreHops(p.hops)
    BY DEF Fit
  <2>2. t.role = "step"
    BY DEF t
  <2> DEFINE old == p.hops
             mark == sorter.name
  <2>3. /\ AreHops(old) /\ k \in 1..Len(old) /\ old[k][2] = t /\ t.role = "step"
        /\ mark.role = "sorter" /\ mark.of = t.of
        /\ hops = Through(old, k, mark)
    BY <1>6, <1>7, <2>1, <2>2
  <2> HIDE DEF old, mark, hops
  <2>4. AreHops(hops) /\ {i \in 1..Len(hops) : hops[i][2] = t} = {i \in 1..Len(old) : old[i][2] = t}
    BY <2>3, HopsThrough
  <2>5. QED BY <2>4 DEF old
<1> HIDE DEF hops, steps, q
<1>10. CASE ~Same
  <2>1. q = [name |-> p.name, steps |-> steps, hops |-> hops]
    BY <1>1, <1>10, PartsReplaced
  <2>2. q.steps = steps /\ q.hops = hops
    BY <2>1
  <2>3. Fit(q, n)
    BY <1>6, <1>8, <1>9, <2>2 DEF Fit
  <2>4. Ends(q, t) = Ends(p, t)
    BY <1>9, <2>2 DEF Ends
  <2>5. QED BY <2>3, <2>4 DEF q, t
<1>11. CASE Same
  BY <1>1, <1>11 DEF q, t
<1>12. QED BY <1>10, <1>11

LEMMA LegsFit ==
  ASSUME NEW p, IsPipeline(p), NEW n, Fit(p, n), NEW target, target \in ToSet(p.steps),
         target.name.role = "step"
  PROVE  Fit(LegsSorted(p, target), n)
<1> DEFINE t == target.name
           m == Len(LegsOf(p, t))
           after == CHOOSE g : g = [k \in 0..m |-> IF k = 0 THEN p ELSE WithSorter(g[k - 1], target, k)]
           Done(q) == IsPipeline(q) /\ Keeps(p, q) /\ Fit(q, n) /\ Ends(q, t) = Ends(p, t)
           S == {k \in 0..m : Done(after[k])}
<1>1. m \in Nat /\ m = Cardinality(Ends(p, t))
  BY LegsInRange, ListParts DEF IsPipeline, Ends
<1>2. after = [k \in 0..m |-> IF k = 0 THEN p ELSE WithSorter(after[k - 1], target, k)]
  <2> HIDE DEF m
  <2>1. QED BY <1>1, LegsExist
<1>3. LegsSorted(p, target) = after[m]
  BY DEF LegsSorted
<1> HIDE DEF after, m, t
<1>4. 0 \in S
  <2>1. after[0] = p
    BY <1>1, <1>2
  <2>2. QED BY <1>1, <2>1 DEF Keeps
<1>5. ASSUME NEW k \in 1..m, k - 1 \in S PROVE k \in S
  <2> DEFINE before == after[k - 1]
             now == after[k]
  <2>1. k \in 0..m /\ now = WithSorter(before, target, k)
    BY <1>1, <1>2
  <2>2. Done(before)
    BY <1>5
  <2> HIDE DEF before, now
  <2>3. target \in ToSet(before.steps)
    BY <2>2 DEF Keeps
  <2>4. Len(LegsOf(before, t)) = Cardinality(Ends(before, t))
    BY <2>2, LegsInRange DEF IsPipeline, Ends
  <2>5. k \in 1..Len(LegsOf(before, t))
    BY <1>1, <2>2, <2>4
  <2>6. Fit(now, n) /\ Ends(now, t) = Ends(before, t)
    BY <2>1, <2>2, <2>3, <2>5, SorterFitsIn DEF t
  <2>7. IsPipeline(now) /\ Keeps(before, now)
    BY <2>1, <2>2, <2>3, SorterKeeps
  <2>8. Keeps(p, now)
    BY <2>2, <2>7, KeepsOn
  <2>9. Done(now)
    BY <2>2, <2>6, <2>7, <2>8
  <2> HIDE DEF Done
  <2>10. QED BY <2>1, <2>9 DEF now
<1>6. m \in S
  <2> HIDE DEF S
  <2>1. QED BY <1>1, <1>4, <1>5, StepByStep
<1>7. QED BY <1>3, <1>6

LEMMA SortersFit ==
  ASSUME NEW p, IsPipeline(p), \A s \in ToSet(p.steps) : s.name.role = "step", NEW n, Fit(p, n)
  PROVE  Fit(WithSorters(p), n)
<1> DEFINE places == {i \in DOMAIN p.steps : p.steps[i].pdi \in NeedsSort}
           targets == At(p.steps, places)
           m == Len(targets)
           after == CHOOSE g : g = [k \in 0..m |-> IF k = 0 THEN p ELSE LegsSorted(g[k - 1], targets[k])]
           Done(q) == IsPipeline(q) /\ Keeps(p, q) /\ Fit(q, n)
           S == {k \in 0..m : Done(after[k])}
<1>1. WithSorters(p) = after[m]
  BY DEF WithSorters, Those
<1>2. IsList(targets) /\ \A k \in 1..m : targets[k] \in ToSet(p.steps)
  <2>1. Len(p.steps) \in Nat /\ DOMAIN p.steps = 1..Len(p.steps)
    BY ListParts DEF IsPipeline
  <2>2. places \in SUBSET (1..Len(p.steps))
    BY <2>1
  <2> HIDE DEF places
  <2>3. IsList(targets) /\ \A k \in 1..m : \E i \in places : targets[k] = p.steps[i]
    BY <2>1, <2>2, AtParts
  <2> HIDE DEF targets
  <2>4. QED BY <2>1, <2>2, <2>3 DEF ToSet
<1> HIDE DEF targets
<1>3. m \in Nat
  BY <1>2, ListParts
<1>4. after = [k \in 0..m |-> IF k = 0 THEN p ELSE LegsSorted(after[k - 1], targets[k])]
  <2> HIDE DEF m
  <2>1. QED BY <1>3, SortersExist
<1> HIDE DEF after, m
<1>5. 0 \in S
  <2>1. after[0] = p
    BY <1>3, <1>4
  <2>2. QED BY <1>3, <2>1 DEF Keeps
<1>6. ASSUME NEW k \in 1..m, k - 1 \in S PROVE k \in S
  <2> DEFINE before == after[k - 1]
             now == after[k]
             target == targets[k]
  <2>1. k \in 0..m /\ now = LegsSorted(before, target)
    BY <1>3, <1>4
  <2>2. Done(before)
    BY <1>6
  <2>3. target \in ToSet(p.steps) /\ target.name.role = "step"
    BY <1>2
  <2> HIDE DEF before, now, target
  <2>4. target \in ToSet(before.steps)
    BY <2>2, <2>3 DEF Keeps
  <2>5. Fit(now, n)
    BY <2>1, <2>2, <2>3, <2>4, LegsFit
  <2>6. IsPipeline(now) /\ Keeps(before, now)
    BY <2>1, <2>2, <2>4, LegsKeep
  <2>7. Keeps(p, now)
    BY <2>2, <2>6, KeepsOn
  <2>8. QED BY <2>1, <2>5, <2>6, <2>7 DEF now
<1>7. m \in S
  <2> HIDE DEF S
  <2>1. QED BY <1>3, <1>5, <1>6, StepByStep
<1>8. QED BY <1>1, <1>7

-----------------------------------------------------------------------------
(* The parser and the rules make it, a translation keeps it.               *)

LEMMA AttributesSet ==
  ASSUME NEW tables, NEW sql, NEW logical, NEW advanced
  PROVE  LET a == [NoAttributes EXCEPT !.tables = tables, !.sql = sql, !.logical = logical, !.advanced = advanced] IN
         a.tables = tables /\ a.logical = logical /\ a.advanced = advanced
<1> DEFINE Whole(u, v, w, x, y, z) ==
             [pairs |-> u, table |-> v, sql |-> w, tables |-> x, logical |-> y, advanced |-> z]
           pairs == NoAttributes.pairs
           table == NoAttributes.table
           b == [NoAttributes EXCEPT !.tables = tables]
           c == [b EXCEPT !.sql = sql]
           d == [c EXCEPT !.logical = logical]
           e == [d EXCEPT !.advanced = advanced]
<1>1. NoAttributes = Whole(pairs, table, NoAttributes.sql, NoAttributes.tables, NoAttributes.logical, NoAttributes.advanced)
  BY DEF NoAttributes
<1>2. e = [NoAttributes EXCEPT !.tables = tables, !.sql = sql, !.logical = logical, !.advanced = advanced]
  OBVIOUS
<1> HIDE DEF pairs, table
<1>3. b = Whole(pairs, table, NoAttributes.sql, tables, NoAttributes.logical, NoAttributes.advanced)
  BY <1>1
<1> HIDE DEF b
<1>4. c = Whole(pairs, table, sql, tables, NoAttributes.logical, NoAttributes.advanced)
  BY <1>3
<1> HIDE DEF c
<1>5. d = Whole(pairs, table, sql, tables, logical, NoAttributes.advanced)
  BY <1>4
<1> HIDE DEF d
<1>6. e = Whole(pairs, table, sql, tables, logical, advanced)
  BY <1>5
<1> HIDE DEF e
<1>7. e.tables = tables /\ e.logical = logical /\ e.advanced = advanced
  BY <1>6
<1>8. QED BY <1>2, <1>7

LEMMA NodeFits ==
  ASSUME NEW n, IsList(n.entries)
  PROVE  LET s == Ruled(NodeStep(n)) IN
         s.name = Plain(n.name) /\ OfNode(s, n)
<1> DEFINE x == NodeStep(n)
           tables == [t \in {t \in DOMAIN n.tables : Rows(n.tables[t]) # << >>} |-> Rows(n.tables[t])]
           attr == [NoAttributes EXCEPT !.tables = tables, !.sql = n.query, !.logical = n.logical, !.advanced = n.advanced]
           s == Ruled(x)
<1>1. IsStep(x)
  BY NodeStepParts
<1>2. x.name = Plain(n.name) /\ x.type = n.component /\ x.attr = attr
  <2> HIDE DEF attr
  <2>1. attr = [NoAttributes EXCEPT !.tables = tables, !.sql = n.query, !.logical = n.logical, !.advanced = n.advanced]
    BY DEF attr
  <2>2. QED BY <2>1 DEF NodeStep
<1>3. attr.tables = tables /\ attr.logical = n.logical /\ attr.advanced = n.advanced
  <2> HIDE DEF tables
  <2>1. QED BY AttributesSet
<1> HIDE DEF x, attr
<1>4. /\ s.name = Plain(n.name) /\ s.attr = attr
      /\ n.component \in TypesWithRule => s.pdi = PdiOfType[n.component]
  BY <1>1, <1>2, RuledParts
<1> HIDE DEF s
<1>5. ASSUME NEW t PROVE TableRows(s, t) = Rows(Saved(n, t))
  <2>1. s.attr.tables = tables
    BY <1>3, <1>4
  <2>2. CASE t \in DOMAIN tables
    <3>1. t \in DOMAIN n.tables /\ tables[t] = Rows(n.tables[t])
      BY <2>2
    <3> HIDE DEF tables
    <3>2. TableRows(s, t) = tables[t]
      BY <2>1, <2>2 DEF TableRows
    <3>3. Saved(n, t) = n.tables[t]
      BY <3>1 DEF Saved
    <3>4. QED BY <3>1, <3>2, <3>3
  <2>3. CASE t \notin DOMAIN tables
    <3>1. t \in DOMAIN n.tables => Rows(n.tables[t]) = << >>
      BY <2>3
    <3> HIDE DEF tables
    <3>2. TableRows(s, t) = << >>
      BY <2>1, <2>3 DEF TableRows
    <3>3. CASE t \in DOMAIN n.tables
      BY <3>1, <3>2, <3>3 DEF Saved
    <3>4. CASE t \notin DOMAIN n.tables
      <4>1. Saved(n, t) = << >>
        BY <3>4 DEF Saved
      <4>2. QED BY <3>2, <4>1, NoTable
    <3>5. QED BY <3>3, <3>4
  <2>4. QED BY <2>2, <2>3
<1>6. OfNode(s, n)
  BY <1>3, <1>4, <1>5 DEF OfNode
<1>7. QED BY <1>4, <1>6 DEF s, x

(* The nodes whose name is theirs alone.                                   *)
IsNodeOf(n, item) ==
  n \in ToSet(item.nodes) /\ \A m \in ToSet(item.nodes) : m.name = n.name => m = n

LEMMA SameName ==
  ASSUME NEW a, NEW b, Plain(a).of = <<b>>
  PROVE  a = b
<1>1. <<a>> = <<b>>
  BY DEF Plain
<1>2. <<a>>[1] = a /\ <<b>>[1] = b
  OBVIOUS
<1>3. QED BY <1>1, <1>2

LEMMA ItemFits ==
  ASSUME NEW item, IsList(item.nodes), IsList(item.connections), \A m \in ToSet(item.nodes) : IsList(m.entries),
         NEW n, IsNodeOf(n, item)
  PROVE  Fit(Apply(ParseItem(item)), n)
<1> DEFINE m == Len(item.nodes)
           c == Len(item.connections)
           p == ParseItem(item)
           steps == [k \in DOMAIN p.steps |-> Ruled(p.steps[k])]
           r == [p EXCEPT !.steps = steps]
<1>1. m \in Nat /\ DOMAIN item.nodes = 1..m /\ c \in Nat /\ DOMAIN item.connections = 1..c
  BY ListParts
<1>2. IsPipeline(p)
  BY ParsedItem
<1>3. p.steps = [k \in DOMAIN item.nodes |-> NodeStep(item.nodes[k])]
  BY DEF ParseItem
<1>4. AreHops(p.hops)
  <2> DEFINE places == {i \in DOMAIN item.connections : item.connections[i].kind \in FlowConnectors}
             flows == At(item.connections, places)
             hops == [k \in DOMAIN flows |-> <<Plain(flows[k].from), Plain(flows[k].to)>>]
  <2>1. p.hops = hops
    BY DEF ParseItem, Those
  <2>2. IsList(p.hops)
    BY <1>2 DEF IsPipeline
  <2> HIDE DEF flows
  <2>3. \A h \in ToSet(hops) : IsHop(h)
    <3> TAKE h \in ToSet(hops)
    <3>1. PICK k \in DOMAIN flows : h = <<Plain(flows[k].from), Plain(flows[k].to)>>
      BY DEF ToSet
    <3>2. h[1].role = "step"
      BY <3>1 DEF Plain
    <3>3. QED BY <3>1, <3>2 DEF IsHop
  <2> HIDE DEF hops
  <2>4. QED BY <2>1, <2>2, <2>3 DEF AreHops
<1>5. steps = [k \in 1..m |-> Ruled(NodeStep(item.nodes[k]))]
  <2> HIDE DEF p, m
  <2>1. QED BY <1>1, <1>3
<1>6. r = [name |-> p.name, steps |-> steps, hops |-> p.hops]
  <2> HIDE DEF steps, p
  <2>1. QED BY <1>2, PartsReplaced
<1>7. Apply(p) = WithSorters(r)
  BY DEF Apply
<1> HIDE DEF r, steps, p
<1>8. IsList(steps) /\ Len(steps) = m /\ \A k \in 1..m : steps[k] = Ruled(NodeStep(item.nodes[k]))
  <2> HIDE DEF m
  <2>1. QED BY <1>1, <1>5, ListOf
<1>9. \A k \in 1..m : IsList(item.nodes[k].entries) /\ item.nodes[k] \in ToSet(item.nodes)
  BY <1>1 DEF ToSet
<1>10. ASSUME NEW k \in 1..m
       PROVE  IsStep(steps[k]) /\ steps[k].name = Plain(item.nodes[k].name) /\ OfNode(steps[k], item.nodes[k])
  BY <1>8, <1>9, NodeFits, NodeStepParts, RuledParts
<1>11. r.steps = steps /\ r.hops = p.hops
  BY <1>6
<1>12. IsPipeline(r)
  <2>1. IsList(p.hops)
    BY <1>2 DEF IsPipeline
  <2>2. QED BY <1>6, <1>8, <1>10, <2>1, PipelineOf
<1>13. \A s \in ToSet(r.steps) : \E k \in 1..m : s = steps[k]
  BY <1>8, <1>11, ListParts DEF ToSet
<1>14. \A s \in ToSet(r.steps) : s.name.role = "step" /\ Fitting(s, n)
  <2> TAKE s \in ToSet(r.steps)
  <2>1. PICK k \in 1..m : s = steps[k]
    BY <1>13
  <2>2. s.name = Plain(item.nodes[k].name) /\ OfNode(s, item.nodes[k])
    BY <1>10, <2>1
  <2>3. s.name.role = "step"
    BY <2>2 DEF Plain
  <2>4. s.name.of = <<n.name>> => item.nodes[k] = n
    BY <1>9, <2>2, SameName DEF IsNodeOf
  <2>5. QED BY <2>2, <2>3, <2>4 DEF Fitting
<1>15. \E s \in ToSet(r.steps) : s.name = Plain(n.name)
  <2>1. PICK k \in 1..m : n = item.nodes[k]
    BY <1>1 DEF IsNodeOf, ToSet
  <2>2. steps[k].name = Plain(n.name) /\ steps[k] \in ToSet(r.steps)
    BY <1>8, <1>10, <1>11, <2>1, ListParts DEF ToSet
  <2>3. QED BY <2>2
<1>16. Fit(r, n)
  BY <1>4, <1>11, <1>14, <1>15 DEF Fit
<1>17. QED BY <1>7, <1>12, <1>14, <1>16, SortersFit DEF p

LEMMA TranslatedFits ==
  ASSUME NEW p, IsPipeline(p), NEW answered, NEW n, Fit(p, n)
  PROVE  Fit(TranslatePipeline(p, answered), n)
<1> DEFINE q == TranslatePipeline(p, answered)
<1>1. /\ IsPipeline(q) /\ q.hops = p.hops /\ Len(q.steps) = Len(p.steps)
      /\ \A k \in 1..Len(p.steps) :
           /\ q.steps[k].name = p.steps[k].name /\ q.steps[k].pdi = p.steps[k].pdi
           /\ q.steps[k].attr = p.steps[k].attr /\ q.steps[k].fields = p.steps[k].fields
  BY TranslatedParts
<1> HIDE DEF q
<1>2. DOMAIN q.steps = 1..Len(p.steps) /\ DOMAIN p.steps = 1..Len(p.steps)
  BY <1>1, ListParts DEF IsPipeline
<1>3. \A s \in ToSet(q.steps) : Fitting(s, n)
  <2> TAKE s \in ToSet(q.steps)
  <2>1. PICK k \in 1..Len(p.steps) : s = q.steps[k]
    BY <1>2 DEF ToSet
  <2> DEFINE x == p.steps[k]
  <2>2. s.name = x.name /\ s.pdi = x.pdi /\ s.attr = x.attr /\ s.fields = x.fields
    BY <1>1, <2>1
  <2>3. Fitting(x, n)
    BY <1>2 DEF Fit, ToSet
  <2> HIDE DEF x
  <2>4. OfNode(x, n) => OfNode(s, n)
    BY <2>2 DEF OfNode, TableRows
  <2>5. SorterOf(x, n) => SorterOf(s, n)
    BY <2>2 DEF SorterOf
  <2>6. QED BY <2>2, <2>3, <2>4, <2>5 DEF Fitting
<1>4. \E s \in ToSet(q.steps) : s.name = Plain(n.name)
  <2>1. PICK k \in 1..Len(p.steps) : p.steps[k].name = Plain(n.name)
    BY <1>2 DEF Fit, ToSet
  <2>2. q.steps[k] \in ToSet(q.steps) /\ q.steps[k].name = Plain(n.name)
    BY <1>1, <1>2, <2>1 DEF ToSet
  <2>3. QED BY <2>2
<1>5. QED BY <1>1, <1>3, <1>4 DEF Fit, q

(* The file of a pipeline that fits a node: the node's step is found under *)
(* its name, and what sorts for it sorts by its keys.                      *)
StepOfNode(file, n) == file.steps[SelectInSeq(file.steps, LAMBDA s : s.name = Plain(n.name))]

LEMMA StepFound ==
  ASSUME NEW p, IsPipeline(p), NEW n, Fit(p, n)
  PROVE  \E s : OfNode(s, n) /\ IsEmitted(StepOfNode(Ktr(p), n), s)
<1> DEFINE steps == Ktr(p).steps
           m == Len(p.steps)
           k == SelectInSeq(steps, LAMBDA s : s.name = Plain(n.name))
<1>1. /\ IsList(steps) /\ m <= Len(steps)
      /\ \A i \in 1..m : IsEmitted(steps[i], p.steps[i])
      /\ \A i \in (m + 1)..Len(steps) : steps[i].name.role = "lookup"
  BY KtrParts
<1>2. m \in Nat /\ DOMAIN p.steps = 1..m /\ Len(steps) \in Nat
  BY <1>1, ListParts DEF IsPipeline
<1> HIDE DEF steps, m
<1>3. PICK i \in 1..m : p.steps[i].name = Plain(n.name)
  BY <1>2 DEF Fit, ToSet
<1>4. i \in 1..Len(steps) /\ steps[i].name = Plain(n.name)
  BY <1>1, <1>2, <1>3 DEF IsEmitted
<1>5. k \in 1..Len(steps) /\ steps[k].name = Plain(n.name)
  BY <1>1, <1>4, PlaceOf
<1> HIDE DEF k
<1>6. Plain(n.name).role = "step" /\ Plain(n.name).of = <<n.name>>
  BY DEF Plain
<1>7. k \in 1..m
  BY <1>1, <1>2, <1>5, <1>6
<1>8. p.steps[k] \in ToSet(p.steps) /\ IsEmitted(steps[k], p.steps[k])
  BY <1>1, <1>2, <1>7 DEF ToSet
<1>9. OfNode(p.steps[k], n)
  <2>1. Fitting(p.steps[k], n)
    BY <1>8 DEF Fit
  <2>2. p.steps[k].name = Plain(n.name)
    BY <1>5, <1>8 DEF IsEmitted
  <2>3. QED BY <1>6, <2>1, <2>2 DEF Fitting
<1>10. StepOfNode(Ktr(p), n) = steps[k]
  BY DEF StepOfNode, k, steps
<1>11. QED BY <1>8, <1>9, <1>10

LEMMA SorterFound ==
  ASSUME NEW p, IsPipeline(p), NEW n, Fit(p, n), NEW h \in ToSet(Ktr(p).hops), NEW x \in ToSet(Ktr(p).steps),
         h[2] = Plain(n.name), x.name = h[1], x.name.role = "sorter"
  PROVE  \E s : SorterOf(s, n) /\ IsEmitted(x, s)
<1> DEFINE steps == Ktr(p).steps
           m == Len(p.steps)
<1>1. /\ h \in ToSet(p.hops) \/ h[1].role = "lookup"
      /\ IsList(steps) /\ m <= Len(steps)
      /\ \A i \in 1..m : IsEmitted(steps[i], p.steps[i])
      /\ \A i \in (m + 1)..Len(steps) : steps[i].name.role = "lookup"
  BY KtrParts
<1>2. m \in Nat /\ DOMAIN p.steps = 1..m /\ Len(steps) \in Nat /\ DOMAIN steps = 1..Len(steps)
  BY <1>1, ListParts DEF IsPipeline
<1>3. PICK i \in 1..Len(steps) : x = steps[i]
  BY <1>2 DEF ToSet
<1> HIDE DEF steps, m
<1>4. i \in 1..m
  BY <1>1, <1>2, <1>3
<1>5. p.steps[i] \in ToSet(p.steps) /\ IsEmitted(x, p.steps[i])
  BY <1>1, <1>2, <1>3, <1>4 DEF ToSet
<1>6. IsHop(h)
  BY <1>1 DEF Fit, AreHops
<1>7. Plain(n.name).of = <<n.name>>
  BY DEF Plain
<1>8. x.name.of = <<n.name>>
  BY <1>6, <1>7 DEF IsHop
<1>9. SorterOf(p.steps[i], n)
  <2>1. Fitting(p.steps[i], n)
    BY <1>5 DEF Fit
  <2>2. p.steps[i].name = x.name
    BY <1>5 DEF IsEmitted
  <2>3. QED BY <1>8, <2>1, <2>2 DEF Fitting
<1>10. QED BY <1>5, <1>9

(* The column of a table, as the parser read it and as it was saved.       *)
LEMMA CellsRead ==
  ASSUME NEW n, NEW t, NEW column, IsTable(Saved(n, t)),
         Saved(n, t) # << >> => column \in SavedColumns(n, t)
  PROVE  LET rows == Rows(Saved(n, t)) IN
         /\ IsList(rows)
         /\ rows = << >> <=> Saved(n, t) = << >>
         /\ Column(rows, column) = Cells(n, t, column)
<1> DEFINE values == Saved(n, t)
           own == At(values, ColumnPlaces(values, column))
<1>1. Cells(n, t, column) = [k \in DOMAIN own |-> own[k][2]]
  BY DEF Cells, Those, ColumnPlaces
<1>2. values # << >> => column \in {v[1] : v \in ToSet(values)}
  BY DEF SavedColumns
<1> HIDE DEF values
<1>3. /\ IsList(Rows(values))
      /\ Rows(values) = << >> <=> values = << >>
      /\ Column(Rows(values), column) = [k \in DOMAIN own |-> own[k][2]]
  BY <1>2, TableRead DEF values
<1>4. QED BY <1>1, <1>3 DEF values

(* A node whose tables are as the editor saves them.                       *)
HasTables(n) ==
  \A t \in DOMAIN TableColumns : IsTable(Saved(n, t)) /\
    (Saved(n, t) # << >> => TableColumns[t] \subseteq SavedColumns(n, t))

LEMMA CellsOf ==
  ASSUME NEW n, HasTables(n), NEW t \in DOMAIN TableColumns, NEW column \in TableColumns[t]
  PROVE  LET rows == Rows(Saved(n, t)) IN
         /\ IsList(rows)
         /\ rows = << >> <=> Saved(n, t) = << >>
         /\ Column(rows, column) = Cells(n, t, column)
<1>1. IsTable(Saved(n, t)) /\ (Saved(n, t) # << >> => column \in SavedColumns(n, t))
  BY DEF HasTables
<1>2. QED BY <1>1, CellsRead

LEMMA ColumnsOf ==
  /\ TableColumns["GROUPBYS"] = {"INPUT_COLUMN"}
  /\ TableColumns["OPERATIONS"] = {"OUTPUT_COLUMN", "FUNCTION", "INPUT_COLUMN"}
  /\ TableColumns["CRITERIA"] = {"COLNAME", "ORDER"}
  /\ TableColumns["CONDITIONS"] = {"INPUT_COLUMN", "OPERATOR", "RVALUE"}
BY DEF TableColumns

(* Only `count` becomes a count without a note.                            *)
CountsAreNoted(aggregates, functions) ==
  \A k \in DOMAIN aggregates :
    aggregates[k].type = "COUNT_ALL" /\ functions[k] # "count" => aggregates[k].noted

LEMMA OnlyCountCounts == \A f \in DOMAIN Functions : Functions[f] = "COUNT_ALL" => f = "count"
BY DEF Functions

LEMMA AggregateRead ==
  ASSUME NEW n, HasTables(n), n.component = "tAggregateRow", NEW s, OfNode(s, n), NEW f, IsEmitted(f, s),
         Saved(n, "OPERATIONS") # << >> \/ Saved(n, "GROUPBYS") # << >>
  PROVE  /\ f.config.group = Cells(n, "GROUPBYS", "INPUT_COLUMN")
         /\ Column(f.config.aggregates, "field") = Cells(n, "OPERATIONS", "OUTPUT_COLUMN")
         /\ Column(f.config.aggregates, "of") = Cells(n, "OPERATIONS", "INPUT_COLUMN")
         /\ CountsAreNoted(f.config.aggregates, Cells(n, "OPERATIONS", "FUNCTION"))
<1> DEFINE ops == Rows(Saved(n, "OPERATIONS"))
           groups == Rows(Saved(n, "GROUPBYS"))
           aggregates == [k \in DOMAIN ops |->
                 [field |-> ops[k]["OUTPUT_COLUMN"], of |-> ops[k]["INPUT_COLUMN"],
                  type |-> IF ops[k]["FUNCTION"] \in DOMAIN Functions
                           THEN Functions[ops[k]["FUNCTION"]] ELSE "COUNT_ALL",
                  noted |-> ops[k]["FUNCTION"] \notin DOMAIN Functions]]
<1>1. /\ groups = << >> <=> Saved(n, "GROUPBYS") = << >>
      /\ Column(groups, "INPUT_COLUMN") = Cells(n, "GROUPBYS", "INPUT_COLUMN")
  BY CellsOf, TableNames, ColumnsOf
<1>2. /\ ops = << >> <=> Saved(n, "OPERATIONS") = << >>
      /\ Column(ops, "OUTPUT_COLUMN") = Cells(n, "OPERATIONS", "OUTPUT_COLUMN")
      /\ Column(ops, "INPUT_COLUMN") = Cells(n, "OPERATIONS", "INPUT_COLUMN")
      /\ Column(ops, "FUNCTION") = Cells(n, "OPERATIONS", "FUNCTION")
  BY CellsOf, TableNames, ColumnsOf
<1>3. TableRows(s, "OPERATIONS") = ops /\ TableRows(s, "GROUPBYS") = groups /\ s.pdi = "GroupBy"
  BY RulesOfNodes, TableNames DEF OfNode
<1> HIDE DEF ops, groups
<1>4. ops # << >> \/ groups # << >>
  BY <1>1, <1>2
<1>5. f.config = GroupConfig(s)
  BY <1>3 DEF IsEmitted
<1>6. f.config.group = Column(groups, "INPUT_COLUMN") /\ f.config.aggregates = aggregates
  BY <1>3, <1>4, <1>5 DEF GroupConfig
<1>7. DOMAIN aggregates = DOMAIN ops
      /\ \A k \in DOMAIN ops : aggregates[k]["field"] = ops[k]["OUTPUT_COLUMN"] /\ aggregates[k]["of"] = ops[k]["INPUT_COLUMN"]
  OBVIOUS
<1>9. CountsAreNoted(aggregates, Column(ops, "FUNCTION"))
  <2> SUFFICES ASSUME NEW k \in DOMAIN ops, aggregates[k].type = "COUNT_ALL", ops[k]["FUNCTION"] # "count"
               PROVE  aggregates[k].noted
    BY DEF CountsAreNoted, Column
  <2> DEFINE operation == ops[k]["FUNCTION"]
  <2>1. /\ aggregates[k].type = IF operation \in DOMAIN Functions THEN Functions[operation] ELSE "COUNT_ALL"
        /\ aggregates[k].noted = (operation \notin DOMAIN Functions)
    OBVIOUS
  <2> HIDE DEF aggregates
  <2>2. operation \notin DOMAIN Functions
    BY <2>1, OnlyCountCounts
  <2>3. QED BY <2>1, <2>2
<1> HIDE DEF aggregates
<1>8. Column(aggregates, "field") = Column(ops, "OUTPUT_COLUMN") /\ Column(aggregates, "of") = Column(ops, "INPUT_COLUMN")
  BY <1>7 DEF Column
<1>10. QED BY <1>1, <1>2, <1>6, <1>8, <1>9

LEMMA SortedRead ==
  ASSUME NEW n, HasTables(n), n.component = "tAggregateRow", NEW s, SorterOf(s, n), NEW f, IsEmitted(f, s),
         Cells(n, "GROUPBYS", "INPUT_COLUMN") # << >>
  PROVE  f.config.fields = Cells(n, "GROUPBYS", "INPUT_COLUMN")
<1> DEFINE groups == Rows(Saved(n, "GROUPBYS"))
<1>1. Column(groups, "INPUT_COLUMN") = Cells(n, "GROUPBYS", "INPUT_COLUMN")
  BY CellsOf, TableNames, ColumnsOf
<1>2. groups # << >>
  <2>1. Column(<< >>, "INPUT_COLUMN") = << >>
    BY DEF Column
  <2>2. QED BY <1>1, <2>1
<1>3. FieldNames(s.fields) = Column(groups, "INPUT_COLUMN") /\ s.pdi = "SortRows" /\ s.attr = NoAttributes
  BY <1>2 DEF SorterOf
<1> HIDE DEF groups
<1>4. TableRows(s, "CRITERIA") = << >>
  BY <1>3 DEF TableRows, NoAttributes
<1>5. f.config = SortConfig(s)
  BY <1>3 DEF IsEmitted
<1>6. f.config.fields = FieldNames(s.fields)
  BY <1>4, <1>5 DEF SortConfig
<1>7. QED BY <1>1, <1>3, <1>6

LEMMA SortRead ==
  ASSUME NEW n, HasTables(n), n.component = "tSortRow", NEW s, OfNode(s, n), NEW f, IsEmitted(f, s),
         Saved(n, "CRITERIA") # << >>
  PROVE  LET orders == Cells(n, "CRITERIA", "ORDER") IN
         /\ f.config.fields = Cells(n, "CRITERIA", "COLNAME")
         /\ f.config.descending = {k \in DOMAIN orders : orders[k] = "desc"}
<1> DEFINE rows == Rows(Saved(n, "CRITERIA"))
           orders == Cells(n, "CRITERIA", "ORDER")
<1>1. /\ rows = << >> <=> Saved(n, "CRITERIA") = << >>
      /\ Column(rows, "COLNAME") = Cells(n, "CRITERIA", "COLNAME")
      /\ Column(rows, "ORDER") = orders
  BY CellsOf, TableNames, ColumnsOf
<1>2. TableRows(s, "CRITERIA") = rows /\ s.pdi = "SortRows"
  BY RulesOfNodes, TableNames DEF OfNode
<1> HIDE DEF rows, orders
<1>3. f.config = SortConfig(s)
  BY <1>2 DEF IsEmitted
<1>4. /\ f.config.fields = Column(rows, "COLNAME")
      /\ f.config.descending = {k \in DOMAIN rows : rows[k]["ORDER"] = "desc"}
  BY <1>1, <1>2, <1>3 DEF SortConfig
<1>5. DOMAIN orders = DOMAIN rows /\ \A k \in DOMAIN rows : orders[k] = rows[k]["ORDER"]
  BY <1>1 DEF Column
<1>6. {k \in DOMAIN rows : rows[k]["ORDER"] = "desc"} = {k \in DOMAIN orders : orders[k] = "desc"}
  BY <1>5
<1>7. QED BY <1>1, <1>4, <1>6 DEF orders

LEMMA FilterRead ==
  ASSUME NEW n, HasTables(n), n.component = "tFilterRow", n.logical \in {"&&", "||"},
         NEW s, OfNode(s, n), NEW f, IsEmitted(f, s), ~n.advanced, Saved(n, "CONDITIONS") # << >>
  PROVE  /\ Column(f.config.conditions, "left") = Cells(n, "CONDITIONS", "INPUT_COLUMN")
         /\ Column(f.config.conditions, "value") = Cells(n, "CONDITIONS", "RVALUE")
         /\ f.config.all <=> n.logical = "&&"
<1> DEFINE rows == Rows(Saved(n, "CONDITIONS"))
           conditions == [k \in DOMAIN rows |->
              [left |-> rows[k]["INPUT_COLUMN"], value |-> rows[k]["RVALUE"],
               is |-> IF rows[k]["RVALUE"] \in {"null", "None", ""}
                      THEN IF rows[k]["OPERATOR"] = "==" THEN "IS NULL" ELSE "IS NOT NULL"
                      ELSE Comparison(rows[k]["OPERATOR"])]]
<1>1. /\ rows = << >> <=> Saved(n, "CONDITIONS") = << >>
      /\ Column(rows, "INPUT_COLUMN") = Cells(n, "CONDITIONS", "INPUT_COLUMN")
      /\ Column(rows, "RVALUE") = Cells(n, "CONDITIONS", "RVALUE")
  BY CellsOf, TableNames, ColumnsOf
<1>2. TableRows(s, "CONDITIONS") = rows /\ s.pdi = "FilterRows"
  BY RulesOfNodes, TableNames DEF OfNode
<1>3. s.attr.logical = n.logical /\ s.attr.advanced = n.advanced
  BY DEF OfNode
<1> HIDE DEF rows
<1>4. f.config = FilterConfig(s)
  BY <1>2 DEF IsEmitted
<1>5. ~s.attr.advanced
  BY <1>3
<1>6. FilterConfig(s) = [all |-> s.attr.logical # "||", conditions |-> conditions]
  BY <1>1, <1>2, <1>5 DEF FilterConfig
<1>7. DOMAIN conditions = DOMAIN rows
      /\ \A k \in DOMAIN rows : conditions[k]["left"] = rows[k]["INPUT_COLUMN"] /\ conditions[k]["value"] = rows[k]["RVALUE"]
  OBVIOUS
<1> HIDE DEF conditions
<1>8. f.config.conditions = conditions /\ f.config.all = (s.attr.logical # "||")
  BY <1>4, <1>6
<1>9. Column(conditions, "left") = Column(rows, "INPUT_COLUMN") /\ Column(conditions, "value") = Column(rows, "RVALUE")
  BY <1>7 DEF Column
<1>10. f.config.all <=> n.logical = "&&"
  BY <1>3, <1>8
<1>11. QED BY <1>1, <1>8, <1>9, <1>10

-----------------------------------------------------------------------------
(* The pipeline of a Talend job fits every node whose name is its own.     *)
TablesInv ==
  stage # "parse" /\ FromTalend =>
    \A n \in ToSet(export.item.nodes) : IsNodeOf(n, export.item) => Fit(pipelines[1], n)

LEMMA TablesParsed ==
  ASSUME IInv, Parse
  PROVE  TablesInv'
<1>1. IsExport(export)
  BY ExportsAssumption DEF IInv, StageInv
<1>2. export' = export /\ FromTalend' = FromTalend /\ Parsed' = Parsed
  BY ExportStays DEF Parse
<1>3. SUFFICES ASSUME FromTalend, NEW n, IsNodeOf(n, export.item) PROVE Fit(pipelines'[1], n)
  BY <1>2 DEF TablesInv
<1> DEFINE p == ParseItem(export.item)
<1>4. Parsed = <<p>>
  BY <1>3 DEF Parsed
<1>5. pipelines'[1] = Apply(p)
  <2> HIDE DEF p
  <2>1. DOMAIN Parsed = {1} /\ Parsed[1] = p
    BY <1>4
  <2>2. pipelines' = [k \in DOMAIN Parsed |-> Apply(Parsed[k])]
    BY DEF Parse
  <2>3. QED BY <2>1, <2>2
<1>6. /\ IsList(export.item.nodes) /\ IsList(export.item.connections)
      /\ \A m \in ToSet(export.item.nodes) : IsList(m.entries)
  BY <1>1 DEF IsExport
<1>7. Fit(Apply(p), n)
  BY <1>3, <1>6, ItemFits
<1>8. QED BY <1>5, <1>7

LEMMA TablesTranslated ==
  ASSUME IInv, TablesInv, Translate
  PROVE  TablesInv'
<1>1. export' = export /\ FromTalend' = FromTalend
  BY ExportStays DEF Translate
<1>2. SUFFICES ASSUME FromTalend, NEW n \in ToSet(export.item.nodes), IsNodeOf(n, export.item) PROVE Fit(pipelines'[1], n)
  BY <1>1 DEF TablesInv
<1>3. stage # "parse" /\ at \in Nat /\ at < Len(pipelines)
  BY DEF Translate, IInv, StageInv
<1>4. IsList(pipelines) /\ \A k \in 1..Len(pipelines) : IsPipeline(pipelines[k])
  BY <1>3 DEF IInv, PipelinesInv
<1>5. Fit(pipelines[1], n)
  BY <1>2, <1>3 DEF TablesInv
<1>6. PICK answered : pipelines' = [pipelines EXCEPT ![at + 1] = TranslatePipeline(pipelines[at + 1], answered)]
  BY DEF Translate
<1>7. Len(pipelines) \in Nat /\ DOMAIN pipelines = 1..Len(pipelines)
  BY <1>4, ListParts
<1>8. CASE at = 0
  <2>1. pipelines'[1] = TranslatePipeline(pipelines[1], answered)
    BY <1>3, <1>6, <1>7, <1>8
  <2>2. IsPipeline(pipelines[1])
    BY <1>3, <1>4, <1>7, <1>8
  <2>3. QED BY <1>5, <2>1, <2>2, TranslatedFits
<1>9. CASE at # 0
  <2>1. pipelines'[1] = pipelines[1]
    BY <1>3, <1>6, <1>7, <1>9
  <2>2. QED BY <1>5, <2>1
<1>10. QED BY <1>8, <1>9

LEMMA TablesStay ==
  ASSUME TablesInv, stage # "parse", UNCHANGED <<export, pipelines>>
  PROVE  TablesInv'
<1>1. FromTalend' = FromTalend
  BY ExportStays
<1>2. QED BY <1>1 DEF TablesInv

LEMMA TablesHold == TablesInv /\ IInv /\ [Next]_vars => TablesInv'
<1> SUFFICES ASSUME TablesInv, IInv, [Next]_vars PROVE TablesInv'
  OBVIOUS
<1>1. CASE Parse
  BY <1>1, TablesParsed
<1>2. CASE Translate
  BY <1>2, TablesTranslated
<1>3. CASE Unavailable \/ Malformed
  BY <1>3, TablesStay DEF Unavailable, Malformed
<1>4. CASE EndTranslate
  BY <1>4, TablesStay DEF EndTranslate
<1>5. CASE Assess
  BY <1>5, TablesStay DEF Assess
<1>6. CASE WriteKtr
  BY <1>6, TablesStay DEF WriteKtr
<1>7. CASE BeginJobs
  BY <1>7, TablesStay DEF BeginJobs
<1>8. CASE WriteKjb
  BY <1>8, TablesStay DEF WriteKjb
<1>9. CASE Finish
  BY <1>9, TablesStay DEF Finish
<1>10. CASE UNCHANGED vars
  <2>1. stage' = stage /\ export' = export /\ pipelines' = pipelines
    BY <1>10 DEF vars
  <2>2. FromTalend' = FromTalend
    BY <2>1, ExportStays
  <2>3. QED BY <2>1, <2>2 DEF TablesInv
<1>11. QED BY <1>1, <1>2, <1>3, <1>4, <1>5, <1>6, <1>7, <1>8, <1>9, <1>10 DEF Next

LEMMA NodeFile ==
  ASSUME IInv, TablesInv, NEW component, NEW n \in ConvertedNodes(component)
  PROVE  /\ n.component = component /\ HasTables(n) /\ n.logical \in {"&&", "||"}
         /\ \E p : IsPipeline(p) /\ Fit(p, n) /\ ktrs[export.item.name] = Ktr(p)
<1>1. IsExport(export)
  BY ExportsAssumption DEF IInv, StageInv
<1>2. /\ n \in ToSet(export.item.nodes) /\ n.component = component
      /\ export.item.name \in DOMAIN ktrs
      /\ IsNodeOf(n, export.item) /\ HasTables(n)
  BY DEF ConvertedNodes, IsNodeOf, HasTables
<1>3. n.logical \in {"&&", "||"}
  BY <1>1, <1>2 DEF IsExport
<1>4. FromTalend
  BY <1>2 DEF FromTalend, ToSet
<1> DEFINE q == ParseItem(export.item)
<1>5. Parsed = <<q>>
  BY <1>4 DEF Parsed
<1>6. q.name = export.item.name
  BY DEF ParseItem
<1> HIDE DEF q
<1>7. stage # "parse"
  <2>1. \E j \in 1..Len(reports) : TRUE
    BY <1>2 DEF IInv, FilesInv
  <2>2. QED BY <2>1 DEF IInv, FilesInv
<1>8. Len(pipelines) = 1 /\ IsPipeline(pipelines[1])
  <2>1. Len(Parsed) = 1
    BY <1>5
  <2>2. QED BY <1>7, <2>1 DEF IInv, PipelinesInv
<1>9. ktrs[export.item.name] = Ktr(pipelines[1])
  <2>1. \A j \in 1..Len(pipelines) : pipelines[j].name = export.item.name => j = 1
    BY <1>8
  <2>2. QED BY <1>2, <2>1, FileOf
<1>10. Fit(pipelines[1], n)
  BY <1>2, <1>4, <1>7 DEF TablesInv
<1>11. QED BY <1>2, <1>3, <1>8, <1>9, <1>10

LEMMA NodeConfig ==
  ASSUME IInv, TablesInv, NEW component, NEW n \in ConvertedNodes(component)
  PROVE  \E s, f : OfNode(s, n) /\ IsEmitted(f, s) /\ ConfigOf(n) = f.config
<1>1. PICK p : IsPipeline(p) /\ Fit(p, n) /\ ktrs[export.item.name] = Ktr(p)
  BY NodeFile
<1> DEFINE f == StepOfNode(Ktr(p), n)
<1>2. PICK s : OfNode(s, n) /\ IsEmitted(f, s)
  BY <1>1, StepFound
<1>3. ConfigOf(n) = f.config
  BY <1>1 DEF ConfigOf, StepOfNode
<1> HIDE DEF f
<1>4. QED BY <1>2, <1>3

LEMMA TablesKeep == IInv /\ TablesInv => TablesKeepTheirRows
<1> SUFFICES ASSUME IInv, TablesInv PROVE TablesKeepTheirRows
  OBVIOUS
<1>1. ASSUME NEW n \in ConvertedNodes("tAggregateRow"), Saved(n, "OPERATIONS") # << >> \/ Saved(n, "GROUPBYS") # << >>
      PROVE  LET c == ConfigOf(n) IN
         /\ c.group = Cells(n, "GROUPBYS", "INPUT_COLUMN")
         /\ Column(c.aggregates, "field") = Cells(n, "OPERATIONS", "OUTPUT_COLUMN")
         /\ Column(c.aggregates, "of") = Cells(n, "OPERATIONS", "INPUT_COLUMN")
         /\ \A k \in DOMAIN c.aggregates :
              c.aggregates[k].type = "COUNT_ALL" /\ Cells(n, "OPERATIONS", "FUNCTION")[k] # "count"
                => c.aggregates[k].noted
         /\ \A h \in HopsOfKtr(export.item.name) : \A s \in StepsOfKtr(export.item.name) :
              h[2] = Plain(n.name) /\ s.name = h[1] /\ s.name.role = "sorter" /\ c.group # << >>
                => s.config.fields = c.group
  <2>1. n.component = "tAggregateRow" /\ HasTables(n)
    BY NodeFile
  <2>2. PICK s, f : OfNode(s, n) /\ IsEmitted(f, s) /\ ConfigOf(n) = f.config
    BY NodeConfig
  <2>3. /\ f.config.group = Cells(n, "GROUPBYS", "INPUT_COLUMN")
        /\ Column(f.config.aggregates, "field") = Cells(n, "OPERATIONS", "OUTPUT_COLUMN")
        /\ Column(f.config.aggregates, "of") = Cells(n, "OPERATIONS", "INPUT_COLUMN")
        /\ CountsAreNoted(f.config.aggregates, Cells(n, "OPERATIONS", "FUNCTION"))
    BY <1>1, <2>1, <2>2, AggregateRead
  <2>4. ASSUME NEW h \in HopsOfKtr(export.item.name), NEW x \in StepsOfKtr(export.item.name),
               h[2] = Plain(n.name), x.name = h[1], x.name.role = "sorter", f.config.group # << >>
        PROVE  x.config.fields = f.config.group
    <3>1. PICK p : IsPipeline(p) /\ Fit(p, n) /\ ktrs[export.item.name] = Ktr(p)
      BY NodeFile
    <3>2. h \in ToSet(Ktr(p).hops) /\ x \in ToSet(Ktr(p).steps)
      BY <3>1 DEF HopsOfKtr, StepsOfKtr
    <3>3. PICK t : SorterOf(t, n) /\ IsEmitted(x, t)
      BY <2>4, <3>1, <3>2, SorterFound
    <3>4. QED BY <2>1, <2>3, <2>4, <3>3, SortedRead
  <2>5. QED BY <2>2, <2>3, <2>4 DEF CountsAreNoted
<1>2. ASSUME NEW n \in ConvertedNodes("tSortRow"), Saved(n, "CRITERIA") # << >>
      PROVE  LET orders == Cells(n, "CRITERIA", "ORDER") IN
             /\ ConfigOf(n).fields = Cells(n, "CRITERIA", "COLNAME")
             /\ ConfigOf(n).descending = {k \in DOMAIN orders : orders[k] = "desc"}
  <2>1. n.component = "tSortRow" /\ HasTables(n)
    BY NodeFile
  <2>2. PICK s, f : OfNode(s, n) /\ IsEmitted(f, s) /\ ConfigOf(n) = f.config
    BY NodeConfig
  <2>3. QED BY <1>2, <2>1, <2>2, SortRead
<1>3. ASSUME NEW n \in ConvertedNodes("tFilterRow"), ~n.advanced, Saved(n, "CONDITIONS") # << >>
      PROVE  /\ Column(ConfigOf(n).conditions, "left") = Cells(n, "CONDITIONS", "INPUT_COLUMN")
             /\ Column(ConfigOf(n).conditions, "value") = Cells(n, "CONDITIONS", "RVALUE")
             /\ ConfigOf(n).all <=> n.logical = "&&"
  <2>1. n.component = "tFilterRow" /\ HasTables(n) /\ n.logical \in {"&&", "||"}
    BY NodeFile
  <2>2. PICK s, f : OfNode(s, n) /\ IsEmitted(f, s) /\ ConfigOf(n) = f.config
    BY NodeConfig
  <2>3. QED BY <1>3, <2>1, <2>2, FilterRead
<1>4. QED BY <1>1, <1>2, <1>3 DEF TablesKeepTheirRows

(* What a Talend component was set up with reaches its step in the file,   *)
(* row by row, and the sorter put before it (TablesKeepTheirRows).         *)
THEOREM TablesKept == Spec => []TablesKeepTheirRows
<1>1. Init => TablesInv
  BY DEF Init, TablesInv
<1>2. IInv /\ TablesInv /\ [Next]_vars => TablesInv'
  BY TablesHold
<1>3. IInv /\ TablesInv => TablesKeepTheirRows
  BY TablesKeep
<1>4. QED BY <1>1, <1>2, <1>3, ConversionInvariant, PTL DEF Spec

=============================================================================
