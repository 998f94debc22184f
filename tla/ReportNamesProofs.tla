--------------------------- MODULE ReportNamesProofs ---------------------------
(***************************************************************************)
(* Theorems about ReportNames, for every dump.                             *)
(***************************************************************************)
EXTENDS ReportNames, FiniteSetTheorems, WellFoundedInduction, TLAPS

-----------------------------------------------------------------------------
(* Least and greatest elements, lists and the elements of a set in order.  *)

(* A set of naturals that is not empty has a least element.               *)
LEMMA Least ==
  ASSUME NEW S \in SUBSET Nat, S # {}
  PROVE  \E n \in S : \A m \in S : n <= m
<1>1. PICK n \in S : \A m \in S : ~ (<<m, n>> \in OpToRel(<, Nat))
  BY NatLessThanWellFounded, WFMin
<1>2. \A m \in S : ~ (m < n)
  BY <1>1 DEF OpToRel
<1>3. \A m \in S : n <= m
  BY <1>2
<1>4. QED BY <1>3

LEMMA MinIs ==
  ASSUME NEW S \in SUBSET Nat, S # {}
  PROVE  Min(S) \in S /\ \A y \in S : Min(S) <= y
<1>1. PICK n \in S : \A m \in S : n <= m
  BY Least
<1>2. QED BY <1>1 DEF Min

(* A set of numbers up to n that is not empty has its Max.                 *)
LEMMA MaxIs ==
  ASSUME NEW n \in Nat, NEW S \in SUBSET (1..n), S # {}
  PROVE  Max(S) \in S /\ \A y \in S : Max(S) >= y
<1> DEFINE T == {m \in Nat : \A y \in S : y <= m}
<1>1. T \in SUBSET Nat /\ n \in T
  OBVIOUS
<1>2. T # {}
  BY <1>1
<1> HIDE DEF T
<1>3. PICK m \in T : \A k \in T : m <= k
  BY <1>1, <1>2, Least
<1>4. m \in Nat /\ \A y \in S : y <= m
  BY <1>1 DEF T
<1>5. m \in S
  <2> SUFFICES ASSUME m \notin S PROVE FALSE
    OBVIOUS
  <2>1. PICK y \in S : TRUE
    OBVIOUS
  <2>2. y \in Nat /\ y >= 1 /\ y <= m
    BY <1>4
  <2>3. m - 1 \in Nat
    BY <2>2, <1>4
  <2>4. \A z \in S : z <= m - 1
    BY <1>4
  <2>5. m - 1 \in T
    BY <2>3, <2>4 DEF T
  <2>6. m <= m - 1
    BY <1>3, <2>5
  <2>7. QED BY <2>6, <1>4
<1>6. QED BY <1>4, <1>5 DEF Max

(* What is in a list, and what appending does to it.                       *)
LEMMA Lists ==
  ASSUME NEW s, IsList(s)
  PROVE  /\ Len(s) \in Nat /\ DOMAIN s = 1..Len(s)
         /\ \A i \in 1..Len(s) : s[i] \in Range(s)
         /\ \A x \in Range(s) : \E i \in 1..Len(s) : x = s[i]
BY DEF IsList, Range

LEMMA Appended ==
  ASSUME NEW s, IsList(s), NEW x
  PROVE  /\ IsList(Append(s, x)) /\ Len(Append(s, x)) = Len(s) + 1
         /\ \A i \in 1..Len(s) : Append(s, x)[i] = s[i]
         /\ Append(s, x)[Len(s) + 1] = x
<1> DEFINE B == Range(s) \union {x}
<1>1. s \in Seq(B) /\ x \in B
  BY DEF IsList
<1>2. /\ Append(s, x) \in Seq(B) /\ Len(Append(s, x)) = Len(s) + 1
      /\ \A i \in 1..Len(s) : Append(s, x)[i] = s[i]
      /\ Append(s, x)[Len(s) + 1] = x
  BY <1>1
<1>3. DOMAIN Append(s, x) = 1..Len(Append(s, x))
  BY <1>2
<1>4. Append(s, x) \in Seq(Range(Append(s, x)))
  BY <1>2, <1>3 DEF Range
<1>5. QED
  BY <1>2, <1>4 DEF IsList

(* A function over 1..n is a list.                                         *)
LEMMA Listed ==
  ASSUME NEW n \in Nat, NEW f, f = [i \in 1..n |-> f[i]]
  PROVE  IsList(f) /\ Len(f) = n
<1>1. f \in [1..n -> Range(f)]
  BY DEF Range
<1>2. QED
  BY <1>1 DEF IsList

LEMMA Joining ==
  ASSUME NEW s, IsList(s), NEW t, IsList(t)
  PROVE  /\ IsList(s \o t) /\ Len(s \o t) = Len(s) + Len(t)
         /\ \A i \in 1..Len(s) : (s \o t)[i] = s[i]
         /\ \A i \in 1..Len(t) : (s \o t)[Len(s) + i] = t[i]
<1> DEFINE B == Range(s) \union Range(t)
<1>1. s \in Seq(B) /\ t \in Seq(B)
  BY DEF IsList
<1>2. s \o t \in Seq(B) /\ Len(s \o t) = Len(s) + Len(t)
  BY <1>1
<1>3. \A i \in 1..Len(s) : (s \o t)[i] = s[i]
  BY <1>1
<1>4. \A i \in 1..Len(t) : (s \o t)[Len(s) + i] = t[i]
  BY <1>1
<1>5. s \o t \in Seq(Range(s \o t))
  <2>1. DOMAIN (s \o t) = 1..Len(s \o t)
    BY <1>2
  <2> DEFINE u == s \o t
  <2> HIDE DEF u
  <2>2. u \in Seq(B) /\ DOMAIN u = 1..Len(u)
    BY <1>2, <2>1 DEF u
  <2>3. u \in Seq(Range(u))
    BY <2>2 DEF Range
  <2>4. QED BY <2>3 DEF u
<1>6. QED
  BY <1>2, <1>3, <1>4, <1>5 DEF IsList

(* The elements of a set of numbers, counted in their order: the k-th is   *)
(* one of them, and each of them is the k-th for some k.                   *)
LEMMA NthIs ==
  ASSUME NEW n \in Nat, NEW S \in SUBSET (1..n)
  PROVE  /\ Cardinality(S) \in Nat
         /\ \A k \in 1..Cardinality(S) : Nth(S, k) \in S
         /\ \A i \in S : \E k \in 1..Cardinality(S) : Nth(S, k) = i
<1> DEFINE Below(m) == {j \in S : j <= m}
<1>0. \A x \in S : x \in Nat
  OBVIOUS
<1>1. IsFiniteSet(S) /\ Cardinality(S) \in Nat
  <2>1. IsFiniteSet(1..n)
    BY FS_Interval
  <2>2. IsFiniteSet(S)
    BY <2>1, FS_Subset
  <2>3. QED BY <2>2, FS_CardinalityType
<1>2. \A m \in Nat : IsFiniteSet(Below(m)) /\ Cardinality(Below(m)) \in Nat /\ Cardinality(Below(m)) <= Cardinality(S)
  <2> SUFFICES ASSUME NEW m \in Nat
               PROVE  IsFiniteSet(Below(m)) /\ Cardinality(Below(m)) \in Nat /\ Cardinality(Below(m)) <= Cardinality(S)
    OBVIOUS
  <2>1. Below(m) \in SUBSET S
    OBVIOUS
  <2> HIDE DEF Below
  <2>2. IsFiniteSet(Below(m)) /\ Cardinality(Below(m)) <= Cardinality(S)
    BY <1>1, <2>1, FS_Subset
  <2>3. QED BY <2>2, FS_CardinalityType
<1>3. ASSUME NEW k \in 1..Cardinality(S)
      PROVE  \E i \in S : Cardinality(Below(i)) = k
  <2> DEFINE T == {m \in Nat : Cardinality(Below(m)) >= k}
  <2>1. Below(n) = S
    <3>1. \A x \in S : x <= n
      OBVIOUS
    <3>2. QED BY <3>1
  <2>2. n \in T
    BY <2>1, <1>1
  <2>3. PICK m \in T : \A x \in T : m <= x
    <3>1. T \in SUBSET Nat /\ T # {}
      BY <2>2
    <3> HIDE DEF T
    <3>2. QED BY <3>1, Least
  <2>4. m \in Nat /\ Cardinality(Below(m)) >= k /\ k \in Nat /\ k >= 1
    BY <1>1
  <2>5. Cardinality(Below(0)) = 0
    <3>1. Below(0) = {}
      <4>1. \A x \in S : ~(x <= 0)
        OBVIOUS
      <4>2. QED BY <4>1
    <3> HIDE DEF Below
    <3>2. QED BY <3>1, FS_EmptySet
  <2>6. m # 0
    BY <2>4, <2>5
  <2>7. m - 1 \in Nat
    BY <2>4, <2>6
  <2>8. Cardinality(Below(m - 1)) < k
    <3>1. m - 1 \notin T
      <4> HIDE DEF T, Below
      <4>1. ASSUME m - 1 \in T PROVE m <= m - 1
        BY <4>1, <2>3
      <4>2. ~(m <= m - 1)
        BY <2>4
      <4>3. QED BY <4>1, <4>2
    <3>2. ~(Cardinality(Below(m - 1)) >= k)
      BY <3>1, <2>7
    <3> HIDE DEF Below, T
    <3>3. QED BY <3>2, <2>4, <2>7, <1>2
  <2>9. m \in S
    <3> SUFFICES ASSUME m \notin S PROVE FALSE
      OBVIOUS
    <3>1. \A x \in S : x <= m <=> x <= m - 1
      BY <2>4
    <3>2. Below(m) = Below(m - 1)
      BY <3>1
    <3> HIDE DEF Below, T
    <3>3. QED BY <3>2, <2>4, <2>8, <1>2
  <2>10. Below(m) = Below(m - 1) \union {m} /\ m \notin Below(m - 1)
    <3>1. \A x \in S : x <= m <=> (x <= m - 1 \/ x = m)
      BY <2>4
    <3>2. ~(m <= m - 1)
      BY <2>4
    <3>3. QED BY <3>1, <3>2, <2>9
  <2> HIDE DEF Below, T
  <2>11. Cardinality(Below(m)) = Cardinality(Below(m - 1)) + 1
    BY <2>10, <2>7, <1>2, FS_AddElement
  <2>12. Cardinality(Below(m)) = k
    BY <2>4, <2>7, <2>8, <2>11, <1>2
  <2>13. QED BY <2>9, <2>12
<1>4. \A k \in 1..Cardinality(S) : Nth(S, k) \in S /\ Cardinality(Below(Nth(S, k))) = k
  BY <1>3 DEF Nth
<1>5. ASSUME NEW i \in S, NEW j \in S, i < j
      PROVE  Cardinality(Below(i)) < Cardinality(Below(j))
  <2>1. i \in Nat /\ j \in Nat
    OBVIOUS
  <2>2. \A x \in S : x <= i => x <= j
    BY <1>5, <2>1
  <2>3. ~(j <= i) /\ j <= j
    BY <1>5, <2>1
  <2>4. Below(i) \in SUBSET Below(j) /\ j \in Below(j) /\ j \notin Below(i)
    BY <2>2, <2>3
  <2> HIDE DEF Below
  <2>5. Below(i) # Below(j)
    BY <2>4
  <2>6. Cardinality(Below(i)) <= Cardinality(Below(j)) /\ Cardinality(Below(i)) # Cardinality(Below(j))
    BY <2>1, <2>4, <2>5, <1>2, FS_Subset
  <2>7. QED BY <2>1, <2>6, <1>2
<1>6. ASSUME NEW i \in S
      PROVE  \E k \in 1..Cardinality(S) : Nth(S, k) = i
  <2> DEFINE k == Cardinality(Below(i))
  <2>1. i \in Nat
    OBVIOUS
  <2>2. i \in Below(i)
    BY <2>1
  <2> HIDE DEF Below
  <2>3. k \in Nat /\ k <= Cardinality(S) /\ k # 0
    BY <2>1, <2>2, <1>2, FS_EmptySet
  <2>4. k \in 1..Cardinality(S)
    BY <2>3, <1>1
  <2>5. Nth(S, k) \in S /\ Cardinality(Below(Nth(S, k))) = k
    BY <2>4, <1>4
  <2>6. Nth(S, k) \in Nat
    BY <2>5, <1>0
  <2>7. ~(Nth(S, k) < i)
    <3>1. ASSUME Nth(S, k) < i PROVE FALSE
      <4>1. Cardinality(Below(Nth(S, k))) < Cardinality(Below(i))
        BY <3>1, <2>5, <1>5
      <4>2. QED BY <4>1, <2>5, <2>3
    <3>2. QED BY <3>1
  <2>8. ~(i < Nth(S, k))
    <3>1. ASSUME i < Nth(S, k) PROVE FALSE
      <4>1. Cardinality(Below(i)) < Cardinality(Below(Nth(S, k)))
        BY <3>1, <2>5, <1>5
      <4>2. QED BY <4>1, <2>5, <2>3
    <3>2. QED BY <3>1
  <2>9. Nth(S, k) = i
    BY <2>1, <2>6, <2>7, <2>8
  <2>10. QED BY <2>4, <2>9
<1>7. QED
  BY <1>1, <1>4, <1>6

-----------------------------------------------------------------------------
(* Where the walk is: the types of the variables, and the part of the      *)
(* object it is at, which the object has.                                  *)
Kept(f, S) == f = [x \in S |-> f[x]]

Types ==
  /\ reports \in NameDumps /\ at \in Both
  /\ stage \in {"define", "walk", "style", "parsed", "attach", "write", "written"}
  /\ stage \in {"attach", "write", "written"} => at = "master"
  /\ next \in Nat \ {0} /\ part \in Nat \ {0}
  /\ Kept(summaries, Both) /\ Kept(windows, Both) /\ Kept(parameters, Both) /\ Kept(uses, Both)
  /\ Kept(bound, Both) /\ Kept(noted, Both) /\ Kept(asks, Both) /\ Kept(defines, Both)
  /\ \A r \in Both : Kept(parameters[r], DOMAIN reports[r].parameters) /\ Kept(uses[r], DOMAIN reports[r].objects)
  /\ Kept(links, DOMAIN reports["master"].objects)

WalkParts(o) == IF o.is = "text" /\ o.refs # <<>> THEN Len(o.refs) ELSE 1
StyleParts(o) == IF o.styledBy # <<>> THEN Len(o.styledBy) ELSE 1

PartIsThere ==
  \/ part = 1
  \/ stage = "walk" /\ next \in DOMAIN Here.objects /\ part <= WalkParts(Here.objects[next])
  \/ stage = "style" /\ next \in DOMAIN Here.objects /\ part <= StyleParts(Here.objects[next])

(* The dump's parts are lists.                                             *)
LEMMA DumpIs ==
  ASSUME Types, NEW r \in Both
  PROVE  IsReport(reports[r])
BY NameDumpsAssumption DEF Types, Both

LEMMA DumpLists ==
  ASSUME Types, NEW r \in Both
  PROVE  /\ IsList(reports[r].summaries) /\ IsList(reports[r].totals) /\ IsList(reports[r].parameters)
         /\ IsList(reports[r].groups) /\ IsList(reports[r].objects)
         /\ \A i \in DOMAIN reports[r].objects : IsObject(reports[r], reports[r].objects[i])
<1>1. IsReport(reports[r])
  BY DumpIs
<1>2. IsList(reports[r].objects) /\ \A o \in Range(reports[r].objects) : IsObject(reports[r], o)
  BY <1>1 DEF IsReport
<1>3. \A i \in DOMAIN reports[r].objects : reports[r].objects[i] \in Range(reports[r].objects)
  BY DEF Range
<1>4. QED BY <1>1, <1>2, <1>3 DEF IsReport

LEMMA TypesBegin == NameInit => Types /\ PartIsThere
BY DEF NameInit, Types, PartIsThere, Kept, Both

(* A step of a loop moves on to the next part of the object, or object.    *)
LEMMA OnwardTypes ==
  ASSUME Types, NEW n \in Nat, Onward(n)
  PROVE  /\ reports' = reports /\ at' = at /\ stage' = stage /\ defines' = defines
         /\ next' \in Nat \ {0} /\ part' \in Nat \ {0}
         /\ next' \in {next, next + 1} /\ (next' = next => part' = part + 1 /\ part' <= n)
         /\ (next' # next => part' = 1)
BY DEF Types, Onward

LEMMA RecordsTypes ==
  ASSUME Types, NEW result, NEW calls, Records(result, calls), next \in DOMAIN Here.objects
  PROVE  /\ Kept(summaries', Both) /\ Kept(windows', Both) /\ Kept(uses', Both)
         /\ Kept(bound', Both) /\ Kept(noted', Both)
         /\ \A r \in Both : Kept(uses'[r], DOMAIN reports[r].objects)
         /\ parameters' = parameters /\ links' = links /\ asks' = asks
         /\ summaries'[at] = result.known /\ windows'[at] = result.windows
         /\ noted[at] \subseteq noted'[at]
         /\ \A r \in Both \ {at} : /\ summaries'[r] = summaries[r] /\ windows'[r] = windows[r]
                                 /\ uses'[r] = uses[r] /\ bound'[r] = bound[r] /\ noted'[r] = noted[r]
         /\ uses'[at][next] = uses[at][next] \union result.uses
         /\ \A i \in DOMAIN Here.objects : i # next => uses'[at][i] = uses[at][i]
         /\ (result.noted => next \in noted'[at])
         /\ \A b \in bound'[at] : b \in bound[at] \/ \E c \in calls, n \in result.uses : b = [call |-> c, name |-> n]
<1>1. at \in Both
  BY DEF Types
<1>2. Kept(summaries', Both) /\ summaries'[at] = result.known /\ \A r \in Both \ {at} : summaries'[r] = summaries[r]
  BY <1>1 DEF Types, Records, Kept
<1>3. Kept(windows', Both) /\ windows'[at] = result.windows /\ \A r \in Both \ {at} : windows'[r] = windows[r]
  BY <1>1 DEF Types, Records, Kept
<1>4. /\ Kept(bound', Both) /\ \A r \in Both \ {at} : bound'[r] = bound[r]
      /\ bound'[at] = bound[at] \union {[call |-> c, name |-> n] : c \in calls, n \in result.uses}
  <2> DEFINE Z == {[call |-> c, name |-> n] : c \in calls, n \in result.uses}
  <2>1. bound' = [bound EXCEPT ![at] = @ \union Z]
    BY DEF Records
  <2> HIDE DEF Z
  <2>2. /\ Kept(bound', Both) /\ \A r \in Both \ {at} : bound'[r] = bound[r]
        /\ bound'[at] = bound[at] \union Z
    BY <1>1, <2>1 DEF Types, Kept
  <2>3. QED BY <2>2 DEF Z
<1>5. /\ Kept(noted', Both) /\ \A r \in Both \ {at} : noted'[r] = noted[r]
      /\ noted[at] \subseteq noted'[at] /\ (result.noted => next \in noted'[at])
  BY <1>1 DEF Types, Records, Kept
<1>6. /\ Kept(uses', Both) /\ \A r \in Both \ {at} : uses'[r] = uses[r]
      /\ uses'[at] = [uses[at] EXCEPT ![next] = @ \union result.uses]
  BY <1>1 DEF Types, Records, Kept
<1>7. Kept(uses[at], DOMAIN Here.objects)
  BY <1>1 DEF Types, Here
<1>8. /\ Kept(uses'[at], DOMAIN Here.objects)
      /\ uses'[at][next] = uses[at][next] \union result.uses
      /\ \A i \in DOMAIN Here.objects : i # next => uses'[at][i] = uses[at][i]
  BY <1>6, <1>7 DEF Kept
<1>9. \A r \in Both : Kept(uses'[r], DOMAIN reports[r].objects)
  BY <1>6, <1>8 DEF Types, Here
<1>10. parameters' = parameters /\ links' = links /\ asks' = asks
  BY DEF Records
<1>11. /\ noted[at] \subseteq noted'[at] /\ (result.noted => next \in noted'[at])
       /\ uses'[at][next] = uses[at][next] \union result.uses
       /\ \A b \in bound'[at] : b \in bound[at] \/ \E c \in calls, n \in result.uses : b = [call |-> c, name |-> n]
  BY <1>4, <1>5, <1>8
<1>12. \A r \in Both \ {at} : /\ summaries'[r] = summaries[r] /\ windows'[r] = windows[r]
                           /\ uses'[r] = uses[r] /\ bound'[r] = bound[r] /\ noted'[r] = noted[r]
  BY <1>2, <1>3, <1>4, <1>5, <1>6
<1>13. QED BY <1>2, <1>3, <1>4, <1>5, <1>6, <1>8, <1>9, <1>10, <1>11, <1>12

(* The part a text or a condition is at is one of its references or calls. *)
LEMMA PartIs ==
  ASSUME Types, PartIsThere, next \in DOMAIN Here.objects
  PROVE  LET o == Here.objects[next]
         IN  /\ IsObject(Here, o) /\ o \in Range(Here.objects)
             /\ stage = "walk" /\ o.is = "text" /\ o.refs # <<>> => part \in 1..Len(o.refs) /\ o.refs[part] \in Range(o.refs)
             /\ stage = "style" /\ o.styledBy # <<>> => part \in 1..Len(o.styledBy) /\ o.styledBy[part] \in Range(o.styledBy)
<1> DEFINE o == Here.objects[next]
<1>1. IsObject(Here, o) /\ o \in Range(Here.objects)
  BY DumpLists DEF Types, Here, Range
<1>2. IsList(o.refs) /\ IsList(o.styledBy)
  BY <1>1 DEF IsObject
<1>3. ASSUME stage = "walk", o.is = "text", o.refs # <<>>
      PROVE  part \in 1..Len(o.refs) /\ o.refs[part] \in Range(o.refs)
  <2>1. Len(o.refs) \in Nat /\ Len(o.refs) >= 1
    BY <1>2, <1>3 DEF IsList
  <2>2. part \in Nat /\ part >= 1
    BY DEF Types
  <2>3. part <= Len(o.refs)
    BY <1>3, <2>1, <2>2 DEF PartIsThere, WalkParts
  <2>4. part \in 1..Len(o.refs)
    BY <2>1, <2>2, <2>3
  <2>5. QED BY <1>2, <2>4, Lists
<1>4. ASSUME stage = "style", o.styledBy # <<>>
      PROVE  part \in 1..Len(o.styledBy) /\ o.styledBy[part] \in Range(o.styledBy)
  <2>1. Len(o.styledBy) \in Nat /\ Len(o.styledBy) >= 1
    BY <1>2, <1>4 DEF IsList
  <2>2. part \in Nat /\ part >= 1
    BY DEF Types
  <2>3. part <= Len(o.styledBy)
    BY <1>4, <2>1, <2>2 DEF PartIsThere, StyleParts
  <2>4. part \in 1..Len(o.styledBy)
    BY <2>1, <2>2, <2>3
  <2>5. QED BY <1>2, <2>4, Lists
<1>5. QED BY <1>1, <1>3, <1>4

(* What a step of either loop does, whichever the object.                  *)
LEMMA Walking ==
  ASSUME Types, PartIsThere, Resolve \/ Bind
  PROVE  /\ next \in DOMAIN Here.objects /\ stage \in {"walk", "style"}
         /\ \E result, calls : Records(result, calls)
         /\ \E n \in Nat : /\ Onward(n)
                           /\ stage = "walk" => n = WalkParts(Here.objects[next])
                           /\ stage = "style" => n = StyleParts(Here.objects[next])
<1> DEFINE o == Here.objects[next]
<1>1. next \in DOMAIN Here.objects /\ stage \in {"walk", "style"}
  BY DEF Resolve, Bind, Looping
<1>2. IsList(o.refs) /\ IsList(o.styledBy)
  BY <1>1, PartIs DEF IsObject
<1>3. Len(o.refs) \in Nat /\ Len(o.styledBy) \in Nat /\ 1 \in Nat
  BY <1>2, Lists
<1>4. CASE Resolve
  <2>1. stage = "walk"
    BY <1>4 DEF Resolve, Looping
  <2>2. ResolveField(o) \/ ResolveCrosstab(o) \/ ResolveMarker(o) \/ PassOver(o)
    BY <1>4 DEF Resolve
  <2>3. \E result, calls : Records(result, calls)
    BY <2>2 DEF ResolveField, ResolveCrosstab, ResolveMarker, PassOver
  <2>4. Onward(WalkParts(o)) /\ WalkParts(o) \in Nat
    BY <2>2, <1>3 DEF ResolveField, ResolveCrosstab, ResolveMarker, PassOver, WalkParts
  <2>5. QED BY <1>1, <2>1, <2>3, <2>4
<1>5. CASE Bind
  <2>1. stage = "style"
    BY <1>5 DEF Bind, Looping
  <2>2. BindCall(o) \/ PassPlain(o)
    BY <1>5 DEF Bind
  <2>3. \E result, calls : Records(result, calls)
    BY <2>2 DEF BindCall, PassPlain
  <2>4. Onward(StyleParts(o)) /\ StyleParts(o) \in Nat
    BY <2>2, <1>3 DEF BindCall, PassPlain, StyleParts
  <2>5. QED BY <1>1, <2>1, <2>3, <2>4
<1>6. QED BY <1>4, <1>5

LEMMA WalkKeepsTypes ==
  ASSUME Types, PartIsThere, Resolve \/ Bind
  PROVE  Types' /\ PartIsThere'
<1>1. next \in DOMAIN Here.objects /\ stage \in {"walk", "style"}
  BY Walking
<1>2. PICK result, calls : Records(result, calls)
  BY Walking
<1>3. PICK n \in Nat : /\ Onward(n)
                       /\ stage = "walk" => n = WalkParts(Here.objects[next])
                       /\ stage = "style" => n = StyleParts(Here.objects[next])
  BY Walking
<1>4. /\ reports' = reports /\ at' = at /\ stage' = stage /\ defines' = defines
      /\ next' \in Nat \ {0} /\ part' \in Nat \ {0}
      /\ next' \in {next, next + 1} /\ (next' = next => part' = part + 1 /\ part' <= n)
      /\ (next' # next => part' = 1)
  BY <1>3, OnwardTypes
<1>5. /\ Kept(summaries', Both) /\ Kept(windows', Both) /\ Kept(uses', Both)
      /\ Kept(bound', Both) /\ Kept(noted', Both)
      /\ \A r \in Both : Kept(uses'[r], DOMAIN reports[r].objects)
      /\ parameters' = parameters /\ links' = links /\ asks' = asks
  BY <1>1, <1>2, RecordsTypes
<1>6. Types'
  BY <1>4, <1>5 DEF Types
<1>7. PartIsThere'
  BY <1>1, <1>3, <1>4 DEF PartIsThere, Here
<1>8. QED BY <1>6, <1>7

LEMMA TypesKept ==
  ASSUME Types, PartIsThere, [NameNext]_nameVars
  PROVE  Types' /\ PartIsThere'
<1>0. at \in Both
  BY DEF Types
<1>1. CASE Define
  <2>1. Types'
    BY <1>0, <1>1 DEF Define, Types, Kept
  <2>2. PartIsThere'
    BY <1>1 DEF Define, PartIsThere
  <2>3. QED BY <2>1, <2>2
<1>2. CASE LoopEnds
  <2>1. stage' \in {"style", "parsed", "attach", "write"} /\ (stage' \in {"attach", "write"} => at = "master")
    BY <1>0, <1>2 DEF LoopEnds, Types, Both
  <2>2. UNCHANGED <<reports, at, part, summaries, windows, parameters, uses, bound, noted, links, asks, defines>> /\ next' = 1
    BY <1>2 DEF LoopEnds
  <2>3. Types'
    BY <2>1, <2>2 DEF Types
  <2>4. PartIsThere'
    BY <1>2, <2>2 DEF LoopEnds, PartIsThere
  <2>5. QED BY <2>3, <2>4
<1>3. CASE Resolve \/ Bind
  BY <1>3, WalkKeepsTypes
<1>4. CASE Ascend
  <2>1. Types'
    BY <1>4 DEF Ascend, Types, Both
  <2>2. PartIsThere'
    BY <1>4 DEF Ascend, PartIsThere
  <2>3. QED BY <2>1, <2>2
<1>5. CASE Attach
  <2>1. /\ reports' = reports /\ at' = at /\ stage' = stage /\ defines' = defines
        /\ next' \in Nat \ {0} /\ part' \in Nat \ {0} /\ part' = 1
    <3>1. Onward(1) /\ 1 \in Nat
      BY <1>5 DEF Attach
    <3>2. /\ reports' = reports /\ at' = at /\ stage' = stage /\ defines' = defines
          /\ next' \in Nat \ {0} /\ part' \in Nat \ {0}
      BY <3>1, OnwardTypes
    <3>3. part' = 1
      BY <3>1 DEF Onward, Types
    <3>4. QED BY <3>2, <3>3
  <2>2. UNCHANGED <<summaries, windows, uses, bound>>
    BY <1>5 DEF Attach
  <2>3. /\ Kept(parameters', Both) /\ Kept(links', DOMAIN reports["master"].objects) /\ Kept(asks', Both) /\ Kept(noted', Both)
        /\ \A r \in Both : Kept(parameters'[r], DOMAIN reports[r].parameters)
    BY <1>0, <1>5 DEF Attach, Types, Kept, Both
  <2>4. QED BY <2>1, <2>2, <2>3 DEF Types, PartIsThere
<1>6. CASE Write
  <2>1. Types'
    BY <1>6 DEF Write, Types, Kept
  <2>2. PartIsThere'
    BY <1>6 DEF Write, PartIsThere
  <2>3. QED BY <2>1, <2>2
<1>7. CASE UNCHANGED nameVars
  BY <1>7 DEF nameVars, Types, PartIsThere, Here
<1>8. QED BY <1>1, <1>2, <1>3, <1>4, <1>5, <1>6, <1>7 DEF NameNext

-----------------------------------------------------------------------------
(* Links: before the first placement every parameter of the report has its *)
(* own name, after it those of its links have their alias.                 *)
ChildParameter(k) == reports["child"].parameters[k]
First(i) == i \in Placed /\ \A j \in Placed : i <= j
Reached(i) == stage \in {"write", "written"} \/ (stage = "attach" /\ i < next)
Handed(i) ==
  \A k \in DOMAIN parameters["child"] :
    ChildParameter(k).link \in {"column", "formula"} =>
      /\ parameters["child"][k] = Alias(ChildParameter(k))
      /\ <<ChildParameter(k).to, Alias(ChildParameter(k))>> \in links[i]
OwnNames == \A k \in DOMAIN parameters["child"] : parameters["child"][k] = ChildParameter(k).name

LinkInv ==
  /\ asks["child"] \subseteq Range(parameters["child"])
  /\ \A i \in DOMAIN reports["master"].objects : First(i) => IF Reached(i) THEN Handed(i) ELSE OwnNames

LEMMA LinksBegin == NameInit => LinkInv
<1> SUFFICES ASSUME NameInit PROVE LinkInv
  OBVIOUS
<1>1. Types
  BY TypesBegin
<1>2. IsReport(reports["child"])
  BY <1>1, DumpIs DEF Both
<1>3. parameters["child"] = [i \in DOMAIN reports["child"].parameters |-> reports["child"].parameters[i].name]
      /\ asks["child"] = reports["child"].asks /\ stage = "define"
  BY DEF NameInit, Both
<1>4. asks["child"] \subseteq Range(parameters["child"])
  <2>1. asks["child"] \subseteq {p.name : p \in Range(reports["child"].parameters)}
    BY <1>2, <1>3 DEF IsReport
  <2>2. QED BY <2>1, <1>3 DEF Range
<1>5. OwnNames
  BY <1>3 DEF OwnNames, ChildParameter
<1>6. QED BY <1>3, <1>4, <1>5 DEF LinkInv, Reached

(* Apart from an attachment, a step leaves parameters, links and asks as   *)
(* they are.                                                               *)
LEMMA Unattached ==
  ASSUME Types, PartIsThere, NameNext, ~Attach
  PROVE  UNCHANGED <<reports, parameters, links, asks>>
<1>1. CASE Resolve \/ Bind
  <2>1. PICK result, calls : Records(result, calls)
    BY <1>1, Walking
  <2>2. \E n \in Nat : Onward(n)
    BY <1>1, Walking
  <2>3. QED BY <2>1, <2>2 DEF Records, Onward
<1>2. QED BY <1>1 DEF NameNext, Define, LoopEnds, Ascend, Write

(* A step outside the attachments leaves what is reached as it was, but    *)
(* the end of their loop comes after every placement.                      *)
LEMMA ReachedKept ==
  ASSUME Types, PartIsThere, NameNext, ~Attach, NEW i \in DOMAIN reports["master"].objects
  PROVE  Reached(i)' = Reached(i)
<1>1. i \in Nat /\ i >= 1 /\ i <= Len(reports["master"].objects) /\ Len(reports["master"].objects) \in Nat
      /\ DOMAIN reports["master"].objects = 1..Len(reports["master"].objects)
  <2>1. IsList(reports["master"].objects)
    BY DumpLists DEF Both
  <2>2. QED BY <2>1, Lists
<1>2. next \in Nat /\ next >= 1
  BY DEF Types
<1>3. CASE LoopEnds
  <2>1. CASE stage = "attach"
    <3>1. at = "master"
      BY <2>1 DEF Types
    <3>2. next \notin 1..Len(reports["master"].objects)
      BY <1>1, <1>3, <3>1 DEF LoopEnds, Here
    <3>3. i < next
      BY <1>1, <1>2, <3>2
    <3>4. stage' = "write"
      BY <1>3, <2>1 DEF LoopEnds
    <3>5. QED BY <2>1, <3>3, <3>4 DEF Reached
  <2>2. CASE stage # "attach"
    <3>1. next' = 1 /\ stage' \in {"style", "parsed", "attach"} /\ stage \in {"walk", "style"}
      BY <1>3, <2>2 DEF LoopEnds
    <3>2. ~(i < next')
      BY <1>1, <3>1
    <3>3. QED BY <3>1, <3>2 DEF Reached
  <2>3. QED BY <2>1, <2>2
<1>4. CASE Resolve \/ Bind
  <2>1. stage \in {"walk", "style"} /\ \E n \in Nat : Onward(n)
    BY <1>4, Walking
  <2>2. stage' = stage
    BY <2>1 DEF Onward
  <2>3. QED BY <2>1, <2>2 DEF Reached
<1>5. QED BY <1>3, <1>4 DEF NameNext, Define, Ascend, Write, Reached

(* An attachment renames the links that still have their own name.         *)
LEMMA Attaching ==
  ASSUME Types, Attach
  PROVE  \E now \in SUBSET Pending :
           LET o == Here.objects[next] IN
             /\ now = IF Attachable(o) THEN {i \in Pending : ChildParameter(i).link # "summary"} ELSE {}
             /\ Here = reports["master"] /\ next \in DOMAIN reports["master"].objects
             /\ reports' = reports /\ stage' = "attach" /\ stage = "attach" /\ next' = next + 1
             /\ DOMAIN parameters'["child"] = DOMAIN parameters["child"]
             /\ parameters'["master"] = parameters["master"]
             /\ \A k \in DOMAIN parameters["child"] :
                  parameters'["child"][k] = IF k \in now THEN Alias(ChildParameter(k)) ELSE parameters["child"][k]
             /\ links'[next] = {<<ChildParameter(i).to, Alias(ChildParameter(i))>> : i \in now}
             /\ \A j \in DOMAIN reports["master"].objects : j # next => links'[j] = links[j]
             /\ asks'["child"] = Renamed(asks["child"], now)
             /\ noted["master"] \subseteq noted'["master"] /\ noted'["child"] = noted["child"]
<1> DEFINE o == Here.objects[next]
           now == IF Attachable(o) THEN {i \in Pending : ChildParameter(i).link # "summary"} ELSE {}
           left == o.is = "subreport" /\ (~Attachable(o) \/ \E i \in Pending : ChildParameter(i).link = "summary")
           given == {<<ChildParameter(i).to, Alias(ChildParameter(i))>> : i \in now}
<1>1. /\ now \in SUBSET Pending
      /\ Here = reports["master"] /\ next \in DOMAIN reports["master"].objects
      /\ reports' = reports /\ stage' = "attach" /\ stage = "attach"
  BY DEF Attach, Looping, Here, Onward
<1>2. next' = next + 1
  <2>1. Onward(1) /\ part \in Nat \ {0}
    BY DEF Attach, Types
  <2>2. ~(part < 1)
    BY <2>1
  <2>3. QED BY <2>1, <2>2 DEF Onward
<1>3. /\ parameters' = [parameters EXCEPT !["child"] =
                          [i \in DOMAIN @ |-> IF i \in now THEN Alias(ChildParameter(i)) ELSE @[i]]]
      /\ links' = [links EXCEPT ![next] = given]
      /\ asks' = [asks EXCEPT !["child"] = Renamed(@, now)]
      /\ noted' = [noted EXCEPT !["master"] = IF left THEN @ \union {next} ELSE @]
  BY DEF Attach, ChildParameter
<1>4. /\ now = IF Attachable(o) THEN {i \in Pending : ChildParameter(i).link # "summary"} ELSE {}
  OBVIOUS
<1> HIDE DEF now, left, given
<1>5. Kept(parameters, Both) /\ Kept(asks, Both) /\ Kept(noted, Both) /\ Kept(links, DOMAIN reports["master"].objects)
      /\ Kept(parameters["child"], DOMAIN reports["child"].parameters)
  BY DEF Types, Both
<1>6. /\ DOMAIN parameters'["child"] = DOMAIN parameters["child"] /\ parameters'["master"] = parameters["master"]
      /\ \A k \in DOMAIN parameters["child"] :
           parameters'["child"][k] = IF k \in now THEN Alias(ChildParameter(k)) ELSE parameters["child"][k]
  BY <1>3, <1>5 DEF Kept, Both
<1>7. links'[next] = given /\ \A j \in DOMAIN reports["master"].objects : j # next => links'[j] = links[j]
  BY <1>1, <1>3, <1>5 DEF Kept
<1>8. asks'["child"] = Renamed(asks["child"], now)
  BY <1>3, <1>5 DEF Kept, Both
<1>9. noted["master"] \subseteq noted'["master"] /\ noted'["child"] = noted["child"]
  BY <1>3, <1>5 DEF Kept, Both
<1>10. given = {<<ChildParameter(i).to, Alias(ChildParameter(i))>> : i \in now}
  BY DEF given
<1>11. QED BY <1>1, <1>2, <1>4, <1>6, <1>7, <1>8, <1>9, <1>10

LEMMA LinksKept ==
  ASSUME Types, PartIsThere, LinkInv, [NameNext]_nameVars
  PROVE  LinkInv'
<1>1. CASE UNCHANGED nameVars
  BY <1>1 DEF nameVars, LinkInv, First, Placed, Object, Reached, Handed, OwnNames, ChildParameter
<1>2. CASE NameNext /\ ~Attach
  <2>1. UNCHANGED <<reports, parameters, links, asks>>
    BY <1>2, Unattached
  <2>2. \A i \in DOMAIN reports["master"].objects : Reached(i)' = Reached(i)
    BY <1>2, ReachedKept
  <2>3. \A i : First(i)' = First(i) /\ Handed(i)' = Handed(i)
    BY <2>1 DEF First, Placed, Object, Handed, ChildParameter
  <2>4. OwnNames' = OwnNames
    BY <2>1 DEF OwnNames, ChildParameter
  <2>5. QED BY <2>1, <2>2, <2>3, <2>4 DEF LinkInv
<1>3. CASE Attach
  <2> DEFINE o == Here.objects[next]
  <2>1. PICK now \in SUBSET Pending :
             /\ now = IF Attachable(o) THEN {i \in Pending : ChildParameter(i).link # "summary"} ELSE {}
             /\ Here = reports["master"] /\ next \in DOMAIN reports["master"].objects
             /\ reports' = reports /\ stage' = "attach" /\ stage = "attach" /\ next' = next + 1
             /\ DOMAIN parameters'["child"] = DOMAIN parameters["child"]
             /\ parameters'["master"] = parameters["master"]
             /\ \A k \in DOMAIN parameters["child"] :
                  parameters'["child"][k] = IF k \in now THEN Alias(ChildParameter(k)) ELSE parameters["child"][k]
             /\ links'[next] = {<<ChildParameter(i).to, Alias(ChildParameter(i))>> : i \in now}
             /\ \A j \in DOMAIN reports["master"].objects : j # next => links'[j] = links[j]
             /\ asks'["child"] = Renamed(asks["child"], now)
             /\ noted["master"] \subseteq noted'["master"] /\ noted'["child"] = noted["child"]
    BY <1>3, Attaching
  <2>2. asks'["child"] \subseteq Range(parameters'["child"])
    <3>1. \A i \in now : i \in DOMAIN parameters["child"] /\ parameters["child"][i] = ChildParameter(i).name
                         /\ parameters'["child"][i] = Alias(ChildParameter(i))
      BY <2>1 DEF Pending, ChildParameter
    <3>2. ASSUME NEW n \in asks["child"]
          PROVE  (IF \E i \in now : ChildParameter(i).name = n
                  THEN Alias(ChildParameter(CHOOSE i \in now : ChildParameter(i).name = n)) ELSE n) \in Range(parameters'["child"])
      <4>1. CASE \E i \in now : ChildParameter(i).name = n
        <5> DEFINE i == CHOOSE i \in now : ChildParameter(i).name = n
        <5>1. i \in now
          BY <4>1
        <5>2. parameters'["child"][i] = Alias(ChildParameter(i)) /\ i \in DOMAIN parameters'["child"]
          BY <5>1, <3>1, <2>1
        <5>3. QED BY <4>1, <5>2 DEF Range
      <4>2. CASE ~\E i \in now : ChildParameter(i).name = n
        <5>1. n \in Range(parameters["child"])
          BY DEF LinkInv
        <5>2. PICK k \in DOMAIN parameters["child"] : parameters["child"][k] = n
          BY <5>1 DEF Range
        <5>3. k \notin now
          BY <4>2, <5>2, <3>1
        <5>4. parameters'["child"][k] = n /\ k \in DOMAIN parameters'["child"]
          BY <5>2, <5>3, <2>1
        <5>5. QED BY <4>2, <5>4 DEF Range
      <4>3. QED BY <4>1, <4>2
    <3>3. asks'["child"] = {IF \E i \in now : ChildParameter(i).name = n
                            THEN Alias(ChildParameter(CHOOSE i \in now : ChildParameter(i).name = n)) ELSE n : n \in asks["child"]}
      BY <2>1 DEF Renamed, ChildParameter
    <3>4. QED BY <3>2, <3>3
  <2>3. ASSUME NEW i \in DOMAIN reports'["master"].objects, First(i)'
        PROVE  IF Reached(i)' THEN Handed(i)' ELSE OwnNames'
    <3>1. First(i) /\ i \in DOMAIN reports["master"].objects
      BY <2>1, <2>3 DEF First, Placed, Object
    <3>2. i \in Nat /\ next \in Nat
      <4>1. IsList(reports["master"].objects)
        BY DumpLists DEF Both
      <4>2. DOMAIN reports["master"].objects = 1..Len(reports["master"].objects) /\ Len(reports["master"].objects) \in Nat
        BY <4>1, Lists
      <4>3. QED BY <4>2, <3>1, <2>1
    <3>3. IF Reached(i) THEN Handed(i) ELSE OwnNames
      BY <3>1 DEF LinkInv
    <3>4. CASE i < next
      <4>1. Reached(i) /\ Reached(i)'
        BY <2>1, <3>2, <3>4 DEF Reached
      <4>2. Handed(i)
        BY <3>3, <4>1
      <4>3. links'[i] = links[i]
        BY <2>1, <3>1, <3>2, <3>4
      <4>4. Handed(i)'
        BY <2>1, <4>2, <4>3 DEF Handed, ChildParameter
      <4>5. QED BY <4>1, <4>4
    <3>5. CASE i = next
      <4>1. ~Reached(i) /\ Reached(i)'
        BY <2>1, <3>2, <3>5 DEF Reached
      <4>2. OwnNames
        BY <3>3, <4>1
      <4>3. Attachable(o)
        BY <2>1, <3>1, <3>5 DEF First, Placed, Object
      <4>4. ASSUME NEW k \in DOMAIN parameters["child"], ChildParameter(k).link \in {"column", "formula"}
            PROVE  k \in now
        BY <2>1, <4>2, <4>3, <4>4 DEF Pending, OwnNames, ChildParameter
      <4>5. Handed(i)'
        BY <2>1, <3>5, <4>4 DEF Handed, ChildParameter
      <4>6. QED BY <4>1, <4>5
    <3>6. CASE next < i
      <4>1. ~Reached(i) /\ ~Reached(i)'
        BY <2>1, <3>2, <3>6 DEF Reached
      <4>2. OwnNames
        BY <3>3, <4>1
      <4>3. ~Attachable(o)
        <5>1. ASSUME Attachable(o) PROVE FALSE
          <6>1. next \in Placed
            BY <2>1, <5>1 DEF Placed, Object
          <6>2. i <= next
            BY <6>1, <3>1 DEF First
          <6>3. QED BY <6>2, <3>2, <3>6
        <5>2. QED BY <5>1
      <4>4. now = {}
        BY <2>1, <4>3
      <4>5. OwnNames'
        BY <2>1, <4>2, <4>4 DEF OwnNames, ChildParameter
      <4>6. QED BY <4>1, <4>5
    <3>7. QED BY <3>2, <3>4, <3>5, <3>6
  <2>4. QED BY <2>2, <2>3 DEF LinkInv
<1>4. QED BY <1>1, <1>2, <1>3

(* What a placement hands over are the names the report asks for.          *)
LEMMA HandedLinks ==
  ASSUME LinkInv
  PROVE  LinksArrive
<1> SUFFICES ASSUME stage = "written"
             PROVE  /\ asks["child"] \subseteq Range(parameters["child"])
                    /\ \A i \in Placed : (\A j \in Placed : i <= j) => Linked(i)
  BY DEF LinksArrive, Written
<1>1. ASSUME NEW i \in Placed, \A j \in Placed : i <= j PROVE Linked(i)
  <2>1. First(i) /\ Reached(i) /\ i \in DOMAIN reports["master"].objects
    BY <1>1 DEF First, Reached, Placed
  <2>2. Handed(i)
    BY <2>1 DEF LinkInv
  <2>3. QED BY <2>2 DEF Handed, Linked, ChildParameter
<1>2. QED BY <1>1 DEF LinkInv

(* A parameter link of a placed report arrives under the name the report's *)
(* selection and formulas ask for, once its bundle is written              *)
(* (_attach_subreports).                                                   *)
THEOREM LinksTheorem == NameSpec => []LinksArrive
<1>1. NameInit => Types /\ PartIsThere /\ LinkInv
  BY TypesBegin, LinksBegin
<1>2. Types /\ PartIsThere /\ LinkInv /\ [NameNext]_nameVars => (Types /\ PartIsThere /\ LinkInv)'
  BY TypesKept, LinksKept
<1>3. Types /\ PartIsThere /\ LinkInv => LinksArrive
  BY HandedLinks
<1>4. QED BY <1>1, <1>2, <1>3, PTL DEF NameSpec

-----------------------------------------------------------------------------
(* The summaries a report knows: each is from a call of the report, with   *)
(* the name the call's words give, or a total that the writer carries. The *)
(* name of a deviation may have been renamed after its window columns.     *)
Wrapped(fn, k, words) ==
  /\ IsList(fn) /\ Len(fn) = k + Len(words)
  /\ \A i \in 1..k : fn[i] = "WF"
  /\ \A i \in 1..Len(words) : fn[k + i] = words[i]

FromCall(s, c) ==
  /\ DOMAIN s = {"name", "op", "of", "by", "fn", "running", "wider"}
  /\ IsCall(c) /\ s.name = Spelled(c) /\ s.of = c.of /\ s.by = c.by /\ s.running = FALSE
  /\ s.wider = IF c.op = "PercentOfSum" THEN c.outer ELSE None
  /\ (s.op \in Deviations) <=> (c.op \in Deviations)
  /\ c.op \in Mapped => s.op = c.op
  /\ c.op = "PercentOfSum" => s.op = "Sum"
  /\ IF s.op \in Deviations THEN \E k \in Nat : Wrapped(s.fn, k, Joined(c)) ELSE s.fn = Joined(c)

FromTotal(r, s) ==
  \E t \in Range(r.totals) : t = KeptTotal(r.totals, t.name) /\ Carried(t) /\ s = Totalled(t, r.groups)

IsEntry(r, s) == (\E c \in CallsOf(r) : FromCall(s, c)) \/ FromTotal(r, s)

KnownList(r, known) ==
  /\ IsList(known) /\ \A i \in 1..Len(known) : IsEntry(r, known[i])
  /\ Len(known) >= Len(ParsedSummaries(r))
  /\ \A i \in 1..Len(ParsedSummaries(r)) : known[i].name = ParsedSummaries(r)[i].name
  /\ Len(r.summaries) <= Len(ParsedSummaries(r))
  /\ \A i \in 1..Len(r.summaries) : FromCall(known[i], r.summaries[i].call) /\ known[i].op = r.summaries[i].stored

(* The calls of a report, and what their spelling and their words tell.    *)
LEMMA CallsAre ==
  ASSUME NEW r, IsReport(r)
  PROVE  /\ \A c \in CallsOf(r) : IsCall(c)
         /\ \A s \in Range(r.summaries) : s.call \in CallsOf(r)
         /\ \A o \in Range(r.objects) :
              /\ \A ref \in Range(o.refs) : ref.kind = "call" => ref.call \in CallsOf(r)
              /\ \A c \in Range(o.styledBy) : c \in CallsOf(r)
<1>1. \A s \in Range(r.summaries) : IsCall(s.call)
  BY DEF IsReport, Stores
<1>2. ASSUME NEW o \in Range(r.objects)
      PROVE  /\ \A ref \in Range(o.refs) : ref.kind = "call" => IsCall(ref.call)
             /\ \A c \in Range(o.styledBy) : IsCall(c)
  <2>1. IsObject(r, o)
    BY DEF IsReport
  <2>2. \A ref \in Range(o.refs) : Refers(r, o, ref)
    BY <2>1 DEF IsObject
  <2>3. QED BY <2>1, <2>2 DEF IsObject, Refers
<1> DEFINE A == {s.call : s \in Range(r.summaries)}
           B(o) == {ref.call : ref \in {x \in Range(o.refs) : x.kind = "call"}}
           P == UNION {B(o) : o \in Range(r.objects)}
           Q == UNION {Range(o.styledBy) : o \in Range(r.objects)}
<1>3. CallsOf(r) = A \union P \union Q
  BY DEF CallsOf
<1>4. \A s \in Range(r.summaries) : s.call \in A
  OBVIOUS
<1>5. \A o \in Range(r.objects) : \A ref \in Range(o.refs) : ref.kind = "call" => ref.call \in P
  OBVIOUS
<1>6. \A o \in Range(r.objects) : \A c \in Range(o.styledBy) : c \in Q
  OBVIOUS
<1>7. \A c \in A : IsCall(c)
  BY <1>1
<1>8. \A c \in P : IsCall(c)
  BY <1>2
<1>9. \A c \in Q : IsCall(c)
  BY <1>2
<1> HIDE DEF A, P, Q
<1>10. QED BY <1>3, <1>4, <1>5, <1>6, <1>7, <1>8, <1>9

LEMMA Spelling ==
  ASSUME NEW c, IsCall(c), NEW d, IsCall(d), Spelled(c) = Spelled(d)
  PROVE  c = d
<1>1. c.kind = d.kind /\ c.op = d.op /\ c.of = d.of /\ c.by = d.by /\ c.outer = d.outer
  BY DEF Spelled
<1>2. QED BY <1>1 DEF IsCall

LEMMA Words ==
  ASSUME NEW c, IsCall(c)
  PROVE  /\ Joined(c) \in Seq(STRING) /\ IsList(Joined(c)) /\ Len(Joined(c)) \in Nat /\ Len(Joined(c)) >= 1
         /\ Joined(c)[1] = c.op /\ c.op # "WF" /\ c.op # "RT"
<1>1. <<c.op>> \in Seq(STRING) /\ c.of \in Seq(STRING) /\ c.by \in Seq(STRING) /\ c.op # "WF" /\ c.op # "RT"
  BY DEF IsCall
<1>2. <<c.op>> \o c.of \in Seq(STRING) /\ Len(<<c.op>> \o c.of) = 1 + Len(c.of) /\ (<<c.op>> \o c.of)[1] = c.op
  BY <1>1
<1> DEFINE head == <<c.op>> \o c.of
<1> HIDE DEF head
<1>3. head \in Seq(STRING) /\ Len(head) >= 1 /\ head[1] = c.op
  BY <1>1, <1>2 DEF head
<1>4. head \o c.by \in Seq(STRING) /\ Len(head \o c.by) >= 1 /\ (head \o c.by)[1] = c.op
  BY <1>1, <1>3
<1>5. Joined(c) = head \o c.by
  BY DEF Joined, head
<1> DEFINE words == head \o c.by
<1> HIDE DEF words
<1>6. words \in Seq(STRING) /\ Len(words) >= 1 /\ words[1] = c.op
  BY <1>4 DEF words
<1>7. Len(words) \in Nat
  BY <1>6
<1>8. IsList(words)
  BY <1>6 DEF IsList, Range
<1>9. QED BY <1>1, <1>5, <1>6, <1>7, <1>8 DEF words

(* Two wrappings of one name are of the same words.                        *)
LEMMA Unwrapping ==
  ASSUME NEW c, IsCall(c), NEW d, IsCall(d), NEW fn, NEW k \in Nat, NEW l \in Nat,
         Wrapped(fn, k, Joined(c)), Wrapped(fn, l, Joined(d))
  PROVE  Joined(c) = Joined(d) /\ k = l
<1> DEFINE u == Joined(c)
           v == Joined(d)
<1>1. /\ u \in Seq(STRING) /\ Len(u) \in Nat /\ Len(u) >= 1 /\ u[1] # "WF"
      /\ v \in Seq(STRING) /\ Len(v) \in Nat /\ Len(v) >= 1 /\ v[1] # "WF"
  BY Words
<1> HIDE DEF u, v
<1>2. /\ Len(fn) = k + Len(u) /\ (\A i \in 1..k : fn[i] = "WF") /\ \A i \in 1..Len(u) : fn[k + i] = u[i]
      /\ Len(fn) = l + Len(v) /\ (\A i \in 1..l : fn[i] = "WF") /\ \A i \in 1..Len(v) : fn[l + i] = v[i]
  BY DEF Wrapped, u, v
<1>3. fn[k + 1] # "WF" /\ fn[l + 1] # "WF"
  BY <1>1, <1>2
<1>4. ~(k < l) /\ ~(l < k)
  BY <1>2, <1>3
<1>5. k = l
  BY <1>4
<1>6. Len(u) = Len(v) /\ \A i \in 1..Len(u) : u[i] = v[i]
  BY <1>1, <1>2, <1>5
<1>7. u = v
  BY <1>1, <1>6
<1>8. QED BY <1>5, <1>7 DEF u, v

(* The name of a summary that is no deviation is its call's words wrapped  *)
(* no further, and every name of one from a call wraps the call's words.   *)
LEMMA NameWraps ==
  ASSUME NEW s, NEW c, FromCall(s, c)
  PROVE  \E k \in Nat : Wrapped(s.fn, k, Joined(c))
<1>1. IsCall(c)
  BY DEF FromCall
<1>2. CASE s.fn = Joined(c)
  <2>1. IsList(Joined(c)) /\ Len(Joined(c)) \in Nat
    BY <1>1, Words
  <2>2. Wrapped(s.fn, 0, Joined(c))
    BY <1>2, <2>1 DEF Wrapped
  <2>3. QED BY <2>2
<1>3. QED BY <1>2 DEF FromCall

LEMMA TotalsName ==
  ASSUME NEW r, IsReport(r), NEW s, FromTotal(r, s)
  PROVE  /\ s.op \in Mapped /\ s.running = TRUE /\ s.fn # <<>> /\ s.fn[1] = "RT"
         /\ \A c \in CallsOf(r) : s.name # Spelled(c)
<1>1. PICK t \in Range(r.totals) : t = KeptTotal(r.totals, t.name) /\ Carried(t) /\ s = Totalled(t, r.groups)
  BY DEF FromTotal
<1>2. s.op = t.op /\ s.running = TRUE /\ s.name = t.name /\ s.fn = <<"RT">> \o t.name
  BY <1>1 DEF Totalled
<1>3. t.name \in Seq(STRING) /\ \A c \in CallsOf(r) : t.name # Spelled(c)
  BY <1>1 DEF IsReport
<1>4. s.fn[1] = "RT" /\ s.fn # <<>>
  BY <1>2, <1>3
<1>5. QED BY <1>1, <1>2, <1>3, <1>4 DEF Carried, Mechanical

(* The variant of a total that is kept is one of them, and names a group   *)
(* when any of them does.                                                  *)
LEMMA KeptVariant ==
  ASSUME NEW totals, IsList(totals), NEW t \in Range(totals)
  PROVE  /\ KeptAt(totals, t.name) \in DOMAIN totals /\ KeptTotal(totals, t.name) \in Range(totals)
         /\ KeptTotal(totals, t.name).name = t.name
         /\ t.on # <<>> => KeptTotal(totals, t.name).on # <<>>
<1> DEFINE same == {i \in DOMAIN totals : totals[i].name = t.name}
           named == {i \in same : totals[i].on # <<>>}
           some == IF named = {} THEN same ELSE named
<1>1. DOMAIN totals = 1..Len(totals) /\ Len(totals) \in Nat
  BY Lists
<1>2. PICK k \in DOMAIN totals : totals[k] = t
  BY <1>1, Lists
<1>3. k \in same /\ (t.on # <<>> => k \in named)
  BY <1>2
<1>4. some \in SUBSET Nat /\ some # {} /\ some \subseteq same
  BY <1>1, <1>3
<1>5. KeptAt(totals, t.name) = Min(some)
  BY DEF KeptAt
<1>6. Min(some) \in some
  BY <1>4, MinIs
<1>7. t.on # <<>> => totals[Min(some)].on # <<>>
  BY <1>3, <1>6
<1>8. Min(some) \in DOMAIN totals /\ totals[Min(some)].name = t.name
  BY <1>4, <1>6
<1>9. QED BY <1>5, <1>7, <1>8 DEF KeptTotal, Range

LEMMA SummarisedIs ==
  ASSUME NEW s, Stores(s)
  PROVE  FromCall(Summarised(s), s.call) /\ Summarised(s).op = s.stored
<1>1. Recovered(s).of = s.call.of /\ Recovered(s).by = s.call.by
  BY DEF Stores, Recovered
<1>2. Summarised(s).op = s.stored /\ Summarised(s).name = Spelled(s.call) /\ Summarised(s).running = FALSE
      /\ Summarised(s).of = s.call.of /\ Summarised(s).by = s.call.by
      /\ Summarised(s).wider = IF s.call.op = "PercentOfSum" THEN s.call.outer ELSE None
  BY <1>1 DEF Summarised
<1>3. Summarised(s).fn = Joined(s.call)
  BY <1>1 DEF Summarised, Named, Joined
<1>4. /\ IsCall(s.call)
      /\ (s.stored \in Deviations) <=> (s.call.op \in Deviations)
      /\ s.call.op \in Mapped => s.stored = s.call.op
      /\ s.call.op = "PercentOfSum" => s.stored = "Sum"
  BY DEF Stores
<1>5. IsList(Joined(s.call)) /\ Len(Joined(s.call)) \in Nat
  BY <1>4, Words
<1>6. Wrapped(Joined(s.call), 0, Joined(s.call))
  BY <1>5 DEF Wrapped
<1>7. DOMAIN Summarised(s) = {"name", "op", "of", "by", "fn", "running", "wider"}
  BY DEF Summarised
<1>8. QED BY <1>2, <1>3, <1>4, <1>6, <1>7 DEF FromCall

(* What parsing gives: the stored summaries, then the totals it keeps.     *)
LEMMA ParsedIs ==
  ASSUME NEW r, IsReport(r)
  PROVE  /\ IsList(ParsedSummaries(r)) /\ Len(r.summaries) \in Nat
         /\ Len(ParsedSummaries(r)) = Len(r.summaries) + Cardinality(KeptTotals(r))
         /\ Cardinality(KeptTotals(r)) \in Nat /\ KeptTotals(r) \in SUBSET (1..Len(r.totals)) /\ Len(r.totals) \in Nat
         /\ \A i \in 1..Len(r.summaries) : ParsedSummaries(r)[i] = Summarised(r.summaries[i])
         /\ \A k \in 1..Cardinality(KeptTotals(r)) :
              ParsedSummaries(r)[Len(r.summaries) + k] = Totalled(r.totals[Nth(KeptTotals(r), k)], r.groups)
<1> DEFINE K == KeptTotals(r)
           A == [i \in 1..Len(r.summaries) |-> Summarised(r.summaries[i])]
           B == [k \in 1..Cardinality(K) |-> Totalled(r.totals[Nth(K, k)], r.groups)]
<1>1. IsList(r.summaries) /\ IsList(r.totals)
  BY DEF IsReport
<1>2. Len(r.summaries) \in Nat /\ Len(r.totals) \in Nat /\ DOMAIN r.totals = 1..Len(r.totals)
  BY <1>1, Lists
<1>3. K \in SUBSET (1..Len(r.totals))
  BY <1>2 DEF KeptTotals
<1>4. Cardinality(K) \in Nat
  BY <1>2, <1>3, NthIs
<1>5. ParsedSummaries(r) = A \o B
  BY DEF ParsedSummaries
<1>6. /\ \A i \in 1..Len(r.summaries) : A[i] = Summarised(r.summaries[i])
      /\ \A k \in 1..Cardinality(K) : B[k] = Totalled(r.totals[Nth(K, k)], r.groups)
  OBVIOUS
<1>7. A = [i \in 1..Len(r.summaries) |-> A[i]] /\ B = [k \in 1..Cardinality(K) |-> B[k]]
  OBVIOUS
<1> HIDE DEF A, B, K
<1>8. IsList(A) /\ Len(A) = Len(r.summaries) /\ IsList(B) /\ Len(B) = Cardinality(K)
  BY <1>2, <1>4, <1>7, Listed
<1>9. /\ IsList(A \o B) /\ Len(A \o B) = Len(A) + Len(B)
      /\ \A i \in 1..Len(A) : (A \o B)[i] = A[i]
      /\ \A k \in 1..Len(B) : (A \o B)[Len(A) + k] = B[k]
  <2>1. IsList(A) /\ IsList(B)
    BY <1>8
  <2>2. QED BY <2>1, Joining
<1>10. QED BY <1>2, <1>3, <1>4, <1>5, <1>6, <1>8, <1>9 DEF K

LEMMA ParsedKnown ==
  ASSUME NEW r, IsReport(r)
  PROVE  /\ KnownList(r, ParsedSummaries(r))
         /\ \A i \in 1..Len(ParsedSummaries(r)) : i \in 1..Len(r.summaries) \/ FromTotal(r, ParsedSummaries(r)[i])
<1> DEFINE n == Len(r.summaries)
           m == Cardinality(KeptTotals(r))
           P == ParsedSummaries(r)
<1>1. /\ IsList(P) /\ n \in Nat /\ m \in Nat /\ Len(P) = n + m
      /\ KeptTotals(r) \in SUBSET (1..Len(r.totals)) /\ Len(r.totals) \in Nat
      /\ \A i \in 1..n : P[i] = Summarised(r.summaries[i])
      /\ \A k \in 1..m : P[n + k] = Totalled(r.totals[Nth(KeptTotals(r), k)], r.groups)
  BY ParsedIs
<1> HIDE DEF n, m, P
<1>2. ASSUME NEW i \in 1..n
      PROVE  FromCall(P[i], r.summaries[i].call) /\ P[i].op = r.summaries[i].stored /\ r.summaries[i].call \in CallsOf(r)
  <2>1. r.summaries[i] \in Range(r.summaries)
    BY Lists DEF IsReport, n
  <2>2. Stores(r.summaries[i])
    BY <2>1 DEF IsReport
  <2>3. QED BY <1>1, <2>1, <2>2, SummarisedIs, CallsAre
<1>3. ASSUME NEW k \in 1..m
      PROVE  FromTotal(r, P[n + k])
  <2> DEFINE j == Nth(KeptTotals(r), k)
  <2>1. j \in KeptTotals(r)
    BY <1>1, NthIs DEF m
  <2>2. j \in DOMAIN r.totals /\ j = KeptAt(r.totals, r.totals[j].name) /\ Carried(r.totals[j])
    BY <2>1 DEF KeptTotals
  <2>3. r.totals[j] \in Range(r.totals) /\ r.totals[j] = KeptTotal(r.totals, r.totals[j].name)
    BY <2>2 DEF Range, KeptTotal
  <2>4. QED BY <1>1, <2>2, <2>3 DEF FromTotal
<1>4. ASSUME NEW i \in 1..Len(P) PROVE IsEntry(r, P[i]) /\ (i \in 1..n \/ FromTotal(r, P[i]))
  <2>1. CASE i <= n
    <3>1. i \in 1..n
      BY <1>1, <2>1
    <3>2. QED BY <1>2, <3>1 DEF IsEntry
  <2>2. CASE i > n
    <3>1. i - n \in 1..m /\ n + (i - n) = i
      BY <1>1, <2>2
    <3>2. FromTotal(r, P[n + (i - n)])
      BY <1>3, <3>1
    <3>3. QED BY <3>1, <3>2 DEF IsEntry
  <2>3. i \in Nat /\ n \in Nat
    BY <1>1
  <2>4. QED BY <2>1, <2>2, <2>3
<1>5. Len(P) \in Nat /\ Len(P) >= n
  BY <1>1
<1>6. QED BY <1>1, <1>2, <1>4, <1>5 DEF KnownList, n, P

(* A total that the writer carries is found by its name among the parsed.  *)
LEMMA CarriedIsParsed ==
  ASSUME NEW r, IsReport(r), NEW t \in Range(r.totals), Carried(KeptTotal(r.totals, t.name))
  PROVE  \E i \in 1..Len(ParsedSummaries(r)) : ParsedSummaries(r)[i].name = t.name
<1> DEFINE j == KeptAt(r.totals, t.name)
           n == Len(r.summaries)
           m == Cardinality(KeptTotals(r))
           P == ParsedSummaries(r)
<1>1. /\ n \in Nat /\ m \in Nat /\ Len(P) = n + m
      /\ KeptTotals(r) \in SUBSET (1..Len(r.totals)) /\ Len(r.totals) \in Nat
      /\ \A k \in 1..m : P[n + k] = Totalled(r.totals[Nth(KeptTotals(r), k)], r.groups)
  BY ParsedIs
<1>2. j \in DOMAIN r.totals /\ r.totals[j] = KeptTotal(r.totals, t.name) /\ r.totals[j].name = t.name
  <2>1. IsList(r.totals)
    BY DEF IsReport
  <2>2. QED BY <2>1, KeptVariant DEF KeptTotal
<1>3. j \in KeptTotals(r)
  BY <1>2 DEF KeptTotals
<1>4. PICK k \in 1..m : Nth(KeptTotals(r), k) = j
  BY <1>1, <1>3, NthIs
<1> HIDE DEF j, n, m, P
<1>5. P[n + k].name = t.name
  <2>1. P[n + k] = Totalled(r.totals[j], r.groups)
    BY <1>1, <1>4
  <2>2. QED BY <1>2, <2>1 DEF Totalled
<1>6. n + k \in 1..Len(P)
  BY <1>1
<1>7. QED BY <1>5, <1>6 DEF P

-----------------------------------------------------------------------------
(* What binding does to the summaries that are known.                      *)

(* A mapped summary stays where it is and as it is.                        *)
Keeps(known, now) ==
  /\ Len(now) >= Len(known)
  /\ \A i \in 1..Len(known) : known[i].op \in Mapped => now[i] = known[i]

LEMMA Prefixing ==
  ASSUME NEW word, NEW s, IsList(s)
  PROVE  /\ IsList(<<word>> \o s) /\ Len(<<word>> \o s) = 1 + Len(s) /\ (<<word>> \o s)[1] = word
         /\ \A i \in 1..Len(s) : (<<word>> \o s)[1 + i] = s[i]
<1> DEFINE one == <<word>>
<1>1. one \in Seq({word}) /\ Len(one) = 1 /\ one[1] = word
  OBVIOUS
<1>2. IsList(one)
  <2>1. Range(one) = {word}
    BY DEF Range
  <2>2. QED BY <1>1, <2>1 DEF IsList
<1> HIDE DEF one
<1>3. QED BY <1>1, <1>2, Joining DEF one

LEMMA Rewrapping ==
  ASSUME NEW fn, NEW k \in Nat, NEW words, Len(words) \in Nat, Wrapped(fn, k, words)
  PROVE  Wrapped(<<"WF">> \o fn, k + 1, words)
<1> DEFINE gn == <<"WF">> \o fn
<1>1. IsList(fn) /\ Len(fn) = k + Len(words)
  BY DEF Wrapped
<1>2. /\ IsList(gn) /\ Len(gn) = 1 + Len(fn) /\ gn[1] = "WF"
      /\ \A i \in 1..Len(fn) : gn[1 + i] = fn[i]
  <2>1. IsList(fn)
    BY <1>1
  <2>2. QED BY ONLY <2>1, Prefixing DEF gn
<1> HIDE DEF gn
<1>3. Len(gn) = (k + 1) + Len(words)
  BY <1>1, <1>2
<1>4. ASSUME NEW i \in 1..(k + 1) PROVE gn[i] = "WF"
  <2>1. CASE i = 1
    BY <1>2, <2>1
  <2>2. CASE i # 1
    <3>1. i - 1 \in 1..k /\ 1 + (i - 1) = i /\ i - 1 \in 1..Len(fn)
      BY <1>1, <2>2
    <3>2. fn[i - 1] = "WF"
      BY <3>1 DEF Wrapped
    <3>3. gn[1 + (i - 1)] = fn[i - 1]
      BY <3>1, <1>2
    <3>4. QED BY <3>1, <3>2, <3>3
  <2>3. QED BY <2>1, <2>2
<1>5. ASSUME NEW i \in 1..Len(words) PROVE gn[(k + 1) + i] = words[i]
  <2>1. k + i \in 1..Len(fn) /\ 1 + (k + i) = (k + 1) + i
    BY <1>1
  <2>2. fn[k + i] = words[i]
    BY DEF Wrapped
  <2>3. gn[1 + (k + i)] = fn[k + i]
    BY <2>1, <1>2
  <2>4. QED BY <2>1, <2>2, <2>3
<1>6. QED BY <1>2, <1>3, <1>4, <1>5 DEF Wrapped, gn

LEMMA Renaming ==
  ASSUME NEW s, NEW c, FromCall(s, c), s.op \in Deviations
  PROVE  FromCall([s EXCEPT !.fn = <<"WF">> \o s.fn], c)
<1> DEFINE t == [s EXCEPT !.fn = <<"WF">> \o s.fn]
<1>1. DOMAIN s = {"name", "op", "of", "by", "fn", "running", "wider"}
  BY DEF FromCall
<1>2. /\ DOMAIN t = {"name", "op", "of", "by", "fn", "running", "wider"} /\ t.fn = <<"WF">> \o s.fn
      /\ t.name = s.name /\ t.op = s.op /\ t.of = s.of /\ t.by = s.by /\ t.running = s.running /\ t.wider = s.wider
  BY <1>1
<1>3. IsCall(c) /\ \E k \in Nat : Wrapped(s.fn, k, Joined(c))
  BY DEF FromCall
<1>4. PICK k \in Nat : Wrapped(s.fn, k, Joined(c))
  BY <1>3
<1>5. Wrapped(<<"WF">> \o s.fn, k + 1, Joined(c)) /\ k + 1 \in Nat
  <2>1. Len(Joined(c)) \in Nat
    BY <1>3, Words
  <2>2. QED BY <1>4, <2>1, Rewrapping
<1> HIDE DEF t
<1>6. QED BY <1>2, <1>5 DEF FromCall, t

LEMMA WindowKnown ==
  ASSUME NEW r, IsReport(r), NEW known, KnownList(r, known), NEW i \in 1..Len(known), known[i].op \in Deviations,
         NEW now, now = [known EXCEPT ![i].fn = <<"WF">> \o known[i].fn]
  PROVE  KnownList(r, now) /\ Keeps(known, now)
<1> DEFINE t == [known[i] EXCEPT !.fn = <<"WF">> \o known[i].fn]
<1>1. IsList(known) /\ Len(known) \in Nat /\ DOMAIN known = 1..Len(known) /\ \A j \in 1..Len(known) : IsEntry(r, known[j])
  BY Lists DEF KnownList
<1>2. now = [known EXCEPT ![i] = t]
  OBVIOUS
<1>3. ASSUME NEW c, FromCall(known[i], c) PROVE FromCall(t, c)
  BY <1>3, Renaming
<1>4. IsEntry(r, t)
  <2>1. known[i].op \notin Mapped
    BY DEF Mapped, Deviations
  <2>2. ~FromTotal(r, known[i])
    BY <2>1, TotalsName
  <2>3. PICK c \in CallsOf(r) : FromCall(known[i], c)
    BY <1>1, <2>2 DEF IsEntry
  <2>4. QED BY <1>3, <2>3 DEF IsEntry
<1>5. t.op = known[i].op /\ t.name = known[i].name
  <2>1. \E c : FromCall(known[i], c)
    <3>1. known[i].op \notin Mapped
      BY DEF Mapped, Deviations
    <3>2. ~FromTotal(r, known[i])
      BY <3>1, TotalsName
    <3>3. QED BY <1>1, <3>2 DEF IsEntry
  <2>2. DOMAIN known[i] = {"name", "op", "of", "by", "fn", "running", "wider"}
    BY <2>1 DEF FromCall
  <2>3. QED BY <2>2
<1> HIDE DEF t
<1>6. DOMAIN now = 1..Len(known) /\ now[i] = t /\ \A j \in 1..Len(known) : j # i => now[j] = known[j]
  BY <1>1, <1>2
<1>7. IsList(now) /\ Len(now) = Len(known)
  <2>1. now = [j \in 1..Len(known) |-> now[j]]
    BY <1>1, <1>2
  <2>2. Len(known) \in Nat
    BY <1>1
  <2>3. QED BY ONLY <2>1, <2>2, Listed
<1>8. \A j \in 1..Len(now) : IsEntry(r, now[j])
  BY <1>1, <1>4, <1>6, <1>7
<1>9. \A j \in 1..Len(known) : now[j].name = known[j].name /\ now[j].op = known[j].op
                              /\ \A c : FromCall(known[j], c) => FromCall(now[j], c)
  BY <1>3, <1>5, <1>6
<1>10. KnownList(r, now)
  <2>1. /\ Len(known) >= Len(ParsedSummaries(r)) /\ Len(r.summaries) <= Len(ParsedSummaries(r))
        /\ Len(r.summaries) \in Nat /\ Len(ParsedSummaries(r)) \in Nat
    <3>1. Len(r.summaries) \in Nat /\ Len(ParsedSummaries(r)) \in Nat
      BY ParsedIs, Lists
    <3>2. QED BY <3>1 DEF KnownList
  <2>2. \A j \in 1..Len(ParsedSummaries(r)) : j \in 1..Len(known)
    BY <1>1, <2>1
  <2>3. \A j \in 1..Len(r.summaries) : j \in 1..Len(known)
    BY <1>1, <2>1
  <2>4. \A j \in 1..Len(ParsedSummaries(r)) : now[j].name = ParsedSummaries(r)[j].name
    BY <1>9, <2>2 DEF KnownList
  <2>5. \A j \in 1..Len(r.summaries) : FromCall(now[j], r.summaries[j].call) /\ now[j].op = r.summaries[j].stored
    BY <1>9, <2>3 DEF KnownList
  <2>6. QED BY <1>7, <1>8, <2>1, <2>4, <2>5 DEF KnownList
<1>11. Keeps(known, now)
  <2>1. known[i].op \notin Mapped
    BY DEF Mapped, Deviations
  <2>2. QED BY <1>1, <1>6, <1>7, <2>1 DEF Keeps
<1>12. QED BY <1>10, <1>11

(* A summary that is found by a call's spelling is from that call, and one *)
(* that is found by the name of a total is a total.                        *)
LEMMA NamedByCall ==
  ASSUME NEW r, IsReport(r), NEW s, IsEntry(r, s), NEW c \in CallsOf(r), s.name = Spelled(c)
  PROVE  FromCall(s, c)
<1>1. ~FromTotal(r, s)
  BY TotalsName
<1>2. PICK d \in CallsOf(r) : FromCall(s, d)
  BY <1>1 DEF IsEntry
<1>3. IsCall(c) /\ IsCall(d) /\ Spelled(c) = Spelled(d)
  BY <1>2, CallsAre DEF FromCall
<1>4. c = d
  BY <1>3, Spelling
<1>5. QED BY <1>2, <1>4

LEMMA NamedByTotal ==
  ASSUME NEW r, IsReport(r), NEW s, IsEntry(r, s), NEW t \in Range(r.totals), s.name = t.name
  PROVE  FromTotal(r, s)
<1>1. \A c \in CallsOf(r) : t.name # Spelled(c)
  BY DEF IsReport
<1>2. \A c \in CallsOf(r) : ~FromCall(s, c)
  BY <1>1 DEF FromCall
<1>3. QED BY <1>2 DEF IsEntry

(* A summary with the words of a mapped call for its name is of its        *)
(* operation: no other wraps these words, and no total begins with them.   *)
LEMMA NamedLikeMapped ==
  ASSUME NEW r, IsReport(r), NEW s, IsEntry(r, s), NEW c, IsCall(c), c.op \in Mapped, s.fn = Joined(c)
  PROVE  s.op \in Mapped
<1>1. CASE FromTotal(r, s)
  BY <1>1, TotalsName
<1>2. ASSUME NEW d \in CallsOf(r), FromCall(s, d) PROVE s.op \in Mapped
  <2>1. IsCall(d) /\ \E k \in Nat : Wrapped(s.fn, k, Joined(d))
    BY <1>2, NameWraps DEF FromCall
  <2>2. PICK k \in Nat : Wrapped(s.fn, k, Joined(d))
    BY <2>1
  <2>3. IsList(Joined(c)) /\ Len(Joined(c)) \in Nat /\ Joined(c)[1] = c.op /\ Joined(d)[1] = d.op
    BY <2>1, Words
  <2>4. Wrapped(s.fn, 0, Joined(c))
    BY <2>3 DEF Wrapped
  <2>5. Joined(c) = Joined(d)
    <3>1. 0 \in Nat
      OBVIOUS
    <3>2. QED BY <2>1, <2>2, <2>4, <3>1, Unwrapping
  <2>6. d.op = c.op
    BY <2>3, <2>5
  <2>7. QED BY <1>2, <2>6 DEF FromCall
<1>3. QED BY <1>1, <1>2 DEF IsEntry

LEMMA SynthesizedKnown ==
  ASSUME NEW r, IsReport(r), NEW known, KnownList(r, known), NEW c \in CallsOf(r), Synthesizable(r, c)
  PROVE  LET now == Synthesized(known, c)
         IN  KnownList(r, now) /\ Keeps(known, now) /\ \E i \in 1..Len(now) : now[i].fn = Joined(c) /\ now[i].op \in Mapped
<1>1. IsCall(c) /\ c.op \in Mapped /\ c.op \notin Deviations /\ c.op # "PercentOfSum"
  BY CallsAre DEF Synthesizable, Mapped, Deviations
<1>2. IsList(known) /\ Len(known) \in Nat /\ DOMAIN known = 1..Len(known) /\ \A j \in 1..Len(known) : IsEntry(r, known[j])
  BY Lists DEF KnownList
<1>3. CASE \E i \in DOMAIN known : known[i].fn = Joined(c)
  <2>1. Synthesized(known, c) = known
    BY <1>3 DEF Synthesized
  <2>2. PICK i \in 1..Len(known) : known[i].fn = Joined(c)
    BY <1>2, <1>3
  <2>3. known[i].op \in Mapped
    BY <1>1, <1>2, <2>2, NamedLikeMapped
  <2>4. Keeps(known, known)
    BY <1>2 DEF Keeps
  <2>5. QED BY <2>1, <2>2, <2>3, <2>4
<1>4. CASE ~\E i \in DOMAIN known : known[i].fn = Joined(c)
  <2> DEFINE s == [name |-> Spelled(c), op |-> c.op, of |-> c.of, by |-> c.by,
                   fn |-> Joined(c), running |-> FALSE, wider |-> None]
             now == Append(known, s)
  <2>1. Synthesized(known, c) = now
    BY <1>4 DEF Synthesized
  <2>2. DOMAIN s = {"name", "op", "of", "by", "fn", "running", "wider"}
    OBVIOUS
  <2>3. FromCall(s, c) /\ s.fn = Joined(c) /\ s.op \in Mapped
    BY <1>1, <2>2 DEF FromCall
  <2> HIDE DEF s
  <2>4. /\ IsList(now) /\ Len(now) = Len(known) + 1
        /\ \A i \in 1..Len(known) : now[i] = known[i]
        /\ now[Len(known) + 1] = s
    BY <1>2, Appended
  <2> HIDE DEF now
  <2>5. \A i \in 1..Len(now) : i \in 1..Len(known) \/ i = Len(known) + 1
    BY <1>2, <2>4
  <2>6. \A i \in 1..Len(now) : IsEntry(r, now[i])
    BY <1>2, <2>3, <2>4, <2>5 DEF IsEntry
  <2>7. /\ Len(known) >= Len(ParsedSummaries(r)) /\ Len(r.summaries) <= Len(ParsedSummaries(r))
        /\ Len(r.summaries) \in Nat /\ Len(ParsedSummaries(r)) \in Nat
    <3>1. Len(r.summaries) \in Nat /\ Len(ParsedSummaries(r)) \in Nat
      BY ParsedIs, Lists
    <3>2. QED BY <3>1 DEF KnownList
  <2>8. (\A j \in 1..Len(ParsedSummaries(r)) : j \in 1..Len(known)) /\ \A j \in 1..Len(r.summaries) : j \in 1..Len(known)
    BY <1>2, <2>7
  <2>9. \A j \in 1..Len(ParsedSummaries(r)) : now[j].name = ParsedSummaries(r)[j].name
    BY <2>4, <2>8 DEF KnownList
  <2>10. \A j \in 1..Len(r.summaries) : FromCall(now[j], r.summaries[j].call) /\ now[j].op = r.summaries[j].stored
    BY <2>4, <2>8 DEF KnownList
  <2>11. Len(now) >= Len(ParsedSummaries(r)) /\ Len(now) >= Len(known)
    BY <1>2, <2>4, <2>7
  <2>12. KnownList(r, now)
    BY <2>4, <2>6, <2>7, <2>9, <2>10, <2>11 DEF KnownList
  <2>13. Keeps(known, now)
    BY <2>4, <2>11 DEF Keeps
  <2>14. Len(known) + 1 \in 1..Len(now)
    BY <1>2, <2>4
  <2>15. now[Len(known) + 1].fn = Joined(c) /\ now[Len(known) + 1].op \in Mapped
    BY <2>3, <2>4
  <2>16. QED BY <2>1, <2>12, <2>13, <2>14, <2>15
<1>5. QED BY <1>3, <1>4

(* What is found is among the known, and has the name.                     *)
LEMMA FoundIs ==
  ASSUME NEW r, IsReport(r), NEW known, KnownList(r, known), NEW name,
         NEW among \in {Len(ParsedSummaries(r)), Len(known)}, Found(known, among, name) # {}
  PROVE  LET i == Max(Found(known, among, name))
         IN  i \in 1..among /\ i \in 1..Len(known) /\ known[i].name = name /\ IsEntry(r, known[i])
<1>1. Len(ParsedSummaries(r)) \in Nat /\ Len(known) \in Nat /\ Len(known) >= Len(ParsedSummaries(r))
  BY ParsedIs, Lists DEF KnownList
<1>2. among \in Nat /\ among <= Len(known)
  BY <1>1
<1>3. Found(known, among, name) \in SUBSET (1..among)
  BY DEF Found
<1>4. Max(Found(known, among, name)) \in Found(known, among, name)
  BY <1>2, <1>3, MaxIs
<1>5. \A i \in 1..among : i \in 1..Len(known)
  BY <1>1, <1>2
<1>6. QED BY <1>3, <1>4, <1>5 DEF Found, KnownList

-----------------------------------------------------------------------------
(* The result of binding one reference. It is honest when it keeps what is *)
(* known and binds calls to the names of their words; it is backed when    *)
(* the name it uses is one the bundle will define or list, or it is noted. *)
Honest(r, known, ws, calls, result) ==
  /\ KnownList(r, result.known) /\ Keeps(known, result.known) /\ ws \subseteq result.windows
  /\ \A c \in calls : /\ c \in CallsOf(r)
                      /\ c.op \in Mapped \union {"PercentOfSum"} => \A n \in result.uses : n = Joined(c)

Shown(r, child, n) == \E p \in Range(r.parameters) : p.name = n /\ (child => p.link = "no")
Uncarried(r, n) == \E t \in Range(r.totals) : t.name = n /\ ByHand(KeptTotal(r.totals, n))

Backed(r, known, ws, child, n) ==
  \/ n \in r.columns \union FormulaNames(r) \union {<<"PageofPages">>}
  \/ \E w \in ws : w.name = n
  \/ \E i \in 1..Len(known) : known[i].op \in Mapped /\ known[i].fn = n
  \/ Shown(r, child, n) \/ Uncarried(r, n)

Backs(r, child, result) ==
  result.noted \/ \A n \in result.uses : Backed(r, result.known, result.windows, child, n)

LEMMA PlainResult ==
  ASSUME NEW r, NEW known, KnownList(r, known), NEW ws, NEW child, NEW result,
         result.known = known, result.windows = ws
  PROVE  Honest(r, known, ws, {}, result)
<1>1. Len(known) \in Nat
  BY Lists DEF KnownList
<1>2. Keeps(known, known)
  BY <1>1 DEF Keeps
<1>3. QED BY <1>2 DEF Honest

LEMMA WindowResult ==
  ASSUME NEW r, IsReport(r), NEW known, KnownList(r, known), NEW ws, NEW child,
         NEW i \in 1..Len(known), known[i].op \in Deviations
  PROVE  LET result == BoundWindow(known, i, ws)
         IN  Honest(r, known, ws, {}, result) /\ Backs(r, child, result)
<1> DEFINE now == [known EXCEPT ![i].fn = <<"WF">> \o known[i].fn]
           alias == <<"WF">> \o known[i].fn
           w == [name |-> alias, op |-> known[i].op, of |-> known[i].of, by |-> known[i].by]
           result == BoundWindow(known, i, ws)
<1>1. KnownList(r, now) /\ Keeps(known, now)
  BY WindowKnown
<1>2. result.known = now /\ result.uses = {alias} /\ result.windows = ws \union {w}
  BY DEF BoundWindow
<1>3. w.name = alias
  OBVIOUS
<1> HIDE DEF now, w, alias, result
<1>4. Honest(r, known, ws, {}, result)
  BY <1>1, <1>2 DEF Honest
<1>5. Backs(r, child, result)
  BY <1>2, <1>3 DEF Backs, Backed
<1>6. QED BY <1>4, <1>5 DEF result

LEMMA SummaryResult ==
  ASSUME NEW r, IsReport(r), NEW known, KnownList(r, known), NEW ws, NEW child, NEW i \in 1..Len(known)
  PROVE  LET result == BoundSummary(known, i, ws)
         IN  Honest(r, known, ws, {}, result) /\ Backs(r, child, result)
<1> DEFINE result == BoundSummary(known, i, ws)
<1>1. CASE known[i].op \in Deviations
  <2>1. result = BoundWindow(known, i, ws)
    BY <1>1 DEF BoundSummary
  <2>2. QED BY <1>1, <2>1, WindowResult
<1>2. CASE known[i].op \notin Mapped \union Deviations
  <2>1. result = Unbound(known, ws)
    BY <1>2 DEF BoundSummary
  <2>2. result.known = known /\ result.windows = ws /\ result.noted
    BY <2>1 DEF Unbound
  <2>3. QED BY <2>2, PlainResult DEF Backs
<1>3. CASE known[i].op \in Mapped /\ known[i].op \notin Deviations
  <2>1. result = Uses(known, known[i].fn, ws)
    BY <1>3 DEF BoundSummary
  <2>2. result.known = known /\ result.windows = ws /\ result.uses = {known[i].fn}
    BY <2>1 DEF Uses
  <2>3. Backs(r, child, result)
    BY <1>3, <2>2 DEF Backs, Backed
  <2>4. QED BY <2>2, <2>3, PlainResult
<1>4. QED BY <1>1, <1>2, <1>3

(* A call is bound to its words. Its name comes to something when the call *)
(* is of a mapped operation, or, among the parsed, when every summary that *)
(* is stored for it is.                                                    *)
Clear(r, c, among) ==
  \/ c.op \in Mapped
  \/ among = Len(ParsedSummaries(r)) /\ \A s \in Range(r.summaries) : s.call = c => s.stored \in Mapped

LEMMA CallResult ==
  ASSUME NEW r, IsReport(r), NEW known, KnownList(r, known), NEW ws, NEW child, NEW c \in CallsOf(r),
         NEW among \in {Len(ParsedSummaries(r)), Len(known)}
  PROVE  LET result == BoundCall(r, known, among, c, ws)
         IN  Honest(r, known, ws, {c}, result) /\ (Clear(r, c, among) => Backs(r, child, result))
<1> DEFINE result == BoundCall(r, known, among, c, ws)
           named == Found(known, among, Spelled(c))
           i == Max(named)
<1>1. IsCall(c)
  BY CallsAre
<1>2. CASE named # {}
  <2>1. i \in 1..among /\ i \in 1..Len(known) /\ known[i].name = Spelled(c) /\ IsEntry(r, known[i])
    BY <1>2, FoundIs
  <2>2. FromCall(known[i], c)
    BY <2>1, NamedByCall
  <2>3. result = Uses(known, known[i].fn, ws)
    BY <1>2 DEF BoundCall
  <2>4. result.known = known /\ result.windows = ws /\ result.uses = {known[i].fn}
    BY <2>3 DEF Uses
  <2>5. c.op \in Mapped \union {"PercentOfSum"} => known[i].fn = Joined(c)
    BY <2>2 DEF FromCall, Mapped, Deviations
  <2>6. ASSUME Clear(r, c, among) PROVE known[i].op \in Mapped
    <3>1. CASE c.op \in Mapped
      BY <3>1, <2>2 DEF FromCall
    <3>2. CASE among = Len(ParsedSummaries(r)) /\ \A s \in Range(r.summaries) : s.call = c => s.stored \in Mapped
      <4>1. known[i].name = ParsedSummaries(r)[i].name
        BY <2>1, <3>2 DEF KnownList
      <4>2. ~FromTotal(r, ParsedSummaries(r)[i])
        BY <4>1, <2>1, TotalsName
      <4>3. i \in 1..Len(r.summaries)
        BY <2>1, <3>2, <4>2, ParsedKnown
      <4>4. FromCall(known[i], r.summaries[i].call) /\ known[i].op = r.summaries[i].stored
        BY <4>3 DEF KnownList
      <4>5. r.summaries[i].call = c
        BY <1>1, <2>1, <4>4, Spelling DEF FromCall
      <4>6. r.summaries[i] \in Range(r.summaries)
        BY <4>3, Lists DEF IsReport
      <4>7. QED BY <3>2, <4>4, <4>5, <4>6
    <3>3. QED BY <2>6, <3>1, <3>2 DEF Clear
  <2> HIDE DEF result, i
  <2>7. Honest(r, known, ws, {c}, result)
    <3>1. Honest(r, known, ws, {}, result)
      BY <2>4, PlainResult
    <3>2. QED BY <2>4, <2>5, <3>1 DEF Honest
  <2>8. Clear(r, c, among) => Backs(r, child, result)
    BY <2>1, <2>4, <2>6 DEF Backs, Backed
  <2>9. QED BY <2>7, <2>8 DEF result
<1>3. CASE named = {} /\ Synthesizable(r, c)
  <2> DEFINE now == Synthesized(known, c)
  <2>1. KnownList(r, now) /\ Keeps(known, now) /\ \E j \in 1..Len(now) : now[j].fn = Joined(c) /\ now[j].op \in Mapped
    BY <1>3, SynthesizedKnown
  <2>2. result = Uses(now, Joined(c), ws)
    BY <1>3 DEF BoundCall
  <2> HIDE DEF result, now
  <2>3. result.known = now /\ result.windows = ws /\ result.uses = {Joined(c)}
    BY <2>2 DEF Uses
  <2>4. Honest(r, known, ws, {c}, result)
    BY <2>1, <2>3 DEF Honest
  <2>5. Backs(r, child, result)
    BY <2>1, <2>3 DEF Backs, Backed
  <2>6. QED BY <2>4, <2>5 DEF result
<1>4. CASE named = {} /\ ~Synthesizable(r, c)
  <2>1. result = Unbound(known, ws)
    BY <1>4 DEF BoundCall
  <2> HIDE DEF result
  <2>2. result.known = known /\ result.windows = ws /\ result.uses = {} /\ result.noted
    BY <2>1 DEF Unbound
  <2>3. Honest(r, known, ws, {c}, result)
    <3>1. Honest(r, known, ws, {}, result)
      BY <2>2, PlainResult
    <3>2. QED BY <2>2, <3>1 DEF Honest
  <2>4. Backs(r, child, result)
    BY <2>2 DEF Backs
  <2>5. QED BY <2>3, <2>4 DEF result
<1>5. QED BY <1>2, <1>3, <1>4

LEMMA ConditionResult ==
  ASSUME NEW r, IsReport(r), NEW known, KnownList(r, known), NEW ws, NEW child, NEW c \in CallsOf(r)
  PROVE  LET result == BoundCondition(r, known, c, ws)
         IN  Honest(r, known, ws, {c}, result) /\ Backs(r, child, result)
<1> DEFINE result == BoundCondition(r, known, c, ws)
<1>1. CASE c.op \in Mapped /\ c.outer = <<>>
  <2>1. result = BoundCall(r, known, Len(known), c, ws)
    BY <1>1 DEF BoundCondition
  <2>2. Clear(r, c, Len(known))
    BY <1>1 DEF Clear
  <2>3. QED BY <2>1, <2>2, CallResult
<1>2. CASE ~(c.op \in Mapped /\ c.outer = <<>>)
  <2>1. result = Unbound(known, ws)
    BY <1>2 DEF BoundCondition
  <2> HIDE DEF result
  <2>2. result.known = known /\ result.windows = ws /\ result.uses = {} /\ result.noted
    BY <2>1 DEF Unbound
  <2>3. Honest(r, known, ws, {}, result) /\ Backs(r, child, result)
    BY <2>2, PlainResult DEF Backs
  <2>4. QED BY <2>2, <2>3 DEF Honest, result
<1>3. QED BY <1>1, <1>2

Fielded(r, n) == ~Fieldless(KeptTotal(r.totals, n))

(* A total that is not found by its name, but has a field, is listed.      *)
LEMMA TotalNotFound ==
  ASSUME NEW r, IsReport(r), NEW known, KnownList(r, known), NEW t \in Range(r.totals),
         Found(known, Len(ParsedSummaries(r)), t.name) = {}, Fielded(r, t.name)
  PROVE  Uncarried(r, t.name)
<1>1. ~\E i \in 1..Len(ParsedSummaries(r)) : ParsedSummaries(r)[i].name = t.name
  BY DEF KnownList, Found
<1>2. ~Carried(KeptTotal(r.totals, t.name))
  BY <1>1, CarriedIsParsed
<1>3. QED BY <1>2 DEF Uncarried, ByHand, Carried, Fielded

Showable(r, child, ref) == ref.kind = "parameter" => Shown(r, child, ref.name)
Prints(r, child, ref) == Showable(r, child, ref) /\ (ref.kind = "summary" => Fielded(r, ref.name))

LEMMA FieldResult ==
  ASSUME NEW r, IsReport(r), NEW known, KnownList(r, known), NEW ws, NEW child,
         NEW o, o.is = "field", NEW ref, Refers(r, o, ref)
  PROVE  LET result == BoundField(r, known, Len(ParsedSummaries(r)), ref, ws)
         IN  Honest(r, known, ws, {}, result) /\ (Prints(r, child, ref) => Backs(r, child, result))
<1> DEFINE among == Len(ParsedSummaries(r))
           result == BoundField(r, known, among, ref, ws)
           named == Found(known, among, ref.name)
<1>1. CASE ref.kind \in {"db", "formula", "parameter"} \/ (ref.kind = "summary" /\ named = {})
           \/ (ref.kind = "group name" /\ ref.name \in Range(r.groups))
  <2>1. result = Uses(known, ref.name, ws)
    BY <1>1 DEF BoundField
  <2>2. Prints(r, child, ref) => Backed(r, known, ws, child, ref.name)
    <3>1. CASE ref.kind = "db"
      BY <3>1 DEF Refers, Backed
    <3>2. CASE ref.kind = "formula"
      BY <3>2 DEF Refers, Backed
    <3>3. CASE ref.kind = "parameter"
      BY <3>3 DEF Prints, Showable, Backed
    <3>4. CASE ref.kind = "summary" /\ named = {}
      <4>1. PICK t \in Range(r.totals) : t.name = ref.name
        BY <3>4 DEF Refers
      <4>2. Fielded(r, t.name) => Uncarried(r, t.name)
        BY <3>4, <4>1, TotalNotFound
      <4>3. QED BY <3>4, <4>1, <4>2 DEF Backed, Prints
    <3>5. CASE ref.kind = "group name" /\ ref.name \in Range(r.groups)
      <4>1. ref.name \in r.columns \union FormulaNames(r)
        BY <3>5 DEF IsReport
      <4>2. QED BY <4>1 DEF Backed
    <3>6. QED BY <1>1, <3>1, <3>2, <3>3, <3>4, <3>5
  <2> HIDE DEF result
  <2>3. result.known = known /\ result.windows = ws /\ result.uses = {ref.name}
    BY <2>1 DEF Uses
  <2>4. Prints(r, child, ref) => Backs(r, child, result)
    BY <2>2, <2>3 DEF Backs
  <2>5. Honest(r, known, ws, {}, result)
    BY <2>3, PlainResult
  <2>6. QED BY <2>4, <2>5 DEF result
<1>2. CASE ref.kind \in {"summary", "display"} /\ named # {}
  <2>1. result = BoundSummary(known, Max(named), ws)
    BY <1>2 DEF BoundField
  <2>2. Max(named) \in 1..Len(known)
    BY <1>2, FoundIs
  <2>3. QED BY <2>1, <2>2, SummaryResult
<1>3. CASE /\ ref.kind \notin {"db", "formula", "parameter"} /\ ~(ref.kind = "summary" /\ named = {})
           /\ ~(ref.kind = "group name" /\ ref.name \in Range(r.groups)) /\ ~(ref.kind \in {"summary", "display"} /\ named # {})
  <2>1. result = Unbound(known, ws)
    BY <1>3 DEF BoundField
  <2> HIDE DEF result
  <2>2. result.known = known /\ result.windows = ws /\ result.noted
    BY <2>1 DEF Unbound
  <2>3. Honest(r, known, ws, {}, result) /\ Backs(r, child, result)
    BY <2>2, PlainResult DEF Backs
  <2>4. QED BY <2>3 DEF result
<1>4. QED BY <1>1, <1>2, <1>3

LEMMA MarkerResult ==
  ASSUME NEW r, IsReport(r), NEW known, KnownList(r, known), NEW ws, NEW child,
         NEW o, o.is = "text", NEW ref, Refers(r, o, ref), ref.kind = "call" => ref.call \in CallsOf(r)
  PROVE  LET result == BoundMarker(r, known, Len(ParsedSummaries(r)), ref, ws)
         IN  /\ Honest(r, known, ws, IF ref.kind = "call" THEN {ref.call} ELSE {}, result)
             /\ Showable(r, child, ref) /\ (ref.kind = "call" => Clear(r, ref.call, Len(ParsedSummaries(r))))
                  => Backs(r, child, result)
<1> DEFINE among == Len(ParsedSummaries(r))
           result == BoundMarker(r, known, among, ref, ws)
           named == Found(known, among, ref.name)
<1>1. CASE ref.kind = "call"
  <2>1. result = BoundCall(r, known, among, ref.call, ws)
    BY <1>1 DEF BoundMarker
  <2>2. QED BY <1>1, <2>1, CallResult
<1>2. CASE ref.kind # "call"
  <2>1. CASE ref.kind \in {"db", "parameter"} \/ (ref.kind = "formula" /\ ref.name \in FormulaNames(r))
    <3>1. result = Uses(known, ref.name, ws)
      BY <2>1 DEF BoundMarker
    <3> HIDE DEF result
    <3>2. result.known = known /\ result.windows = ws /\ result.uses = {ref.name}
      BY <3>1 DEF Uses
    <3>3. Showable(r, child, ref) => Backed(r, known, ws, child, ref.name)
      BY <2>1 DEF Refers, Backed, Showable
    <3>4. Showable(r, child, ref) => Backs(r, child, result)
      BY <3>2, <3>3 DEF Backs
    <3>5. Honest(r, known, ws, {}, result)
      BY <3>2, PlainResult
    <3>6. QED BY <1>2, <3>4, <3>5 DEF result
  <2>2. CASE ref.kind = "summary" /\ named # {}
    <3> DEFINE i == Max(named)
    <3>1. i \in 1..Len(known) /\ known[i].name = ref.name /\ IsEntry(r, known[i])
      BY <2>2, FoundIs
    <3>2. PICK t \in Range(r.totals) : t.name = ref.name
      BY <2>2 DEF Refers
    <3>3. known[i].op \in Mapped
      BY <3>1, <3>2, NamedByTotal, TotalsName
    <3>4. result = Uses(known, known[i].fn, ws)
      BY <2>2 DEF BoundMarker
    <3> HIDE DEF result, i
    <3>5. result.known = known /\ result.windows = ws /\ result.uses = {known[i].fn}
      BY <3>4 DEF Uses
    <3>6. Backs(r, child, result)
      BY <3>1, <3>3, <3>5 DEF Backs, Backed
    <3>7. Honest(r, known, ws, {}, result)
      BY <3>5, PlainResult
    <3>8. QED BY <1>2, <3>6, <3>7 DEF result
  <2>3. CASE ref.kind = "page"
    <3>1. result = Uses(known, <<"PageofPages">>, ws)
      BY <2>3 DEF BoundMarker
    <3> HIDE DEF result
    <3>2. result.known = known /\ result.windows = ws /\ result.uses = {<<"PageofPages">>}
      BY <3>1 DEF Uses
    <3>3. Backs(r, child, result)
      BY <3>2 DEF Backs, Backed
    <3>4. Honest(r, known, ws, {}, result)
      BY <3>2, PlainResult
    <3>5. QED BY <1>2, <3>3, <3>4 DEF result
  <2>4. CASE /\ ref.kind \notin {"db", "parameter", "page"} /\ ~(ref.kind = "formula" /\ ref.name \in FormulaNames(r))
             /\ ~(ref.kind = "summary" /\ named # {})
    <3>1. result = Unbound(known, ws)
      BY <1>2, <2>4 DEF BoundMarker
    <3> HIDE DEF result
    <3>2. result.known = known /\ result.windows = ws /\ result.noted
      BY <3>1 DEF Unbound
    <3>3. Honest(r, known, ws, {}, result) /\ Backs(r, child, result)
      BY <3>2, PlainResult DEF Backs
    <3>4. QED BY <1>2, <3>3 DEF result
  <2>5. QED BY <2>1, <2>2, <2>3, <2>4
<1>3. QED BY <1>1, <1>2

(* A cross-tab shows columns of the query and formulas of the report.      *)
Pivots(r, o) ==
  r.columns \union {ref.name : ref \in {x \in Range(o.refs) : x.kind = "formula" /\ x.name \in FormulaNames(r)}}

LEMMA CrosstabResult ==
  ASSUME NEW r, NEW known, KnownList(r, known), NEW ws, NEW o
  PROVE  LET result == BoundCrosstab(r, known, o.refs, ws)
         IN  Honest(r, known, ws, {}, result) /\ result.uses \subseteq Pivots(r, o)
<1> DEFINE dims == {Dimension(r, ref) : ref \in Range(o.refs)}
           result == BoundCrosstab(r, known, o.refs, ws)
<1>1. CASE None \in dims
  <2>1. result = Unbound(known, ws)
    BY <1>1 DEF BoundCrosstab
  <2> HIDE DEF result
  <2>2. result.known = known /\ result.windows = ws /\ result.uses = {}
    BY <2>1 DEF Unbound
  <2>3. QED BY <2>2, PlainResult DEF result
<1>2. CASE None \notin dims
  <2>1. result = [known |-> known, uses |-> dims, noted |-> FALSE, windows |-> ws]
    BY <1>2 DEF BoundCrosstab
  <2>2. ASSUME NEW ref \in Range(o.refs) PROVE Dimension(r, ref) \in Pivots(r, o)
    <3>1. Dimension(r, ref) # None
      BY <1>2
    <3>2. CASE ref.kind = "formula"
      <4>1. ref.name \in FormulaNames(r) /\ Dimension(r, ref) = ref.name
        BY <3>1, <3>2 DEF Dimension
      <4>2. QED BY <3>2, <4>1 DEF Pivots
    <3>3. CASE ref.kind = "db"
      <4>1. Dimension(r, ref) \in r.columns
        BY <3>1, <3>3 DEF Dimension
      <4>2. QED BY <4>1 DEF Pivots
    <3>4. CASE ref.kind \notin {"formula", "db"}
      BY <3>1, <3>4 DEF Dimension
    <3>5. QED BY <3>2, <3>3, <3>4
  <2>3. dims \subseteq Pivots(r, o)
    BY <2>2
  <2> HIDE DEF result, dims
  <2>4. result.known = known /\ result.windows = ws /\ result.uses = dims
    BY <2>1
  <2>5. QED BY <2>3, <2>4, PlainResult DEF result
<1>3. QED BY <1>1, <1>2

LEMMA NothingResult ==
  ASSUME NEW r, NEW known, KnownList(r, known), NEW ws, NEW child
  PROVE  LET result == Nothing(known, ws)
         IN  Honest(r, known, ws, {}, result) /\ Backs(r, child, result) /\ result.uses = {}
<1> DEFINE result == Nothing(known, ws)
<1>1. result.known = known /\ result.windows = ws /\ result.uses = {}
  BY DEF Nothing
<1> HIDE DEF result
<1>2. Honest(r, known, ws, {}, result) /\ Backs(r, child, result)
  BY <1>1, PlainResult DEF Backs
<1>3. QED BY <1>1, <1>2 DEF result

(* What was backed stays backed.                                           *)
LEMMA StaysBacked ==
  ASSUME NEW r, NEW known, NEW now, Len(known) \in Nat, Len(now) \in Nat, Keeps(known, now),
         NEW ws, NEW later, ws \subseteq later, NEW child, NEW n, Backed(r, known, ws, child, n)
  PROVE  Backed(r, now, later, child, n)
<1>1. CASE \E i \in 1..Len(known) : known[i].op \in Mapped /\ known[i].fn = n
  <2>1. PICK i \in 1..Len(known) : known[i].op \in Mapped /\ known[i].fn = n
    BY <1>1
  <2>2. i \in 1..Len(now) /\ now[i] = known[i]
    BY <2>1 DEF Keeps
  <2>3. QED BY <2>1, <2>2 DEF Backed
<1>2. QED BY <1>1 DEF Backed

-----------------------------------------------------------------------------
(* The invariant: what each report knows, binds, calls its parameters and  *)
(* uses.                                                                   *)
Started(r) ==
  IF r = "child" THEN at = "master" \/ stage # "define" ELSE at = "master" /\ stage # "define"

KnownInv ==
  \A r \in Both :
    IF Started(r) THEN KnownList(reports[r], summaries[r])
    ELSE summaries[r] = <<>> /\ bound[r] = {} /\ \A i \in DOMAIN reports[r].objects : uses[r][i] = {}

BoundInv ==
  \A r \in Both : \A b \in bound[r] :
    /\ b.call \in CallsOf(reports[r])
    /\ b.call.op \in Mapped \union {"PercentOfSum"} => b.name = Joined(b.call)

ParametersInv ==
  \A r \in Both : \A k \in DOMAIN parameters[r] :
    r = "master" \/ reports[r].parameters[k].link = "no" => parameters[r][k] = reports[r].parameters[k].name

UsesInv ==
  \A r \in Both : \A i \in DOMAIN reports[r].objects :
    LET o == Object(r, i) IN
      IF o.is = "crosstab" THEN uses[r][i] \subseteq Pivots(reports[r], o)
      ELSE ~SpellsUnmapped(r, o) /\ ~ShowsLink(r, o) /\ ~ShowsFieldless(r, o) =>
             i \in noted[r] \/ \A n \in uses[r][i] : Backed(reports[r], summaries[r], windows[r], r = "child", n)

WrittenInv ==
  stage = "written" =>
    \A r \in Both : /\ defines[r] = Defined(r)
                    /\ \A i \in DOMAIN reports[r].objects :
                         Object(r, i).is = "crosstab" => i \in noted[r] \/ Uncomputed(reports[r], Object(r, i)) = {}

NamesInv == Types /\ PartIsThere /\ KnownInv /\ BoundInv /\ ParametersInv /\ UsesInv /\ WrittenInv

LEMMA NamesBegin == NameInit => NamesInv
<1> SUFFICES ASSUME NameInit PROVE NamesInv
  OBVIOUS
<1>1. Types /\ PartIsThere
  BY TypesBegin
<1>2. /\ at = "child" /\ stage = "define"
      /\ \A r \in Both : /\ summaries[r] = <<>> /\ bound[r] = {}
                         /\ \A i \in DOMAIN reports[r].objects : uses[r][i] = {}
                         /\ DOMAIN parameters[r] = DOMAIN reports[r].parameters
                         /\ \A k \in DOMAIN parameters[r] : parameters[r][k] = reports[r].parameters[k].name
  BY DEF NameInit
<1>3. KnownInv
  BY <1>2 DEF KnownInv, Started, Both
<1>4. BoundInv /\ ParametersInv
  BY <1>2 DEF BoundInv, ParametersInv
<1>5. UsesInv
  BY <1>2 DEF UsesInv
<1>6. WrittenInv
  BY <1>2 DEF WrittenInv
<1>7. QED BY <1>1, <1>3, <1>4, <1>5, <1>6 DEF NamesInv

(* The result of a step of the walk.                                       *)
Answers(result, calls) ==
  LET o == Here.objects[next] IN
    /\ Honest(Here, summaries[at], windows[at], calls, result)
    /\ IF o.is = "crosstab" THEN result.uses \subseteq Pivots(Here, o)
       ELSE ~SpellsUnmapped(at, o) /\ ~ShowsLink(at, o) /\ ~ShowsFieldless(at, o) => Backs(Here, at = "child", result)

LEMMA WalkResult ==
  ASSUME NamesInv, Resolve \/ Bind
  PROVE  \E result, calls : Records(result, calls) /\ Answers(result, calls)
<1> DEFINE o == Here.objects[next]
           known == summaries[at]
           ws == windows[at]
<1>1. Types /\ PartIsThere /\ at \in Both /\ next \in DOMAIN Here.objects /\ stage \in {"walk", "style"}
  BY Walking DEF NamesInv, Types
<1>2. IsReport(Here) /\ KnownList(Here, known)
  <2>1. Started(at)
    BY <1>1 DEF Started, Both
  <2>2. QED BY <1>1, <2>1, DumpIs DEF NamesInv, KnownInv, Here
<1>3. IsObject(Here, o) /\ o \in Range(Here.objects)
  BY <1>1, PartIs
<1>4. \A ref \in Range(o.refs) : Refers(Here, o, ref) /\ (ref.kind = "call" => ref.call \in CallsOf(Here))
  BY <1>2, <1>3, CallsAre DEF IsObject
<1>5. Parsed = Len(ParsedSummaries(Here))
  BY DEF Parsed
<1>6. ASSUME NEW ref \in Range(o.refs), ~ShowsLink(at, o) PROVE Showable(Here, at = "child", ref)
  <2>1. CASE ref.kind = "parameter"
    <3>1. PICK p \in Range(Here.parameters) : p.name = ref.name
      BY <1>4, <2>1 DEF Refers
    <3>2. at = "child" => p.link = "no"
      BY <1>6, <2>1, <3>1 DEF ShowsLink, Here
    <3>3. QED BY <3>1, <3>2 DEF Showable, Shown
  <2>2. QED BY <2>1 DEF Showable
<1>7. CASE Resolve
  <2>1. CASE ResolveField(o)
    <3> DEFINE ref == Head(o.refs)
               result == BoundField(Here, known, Parsed, ref, ws)
    <3>1. o.is = "field" /\ Records(result, {})
      BY <2>1 DEF ResolveField
    <3>2. ref \in Range(o.refs)
      <4>1. IsList(o.refs) /\ Len(o.refs) = 1
        BY <1>3, <3>1 DEF IsObject
      <4>2. 1 \in 1..Len(o.refs) /\ o.refs[1] \in Range(o.refs)
        BY <4>1, Lists
      <4>3. Head(o.refs) = o.refs[1]
        BY <4>1 DEF IsList
      <4>4. QED BY <4>2, <4>3
    <3>3. Honest(Here, known, ws, {}, result) /\ (Prints(Here, at = "child", ref) => Backs(Here, at = "child", result))
      BY <1>2, <1>4, <1>5, <3>1, <3>2, FieldResult
    <3>4. ASSUME ~ShowsLink(at, o), ~ShowsFieldless(at, o) PROVE Prints(Here, at = "child", ref)
      <4>1. Showable(Here, at = "child", ref)
        BY <1>6, <3>2, <3>4
      <4>2. ASSUME ref.kind = "summary" PROVE Fielded(Here, ref.name)
        <5>1. PICK t \in Range(Here.totals) : t.name = ref.name
          BY <1>4, <3>2, <4>2 DEF Refers
        <5>2. ~Fieldless(KeptTotal(Here.totals, t.name))
          BY <3>1, <3>2, <3>4, <4>2, <5>1 DEF ShowsFieldless, Here
        <5>3. QED BY <5>1, <5>2 DEF Fielded
      <4>3. QED BY <4>1, <4>2 DEF Prints
    <3> HIDE DEF result, ref
    <3>5. Answers(result, {})
      BY <3>1, <3>3, <3>4 DEF Answers
    <3>6. QED BY <3>1, <3>5
  <2>2. CASE ResolveCrosstab(o)
    <3> DEFINE result == BoundCrosstab(Here, known, o.refs, ws)
    <3>1. o.is = "crosstab" /\ Records(result, {})
      BY <2>2 DEF ResolveCrosstab
    <3>2. Honest(Here, known, ws, {}, result) /\ result.uses \subseteq Pivots(Here, o)
      BY <1>2, CrosstabResult
    <3> HIDE DEF result
    <3>3. Answers(result, {})
      BY <3>1, <3>2 DEF Answers
    <3>4. QED BY <3>1, <3>3
  <2>3. CASE ResolveMarker(o)
    <3> DEFINE ref == o.refs[part]
               calls == IF ref.kind = "call" THEN {ref.call} ELSE {}
               result == BoundMarker(Here, known, Parsed, ref, ws)
    <3>1. o.is = "text" /\ o.refs # <<>> /\ Records(result, calls)
      BY <2>3 DEF ResolveMarker
    <3>2. ref \in Range(o.refs)
      BY <1>1, <1>7, <3>1, PartIs DEF Resolve, Looping
    <3>3. /\ Honest(Here, known, ws, calls, result)
          /\ Showable(Here, at = "child", ref) /\ (ref.kind = "call" => Clear(Here, ref.call, Parsed))
               => Backs(Here, at = "child", result)
      BY <1>2, <1>4, <1>5, <3>1, <3>2, MarkerResult
    <3>4. ~SpellsUnmapped(at, o) => (ref.kind = "call" => Clear(Here, ref.call, Parsed))
      BY <1>5, <3>1, <3>2 DEF SpellsUnmapped, Clear, Here
    <3> HIDE DEF result, ref, calls
    <3>5. Answers(result, calls)
      BY <1>6, <3>1, <3>2, <3>3, <3>4 DEF Answers
    <3>6. QED BY <3>1, <3>5
  <2>4. CASE PassOver(o)
    <3> DEFINE result == Nothing(known, ws)
    <3>1. Records(result, {})
      BY <2>4 DEF PassOver
    <3>2. Honest(Here, known, ws, {}, result) /\ Backs(Here, at = "child", result) /\ result.uses = {}
      BY <1>2, NothingResult
    <3> HIDE DEF result
    <3>3. Answers(result, {})
      BY <3>2 DEF Answers
    <3>4. QED BY <3>1, <3>3
  <2>5. QED BY <1>7, <2>1, <2>2, <2>3, <2>4 DEF Resolve
<1>8. CASE Bind
  <2>1. CASE BindCall(o)
    <3> DEFINE c == o.styledBy[part]
               result == BoundCondition(Here, known, c, ws)
    <3>1. o.styledBy # <<>> /\ Records(result, {c})
      BY <2>1 DEF BindCall
    <3>2. c \in CallsOf(Here)
      <4>1. c \in Range(o.styledBy)
        BY <1>1, <1>8, <3>1, PartIs DEF Bind, Looping
      <4>2. QED BY <1>2, <1>3, <4>1, CallsAre
    <3>3. Honest(Here, known, ws, {c}, result) /\ Backs(Here, at = "child", result)
      BY <1>2, <3>2, ConditionResult
    <3>4. o.is # "crosstab"
      BY <1>3, <3>1 DEF IsObject
    <3> HIDE DEF result, c
    <3>5. Answers(result, {c})
      BY <3>3, <3>4 DEF Answers
    <3>6. QED BY <3>1, <3>5
  <2>2. CASE PassPlain(o)
    <3> DEFINE result == Nothing(known, ws)
    <3>1. Records(result, {})
      BY <2>2 DEF PassPlain
    <3>2. Honest(Here, known, ws, {}, result) /\ Backs(Here, at = "child", result) /\ result.uses = {}
      BY <1>2, NothingResult
    <3> HIDE DEF result
    <3>3. Answers(result, {})
      BY <3>2 DEF Answers
    <3>4. QED BY <3>1, <3>3
  <2>3. QED BY <1>8, <2>1, <2>2 DEF Bind
<1>9. QED BY <1>7, <1>8

LEMMA WalkKeepsNames ==
  ASSUME NamesInv, Resolve \/ Bind
  PROVE  NamesInv'
<1>1. Types /\ PartIsThere /\ at \in Both /\ next \in DOMAIN Here.objects /\ stage \in {"walk", "style"}
  BY Walking DEF NamesInv, Types
<1>2. PICK result, calls : Records(result, calls) /\ Answers(result, calls)
  BY WalkResult
<1>3. /\ parameters' = parameters /\ links' = links /\ asks' = asks
      /\ summaries'[at] = result.known /\ windows'[at] = result.windows
      /\ noted[at] \subseteq noted'[at]
      /\ \A r \in Both \ {at} : /\ summaries'[r] = summaries[r] /\ windows'[r] = windows[r]
                              /\ uses'[r] = uses[r] /\ bound'[r] = bound[r] /\ noted'[r] = noted[r]
      /\ uses'[at][next] = uses[at][next] \union result.uses
      /\ \A i \in DOMAIN Here.objects : i # next => uses'[at][i] = uses[at][i]
      /\ (result.noted => next \in noted'[at])
      /\ \A b \in bound'[at] : b \in bound[at] \/ \E c \in calls, n \in result.uses : b = [call |-> c, name |-> n]
  BY <1>1, <1>2, RecordsTypes
<1>4. reports' = reports /\ at' = at /\ stage' = stage
  <2>1. \E n \in Nat : Onward(n)
    BY <1>1, Walking
  <2>2. QED BY <2>1 DEF Onward
<1>5. Types' /\ PartIsThere'
  BY <1>1, WalkKeepsTypes
<1>6. /\ KnownList(Here, result.known) /\ Keeps(summaries[at], result.known) /\ windows[at] \subseteq result.windows
      /\ \A c \in calls : /\ c \in CallsOf(Here)
                          /\ c.op \in Mapped \union {"PercentOfSum"} => \A n \in result.uses : n = Joined(c)
  BY <1>2 DEF Answers, Honest
<1>7. Started(at) /\ \A r \in Both : Started(r)' = Started(r)
  BY <1>1, <1>4 DEF Started, Both
<1>8. KnownInv'
  <2>1. ASSUME NEW r \in Both
        PROVE  IF Started(r)' THEN KnownList(reports'[r], summaries'[r])
               ELSE summaries'[r] = <<>> /\ bound'[r] = {} /\ \A i \in DOMAIN reports'[r].objects : uses'[r][i] = {}
    <3>1. CASE r = at
      BY <1>3, <1>4, <1>6, <1>7, <3>1 DEF Here
    <3>2. CASE r # at
      BY <1>3, <1>4, <1>7, <3>2 DEF NamesInv, KnownInv
    <3>3. QED BY <3>1, <3>2
  <2>2. QED BY <2>1 DEF KnownInv
<1>9. BoundInv'
  <2>1. ASSUME NEW r \in Both, NEW b \in bound'[r]
        PROVE  /\ b.call \in CallsOf(reports[r])
               /\ b.call.op \in Mapped \union {"PercentOfSum"} => b.name = Joined(b.call)
    <3>1. CASE b \in bound[r]
      BY <3>1 DEF NamesInv, BoundInv
    <3>2. CASE b \notin bound[r]
      <4>1. r = at
        BY <1>3, <3>2
      <4>2. PICK c \in calls, n \in result.uses : b = [call |-> c, name |-> n]
        BY <1>3, <3>2, <4>1
      <4>3. b.call = c /\ b.name = n
        BY <4>2
      <4>4. QED BY <1>6, <4>1, <4>2, <4>3 DEF Here
    <3>3. QED BY <3>1, <3>2
  <2>2. QED BY <1>4, <2>1 DEF BoundInv
<1>10. ParametersInv'
  BY <1>3, <1>4 DEF NamesInv, ParametersInv
<1>11. UsesInv'
  <2>1. ASSUME NEW r \in Both, NEW i \in DOMAIN reports[r].objects
        PROVE  LET o == Object(r, i) IN
                 IF o.is = "crosstab" THEN uses'[r][i] \subseteq Pivots(reports[r], o)
                 ELSE ~SpellsUnmapped(r, o) /\ ~ShowsLink(r, o) /\ ~ShowsFieldless(r, o) =>
                        i \in noted'[r] \/ \A n \in uses'[r][i] : Backed(reports[r], summaries'[r], windows'[r], r = "child", n)
    <3> DEFINE o == Object(r, i)
    <3>1. CASE r # at
      BY <1>3, <3>1 DEF NamesInv, UsesInv
    <3>2. CASE r = at
      <4>1. Len(summaries[r]) \in Nat /\ Len(summaries'[r]) \in Nat
        <5>1. IsList(summaries[r]) /\ IsList(summaries'[r])
          BY <1>3, <1>6, <1>7, <3>2 DEF NamesInv, KnownInv, KnownList
        <5>2. QED BY <5>1, Lists
      <4>2. ASSUME NEW n, Backed(reports[r], summaries[r], windows[r], r = "child", n)
            PROVE  Backed(reports[r], summaries'[r], windows'[r], r = "child", n)
        <5>1. Keeps(summaries[r], summaries'[r]) /\ windows[r] \subseteq windows'[r]
          BY <1>3, <1>6, <3>2
        <5>2. QED BY <4>1, <4>2, <5>1, StaysBacked
      <4>3. IF o.is = "crosstab" THEN uses[r][i] \subseteq Pivots(reports[r], o)
            ELSE ~SpellsUnmapped(r, o) /\ ~ShowsLink(r, o) /\ ~ShowsFieldless(r, o) =>
                   i \in noted[r] \/ \A n \in uses[r][i] : Backed(reports[r], summaries[r], windows[r], r = "child", n)
        BY DEF NamesInv, UsesInv
      <4>4. CASE i # next
        <5>1. uses'[r][i] = uses[r][i] /\ noted[r] \subseteq noted'[r]
          BY <1>3, <3>2, <4>4 DEF Here
        <5>2. QED BY <4>2, <4>3, <5>1
      <4>5. CASE i = next
        <5>1. uses'[r][i] = uses[r][i] \union result.uses /\ noted[r] \subseteq noted'[r] /\ (result.noted => i \in noted'[r])
          BY <1>3, <3>2, <4>5
        <5>2. Here = reports[r] /\ Here.objects[next] = o
          BY <3>2, <4>5 DEF Here, Object
        <5>3. IF o.is = "crosstab" THEN result.uses \subseteq Pivots(reports[r], o)
              ELSE ~SpellsUnmapped(r, o) /\ ~ShowsLink(r, o) /\ ~ShowsFieldless(r, o) => Backs(reports[r], r = "child", result)
          BY <1>2, <3>2, <5>2 DEF Answers
        <5>4. CASE o.is = "crosstab"
          BY <4>3, <5>1, <5>3, <5>4
        <5>5. CASE o.is # "crosstab"
          <6>1. Backs(reports[r], r = "child", result) =>
                  result.noted \/ \A n \in result.uses : Backed(reports[r], summaries'[r], windows'[r], r = "child", n)
            BY <1>3, <3>2 DEF Backs
          <6>2. QED BY <4>2, <4>3, <5>1, <5>3, <5>5, <6>1
        <5>6. QED BY <5>4, <5>5
      <4>6. QED BY <4>4, <4>5
    <3>3. QED BY <3>1, <3>2
  <2>2. \A r, o : SpellsUnmapped(r, o)' = SpellsUnmapped(r, o) /\ ShowsLink(r, o)' = ShowsLink(r, o)
                /\ ShowsFieldless(r, o)' = ShowsFieldless(r, o)
    BY <1>4 DEF SpellsUnmapped, ShowsLink, ShowsFieldless
  <2>3. \A r, i : Object(r, i)' = Object(r, i)
    BY <1>4 DEF Object
  <2>4. QED BY <1>4, <2>1, <2>2, <2>3 DEF UsesInv
<1>12. WrittenInv'
  BY <1>1, <1>4 DEF WrittenInv
<1>13. QED BY <1>5, <1>8, <1>9, <1>10, <1>11, <1>12 DEF NamesInv

LEMMA DefineKeepsNames ==
  ASSUME NamesInv, Define
  PROVE  NamesInv'
<1>1. Types /\ PartIsThere /\ at \in Both /\ stage = "define" /\ stage' = "walk"
  BY DEF NamesInv, Types, Define
<1>2. Types' /\ PartIsThere'
  BY <1>1, TypesKept DEF NameNext
<1>3. /\ UNCHANGED <<reports, at, windows, parameters, uses, bound, defines>>
      /\ summaries'[at] = ParsedSummaries(Here)
      /\ \A r \in Both \ {at} : summaries'[r] = summaries[r] /\ noted'[r] = noted[r]
  BY <1>1 DEF Define, Types, Kept
<1>4. ~Started(at) /\ Started(at)' /\ \A r \in Both \ {at} : Started(r)' = Started(r)
  BY <1>1, <1>3 DEF Started, Both
<1>5. bound[at] = {} /\ \A i \in DOMAIN reports[at].objects : uses[at][i] = {}
  BY <1>1, <1>4 DEF NamesInv, KnownInv
<1>6. KnownList(reports[at], summaries'[at])
  BY <1>1, <1>3, DumpIs, ParsedKnown DEF Here
<1>7. KnownInv'
  <2>1. ASSUME NEW r \in Both
        PROVE  IF Started(r)' THEN KnownList(reports'[r], summaries'[r])
               ELSE summaries'[r] = <<>> /\ bound'[r] = {} /\ \A i \in DOMAIN reports'[r].objects : uses'[r][i] = {}
    <3>1. CASE r = at
      BY <1>3, <1>4, <1>6, <3>1
    <3>2. CASE r # at
      BY <1>3, <1>4, <3>2 DEF NamesInv, KnownInv
    <3>3. QED BY <3>1, <3>2
  <2>2. QED BY <2>1 DEF KnownInv
<1>8. BoundInv' /\ ParametersInv'
  BY <1>3 DEF NamesInv, BoundInv, ParametersInv
<1>9. UsesInv'
  <2>1. ASSUME NEW r \in Both, NEW i \in DOMAIN reports[r].objects
        PROVE  LET o == Object(r, i) IN
                 IF o.is = "crosstab" THEN uses'[r][i] \subseteq Pivots(reports[r], o)
                 ELSE ~SpellsUnmapped(r, o) /\ ~ShowsLink(r, o) /\ ~ShowsFieldless(r, o) =>
                        i \in noted'[r] \/ \A n \in uses'[r][i] : Backed(reports[r], summaries'[r], windows'[r], r = "child", n)
    <3>1. CASE r = at
      BY <1>3, <1>5, <3>1
    <3>2. CASE r # at
      BY <1>3, <3>2 DEF NamesInv, UsesInv
    <3>3. QED BY <3>1, <3>2
  <2>2. \A r, o : SpellsUnmapped(r, o)' = SpellsUnmapped(r, o) /\ ShowsLink(r, o)' = ShowsLink(r, o)
                /\ ShowsFieldless(r, o)' = ShowsFieldless(r, o)
    BY <1>3 DEF SpellsUnmapped, ShowsLink, ShowsFieldless
  <2>3. \A r, i : Object(r, i)' = Object(r, i)
    BY <1>3 DEF Object
  <2>4. QED BY <1>3, <2>1, <2>2, <2>3 DEF UsesInv
<1>10. WrittenInv'
  BY <1>1 DEF WrittenInv
<1>11. QED BY <1>2, <1>7, <1>8, <1>9, <1>10 DEF NamesInv

(* What the other steps leave alone: the names and what uses them.         *)
LEMMA QuietKeepsNames ==
  ASSUME NamesInv, Types', PartIsThere', UNCHANGED <<reports, summaries, windows, uses, bound>>,
         \A r \in Both : noted[r] \subseteq noted'[r], \A r \in Both : Started(r)' = Started(r),
         ParametersInv', WrittenInv'
  PROVE  NamesInv'
<1>1. KnownInv' /\ BoundInv'
  BY DEF NamesInv, KnownInv, BoundInv
<1>2. \A r, o : SpellsUnmapped(r, o)' = SpellsUnmapped(r, o) /\ ShowsLink(r, o)' = ShowsLink(r, o)
                /\ ShowsFieldless(r, o)' = ShowsFieldless(r, o)
  BY DEF SpellsUnmapped, ShowsLink, ShowsFieldless
<1>3. \A r, i : Object(r, i)' = Object(r, i)
  BY DEF Object
<1>4. ASSUME NEW r \in Both, NEW i \in DOMAIN reports[r].objects
      PROVE  LET o == Object(r, i) IN
               IF o.is = "crosstab" THEN uses[r][i] \subseteq Pivots(reports[r], o)
               ELSE ~SpellsUnmapped(r, o) /\ ~ShowsLink(r, o) /\ ~ShowsFieldless(r, o) =>
                      i \in noted'[r] \/ \A n \in uses[r][i] : Backed(reports[r], summaries[r], windows[r], r = "child", n)
  BY DEF NamesInv, UsesInv
<1>5. UsesInv'
  BY <1>2, <1>3, <1>4 DEF UsesInv
<1>6. QED BY <1>1, <1>5 DEF NamesInv

LEMMA AttachKeepsParameters ==
  ASSUME NamesInv, Attach
  PROVE  ParametersInv'
<1>1. Types
  BY DEF NamesInv
<1>2. PICK now \in SUBSET Pending :
        /\ reports' = reports /\ DOMAIN parameters'["child"] = DOMAIN parameters["child"]
        /\ parameters'["master"] = parameters["master"]
        /\ \A k \in DOMAIN parameters["child"] :
             parameters'["child"][k] = IF k \in now THEN Alias(ChildParameter(k)) ELSE parameters["child"][k]
  BY <1>1, Attaching
<1>3. \A k \in now : reports["child"].parameters[k].link # "no"
  BY DEF Pending
<1>4. QED BY <1>2, <1>3 DEF NamesInv, ParametersInv, Both

LEMMA NamesKept ==
  ASSUME NamesInv, [NameNext]_nameVars
  PROVE  NamesInv'
<1>1. Types /\ PartIsThere /\ Types' /\ PartIsThere' /\ at \in Both
  BY TypesKept DEF NamesInv, Types
<1>2. CASE Define
  BY <1>2, DefineKeepsNames
<1>3. CASE Resolve \/ Bind
  BY <1>3, WalkKeepsNames
<1>4. CASE LoopEnds
  <2>1. UNCHANGED <<reports, at, summaries, windows, parameters, uses, bound, noted>>
    BY <1>4 DEF LoopEnds
  <2>2. stage \in {"walk", "style", "attach"} /\ stage' \in {"style", "parsed", "attach", "write"}
    BY <1>4 DEF LoopEnds
  <2>3. \A r \in Both : Started(r)' = Started(r)
    BY <2>1, <2>2 DEF Started
  <2>4. ParametersInv' /\ WrittenInv'
    BY <2>1, <2>2 DEF NamesInv, ParametersInv, WrittenInv
  <2>5. QED BY <1>1, <2>1, <2>3, <2>4, QuietKeepsNames
<1>5. CASE Ascend
  <2>1. UNCHANGED <<reports, summaries, windows, parameters, uses, bound, noted>>
    BY <1>5 DEF Ascend
  <2>2. at = "child" /\ stage = "parsed" /\ at' = "master" /\ stage' = "define"
    BY <1>5 DEF Ascend
  <2>3. \A r \in Both : Started(r)' = Started(r)
    BY <2>2 DEF Started, Both
  <2>4. ParametersInv' /\ WrittenInv'
    BY <2>1, <2>2 DEF NamesInv, ParametersInv, WrittenInv
  <2>5. QED BY <1>1, <2>1, <2>3, <2>4, QuietKeepsNames
<1>6. CASE Attach
  <2>1. UNCHANGED <<summaries, windows, uses, bound>>
    BY <1>6 DEF Attach
  <2>2. /\ reports' = reports /\ stage' = "attach" /\ stage = "attach"
        /\ noted["master"] \subseteq noted'["master"] /\ noted'["child"] = noted["child"]
    BY <1>1, <1>6, Attaching
  <2>3. at' = at
    BY <1>6 DEF Attach, Onward
  <2>4. \A r \in Both : Started(r)' = Started(r)
    BY <2>2, <2>3 DEF Started
  <2>5. ParametersInv'
    BY <1>6, AttachKeepsParameters
  <2>6. WrittenInv'
    BY <2>2 DEF WrittenInv
  <2>7. \A r \in Both : noted[r] \subseteq noted'[r]
    BY <2>2 DEF Both
  <2>8. QED BY <1>1, <2>1, <2>2, <2>4, <2>5, <2>6, <2>7, QuietKeepsNames
<1>7. CASE Write
  <2>1. UNCHANGED <<reports, at, summaries, windows, parameters, uses, bound>>
    BY <1>7 DEF Write
  <2>2. stage = "write" /\ stage' = "written"
    BY <1>7 DEF Write
  <2>3. \A r \in Both : Started(r)' = Started(r)
    BY <2>1, <2>2 DEF Started
  <2>4. ParametersInv'
    BY <2>1 DEF NamesInv, ParametersInv
  <2>5. \A r \in Both : /\ noted[r] \subseteq noted'[r]
                        /\ \A i \in DOMAIN reports[r].objects :
                             Object(r, i).is = "crosstab" => i \in noted'[r] \/ Uncomputed(reports[r], Object(r, i)) = {}
    BY <1>7 DEF Write, Object
  <2>6. \A r \in Both : defines'[r] = Defined(r)
    BY <1>7 DEF Write
  <2>7. \A r : Defined(r)' = Defined(r)
    BY <2>1 DEF Defined, Windowed, Functions
  <2>8. WrittenInv'
    BY <2>1, <2>5, <2>6, <2>7 DEF WrittenInv, Object
  <2>9. QED BY <1>1, <2>1, <2>3, <2>4, <2>5, <2>8, QuietKeepsNames
<1>8. CASE UNCHANGED nameVars
  <2>1. UNCHANGED <<reports, at, stage, summaries, windows, parameters, uses, bound, noted, defines>>
    BY <1>8 DEF nameVars
  <2>2. \A r \in Both : Started(r)' = Started(r)
    BY <2>1 DEF Started
  <2>3. ParametersInv'
    BY <2>1 DEF NamesInv, ParametersInv
  <2>4. \A r : Defined(r)' = Defined(r)
    BY <2>1 DEF Defined, Windowed, Functions
  <2>5. WrittenInv'
    BY <2>1, <2>4 DEF NamesInv, WrittenInv, Object
  <2>6. QED BY <1>1, <2>1, <2>2, <2>3, <2>5, QuietKeepsNames
<1>9. QED BY <1>2, <1>3, <1>4, <1>5, <1>6, <1>7, <1>8 DEF NameNext

-----------------------------------------------------------------------------
(* What follows for the bundle.                                            *)
LEMMA KnownWhenWritten ==
  ASSUME NamesInv, NEW r \in Both, Started(r)
  PROVE  /\ IsReport(reports[r]) /\ KnownList(reports[r], summaries[r])
         /\ \A s \in Range(summaries[r]) : IsEntry(reports[r], s)
<1>1. IsReport(reports[r]) /\ KnownList(reports[r], summaries[r])
  BY DumpIs DEF NamesInv, KnownInv
<1>2. IsList(summaries[r]) /\ \A i \in 1..Len(summaries[r]) : IsEntry(reports[r], summaries[r][i])
  BY <1>1 DEF KnownList
<1>3. \A s \in Range(summaries[r]) : IsEntry(reports[r], s)
  BY <1>2, Lists
<1>4. QED BY <1>1, <1>3

LEMMA BoundCallsMean ==
  ASSUME NamesInv
  PROVE  CallsKeepTheirMeaning
<1> SUFFICES ASSUME stage = "written", NEW r \in Both, NEW b \in bound[r], NEW s \in Functions(r),
                    b.call.op \in Mapped \union {"PercentOfSum"}, Alone(reports[r], b.call), s.fn = b.name
             PROVE  Means(s, b.call)
  BY DEF CallsKeepTheirMeaning, Written
<1> DEFINE c == b.call
<1>1. Started(r)
  BY DEF NamesInv, Types, Started
<1>2. IsReport(reports[r]) /\ IsEntry(reports[r], s) /\ s.op \in Mapped
  BY <1>1, KnownWhenWritten DEF Functions
<1>3. c \in CallsOf(reports[r]) /\ s.fn = Joined(c)
  BY DEF NamesInv, BoundInv
<1>4. IsCall(c)
  BY <1>2, <1>3, CallsAre
<1>5. ~FromTotal(reports[r], s)
  <2>1. FromTotal(reports[r], s) => s.fn[1] = "RT"
    BY <1>2, TotalsName
  <2>2. Joined(c)[1] # "RT"
    BY <1>4, Words
  <2>3. QED BY <1>3, <2>1, <2>2
<1>6. PICK d \in CallsOf(reports[r]) : FromCall(s, d)
  BY <1>2, <1>5 DEF IsEntry
<1>7. s.fn = Joined(d)
  BY <1>2, <1>6 DEF FromCall, Mapped, Deviations
<1>8. d = c
  BY <1>3, <1>6, <1>7 DEF Alone
<1>9. FromCall(s, c)
  BY <1>6, <1>8
<1>10. QED
  BY <1>9 DEF FromCall, Means, Mapped

LEMMA FunctionsApart ==
  ASSUME NamesInv
  PROVE  OneFunctionPerName
<1> SUFFICES ASSUME NEW r \in Both, NEW i \in DOMAIN reports[r].summaries \intersect DOMAIN summaries[r],
                    NEW j \in DOMAIN reports[r].summaries \intersect DOMAIN summaries[r],
                    reports[r].summaries[i].call # reports[r].summaries[j].call,
                    Alone(reports[r], reports[r].summaries[i].call), summaries[r][i].fn = summaries[r][j].fn
             PROVE  FALSE
  BY DEF OneFunctionPerName
<1> DEFINE c == reports[r].summaries[i].call
           d == reports[r].summaries[j].call
<1>1. Started(r)
  <2>1. ~Started(r) => summaries[r] = <<>>
    BY DEF NamesInv, KnownInv
  <2>2. QED BY <2>1
<1>2. IsReport(reports[r]) /\ KnownList(reports[r], summaries[r])
  BY <1>1, KnownWhenWritten
<1>3. i \in 1..Len(reports[r].summaries) /\ j \in 1..Len(reports[r].summaries)
      /\ reports[r].summaries[j] \in Range(reports[r].summaries)
  <2>1. IsList(reports[r].summaries)
    BY <1>2 DEF IsReport
  <2>2. QED BY <2>1, Lists
<1>4. FromCall(summaries[r][i], c) /\ FromCall(summaries[r][j], d)
  BY <1>2, <1>3 DEF KnownList
<1>5. d \in CallsOf(reports[r]) /\ IsCall(c) /\ IsCall(d)
  BY <1>2, <1>3, <1>4, CallsAre DEF FromCall
<1>6. PICK k \in Nat : Wrapped(summaries[r][i].fn, k, Joined(c))
  BY <1>4, NameWraps
<1>7. PICK l \in Nat : Wrapped(summaries[r][i].fn, l, Joined(d))
  BY <1>4, NameWraps
<1>8. Joined(c) = Joined(d)
  BY <1>5, <1>6, <1>7, Unwrapping
<1>9. QED BY <1>5, <1>8 DEF Alone

LEMMA TotalsRestart ==
  ASSUME NamesInv
  PROVE  TotalsRestartWhereNamed
<1> SUFFICES ASSUME NEW r \in Both, NEW t \in Range(reports[r].totals), NEW s \in Functions(r),
                    s.running, s.name = t.name, t.resets = "group", t.on # <<>>
             PROVE  s.by = t.on
  BY DEF TotalsRestartWhereNamed
<1>1. Started(r)
  <2>1. ~Started(r) => summaries[r] = <<>>
    BY DEF NamesInv, KnownInv
  <2>2. Range(summaries[r]) # {}
    BY DEF Functions
  <2>3. QED BY <2>1, <2>2 DEF Range
<1>2. IsReport(reports[r]) /\ IsEntry(reports[r], s)
  BY <1>1, KnownWhenWritten DEF Functions
<1>3. PICK u \in Range(reports[r].totals) : u = KeptTotal(reports[r].totals, u.name) /\ s = Totalled(u, reports[r].groups)
  BY <1>2, NamedByTotal DEF FromTotal
<1>4. s.name = u.name /\ s.by = ResetGroup(u, reports[r].groups)
  BY <1>3 DEF Totalled
<1>5. u = KeptTotal(reports[r].totals, t.name)
  BY <1>3, <1>4
<1>6. IsList(reports[r].totals) /\ u.resets = t.resets /\ (t.on = <<>> \/ u.on = <<>> \/ t.on = u.on)
  BY <1>2, <1>4 DEF IsReport
<1>7. u.on # <<>>
  BY <1>5, <1>6, KeptVariant
<1>8. QED BY <1>4, <1>6, <1>7 DEF ResetGroup

(* A name that is backed is defined by the bundle or listed as work.       *)
LEMMA BackedIsLive ==
  ASSUME NamesInv, stage = "written", NEW r \in Both, NEW i \in DOMAIN reports[r].objects, NEW n \in uses[r][i],
         Backed(reports[r], summaries[r], windows[r], r = "child", n)
  PROVE  n \in defines[r] \/ ListedAsWork(r, n)
<1>1. defines[r] = Defined(r)
  BY DEF NamesInv, WrittenInv
<1>2. CASE n \in reports[r].columns
  BY <1>1, <1>2 DEF Defined
<1>3. CASE n \in FormulaNames(reports[r])
  <2>1. PICK f \in reports[r].formulas : f.name = n
    BY <1>3 DEF FormulaNames
  <2>2. CASE f.as = "manual"
    BY <2>1, <2>2 DEF ListedAsWork
  <2>3. CASE f.as # "manual"
    BY <1>1, <2>1, <2>3 DEF Defined
  <2>4. QED BY <2>2, <2>3
<1>4. CASE n = <<"PageofPages">>
  <2>1. i \in DOMAIN uses[r]
    BY DEF NamesInv, Types, Kept
  <2>2. QED BY <1>1, <1>4, <2>1 DEF Defined
<1>5. CASE \E w \in windows[r] : w.name = n
  BY <1>1, <1>5 DEF Defined, Windowed
<1>6. CASE \E k \in 1..Len(summaries[r]) : summaries[r][k].op \in Mapped /\ summaries[r][k].fn = n
  <2>1. PICK k \in 1..Len(summaries[r]) : summaries[r][k].op \in Mapped /\ summaries[r][k].fn = n
    BY <1>6
  <2>2. summaries[r][k] \in Range(summaries[r])
    <3>1. Started(r)
      BY DEF NamesInv, Types, Started
    <3>2. IsList(summaries[r])
      BY <3>1, KnownWhenWritten DEF KnownList
    <3>3. QED BY <3>2, <2>1, Lists
  <2>3. summaries[r][k] \in Functions(r)
    BY <2>1, <2>2 DEF Functions
  <2>4. QED BY <1>1, <2>1, <2>3 DEF Defined
<1>7. CASE Shown(reports[r], r = "child", n)
  <2>1. PICK p \in Range(reports[r].parameters) : p.name = n /\ (r = "child" => p.link = "no")
    BY <1>7 DEF Shown
  <2>2. PICK k \in DOMAIN reports[r].parameters : p = reports[r].parameters[k]
    BY <2>1 DEF Range
  <2>3. k \in DOMAIN parameters[r]
    BY <2>2 DEF NamesInv, Types, Kept
  <2>4. parameters[r][k] = n
    BY <2>1, <2>2, <2>3 DEF NamesInv, ParametersInv, Both
  <2>5. n \in Range(parameters[r])
    BY <2>3, <2>4 DEF Range
  <2>6. QED BY <1>1, <2>5 DEF Defined
<1>8. CASE Uncarried(reports[r], n)
  BY <1>8 DEF Uncarried, ListedAsWork
<1>9. QED BY <1>2, <1>3, <1>4, <1>5, <1>6, <1>7, <1>8 DEF Backed

LEMMA ObjectsLive ==
  ASSUME NamesInv
  PROVE  LiveOrListed
<1> SUFFICES ASSUME stage = "written", NEW r \in Both, NEW i \in DOMAIN reports[r].objects,
                    ~SpellsUnmapped(r, Object(r, i)), ~ShowsLink(r, Object(r, i)),
                    ~ShowsFieldless(r, Object(r, i)), ~PivotsCommand(r, Object(r, i))
             PROVE  Live(r, i)
  BY DEF LiveOrListed, Written
<1> DEFINE o == Object(r, i)
<1>1. CASE o.is = "crosstab"
  <2>1. uses[r][i] \subseteq Pivots(reports[r], o)
    BY <1>1 DEF NamesInv, UsesInv
  <2>2. i \in noted[r] \/ Uncomputed(reports[r], o) = {}
    BY <1>1 DEF NamesInv, WrittenInv
  <2>3. ASSUME Uncomputed(reports[r], o) = {}, NEW n \in uses[r][i] PROVE n \in Reachable(r, i)
    <3>1. n \in Pivots(reports[r], o)
      BY <2>1
    <3>2. CASE n \in reports[r].columns
      BY <1>1, <3>2 DEF Reachable
    <3>3. ASSUME NEW ref \in Range(o.refs), ref.kind = "formula", ref.name \in FormulaNames(reports[r]), n = ref.name
          PROVE  n \in Reachable(r, i)
      <4>1. ~reports[r].command
        BY <1>1 DEF PivotsCommand
      <4>2. Computed(reports[r], ref.name)
        BY <2>3, <3>3, <4>1 DEF Uncomputed
      <4>3. PICK f \in reports[r].formulas : f.name = n
        BY <3>3 DEF FormulaNames
      <4>4. QED BY <1>1, <3>3, <4>2, <4>3 DEF Reachable
    <3>4. QED BY <3>1, <3>2, <3>3 DEF Pivots
  <2>4. QED BY <2>2, <2>3 DEF Live
<1>2. CASE o.is # "crosstab"
  <2>1. i \in noted[r] \/ \A n \in uses[r][i] : Backed(reports[r], summaries[r], windows[r], r = "child", n)
    BY <1>2 DEF NamesInv, UsesInv
  <2>2. \A n \in uses[r][i] : Backed(reports[r], summaries[r], windows[r], r = "child", n) =>
                                n \in Reachable(r, i) \/ ListedAsWork(r, n)
    BY <1>2, BackedIsLive DEF Reachable
  <2>3. QED BY <2>1, <2>2 DEF Live
<1>3. QED BY <1>1, <1>2

LEMMA NamesAlways == NameSpec => []NamesInv
<1>1. NameInit => NamesInv
  BY NamesBegin
<1>2. NamesInv /\ [NameNext]_nameVars => NamesInv'
  BY NamesKept
<1>3. QED BY <1>1, <1>2, PTL DEF NameSpec

(* Every reference of a written bundle is live or on the work list, but    *)
(* for the cases LiveOrListed names (_resolve_references).                 *)
THEOREM NamesLive == NameSpec => []LiveOrListed
<1>1. NamesInv => LiveOrListed
  BY ObjectsLive
<1>2. QED BY <1>1, NamesAlways, PTL

(* A call in a text or a condition is bound to a function that computes it,*)
(* and no two calls that their words tell apart share one function         *)
(* (_parse_summaries, _synthesize_summary, _bind_window_summary).          *)
THEOREM OneMeaning == NameSpec => []CallsMeanOneThing
<1>1. NamesInv => CallsMeanOneThing
  BY BoundCallsMean, FunctionsApart DEF CallsMeanOneThing
<1>2. QED BY <1>1, NamesAlways, PTL

(* A running total restarts with the group one of its variants names       *)
(* (_parse_running_totals).                                                *)
THEOREM NamedRestart == NameSpec => []TotalsRestartWhereNamed
<1>1. NamesInv => TotalsRestartWhereNamed
  BY TotalsRestart
<1>2. QED BY <1>1, NamesAlways, PTL

=============================================================================
